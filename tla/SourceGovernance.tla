-------------------------- MODULE SourceGovernance --------------------------
(***************************************************************************)
(* Which documents the acquisition worker may fetch. An administrator      *)
(* registers a source, another one approves it and grants permission to    *)
(* acquire from it (knowledge/service.py); manifests list its documents    *)
(* and each entry is approved in turn; a run then pins the row versions    *)
(* of the source and of the entries it relies on (ingestion/service.py),   *)
(* which the worker of Ingestion compares with the current ones.           *)
(*                                                                         *)
(* Every command is one READ COMMITTED transaction. A handler whose reads  *)
(* are all of rows it has locked is one step. Those that read rows they    *)
(* do not lock are split at every such read: the import of a manifest, the *)
(* decision on an entry, the creation of a run or a refresh, the           *)
(* authorization of an upload. Between two steps other commands commit.    *)
(*                                                                         *)
(* The caller holds the permission the handler asks for, as AccessControl  *)
(* models it. Owners are sets: a user owns a source in person or as a      *)
(* member of its group. Periods of validity and the deployment's switch    *)
(* for Oracle's pages are left out: both can only withdraw a permission.   *)
(***************************************************************************)
EXTENDS Integers, Sequences, FiniteSets, Functions

CONSTANTS
    Users,         \* administrators
    Sources,       \* rows of kb.source, present or not yet registered
    Keys,          \* manifest keys
    Requests,      \* HTTP requests; each is also an idempotency key
    Owners,        \* sets of users that may own a source
    Manifests,     \* sequences of entries a client may import
    Starts,        \* the stages a source may be in at the start
    NoOne          \* nobody

ASSUME GovernanceAssumption ==
    /\ Owners \subseteq SUBSET Users /\ {} \notin Owners
    /\ Manifests \subseteq Seq(Sources \X Keys)
    /\ \A m \in Manifests : m # <<>> /\ \A i, j \in DOMAIN m : m[i] = m[j] => i = j
    /\ Starts \subseteq [Sources -> {"absent", "manual", "granted"}]
    /\ NoOne \notin Users \cup Requests

VARIABLES
    source,      \* kb.source
    grant,       \* kb.source_acquisition_authorization, append-only
    entry,       \* kb.ingestion_manifest_entry, by source and key
    run,         \* kb.ingestion_run with its items, in the order of creation
    trail,       \* audit.audit_event of each source, in commit order
    sourceLock,  \* FOR UPDATE locks on kb.source held across steps
    entryLock,   \* row locks on kb.ingestion_manifest_entry
    req          \* the requests

rows == <<source, grant, entry, run, trail>>
locks == <<sourceLock, entryLock>>
vars == <<source, grant, entry, run, trail, sourceLock, entryLock, req>>

Entries == Sources \X Keys
Methods == {"DOWNLOAD", "MANUAL_UPLOAD"} \* DOWNLOAD: any of _EXTERNAL_METHODS
SourceOf(e) == e[1]

Absent == [version |-> 0, owners |-> {}, method |-> "DOWNLOAD", status |-> "ACTIVE",
           approval |-> "DRAFT", approver |-> NoOne, access |-> FALSE, refresh |-> "CURRENT"]
NoEntry == [version |-> 0, permission |-> "PENDING", method |-> "DOWNLOAD"]

Commands ==
    [op : {"CREATE"}, source : Sources, owners : Owners, method : Methods]
      \cup [op : {"UPDATE"}, source : Sources, owners : Owners, method : Methods,
            status : {"ACTIVE", "RETIRED"}, expected : Nat]
      \cup [op : {"APPROVE"}, source : Sources, decision : {"APPROVED", "REJECTED"},
            by : Users, expected : Nat]
      \cup [op : {"AUTHORIZE"}, source : Sources, decision : {"APPROVED", "REVOKED"}, expected : Nat]
      \cup [op : {"MARK"}, source : Sources, to : {"REFRESH_DUE", "CURRENT", "STALE"}, expected : Nat]
      \cup [op : {"IMPORT"}, entries : Manifests]
      \cup [op : {"DECIDE"}, entry : Entries, decision : {"APPROVED", "REJECTED"},
            by : Users, expected : Nat]
      \cup [op : {"RUN"}, entries : (SUBSET Entries) \ {{}}]
      \cup [op : {"REFRESH"}, source : Sources, expected : Nat]
      \cup [op : {"UPLOAD"}, entry : Entries]
      \cup [op : {"COMPLETE"}, run : Nat]
NoCommand == [op |-> "NONE"]

Middle == {"working", "ready"}

SourceRow ==
    [version : Nat, owners : Owners \cup {{}}, method : Methods,
     status : {"ACTIVE", "RETIRED"}, approval : {"DRAFT", "APPROVED", "REJECTED"},
     approver : Users \cup {NoOne}, access : BOOLEAN,
     refresh : {"CURRENT", "REFRESH_DUE", "REFRESHING", "STALE"}]
GrantRow == [source : Sources, version : Nat, method : Methods, decision : {"APPROVED", "REVOKED"}]
EntryRow == [version : Nat, method : Methods,
             permission : {"PENDING", "APPROVED", "REJECTED", "NOT_REQUIRED"}]

TypeOK ==
    /\ source \in [Sources -> SourceRow]
    /\ \A s \in Sources : source[s].approver = NoOne <=> source[s].approval # "APPROVED"
    /\ grant \subseteq GrantRow
    /\ entry \in [Entries -> EntryRow]
    /\ sourceLock \in [Sources -> Requests \cup {NoOne}]
    /\ entryLock \in [Entries -> Requests \cup {NoOne}]
    /\ \A r \in Requests :
         /\ req[r].phase \in {"new", "asked", "done", "replayed", "refused", "crashed"} \cup Middle
         /\ req[r].cmd \in Commands \cup {NoCommand} /\ req[r].key \in Requests

(***************************************************************************)
(* Permission.                                                             *)
(***************************************************************************)

Event(what, by) == [what |-> what, by |-> by]

\* The source and one entry that a run relied on, as the transaction read them.
Pin(e, v, w) == [entry |-> e, source |-> v, manifest |-> w]

\* acquisition_permission_reasons(.., external=False) is empty.
Usable(src) == src.status = "ACTIVE" /\ src.approval = "APPROVED"

\* effective_authorization: the record of this very version of the source.
Authorization(s, src) == {g \in grant : g.source = s /\ g.version = src.version}

\* acquisition_permission_reasons(..) is empty.
MayAcquire(s, src) ==
    /\ Usable(src)
    /\ src.method = "DOWNLOAD" /\ src.access
    /\ \E g \in Authorization(s, src) : g.decision = "APPROVED" /\ g.method = src.method

\* _entry_permission_reasons is empty.
EntryPermitted(e, ent, src) ==
    /\ MayAcquire(SourceOf(e), src)
    /\ ent.permission = "APPROVED" /\ ent.method = src.method

\* What the worker asks of an item of a manual upload.
UploadPermitted(ent, src) ==
    Usable(src) /\ ent.permission = "NOT_REQUIRED" /\ ent.method = src.method

(***************************************************************************)
(* The states the system is started in: a source nobody has registered,    *)
(* one for manual uploads, and one whose entries are approved and whose    *)
(* permission has been granted.                                            *)
(***************************************************************************)

Stage(stage, owners, steward) ==
    CASE stage = "absent" -> Absent
      [] stage = "manual" -> [Absent EXCEPT !.version = 2, !.owners = owners,
             !.method = "MANUAL_UPLOAD", !.approval = "APPROVED", !.approver = steward]
      [] stage = "granted" -> [Absent EXCEPT !.version = 3, !.owners = owners,
             !.approval = "APPROVED", !.approver = steward, !.access = TRUE]

History(stage, owner, steward) ==
    CASE stage = "absent" -> <<>>
      [] stage = "manual" -> <<Event("CREATED", owner), Event("APPROVED", steward)>>
      [] stage = "granted" -> <<Event("CREATED", owner), Event("APPROVED", steward),
                                Event("GRANTED", steward)>>

Init ==
    \E start \in Starts, owners \in Owners, owner \in Users, steward \in Users :
      /\ owner \in owners /\ steward \notin owners
      /\ source = [s \in Sources |-> Stage(start[s], owners, steward)]
      /\ grant = {[source |-> s, version |-> 3, method |-> "DOWNLOAD", decision |-> "APPROVED"] :
                    s \in {t \in Sources : start[t] = "granted"}}
      /\ entry = [e \in Entries |-> IF start[SourceOf(e)] = "granted"
                    THEN [version |-> 2, permission |-> "APPROVED", method |-> "DOWNLOAD"]
                    ELSE NoEntry]
      /\ trail = [s \in Sources |-> History(start[s], owner, steward)]
      /\ run = <<>>
      /\ sourceLock = [s \in Sources |-> NoOne]
      /\ entryLock = [e \in Entries |-> NoOne]
      /\ req = [r \in Requests |-> [phase |-> "new", cmd |-> NoCommand, key |-> r, got |-> <<>>]]

(***************************************************************************)
(* Requests, idempotency keys and transactions.                            *)
(***************************************************************************)

Goto(r, phase, got) == req' = [req EXCEPT ![r].phase = phase, ![r].got = got]
Finish(r) == Goto(r, "done", <<>>)

Release(r) ==
    /\ sourceLock' = [s \in Sources |-> IF sourceLock[s] = r THEN NoOne ELSE sourceLock[s]]
    /\ entryLock' = [e \in Entries |-> IF entryLock[e] = r THEN NoOne ELSE entryLock[e]]

\* ROLLBACK: nothing was written, and the claim's row goes with the rest.
Rollback(r, phase) == Goto(r, phase, <<>>) /\ Release(r) /\ UNCHANGED rows

\* INSERT .. ON CONFLICT DO NOTHING waits for a transaction that holds the key.
Unclaimed(r) ==
    /\ req[r].phase = "asked"
    /\ \A q \in Requests : req[q].key = req[r].key => req[q].phase \notin Middle
Completed(r) == \E q \in Requests : req[q].key = req[r].key /\ req[q].phase = "done"

Claims(r, op) == Unclaimed(r) /\ ~Completed(r) /\ req[r].cmd.op = op

\* The commands a client may send about a source, or an entry, it has just read.
OnSource(s) ==
    LET seen == {source[s].version} IN
    [op : {"CREATE"}, source : {s}, owners : Owners, method : Methods]
      \cup [op : {"UPDATE"}, source : {s}, owners : Owners, method : Methods,
            status : {"ACTIVE", "RETIRED"}, expected : seen]
      \cup [op : {"APPROVE"}, source : {s}, decision : {"APPROVED", "REJECTED"}, by : Users, expected : seen]
      \cup [op : {"AUTHORIZE"}, source : {s}, decision : {"APPROVED", "REVOKED"}, expected : seen]
      \cup [op : {"MARK"}, source : {s}, to : {"REFRESH_DUE", "CURRENT", "STALE"}, expected : seen]
      \cup [op : {"REFRESH"}, source : {s}, expected : seen]
OnEntry(e) ==
    [op : {"DECIDE"}, entry : {e}, decision : {"APPROVED", "REJECTED"}, by : Users,
     expected : {entry[e].version}]
      \cup [op : {"UPLOAD"}, entry : {e}]
Offered ==
    (UNION {OnSource(s) : s \in Sources}) \cup (UNION {OnEntry(e) : e \in Entries})
      \cup [op : {"IMPORT"}, entries : Manifests]
      \cup [op : {"RUN"}, entries : (SUBSET Entries) \ {{}}]
      \cup [op : {"COMPLETE"}, run : DOMAIN run]

Ask(r, c) ==
    /\ req[r].phase = "new"
    /\ req' = [req EXCEPT ![r].phase = "asked", ![r].cmd = c]
    /\ UNCHANGED <<rows, locks>>

\* It sends one again, under its key, because no answer came.
AskAgain(r, q) ==
    /\ req[r].phase = "new" /\ req[q].cmd # NoCommand
    /\ req' = [req EXCEPT ![r].phase = "asked", ![r].cmd = req[q].cmd, ![r].key = req[q].key]
    /\ UNCHANGED <<rows, locks>>

\* A completed key answers what the first request left and changes nothing.
Replay(r) ==
    /\ Unclaimed(r) /\ Completed(r)
    /\ Goto(r, "replayed", <<>>) /\ UNCHANGED <<rows, locks>>

\* A reference, a location, a file name or a source code is refused.
Invalid(r) ==
    /\ \E op \in {"CREATE", "UPDATE", "IMPORT", "UPLOAD"} : Claims(r, op)
    /\ Rollback(r, "refused")

\* The process or the connection dies, or PostgreSQL picks the transaction as
\* the victim of a deadlock (two imports take the same entries in other orders).
Crash(r) == req[r].phase \in Middle /\ Rollback(r, "crashed")

(***************************************************************************)
(* Commands on a source: the row is locked, so each is one step.           *)
(***************************************************************************)

SourceFree(s) == sourceLock[s] = NoOne
EntryFree(r, e) == entryLock[e] \in {NoOne, r}

\* The row is written and the change audited; grants and entries stay.
Write(s, src, event) ==
    /\ source' = [source EXCEPT ![s] = src]
    /\ trail' = [trail EXCEPT ![s] = Append(@, event)]
    /\ UNCHANGED <<entry, run, locks>>

Registered(c) == [Absent EXCEPT !.version = 1, !.owners = c.owners, !.method = c.method]

CreateSource(r) ==
    LET c == req[r].cmd IN
    /\ Claims(r, "CREATE") /\ source[c.source].version = 0
    /\ Write(c.source, Registered(c), Event("CREATED", NoOne))
    /\ Finish(r) /\ UNCHANGED grant

\* The row a command names once nobody holds it, if its version is the one
\* the client has seen.
Current(r, op) ==
    /\ Claims(r, op) /\ SourceFree(req[r].cmd.source)
    /\ source[req[r].cmd.source].version > 0
    /\ source[req[r].cmd.source].version = req[r].cmd.expected

\* Mutant of Redefined: the approval survives a new definition.
Redefined_Mutant(src, c) ==
    [src EXCEPT !.owners = c.owners, !.method = c.method, !.status = c.status,
                !.version = @ + 1]

\* A new definition loses the approval and the permission of the old one.
Redefined(src, c) ==
    [src EXCEPT !.owners = c.owners, !.method = c.method, !.status = c.status,
                !.approval = "DRAFT", !.approver = NoOne, !.access = FALSE, !.version = @ + 1]

UpdateSource(r) ==
    LET c == req[r].cmd IN
    /\ Current(r, "UPDATE")
    /\ Write(c.source, Redefined(source[c.source], c), Event("UPDATED", NoOne))
    /\ Finish(r) /\ UNCHANGED grant

Decided(src, c) ==
    [src EXCEPT !.approval = c.decision, !.access = FALSE, !.version = @ + 1,
                !.approver = IF c.decision = "APPROVED" THEN c.by ELSE NoOne]

ApproveSource(r) ==
    LET c == req[r].cmd src == source[c.source] IN
    /\ Current(r, "APPROVE")
    /\ c.by \notin src.owners /\ src.approval # "APPROVED"
    /\ Write(c.source, Decided(src, c), Event(c.decision, c.by))
    /\ Finish(r) /\ UNCHANGED grant

\* The record is of the version the change of the source makes.
Granted(s, src, c) ==
    [source |-> s, version |-> src.version + 1, method |-> src.method, decision |-> c.decision]

\* The method the client names is one of the external ones and the source's own.
AuthorizeAcquisition(r) ==
    LET c == req[r].cmd src == source[c.source] IN
    /\ Current(r, "AUTHORIZE") /\ src.method = "DOWNLOAD"
    /\ c.decision = "REVOKED" \/ Usable(src)
    /\ Write(c.source, [src EXCEPT !.access = (c.decision = "APPROVED"), !.version = @ + 1],
             Event(IF c.decision = "APPROVED" THEN "GRANTED" ELSE "REVOKED", NoOne))
    /\ grant' = grant \cup {Granted(c.source, src, c)}
    /\ Finish(r)

\* Mutant of RefreshTransition: a source can be marked stale from any state.
RefreshTransition_Mutant(from, to) ==
    \/ to = "REFRESH_DUE" /\ from \in {"CURRENT", "STALE"}
    \/ to = "CURRENT" /\ from \in {"REFRESH_DUE", "STALE"}
    \/ to = "STALE"

RefreshTransition(from, to) ==
    \/ to = "REFRESH_DUE" /\ from \in {"CURRENT", "STALE"}
    \/ to = "CURRENT" /\ from \in {"REFRESH_DUE", "STALE"}
    \/ to = "STALE" /\ from \in {"CURRENT", "REFRESH_DUE"}

Marked(src, to) == [src EXCEPT !.refresh = to, !.version = @ + 1]

MarkSource(r) ==
    LET c == req[r].cmd src == source[c.source] IN
    /\ Current(r, "MARK")
    /\ src.status # "RETIRED" /\ RefreshTransition(src.refresh, c.to)
    /\ Write(c.source, Marked(src, c.to), Event("MARKED", NoOne))
    /\ Finish(r) /\ UNCHANGED grant

\* What the handlers above refuse once they hold the row.
RefuseSource(r) ==
    LET c == req[r].cmd IN
    /\ \E op \in {"CREATE", "UPDATE", "APPROVE", "AUTHORIZE", "MARK"} : Claims(r, op)
    /\ SourceFree(c.source)
    /\ LET src == source[c.source] IN
       \/ c.op = "CREATE" /\ src.version > 0
       \/ c.op # "CREATE" /\ (src.version = 0 \/ src.version # c.expected)
       \/ c.op = "APPROVE" /\ (c.by \in src.owners \/ src.approval = "APPROVED")
       \/ c.op = "AUTHORIZE" /\ (src.method # "DOWNLOAD" \/ (c.decision = "APPROVED" /\ ~Usable(src)))
       \/ c.op = "MARK" /\ (src.status = "RETIRED" \/ ~RefreshTransition(src.refresh, c.to))
    /\ Rollback(r, "refused")

(***************************************************************************)
(* Manifests.                                                              *)
(***************************************************************************)

LockEntry(r, e) == entryLock' = [entryLock EXCEPT ![e] = r] /\ UNCHANGED sourceLock

\* The next entry of a manifest: its source is read, not locked, and the row
\* is locked by the upsert. got counts the entries written so far.
ImportEntry(r) ==
    LET i == IF req[r].phase = "working" THEN req[r].got + 1 ELSE 1
        e == req[r].cmd.entries[i] IN
    /\ Claims(r, "IMPORT") \/ (req[r].phase = "working" /\ req[r].cmd.op = "IMPORT")
    /\ source[SourceOf(e)].version > 0 /\ source[SourceOf(e)].method = "DOWNLOAD"
    /\ EntryFree(r, e)
    /\ LockEntry(r, e)
    /\ Goto(r, IF i = Len(req[r].cmd.entries) THEN "ready" ELSE "working", i)
    /\ UNCHANGED rows

RefuseImport(r) ==
    LET i == IF req[r].phase = "working" THEN req[r].got + 1 ELSE 1 IN
    /\ Claims(r, "IMPORT") \/ (req[r].phase = "working" /\ req[r].cmd.op = "IMPORT")
    /\ LET src == source[SourceOf(req[r].cmd.entries[i])] IN
       src.version = 0 \/ src.method # "DOWNLOAD"
    /\ Rollback(r, "refused")

\* Mutant of Imported: an entry imported again keeps its version.
Imported_Mutant(ent) == [version |-> IF ent.version = 0 THEN 1 ELSE ent.version,
                         permission |-> "PENDING", method |-> "DOWNLOAD"]

\* ON CONFLICT DO UPDATE: the permission has to be asked for again.
Imported(ent) == [version |-> ent.version + 1, permission |-> "PENDING", method |-> "DOWNLOAD"]

CommitImport(r) ==
    /\ req[r].phase = "ready" /\ req[r].cmd.op = "IMPORT"
    /\ entry' = [e \in Entries |-> IF e \in Range(req[r].cmd.entries)
                                   THEN Imported(entry[e]) ELSE entry[e]]
    /\ Finish(r) /\ Release(r)
    /\ UNCHANGED <<source, grant, run, trail>>

\* decide_manifest locks the entry and reads its source without a lock.
ReadForDecision(r) ==
    LET e == req[r].cmd.entry src == source[SourceOf(e)] IN
    /\ Claims(r, "DECIDE") /\ EntryFree(r, e)
    /\ IF /\ entry[e].version > 0 /\ entry[e].version = req[r].cmd.expected
          /\ req[r].cmd.by \notin src.owners /\ Usable(src)
       THEN LockEntry(r, e) /\ Goto(r, "ready", <<>>) /\ UNCHANGED rows
       ELSE Rollback(r, "refused")

DecideEntry(r) ==
    LET c == req[r].cmd IN
    /\ req[r].phase = "ready" /\ c.op = "DECIDE"
    /\ entry' = [entry EXCEPT ![c.entry].permission = c.decision, ![c.entry].version = @ + 1]
    /\ Finish(r) /\ Release(r)
    /\ UNCHANGED <<source, grant, run, trail>>

(***************************************************************************)
(* Runs.                                                                   *)
(***************************************************************************)

NewRun(kind, items) == [kind |-> kind, items |-> items, open |-> TRUE,
                        waiting |-> kind = "MANUAL"]

\* One statement reads the entries; then, entry by entry, another reads the
\* source and a third its authorization, which no later change can touch.
\* got holds the entries still to check and the pins taken.
ReadEntries(r) ==
    LET c == req[r].cmd IN
    /\ Claims(r, "RUN")
    /\ IF \A e \in c.entries : entry[e].version > 0
       THEN /\ Goto(r, "working", [left |-> [e \in c.entries |-> entry[e]], pins |-> {}])
            /\ UNCHANGED <<rows, locks>>
       ELSE Rollback(r, "refused")

CheckEntry(r) ==
    /\ req[r].phase = "working" /\ req[r].cmd.op = "RUN"
    /\ LET left == req[r].got.left
           e == CHOOSE x \in DOMAIN left : TRUE
           src == source[SourceOf(e)] IN
       IF EntryPermitted(e, left[e], src)
       THEN /\ Goto(r, IF DOMAIN left = {e} THEN "ready" ELSE "working",
                    [left |-> [x \in DOMAIN left \ {e} |-> left[x]],
                     pins |-> req[r].got.pins \cup {Pin(e, src.version, left[e].version)}])
            /\ UNCHANGED <<rows, locks>>
       ELSE Rollback(r, "refused")

CommitRun(r) ==
    /\ req[r].phase = "ready" /\ req[r].cmd.op = "RUN"
    /\ run' = Append(run, NewRun("ACQUISITION", req[r].got.pins))
    /\ Finish(r) /\ Release(r)
    /\ UNCHANGED <<source, grant, entry, trail>>

\* A refresh takes every approved entry of a source it has locked.
ReadForRefresh(r) ==
    LET s == req[r].cmd.source
        src == source[s]
        approved == {e \in Entries : SourceOf(e) = s /\ entry[e].permission = "APPROVED"} IN
    /\ Claims(r, "REFRESH") /\ SourceFree(s)
    /\ IF /\ src.version > 0 /\ src.status # "RETIRED" /\ src.refresh # "REFRESHING"
          /\ src.version = req[r].cmd.expected
          /\ approved # {} /\ \A e \in approved : EntryPermitted(e, entry[e], src)
       THEN /\ sourceLock' = [sourceLock EXCEPT ![s] = r] /\ UNCHANGED <<rows, entryLock>>
            /\ Goto(r, "ready", {Pin(e, src.version, entry[e].version) : e \in approved})
       ELSE Rollback(r, "refused")

\* start_refresh leaves row_version alone: the permission is pinned to it.
StartRefresh(r) ==
    LET s == req[r].cmd.source IN
    /\ req[r].phase = "ready" /\ req[r].cmd.op = "REFRESH"
    /\ source' = [source EXCEPT ![s].refresh = "REFRESHING"]
    /\ trail' = [trail EXCEPT ![s] = Append(@, Event("REFRESH_STARTED", NoOne))]
    /\ run' = Append(run, NewRun("REFRESH", req[r].got))
    /\ Finish(r) /\ Release(r)
    /\ UNCHANGED <<grant, entry>>

\* The worker has settled every item of a refresh run (Ingestion models how).
RefreshDrains(k) ==
    /\ run[k].open /\ run[k].kind = "REFRESH"
    /\ run' = [run EXCEPT ![k].open = FALSE]
    /\ LET s == SourceOf((CHOOSE p \in run[k].items : TRUE).entry) IN
       IF source[s].refresh = "REFRESHING"
       THEN \E verdict \in {"CURRENT", "STALE"} :
              /\ SourceFree(s)
              /\ source' = [source EXCEPT ![s].refresh = verdict]
              /\ trail' = [trail EXCEPT ![s] = Append(@, Event("REFRESH_COMPLETED", NoOne))]
       ELSE UNCHANGED <<source, trail>>
    /\ UNCHANGED <<grant, entry, locks, req>>

(***************************************************************************)
(* Manual uploads.                                                         *)
(***************************************************************************)

\* The source is read without a lock; the upsert locks the entry.
ReadForUpload(r) ==
    LET e == req[r].cmd.entry src == source[SourceOf(e)] IN
    /\ Claims(r, "UPLOAD")
    /\ IF src.version > 0 /\ src.method = "MANUAL_UPLOAD" /\ Usable(src)
       THEN Goto(r, "working", src.version) /\ UNCHANGED <<rows, locks>>
       ELSE Rollback(r, "refused")

\* An upload of this very file needs no permission of its own.
Uploadable(ent) == [version |-> ent.version + 1, permission |-> "NOT_REQUIRED",
                    method |-> "MANUAL_UPLOAD"]

UpsertUpload(r) ==
    LET e == req[r].cmd.entry IN
    /\ req[r].phase = "working" /\ req[r].cmd.op = "UPLOAD" /\ EntryFree(r, e)
    /\ LockEntry(r, e) /\ Goto(r, "ready", req[r].got) /\ UNCHANGED rows

AuthorizeUpload(r) ==
    LET e == req[r].cmd.entry IN
    /\ req[r].phase = "ready" /\ req[r].cmd.op = "UPLOAD"
    /\ entry' = [entry EXCEPT ![e] = Uploadable(@)]
    /\ run' = Append(run, NewRun("MANUAL", {Pin(e, req[r].got, entry'[e].version)}))
    /\ Finish(r) /\ Release(r)
    /\ UNCHANGED <<source, grant, trail>>

Uploaded(k) == [run EXCEPT ![k].waiting = FALSE]

\* An upload completed twice answers again; an unknown item is refused.
CompleteUpload(r) ==
    LET k == req[r].cmd.run IN
    /\ Claims(r, "COMPLETE")
    /\ IF k \in DOMAIN run /\ run[k].kind = "MANUAL"
       THEN /\ run' = Uploaded(k)
            /\ Finish(r) /\ UNCHANGED <<source, grant, entry, trail, locks>>
       ELSE Rollback(r, "refused")

(***************************************************************************)
(* The system.                                                             *)
(***************************************************************************)

CommandOnSource(r) ==
    \/ CreateSource(r) \/ UpdateSource(r) \/ ApproveSource(r)
    \/ AuthorizeAcquisition(r) \/ MarkSource(r) \/ RefuseSource(r)
CommandOnManifest(r) ==
    ImportEntry(r) \/ RefuseImport(r) \/ CommitImport(r) \/ ReadForDecision(r) \/ DecideEntry(r)
CommandOnRun(r) ==
    \/ ReadEntries(r) \/ CheckEntry(r) \/ CommitRun(r)
    \/ ReadForRefresh(r) \/ StartRefresh(r)
    \/ ReadForUpload(r) \/ UpsertUpload(r) \/ AuthorizeUpload(r) \/ CompleteUpload(r)

Next ==
    \/ \E r \in Requests :
         \/ \E c \in Offered : Ask(r, c)
         \/ \E q \in Requests : AskAgain(r, q)
         \/ Replay(r) \/ Invalid(r) \/ Crash(r)
         \/ CommandOnSource(r) \/ CommandOnManifest(r) \/ CommandOnRun(r)
    \/ \E k \in DOMAIN run : RefreshDrains(k)

Spec == Init /\ [][Next]_vars

(***************************************************************************)
(* Properties.                                                             *)
(***************************************************************************)

\* The events of one source's log that changed its version.
Changes(log) == {i \in DOMAIN log : log[i].what \notin {"REFRESH_STARTED", "REFRESH_COMPLETED"}}

\* The last change granted the permission.
GrantedLast(log) == \E i \in Changes(log) : log[i].what = "GRANTED" /\ \A j \in Changes(log) : j <= i

\* An approval by u that no new definition or decision has followed.
ApprovedSince(log, u) ==
    \E i \in Changes(log) :
      /\ log[i].what = "APPROVED" /\ log[i].by = u
      /\ \A j \in Changes(log) : i < j => log[j].what \in {"GRANTED", "REVOKED", "MARKED"}

\* A source the worker may acquire from was granted that permission by its
\* last change, after an approval, by somebody who does not own it, that no
\* new definition has followed: "the source has not subsequently changed"
\* (knowledge-source-governance.md). update, decide_approval and
\* authorize_acquisition keep it together, each by its own resets.
PermissionEarned ==
    \A s \in Sources : MayAcquire(s, source[s]) =>
      /\ GrantedLast(trail[s])
      /\ \E u \in Users \ source[s].owners : ApprovedSince(trail[s], u)

\* An item whose pins are still the current versions is still permitted: no
\* change that withdraws a permission leaves both versions alone, although
\* create_run, decide_manifest and authorize_manual_upload read rows they do
\* not lock. The worker's comparison of versions rests on it.
PinsSound ==
    \A k \in DOMAIN run : \A p \in run[k].items :
      LET src == source[SourceOf(p.entry)] ent == entry[p.entry] IN
      p.source = src.version /\ p.manifest = ent.version =>
        IF run[k].kind = "MANUAL" THEN UploadPermitted(ent, src)
                                  ELSE EntryPermitted(p.entry, ent, src)

OpenRefreshes(s) ==
    {k \in DOMAIN run : /\ run[k].kind = "REFRESH" /\ run[k].open
                        /\ \A p \in run[k].items : SourceOf(p.entry) = s}

\* A source is REFRESHING exactly while one refresh run of it is open: the
\* administrator's lifecycle commands and the worker's verdict never free a
\* source whose run goes on, and two requests never start two.
OneRefresh ==
    \A s \in Sources : IF source[s].refresh = "REFRESHING" THEN Cardinality(OpenRefreshes(s)) = 1
                                                          ELSE OpenRefreshes(s) = {}
=============================================================================
