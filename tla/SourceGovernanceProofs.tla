----------------------- MODULE SourceGovernanceProofs -----------------------
(***************************************************************************)
(* A permission to acquire is earned, the versions a run pins stand for    *)
(* it, and a source is refreshed once at a time: for any administrators,   *)
(* sources, keys, manifests and requests.                                  *)
(***************************************************************************)
EXTENDS SourceGovernance, FiniteSetTheorems, SequenceTheorems, TLAPS

EventRow ==
    [what : {"CREATED", "UPDATED", "APPROVED", "REJECTED", "GRANTED", "REVOKED", "MARKED",
             "REFRESH_STARTED", "REFRESH_COMPLETED"}, by : Users \cup {NoOne}]
PinRow == [entry : Entries, source : Nat, manifest : Nat]
RunRow == [kind : {"ACQUISITION", "REFRESH", "MANUAL"}, items : SUBSET PinRow,
           open : BOOLEAN, waiting : BOOLEAN]

Phases == {"new", "asked", "done", "replayed", "refused", "crashed"} \cup Middle

RowsTyped ==
    /\ source \in [Sources -> SourceRow]
    /\ \A s \in Sources : source[s].approver = NoOne <=> source[s].approval # "APPROVED"
    /\ grant \subseteq GrantRow
    /\ entry \in [Entries -> EntryRow]
    /\ run \in Seq(RunRow)
    /\ trail \in [Sources -> Seq(EventRow)]

LocksTyped ==
    /\ sourceLock \in [Sources -> Requests \cup {NoOne}]
    /\ entryLock \in [Entries -> Requests \cup {NoOne}]

\* A request is a record, whatever it holds.
IsReq(e) ==
    /\ e \in [phase : Phases, cmd : Commands \cup {NoCommand}, key : Requests, got : {e.got}]
ReqTyped ==
    /\ req = [r \in Requests |-> req[r]]
    /\ \A r \in Requests : IsReq(req[r])

\* What the log of a source says of its row; a grant is of a version the source
\* has or had.
EarnedAt(s) ==
    /\ source[s].approval = "APPROVED" =>
         source[s].approver \in Users \ source[s].owners
         /\ ApprovedSince(trail[s], source[s].approver)
    /\ \A g \in grant : g.source = s =>
         /\ g.version <= source[s].version
         /\ g.version = source[s].version /\ g.decision = "APPROVED" => GrantedLast(trail[s])
    /\ source[s].version = 0 => source[s].refresh = "CURRENT"
Earned == \A s \in Sources : EarnedAt(s)

\* A pin is of versions that were, and while they are, the item is permitted.
PinOld(p) ==
    p.source <= source[SourceOf(p.entry)].version /\ p.manifest <= entry[p.entry].version
PinNow(p) ==
    p.source = source[SourceOf(p.entry)].version /\ p.manifest = entry[p.entry].version
AcquiredPin(p) ==
    PinOld(p) /\ (PinNow(p) => EntryPermitted(p.entry, entry[p.entry], source[SourceOf(p.entry)]))
UploadedPin(p) ==
    PinOld(p) /\ (PinNow(p) => UploadPermitted(entry[p.entry], source[SourceOf(p.entry)]))

Pinned ==
    \A k \in DOMAIN run : \A p \in run[k].items :
        IF run[k].kind = "MANUAL" THEN UploadedPin(p) ELSE AcquiredPin(p)

\* What a handler between its reads relies on. The entries it has not checked
\* are snapshots, perhaps old ones; a source it read may have changed since.
Snapshot(e, ent) ==
    /\ e \in Entries /\ ent \in EntryRow /\ ent.version <= entry[e].version
    /\ ent.version = entry[e].version => ent = entry[e]
RunReads(r) ==
    /\ req[r].phase = "working" =>
         /\ DOMAIN req[r].got.left # {}
         /\ \A e \in DOMAIN req[r].got.left : Snapshot(e, req[r].got.left[e])
    /\ req[r].got.pins \subseteq PinRow /\ \A p \in req[r].got.pins : AcquiredPin(p)
RefreshReads(r) ==
    /\ req[r].got \subseteq PinRow /\ req[r].got # {}
    /\ \A p \in req[r].got : AcquiredPin(p) /\ SourceOf(p.entry) = req[r].cmd.source
UploadReads(r) ==
    LET src == source[SourceOf(req[r].cmd.entry)] IN
    /\ req[r].got \in Nat /\ req[r].got <= src.version
    /\ req[r].got = src.version => Usable(src) /\ src.method = "MANUAL_UPLOAD"

\* A refresh under way holds the source, which nobody else is refreshing.
Holds(r) ==
    LET s == req[r].cmd.source IN
    sourceLock[s] = r /\ source[s].refresh # "REFRESHING" /\ source[s].version > 0

Serving(r) ==
    req[r].phase \in Middle =>
      /\ req[r].cmd.op = "RUN" => RunReads(r)
      /\ req[r].cmd.op = "REFRESH" => RefreshReads(r) /\ Holds(r)
      /\ req[r].cmd.op = "UPLOAD" => UploadReads(r)
Reads == \A r \in Requests : Serving(r)

\* A refresh run is of one source, and there is one as long as it refreshes.
OfOneSource ==
    \A k \in DOMAIN run : run[k].kind = "REFRESH" =>
      run[k].items # {} /\ \E s \in Sources : \A p \in run[k].items : SourceOf(p.entry) = s
Refreshing ==
    \A s \in Sources : IF source[s].refresh = "REFRESHING" THEN \E k : OpenRefreshes(s) = {k}
                                                          ELSE OpenRefreshes(s) = {}

IInv ==
    /\ RowsTyped /\ LocksTyped /\ ReqTyped
    /\ Earned /\ Pinned /\ Reads /\ OfOneSource /\ Refreshing

-----------------------------------------------------------------------------
(* The log of a source                                                     *)

LEMMA LogAppend ==
  ASSUME NEW t \in Seq(EventRow), NEW e \in EventRow, NEW v, v = Append(t, e)
  PROVE  /\ v \in Seq(EventRow)
         /\ e.what \in {"REFRESH_STARTED", "REFRESH_COMPLETED"} /\ GrantedLast(t) => GrantedLast(v)
         /\ e.what = "GRANTED" => GrantedLast(v)
         /\ \A u : /\ e.what = "APPROVED" /\ e.by = u => ApprovedSince(v, u)
                   /\ e.what \in {"GRANTED", "REVOKED", "MARKED", "REFRESH_STARTED",
                                  "REFRESH_COMPLETED"} /\ ApprovedSince(t, u)
                        => ApprovedSince(v, u)
  <1> DEFINE n == Len(t)
             Unversioned == {"REFRESH_STARTED", "REFRESH_COMPLETED"}
  <1>1. /\ v \in Seq(EventRow) /\ n \in Nat /\ DOMAIN t = 1..n /\ DOMAIN v = 1..(n + 1)
        /\ \A i \in 1..n : v[i] = t[i]
        /\ v[n + 1] = e
    BY AppendProperties, LenProperties
  <1> HIDE DEF n
  <1>2. Changes(t) = {i \in 1..n : t[i].what \notin Unversioned}
    BY <1>1 DEF Changes
  <1>3. Changes(v) = Changes(t) \cup (IF e.what \in Unversioned THEN {} ELSE {n + 1})
    BY <1>1, <1>2 DEF Changes
  <1>4. /\ \A i \in Changes(t) : i \in Changes(v) /\ v[i] = t[i] /\ i < n + 1
        /\ \A i \in Changes(v) : i <= n + 1 /\ ~ (n + 1 < i)
    BY <1>1, <1>2, <1>3
  <1>5. e.what \in Unversioned /\ GrantedLast(t) => GrantedLast(v)
    BY <1>3, <1>4 DEF GrantedLast
  <1>6. e.what = "GRANTED" => GrantedLast(v)
    BY <1>1, <1>3, <1>4 DEF GrantedLast
  <1>7. ASSUME NEW u, e.what = "APPROVED", e.by = u
        PROVE  ApprovedSince(v, u)
    <2>1. n + 1 \in Changes(v) /\ v[n + 1].what = "APPROVED" /\ v[n + 1].by = u
      BY <1>1, <1>3, <1>7
    <2>2. QED
      BY <1>4, <2>1 DEF ApprovedSince
  <1>8. ASSUME NEW u, e.what \in {"GRANTED", "REVOKED", "MARKED"} \cup Unversioned,
               ApprovedSince(t, u)
        PROVE  ApprovedSince(v, u)
    <2>1. PICK i \in Changes(t) :
            /\ t[i].what = "APPROVED" /\ t[i].by = u
            /\ \A j \in Changes(t) : i < j => t[j].what \in {"GRANTED", "REVOKED", "MARKED"}
      BY <1>8 DEF ApprovedSince
    <2>2. \A j \in Changes(v) : i < j => v[j].what \in {"GRANTED", "REVOKED", "MARKED"}
      BY <1>1, <1>3, <1>4, <1>8, <2>1
    <2>3. QED
      BY <1>4, <2>1, <2>2 DEF ApprovedSince
  <1>9. QED
    BY <1>1, <1>5, <1>6, <1>7, <1>8

LEMMA RunRows ==
  ASSUME RowsTyped
  PROVE  /\ Len(run) \in Nat /\ DOMAIN run = 1..Len(run)
         /\ \A k \in DOMAIN run : run[k] \in RunRow /\ \A p \in run[k].items : p \in PinRow
  <1>1. Len(run) \in Nat /\ DOMAIN run = 1..Len(run) /\ \A k \in DOMAIN run : run[k] \in RunRow
    BY LenProperties DEF RowsTyped
  <1>2. QED
    BY <1>1 DEF RunRow

-----------------------------------------------------------------------------
(* What a step may do to what others rely on                               *)

\* Versions only grow, and at the same version a row permits what it did.
Evolves ==
    /\ \A s \in Sources :
         /\ source[s].version <= source'[s].version
         /\ source'[s].version = source[s].version =>
              /\ Usable(source[s]) => Usable(source'[s])
              /\ source'[s].method = source[s].method
              /\ MayAcquire(s, source[s]) => MayAcquire(s, source[s])'
    /\ \A e \in Entries :
         /\ entry[e].version <= entry'[e].version
         /\ entry'[e].version = entry[e].version => entry'[e] = entry[e]

\* A source that q holds stays q's, and nobody else starts to refresh it.
Undisturbed(q) ==
    \A s \in Sources : sourceLock[s] = q /\ source[s].version > 0 =>
      /\ sourceLock'[s] = q
      /\ source'[s].refresh = "REFRESHING" => source[s].refresh = "REFRESHING"

LEMMA PinsEvolve ==
  ASSUME RowsTyped, RowsTyped', Evolves, NEW p \in PinRow
  PROVE  /\ AcquiredPin(p) => AcquiredPin(p)'
         /\ UploadedPin(p) => UploadedPin(p)'
  <1> DEFINE s == SourceOf(p.entry)
             e == p.entry
  <1>1. s \in Sources /\ e \in Entries /\ p.source \in Nat /\ p.manifest \in Nat
    BY DEF PinRow, Entries, SourceOf
  <1>2. /\ source[s].version \in Nat /\ source'[s].version \in Nat
        /\ entry[e].version \in Nat /\ entry'[e].version \in Nat
    BY <1>1 DEF RowsTyped, SourceRow, EntryRow
  <1>3. /\ source[s].version <= source'[s].version /\ entry[e].version <= entry'[e].version
        /\ source'[s].version = source[s].version =>
             /\ Usable(source[s]) => Usable(source'[s])
             /\ source'[s].method = source[s].method
             /\ MayAcquire(s, source[s]) => MayAcquire(s, source[s])'
        /\ entry'[e].version = entry[e].version => entry'[e] = entry[e]
    BY <1>1 DEF Evolves
  <1>4. PinOld(p) => /\ PinOld(p)'
                     /\ PinNow(p)' => PinNow(p) /\ source'[s].version = source[s].version
                                      /\ entry'[e] = entry[e]
    BY <1>1, <1>2, <1>3 DEF PinOld, PinNow
  <1>5. QED
    BY <1>3, <1>4 DEF AcquiredPin, UploadedPin, EntryPermitted, UploadPermitted

LEMMA OthersServe ==
  ASSUME RowsTyped, RowsTyped', ReqTyped, Evolves, Reads, NEW q \in Requests, req'[q] = req[q],
         Undisturbed(q)
  PROVE  Serving(q)'
  <1> SUFFICES ASSUME req[q].phase \in Middle
               PROVE  /\ req[q].cmd.op = "RUN" => RunReads(q)'
                      /\ req[q].cmd.op = "REFRESH" => RefreshReads(q)' /\ Holds(q)'
                      /\ req[q].cmd.op = "UPLOAD" => UploadReads(q)'
    BY DEF Serving
  <1>1. /\ req[q].cmd.op = "RUN" => RunReads(q)
        /\ req[q].cmd.op = "REFRESH" => RefreshReads(q) /\ Holds(q)
        /\ req[q].cmd.op = "UPLOAD" => UploadReads(q)
    BY DEF Reads, Serving
  <1>2. CASE req[q].cmd.op = "RUN"
    <2>1. ASSUME NEW e, NEW ent, Snapshot(e, ent)
          PROVE  Snapshot(e, ent)'
      <3>1. /\ ent.version \in Nat /\ entry[e].version \in Nat /\ entry'[e].version \in Nat
            /\ entry[e].version <= entry'[e].version
            /\ entry'[e].version = entry[e].version => entry'[e] = entry[e]
        BY <2>1 DEF Snapshot, RowsTyped, EntryRow, Evolves
      <3>2. QED
        BY <2>1, <3>1 DEF Snapshot
    <2>2. RunReads(q)
      BY <1>1, <1>2
    <2>3. \A p \in req[q].got.pins : AcquiredPin(p)'
      BY <2>2, PinsEvolve DEF RunReads
    <2>4. QED
      BY <1>2, <2>1, <2>2, <2>3 DEF RunReads
  <1>3. CASE req[q].cmd.op = "REFRESH"
    <2>1. RefreshReads(q) /\ Holds(q)
      BY <1>1, <1>3
    <2>2. RefreshReads(q)'
      BY <2>1, PinsEvolve DEF RefreshReads
    <2>3. req[q].cmd.source \in Sources
      <3>1. PICK p \in PinRow : SourceOf(p.entry) = req[q].cmd.source
        BY <2>1 DEF RefreshReads
      <3>2. QED
        BY <3>1 DEF PinRow, Entries, SourceOf
    <2>4. Holds(q)'
      BY <2>1, <2>3 DEF Holds, Undisturbed, Evolves, RowsTyped, SourceRow
    <2>5. QED
      BY <1>3, <2>2, <2>4
  <1>4. CASE req[q].cmd.op = "UPLOAD"
    <2>1. UploadReads(q)
      BY <1>1, <1>4
    <2>2. SourceOf(req[q].cmd.entry) \in Sources
      <3>1. req[q].cmd \in Commands \cup {NoCommand}
        BY DEF ReqTyped, IsReq
      <3>2. req[q].cmd.entry \in Entries
        BY <1>4, <3>1 DEF Commands, NoCommand
      <3>3. QED
        BY <3>2 DEF Entries, SourceOf
    <2>3. UploadReads(q)'
      BY <2>1, <2>2 DEF UploadReads, Evolves, RowsTyped, SourceRow
    <2>4. QED
      BY <1>4, <2>3
  <1>5. QED
    BY <1>2, <1>3, <1>4

-----------------------------------------------------------------------------
(* Requests and locks                                                      *)

\* A step of r leaves the other requests alone.
OnlyMoves(r) == ReqTyped' /\ \A q \in Requests \ {r} : req'[q] = req[q]

LEMMA GotoMoves ==
  ASSUME ReqTyped, NEW r \in Requests, NEW p \in Phases, NEW x, Goto(r, p, x)
  PROVE  /\ OnlyMoves(r)
         /\ req'[r].phase = p /\ req'[r].got = x /\ req'[r].cmd = req[r].cmd
  <1>1. /\ req' = [q \in Requests |-> req'[q]]
        /\ req'[r] = [[req[r] EXCEPT !.phase = p] EXCEPT !.got = x]
        /\ \A q \in Requests \ {r} : req'[q] = req[q]
    BY DEF ReqTyped, Goto
  <1>2. req'[r] \in [phase : {p}, cmd : {req[r].cmd}, key : {req[r].key}, got : {x}]
    BY <1>1 DEF ReqTyped, IsReq
  <1>3. IsReq(req'[r])
    BY <1>2 DEF ReqTyped, IsReq
  <1>4. ReqTyped'
    BY <1>1, <1>3 DEF ReqTyped, IsReq
  <1>5. QED
    BY <1>1, <1>2, <1>4 DEF OnlyMoves

LEMMA FinishMoves ==
  ASSUME ReqTyped, NEW r \in Requests, Finish(r)
  PROVE  OnlyMoves(r) /\ Serving(r)'
  <1>1. Goto(r, "done", <<>>) /\ "done" \in Phases
    BY DEF Finish, Phases
  <1>2. OnlyMoves(r) /\ req'[r].phase = "done"
    BY <1>1, GotoMoves
  <1>3. QED
    BY <1>2 DEF Serving, Middle

\* r gives back locks, or takes free ones.
LocksMove(r) ==
    /\ LocksTyped'
    /\ \A s \in Sources : sourceLock[s] \in {NoOne, r} \/ sourceLock'[s] = sourceLock[s]

LEMMA ReleaseLocks ==
  ASSUME LocksTyped, NEW r \in Requests, Release(r) \/ UNCHANGED locks
  PROVE  LocksMove(r)
  BY DEF LocksTyped, LocksMove, Release, locks

LEMMA LockEntryLocks ==
  ASSUME LocksTyped, NEW r \in Requests, NEW e, LockEntry(r, e)
  PROVE  LocksMove(r)
  BY DEF LocksTyped, LocksMove, LockEntry

\* What is left to show of a step of r.
LEMMA StepOf ==
  ASSUME IInv, NEW r \in Requests, OnlyMoves(r), LocksMove(r), Serving(r)',
         RowsTyped', Evolves, Earned', Pinned', OfOneSource', Refreshing',
         \A s \in Sources : \/ sourceLock[s] \in {NoOne, r}
                            \/ source[s].version = 0
                            \/ source'[s].refresh = source[s].refresh
  PROVE  IInv'
  <1>1. ASSUME NEW q \in Requests, q # r
        PROVE  Serving(q)'
    <2>1. Undisturbed(q)
      BY <1>1, GovernanceAssumption DEF Undisturbed, LocksMove
    <2>2. QED
      BY <1>1, <2>1, OthersServe DEF IInv, OnlyMoves
  <1>2. QED
    BY <1>1 DEF IInv, Reads, OnlyMoves, LocksMove

\* A step that writes no row.
LEMMA RowsStay ==
  ASSUME IInv, UNCHANGED rows
  PROVE  /\ RowsTyped' /\ Evolves /\ Earned' /\ Pinned' /\ OfOneSource' /\ Refreshing'
         /\ \A p : AcquiredPin(p)' = AcquiredPin(p)
  <1>1. UNCHANGED <<source, grant, entry, run, trail>>
    BY DEF rows
  <1>2. RowsTyped'
    BY <1>1 DEF IInv, RowsTyped
  <1>3. Evolves
    BY <1>1 DEF IInv, RowsTyped, SourceRow, EntryRow, Evolves, MayAcquire, Authorization
  <1>4. Earned'
    BY <1>1 DEF IInv, Earned, EarnedAt
  <1>5. Pinned' /\ \A p : AcquiredPin(p)' = AcquiredPin(p)
    BY <1>1 DEF IInv, Pinned, AcquiredPin, UploadedPin, PinOld, PinNow, EntryPermitted,
                MayAcquire, Authorization
  <1>6. OfOneSource' /\ Refreshing'
    BY <1>1 DEF IInv, OfOneSource, Refreshing, OpenRefreshes
  <1>7. QED
    BY <1>2, <1>3, <1>4, <1>5, <1>6

LEMMA QuietStep ==
  ASSUME IInv, UNCHANGED rows, NEW r \in Requests, OnlyMoves(r), LocksMove(r), Serving(r)'
  PROVE  IInv'
  BY RowsStay, StepOf DEF rows

\* A request that is not between two of its reads, whatever it holds.
LEMMA IdleStep ==
  ASSUME IInv, UNCHANGED rows, NEW r \in Requests, OnlyMoves(r), LocksMove(r),
         req'[r].phase \notin Middle
  PROVE  IInv'
  BY QuietStep DEF Serving

LEMMA RollbackStep ==
  ASSUME IInv, NEW r \in Requests, NEW p \in {"refused", "crashed"}, Rollback(r, p)
  PROVE  IInv'
  <1>1. Goto(r, p, <<>>) /\ Release(r) /\ UNCHANGED rows /\ p \in Phases /\ p \notin Middle
    BY DEF Rollback, Phases, Middle
  <1>2. OnlyMoves(r) /\ req'[r].phase = p
    BY <1>1, GotoMoves DEF IInv
  <1>3. LocksMove(r)
    BY <1>1, ReleaseLocks DEF IInv
  <1>4. QED
    BY <1>1, <1>2, <1>3, IdleStep

-----------------------------------------------------------------------------
(* Commands                                                                *)

LEMMA CommandFields ==
  ASSUME NEW c \in Commands \cup {NoCommand}
  PROVE  /\ c.op \in {"CREATE", "UPDATE", "APPROVE", "AUTHORIZE", "MARK", "REFRESH"}
              => c.source \in Sources
         /\ c.op \in {"CREATE", "UPDATE"} => c.owners \in Owners /\ c.method \in Methods
         /\ c.op = "UPDATE" => c.status \in {"ACTIVE", "RETIRED"}
         /\ c.op = "APPROVE" => c.decision \in {"APPROVED", "REJECTED"} /\ c.by \in Users
         /\ c.op = "AUTHORIZE" => c.decision \in {"APPROVED", "REVOKED"}
         /\ c.op = "MARK" => c.to \in {"REFRESH_DUE", "CURRENT", "STALE"}
         /\ c.op = "DECIDE" => c.decision \in {"APPROVED", "REJECTED"}
         /\ c.op \in {"DECIDE", "UPLOAD"} => c.entry \in Entries
         /\ c.op = "RUN" => c.entries \subseteq Entries /\ c.entries # {}
  BY DEF Commands, NoCommand

\* What clients read is of the rows, so that their commands are commands.
LEMMA OfferedTyped ==
  ASSUME RowsTyped, NEW c \in Offered
  PROVE  c \in Commands
  <1>1. \A s \in Sources : source[s].version \in Nat
    BY DEF RowsTyped, SourceRow
  <1>2. \A e \in Entries : entry[e].version \in Nat
    BY DEF RowsTyped, EntryRow
  <1>3. DOMAIN run \subseteq Nat
    BY LenProperties DEF RowsTyped
  <1>4. ASSUME NEW s \in Sources, c \in OnSource(s)
        PROVE  c \in Commands
    BY <1>1, <1>4 DEF OnSource, Commands
  <1>5. ASSUME NEW e \in Entries, c \in OnEntry(e)
        PROVE  c \in Commands
    BY <1>2, <1>5 DEF OnEntry, Commands
  <1>6. CASE \/ c \in [op : {"IMPORT"}, entries : Manifests]
             \/ c \in [op : {"RUN"}, entries : (SUBSET Entries) \ {{}}]
             \/ c \in [op : {"COMPLETE"}, run : DOMAIN run]
    BY <1>3, <1>6 DEF Commands
  <1>7. \/ c \in UNION {OnSource(s) : s \in Sources}
        \/ c \in UNION {OnEntry(e) : e \in Entries}
        \/ c \in [op : {"IMPORT"}, entries : Manifests]
        \/ c \in [op : {"RUN"}, entries : (SUBSET Entries) \ {{}}]
        \/ c \in [op : {"COMPLETE"}, run : DOMAIN run]
    BY DEF Offered
  <1>8. QED
    BY <1>4, <1>5, <1>6, <1>7

LEMMA AskStep ==
  ASSUME IInv, NEW r \in Requests, NEW c \in Offered, Ask(r, c)
  PROVE  IInv'
  <1>1. c \in Commands
    BY OfferedTyped DEF IInv
  <1>2. /\ req' = [q \in Requests |-> req'[q]]
        /\ req'[r] = [[req[r] EXCEPT !.phase = "asked"] EXCEPT !.cmd = c]
        /\ \A q \in Requests \ {r} : req'[q] = req[q]
        /\ UNCHANGED rows /\ UNCHANGED locks
    BY DEF IInv, ReqTyped, Ask
  <1>3. req'[r] \in [phase : {"asked"}, cmd : {c}, key : {req[r].key}, got : {req[r].got}]
    BY <1>2 DEF IInv, ReqTyped, IsReq
  <1>4. IsReq(req'[r])
    BY <1>1, <1>3 DEF IInv, ReqTyped, IsReq, Phases
  <1>5. OnlyMoves(r) /\ req'[r].phase \notin Middle
    BY <1>2, <1>3, <1>4 DEF OnlyMoves, IInv, ReqTyped, IsReq, Middle
  <1>6. QED
    BY <1>2, <1>5, ReleaseLocks, IdleStep DEF IInv

LEMMA AskAgainStep ==
  ASSUME IInv, NEW r \in Requests, NEW q \in Requests, AskAgain(r, q)
  PROVE  IInv'
  <1> DEFINE c == req[q].cmd
             k == req[q].key
  <1>1. /\ req' = [x \in Requests |-> req'[x]]
        /\ req'[r] = [[[req[r] EXCEPT !.phase = "asked"] EXCEPT !.cmd = c] EXCEPT !.key = k]
        /\ \A x \in Requests \ {r} : req'[x] = req[x]
        /\ UNCHANGED rows /\ UNCHANGED locks
    BY DEF IInv, ReqTyped, AskAgain
  <1>2. c \in Commands \cup {NoCommand} /\ k \in Requests
    BY DEF IInv, ReqTyped, IsReq
  <1>3. req'[r] \in [phase : {"asked"}, cmd : {c}, key : {k}, got : {req[r].got}]
    BY <1>1 DEF IInv, ReqTyped, IsReq
  <1>4. IsReq(req'[r])
    BY <1>2, <1>3 DEF IsReq, Phases
  <1>5. OnlyMoves(r) /\ req'[r].phase \notin Middle
    BY <1>1, <1>3, <1>4 DEF OnlyMoves, IInv, ReqTyped, IsReq, Middle
  <1>6. QED
    BY <1>1, <1>5, ReleaseLocks, IdleStep DEF IInv

LEMMA ReplayStep ==
  ASSUME IInv, NEW r \in Requests, Replay(r)
  PROVE  IInv'
  <1>1. Goto(r, "replayed", <<>>) /\ UNCHANGED rows /\ UNCHANGED locks
    BY DEF Replay
  <1>2. OnlyMoves(r) /\ req'[r].phase = "replayed"
    BY <1>1, GotoMoves DEF IInv, Phases
  <1>3. QED
    BY <1>1, <1>2, ReleaseLocks, IdleStep DEF IInv, Middle

-----------------------------------------------------------------------------
(* Rows of a source: what each command leaves of one                       *)

LEMMA Redefinition ==
  ASSUME NEW old \in SourceRow, NEW c, c.owners \in Owners, c.method \in Methods,
         c.status \in {"ACTIVE", "RETIRED"}
  PROVE  /\ Redefined(old, c) \in SourceRow
         /\ Redefined(old, c).version = old.version + 1
         /\ Redefined(old, c).approval = "DRAFT" /\ Redefined(old, c).approver = NoOne
         /\ Redefined(old, c).refresh = old.refresh
  <1> DEFINE n == old.version + 1
             v == Redefined(old, c)
             w == [[[old EXCEPT !.owners = c.owners] EXCEPT !.method = c.method] EXCEPT !.status = c.status]
             x == [[[w EXCEPT !.approval = "DRAFT"] EXCEPT !.approver = NoOne] EXCEPT !.access = FALSE]
  <1>1. n \in Nat
    BY DEF SourceRow
  <1>2. w \in SourceRow /\ w.version = old.version /\ w.refresh = old.refresh
    BY DEF SourceRow
  <1>3. v = [x EXCEPT !.version = @ + 1]
    BY DEF Redefined
  <1> HIDE DEF w, n, v
  <1>4. /\ x \in SourceRow /\ x.version = old.version /\ x.refresh = old.refresh
        /\ x.approval = "DRAFT" /\ x.approver = NoOne
    BY <1>2 DEF SourceRow
  <1> HIDE DEF x
  <1>5. v = [x EXCEPT !.version = n]
    BY <1>3, <1>4 DEF n
  <1>6. /\ v \in SourceRow /\ v.version = n /\ v.refresh = x.refresh
        /\ v.approval = x.approval /\ v.approver = x.approver
    BY <1>1, <1>4, <1>5 DEF SourceRow
  <1>7. QED
    BY <1>4, <1>6 DEF v, n

LEMMA Decision ==
  ASSUME NEW old \in SourceRow, NEW c, c.decision \in {"APPROVED", "REJECTED"}, c.by \in Users
  PROVE  /\ Decided(old, c) \in SourceRow
         /\ Decided(old, c).version = old.version + 1 /\ Decided(old, c).owners = old.owners
         /\ Decided(old, c).approval = c.decision /\ Decided(old, c).refresh = old.refresh
         /\ Decided(old, c).approver = IF c.decision = "APPROVED" THEN c.by ELSE NoOne
  <1> DEFINE n == old.version + 1
             a == IF c.decision = "APPROVED" THEN c.by ELSE NoOne
             v == Decided(old, c)
             w == [[[old EXCEPT !.approval = c.decision] EXCEPT !.access = FALSE] EXCEPT !.version = n]
  <1>1. n \in Nat /\ a \in Users \cup {NoOne}
    BY DEF SourceRow
  <1>2. v = [w EXCEPT !.approver = a]
    BY DEF Decided, SourceRow
  <1> HIDE DEF n, v, a
  <1>3. /\ w \in SourceRow /\ w.version = n /\ w.owners = old.owners
        /\ w.approval = c.decision /\ w.refresh = old.refresh
    BY <1>1 DEF SourceRow
  <1> HIDE DEF w
  <1>4. /\ v \in SourceRow /\ v.version = n /\ v.owners = w.owners
        /\ v.approval = w.approval /\ v.approver = a /\ v.refresh = w.refresh
    BY <1>1, <1>2, <1>3 DEF SourceRow
  <1>5. QED
    BY <1>3, <1>4 DEF v, n, a

LEMMA OneChange ==
  ASSUME NEW old \in SourceRow, NEW w \in SourceRow, NEW v,
         v = [w EXCEPT !.version = @ + 1], w.version = old.version, w.owners = old.owners,
         w.approval = old.approval, w.approver = old.approver
  PROVE  /\ v \in SourceRow /\ v.version = old.version + 1 /\ v.owners = old.owners
         /\ v.approval = old.approval /\ v.approver = old.approver /\ v.refresh = w.refresh
  <1> DEFINE n == old.version + 1
  <1>1. n \in Nat
    BY DEF SourceRow
  <1>2. v = [w EXCEPT !.version = n]
    OBVIOUS
  <1> HIDE DEF n
  <1>3. /\ v \in SourceRow /\ v.version = n /\ v.owners = w.owners
        /\ v.approval = w.approval /\ v.approver = w.approver /\ v.refresh = w.refresh
    BY <1>1, <1>2 DEF SourceRow
  <1>4. QED
    BY <1>3 DEF n

\* What authorize_acquisition leaves of a row.
Reauthorized(src, yes) == [src EXCEPT !.access = yes, !.version = @ + 1]

LEMMA Reauthorization ==
  ASSUME NEW old \in SourceRow, NEW yes \in BOOLEAN
  PROVE  /\ Reauthorized(old, yes) \in SourceRow
         /\ Reauthorized(old, yes).version = old.version + 1
         /\ Reauthorized(old, yes).owners = old.owners
         /\ Reauthorized(old, yes).approval = old.approval
         /\ Reauthorized(old, yes).refresh = old.refresh
         /\ Reauthorized(old, yes).approver = old.approver
  <1> DEFINE w == [old EXCEPT !.access = yes]
             v == Reauthorized(old, yes)
  <1>1. v = [w EXCEPT !.version = @ + 1]
    BY DEF Reauthorized
  <1>2. /\ w \in SourceRow /\ w.version = old.version /\ w.owners = old.owners
        /\ w.approval = old.approval /\ w.approver = old.approver /\ w.refresh = old.refresh
    BY DEF SourceRow
  <1> HIDE DEF w, v
  <1>3. /\ v \in SourceRow /\ v.version = old.version + 1 /\ v.owners = old.owners
        /\ v.approval = old.approval /\ v.approver = old.approver /\ v.refresh = old.refresh
    BY <1>1, <1>2, OneChange
  <1>4. QED
    BY <1>3 DEF v

LEMMA Marking ==
  ASSUME NEW old \in SourceRow, NEW to \in {"REFRESH_DUE", "CURRENT", "STALE"}
  PROVE  /\ Marked(old, to) \in SourceRow
         /\ Marked(old, to).version = old.version + 1 /\ Marked(old, to).owners = old.owners
         /\ Marked(old, to).approval = old.approval /\ Marked(old, to).refresh = to
         /\ Marked(old, to).approver = old.approver
  <1> DEFINE w == [old EXCEPT !.refresh = to]
             v == Marked(old, to)
  <1>1. v = [w EXCEPT !.version = @ + 1]
    BY DEF Marked
  <1>2. /\ w \in SourceRow /\ w.version = old.version /\ w.owners = old.owners
        /\ w.approval = old.approval /\ w.approver = old.approver /\ w.refresh = to
    BY DEF SourceRow
  <1> HIDE DEF w, v
  <1>3. /\ v \in SourceRow /\ v.version = old.version + 1 /\ v.owners = old.owners
        /\ v.approval = old.approval /\ v.approver = old.approver /\ v.refresh = to
    BY <1>1, <1>2, OneChange
  <1>4. QED
    BY <1>3 DEF v

LEMMA Registration ==
  ASSUME NEW c, c.owners \in Owners, c.method \in Methods
  PROVE  /\ Registered(c) \in SourceRow /\ Registered(c).version = 1
         /\ Registered(c).approval = "DRAFT" /\ Registered(c).approver = NoOne
         /\ Registered(c).refresh = "CURRENT"
  BY DEF SourceRow, Registered, Absent

LEMMA Events ==
  ASSUME NEW what \in {"CREATED", "UPDATED", "APPROVED", "REJECTED", "GRANTED", "REVOKED", "MARKED",
                       "REFRESH_STARTED", "REFRESH_COMPLETED"},
         NEW by \in Users \cup {NoOne}
  PROVE  Event(what, by) \in EventRow /\ Event(what, by).what = what /\ Event(what, by).by = by
  BY DEF Event, EventRow

-----------------------------------------------------------------------------
(* Commands on a source                                                    *)

\* A source gets a new version, which says what happened to it.
LEMMA WriteStep ==
  ASSUME IInv, NEW r \in Requests, NEW s \in Sources, NEW src \in SourceRow, NEW event \in EventRow,
         Write(s, src, event), Finish(r), src.version = source[s].version + 1,
         src.approver = NoOne <=> src.approval # "APPROVED",
         event.what \notin {"REFRESH_STARTED", "REFRESH_COMPLETED"},
         \/ grant' = grant
         \/ \E g \in GrantRow : /\ grant' = grant \cup {g} /\ g.source = s /\ g.version = src.version
                                /\ g.decision = "APPROVED" => event.what = "GRANTED",
         src.approval = "APPROVED" =>
           \/ event.what = "APPROVED" /\ event.by = src.approver /\ src.approver \in Users \ src.owners
           \/ /\ event.what \in {"GRANTED", "REVOKED", "MARKED"} /\ source[s].approval = "APPROVED"
              /\ src.approver = source[s].approver /\ src.owners = source[s].owners,
         src.refresh = "REFRESHING" <=> source[s].refresh = "REFRESHING",
         sourceLock[s] = NoOne \/ source[s].version = 0
  PROVE  IInv'
  <1>1. /\ source' = [source EXCEPT ![s] = src]
        /\ trail' = [trail EXCEPT ![s] = Append(trail[s], event)]
        /\ UNCHANGED <<entry, run>> /\ UNCHANGED locks
    BY DEF Write
  <1>2. source \in [Sources -> SourceRow] /\ trail \in [Sources -> Seq(EventRow)]
    BY DEF IInv, RowsTyped
  <1>3. /\ source' \in [Sources -> SourceRow]
        /\ source'[s] = src /\ \A x \in Sources \ {s} : source'[x] = source[x]
        /\ trail'[s] = Append(trail[s], event) /\ \A x \in Sources \ {s} : trail'[x] = trail[x]
    BY <1>1, <1>2
  <1>4. /\ trail'[s] \in Seq(EventRow)
        /\ event.what = "GRANTED" => GrantedLast(trail'[s])
        /\ \A u : /\ event.what = "APPROVED" /\ event.by = u => ApprovedSince(trail'[s], u)
                  /\ event.what \in {"GRANTED", "REVOKED", "MARKED"} /\ ApprovedSince(trail[s], u)
                       => ApprovedSince(trail'[s], u)
    <2>1. trail[s] \in Seq(EventRow) /\ event \in EventRow /\ trail'[s] = Append(trail[s], event)
      BY <1>2, <1>3
    <2>2. QED
      BY <2>1, LogAppend
  <1>5. RowsTyped'
    <2>1. trail' \in [Sources -> Seq(EventRow)]
      BY <1>1, <1>2, <1>4
    <2>2. grant' \subseteq GrantRow
      BY DEF IInv, RowsTyped
    <2>3. QED
      BY <1>1, <1>3, <2>1, <2>2 DEF IInv, RowsTyped
  <1>6. \A x \in Sources : source[x].version \in Nat
    BY <1>2 DEF SourceRow
  <1>7. \A g \in grant' : g \in grant \/ (g.source = s /\ g.version = src.version)
    OBVIOUS
  <1>8. Evolves
    <2>1. ASSUME NEW x \in Sources, x # s
          PROVE  MayAcquire(x, source[x]) => MayAcquire(x, source[x])'
      <3>1. source'[x] = source[x] /\ Authorization(x, source[x]) \subseteq Authorization(x, source[x])'
        BY <1>3, <2>1 DEF Authorization
      <3>2. QED
        BY <3>1 DEF MayAcquire
    <2>2. source[s].version < source'[s].version
      BY <1>3, <1>6
    <2>3. \A e \in Entries : entry[e].version \in Nat
      BY DEF IInv, RowsTyped, EntryRow
    <2>4. QED
      BY <1>1, <1>3, <1>6, <2>1, <2>2, <2>3 DEF Evolves
  <1>9. ASSUME NEW x \in Sources
        PROVE  EarnedAt(x)'
    <2>1. CASE x # s
      <3>1. EarnedAt(x) /\ source'[x] = source[x] /\ trail'[x] = trail[x]
        BY <1>3, <2>1 DEF IInv, Earned
      <3>2. \A g \in grant' : g.source = x => g \in grant
        BY <1>7, <2>1
      <3>3. QED
        BY <3>1, <3>2 DEF EarnedAt
    <2>2. CASE x = s
      <3>1. EarnedAt(s)
        BY DEF IInv, Earned
      <3>2. src.approval = "APPROVED" =>
              src.approver \in Users \ src.owners /\ ApprovedSince(trail'[s], src.approver)
        BY <1>4, <3>1 DEF EarnedAt
      <3>3. ASSUME NEW g \in grant', g.source = s
            PROVE  /\ g.version <= src.version
                   /\ g.version = src.version /\ g.decision = "APPROVED" => GrantedLast(trail'[s])
        <4>1. CASE g \in grant
          <5>1. g.version <= source[s].version /\ g.version \in Nat
            BY <3>1, <3>3, <4>1 DEF EarnedAt, IInv, RowsTyped, GrantRow
          <5>2. g.version < src.version
            BY <1>6, <5>1
          <5>3. QED
            BY <1>6, <5>1, <5>2
        <4>2. CASE g \notin grant
          <5>1. g.version = src.version /\ (g.decision = "APPROVED" => event.what = "GRANTED")
            BY <4>2
          <5>2. QED
            BY <1>4, <1>6, <5>1
        <4>3. QED
          BY <4>1, <4>2
      <3>4. src.version # 0
        BY <1>6
      <3>5. QED
        BY <1>3, <2>2, <3>2, <3>3, <3>4 DEF EarnedAt
    <2>3. QED
      BY <2>1, <2>2
  <1>10. Pinned'
    <2>1. ASSUME NEW k \in DOMAIN run, NEW p \in run[k].items
          PROVE  IF run[k].kind = "MANUAL" THEN UploadedPin(p)' ELSE AcquiredPin(p)'
      <3>1. p \in PinRow
        BY RunRows DEF IInv
      <3>2. IF run[k].kind = "MANUAL" THEN UploadedPin(p) ELSE AcquiredPin(p)
        BY DEF IInv, Pinned
      <3>3. QED
        BY <1>5, <1>8, <3>1, <3>2, PinsEvolve DEF IInv
    <2>2. QED
      BY <1>1, <2>1 DEF Pinned
  <1>11. OfOneSource' /\ Refreshing'
    <2>1. \A x \in Sources : /\ OpenRefreshes(x)' = OpenRefreshes(x)
                             /\ source'[x].refresh = "REFRESHING" <=> source[x].refresh = "REFRESHING"
      BY <1>1, <1>3 DEF OpenRefreshes
    <2>2. QED
      BY <1>1, <2>1 DEF IInv, OfOneSource, Refreshing
  <1>12. OnlyMoves(r) /\ Serving(r)' /\ LocksMove(r)
    BY <1>1, FinishMoves, ReleaseLocks DEF IInv
  <1>13. \A x \in Sources : \/ sourceLock[x] \in {NoOne, r}
                            \/ source[x].version = 0
                            \/ source'[x].refresh = source[x].refresh
    BY <1>3
  <1>14. QED
    BY <1>5, <1>8, <1>9, <1>10, <1>11, <1>12, <1>13, StepOf DEF Earned

LEMMA ClaimedCommand ==
  ASSUME ReqTyped, NEW r \in Requests
  PROVE  req[r].cmd \in Commands \cup {NoCommand}
  BY DEF ReqTyped, IsReq

LEMMA CreateSourceStep ==
  ASSUME IInv, NEW r \in Requests, CreateSource(r)
  PROVE  IInv'
  <1> DEFINE c == req[r].cmd
             s == c.source
             src == Registered(c)
             event == Event("CREATED", NoOne)
  <1>1. /\ c.op = "CREATE" /\ source[s].version = 0 /\ Write(s, src, event)
        /\ Finish(r) /\ grant' = grant
    BY DEF CreateSource, Claims
  <1>2. s \in Sources /\ c.owners \in Owners /\ c.method \in Methods
    BY <1>1, ClaimedCommand, CommandFields DEF IInv
  <1>3. /\ src \in SourceRow /\ src.version = 1 /\ src.approval = "DRAFT"
        /\ src.approver = NoOne /\ src.refresh = "CURRENT"
    BY <1>2, Registration
  <1>4. event \in EventRow /\ event.what = "CREATED"
    BY Events
  <1>5. source[s].refresh = "CURRENT"
    BY <1>1, <1>2 DEF IInv, Earned, EarnedAt
  <1> HIDE DEF c, s, src, event
  <1>6. QED
    BY <1>1, <1>2, <1>3, <1>4, <1>5, WriteStep

LEMMA UpdateSourceStep ==
  ASSUME IInv, NEW r \in Requests, UpdateSource(r)
  PROVE  IInv'
  <1> DEFINE c == req[r].cmd
             s == c.source
             old == source[s]
             src == Redefined(old, c)
             event == Event("UPDATED", NoOne)
  <1>1. /\ c.op = "UPDATE" /\ sourceLock[s] = NoOne /\ Write(s, src, event)
        /\ Finish(r) /\ grant' = grant
    BY DEF UpdateSource, Current, Claims, SourceFree
  <1>2. /\ s \in Sources /\ c.owners \in Owners /\ c.method \in Methods
        /\ c.status \in {"ACTIVE", "RETIRED"}
    BY <1>1, ClaimedCommand, CommandFields DEF IInv
  <1>3. old \in SourceRow
    BY <1>2 DEF IInv, RowsTyped
  <1>4. /\ src \in SourceRow /\ src.version = old.version + 1 /\ src.approval = "DRAFT"
        /\ src.approver = NoOne /\ src.refresh = old.refresh
    BY <1>2, <1>3, Redefinition
  <1>5. event \in EventRow /\ event.what = "UPDATED"
    BY Events
  <1> HIDE DEF c, s, src, event
  <1>6. QED
    BY <1>1, <1>2, <1>4, <1>5, WriteStep

LEMMA ApproveSourceStep ==
  ASSUME IInv, NEW r \in Requests, ApproveSource(r)
  PROVE  IInv'
  <1> DEFINE c == req[r].cmd
             s == c.source
             old == source[s]
             src == Decided(old, c)
             event == Event(c.decision, c.by)
  <1>1. /\ c.op = "APPROVE" /\ sourceLock[s] = NoOne /\ Write(s, src, event)
        /\ c.by \notin old.owners
        /\ Finish(r) /\ grant' = grant
    BY DEF ApproveSource, Current, Claims, SourceFree
  <1>2. s \in Sources /\ c.decision \in {"APPROVED", "REJECTED"} /\ c.by \in Users
    BY <1>1, ClaimedCommand, CommandFields DEF IInv
  <1>3. old \in SourceRow
    BY <1>2 DEF IInv, RowsTyped
  <1>4. /\ src \in SourceRow /\ src.version = old.version + 1 /\ src.owners = old.owners
        /\ src.approval = c.decision /\ src.refresh = old.refresh
        /\ src.approver = IF c.decision = "APPROVED" THEN c.by ELSE NoOne
    BY <1>2, <1>3, Decision
  <1>5. src.approver = NoOne <=> src.approval # "APPROVED"
    BY <1>2, <1>4, GovernanceAssumption
  <1>6. event \in EventRow /\ event.what = c.decision /\ event.by = c.by
    BY <1>2, Events
  <1> HIDE DEF c, s, src, event
  <1>7. QED
    BY <1>1, <1>2, <1>4, <1>5, <1>6, WriteStep

LEMMA AuthorizeAcquisitionStep ==
  ASSUME IInv, NEW r \in Requests, AuthorizeAcquisition(r)
  PROVE  IInv'
  <1> DEFINE c == req[r].cmd
             s == c.source
             old == source[s]
             what == IF c.decision = "APPROVED" THEN "GRANTED" ELSE "REVOKED"
             src == Reauthorized(old, c.decision = "APPROVED")
             event == Event(what, NoOne)
             g == Granted(s, old, c)
  <1>1. /\ c.op = "AUTHORIZE" /\ sourceLock[s] = NoOne /\ Write(s, src, event)
        /\ grant' = grant \cup {g} /\ Finish(r)
    BY DEF AuthorizeAcquisition, Current, Claims, SourceFree, Reauthorized
  <1>2. s \in Sources /\ c.decision \in {"APPROVED", "REVOKED"}
    BY <1>1, ClaimedCommand, CommandFields DEF IInv
  <1>3. old \in SourceRow /\ (old.approver = NoOne <=> old.approval # "APPROVED")
    BY <1>2 DEF IInv, RowsTyped
  <1>4. /\ src \in SourceRow /\ src.version = old.version + 1 /\ src.owners = old.owners
        /\ src.approval = old.approval /\ src.approver = old.approver /\ src.refresh = old.refresh
    BY <1>3, Reauthorization
  <1>5. /\ event \in EventRow /\ event.what \in {"GRANTED", "REVOKED"}
        /\ c.decision = "APPROVED" => event.what = "GRANTED"
    BY Events
  <1>6. /\ g \in GrantRow /\ g.source = s /\ g.version = src.version /\ g.decision = c.decision
    BY <1>2, <1>3, <1>4 DEF Granted, GrantRow, SourceRow
  <1> HIDE DEF c, s, src, event, g, what
  <1>7. QED
    BY <1>1, <1>2, <1>3, <1>4, <1>5, <1>6, WriteStep

LEMMA MarkSourceStep ==
  ASSUME IInv, NEW r \in Requests, MarkSource(r)
  PROVE  IInv'
  <1> DEFINE c == req[r].cmd
             s == c.source
             old == source[s]
             src == Marked(old, c.to)
             event == Event("MARKED", NoOne)
  <1>1. /\ c.op = "MARK" /\ sourceLock[s] = NoOne /\ Write(s, src, event)
        /\ RefreshTransition(old.refresh, c.to)
        /\ Finish(r) /\ grant' = grant
    BY DEF MarkSource, Current, Claims, SourceFree
  <1>2. s \in Sources /\ c.to \in {"REFRESH_DUE", "CURRENT", "STALE"}
    BY <1>1, ClaimedCommand, CommandFields DEF IInv
  <1>3. old \in SourceRow /\ (old.approver = NoOne <=> old.approval # "APPROVED")
    BY <1>2 DEF IInv, RowsTyped
  <1>4. /\ src \in SourceRow /\ src.version = old.version + 1 /\ src.owners = old.owners
        /\ src.approval = old.approval /\ src.approver = old.approver /\ src.refresh = c.to
    BY <1>2, <1>3, Marking
  <1>5. event \in EventRow /\ event.what = "MARKED"
    BY Events
  <1>6. old.refresh # "REFRESHING" /\ c.to # "REFRESHING"
    BY <1>1, <1>2 DEF RefreshTransition
  <1> HIDE DEF c, s, src, event
  <1>7. QED
    BY <1>1, <1>2, <1>3, <1>4, <1>5, <1>6, WriteStep

LEMMA RefusedStep ==
  ASSUME IInv, NEW r \in Requests, RefuseSource(r) \/ Invalid(r) \/ Crash(r) \/ RefuseImport(r)
  PROVE  IInv'
  BY RollbackStep DEF RefuseSource, Invalid, Crash, RefuseImport

-----------------------------------------------------------------------------
(* Handlers between their reads                                            *)

LEMMA ReadStep ==
  ASSUME IInv, UNCHANGED rows, NEW r \in Requests, NEW p \in Phases, NEW x, Goto(r, p, x),
         LocksMove(r), Serving(r)'
  PROVE  IInv'
  <1>1. OnlyMoves(r)
    BY GotoMoves DEF IInv
  <1>2. QED
    BY <1>1, QuietStep

LEMMA ImportEntryStep ==
  ASSUME IInv, NEW r \in Requests, ImportEntry(r)
  PROVE  IInv'
  <1> DEFINE i == IF req[r].phase = "working" THEN req[r].got + 1 ELSE 1
             e == req[r].cmd.entries[i]
             p == IF i = Len(req[r].cmd.entries) THEN "ready" ELSE "working"
  <1>1. LockEntry(r, e) /\ Goto(r, p, i) /\ UNCHANGED rows /\ req[r].cmd.op = "IMPORT"
    BY DEF ImportEntry, Claims
  <1>2. p \in Phases
    BY DEF Phases, Middle
  <1> HIDE DEF i, e, p
  <1>3. req'[r].cmd.op = "IMPORT"
    BY <1>1, <1>2, GotoMoves DEF IInv
  <1>4. QED
    BY <1>1, <1>2, <1>3, LockEntryLocks, ReadStep DEF Serving, IInv

LEMMA ReadForDecisionStep ==
  ASSUME IInv, NEW r \in Requests, ReadForDecision(r)
  PROVE  IInv'
  <1>1. CASE Rollback(r, "refused")
    BY <1>1, RollbackStep
  <1>2. CASE ~ Rollback(r, "refused")
    <2>1. PICK e : LockEntry(r, e) /\ Goto(r, "ready", <<>>) /\ UNCHANGED rows
                   /\ req[r].cmd.op = "DECIDE" /\ "ready" \in Phases
      BY <1>2 DEF ReadForDecision, Claims, Phases, Middle
    <2>2. req'[r].cmd.op = "DECIDE"
      BY <2>1, GotoMoves DEF IInv
    <2>3. QED
      BY <2>1, <2>2, LockEntryLocks, ReadStep DEF Serving, IInv
  <1>3. QED
    BY <1>1, <1>2

LEMMA ReadEntriesStep ==
  ASSUME IInv, NEW r \in Requests, ReadEntries(r)
  PROVE  IInv'
  <1>1. CASE Rollback(r, "refused")
    BY <1>1, RollbackStep
  <1>2. CASE ~ Rollback(r, "refused")
    <2> DEFINE c == req[r].cmd
               left == [e \in c.entries |-> entry[e]]
               got == [left |-> left, pins |-> {}]
    <2>1. /\ Goto(r, "working", got) /\ UNCHANGED rows /\ UNCHANGED locks
          /\ c.op = "RUN" /\ "working" \in Phases
      BY <1>2 DEF ReadEntries, Claims, Phases, Middle
    <2>2. c.entries \subseteq Entries /\ c.entries # {}
      BY <2>1, ClaimedCommand, CommandFields DEF IInv
    <2>3. \A e \in c.entries : entry[e] \in EntryRow /\ Snapshot(e, entry[e])
      BY <2>2 DEF IInv, RowsTyped, EntryRow, Snapshot
    <2>4. /\ DOMAIN left # {} /\ \A e \in DOMAIN left : Snapshot(e, left[e])
          /\ got.left = left /\ got.pins = {}
      BY <2>2, <2>3
    <2> HIDE DEF left, got
    <2>5. req'[r].cmd = c /\ req'[r].got = got /\ req'[r].phase = "working"
      BY <2>1, GotoMoves DEF IInv
    <2>6. RunReads(r)'
      BY <2>1, <2>4, <2>5 DEF RunReads, Snapshot, rows
    <2>7. QED
      BY <2>1, <2>5, <2>6, ReleaseLocks, ReadStep DEF IInv, Serving
  <1>3. QED
    BY <1>1, <1>2

LEMMA NewPin ==
  ASSUME RowsTyped, NEW e, NEW ent, Snapshot(e, ent),
         EntryPermitted(e, ent, source[SourceOf(e)])
  PROVE  LET p == Pin(e, source[SourceOf(e)].version, ent.version)
         IN  p \in PinRow /\ AcquiredPin(p) /\ p.entry = e
  <1> DEFINE s == SourceOf(e)
             p == Pin(e, source[s].version, ent.version)
  <1>1. e \in Entries /\ s \in Sources
    BY DEF Snapshot, Entries, SourceOf
  <1>2. source[s].version \in Nat /\ ent.version \in Nat
    BY <1>1 DEF RowsTyped, SourceRow, Snapshot, EntryRow
  <1>3. p.entry = e /\ p.source = source[s].version /\ p.manifest = ent.version /\ p \in PinRow
    BY <1>1, <1>2 DEF Pin, PinRow
  <1> HIDE DEF p
  <1>4. PinOld(p) /\ (PinNow(p) => ent = entry[e])
    BY <1>1, <1>2, <1>3 DEF PinOld, PinNow, Snapshot
  <1>5. AcquiredPin(p)
    BY <1>3, <1>4 DEF AcquiredPin
  <1>6. QED
    BY <1>3, <1>5 DEF p

LEMMA CheckEntryStep ==
  ASSUME IInv, NEW r \in Requests, CheckEntry(r)
  PROVE  IInv'
  <1>1. CASE Rollback(r, "refused")
    BY <1>1, RollbackStep
  <1>2. CASE ~ Rollback(r, "refused")
    <2> DEFINE left == req[r].got.left
               e == CHOOSE x \in DOMAIN left : TRUE
               p == Pin(e, source[SourceOf(e)].version, left[e].version)
               rest == [x \in DOMAIN left \ {e} |-> left[x]]
               got == [left |-> rest, pins |-> req[r].got.pins \cup {p}]
               phase == IF DOMAIN left = {e} THEN "ready" ELSE "working"
    <2>1. /\ EntryPermitted(e, left[e], source[SourceOf(e)]) /\ Goto(r, phase, got)
          /\ UNCHANGED rows /\ UNCHANGED locks
          /\ req[r].phase = "working" /\ req[r].cmd.op = "RUN"
      BY <1>2 DEF CheckEntry
    <2>2. RunReads(r)
      BY <2>1 DEF IInv, Reads, Serving, Middle
    <2>3. DOMAIN left # {} /\ \A x \in DOMAIN left : Snapshot(x, left[x])
      BY <2>1, <2>2 DEF RunReads
    <2>4. e \in DOMAIN left
      BY <2>3
    <2>5. p \in PinRow /\ AcquiredPin(p)
      BY <2>1, <2>3, <2>4, NewPin DEF IInv
    <2>6. DOMAIN rest = DOMAIN left \ {e} /\ \A x \in DOMAIN rest : rest[x] = left[x]
      OBVIOUS
    <2>7. \A x \in DOMAIN rest : Snapshot(x, rest[x])
      BY <2>3, <2>6
    <2>8. phase = "working" => DOMAIN rest # {}
      BY <2>4, <2>6
    <2>9. got.left = rest /\ got.pins = req[r].got.pins \cup {p} /\ phase \in {"ready", "working"}
      OBVIOUS
    <2> HIDE DEF e, p, rest, got, phase
    <2>10. phase \in Phases
      BY <2>9 DEF Phases, Middle
    <2>11. req'[r].cmd = req[r].cmd /\ req'[r].got = got /\ req'[r].phase = phase
      BY <2>1, <2>10, GotoMoves DEF IInv
    <2>12. got.pins \subseteq PinRow /\ \A q \in got.pins : AcquiredPin(q)'
      BY <2>1, <2>2, <2>5, <2>9, RowsStay DEF RunReads
    <2>13. RunReads(r)'
      BY <2>1, <2>7, <2>8, <2>9, <2>11, <2>12 DEF RunReads, Snapshot, rows
    <2>14. QED
      BY <2>1, <2>10, <2>11, <2>13, ReleaseLocks, ReadStep DEF IInv, Serving
  <1>3. QED
    BY <1>1, <1>2

LEMMA ReadForRefreshStep ==
  ASSUME IInv, NEW r \in Requests, ReadForRefresh(r)
  PROVE  IInv'
  <1>1. CASE Rollback(r, "refused")
    BY <1>1, RollbackStep
  <1>2. CASE ~ Rollback(r, "refused")
    <2> DEFINE s == req[r].cmd.source
               approved == {e \in Entries : SourceOf(e) = s /\ entry[e].permission = "APPROVED"}
               got == {Pin(e, source[s].version, entry[e].version) : e \in approved}
    <2>1. /\ source[s].version > 0 /\ source[s].refresh # "REFRESHING"
          /\ approved # {} /\ \A e \in approved : EntryPermitted(e, entry[e], source[s])
          /\ sourceLock[s] = NoOne /\ sourceLock' = [sourceLock EXCEPT ![s] = r]
          /\ UNCHANGED rows /\ UNCHANGED entryLock
          /\ Goto(r, "ready", got) /\ "ready" \in Phases /\ req[r].cmd.op = "REFRESH"
      BY <1>2 DEF ReadForRefresh, Claims, SourceFree, Phases, Middle
    <2>2. s \in Sources
      BY <2>1, ClaimedCommand, CommandFields DEF IInv
    <2>3. ASSUME NEW p \in got
          PROVE  p \in PinRow /\ AcquiredPin(p) /\ SourceOf(p.entry) = s
      <3>1. PICK e \in approved : p = Pin(e, source[s].version, entry[e].version)
        BY <2>3
      <3>2. entry[e] \in EntryRow
        BY <3>1 DEF IInv, RowsTyped
      <3>3. Snapshot(e, entry[e])
        BY <3>1, <3>2 DEF Snapshot, EntryRow
      <3>4. /\ SourceOf(e) = s /\ p = Pin(e, source[SourceOf(e)].version, entry[e].version)
            /\ EntryPermitted(e, entry[e], source[SourceOf(e)]) /\ RowsTyped
        BY <2>1, <3>1 DEF IInv
      <3> HIDE DEF s, approved, got
      <3>5. p \in PinRow /\ AcquiredPin(p) /\ p.entry = e
        BY <3>3, <3>4, NewPin
      <3>6. QED
        BY <3>4, <3>5
    <2>4. got # {}
      BY <2>1
    <2> HIDE DEF s, approved, got
    <2>5. req'[r].cmd = req[r].cmd /\ req'[r].got = got
      BY <2>1, GotoMoves DEF IInv
    <2>6. \A p \in got : AcquiredPin(p)'
      BY <2>1, <2>3, RowsStay
    <2>7. RefreshReads(r)'
      BY <2>3, <2>4, <2>5, <2>6 DEF RefreshReads, s
    <2>8. sourceLock'[s] = r
      BY <2>1, <2>2 DEF IInv, LocksTyped
    <2>9. Holds(r)'
      BY <2>1, <2>5, <2>8 DEF Holds, s, rows
    <2>10. LocksMove(r)
      BY <2>1, <2>2 DEF IInv, LocksTyped, LocksMove
    <2>11. QED
      BY <2>1, <2>5, <2>7, <2>9, <2>10, ReadStep DEF Serving
  <1>3. QED
    BY <1>1, <1>2

LEMMA ReadForUploadStep ==
  ASSUME IInv, NEW r \in Requests, ReadForUpload(r)
  PROVE  IInv'
  <1>1. CASE Rollback(r, "refused")
    BY <1>1, RollbackStep
  <1>2. CASE ~ Rollback(r, "refused")
    <2> DEFINE s == SourceOf(req[r].cmd.entry)
    <2>1. /\ source[s].method = "MANUAL_UPLOAD" /\ Usable(source[s])
          /\ Goto(r, "working", source[s].version) /\ "working" \in Phases
          /\ UNCHANGED rows /\ UNCHANGED locks /\ req[r].cmd.op = "UPLOAD"
      BY <1>2 DEF ReadForUpload, Claims, Phases, Middle
    <2>2. s \in Sources
      BY <2>1, ClaimedCommand, CommandFields DEF IInv, Entries, SourceOf
    <2>3. source[s].version \in Nat
      BY <2>2 DEF IInv, RowsTyped, SourceRow
    <2>4. req'[r].cmd = req[r].cmd /\ req'[r].got = source[s].version
      BY <2>1, GotoMoves DEF IInv
    <2>5. UploadReads(r)'
      BY <2>1, <2>3, <2>4 DEF UploadReads, rows
    <2>6. QED
      BY <2>1, <2>4, <2>5, ReleaseLocks, ReadStep DEF IInv, Serving
  <1>3. QED
    BY <1>1, <1>2

LEMMA UpsertUploadStep ==
  ASSUME IInv, NEW r \in Requests, UpsertUpload(r)
  PROVE  IInv'
  <1>1. /\ req[r].phase = "working" /\ req[r].cmd.op = "UPLOAD" /\ "ready" \in Phases
        /\ Goto(r, "ready", req[r].got) /\ UNCHANGED rows
        /\ LockEntry(r, req[r].cmd.entry)
    BY DEF UpsertUpload, Phases, Middle
  <1>2. UploadReads(r)
    BY <1>1 DEF IInv, Reads, Serving, Middle
  <1>3. req'[r].cmd = req[r].cmd /\ req'[r].got = req[r].got
    BY <1>1, GotoMoves DEF IInv
  <1>4. UploadReads(r)'
    BY <1>1, <1>2, <1>3 DEF UploadReads, rows
  <1>5. QED
    BY <1>1, <1>3, <1>4, LockEntryLocks, ReadStep DEF IInv, Serving

-----------------------------------------------------------------------------
(* Entries                                                                 *)

LEMMA EntriesEvolve ==
  ASSUME IInv, UNCHANGED <<source, grant>>, entry' \in [Entries -> EntryRow],
         \A e \in Entries : entry'[e] = entry[e] \/ entry'[e].version = entry[e].version + 1
  PROVE  Evolves
  <1>1. \A s \in Sources : source[s].version \in Nat
    BY DEF IInv, RowsTyped, SourceRow
  <1>2. \A e \in Entries : entry[e].version \in Nat
    BY DEF IInv, RowsTyped, EntryRow
  <1>3. \A s \in Sources : MayAcquire(s, source[s])' = MayAcquire(s, source[s])
    BY DEF MayAcquire, Authorization
  <1>4. QED
    BY <1>1, <1>2, <1>3 DEF Evolves

LEMMA PinsKept ==
  ASSUME IInv, RowsTyped', Evolves, NEW k \in DOMAIN run, NEW p \in run[k].items
  PROVE  IF run[k].kind = "MANUAL" THEN UploadedPin(p)' ELSE AcquiredPin(p)'
  <1>1. p \in PinRow
    BY RunRows DEF IInv
  <1>2. IF run[k].kind = "MANUAL" THEN UploadedPin(p) ELSE AcquiredPin(p)
    BY DEF IInv, Pinned
  <1>3. QED
    BY <1>1, <1>2, PinsEvolve DEF IInv

LEMMA EntriesStep ==
  ASSUME IInv, NEW r \in Requests, Finish(r), Release(r), UNCHANGED <<source, grant, run, trail>>,
         entry' \in [Entries -> EntryRow],
         \A e \in Entries : entry'[e] = entry[e] \/ entry'[e].version = entry[e].version + 1
  PROVE  IInv'
  <1>1. RowsTyped'
    BY DEF IInv, RowsTyped
  <1>2. Evolves
    BY EntriesEvolve
  <1>3. Earned' /\ OfOneSource' /\ Refreshing'
    BY DEF IInv, Earned, EarnedAt, OfOneSource, Refreshing, OpenRefreshes
  <1>4. Pinned'
    <2>1. \A k \in DOMAIN run : \A p \in run[k].items :
            IF run[k].kind = "MANUAL" THEN UploadedPin(p)' ELSE AcquiredPin(p)'
      BY <1>1, <1>2, PinsKept
    <2>2. QED
      BY <2>1 DEF Pinned
  <1>5. OnlyMoves(r) /\ Serving(r)' /\ LocksMove(r)
    BY FinishMoves, ReleaseLocks DEF IInv
  <1>6. QED
    BY <1>1, <1>2, <1>3, <1>4, <1>5, StepOf

LEMMA CommitImportStep ==
  ASSUME IInv, NEW r \in Requests, CommitImport(r)
  PROVE  IInv'
  <1>1. \A e \in Entries : entry[e] \in EntryRow /\ entry[e].version \in Nat
    BY DEF IInv, RowsTyped, EntryRow
  <1>2. \A e \in Entries : /\ Imported(entry[e]) \in EntryRow
                           /\ Imported(entry[e]).version = entry[e].version + 1
    BY <1>1 DEF Imported, EntryRow, Methods
  <1>3. /\ entry' \in [Entries -> EntryRow]
        /\ \A e \in Entries : entry'[e] = entry[e] \/ entry'[e].version = entry[e].version + 1
    BY <1>1, <1>2 DEF CommitImport
  <1>4. QED
    BY <1>3, EntriesStep DEF CommitImport

\* What a decision leaves of an entry.
DecidedEntry(ent, d) == [ent EXCEPT !.permission = d, !.version = @ + 1]

LEMMA EntryDecision ==
  ASSUME NEW ent \in EntryRow, NEW d \in {"APPROVED", "REJECTED"}
  PROVE  DecidedEntry(ent, d) \in EntryRow /\ DecidedEntry(ent, d).version = ent.version + 1
  <1> DEFINE v == DecidedEntry(ent, d)
             w == [ent EXCEPT !.permission = d]
             n == ent.version + 1
  <1>1. n \in Nat
    BY DEF EntryRow
  <1>2. w \in EntryRow /\ w.version = ent.version
    BY DEF EntryRow
  <1>3. v = [w EXCEPT !.version = @ + 1]
    BY DEF DecidedEntry
  <1> HIDE DEF v, w
  <1>4. v = [w EXCEPT !.version = n]
    BY <1>2, <1>3
  <1> HIDE DEF n
  <1>5. v \in EntryRow /\ v.version = n
    BY <1>1, <1>2, <1>4 DEF EntryRow
  <1>6. QED
    BY <1>5 DEF v, n

LEMMA DecideEntryStep ==
  ASSUME IInv, NEW r \in Requests, DecideEntry(r)
  PROVE  IInv'
  <1> DEFINE e == req[r].cmd.entry
             d == req[r].cmd.decision
  <1>1. /\ entry' = [entry EXCEPT ![e].permission = d, ![e].version = @ + 1]
        /\ req[r].cmd.op = "DECIDE" /\ Finish(r) /\ Release(r)
        /\ UNCHANGED <<source, grant, run, trail>>
    BY DEF DecideEntry
  <1>2. e \in Entries /\ d \in {"APPROVED", "REJECTED"}
    BY <1>1, ClaimedCommand, CommandFields DEF IInv
  <1>3. entry \in [Entries -> EntryRow]
    BY DEF IInv, RowsTyped
  <1> HIDE DEF e, d
  <1>4. entry' = [entry EXCEPT ![e] = DecidedEntry(entry[e], d)]
    BY <1>1, <1>2, <1>3 DEF DecidedEntry
  <1>5. /\ DecidedEntry(entry[e], d) \in EntryRow
        /\ DecidedEntry(entry[e], d).version = entry[e].version + 1
    BY <1>2, <1>3, EntryDecision
  <1>6. /\ entry' \in [Entries -> EntryRow]
        /\ \A x \in Entries : entry'[x] = entry[x] \/ entry'[x].version = entry[x].version + 1
    BY <1>2, <1>3, <1>4, <1>5
  <1>7. QED
    BY <1>1, <1>6, EntriesStep

-----------------------------------------------------------------------------
(* Runs                                                                    *)

LEMMA RunAppended ==
  ASSUME IInv, NEW kind \in {"ACQUISITION", "REFRESH", "MANUAL"}, NEW items \in SUBSET PinRow,
         run' = Append(run, NewRun(kind, items))
  PROVE  /\ run' \in Seq(RunRow)
         /\ \A k \in DOMAIN run' : \/ k \in DOMAIN run /\ run'[k] = run[k]
                                   \/ run'[k].kind = kind /\ run'[k].items = items
         /\ \A s : OpenRefreshes(s)' = OpenRefreshes(s) \cup
              {k \in {Len(run) + 1} : kind = "REFRESH" /\ \A p \in items : SourceOf(p.entry) = s}
         /\ kind # "REFRESH" => \A s : OpenRefreshes(s)' = OpenRefreshes(s)
  <1> DEFINE new == NewRun(kind, items)
             n == Len(run) + 1
  <1>1. /\ new \in RunRow /\ new.kind = kind /\ new.items = items /\ new.open
    BY DEF NewRun, RunRow
  <1> HIDE DEF new
  <1>2. run \in Seq(RunRow) /\ run' = Append(run, new)
    BY DEF IInv, RowsTyped, new
  <1>3. /\ Len(run) \in Nat /\ DOMAIN run = 1..Len(run) /\ run' \in Seq(RunRow)
        /\ DOMAIN run' = 1..n /\ run'[n] = new /\ \A k \in 1..Len(run) : run'[k] = run[k]
    BY <1>1, <1>2, AppendProperties, LenProperties
  <1>4. DOMAIN run' = DOMAIN run \cup {n} /\ n \notin DOMAIN run
        /\ \A k \in DOMAIN run : run'[k] = run[k]
    BY <1>3
  <1> HIDE DEF n
  <1>5. ASSUME NEW s
        PROVE  OpenRefreshes(s)' = OpenRefreshes(s) \cup
                 {k \in {n} : kind = "REFRESH" /\ \A p \in items : SourceOf(p.entry) = s}
    BY <1>1, <1>3, <1>4 DEF OpenRefreshes
  <1>6. kind # "REFRESH" => \A s : OpenRefreshes(s)' = OpenRefreshes(s)
    BY <1>5
  <1>7. QED
    BY <1>1, <1>3, <1>4, <1>5, <1>6 DEF n

LEMMA AppendedPins ==
  ASSUME IInv, RowsTyped', Evolves,
         NEW kind \in {"ACQUISITION", "REFRESH", "MANUAL"}, NEW items \in SUBSET PinRow,
         run' = Append(run, NewRun(kind, items)),
         \A p \in items : IF kind = "MANUAL" THEN UploadedPin(p)' ELSE AcquiredPin(p)',
         kind = "REFRESH" =>
           items # {} /\ \E s \in Sources : \A p \in items : SourceOf(p.entry) = s
  PROVE  Pinned' /\ OfOneSource'
  <1>1. \A k \in DOMAIN run' : \/ k \in DOMAIN run /\ run'[k] = run[k]
                               \/ run'[k].kind = kind /\ run'[k].items = items
    BY RunAppended
  <1>2. ASSUME NEW k \in DOMAIN run', NEW p \in run'[k].items
        PROVE  IF run'[k].kind = "MANUAL" THEN UploadedPin(p)' ELSE AcquiredPin(p)'
    <2>1. CASE k \in DOMAIN run /\ run'[k] = run[k]
      BY <1>2, <2>1, PinsKept
    <2>2. CASE run'[k].kind = kind /\ run'[k].items = items
      BY <1>2, <2>2
    <2>3. QED
      BY <1>1, <2>1, <2>2
  <1>3. Pinned'
    BY <1>2 DEF Pinned
  <1>4. OfOneSource'
    BY <1>1 DEF IInv, OfOneSource
  <1>5. QED
    BY <1>3, <1>4

LEMMA CommitRunStep ==
  ASSUME IInv, NEW r \in Requests, CommitRun(r)
  PROVE  IInv'
  <1> PICK pins : pins = req[r].got.pins
    OBVIOUS
  <1>1. /\ req[r].phase = "ready" /\ req[r].cmd.op = "RUN" /\ Finish(r) /\ Release(r)
        /\ run' = Append(run, NewRun("ACQUISITION", pins))
        /\ UNCHANGED <<source, grant, entry, trail>>
    BY DEF CommitRun
  <1>2. pins \in SUBSET PinRow /\ \A p \in pins : AcquiredPin(p)
    BY <1>1 DEF IInv, Reads, Serving, RunReads, Middle
  <1>3. run' \in Seq(RunRow) /\ \A s : OpenRefreshes(s)' = OpenRefreshes(s)
    BY <1>1, <1>2, RunAppended
  <1>4. RowsTyped' /\ Earned' /\ Refreshing'
    BY <1>1, <1>3 DEF IInv, RowsTyped, Earned, EarnedAt, Refreshing
  <1>5. Evolves
    BY <1>1, EntriesEvolve DEF IInv, RowsTyped
  <1>6. \A p \in pins : AcquiredPin(p)'
    BY <1>2, <1>4, <1>5, PinsEvolve DEF IInv
  <1>7. Pinned' /\ OfOneSource'
    BY <1>1, <1>2, <1>4, <1>5, <1>6, AppendedPins
  <1>8. OnlyMoves(r) /\ Serving(r)' /\ LocksMove(r)
    BY <1>1, FinishMoves, ReleaseLocks DEF IInv
  <1>9. QED
    BY <1>1, <1>4, <1>5, <1>7, <1>8, StepOf

LEMMA AuthorizeUploadStep ==
  ASSUME IInv, NEW r \in Requests, AuthorizeUpload(r)
  PROVE  IInv'
  <1> PICK e, s, got, p : /\ e = req[r].cmd.entry /\ s = SourceOf(e) /\ got = req[r].got
                          /\ p = Pin(e, got, entry'[e].version)
    OBVIOUS
  <1>1. /\ req[r].phase = "ready" /\ req[r].cmd.op = "UPLOAD" /\ Finish(r) /\ Release(r)
        /\ entry' = [entry EXCEPT ![e] = Uploadable(entry[e])]
        /\ run' = Append(run, NewRun("MANUAL", {p}))
        /\ UNCHANGED <<source, grant, trail>>
    BY DEF AuthorizeUpload
  <1>2. e \in Entries /\ s \in Sources
    BY <1>1, ClaimedCommand, CommandFields DEF IInv, Entries, SourceOf
  <1>3. /\ got \in Nat /\ got <= source[s].version
        /\ got = source[s].version => Usable(source[s]) /\ source[s].method = "MANUAL_UPLOAD"
    BY <1>1 DEF IInv, Reads, Serving, UploadReads, Middle
  <1>4. entry \in [Entries -> EntryRow] /\ entry[e].version \in Nat
    BY <1>2 DEF IInv, RowsTyped, EntryRow
  <1>5. /\ Uploadable(entry[e]) \in EntryRow
        /\ Uploadable(entry[e]).version = entry[e].version + 1
        /\ Uploadable(entry[e]).permission = "NOT_REQUIRED"
        /\ Uploadable(entry[e]).method = "MANUAL_UPLOAD"
    BY <1>4 DEF Uploadable, EntryRow, Methods
  <1>6. /\ entry' \in [Entries -> EntryRow] /\ entry'[e] = Uploadable(entry[e])
        /\ \A x \in Entries : entry'[x] = entry[x] \/ entry'[x].version = entry[x].version + 1
    BY <1>1, <1>2, <1>4, <1>5
  <1>7. Evolves
    BY <1>1, <1>6, EntriesEvolve
  <1>8. /\ p.entry = e /\ p.source = got /\ p.manifest = entry'[e].version /\ p \in PinRow
    BY <1>2, <1>3, <1>4, <1>5, <1>6 DEF Pin, PinRow
  <1>9. run' \in Seq(RunRow) /\ \A x : OpenRefreshes(x)' = OpenRefreshes(x)
    <2>1. {p} \in SUBSET PinRow /\ "MANUAL" \in {"ACQUISITION", "REFRESH", "MANUAL"}
      BY <1>8
    <2>2. QED
      BY <1>1, <2>1, RunAppended
  <1>10. RowsTyped' /\ Earned' /\ Refreshing'
    <2>1. RowsTyped'
      BY <1>1, <1>6, <1>9 DEF IInv, RowsTyped
    <2>2. Earned'
      BY <1>1 DEF IInv, Earned, EarnedAt
    <2>3. Refreshing'
      BY <1>1, <1>9 DEF IInv, Refreshing
    <2>4. QED
      BY <2>1, <2>2, <2>3
  <1>11. UploadedPin(p)'
    <2>1. source' = source /\ SourceOf(p.entry) = s
      BY <1>1, <1>8
    <2>2. PinOld(p)'
      <3>1. p.source <= source'[SourceOf(p.entry)].version
        BY <1>3, <1>8, <2>1
      <3>2. p.manifest = entry'[p.entry].version /\ p.manifest \in Nat
        BY <1>8 DEF PinRow
      <3>3. p.manifest <= p.manifest
        <4>1. \A n \in Nat : n <= n
          OBVIOUS
        <4>2. QED
          BY <3>2, <4>1, Zenon
      <3>4. p.manifest <= entry'[p.entry].version
        BY <3>2, <3>3, Zenon
      <3>5. QED
        BY <3>1, <3>4 DEF PinOld
    <2>3. PinNow(p)' => got = source[s].version
      BY <1>8, <2>1 DEF PinNow
    <2>4. (got = source[s].version) => UploadPermitted(entry'[p.entry], source'[s])
      BY <1>3, <1>5, <1>6, <1>8, <2>1 DEF UploadPermitted
    <2>5. QED
      BY <2>1, <2>2, <2>3, <2>4 DEF UploadedPin
  <1>12. Pinned' /\ OfOneSource'
    <2>1. {p} \in SUBSET PinRow /\ "MANUAL" \in {"ACQUISITION", "REFRESH", "MANUAL"}
      BY <1>8
    <2>2. \A x \in {p} : IF "MANUAL" = "MANUAL" THEN UploadedPin(x)' ELSE AcquiredPin(x)'
      BY <1>11
    <2>3. QED
      BY <1>1, <1>7, <1>10, <2>1, <2>2, AppendedPins
  <1>13. OnlyMoves(r) /\ Serving(r)' /\ LocksMove(r)
    BY <1>1, FinishMoves, ReleaseLocks DEF IInv
  <1>14. QED
    BY <1>1, <1>7, <1>10, <1>12, <1>13, StepOf

-----------------------------------------------------------------------------
(* Refreshes                                                               *)

\* The refresh state of a source moves, its version does not.
RefreshMoves(s, to, what) ==
    /\ source' = [source EXCEPT ![s].refresh = to]
    /\ trail' = [trail EXCEPT ![s] = Append(@, Event(what, NoOne))]
    /\ UNCHANGED <<grant, entry>>

LEMMA RefreshOnly ==
  ASSUME IInv, NEW s \in Sources, NEW to \in {"CURRENT", "REFRESH_DUE", "REFRESHING", "STALE"},
         NEW what \in {"REFRESH_STARTED", "REFRESH_COMPLETED"}, RefreshMoves(s, to, what),
         source[s].version > 0, run' \in Seq(RunRow)
  PROVE  /\ RowsTyped' /\ Evolves /\ Earned'
         /\ source'[s].refresh = to
         /\ \A x \in Sources \ {s} : source'[x] = source[x]
  <1> DEFINE src == [source[s] EXCEPT !.refresh = to]
             event == Event(what, NoOne)
  <1>1. source \in [Sources -> SourceRow] /\ trail \in [Sources -> Seq(EventRow)]
    BY DEF IInv, RowsTyped
  <1>2. source[s] \in SourceRow
    BY <1>1
  <1>3. /\ src \in SourceRow /\ src.refresh = to /\ src.version = source[s].version
        /\ src.owners = source[s].owners /\ src.method = source[s].method
        /\ src.status = source[s].status /\ src.approval = source[s].approval
        /\ src.approver = source[s].approver /\ src.access = source[s].access
    BY <1>2 DEF SourceRow
  <1>4. source' = [source EXCEPT ![s] = src]
    BY <1>1 DEF RefreshMoves
  <1> HIDE DEF src
  <1>5. event \in EventRow /\ event.what = what
    BY Events
  <1>6. /\ trail' = [trail EXCEPT ![s] = Append(trail[s], event)]
        /\ UNCHANGED <<grant, entry>>
    BY DEF RefreshMoves
  <1> HIDE DEF event
  <1>7. /\ source' \in [Sources -> SourceRow] /\ source'[s] = src
        /\ \A x \in Sources \ {s} : source'[x] = source[x]
        /\ trail'[s] = Append(trail[s], event) /\ \A x \in Sources \ {s} : trail'[x] = trail[x]
    BY <1>1, <1>3, <1>4, <1>6
  <1>8. /\ trail'[s] \in Seq(EventRow)
        /\ GrantedLast(trail[s]) => GrantedLast(trail'[s])
        /\ \A u : ApprovedSince(trail[s], u) => ApprovedSince(trail'[s], u)
    BY <1>1, <1>5, <1>7, LogAppend
  <1>9. RowsTyped'
    <2>1. trail' \in [Sources -> Seq(EventRow)]
      BY <1>1, <1>6, <1>8
    <2>2. \A x \in Sources : source'[x].approver = NoOne <=> source'[x].approval # "APPROVED"
      <3>1. \A x \in Sources : source[x].approver = NoOne <=> source[x].approval # "APPROVED"
        BY DEF IInv, RowsTyped
      <3>2. \A x \in Sources : /\ source'[x].approver = source[x].approver
                               /\ source'[x].approval = source[x].approval
        BY <1>3, <1>7
      <3>3. QED
        BY <3>1, <3>2
    <2>3. QED
      BY <1>6, <1>7, <2>1, <2>2 DEF IInv, RowsTyped
  <1>10. \A x \in Sources : /\ source[x].version \in Nat /\ source'[x].version = source[x].version
                            /\ Usable(source[x])' = Usable(source[x])
                            /\ source'[x].method = source[x].method
                            /\ source'[x].access = source[x].access
    <2>1. \A x \in Sources : /\ source'[x].version = source[x].version
                             /\ source'[x].method = source[x].method
                             /\ source'[x].access = source[x].access
                             /\ source'[x].status = source[x].status
                             /\ source'[x].approval = source[x].approval
      BY <1>3, <1>7
    <2>2. \A x \in Sources : source[x].version \in Nat
      BY <1>1 DEF SourceRow
    <2>3. QED
      BY <2>1, <2>2 DEF Usable
  <1>11. \A x \in Sources : MayAcquire(x, source[x])' = MayAcquire(x, source[x])
    BY <1>6, <1>10 DEF MayAcquire, Authorization
  <1>12. Evolves
    <2>1. \A e \in Entries : entry[e].version \in Nat
      BY DEF IInv, RowsTyped, EntryRow
    <2>2. QED
      BY <1>6, <1>10, <1>11, <2>1 DEF Evolves
  <1>13. ASSUME NEW x \in Sources
         PROVE  EarnedAt(x)'
    <2>1. EarnedAt(x)
      BY DEF IInv, Earned
    <2>2. CASE x # s
      BY <1>6, <1>7, <2>1, <2>2 DEF EarnedAt
    <2>3. CASE x = s
      BY <1>3, <1>6, <1>7, <1>8, <2>1, <2>3 DEF EarnedAt
    <2>4. QED
      BY <2>2, <2>3
  <1>14. QED
    BY <1>3, <1>7, <1>9, <1>12, <1>13 DEF Earned

LEMMA StartRefreshStep ==
  ASSUME IInv, NEW r \in Requests, StartRefresh(r)
  PROVE  IInv'
  <1> PICK s, items : s = req[r].cmd.source /\ items = req[r].got
    OBVIOUS
  <1>1. /\ req[r].phase = "ready" /\ req[r].cmd.op = "REFRESH" /\ Finish(r) /\ Release(r)
        /\ RefreshMoves(s, "REFRESHING", "REFRESH_STARTED")
        /\ run' = Append(run, NewRun("REFRESH", items))
    BY DEF StartRefresh, RefreshMoves
  <1>2. s \in Sources
    BY <1>1, ClaimedCommand, CommandFields DEF IInv
  <1>3. RefreshReads(r) /\ Holds(r)
    BY <1>1 DEF IInv, Reads, Serving, Middle
  <1>4. /\ items \in SUBSET PinRow /\ items # {}
        /\ \A p \in items : AcquiredPin(p) /\ SourceOf(p.entry) = s
    BY <1>3 DEF RefreshReads
  <1>5. sourceLock[s] = r /\ source[s].refresh # "REFRESHING" /\ source[s].version > 0
    BY <1>3 DEF Holds
  <1>6. /\ run' \in Seq(RunRow)
        /\ \A x : OpenRefreshes(x)' = OpenRefreshes(x) \cup
             {k \in {Len(run) + 1} : \A p \in items : SourceOf(p.entry) = x}
    BY <1>1, <1>4, RunAppended
  <1>7. /\ RowsTyped' /\ Evolves /\ Earned' /\ source'[s].refresh = "REFRESHING"
        /\ \A x \in Sources \ {s} : source'[x] = source[x]
    BY <1>1, <1>2, <1>5, <1>6, RefreshOnly
  <1>8. \A p \in items : AcquiredPin(p)'
    BY <1>4, <1>7, PinsEvolve DEF IInv
  <1>9. Pinned' /\ OfOneSource'
    BY <1>1, <1>2, <1>4, <1>7, <1>8, AppendedPins
  <1>10. OpenRefreshes(s) = {}
    BY <1>2, <1>5 DEF IInv, Refreshing
  <1>11. OpenRefreshes(s)' = {Len(run) + 1}
    BY <1>4, <1>6, <1>10
  <1>12. \A x \in Sources \ {s} : OpenRefreshes(x)' = OpenRefreshes(x)
    BY <1>4, <1>6
  <1>13. Refreshing'
    BY <1>7, <1>11, <1>12 DEF IInv, Refreshing
  <1>14. OnlyMoves(r) /\ Serving(r)' /\ LocksMove(r)
    BY <1>1, FinishMoves, ReleaseLocks DEF IInv
  <1>15. QED
    BY <1>5, <1>7, <1>9, <1>13, <1>14, StepOf

\* Runs that keep their kinds, their items and, all but one, their being open.
LEMMA RunsKept ==
  ASSUME IInv, RowsTyped', Evolves, DOMAIN run' = DOMAIN run,
         \A k \in DOMAIN run : run'[k].kind = run[k].kind /\ run'[k].items = run[k].items
  PROVE  Pinned' /\ OfOneSource'
  <1>1. \A k \in DOMAIN run : \A p \in run[k].items :
          IF run[k].kind = "MANUAL" THEN UploadedPin(p)' ELSE AcquiredPin(p)'
    BY PinsKept
  <1>2. QED
    BY <1>1 DEF IInv, Pinned, OfOneSource

LEMMA CompleteUploadStep ==
  ASSUME IInv, NEW r \in Requests, CompleteUpload(r)
  PROVE  IInv'
  <1>1. CASE Rollback(r, "refused")
    BY <1>1, RollbackStep
  <1>2. CASE ~ Rollback(r, "refused")
    <2> PICK k : k = req[r].cmd.run
      OBVIOUS
    <2>1. /\ k \in DOMAIN run /\ run' = [run EXCEPT ![k].waiting = FALSE] /\ Finish(r)
          /\ UNCHANGED <<source, grant, entry, trail>> /\ UNCHANGED locks
      BY <1>2 DEF CompleteUpload, Uploaded
    <2>2. run \in Seq(RunRow) /\ run[k] \in RunRow /\ k \in 1..Len(run)
      BY <2>1, RunRows DEF IInv, RowsTyped
    <2> DEFINE new == [run[k] EXCEPT !.waiting = FALSE]
    <2>3. new \in RunRow /\ new.kind = run[k].kind /\ new.items = run[k].items /\ new.open = run[k].open
      BY <2>2 DEF RunRow
    <2>4. run' = [run EXCEPT ![k] = new]
      BY <2>1
    <2> HIDE DEF new
    <2>5. /\ run' \in Seq(RunRow) /\ DOMAIN run' = DOMAIN run
          /\ \A j \in DOMAIN run : run'[j] = IF j = k THEN new ELSE run[j]
      BY <2>2, <2>3, <2>4, ExceptSeq
    <2>6. \A j \in DOMAIN run : /\ run'[j].kind = run[j].kind /\ run'[j].items = run[j].items
                                /\ run'[j].open = run[j].open
      BY <2>3, <2>5
    <2>7. RowsTyped' /\ Earned'
      BY <2>1, <2>5 DEF IInv, RowsTyped, Earned, EarnedAt
    <2>8. Evolves
      BY <2>1, EntriesEvolve DEF IInv, RowsTyped
    <2>9. Pinned' /\ OfOneSource'
      BY <2>5, <2>6, <2>7, <2>8, RunsKept
    <2>10. \A s : OpenRefreshes(s)' = OpenRefreshes(s)
      BY <2>5, <2>6 DEF OpenRefreshes
    <2>11. Refreshing'
      BY <2>1, <2>10 DEF IInv, Refreshing
    <2>12. OnlyMoves(r) /\ Serving(r)' /\ LocksMove(r)
      BY <2>1, FinishMoves, ReleaseLocks DEF IInv
    <2>13. QED
      BY <2>1, <2>7, <2>8, <2>9, <2>11, <2>12, StepOf
  <1>3. QED
    BY <1>1, <1>2

LEMMA RefreshDrainsStep ==
  ASSUME IInv, NEW k \in DOMAIN run, RefreshDrains(k)
  PROVE  IInv'
  <1>1. /\ run[k].open /\ run[k].kind = "REFRESH" /\ run' = [run EXCEPT ![k].open = FALSE]
        /\ UNCHANGED <<grant, entry, req>> /\ UNCHANGED locks
    BY DEF RefreshDrains
  <1>2. PICK s \in Sources : run[k].items # {} /\ \A p \in run[k].items : SourceOf(p.entry) = s
    BY <1>1 DEF IInv, OfOneSource
  <1>3. SourceOf((CHOOSE p \in run[k].items : TRUE).entry) = s
    BY <1>2
  <1>4. k \in OpenRefreshes(s)
    BY <1>1, <1>2 DEF OpenRefreshes
  <1>5. source[s].refresh = "REFRESHING" /\ OpenRefreshes(s) = {k}
    BY <1>4 DEF IInv, Refreshing
  <1>6. PICK verdict \in {"CURRENT", "STALE"} :
          RefreshMoves(s, verdict, "REFRESH_COMPLETED")
    BY <1>1, <1>3, <1>5 DEF RefreshDrains, RefreshMoves
  <1>7. source[s].version > 0
    BY <1>5 DEF IInv, Earned, EarnedAt, RowsTyped, SourceRow
  <1>8. run \in Seq(RunRow) /\ run[k] \in RunRow
    BY RunRows DEF IInv, RowsTyped
  <1> DEFINE new == [run[k] EXCEPT !.open = FALSE]
  <1>9. new \in RunRow /\ new.kind = run[k].kind /\ new.items = run[k].items /\ ~ new.open
    BY <1>8 DEF RunRow
  <1>10. run' = [run EXCEPT ![k] = new]
    BY <1>1
  <1> HIDE DEF new
  <1>11. /\ run' \in Seq(RunRow) /\ DOMAIN run' = DOMAIN run
         /\ \A j \in DOMAIN run : run'[j] = IF j = k THEN new ELSE run[j]
    BY <1>8, <1>9, <1>10, ExceptSeq
  <1>12. /\ RowsTyped' /\ Evolves /\ Earned' /\ source'[s].refresh = verdict
         /\ \A x \in Sources \ {s} : source'[x] = source[x]
    BY <1>6, <1>7, <1>11, RefreshOnly
  <1>13. Pinned' /\ OfOneSource'
    BY <1>9, <1>11, <1>12, RunsKept
  <1>14. \A x : OpenRefreshes(x)' = OpenRefreshes(x) \ {k}
    BY <1>9, <1>11 DEF OpenRefreshes
  <1>15. Refreshing'
    <2>1. \A x \in Sources \ {s} : k \notin OpenRefreshes(x)
      BY <1>2 DEF OpenRefreshes
    <2>2. \A x \in Sources \ {s} : OpenRefreshes(x)' = OpenRefreshes(x)
      BY <1>14, <2>1
    <2>3. OpenRefreshes(s)' = {}
      BY <1>5, <1>14
    <2>4. QED
      BY <1>12, <2>2, <2>3 DEF IInv, Refreshing
  <1>16. ASSUME NEW q \in Requests
         PROVE  Serving(q)'
    <2>1. Undisturbed(q)
      BY <1>1, <1>12 DEF Undisturbed, locks
    <2>2. QED
      BY <1>1, <1>12, <2>1, OthersServe DEF IInv
  <1>17. LocksTyped' /\ ReqTyped'
    BY <1>1 DEF IInv, LocksTyped, ReqTyped, IsReq, locks
  <1>18. QED
    BY <1>12, <1>13, <1>15, <1>16, <1>17 DEF IInv, Reads

-----------------------------------------------------------------------------
(* The invariant                                                           *)

\* The rows of the three stages, and what their logs say.
LEMMA Stages ==
  ASSUME NEW stage \in {"absent", "manual", "granted"}, NEW owners \in Owners,
         NEW owner \in Users, NEW steward \in Users, steward \notin owners,
         NEW src, src = Stage(stage, owners, steward),
         NEW log, log = History(stage, owner, steward)
  PROVE  /\ src \in SourceRow /\ log \in Seq(EventRow)
         /\ src.approver = NoOne <=> src.approval # "APPROVED"
         /\ src.approval = "APPROVED" =>
              src.approver \in Users \ src.owners /\ ApprovedSince(log, src.approver)
         /\ stage = "granted" => src.version = 3 /\ GrantedLast(log)
         /\ src.refresh = "CURRENT"
  <1> DEFINE Created == Event("CREATED", owner)
             Approved == Event("APPROVED", steward)
             Gave == Event("GRANTED", steward)
  <1>1. /\ Created \in EventRow /\ Approved \in EventRow /\ Gave \in EventRow
        /\ Created.what = "CREATED" /\ Approved.what = "APPROVED" /\ Approved.by = steward
        /\ Gave.what = "GRANTED"
    BY Events
  <1>2. steward # NoOne
    BY GovernanceAssumption
  <1>3. CASE stage = "absent"
    <2>1. src = Absent /\ log = <<>>
      BY <1>3 DEF Stage, History
    <2>2. src \in SourceRow /\ src.approver = NoOne /\ src.approval = "DRAFT" /\ src.refresh = "CURRENT"
      BY <2>1 DEF Absent, SourceRow, Methods
    <2>3. log \in Seq(EventRow)
      BY <2>1
    <2>4. QED
      BY <1>3, <2>2, <2>3
  <1>4. CASE stage = "manual"
    <2>1. /\ src \in SourceRow /\ src.approver = steward /\ src.approval = "APPROVED"
          /\ src.owners = owners /\ src.refresh = "CURRENT"
      BY <1>4 DEF Stage, Absent, SourceRow, Methods
    <2>2. log = <<Created, Approved>>
      BY <1>4 DEF History
    <2> HIDE DEF Created, Approved
    <2>3. log \in Seq(EventRow) /\ DOMAIN log = 1..2 /\ log[1] = Created /\ log[2] = Approved
      BY <1>1, <2>2
    <2>4. 2 \in Changes(log) /\ \A j \in Changes(log) : ~ (2 < j)
      BY <1>1, <2>3 DEF Changes
    <2>5. ApprovedSince(log, steward)
      BY <1>1, <2>3, <2>4 DEF ApprovedSince
    <2>6. QED
      BY <1>2, <1>4, <2>1, <2>3, <2>5
  <1>5. CASE stage = "granted"
    <2>1. /\ src \in SourceRow /\ src.approver = steward /\ src.approval = "APPROVED"
          /\ src.owners = owners /\ src.refresh = "CURRENT" /\ src.version = 3
      BY <1>5 DEF Stage, Absent, SourceRow, Methods
    <2>2. log = <<Created, Approved, Gave>>
      BY <1>5 DEF History
    <2> HIDE DEF Created, Approved, Gave
    <2>3. /\ log \in Seq(EventRow) /\ DOMAIN log = 1..3
          /\ log[1] = Created /\ log[2] = Approved /\ log[3] = Gave
      BY <1>1, <2>2
    <2>4. /\ 2 \in Changes(log) /\ 3 \in Changes(log)
          /\ \A j \in Changes(log) : j <= 3 /\ (2 < j => j = 3)
      BY <1>1, <2>3 DEF Changes
    <2>5. ApprovedSince(log, steward)
      BY <1>1, <2>3, <2>4 DEF ApprovedSince
    <2>6. GrantedLast(log)
      BY <1>1, <2>3, <2>4 DEF GrantedLast
    <2>7. QED
      BY <1>2, <1>5, <2>1, <2>3, <2>5, <2>6
  <1>6. QED
    BY <1>3, <1>4, <1>5

LEMMA InitIInv ==
  ASSUME Init
  PROVE  IInv
  <1>1. PICK start \in Starts, owners \in Owners, owner \in Users, steward \in Users :
          /\ steward \notin owners
          /\ source = [s \in Sources |-> Stage(start[s], owners, steward)]
          /\ grant = {[source |-> s, version |-> 3, method |-> "DOWNLOAD", decision |-> "APPROVED"] :
                        s \in {t \in Sources : start[t] = "granted"}}
          /\ entry = [e \in Entries |-> IF start[SourceOf(e)] = "granted"
                        THEN [version |-> 2, permission |-> "APPROVED", method |-> "DOWNLOAD"]
                        ELSE NoEntry]
          /\ trail = [s \in Sources |-> History(start[s], owner, steward)]
          /\ run = <<>>
          /\ sourceLock = [s \in Sources |-> NoOne]
          /\ entryLock = [e \in Entries |-> NoOne]
          /\ req = [r \in Requests |-> [phase |-> "new", cmd |-> NoCommand, key |-> r, got |-> <<>>]]
    BY DEF Init
  <1>2. \A s \in Sources : start[s] \in {"absent", "manual", "granted"}
    BY GovernanceAssumption
  <1>3. \A s \in Sources :
          /\ source[s] \in SourceRow /\ trail[s] \in Seq(EventRow)
          /\ source[s].approver = NoOne <=> source[s].approval # "APPROVED"
          /\ source[s].approval = "APPROVED" =>
               source[s].approver \in Users \ source[s].owners
               /\ ApprovedSince(trail[s], source[s].approver)
          /\ start[s] = "granted" => source[s].version = 3 /\ GrantedLast(trail[s])
          /\ source[s].refresh = "CURRENT"
    <2>1. ASSUME NEW s \in Sources, NEW src, src = source[s], NEW log, log = trail[s]
          PROVE  /\ src \in SourceRow /\ log \in Seq(EventRow)
                 /\ src.approver = NoOne <=> src.approval # "APPROVED"
                 /\ src.approval = "APPROVED" =>
                      src.approver \in Users \ src.owners /\ ApprovedSince(log, src.approver)
                 /\ start[s] = "granted" => src.version = 3 /\ GrantedLast(log)
                 /\ src.refresh = "CURRENT"
      <3>1. src = Stage(start[s], owners, steward) /\ log = History(start[s], owner, steward)
        BY <1>1, <2>1
      <3>2. start[s] \in {"absent", "manual", "granted"} /\ steward \notin owners
        BY <1>1, <1>2
      <3>3. QED
        BY <3>1, <3>2, Stages, SMTT(30)
    <2>2. QED
      BY <2>1
  <1>4. \A g \in grant : g \in GrantRow /\ g.version = 3 /\ start[g.source] = "granted"
    BY <1>1 DEF GrantRow, Methods
  <1>5. entry \in [Entries -> EntryRow]
    BY <1>1 DEF EntryRow, NoEntry, Methods
  <1>6. RowsTyped
    <2>1. source \in [Sources -> SourceRow] /\ trail \in [Sources -> Seq(EventRow)]
      BY <1>1, <1>3
    <2>2. run \in Seq(RunRow)
      BY <1>1
    <2>3. QED
      BY <1>3, <1>4, <1>5, <2>1, <2>2 DEF RowsTyped
  <1>7. LocksTyped
    BY <1>1 DEF LocksTyped
  <1>8. ReqTyped /\ Reads
    BY <1>1 DEF ReqTyped, IsReq, Phases, NoCommand, Reads, Serving, Middle
  <1>9. Earned
    BY <1>3, <1>4 DEF Earned, EarnedAt, GrantRow
  <1>10. Pinned /\ OfOneSource
    BY <1>1 DEF Pinned, OfOneSource
  <1>11. Refreshing
    BY <1>1, <1>3 DEF Refreshing, OpenRefreshes
  <1>12. QED
    BY <1>6, <1>7, <1>8, <1>9, <1>10, <1>11 DEF IInv

LEMMA StutterIInv ==
  ASSUME IInv, UNCHANGED vars
  PROVE  IInv'
  <1>1. UNCHANGED rows /\ UNCHANGED <<sourceLock, entryLock, req>>
    BY DEF vars, rows
  <1>2. ASSUME NEW q \in Requests
        PROVE  Serving(q)'
    BY <1>1, RowsStay, OthersServe DEF IInv, Undisturbed, rows
  <1>3. LocksTyped' /\ ReqTyped'
    BY <1>1 DEF IInv, LocksTyped, ReqTyped, IsReq
  <1>4. QED
    BY <1>1, <1>2, <1>3, RowsStay DEF IInv, Reads

LEMMA NextIInv ==
  ASSUME IInv, [Next]_vars
  PROVE  IInv'
  <1>1. CASE UNCHANGED vars
    BY <1>1, StutterIInv
  <1>2. ASSUME NEW k \in DOMAIN run, RefreshDrains(k)
        PROVE  IInv'
    BY <1>2, RefreshDrainsStep
  <1>3. ASSUME NEW r \in Requests, NEW c \in Offered, Ask(r, c)
        PROVE  IInv'
    BY <1>3, AskStep
  <1>4. ASSUME NEW r \in Requests, NEW q \in Requests, AskAgain(r, q)
        PROVE  IInv'
    BY <1>4, AskAgainStep
  <1>5. ASSUME NEW r \in Requests, Replay(r)
        PROVE  IInv'
    BY <1>5, ReplayStep
  <1>6. ASSUME NEW r \in Requests, RefuseSource(r) \/ Invalid(r) \/ Crash(r) \/ RefuseImport(r)
        PROVE  IInv'
    BY <1>6, RefusedStep
  <1>7. ASSUME NEW r \in Requests,
               \/ CreateSource(r) \/ UpdateSource(r) \/ ApproveSource(r)
               \/ AuthorizeAcquisition(r) \/ MarkSource(r)
        PROVE  IInv'
    BY <1>7, CreateSourceStep, UpdateSourceStep, ApproveSourceStep, AuthorizeAcquisitionStep,
       MarkSourceStep
  <1>8. ASSUME NEW r \in Requests,
               ImportEntry(r) \/ CommitImport(r) \/ ReadForDecision(r) \/ DecideEntry(r)
        PROVE  IInv'
    BY <1>8, ImportEntryStep, CommitImportStep, ReadForDecisionStep, DecideEntryStep
  <1>9. ASSUME NEW r \in Requests,
               ReadEntries(r) \/ CheckEntry(r) \/ CommitRun(r) \/ ReadForRefresh(r) \/ StartRefresh(r)
        PROVE  IInv'
    BY <1>9, ReadEntriesStep, CheckEntryStep, CommitRunStep, ReadForRefreshStep, StartRefreshStep
  <1>10. ASSUME NEW r \in Requests,
                \/ ReadForUpload(r) \/ UpsertUpload(r) \/ AuthorizeUpload(r) \/ CompleteUpload(r)
         PROVE  IInv'
    BY <1>10, ReadForUploadStep, UpsertUploadStep, AuthorizeUploadStep, CompleteUploadStep
  <1>11. QED
    BY <1>1, <1>2, <1>3, <1>4, <1>5, <1>6, <1>7, <1>8, <1>9, <1>10
       DEF Next, CommandOnSource, CommandOnManifest, CommandOnRun

-----------------------------------------------------------------------------
(* The theorems                                                            *)

\* Every state has typed rows, pins that stand for a permission and sources
\* refreshed once at a time: what each handler of knowledge/service.py and
\* ingestion/service.py relies on and keeps.
THEOREM InvariantHolds == Spec => []IInv
  <1>1. Init => IInv
    BY InitIInv
  <1>2. IInv /\ [Next]_vars => IInv'
    BY NextIInv
  <1>3. QED
    BY <1>1, <1>2, PTL DEF Spec

\* The rows stay rows of their tables: the repositories' inserts and updates
\* write only values of the columns' types.
THEOREM TypeCorrect == Spec => []TypeOK
  <1>1. IInv => TypeOK
    BY DEF IInv, RowsTyped, LocksTyped, ReqTyped, IsReq, Phases, TypeOK
  <1>2. QED
    BY <1>1, InvariantHolds, PTL

\* A source the worker may acquire from earned it: update, decide_approval
\* and authorize_acquisition together let no permission outlive what it was
\* given for.
THEOREM PermissionsEarned == Spec => []PermissionEarned
  <1>1. ASSUME IInv
        PROVE  PermissionEarned
    <2>1. ASSUME NEW s \in Sources, MayAcquire(s, source[s])
          PROVE  /\ GrantedLast(trail[s])
                 /\ \E u \in Users \ source[s].owners : ApprovedSince(trail[s], u)
      <3>1. EarnedAt(s)
        BY <1>1 DEF IInv, Earned
      <3>2. source[s].approval = "APPROVED"
        BY <2>1 DEF MayAcquire, Usable
      <3>3. PICK g \in grant : /\ g.source = s /\ g.version = source[s].version
                               /\ g.decision = "APPROVED"
        BY <2>1 DEF MayAcquire, Authorization
      <3>4. QED
        BY <3>1, <3>2, <3>3 DEF EarnedAt
    <2>2. QED
      BY <2>1 DEF PermissionEarned
  <1>2. QED
    BY <1>1, InvariantHolds, PTL

\* An item whose pins are still current is still permitted: create_run,
\* start_refresh and authorize_manual_upload pin what they read, and every
\* change that withdraws a permission moves a version.
THEOREM PinsStaySound == Spec => []PinsSound
  <1>1. ASSUME IInv
        PROVE  PinsSound
    <2>1. ASSUME NEW k \in DOMAIN run, NEW p \in run[k].items,
                 p.source = source[SourceOf(p.entry)].version, p.manifest = entry[p.entry].version
          PROVE  IF run[k].kind = "MANUAL"
                 THEN UploadPermitted(entry[p.entry], source[SourceOf(p.entry)])
                 ELSE EntryPermitted(p.entry, entry[p.entry], source[SourceOf(p.entry)])
      <3>1. IF run[k].kind = "MANUAL" THEN UploadedPin(p) ELSE AcquiredPin(p)
        BY <1>1 DEF IInv, Pinned
      <3>2. PinNow(p)
        BY <2>1 DEF PinNow
      <3>3. QED
        BY <3>1, <3>2 DEF UploadedPin, AcquiredPin
    <2>2. QED
      BY <2>1 DEF PinsSound
  <1>2. QED
    BY <1>1, InvariantHolds, PTL

\* A source is refreshing exactly while one refresh run of it is open:
\* start_refresh, transition_refresh and the worker's verdict never part the
\* two.
THEOREM RefreshedOnceAtATime == Spec => []OneRefresh
  <1>1. ASSUME IInv
        PROVE  OneRefresh
    <2>1. ASSUME NEW s \in Sources, source[s].refresh = "REFRESHING"
          PROVE  Cardinality(OpenRefreshes(s)) = 1
      <3>1. PICK k : OpenRefreshes(s) = {k}
        BY <1>1, <2>1 DEF IInv, Refreshing
      <3>2. QED
        BY <3>1, FS_Singleton
    <2>2. ASSUME NEW s \in Sources, source[s].refresh # "REFRESHING"
          PROVE  OpenRefreshes(s) = {}
      BY <1>1, <2>2 DEF IInv, Refreshing
    <2>3. QED
      BY <2>1, <2>2 DEF OneRefresh
  <1>2. QED
    BY <1>1, InvariantHolds, PTL

=============================================================================
