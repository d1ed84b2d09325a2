------------------------------ MODULE Knowledge ------------------------------
(***************************************************************************)
(* What a tenant's users can find in the knowledge base. A document is     *)
(* approved, published and retired (document_service.py). The corpus is    *)
(* validated, which flags near-duplicate chunks                            *)
(* (corpus_validation_service.py), published as a numbered version that    *)
(* suppresses the flagged chunks, and rolled back                          *)
(* (corpus_publication_service.py). Retrieval reads both.                  *)
(*                                                                         *)
(* Every command is one READ COMMITTED transaction of several statements;  *)
(* the model keeps the statements whose order against other commands and   *)
(* against the processing worker matters. What a transaction has not       *)
(* committed is in req; the other variables hold committed rows.           *)
(*                                                                         *)
(* A document version has one processing version and one chunk, which      *)
(* stands for all of them, and the chunks of different documents are near  *)
(* duplicates. Documents are numbered in the order they were created.      *)
(***************************************************************************)
EXTENDS Integers, Sequences, FiniteSetsExt

CONSTANTS
    Docs,          \* documents of the tenant: a set of positive integers
    Bound,         \* bound: versions each document can have
    Starts,        \* at the start: the stages of the documents, and whether
                   \* the corpus has been published
    Requests,      \* HTTP requests; each is also an idempotency key
    Owner,         \* the owner of the source, who may not approve
    Steward,       \* anybody else
    NoOne          \* nobody holds it

ASSUME KnowledgeAssumption ==
    /\ Docs \subseteq Nat \ {0} /\ Docs # {} /\ IsFiniteSet(Docs)
    /\ Bound \in [Docs -> Nat \ {0}]
    /\ Starts \subseteq [stage : [Docs -> {"DRAFT", "APPROVED", "LIVE"}], published : BOOLEAN]
    /\ Owner # Steward
    /\ NoOne \notin Requests /\ Requests \cap {"free", "done"} = {}

VARIABLES
    doc,       \* kb.document: approval_status, active_flag, row_version
    version,   \* kb.document_version with its processing version, per document and number
    current,   \* numbers of the versions with current_version_flag
    trail,     \* audit rows and publication events of documents, in commit order
    flagged,   \* chunks with near_duplicate_suppressed_flag
    runs,      \* kb.corpus_validation_run
    begun,     \* validation runs begun so far: their created_at
    corpus,    \* kb.corpus_version, by version_number
    ledger,    \* kb.corpus_publication_event, in commit order
    claim,     \* integration.idempotency_record
    req        \* the requests

documents == <<doc, version, current, trail>>
corpora == <<flagged, runs, corpus, ledger>>
vars == <<doc, version, current, trail, flagged, runs, begun, corpus, ledger, claim, req>>

Numbers == UNION {1..Bound[d] : d \in Docs}
Chunks == Docs \X Numbers

DocumentCommands ==
    [op : {"DECIDE"}, doc : Docs, expected : Nat,
     decision : {"APPROVED", "REJECTED"}, by : {Owner, Steward}]
      \cup [op : {"PUBLISH"}, doc : Docs, expected : Nat, version : Numbers]
      \cup [op : {"RETIRE"}, doc : Docs, expected : Nat]
CorpusCommands == [op : {"VALIDATE", "PUBLISH_CORPUS", "ROLLBACK"}]
NoCommand == [op |-> "NONE"]

Approvals == {"DRAFT", "APPROVED", "REJECTED", "RETIRED"}
\* "stored": no processing yet; "running": being processed; "valid": completed
\* and PASSED or WARNING; "invalid": its chunks failed validation; "failed":
\* processing failed before there were chunks.
Versions == {"none", "stored", "running", "valid", "invalid", "failed"}

DocumentRow == [approval : Approvals, active : BOOLEAN, row : Nat]
ValidationRun == [at : Nat, seen : SUBSET Chunks, truncated : BOOLEAN]
CorpusRow == [active : BOOLEAN, run : Nat, suppressed : SUBSET Chunks]

TypeOK ==
    /\ doc \in [Docs -> DocumentRow]
    /\ version \in [Docs -> [Numbers -> Versions]]
    /\ current \in [Docs -> SUBSET Numbers]
    /\ flagged \subseteq Chunks
    /\ runs \subseteq ValidationRun
    /\ corpus \in Seq(CorpusRow)
    /\ claim \in [Requests -> {"free", "done"} \cup Requests]
    /\ \A r \in Requests :
         /\ req[r].phase \in {"new", "asked", "claimed", "read", "scanned", "ready", "switching",
                              "switched", "written", "done", "failed"}
         /\ req[r].key \in Requests
         /\ req[r].cmd \in DocumentCommands \cup CorpusCommands \cup {NoCommand}

(***************************************************************************)
(* The states the system is started in: the stages a document goes         *)
(* through, and a tenant that has or has not published its corpus.         *)
(***************************************************************************)

Event(what, v, by, key) == [what |-> what, version |-> v, by |-> by, key |-> key]

History(stage) ==
    LET approved == Event("APPROVED", 0, Steward, NoOne)
        published == Event("PUBLISHED", 1, Steward, NoOne) IN
    CASE stage = "DRAFT" -> <<>>
      [] stage = "APPROVED" -> <<approved>>
      [] stage = "LIVE" -> <<approved, published>>

\* Version 1 of the corpus was published when there was only the first
\* document, version 2 after a validation that saw the second one.
Published ==
    LET first == {<<Min(Docs), 1>>}
        copies == {<<d, 1>> : d \in Docs \ {Min(Docs)}} IN
    /\ flagged = copies
    /\ begun = 2
    /\ runs = {[at |-> 1, seen |-> first, truncated |-> FALSE],
               [at |-> 2, seen |-> first \cup copies, truncated |-> FALSE]}
    /\ corpus = <<[active |-> FALSE, run |-> 1, suppressed |-> {}],
                  [active |-> TRUE, run |-> 2, suppressed |-> copies]>>
    /\ ledger = <<[what |-> "PUBLISHED", version |-> 1, key |-> NoOne],
                  [what |-> "PUBLISHED", version |-> 2, key |-> NoOne]>>

Unpublished ==
    /\ flagged = {} /\ begun = 0 /\ runs = {} /\ corpus = <<>> /\ ledger = <<>>

Init ==
    /\ \E start \in Starts :
         /\ trail = [d \in Docs |-> History(start.stage[d])]
         /\ current = [d \in Docs |-> IF start.stage[d] = "LIVE" THEN {1} ELSE {}]
         /\ IF start.published THEN Published ELSE Unpublished
    /\ doc = [d \in Docs |-> [approval |-> IF trail[d] = <<>> THEN "DRAFT" ELSE "APPROVED",
                              active |-> TRUE, row |-> Len(trail[d]) + 1]]
    /\ version = [d \in Docs |-> [v \in Numbers |-> IF v = 1 THEN "valid" ELSE "none"]]
    /\ claim = [r \in Requests |-> "free"]
    /\ req = [r \in Requests |-> [phase |-> "new", key |-> r, cmd |-> NoCommand, got |-> <<>>]]

(***************************************************************************)
(* Requests, claims and transactions.                                      *)
(***************************************************************************)

Goto(r, phase, got) == req' = [req EXCEPT ![r].phase = phase, ![r].got = got]

\* ROLLBACK, after a refusal or a lost process: nothing was written and the claim's row goes with the rest.
Undo(r) ==
    /\ Goto(r, "failed", <<>>)
    /\ claim' = [k \in Requests |-> IF claim[k] = r THEN "free" ELSE claim[k]]
    /\ UNCHANGED <<documents, corpora, begun>>

\* complete_idempotency and COMMIT.
Commit(r) ==
    /\ Goto(r, "done", <<>>)
    /\ claim' = [claim EXCEPT ![req[r].key] = "done"]

\* The caller sends a command about the row it has just read, or sends one
\* again, under its key, because no answer came.
Ask(r, c) ==
    /\ req[r].phase = "new"
    /\ c \in DocumentCommands => c.expected = doc[c.doc].row
    /\ req' = [req EXCEPT ![r].phase = "asked", ![r].cmd = c]
    /\ UNCHANGED <<documents, corpora, begun, claim>>

AskAgain(r, q) ==
    /\ req[r].phase = "new" /\ req[q].cmd # NoCommand
    /\ req' = [req EXCEPT ![r].phase = "asked", ![r].cmd = req[q].cmd, ![r].key = req[q].key]
    /\ UNCHANGED <<documents, corpora, begun, claim>>

\* INSERT .. ON CONFLICT DO NOTHING waits for another holder of the key; a
\* completed key answers the recorded result and changes nothing.
ClaimIdempotency(r) ==
    LET k == req[r].key IN
    /\ req[r].phase = "asked" /\ claim[k] \in {"free", "done"}
    /\ IF claim[k] = "done"
       THEN Goto(r, "done", <<>>) /\ UNCHANGED claim
       ELSE Goto(r, "claimed", <<>>) /\ claim' = [claim EXCEPT ![k] = r]
    /\ UNCHANGED <<documents, corpora, begun>>

\* The process or the connection dies and the database rolls back.
Crash(r) ==
    /\ req[r].phase \notin {"new", "done", "failed"}
    /\ Undo(r)

(***************************************************************************)
(* Documents.                                                              *)
(***************************************************************************)

\* Mutant of LockDocument: the row is read without FOR UPDATE.
LockDocument_Mutant(r) ==
    /\ req[r].phase = "claimed" /\ req[r].cmd \in DocumentCommands
    /\ Goto(r, "read", doc[req[r].cmd.doc])
    /\ UNCHANGED <<documents, corpora, begun, claim>>

\* get(..., lock=True): the row as it stands once no other command holds it.
LockDocument(r) ==
    /\ req[r].phase = "claimed" /\ req[r].cmd \in DocumentCommands
    /\ \A q \in Requests :
         req[q].phase = "read" => req[q].cmd.doc # req[r].cmd.doc
    /\ Goto(r, "read", doc[req[r].cmd.doc])
    /\ UNCHANGED <<documents, corpora, begun, claim>>

Reads(r, op) == req[r].phase = "read" /\ req[r].cmd.op = op

Record(r, d, what, v, by) == trail' = [trail EXCEPT ![d] = Append(@, Event(what, v, by, req[r].key))]

\* The UPDATE of approve compares the row version itself and leaves a retired
\* document alone.
Approvable(c) == doc[c.doc].row = c.expected /\ doc[c.doc].approval # "RETIRED"
Approve(c) ==
    /\ doc' = [doc EXCEPT ![c.doc].approval = c.decision, ![c.doc].row = @ + 1]
    /\ UNCHANGED <<version, current, corpora, begun>>

\* decide: the source's owner is turned away.
Decide(r) ==
    LET c == req[r].cmd IN
    /\ Reads(r, "DECIDE")
    /\ IF c.by # Owner /\ Approvable(c)
       THEN Approve(c) /\ Record(r, c.doc, c.decision, 0, c.by) /\ Commit(r)
       ELSE Undo(r)

Publishable(r) ==
    LET c == req[r].cmd  row == req[r].got IN
    /\ row.row = c.expected
    /\ row.approval = "APPROVED" /\ row.active
    /\ version[c.doc][c.version] = "valid"

\* Mutant of MakeCurrent: the version published before stays current.
MakeCurrent_Mutant(d, v) ==
    /\ current' = [current EXCEPT ![d] = @ \cup {v}]
    /\ doc' = [doc EXCEPT ![d].row = @ + 1]
    /\ UNCHANGED <<version, corpora, begun>>

\* publish, of the repository: v takes the place of what was current before.
MakeCurrent(d, v) ==
    /\ current' = [current EXCEPT ![d] = {v}]
    /\ doc' = [doc EXCEPT ![d].row = @ + 1]
    /\ UNCHANGED <<version, corpora, begun>>

\* publish decides on the row it locked and on a processing version, which no
\* later step makes invalid.
PublishDocument(r) ==
    LET c == req[r].cmd IN
    /\ Reads(r, "PUBLISH")
    /\ IF Publishable(r)
       THEN MakeCurrent(c.doc, c.version) /\ Record(r, c.doc, "PUBLISHED", c.version, Steward) /\ Commit(r)
       ELSE Undo(r)

\* retire, of the repository.
Withdraw(d) ==
    /\ doc' = [doc EXCEPT ![d] = [approval |-> "RETIRED", active |-> FALSE, row |-> @.row + 1]]
    /\ current' = [current EXCEPT ![d] = {}]
    /\ UNCHANGED <<version, corpora, begun>>

\* Only a document with a current version can be retired.
Retire(r) ==
    LET c == req[r].cmd IN
    /\ Reads(r, "RETIRE")
    /\ IF req[r].got.row = c.expected /\ current[c.doc] # {}
       THEN Withdraw(c.doc) /\ Record(r, c.doc, "RETIRED", Max(current[c.doc]), Steward) /\ Commit(r)
       ELSE Undo(r)

(***************************************************************************)
(* The workers, as far as the corpus sees them (Ingestion models them).    *)
(***************************************************************************)

Newest(d) == Max({v \in Numbers : version[d][v] # "none"})

\* _complete: new content becomes the next version of the document.
StoreVersion(d) ==
    /\ Newest(d) < Bound[d]
    /\ version' = [version EXCEPT ![d][Newest(d) + 1] = "stored"]
    /\ UNCHANGED <<doc, current, trail, corpora, begun, claim, req>>

\* _start_processing: inserts the processing version or restarts a failed one.
StartProcessing(d, v) ==
    /\ version[d][v] \in {"stored", "failed"}
    /\ version' = [version EXCEPT ![d][v] = "running"]
    /\ UNCHANGED <<doc, current, trail, corpora, begun, claim, req>>

\* _persist or _failed.
EndProcessing(d, v) ==
    /\ version[d][v] = "running"
    /\ \E result \in {"valid", "invalid", "failed"} :
         version' = [version EXCEPT ![d][v] = result]
    /\ UNCHANGED <<doc, current, trail, corpora, begun, claim, req>>

(***************************************************************************)
(* Validation of the corpus.                                               *)
(***************************************************************************)

\* Chunks that are there: _persist inserts them whatever validation says.
Chunked(d) == {v \in Numbers : version[d][v] \in {"valid", "invalid"}}

\* _SCOPE_SQL: of every active document the current version, or the newest.
ScannedVersion(d) == IF current[d] # {} THEN Max(current[d]) ELSE Newest(d)
Scanned == {c \in Chunks : doc[c[1]].active /\ c[2] = ScannedVersion(c[1]) /\ c[2] \in Chunked(c[1])}

\* near_finding: of each pair the member of the later document is flagged.
NearDuplicates == {c \in Scanned : \E k \in Scanned : k[1] < c[1]}

\* Processing versions, the ones staleness compares with the run's start.
Processings == {c \in Chunks : version[c[1]][c[2]] \notin {"none", "stored"}}

\* create_run and the findings; a finding of any kind may exceed its cap.
CreateRun(truncated) == [at |-> begun + 1, seen |-> Processings, truncated |-> truncated]

FindNearDuplicates(r) ==
    /\ req[r].phase = "claimed" /\ req[r].cmd.op = "VALIDATE"
    /\ begun' = begun + 1
    /\ \E truncated \in BOOLEAN :
         Goto(r, "scanned", [run |-> CreateRun(truncated), found |-> NearDuplicates])
    /\ UNCHANGED <<documents, corpora, claim>>

\* apply_suppression_flags, finalize_run: what is in scope by now is unflagged
\* first, then the findings of this run are flagged.
ApplySuppressionFlags(r) ==
    LET got == req[r].got IN
    /\ req[r].phase = "scanned"
    /\ flagged' = (flagged \ Scanned) \cup got.found
    /\ runs' = runs \cup {got.run}
    /\ Commit(r)
    /\ UNCHANGED <<documents, begun, corpus, ledger>>

(***************************************************************************)
(* Publication of the corpus and rollback.                                 *)
(***************************************************************************)

ActiveNumbers == {n \in DOMAIN corpus : corpus[n].active}

LatestRun == CHOOSE run \in runs : \A other \in runs : other.at <= run.at
Stale(run) == \E c \in Processings \ run.seen : doc[c[1]].active

Blocked == runs = {} \/ LatestRun.truncated \/ Stale(LatestRun)

\* What a switch of the active version is about, a run to cite or a version to
\* go back to, the active versions its statement sees, and those it switches off.
Switch(n) == [of |-> n, sees |-> {}, off |-> {}]

\* Publication goes by the newest run, read without a lock.
Readiness(r) ==
    /\ req[r].phase = "claimed" /\ req[r].cmd.op = "PUBLISH_CORPUS"
    /\ IF Blocked
       THEN Undo(r)
       ELSE /\ Goto(r, "ready", Switch(LatestRun.at))
            /\ UNCHANGED <<documents, corpora, begun, claim>>

\* active_version and previous_version.
FindPrevious(r) ==
    /\ req[r].phase = "claimed" /\ req[r].cmd.op = "ROLLBACK"
    /\ IF ActiveNumbers \subseteq {1}
       THEN Undo(r)
       ELSE /\ Goto(r, "ready", Switch(Max(ActiveNumbers) - 1))
            /\ UNCHANGED <<documents, corpora, begun, claim>>

\* deactivate_active starts: its statement sees the rows committed by now.
StartSwitch(r) ==
    /\ req[r].phase = "ready"
    /\ Goto(r, "switching", [req[r].got EXCEPT !.sees = ActiveNumbers])
    /\ UNCHANGED <<documents, corpora, begun, claim>>

\* It waits for a row another transaction deactivates, then looks again: what
\* is no longer active is left alone and counted as nothing.
DeactivateActive(r) ==
    LET got == req[r].got IN
    /\ req[r].phase = "switching"
    /\ \A q \in Requests :
         req[q].phase \in {"switched", "written"} => req[q].got.off \cap got.sees = {}
    /\ Goto(r, "switched", [got EXCEPT !.off = got.sees \cap ActiveNumbers])
    /\ UNCHANGED <<documents, corpora, begun, claim>>

\* Mutant of WriteActive: no unique index says there is one active version.
WriteActive_Mutant(r) ==
    /\ req[r].phase = "switched"
    /\ Goto(r, "written", req[r].got)
    /\ UNCHANGED <<documents, corpora, begun, claim>>

\* insert_version or activate_version: corpus_version_single_active_ux makes
\* the statement wait for another new active version, and refuses the row if
\* one is active that this transaction did not deactivate.
WriteActive(r) ==
    LET got == req[r].got
        target == IF req[r].cmd.op = "ROLLBACK" THEN {got.of} ELSE {} IN
    /\ req[r].phase = "switched"
    /\ \A q \in Requests : req[q].phase # "written"
    /\ IF ActiveNumbers \subseteq got.off \cup target
       THEN /\ Goto(r, "written", got)
            /\ UNCHANGED <<documents, corpora, begun, claim>>
       ELSE Undo(r)

\* The corpus with every version in off deactivated.
Without(off) ==
    [n \in DOMAIN corpus |-> [corpus[n] EXCEPT !.active = @ /\ n \notin off]]

\* snapshot_suppressed_chunks takes the flags of this moment, which a later
\* run than the one cited may have set.
Snapshot(run) == [active |-> TRUE, run |-> run, suppressed |-> flagged]

InsertEvent(r, what, n) ==
    ledger' = Append(ledger, [what |-> what, version |-> n, key |-> req[r].key])

\* The version has the number after the highest; the event and the commit follow.
PublishCorpus(r) ==
    LET got == req[r].got IN
    /\ req[r].phase = "written" /\ req[r].cmd.op = "PUBLISH_CORPUS"
    /\ corpus' = Append(Without(got.off), Snapshot(got.of))
    /\ InsertEvent(r, "PUBLISHED", Len(corpus'))
    /\ Commit(r)
    /\ UNCHANGED <<documents, begun, flagged, runs>>

Rollback(r) ==
    LET got == req[r].got IN
    /\ req[r].phase = "written" /\ req[r].cmd.op = "ROLLBACK"
    /\ corpus' = [Without(got.off) EXCEPT ![got.of].active = TRUE]
    /\ InsertEvent(r, "ROLLED_BACK", got.of)
    /\ Commit(r)
    /\ UNCHANGED <<documents, begun, flagged, runs>>

\* Every request has been answered or lost: the model's inputs are used up.
Served ==
    /\ \A r \in Requests : req[r].phase \in {"done", "failed"}
    /\ UNCHANGED vars

\* The commands worth sending now.
Askable ==
    {c \in [op : {"DECIDE"}, doc : Docs, expected : {doc[d].row : d \in Docs},
            decision : {"APPROVED", "REJECTED"}, by : {Owner, Steward}]
      \cup [op : {"PUBLISH"}, doc : Docs, expected : {doc[d].row : d \in Docs}, version : Numbers]
      \cup [op : {"RETIRE"}, doc : Docs, expected : {doc[d].row : d \in Docs}]
      \cup CorpusCommands :
        c \in CorpusCommands \/ c.expected = doc[c.doc].row}

Next ==
    \/ \E r \in Requests :
         \/ \E c \in Askable : Ask(r, c)
         \/ \E q \in Requests : AskAgain(r, q)
         \/ ClaimIdempotency(r) \/ Crash(r)
         \/ LockDocument(r) \/ Decide(r) \/ PublishDocument(r) \/ Retire(r)
         \/ FindNearDuplicates(r) \/ ApplySuppressionFlags(r)
         \/ Readiness(r) \/ FindPrevious(r) \/ StartSwitch(r) \/ DeactivateActive(r)
         \/ WriteActive(r) \/ PublishCorpus(r) \/ Rollback(r)
    \/ \E d \in Docs :
         \/ StoreVersion(d)
         \/ \E v \in Numbers : StartProcessing(d, v) \/ EndProcessing(d, v)
    \/ Served

Spec == Init /\ [][Next]_vars

(***************************************************************************)
(* Properties.                                                             *)
(***************************************************************************)

Decisions(d, n) == {i \in 1..n : trail[d][i].what \in {"APPROVED", "REJECTED", "RETIRED"}}
Moves(d) == {i \in 1..Len(trail[d]) : trail[d][i].what \in {"PUBLISHED", "RETIRED"}}

\* What the trail of d says of it.
Replayed(d) ==
    /\ doc[d].row = Len(trail[d]) + 1
    /\ doc[d].approval = IF Decisions(d, Len(trail[d])) = {} THEN "DRAFT"
                         ELSE trail[d][Max(Decisions(d, Len(trail[d])))].what
    /\ LET last == trail[d][Max(Moves(d))] IN
       current[d] = IF Moves(d) = {} \/ last.what = "RETIRED" THEN {} ELSE {last.version}

\* No command is in the log twice.
OncePerKey(log) ==
    \A i, j \in DOMAIN log : log[i].key = log[j].key /\ log[i].key \in Requests => i = j

\* The trail of a document, replayed, is its row: every command moved the row
\* version by one, the last decision is its approval, and its current version
\* is the one published last, unless it was retired since. Two commands never
\* both take the same row version (the FOR UPDATE of document_repository.get),
\* and one sent again under its key, after a lost answer or side by side,
\* takes effect once (claim_idempotency).
TrailMatchesDocument ==
    /\ OncePerKey(ledger)
    /\ \A d \in Docs : OncePerKey(trail[d])
    /\ \A d \in Docs : Replayed(d)

\* What retrieval may return: _ELIGIBLE_CTE.
Governed(c) ==
    doc[c[1]].active /\ doc[c[1]].approval = "APPROVED" /\ c[2] \in current[c[1]]
Suppressed == UNION {corpus[n].suppressed : n \in ActiveNumbers}
Retrievable == {c \in Chunks \ Suppressed : Governed(c)}

\* What is published was approved: the last decision before each publication
\* is an approval by somebody who does not own the source, although decision
\* and publication are commands of different people running at once; and
\* retrieval returns nothing that was not published.
OnlyApprovedPublished ==
    /\ \A d \in Docs : \A i \in 1..Len(trail[d]) :
         trail[d][i].what = "PUBLISHED" =>
           /\ Decisions(d, i) # {}
           /\ LET decision == trail[d][Max(Decisions(d, i))] IN
              decision.what = "APPROVED" /\ decision.by # Owner
    /\ \A c \in Retrievable : \E i \in DOMAIN trail[c[1]] :
         trail[c[1]][i].what = "PUBLISHED" /\ trail[c[1]][i].version = c[2]

\* At most one version of the corpus is active, and it is the one the last
\* committed event names, however publications and rollbacks overlap: both
\* read the active version before they switch it off.
LedgerNamesActive ==
    ActiveNumbers = IF ledger = <<>> THEN {} ELSE {ledger[Len(ledger)].version}

=============================================================================
