------------------------------ MODULE Ingestion ------------------------------
(***************************************************************************)
(* Knowledge ingestion for one source: administrators authorise the source *)
(* and create ACQUISITION and REFRESH runs (ingestion/service.py,          *)
(* knowledge/service.py); worker processes acquire each run item           *)
(* (acquisition_worker.py) and then parse, chunk and embed it              *)
(* (knowledge_processing_worker.py).                                       *)
(*                                                                         *)
(* A finishing transaction of the acquisition worker is two steps.  Begin  *)
(* changes the item and computes the totals of _refresh_run, whose         *)
(* statement may then wait for the run row; Commit obtains the row, writes *)
(* the run status from those totals and, in a later statement with a fresh *)
(* snapshot, the refresh state of the source.  Everything else a worker    *)
(* does between two commits is one step.                                   *)
(***************************************************************************)
EXTENDS Naturals, Sequences, FiniteSets, Functions

CONSTANTS
    Pages,          \* manifest entries of the source, approved and enabled
    Contents,       \* sha256 checksums a page can have
    Workers,        \* ApplicationWorker processes
    MaxRuns,        \* bound on the runs created
    Budgets,        \* what a behaviour is limited to: pages, contents, runs,
                    \* settings.worker_max_attempts, administrator edits,
                    \* crashes and commits whose reply is lost
    None            \* no item, no content, no verdict (SQL NULL)

Runs   == 1 .. MaxRuns

ASSUME IngestionAssumption ==
    /\ MaxRuns \in Nat
    /\ Budgets \subseteq [pages : SUBSET Pages, contents : SUBSET Contents, runs : Runs,
                          attempts : Nat, edits : Nat, crashes : Nat, lost : Nat]
    /\ None \notin Contents \cup {"CHANGED", "UNCHANGED", "RUNNING", "COMPLETED", "REFRESH"}

Items  == Runs \X Pages
RunOf(i)  == i[1]
PageOf(i) == i[2]

Skipped  == {"SKIPPED_UNCHANGED", "SKIPPED_REMOVED", "SKIPPED_REDIRECTED"}
Statuses == Skipped \cup {"ABSENT", "QUEUED", "ACQUIRING", "ACQUIRED", "FAILED",
                          "BLOCKED_PERMISSION", "EXTRACTING", "EMBEDDED"}
Stages   == {"ACQUISITION", "PROCESSING", "COMPLETE"}
Changes  == {"CHANGED", "REMOVED", "REDIRECTED"}
Refreshes == {"CURRENT", "REFRESH_DUE", "REFRESHING", "STALE"}
RunTypes == {"ACQUISITION", "REFRESH"}
RunStatuses == {"ABSENT", "QUEUED", "RUNNING", "COMPLETED", "FAILED",
                "COMPLETED_WITH_ERRORS"}
Processings == {None, "RUNNING", "COMPLETED", "FAILED"}
Steps    == {"acq", "load", "fetch", "begin", "commit",
             "proc", "pload", "start", "persist", "replay", "pfail"}
\* What an attempt concluded; verdicts below decide which handler finishes it.
Verdicts == {None, "complete", "duplicate", "removed", "redirected", "blocked",
             "infected", "fatal", "retry", "valid", "invalid"}

VARIABLES
    item,           \* item[i]: the committed kb.ingestion_run_item row
    runType, runStatus,
    versions,       \* versions[p]: checksums of the page's document versions
    refresh,        \* kb.source.refresh_state
    srcVersion,     \* kb.source.row_version
    authVersion,    \* the source version the effective authorization is pinned to
    manVersion,     \* manVersion[p]: row_version of the manifest entry
    pc, job,        \* pc[w], job[w]: where worker w is, and on which item
    verdict,        \* verdict[w]: how the attempt under way ends
    seen,           \* seen[w]: checksum read, previous checksum, run status
    edits, crashes, lost,
    budget          \* the bounds this behaviour keeps

admin == <<runType, srcVersion, authVersion, manVersion, edits, budget>>
local == <<pc, job, verdict, seen>>
faults == <<crashes, lost>>
vars  == <<item, runType, runStatus, versions, refresh, srcVersion, authVersion,
           manVersion, pc, job, verdict, seen, edits, crashes, lost, budget>>

Rows == [status : Statuses, stage : Stages, final : BOOLEAN, due : BOOLEAN,
         tries : Nat, ptries : Nat, class : Changes \cup {None, "UNCHANGED"},
         content : Contents \cup {None}, source : Nat, manifest : Nat,
         processing : Processings, chunked : BOOLEAN]

TypeOK ==
    /\ item \in [Items -> Rows]
    /\ runType \in [Runs -> RunTypes \cup {None}]
    /\ runStatus \in [Runs -> RunStatuses]
    /\ versions \in [Pages -> Seq(Contents)]
    /\ refresh \in Refreshes
    /\ srcVersion \in Nat /\ authVersion \in Nat
    /\ manVersion \in [Pages -> Nat]
    /\ pc \in [Workers -> Steps]
    /\ job \in [Workers -> Items \cup {None}]
    /\ verdict \in [Workers -> Verdicts]
    /\ seen \in [Workers -> [content : Contents \cup {None},
                             previous : Contents \cup {None},
                             run : RunStatuses]]
    /\ edits \in Nat /\ crashes \in Nat /\ lost \in Nat
    /\ budget \in Budgets

Unread == [content |-> None, previous |-> None, run |-> "ABSENT"]

NoRow == [status |-> "ABSENT", stage |-> "ACQUISITION", final |-> FALSE,
          due |-> FALSE, tries |-> 0, ptries |-> 0, class |-> None,
          content |-> None, source |-> 0, manifest |-> 0,
          processing |-> None, chunked |-> FALSE]

Init ==
    /\ item = [i \in Items |-> NoRow]
    /\ runType = [r \in Runs |-> None]
    /\ runStatus = [r \in Runs |-> "ABSENT"]
    /\ versions = [p \in Pages |-> <<>>]
    /\ refresh = "CURRENT"
    /\ srcVersion = 1 /\ authVersion = 1
    /\ manVersion = [p \in Pages |-> 1]
    /\ pc = [w \in Workers |-> "acq"]
    /\ job = [w \in Workers |-> None]
    /\ verdict = [w \in Workers |-> None]
    /\ seen = [w \in Workers |-> Unread]
    /\ edits = 0 /\ crashes = 0 /\ lost = 0
    /\ budget \in Budgets

-----------------------------------------------------------------------------
(* Totals.                                                                 *)

Settled == Skipped \cup {"ACQUIRED", "BLOCKED_PERMISSION", "FAILED"}

\* Mutant of Pending: a FAILED item in backoff is forgotten.
Pending_IgnoresBackoff(x) == x.status # "ABSENT" /\ x.status \notin Settled

\* The "pending" filter of _refresh_run and _complete_refresh_source.
Pending(x) ==
    /\ x.status # "ABSENT"
    /\ x.status \notin Settled \/ (x.status = "FAILED" /\ ~x.final)

Failed(x) == x.status \in {"BLOCKED_PERMISSION", "FAILED"} /\ x.final

Completed(x) == x.status \in Skipped \cup {"ACQUIRED"}

\* Mutant of Stale: a removed page is not a change.
Stale_OnlyChanged(x) == x.class = "CHANGED" \/ Failed(x)

Stale(x) == x.class \in Changes \/ Failed(x)

Among(table, r, P(_)) == \E p \in Pages : P(table[<<r, p>>])

\* run_status in _refresh_run
RunVerdict(table, r) ==
    IF Among(table, r, Pending) THEN "RUNNING"
    ELSE IF ~Among(table, r, Failed) THEN "COMPLETED"
    ELSE IF Among(table, r, Completed) THEN "COMPLETED_WITH_ERRORS"
    ELSE "FAILED"

\* _complete_refresh_source: the refresh state once run r has drained.
RefreshVerdict(table, r) ==
    IF runType[r] = "REFRESH" /\ refresh = "REFRESHING" /\ ~Among(table, r, Pending)
    THEN IF Among(table, r, Stale) THEN "STALE" ELSE "CURRENT"
    ELSE refresh

-----------------------------------------------------------------------------
(* Administrators.                                                         *)

Authorized == authVersion = srcVersion

Fresh(i) == item[i].source = srcVersion /\ item[i].manifest = manVersion[PageOf(i)]

Insert(r, P, type) ==
    /\ r <= budget.runs /\ runStatus[r] = "ABSENT"
    /\ \A q \in 1 .. r - 1 : runStatus[q] # "ABSENT"
    /\ Authorized
    /\ item' = [i \in Items |->
                  IF RunOf(i) = r /\ PageOf(i) \in P
                  THEN [NoRow EXCEPT !.status = "QUEUED", !.due = TRUE,
                                     !.source = srcVersion,
                                     !.manifest = manVersion[PageOf(i)]]
                  ELSE item[i]]
    /\ runType' = [runType EXCEPT ![r] = type]
    /\ runStatus' = [runStatus EXCEPT ![r] = "QUEUED"]
    /\ UNCHANGED <<versions, srcVersion, authVersion, manVersion, edits, budget, faults, local>>

\* create_run over any entries of the source
CreateRun(r, P) ==
    /\ Insert(r, P, "ACQUISITION")
    /\ UNCHANGED refresh

\* create_refresh_run over every approved entry; start_refresh keeps row_version
CreateRefreshRun(r) ==
    /\ refresh # "REFRESHING"
    /\ Insert(r, budget.pages, "REFRESH")
    /\ refresh' = "REFRESHING"

Edit ==
    /\ edits < budget.edits
    /\ edits' = edits + 1
    /\ UNCHANGED <<item, runType, runStatus, versions, budget, local, faults>>

RefreshTransitions ==
    {<<"CURRENT", "REFRESH_DUE">>, <<"STALE", "REFRESH_DUE">>,
     <<"REFRESH_DUE", "CURRENT">>, <<"STALE", "CURRENT">>,
     <<"CURRENT", "STALE">>, <<"REFRESH_DUE", "STALE">>}

\* refresh_lifecycle: MARK_REFRESH_DUE, MARK_CURRENT, MARK_STALE
RefreshLifecycle(target) ==
    /\ Edit
    /\ <<refresh, target>> \in RefreshTransitions
    /\ refresh' = target
    /\ srcVersion' = srcVersion + 1
    /\ UNCHANGED <<authVersion, manVersion>>

\* authorize_acquisition pins the decision to the version it creates
AuthorizeAcquisition(approved) ==
    /\ Edit
    /\ srcVersion' = srcVersion + 1
    /\ authVersion' = IF approved THEN srcVersion + 1 ELSE authVersion
    /\ UNCHANGED <<refresh, manVersion>>

\* decide_manifest approves an entry again, under a new row_version
DecideManifest(p) ==
    /\ Edit
    /\ manVersion' = [manVersion EXCEPT ![p] = @ + 1]
    /\ UNCHANGED <<refresh, srcVersion, authVersion>>

-----------------------------------------------------------------------------
(* The acquisition worker.                                                 *)

\* An open finishing transaction holds the row lock of its item.
Locked(i) == \E w \in Workers : pc[w] = "commit" /\ job[w] = i

\* Mutant of Acquirable: a failed item is never claimed again.
Acquirable_NoRetry(i) ==
    /\ item[i].stage = "ACQUISITION"
    /\ item[i].status = "QUEUED"

Acquirable(i) ==
    /\ item[i].stage = "ACQUISITION"
    /\ ~item[i].final
    /\ item[i].status \in {"QUEUED", "FAILED"}
    /\ item[i].due
    /\ ~Locked(i)

Processable(i) ==
    /\ item[i].stage = "PROCESSING"
    /\ ~item[i].final
    /\ item[i].status \in {"ACQUIRED", "FAILED"}
    /\ item[i].due
    /\ ~Locked(i)

Goto(w, step) ==
    pc' = [pc EXCEPT ![w] = step]

\* The attempt is over: back to the top of the coordinator's loop.
Over(w) ==
    /\ Goto(w, "acq")
    /\ job' = [job EXCEPT ![w] = None]
    /\ verdict' = [verdict EXCEPT ![w] = None]
    /\ seen' = [seen EXCEPT ![w] = Unread]

ClaimAcquisition(w, i) ==
    /\ pc[w] = "acq" /\ Acquirable(i)
    /\ item' = [item EXCEPT ![i].status = "ACQUIRING", ![i].tries = @ + 1]
    /\ job' = [job EXCEPT ![w] = i]
    /\ Goto(w, "load")
    /\ UNCHANGED <<admin, runStatus, versions, refresh, verdict, seen, faults>>

NoAcquisition(w) ==
    /\ pc[w] = "acq" /\ \A i \in Items : ~Acquirable(i)
    /\ Goto(w, "proc")
    /\ UNCHANGED <<item, admin, runStatus, versions, refresh, job, verdict, seen, faults>>

Latest(p) == IF versions[p] = <<>> THEN None ELSE versions[p][Len(versions[p])]

\* Mutant of Permitted: the row versions are not compared.
Permitted_AuthorizedOnly(i) == Authorized

\* _permission_reasons is empty
Permitted(i) == Fresh(i) /\ Authorized

\* _load and the permission gate; a refresh also reads the latest checksum.
Load(w) ==
    LET i == job[w] IN
    /\ pc[w] = "load"
    /\ IF Permitted(i)
       THEN /\ Goto(w, "fetch")
            /\ seen' = [seen EXCEPT ![w].previous =
                          IF runType[RunOf(i)] = "REFRESH" THEN Latest(PageOf(i)) ELSE None]
            /\ UNCHANGED verdict
       ELSE /\ Goto(w, "begin")
            /\ verdict' = [verdict EXCEPT ![w] = "blocked"]
            /\ UNCHANGED seen
    /\ UNCHANGED <<item, admin, runStatus, versions, refresh, job, faults>>

\* What the remote site and the scanner can make of an attempt: 404/410 and
\* 3xx are results of a refresh and permanent failures of an ordinary run.
Outcomes(r) ==
    {"complete", "infected", "fatal", "retry"}
      \cup IF runType[r] = "REFRESH" THEN {"removed", "redirected"} ELSE {}

\* _acquire, _validate_content and the malware scan
Fetch(w, v, c) ==
    /\ pc[w] = "fetch"
    /\ v \in Outcomes(RunOf(job[w]))
    /\ v = "complete" <=> c # None
    /\ verdict' = [verdict EXCEPT ![w] = v]
    /\ seen' = [seen EXCEPT ![w].content = c]
    /\ Goto(w, "begin")
    /\ UNCHANGED <<item, admin, runStatus, versions, refresh, job, faults>>

\* sha256_checksum exists among the document's versions
Duplicate(p, c) == c \in Range(versions[p])

\* Mutant of PageLocked: _complete takes no advisory lock.
PageLocked_Never(p) == FALSE

\* pg_advisory_xact_lock on source and manifest key, held to the commit
PageLocked(p) ==
    \E w \in Workers : /\ pc[w] = "commit"
                       /\ verdict[w] \in {"complete", "duplicate"}
                       /\ PageOf(job[w]) = p

Classification(w) ==
    IF runType[RunOf(job[w])] # "REFRESH" THEN None
    ELSE IF seen[w].content = seen[w].previous THEN "UNCHANGED" ELSE "CHANGED"

Exhausted(n) == n >= budget.attempts

\* The row written by _finish_item, _skipped_remote, _blocked or _failed.
Finished(w, v) ==
    LET x == item[job[w]]
        Skip(s, k) == [x EXCEPT !.status = s, !.class = k, !.final = FALSE,
                                !.stage = "COMPLETE"]
        \* only next_attempt_at moves, which the acquisition claim reads
        Fail(final) == [x EXCEPT !.status = "FAILED", !.final = final,
                                 !.due = @ /\ x.stage # "ACQUISITION"]
    IN CASE v = "complete"   -> [x EXCEPT !.status = "ACQUIRED", !.final = FALSE,
                                          !.class = Classification(w),
                                          !.content = seen[w].content,
                                          !.stage = "PROCESSING", !.due = TRUE]
         [] v = "duplicate"  -> Skip("SKIPPED_UNCHANGED", Classification(w))
         [] v = "removed"    -> Skip("SKIPPED_REMOVED", "REMOVED")
         [] v = "redirected" -> Skip("SKIPPED_REDIRECTED", "REDIRECTED")
         [] v = "blocked"    -> [x EXCEPT !.status = "BLOCKED_PERMISSION", !.final = TRUE]
         [] v \in {"infected", "fatal"} -> Fail(TRUE)
         [] v = "retry"      -> Fail(Exhausted(x.tries))

Resolved(w) ==
    IF verdict[w] = "complete" /\ Duplicate(PageOf(job[w]), seen[w].content)
    THEN "duplicate" ELSE verdict[w]

\* The finishing transaction up to the totals of _refresh_run.
Begin(w) ==
    LET i == job[w]  v == Resolved(w) IN
    /\ pc[w] = "begin"
    /\ ~Locked(i)
    /\ verdict[w] = "complete" => ~PageLocked(PageOf(i))
    /\ verdict' = [verdict EXCEPT ![w] = v]
    /\ seen' = [seen EXCEPT ![w].run =
                  RunVerdict([item EXCEPT ![i] = Finished(w, v)], RunOf(i))]
    /\ Goto(w, "commit")
    /\ UNCHANGED <<item, admin, runStatus, versions, refresh, job, faults>>

\* The run row is obtained, the refresh state follows, the transaction commits.
Finish(w) ==
    LET i == job[w]  p == PageOf(i) IN
    /\ pc[w] = "commit"
    /\ item' = [item EXCEPT ![i] = Finished(w, verdict[w])]
    /\ versions' = IF verdict[w] = "complete"
                   THEN [versions EXCEPT ![p] = Append(@, seen[w].content)]
                   ELSE versions
    /\ runStatus' = [runStatus EXCEPT ![RunOf(i)] = seen[w].run]
    /\ refresh' = RefreshVerdict(item', RunOf(i))
    /\ UNCHANGED admin

Commit(w) ==
    /\ Finish(w)
    /\ Over(w)
    /\ UNCHANGED faults

\* The handlers process_one calls inside its try block.
Guarded(v) == v \in {"complete", "duplicate", "removed", "redirected", "blocked",
                     "infected"}

\* The except branches of process_one: _failed(..., final=False).
Caught(w) ==
    /\ Goto(w, "begin")
    /\ verdict' = [verdict EXCEPT ![w] = "retry"]
    /\ UNCHANGED <<job, seen>>

\* The transaction rolls back (a copy or a statement fails).
Abort(w) ==
    /\ pc[w] = "commit" /\ Guarded(verdict[w])
    /\ Caught(w)
    /\ UNCHANGED <<item, admin, runStatus, versions, refresh, faults>>

LoseReply ==
    /\ lost < budget.lost
    /\ lost' = lost + 1
    /\ UNCHANGED crashes

\* The transaction commits but its reply is lost, or the quarantine clean-up
\* after it raises; the error is caught.
ReplyLost(w) ==
    /\ Finish(w) /\ Guarded(verdict[w])
    /\ Caught(w)
    /\ LoseReply

-----------------------------------------------------------------------------
(* The processing worker.  An item in stage PROCESSING is the only one that *)
(* names its document version, so the processing version and the chunks of  *)
(* that document version are fields of the item.                            *)

ClaimProcessing(w, i) ==
    /\ pc[w] = "proc" /\ Processable(i)
    /\ item' = [item EXCEPT ![i].status = "EXTRACTING", ![i].ptries = @ + 1]
    /\ job' = [job EXCEPT ![w] = i]
    /\ Goto(w, "pload")
    /\ UNCHANGED <<admin, runStatus, versions, refresh, verdict, seen, faults>>

NoProcessing(w) ==
    /\ pc[w] = "proc" /\ \A i \in Items : ~Processable(i)
    /\ Goto(w, "acq")
    /\ UNCHANGED <<item, admin, runStatus, versions, refresh, job, verdict, seen, faults>>

\* _load and the permission gate of the processing worker; a claim that
\* another handler has overwritten is PROCESSING_CLAIM_LOST, with no _failed.
LoadProcessing(w) ==
    LET i == job[w] IN
    /\ pc[w] = "pload"
    /\ \/ /\ item[i].status = "EXTRACTING"
          /\ verdict' = [verdict EXCEPT ![w] = IF Permitted(i) THEN None ELSE "blocked"]
          /\ Goto(w, IF Permitted(i) THEN "start" ELSE "pfail")
          /\ UNCHANGED <<job, seen>>
       \/ item[i].status # "EXTRACTING" /\ Over(w)
    /\ UNCHANGED <<item, admin, runStatus, versions, refresh, faults>>

\* _start_processing, then parsing, chunking, embedding and validation.
StartProcessing(w, v) ==
    LET i == job[w] IN
    /\ pc[w] = "start"
    /\ IF item[i].processing = "COMPLETED"
       THEN /\ v = None
            /\ Goto(w, "replay")
            /\ UNCHANGED item
       ELSE /\ v \in {"valid", "invalid", "fatal", "retry"}
            /\ Goto(w, IF v \in {"valid", "invalid"} THEN "persist" ELSE "pfail")
            /\ item' = [item EXCEPT ![i].processing = "RUNNING"]
    /\ verdict' = [verdict EXCEPT ![w] = v]
    /\ UNCHANGED <<admin, runStatus, versions, refresh, job, seen, faults>>

\* _persist: chunks, processing version and item in one transaction.
Persisted(w) ==
    LET i == job[w] IN
    /\ pc[w] = "persist" /\ ~item[i].chunked /\ ~Locked(i)
    /\ item' = [item EXCEPT ![i] =
                 [@ EXCEPT !.chunked = TRUE,
                           !.processing = IF verdict[w] = "valid" THEN "COMPLETED" ELSE "FAILED",
                           !.status = IF verdict[w] = "valid" THEN "EMBEDDED" ELSE "FAILED",
                           !.final = verdict[w] = "invalid"]]
    /\ UNCHANGED <<admin, runStatus, versions, refresh>>

\* _mark_replayed
Replayed(w) ==
    /\ pc[w] = "replay" /\ ~Locked(job[w])
    /\ item' = [item EXCEPT ![job[w]].status = "EMBEDDED"]
    /\ UNCHANGED <<admin, runStatus, versions, refresh>>

Persist(w) == Persisted(w) /\ Over(w) /\ UNCHANGED faults

Replay(w) == Replayed(w) /\ Over(w) /\ UNCHANGED faults

\* The except branches of process_one: _failed(..., final=False).
CaughtProcessing(w) ==
    /\ Goto(w, "pfail")
    /\ verdict' = [verdict EXCEPT ![w] = "retry"]
    /\ UNCHANGED <<job, seen>>

\* The chunks of this processing version are already there, or the
\* transaction rolls back for another reason.
PersistAborts(w) ==
    /\ pc[w] \in {"persist", "replay"}
    /\ CaughtProcessing(w)
    /\ UNCHANGED <<item, admin, runStatus, versions, refresh, faults>>

ProcessingReplyLost(w) ==
    /\ Persisted(w) \/ Replayed(w)
    /\ CaughtProcessing(w)
    /\ LoseReply

\* _failed names the processing version only once _start_processing has run.
FailedRow(w) ==
    LET x == item[job[w]] IN
    [x EXCEPT !.status = "FAILED", !.due = FALSE,
              !.final = verdict[w] \in {"fatal", "blocked"} \/ Exhausted(x.ptries),
              !.processing = IF verdict[w] = "blocked" THEN @ ELSE "FAILED"]

FailProcessing(w) ==
    /\ pc[w] = "pfail" /\ ~Locked(job[w])
    /\ item' = [item EXCEPT ![job[w]] = FailedRow(w)]
    /\ Over(w)
    /\ UNCHANGED <<admin, runStatus, versions, refresh, faults>>

-----------------------------------------------------------------------------

\* next_attempt_at or processing_next_attempt_at has passed.
BackoffElapses(i) ==
    /\ item[i].status = "FAILED" /\ ~item[i].final /\ ~item[i].due
    /\ item' = [item EXCEPT ![i].due = TRUE]
    /\ UNCHANGED <<admin, runStatus, versions, refresh, local, faults>>

\* The process dies, or _load or _failed raises: an open transaction rolls
\* back, a committed claim stays.
Crash(w) ==
    /\ pc[w] \notin {"acq", "proc"}
    /\ Over(w)
    /\ crashes < budget.crashes
    /\ crashes' = crashes + 1
    /\ UNCHANGED <<lost, item, admin, runStatus, versions, refresh>>

Acquire(w) ==
    \/ \E i \in Items : ClaimAcquisition(w, i)
    \/ NoAcquisition(w)
    \/ Load(w)
    \/ \E v \in Verdicts, c \in budget.contents \cup {None} : Fetch(w, v, c)
    \/ Begin(w)
    \/ Commit(w)
    \/ Abort(w)

Process(w) ==
    \/ \E i \in Items : ClaimProcessing(w, i)
    \/ NoProcessing(w)
    \/ LoadProcessing(w)
    \/ \E v \in Verdicts : StartProcessing(w, v)
    \/ Persist(w)
    \/ Replay(w)
    \/ PersistAborts(w)
    \/ FailProcessing(w)

Administer ==
    \/ \E r \in Runs, P \in (SUBSET budget.pages) \ {{}} : CreateRun(r, P)
    \/ \E r \in Runs : CreateRefreshRun(r)
    \/ \E target \in Refreshes : RefreshLifecycle(target)
    \/ \E approved \in BOOLEAN : AuthorizeAcquisition(approved)
    \/ \E p \in budget.pages : DecideManifest(p)

Next ==
    \/ Administer
    \/ \E i \in Items : BackoffElapses(i)
    \/ \E w \in Workers :
          Acquire(w) \/ Process(w) \/ ReplyLost(w) \/ ProcessingReplyLost(w) \/ Crash(w)

Spec == Init /\ [][Next]_vars

\* A live worker keeps polling, and time passes.
FairSpec ==
    /\ Spec
    /\ \A w \in Workers : WF_vars(Acquire(w) \/ Process(w))
    /\ \A i \in Items : WF_vars(BackoffElapses(i))

-----------------------------------------------------------------------------
(* Properties.                                                             *)

\* A page's document versions have distinct checksums, and each version is
\* the business of exactly one item, although several runs, and several
\* workers, may be acquiring the page at once (_complete's advisory lock).
OneItemPerVersion ==
    /\ \A p \in Pages : IsInjective(versions[p])
    /\ \A i, j \in Items :
         /\ item[i].stage = "PROCESSING" => item[i].content \in Range(versions[PageOf(i)])
         /\ i # j /\ PageOf(i) = PageOf(j) /\ item[i].content # None
              => item[i].content # item[j].content

Terminal == {"COMPLETED", "FAILED", "COMPLETED_WITH_ERRORS"}

\* Unless a reply was lost, a run reported as finished has no item that the
\* acquisition worker would still work on, although _refresh_run may write
\* totals that were computed before another worker's commit.
RunVerdictSound ==
    lost = 0 => \A i \in Items :
        runStatus[RunOf(i)] \in Terminal =>
            \/ item[i].status = "ABSENT"
            \/ item[i].stage # "ACQUISITION"
            \/ item[i].final

NewestRefresh(r) ==
    /\ runType[r] = "REFRESH"
    /\ \A q \in Runs : q > r => runType[q] # "REFRESH"

\* Unless a reply was lost, a refresh returns the source to CURRENT only when
\* every page of the newest refresh run was classified UNCHANGED and none of
\* them failed (_complete_refresh_source), whichever worker finishes last.  A
\* lost reply may reopen an item of an older run, which then speaks for it.
RefreshVerdictSound ==
    [][lost' = 0 /\ refresh = "REFRESHING" /\ refresh' = "CURRENT" =>
         \A i \in Items : PageOf(i) \in budget.pages /\ NewestRefresh(RunOf(i)) =>
            item'[i].class = "UNCHANGED" /\ ~Failed(item'[i])]_vars

StaleIdle(i) ==
    /\ item[i].status \in {"QUEUED", "FAILED"}
    /\ item[i].stage = "ACQUISITION"
    /\ ~Fresh(i)
    /\ \A w \in Workers : job[w] # i

\* An item whose source or manifest entry changed while no worker held it is
\* never acquired afterwards: the gate in process_one compares row versions.
StaleNeverAcquired ==
    \A i \in Items : [](StaleIdle(i) => [](item[i].stage = "ACQUISITION"))

AtRest(i) == item[i].status \in Skipped \cup {"EMBEDDED"} \/ item[i].final

\* Unless a worker crashes or a reply is lost, every item is eventually
\* skipped, embedded or finally failed.
ItemsSettle ==
    \A i \in Items :
        item[i].status = "QUEUED" ~> AtRest(i) \/ crashes > 0 \/ lost > 0
=============================================================================
