------------------------------- MODULE Outbox -------------------------------
(***************************************************************************)
(* The transactional outbox and the two consumers that drain it: the SLA   *)
(* worker (sla_worker.py) and the notification planner                     *)
(* (notification_worker.py, plan_one), driven in turn by every             *)
(* ApplicationWorker process (coordinator.py).                             *)
(*                                                                         *)
(* Both consumers claim a row, apply its effect and mark it PROCESSED in   *)
(* ONE transaction, so the PROCESSING status they write is never visible   *)
(* to anyone else; an exception rolls the whole transaction back and a     *)
(* second transaction then charges the failure.  The variable status holds *)
(* committed values only; an open transaction is a worker with             *)
(* pc = "open", and the row it holds is locked.                            *)
(***************************************************************************)
EXTENDS Naturals, FiniteSets

CONSTANTS
    Events,         \* outbox rows, numbered by (created_at, outbox_event_id)
    Consumer,       \* Consumer[e]: the worker whose event types include e's
    Poison,         \* events whose processing raises every time
    Workers,        \* ApplicationWorker processes
    MaxAttempts,    \* settings.worker_max_attempts
    MaxCrashes      \* bound on process crashes, all workers together

NoEvent == 0

Consumers == {"SLA", "NOTIFY"}
Statuses  == {"ABSENT", "PENDING", "PROCESSING", "PROCESSED", "FAILED",
              "DEAD_LETTER"}
Steps     == {"sla", "plan", "open", "marking"}

ASSUME EventsAssumption   == Events \subseteq Nat \ {0} /\ IsFiniteSet(Events)
ASSUME ConsumerAssumption == Consumer \in [Events -> Consumers]
ASSUME PoisonAssumption   == Poison \subseteq Events
ASSUME LimitsAssumption   == MaxAttempts \in Nat \ {0} /\ MaxCrashes \in Nat

VARIABLES
    status,         \* status[e]: committed status_code, ABSENT before INSERT
    retry,          \* retry[e]: committed retry_count
    waiting,        \* waiting[e]: available_at is still in the future
    applied,        \* applied[e]: committed effects of processing e
    pc,             \* pc[w]: where worker w is in run_forever
    held,           \* held[w]: event_id of the attempt under way
    permanent,      \* permanent[w]: the attempt raised PermanentNotificationError
    crashes

rows    == <<status, retry, waiting, applied>>
local   == <<pc, held, permanent>>
vars    == <<status, retry, waiting, applied, pc, held, permanent, crashes>>

TypeOK ==
    /\ status \in [Events -> Statuses]
    /\ retry \in [Events -> Nat]
    /\ waiting \in [Events -> BOOLEAN]
    /\ applied \in [Events -> Nat]
    /\ pc \in [Workers -> Steps]
    /\ held \in [Workers -> Events \cup {NoEvent}]
    /\ permanent \in [Workers -> BOOLEAN]
    /\ crashes \in Nat

-----------------------------------------------------------------------------
(* The rows a claim may take.                                              *)

Open(w, e) == pc[w] = "open" /\ held[w] = e

Locked(e) == \E w \in Workers : Open(w, e)

\* Mutants of Claimable: without SKIP LOCKED, and without FAILED rows.
Claimable_LockIgnored(e, c) ==
    /\ Consumer[e] = c
    /\ status[e] \in {"PENDING", "FAILED"}
    /\ ~waiting[e]

Claimable_NoRetry(e, c) ==
    /\ Consumer[e] = c
    /\ status[e] = "PENDING"
    /\ ~waiting[e]
    /\ ~Locked(e)

Claimable(e, c) ==
    /\ Consumer[e] = c
    /\ status[e] \in {"PENDING", "FAILED"}
    /\ ~waiting[e]
    /\ ~Locked(e)

\* ORDER BY created_at, outbox_event_id FOR UPDATE SKIP LOCKED LIMIT 1
Candidate(c) ==
    {e \in Events : Claimable(e, c) /\ \A f \in Events : Claimable(f, c) => e <= f}

\* The statuses each consumer's failure UPDATE matches in its WHERE clause.
Markable(c) ==
    IF c = "SLA" THEN {"PENDING", "FAILED", "PROCESSING"} ELSE {"PROCESSING"}

Settled(e) == status[e] \in {"PROCESSED", "DEAD_LETTER"}

-----------------------------------------------------------------------------

Init ==
    /\ status = [e \in Events |-> "ABSENT"]
    /\ retry = [e \in Events |-> 0]
    /\ waiting = [e \in Events |-> FALSE]
    /\ applied = [e \in Events |-> 0]
    /\ pc = [w \in Workers |-> "sla"]
    /\ held = [w \in Workers |-> NoEvent]
    /\ permanent = [w \in Workers |-> FALSE]
    /\ crashes = 0

\* An API or engine transaction that inserted e commits.  created_at is the
\* start of that transaction, so rows become visible in any order of e.
Emit(e) ==
    /\ status[e] = "ABSENT"
    /\ status' = [status EXCEPT ![e] = "PENDING"]
    /\ UNCHANGED <<retry, waiting, applied, local, crashes>>

\* process_one / plan_one: open a transaction and claim the oldest row.
Claim(w, c, e) ==
    /\ e \in Candidate(c)
    /\ pc' = [pc EXCEPT ![w] = "open"]
    /\ held' = [held EXCEPT ![w] = e]
    /\ UNCHANGED <<rows, permanent, crashes>>

ClaimSla(w) == pc[w] = "sla" /\ \E e \in Events : Claim(w, "SLA", e)

ClaimPlan(w) == pc[w] = "plan" /\ \E e \in Events : Claim(w, "NOTIFY", e)

\* A claim that returns no row: on to the next consumer of the loop, and
\* from the last one back to the SLA worker.
NothingToClaim(w) ==
    /\ \/ pc[w] = "sla" /\ Candidate("SLA") = {}
          /\ pc' = [pc EXCEPT ![w] = "plan"]
       \/ pc[w] = "plan" /\ Candidate("NOTIFY") = {}
          /\ pc' = [pc EXCEPT ![w] = "sla"]
    /\ UNCHANGED <<rows, held, permanent, crashes>>

\* The transaction commits: effect and PROCESSED together.
Commits(e) ==
    /\ e \notin Poison
    /\ status' = [status EXCEPT ![e] = "PROCESSED"]
    /\ applied' = [applied EXCEPT ![e] = @ + 1]
    /\ UNCHANGED <<retry, waiting>>

Commit(w) ==
    /\ pc[w] = "open"
    /\ Commits(held[w])
    /\ pc' = [pc EXCEPT ![w] = "sla"]
    /\ held' = [held EXCEPT ![w] = NoEvent]
    /\ UNCHANGED <<permanent, crashes>>

\* The server commits, and the connection is lost before the reply: the
\* worker sees an exception and goes on to charge a failure.
CommitReplyLost(w) ==
    /\ pc[w] = "open"
    /\ Commits(held[w])
    /\ pc' = [pc EXCEPT ![w] = "marking"]
    /\ permanent' = [permanent EXCEPT ![w] = FALSE]
    /\ UNCHANGED <<held, crashes>>

\* Processing raises and the transaction, claim included, is rolled back.
\* Only the notification planner tells a permanent error from the others.
Fail(w) ==
    /\ pc[w] = "open"
    /\ pc' = [pc EXCEPT ![w] = "marking"]
    /\ permanent' = [permanent EXCEPT ![w] =
                       held[w] \in Poison /\ Consumer[held[w]] = "NOTIFY"]
    /\ UNCHANGED <<rows, held, crashes>>

\* The claim's own transaction fails before event_id is assigned: nothing is
\* charged and process_one still reports work done.
FailUnidentified(w) ==
    /\ pc[w] = "open"
    /\ crashes < MaxCrashes
    /\ crashes' = crashes + 1
    /\ pc' = [pc EXCEPT ![w] = "sla"]
    /\ held' = [held EXCEPT ![w] = NoEvent]
    /\ UNCHANGED <<rows, permanent>>

\* Mutant of Exhausted: off by one at the limit.
Exhausted_OneMore(w, e) == permanent[w] \/ retry[e] + 1 > MaxAttempts

\* The row the failure UPDATE of worker w leaves behind when it matches.
Exhausted(w, e) == permanent[w] \/ retry[e] + 1 >= MaxAttempts

\* _mark_failed / _fail_event, in a transaction of its own.  The UPDATE waits
\* for a row lock and then re-evaluates its WHERE clause.
Charge(w, e) ==
    /\ status' = [status EXCEPT ![e] =
                    IF Exhausted(w, e) THEN "DEAD_LETTER" ELSE "FAILED"]
    /\ retry' = [retry EXCEPT ![e] = @ + 1]
    /\ waiting' = [waiting EXCEPT ![e] = TRUE]
    /\ UNCHANGED applied

MarkFailed(w) ==
    /\ pc[w] = "marking"
    /\ ~Locked(held[w])
    /\ IF status[held[w]] \in Markable(Consumer[held[w]])
       THEN Charge(w, held[w])
       ELSE UNCHANGED rows
    /\ pc' = [pc EXCEPT ![w] = "sla"]
    /\ held' = [held EXCEPT ![w] = NoEvent]
    /\ permanent' = [permanent EXCEPT ![w] = FALSE]
    /\ UNCHANGED crashes

\* clock_timestamp() passes available_at.
BackoffElapses(e) ==
    /\ waiting[e]
    /\ waiting' = [waiting EXCEPT ![e] = FALSE]
    /\ UNCHANGED <<status, retry, applied, local, crashes>>

\* The process dies and is restarted; the server rolls its transaction back.
Crash(w) ==
    /\ crashes < MaxCrashes
    /\ crashes' = crashes + 1
    /\ pc' = [pc EXCEPT ![w] = "sla"]
    /\ held' = [held EXCEPT ![w] = NoEvent]
    /\ permanent' = [permanent EXCEPT ![w] = FALSE]
    /\ UNCHANGED rows

\* What a live worker process does next.
Work(w) ==
    \/ ClaimSla(w)
    \/ ClaimPlan(w)
    \/ NothingToClaim(w)
    \/ Commit(w)
    \/ CommitReplyLost(w)
    \/ Fail(w)
    \/ FailUnidentified(w)
    \/ MarkFailed(w)

Next ==
    \/ \E e \in Events : Emit(e) \/ BackoffElapses(e)
    \/ \E w \in Workers : Work(w) \/ Crash(w)

Spec == Init /\ [][Next]_vars

\* The event loop never stops by itself, and time passes.
Fairness ==
    /\ \A w \in Workers : WF_vars(Work(w))
    /\ \A e \in Events : WF_vars(BackoffElapses(e))

FairSpec == Spec /\ Fairness

-----------------------------------------------------------------------------
(* Safety.                                                                 *)

\* FOR UPDATE SKIP LOCKED: two workers never process the same row at once.
RowLockExclusive ==
    \A e \in Events : \A v, w \in Workers : Open(v, e) /\ Open(w, e) => v = w

\* The effect of an event (an SLA input applied, notifications planned) is in
\* the database exactly when the row says PROCESSED, and then exactly once:
\* neither a rollback, a crash, a lost commit reply nor a concurrent worker
\* duplicates or drops it.
ExactlyOnceEffect ==
    \A e \in Events : applied[e] = IF status[e] = "PROCESSED" THEN 1 ELSE 0

\* _mark_failed charges at most worker_max_attempts failures to an SLA input,
\* even when several workers fail on it before the first of them charges it,
\* and dead-letters it exactly when the last one is charged.
SlaRetryBudget ==
    \A e \in Events : Consumer[e] = "SLA" =>
        /\ retry[e] <= MaxAttempts
        /\ status[e] = "DEAD_LETTER" <=> retry[e] = MaxAttempts
        /\ status[e] = "FAILED" => retry[e] > 0

\* _fail_event only matches a committed PROCESSING row and the rollback has
\* just removed it: no failure of the notification planner is ever charged,
\* so no notification event is delayed, failed or dead-lettered.
NotifyNeverCharged ==
    \A e \in Events : Consumer[e] = "NOTIFY" =>
        retry[e] = 0 /\ ~waiting[e] /\ status[e] \in {"ABSENT", "PENDING", "PROCESSED"}

\* A row that is PROCESSED or DEAD_LETTER is never reopened or charged again:
\* not by a late _mark_failed of a worker that lost the race, nor after a lost
\* commit reply.
SettledForever ==
    [][\A e \in Events : Settled(e) =>
         /\ status'[e] = status[e]
         /\ retry'[e] = retry[e]
         /\ applied'[e] = applied[e]]_vars

(* What the outbox promises its emitters.                                  *)

Phase(s) ==
    CASE s = "ABSENT"      -> "absent"
      [] s = "PROCESSED"   -> "done"
      [] s = "DEAD_LETTER" -> "dead"
      [] OTHER             -> "waiting"

Contract == INSTANCE OutboxContract WITH
    Rejectable <- {e \in Events : Consumer[e] = "NOTIFY"},
    phase      <- [e \in Events |-> Phase(status[e])],
    charged    <- retry,
    effects    <- applied

\* Claims, rollbacks, charges, crashes and lost replies of any number of
\* workers amount to the four steps of the contract.
ImplementsContract == Contract!Spec

(* Liveness.                                                               *)

\* Every SLA input is eventually processed or dead-lettered, however its
\* processing fails, and although the same loop serves the notification
\* planner: SLA work comes first in every iteration.
SlaEventsSettle ==
    \A e \in Events : Consumer[e] = "SLA" => (status[e] = "PENDING" ~> Settled(e))

=============================================================================
