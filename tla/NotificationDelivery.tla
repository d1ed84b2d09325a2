------------------------ MODULE NotificationDelivery ------------------------
(***************************************************************************)
(* The notification pipeline of a worker process, on top of Outbox: the    *)
(* planner's commit inserts, for every recipient of an event, an email     *)
(* delivery row and an inbox row; the same process, in the same loop, then *)
(* delivers them, but only in an iteration in which neither the SLA worker *)
(* nor the planner found a row (notification_worker.py, process_one).      *)
(*                                                                         *)
(* deliver_one leases a delivery row in one transaction, talks to the SMTP *)
(* server outside any transaction, and records the outcome in a third      *)
(* step: an append-only attempt row keyed by (delivery, attempt number)    *)
(* and an update of the delivery row guarded by delivery_status='SENDING'  *)
(* only.  A send may outlast its five-minute lease while the process is    *)
(* alive: each SMTP exchange has a timeout of up to 60 seconds and a send  *)
(* is several of them.  overruns counts such leases.                       *)
(***************************************************************************)
EXTENDS Outbox

CONSTANTS
    Notices,        \* Notices[e]: whom a notification event addresses, and its actor
    Ticket,         \* the ticket's reporter, requested_for and assignee
    Approvers,      \* approvers of the approval who have not decided
    Active,         \* users with active_flag
    Loads,          \* what producers emit and the faults that strike, see load
    MaxHistory      \* where the history counters saturate

Nobody == "nobody"

\* _recipients: the undecided approvers of an approval request; the assignee of
\* an assignment, a customer comment or an SLA event; else the customer.  No
\* user is told of what they did themselves.
Addressees(e) ==
    CASE Notices[e].to = "approvers" -> Approvers
      [] Notices[e].to = "assignee"  -> {Ticket.assignee} \ {Notices[e].actor}
      [] OTHER -> {IF Ticket.requestedFor = Nobody THEN Ticket.reporter
                   ELSE Ticket.requestedFor} \ {Notices[e].actor}

Recipients(e) == Addressees(e) \cap Active

\* One per (event, recipient): deduplication_key.
Deliveries ==
    {d \in Events \X Active : Consumer[d[1]] = "NOTIFY" /\ d[2] \in Recipients(d[1])}

\* A notification that addresses no active user raises at every attempt.
ASSUME NoticesAssumption ==
    \A e \in Events : Consumer[e] = "NOTIFY" /\ Recipients(e) = {} => e \in Poison

ASSUME DeliveryLimitsAssumption ==
    /\ MaxHistory \in Nat
    /\ Loads \subseteq [events : SUBSET Events, crashes : 0 .. MaxCrashes, overruns : Nat]

Outcomes == {"DELIVERED", "RETRYABLE_FAILURE", "PERMANENT_FAILURE"}

VARIABLES
    mail,           \* delivery_status, ABSENT before the planner's INSERT
    count,          \* attempt_count
    final,          \* final_failure
    due,            \* next_attempt_at <= now
    expired,        \* locked_at is more than five minutes old
    attempts,       \* notification_delivery_attempt: {<<d, n, outcome>>}
    inbox,          \* the recipient's in-app row: ABSENT, UNREAD or READ
    step,           \* step[w]: where w is in deliver_one, "away" outside it
    job,            \* job[w]: [d, snap, outcome] of the delivery under way
    accepted,       \* accepted[d]: how often the SMTP server took the message
    doubt,          \* doubt[d]: acceptances the worker did not learn about
    overruns,
    load            \* the events emitted and the faults allowed; never changes

row      == <<mail, count, final, due, expired>>
history  == <<accepted, doubt, overruns, load>>
delivery == <<row, attempts, inbox, step, job, history>>
pipeline == <<vars, delivery>>

\* A history counter after one more event, if happened.
Tally(n, happened) == IF happened /\ n < MaxHistory THEN n + 1 ELSE n

Job == [d : Deliveries, snap : Nat, outcome : Outcomes]

DeliveryTypeOK ==
    /\ mail \in [Deliveries -> {"ABSENT", "PENDING", "SENDING", "DELIVERED", "FAILED"}]
    /\ count \in [Deliveries -> 0 .. MaxAttempts]
    /\ final \in [Deliveries -> BOOLEAN]
    /\ due \in [Deliveries -> BOOLEAN]
    /\ expired \in [Deliveries -> BOOLEAN]
    /\ attempts \subseteq Deliveries \X (1 .. MaxAttempts) \X Outcomes
    /\ inbox \in [Deliveries -> {"ABSENT", "UNREAD", "READ"}]
    /\ step \in [Workers -> {"away", "claim", "sending", "finishing"}]
    /\ \A w \in Workers : step[w] \in {"sending", "finishing"} => job[w] \in Job
    /\ accepted \in [Deliveries -> 0 .. MaxHistory]
    /\ doubt \in [Deliveries -> 0 .. MaxHistory]
    /\ overruns \in Nat
    /\ load \in Loads

-----------------------------------------------------------------------------

PipelineInit ==
    /\ Init
    /\ mail = [d \in Deliveries |-> "ABSENT"]
    /\ count = [d \in Deliveries |-> 0]
    /\ final = [d \in Deliveries |-> FALSE]
    /\ due = [d \in Deliveries |-> FALSE]
    /\ expired = [d \in Deliveries |-> FALSE]
    /\ attempts = {}
    /\ inbox = [d \in Deliveries |-> "ABSENT"]
    /\ step = [w \in Workers |-> "away"]
    /\ job = [w \in Workers |-> <<>>]
    /\ accepted = [d \in Deliveries |-> 0]
    /\ doubt = [d \in Deliveries |-> 0]
    /\ overruns = 0
    /\ load \in Loads

Produce(e) == e \in load.events /\ Emit(e) /\ UNCHANGED delivery

\* The two consumers of the outbox, while they do not commit.
Consume(w) ==
    /\ \/ ClaimSla(w) \/ ClaimPlan(w) \/ Fail(w) \/ MarkFailed(w)
       \/ crashes < load.crashes /\ FailUnidentified(w)
    /\ UNCHANGED delivery

\* What an event's commit inserts: _plan gives each of its recipients an EMAIL
\* and a PORTAL row, ON CONFLICT DO NOTHING; an SLA input has none.
Inserted(e) == {d \in Deliveries : d[1] = e /\ mail[d] = "ABSENT"}

Plan(w) ==
    /\ Commit(w) \/ CommitReplyLost(w)
    /\ mail' = [d \in Deliveries |-> IF d \in Inserted(held[w]) THEN "PENDING" ELSE mail[d]]
    /\ due' = [d \in Deliveries |-> d \in Inserted(held[w]) \/ due[d]]
    /\ inbox' = [d \in Deliveries |-> IF d \in Inserted(held[w]) THEN "UNREAD" ELSE inbox[d]]
    /\ UNCHANGED <<count, final, expired, attempts, step, job, history>>

\* Neither an SLA input nor an event to plan: deliver_one.
NothingToPlan(w) ==
    /\ NothingToClaim(w)
    /\ step' = [step EXCEPT ![w] = IF pc[w] = "plan" THEN "claim" ELSE "away"]
    /\ UNCHANGED <<row, attempts, inbox, job, history>>

\* POST /my/notifications/{id}/read: read_at keeps its first value.
MarkRead(d) ==
    /\ inbox[d] = "UNREAD"
    /\ inbox' = [inbox EXCEPT ![d] = "READ"]
    /\ UNCHANGED <<vars, row, attempts, step, job, history>>

\* Mutant of Sendable: a row whose lease expired stays with its dead holder.
Sendable_NoLease(d) ==
    ~final[d] /\ mail[d] \in {"PENDING", "FAILED"} /\ due[d]

\* The WHERE clause of _claim_delivery.
Sendable(d) ==
    /\ ~final[d]
    /\ \/ mail[d] \in {"PENDING", "FAILED"} /\ due[d]
       \/ mail[d] = "SENDING" /\ expired[d]

\* _claim_delivery; which of the rows is first depends on the clock.
Lease(w, d) ==
    /\ step[w] = "claim"
    /\ Sendable(d)
    /\ mail' = [mail EXCEPT ![d] = "SENDING"]
    /\ expired' = [expired EXCEPT ![d] = FALSE]
    /\ step' = [step EXCEPT ![w] = "sending"]
    /\ job' = [job EXCEPT ![w] = [d |-> d, snap |-> count[d],
                                  outcome |-> "RETRYABLE_FAILURE"]]
    /\ UNCHANGED <<vars, count, final, due, attempts, inbox, history>>

\* deliver_one returns False: on to the acquisition and processing workers.
NothingToSend(w) ==
    /\ step[w] = "claim"
    /\ \A d \in Deliveries : ~Sendable(d)
    /\ step' = [step EXCEPT ![w] = "away"]
    /\ UNCHANGED <<vars, row, attempts, inbox, job, history>>

\* SmtpEmailSender.send.  The server may take the message and the worker still
\* see an exception.
Send(w, outcome, taken) ==
    /\ step[w] = "sending"
    /\ outcome = "DELIVERED" => taken
    /\ outcome = "PERMANENT_FAILURE" => ~taken
    /\ step' = [step EXCEPT ![w] = "finishing"]
    /\ job' = [job EXCEPT ![w].outcome = outcome]
    /\ accepted' = [accepted EXCEPT ![job[w].d] = Tally(@, taken)]
    /\ doubt' = [doubt EXCEPT ![job[w].d] = Tally(@, taken /\ outcome # "DELIVERED")]
    /\ UNCHANGED <<vars, row, attempts, inbox, overruns, load>>

\* INSERT ... ON CONFLICT (notification_delivery_id, attempt_number) DO NOTHING
Append(log, d, n, outcome) ==
    IF \E o \in Outcomes : <<d, n, o>> \in log THEN log ELSE log \cup {<<d, n, outcome>>}

\* WHERE notification_delivery_id = :id AND delivery_status = 'SENDING'
Settles(d) == mail[d] = "SENDING"

Final(n, outcome) == outcome = "PERMANENT_FAILURE" \/ n >= MaxAttempts

\* _finish_delivery.
Finish(w) ==
    LET d == job[w].d
        n == job[w].snap + 1
        o == job[w].outcome
    IN  /\ step[w] = "finishing"
        /\ attempts' = Append(attempts, d, n, o)
        /\ IF Settles(d)
           THEN /\ mail' = [mail EXCEPT ![d] = IF o = "DELIVERED" THEN o ELSE "FAILED"]
                /\ count' = [count EXCEPT ![d] = n]
                /\ final' = [final EXCEPT ![d] = Final(n, o)]
                /\ due' = [due EXCEPT ![d] = FALSE]
                /\ expired' = [expired EXCEPT ![d] = FALSE]
           ELSE UNCHANGED row
        /\ step' = [step EXCEPT ![w] = "away"]
        /\ job' = [job EXCEPT ![w] = <<>>]
        /\ UNCHANGED <<vars, inbox, history>>

Sending(d) == \E w \in Workers : step[w] \in {"sending", "finishing"} /\ job[w].d = d

\* Mutant of LeaseExpires: the lease is shorter than a send.
LeaseExpires_Short(d) ==
    /\ mail[d] = "SENDING" /\ ~expired[d]
    /\ expired' = [expired EXCEPT ![d] = TRUE]
    /\ UNCHANGED <<vars, mail, count, final, due, attempts, inbox, step, job, history>>

\* locked_at falls behind now - 5 minutes, perhaps under a live sender.
LeaseExpires(d) ==
    /\ mail[d] = "SENDING" /\ ~expired[d]
    /\ Sending(d) => overruns < load.overruns
    /\ overruns' = IF Sending(d) THEN overruns + 1 ELSE overruns
    /\ expired' = [expired EXCEPT ![d] = TRUE]
    /\ UNCHANGED <<vars, mail, count, final, due, attempts, inbox, step, job,
                   accepted, doubt, load>>

\* clock_timestamp() passes next_attempt_at.
MailDue(d) ==
    /\ mail[d] = "FAILED" /\ ~due[d] /\ ~final[d]
    /\ due' = [due EXCEPT ![d] = TRUE]
    /\ UNCHANGED <<vars, mail, count, final, expired, attempts, inbox, step, job, history>>

Deliver(w) ==
    \/ \E d \in Deliveries : Lease(w, d)
    \/ NothingToSend(w)
    \/ \E o \in Outcomes, taken \in BOOLEAN : Send(w, o, taken)
    \/ Finish(w)

\* The process dies at any point, or _finish_delivery itself raises, which ends
\* run_forever; it is restarted.
Die(w) ==
    /\ crashes < load.crashes
    /\ Crash(w)
    /\ doubt' = [d \in Deliveries |->
                   Tally(doubt[d], /\ step[w] = "finishing" /\ job[w].d = d
                                   /\ job[w].outcome = "DELIVERED")]
    /\ step' = [step EXCEPT ![w] = "away"]
    /\ job' = [job EXCEPT ![w] = <<>>]
    /\ UNCHANGED <<row, attempts, inbox, accepted, overruns, load>>

\* One iteration of run_forever, step by step.
Iterate(w) ==
    \/ step[w] = "away" /\ (Consume(w) \/ Plan(w) \/ NothingToPlan(w))
    \/ Deliver(w)

PipelineNext ==
    \/ \E e \in Events : Produce(e) \/ (BackoffElapses(e) /\ UNCHANGED delivery)
    \/ \E d \in Deliveries : MarkRead(d) \/ LeaseExpires(d) \/ MailDue(d)
    \/ \E w \in Workers : Iterate(w) \/ Die(w)

PipelineSpec == PipelineInit /\ [][PipelineNext]_pipeline

\* The event loop never stops by itself, and time passes.
PipelineFairness ==
    /\ \A w \in Workers : WF_pipeline(Iterate(w))
    /\ \A e \in Events : WF_pipeline(BackoffElapses(e) /\ UNCHANGED delivery)
    /\ \A d \in Deliveries : WF_pipeline(LeaseExpires(d)) /\ WF_pipeline(MailDue(d))

FairPipeline == PipelineSpec /\ PipelineFairness

-----------------------------------------------------------------------------
(* Properties.                                                             *)

\* While no lease has expired under a live sender, the server takes a message
\* a second time only after an acceptance the worker could not learn about: a
\* crash or an exception between _send and _finish_delivery.
DuplicatesOnlyInDoubt ==
    overruns = 0 => \A d \in Deliveries : accepted[d] <= 1 + doubt[d]

\* Some notification event waits to be planned.  One that cannot be planned
\* waits for ever: its failure is never charged.
PlanPending == \E e \in Events : Consumer[e] = "NOTIFY" /\ status[e] = "PENDING"

\* Every planned delivery ends DELIVERED or in final failure, over expired
\* leases, backoff and a crash (_claim_delivery, _finish_delivery), once the
\* planner has nothing left: an event that fails for ever is claimed again in
\* every iteration, and the loop then never reaches deliver_one.
EveryDeliveryCloses ==
    <>[]~PlanPending =>
        \A d \in Deliveries : mail[d] = "PENDING" ~> mail[d] = "DELIVERED" \/ final[d]

=============================================================================
