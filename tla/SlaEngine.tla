----------------------------- MODULE SlaEngine -----------------------------
(***************************************************************************)
(* The SLA clocks of one ticket (sla/service.py, sla/repository.py,        *)
(* sla/calendar.py, sla_worker.py).  The API changes the ticket and, in    *)
(* the same transaction, appends an input to the outbox.  A worker claims  *)
(* an input, reads the ticket row, and then, in a transaction that locks   *)
(* the ticket's SLA rows, applies the input with the time it was emitted.  *)
(* Independently, a periodic scan at the current time warns and breaches.  *)
(*                                                                         *)
(* So an SLA row is driven by two clocks: input times, which lag, and scan *)
(* times, which do not.  History variables say what became of the inputs:  *)
(* overtaken (an input was applied before an earlier one, or a scan ran    *)
(* ahead of pending inputs), lateStart (START_SLA, which acts on the       *)
(* ticket as it is and not as it was, read a ticket that had moved on)     *)
(* and dead (an input was dead-lettered).                                  *)
(*                                                                         *)
(* Time counts ticks from the ticket's creation at 0.  The statistics      *)
(* columns (accumulated_pause_seconds, paused_at, breached_at) are left    *)
(* out: the engine never reads them.                                       *)
(***************************************************************************)
EXTENDS BusinessCalendar

CONSTANTS
    Workers,        \* processes running process_one
    MaxTime,        \* bound on the clock
    Goals,          \* the published goals: metric, condition, order, target and warning
    Facets,         \* the fields of the ticket that goals look at (rule_values)
    PauseMetrics,   \* metrics whose definition pauses on WAITING_FOR_CUSTOMER
    MaxAttempts,    \* settings.worker_max_attempts
    MaxInputs,      \* bound on the inputs of the ticket
    MaxFailures     \* bound on transient failures

Metrics == {"FIRST_RESPONSE", "RESOLUTION"}
None == -1

ASSUME SlaAssumption ==
    /\ MaxTime \in Nat /\ MaxInputs \in Nat \ {0} /\ MaxAttempts \in Nat \ {0}
    /\ MaxFailures \in Nat
    /\ 0 .. MaxTime \subseteq DOMAIN Local
    /\ \A g \in Goals : g.metric \in Metrics /\ g.target \in Nat \ {0} /\ g.warning \in Nat
    /\ PauseMetrics \subseteq Metrics

VARIABLES
    now,
    ticket,         \* the ticket row: status, first_response_at, resolved_at
    inputs,         \* the outbox inputs not yet PROCESSED
    emitted,        \* how many inputs were emitted; n numbers them by created_at
    sla,            \* sla[m]: the ticket_sla row, st = "ABSENT" before START_SLA
    job,            \* job[w]: the input claimed and the ticket facts read
    failures,
    answered,       \* an analyst responded or started progress
    worked,         \* working ticks with the ticket neither waiting nor done
    overtaken, lateStart, dead

slaVars == <<now, ticket, inputs, emitted, sla, job, failures, answered, worked,
          overtaken, lateStart, dead>>
outbox == <<inputs, emitted>>
history == <<answered, worked, overtaken, lateStart, dead>>

Statuses == {"NEW", "IN_PROGRESS", "WAITING_FOR_CUSTOMER", "AWAITING_APPROVAL",
             "RESOLVED", "CLOSED", "REJECTED"}
Done == {"RESOLVED", "CLOSED", "REJECTED"}

\* config.workflow_transition of the shipped workflow: what an analyst may
\* execute, and what only a completed approval may.
Workflow ==
    {<<"NEW", "IN_PROGRESS">>, <<"NEW", "AWAITING_APPROVAL">>,
     <<"IN_PROGRESS", "WAITING_FOR_CUSTOMER">>, <<"WAITING_FOR_CUSTOMER", "IN_PROGRESS">>,
     <<"IN_PROGRESS", "RESOLVED">>, <<"RESOLVED", "IN_PROGRESS">>, <<"RESOLVED", "CLOSED">>}
Continuations == {<<"AWAITING_APPROVAL", "IN_PROGRESS">>, <<"AWAITING_APPROVAL", "REJECTED">>}

Times == 0 .. MaxTime
Facts == [status : Statuses, first : Times \cup {None}, resolved : Times \cup {None}]

\* CONTINUATION is the TICKET_WORKFLOW_TRANSITIONED event of continue_workflow: its
\* payload has from_status_id and to_status_id but not from_status and to_status.
Input == [n : 1 .. MaxInputs, type : {"START", "RESPONSE", "TRANSITION", "CONTINUATION"},
          at : Times, from : Statuses, to : Statuses, tries : 0 .. MaxAttempts - 1,
          deferred : BOOLEAN]
Idle == <<>>

\* itsm.ticket_sla; keys are the warning and breach of itsm.ticket_sla_event.
SlaRow == [st : {"ABSENT", "RUNNING", "PAUSED", "COMPLETED", "BREACHED"}, elapsed : Nat,
           remaining : Nat, last : Times, done : BOOLEAN, keys : SUBSET {"warning", "breach"},
           target : Nat, warn : Nat]

SlaTypeOK ==
    /\ now \in Times
    /\ ticket \in Facts
    /\ inputs \subseteq Input /\ emitted \in 1 .. MaxInputs
    /\ sla \in [Metrics -> SlaRow]
    /\ \A w \in Workers : job[w] # Idle => job[w].input \in inputs /\ job[w].facts \in Facts
    /\ failures \in 0 .. MaxFailures
    /\ answered \in BOOLEAN /\ worked \in Nat /\ overtaken \in BOOLEAN
    /\ lateStart \in BOOLEAN /\ dead \in BOOLEAN

-----------------------------------------------------------------------------
(* Goals.                                                                  *)

\* _goal_matches, for a condition that gives fields their values; none matches all.
Matches(g) == \A field \in DOMAIN g.condition : g.condition[field] = Facets[field]

Candidates(m) == {g \in Goals : g.metric = m /\ Matches(g)}

\* _select_goal: the first in priority order; a tie of the first is refused.
Goal == [m \in Metrics |-> CHOOSE g \in Candidates(m) :
                              \A other \in Candidates(m) \ {g} : g.order < other.order]

Target == [m \in Metrics |-> Goal[m].target]

\* What the code refuses is left out: metrics without a first goal, and calendars that do
\* not open often enough, within the days it searches (_MAX_SEARCH_DAYS), for some target.
ASSUME TargetsAssumption ==
    \A m \in Metrics :
      /\ \E g \in Candidates(m) : \A other \in Candidates(m) \ {g} : g.order < other.order
      /\ \A t \in 0 .. MaxTime : \A n \in 1 .. Target[m] :
           \E u \in Instants : Open(u) /\ Between(t, u + 1) = n

\* max(0, a - b)
Monus(a, b) == IF a > b THEN a - b ELSE 0

-----------------------------------------------------------------------------
(* SlaEngine: every operation maps the row s of metric m to its new value. *)

\* _calculated
Calculated(m, s, at) ==
    IF s.st # "RUNNING" \/ at <= s.last THEN s
    ELSE LET el == s.elapsed + Between(s.last, at)
         IN  [s EXCEPT !.elapsed = el, !.remaining = Monus(Target[m], el), !.last = at]

\* _warning_at and _remaining_warning_at
WarningAt(m, s, at, remaining) ==
    IF "warning" \in s.keys THEN s.warn ELSE Add(at, Monus(remaining, Goal[m].warning))

\* record_event: one event of each key; the caller goes on only if it is new.
Recorded(s, key) == [s EXCEPT !.keys = @ \cup {key}]

\* _warning
Warned(s) == Recorded(s, "warning")

\* _breach, recorded under the event key "breach"
Breach(s, at) ==
    IF s.st = "BREACHED" \/ "breach" \in s.keys THEN s
    ELSE [Recorded(s, "breach") EXCEPT !.st = "BREACHED", !.remaining = 0, !.last = at]

\* Mutant of Pause: the clock stops without being read.
Pause_NoAdvance(m, s, at) == IF s.st # "RUNNING" THEN s ELSE [s EXCEPT !.st = "PAUSED"]

\* _pause
Pause(m, s, at) ==
    IF s.st # "RUNNING" THEN s ELSE [Calculated(m, s, at) EXCEPT !.st = "PAUSED"]

\* _resume
Resume(m, s, at) ==
    IF s.st # "PAUSED" THEN s
    ELSE [s EXCEPT !.st = "RUNNING", !.last = at,
                   !.target = Add(at, s.remaining), !.warn = WarningAt(m, s, at, s.remaining)]

\* _complete
Complete(m, s, at) ==
    IF s.st = "ABSENT" \/ s.done THEN s
    ELSE LET c == Calculated(m, s, at)
             b == IF c.st = "RUNNING" /\ c.remaining <= 0 THEN Breach(c, at) ELSE c
         IN  [b EXCEPT !.st = IF b.st = "BREACHED" THEN "BREACHED" ELSE "COMPLETED",
                       !.done = TRUE, !.last = at]

\* _reopen
Reopen(m, s, at) ==
    LET left == Monus(Target[m], s.elapsed)
    IN  IF s.st # "COMPLETED" THEN s
        ELSE IF left = 0 THEN Breach([s EXCEPT !.done = FALSE], at)
        ELSE [s EXCEPT !.st = "RUNNING", !.done = FALSE, !.remaining = left, !.last = at,
                       !.target = Add(at, left), !.warn = WarningAt(m, s, at, left)]

\* _pause_statuses
PausesOn(m, status) == m \in PauseMetrics /\ status = "WAITING_FOR_CUSTOMER"

\* create_sla: the clock starts when the ticket was created.
Created(m) ==
    [st |-> "RUNNING", elapsed |-> 0, remaining |-> Target[m], last |-> 0, done |-> FALSE,
     keys |-> {}, target |-> Add(0, Target[m]), warn |-> Add(0, Monus(Target[m], Goal[m].warning))]

\* _start; the row is created once (ON CONFLICT DO NOTHING).
Start(m, s, facts) ==
    IF s.st # "ABSENT" THEN s
    ELSE IF m = "FIRST_RESPONSE" /\ facts.first # None THEN Complete(m, Created(m), facts.first)
    ELSE IF m = "RESOLUTION" /\ facts.resolved # None THEN Complete(m, Created(m), facts.resolved)
    ELSE IF PausesOn(m, facts.status) THEN Pause(m, Created(m), 0)
    ELSE Created(m)

\* _transition
Transitioned(m, s, i, facts) ==
    IF m = "FIRST_RESPONSE"
    THEN IF facts.first # None /\ s.st \in {"RUNNING", "PAUSED"}
         THEN Complete(m, s, facts.first) ELSE s
    ELSE IF i.from \in Done /\ i.to \notin Done THEN Reopen(m, s, i.at)
    ELSE IF i.to \in Done THEN Complete(m, s, i.at)
    ELSE IF PausesOn(m, i.to) THEN Pause(m, s, i.at)
    ELSE Resume(m, s, i.at)

\* _complete_metric of a response
Responded(m, s, i) == IF m = "FIRST_RESPONSE" THEN Complete(m, s, i.at) ELSE s

\* Mutant of Processed: a response is recorded on the ticket only.
Processed_ResponseIgnored(m, s, i, facts) ==
    CASE i.type = "START"      -> Start(m, s, facts)
      [] i.type = "TRANSITION" -> Transitioned(m, s, i, facts)
      [] OTHER                 -> s

\* process, of the inputs that can be processed
Processed(m, s, i, facts) ==
    CASE i.type = "START"      -> Start(m, s, facts)
      [] i.type = "RESPONSE"   -> Responded(m, s, i)
      [] i.type = "TRANSITION" -> Transitioned(m, s, i, facts)

\* The WHERE clause of due_slas.
Due(s) ==
    /\ s.st = "RUNNING"
    /\ s.target <= now \/ ("warning" \notin s.keys /\ s.warn <= now)

\* evaluate_due on one row: _advance, _warning, _breach
Evaluated(m, s) ==
    LET c == Calculated(m, s, now)
        n == IF "warning" \notin c.keys /\ c.remaining <= Goal[m].warning
             THEN Warned(c) ELSE c
    IN  IF n.remaining <= 0 /\ n.st = "RUNNING" THEN Breach(n, now) ELSE n

-----------------------------------------------------------------------------

Absent == [st |-> "ABSENT", elapsed |-> 0, remaining |-> 0, last |-> 0, done |-> FALSE,
           keys |-> {}, target |-> 0, warn |-> 0]

\* The ticket has been submitted: START_SLA is in the outbox.
SlaInit ==
    /\ now = 0
    /\ ticket = [status |-> "NEW", first |-> None, resolved |-> None]
    /\ inputs = {[n |-> 1, type |-> "START", at |-> 0, from |-> "NEW", to |-> "NEW",
                  tries |-> 0, deferred |-> FALSE]}
    /\ emitted = 1
    /\ sla = [m \in Metrics |-> Absent]
    /\ job = [w \in Workers |-> Idle]
    /\ failures = 0
    /\ answered = FALSE /\ worked = 0 /\ overtaken = FALSE /\ lateStart = FALSE
    /\ dead = FALSE

\* The reference that the calendar's intervals are held against: the wall clock of the
\* tick reads working hours.
AtWork(t) ==
    \/ Calendar.always
    \/ \E h \in Hours(DateOf(t)) : Local[t] % DayLength \in h[1] .. h[2] - 1

Tick ==
    /\ now < MaxTime
    /\ now' = now + 1
    /\ worked' = IF AtWork(now) /\ ticket.status \notin Done \cup {"WAITING_FOR_CUSTOMER"}
                 THEN worked + 1 ELSE worked
    /\ UNCHANGED <<ticket, outbox, sla, job, failures, answered, overtaken, lateStart, dead>>

Emit(type, from, to) ==
    /\ emitted < MaxInputs
    /\ emitted' = emitted + 1
    /\ inputs' = inputs \cup {[n |-> emitted', type |-> type, at |-> now, from |-> from,
                               to |-> to, tries |-> 0, deferred |-> FALSE]}

StartsProgress(to) == ticket.status = "NEW" /\ to = "IN_PROGRESS"

\* WorkflowService.execute: the row and its timestamps change with the event.
TransitionTicket(to) ==
    /\ <<ticket.status, to>> \in Workflow
    /\ ticket' = [status   |-> to,
                  first    |-> IF StartsProgress(to) THEN now ELSE ticket.first,
                  resolved |-> CASE to = "RESOLVED" -> now
                                 [] ticket.status = "RESOLVED" /\ to = "IN_PROGRESS" -> None
                                 [] OTHER -> ticket.resolved]
    /\ Emit("TRANSITION", ticket.status, to)
    /\ answered' = (answered \/ StartsProgress(to))
    /\ UNCHANGED <<now, sla, job, failures, worked, overtaken, lateStart, dead>>

\* ApprovalRepository.continue_workflow: the status changes, no timestamp does.
ApprovalContinues(to) ==
    /\ <<ticket.status, to>> \in Continuations
    /\ ticket' = [ticket EXCEPT !.status = to]
    /\ Emit("CONTINUATION", ticket.status, to)
    /\ UNCHANGED <<now, sla, job, failures, history>>

\* add_public_comment by an analyst.
AgentResponds ==
    /\ Emit("RESPONSE", ticket.status, ticket.status)
    /\ answered' = TRUE
    /\ UNCHANGED <<now, ticket, sla, job, failures, worked, overtaken, lateStart, dead>>

Locked == {job[w].input : w \in {v \in Workers : job[v] # Idle}}

\* _claim_event (oldest available, SKIP LOCKED) and the read of the ticket row.
ClaimInput(w) ==
    LET ready == {i \in inputs : ~i.deferred /\ i \notin Locked}
    IN  /\ job[w] = Idle
        /\ \E i \in ready :
             /\ \A j \in ready : i.n <= j.n
             /\ job' = [job EXCEPT ![w] = [input |-> i, facts |-> ticket]]
             /\ lateStart' = (lateStart \/ (i.type = "START" /\ emitted > 1))
        /\ UNCHANGED <<now, ticket, outbox, sla, failures, answered, worked, overtaken, dead>>

\* mark_first_response: the first one wins.
MarkFirstResponse(i) ==
    ticket' = [ticket EXCEPT !.first = IF i.type = "RESPONSE" /\ @ = None THEN i.at ELSE @]

\* save, of each SLA row the input changed: the rows are locked, so that none has
\* another row_version than the one read.
SaveSlas(i, facts) == sla' = [m \in Metrics |-> Processed(m, sla[m], i, facts)]

\* The transaction of process_one commits with the input's PROCESSED.
ApplyInput(w) ==
    /\ job[w] # Idle /\ job[w].input.type # "CONTINUATION"
    /\ LET i == job[w].input
       IN  /\ MarkFirstResponse(i)
           /\ SaveSlas(i, job[w].facts)
           /\ inputs' = inputs \ {i}
           /\ overtaken' = (overtaken \/ \E j \in inputs : j.n < i.n)
    /\ job' = [job EXCEPT ![w] = Idle]
    /\ UNCHANGED <<now, emitted, failures, answered, worked, lateStart, dead>>

\* retry_count+1>=:max_attempts
Exhausted(i) == i.tries + 1 >= MaxAttempts

\* process_one rolls back and _mark_failed defers the input or dead-letters it:
\* always for a CONTINUATION (_required_string raises), now and then for others.
FailInput(w) ==
    /\ job[w] # Idle
    /\ LET i == job[w].input
           again == [i EXCEPT !.tries = @ + 1, !.deferred = TRUE]
       IN  /\ IF i.type = "CONTINUATION" THEN UNCHANGED failures
              ELSE failures < MaxFailures /\ failures' = failures + 1
           /\ inputs' = (inputs \ {i}) \cup IF Exhausted(i) THEN {} ELSE {again}
           /\ dead' = (dead \/ Exhausted(i))
    /\ job' = [job EXCEPT ![w] = Idle]
    /\ UNCHANGED <<now, ticket, emitted, sla, answered, worked, overtaken, lateStart>>

\* clock_timestamp() passes available_at.
BackoffEnds(i) ==
    /\ i.deferred
    /\ inputs' = (inputs \ {i}) \cup {[i EXCEPT !.deferred = FALSE]}
    /\ UNCHANGED <<now, ticket, emitted, sla, job, failures, history>>

\* process_due
ScanDue ==
    /\ \E m \in Metrics : Due(sla[m])
    /\ sla' = [m \in Metrics |-> IF Due(sla[m]) THEN Evaluated(m, sla[m]) ELSE sla[m]]
    /\ overtaken' = (overtaken \/ inputs # {})
    /\ UNCHANGED <<now, ticket, outbox, job, failures, answered, worked, lateStart, dead>>

SlaNext ==
    \/ Tick
    \/ \E to \in Statuses : TransitionTicket(to) \/ ApprovalContinues(to)
    \/ AgentResponds
    \/ \E w \in Workers : ClaimInput(w) \/ ApplyInput(w) \/ FailInput(w)
    \/ \E i \in inputs : BackoffEnds(i)
    \/ ScanDue

SlaSpec == SlaInit /\ [][SlaNext]_slaVars

-----------------------------------------------------------------------------
(* Properties for every order of processing.                               *)

\* A scan ends every clock whose persisted deadline has passed: none stays
\* RUNNING because the recalculated remainder disagrees with target_at.
OverdueBreaches ==
    \A m \in Metrics : sla[m].st = "RUNNING" /\ sla[m].target <= now =>
        Evaluated(m, sla[m]).st = "BREACHED"

-----------------------------------------------------------------------------
(* Properties that depend on the lag.                                      *)

Drained == inputs = {}

\* Working time on the clock of m, up to now.
Reading(m) ==
    sla[m].elapsed + IF sla[m].st = "RUNNING" THEN Between(sla[m].last, now) ELSE 0

\* Once every input is processed in order, the first-response clock of an
\* answered ticket no longer runs, and that of an unanswered one was not stopped.
ResponseStopsClock ==
    Drained /\ ~overtaken =>
        IF answered THEN sla["FIRST_RESPONSE"].st \in {"COMPLETED", "BREACHED"}
                    ELSE ~sla["FIRST_RESPONSE"].done

\* The resolution clock shows the time worked (the working time the ticket spent
\* neither waiting for the customer nor done), and the verdict follows from it:
\* breached only if that time reached the target, met only if it did not.
ExactResolutionClock ==
    LET s == sla["RESOLUTION"]
    IN  /\ s.st # "BREACHED" => Reading("RESOLUTION") = worked
        /\ s.st = "BREACHED" => worked >= Target["RESOLUTION"]
        /\ s.st = "COMPLETED" => worked < Target["RESOLUTION"]
        /\ s.st = "PAUSED" => ticket.status = "WAITING_FOR_CUSTOMER"
        /\ s.st = "RUNNING" => ticket.status \notin Done \cup {"WAITING_FOR_CUSTOMER"}

\* A worker that keeps up produces the exact clock.  One that lags may not: START_SLA
\* acts on the ticket as it is when it is processed.
TimelyExact ==
    Drained /\ ~overtaken /\ ~lateStart /\ ~dead => ExactResolutionClock

=============================================================================
