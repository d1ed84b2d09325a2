--------------------------- MODULE OutboxContract ---------------------------
(***************************************************************************)
(* What the transactional outbox (integration.outbox_event) promises the   *)
(* code that emits an event, whoever consumes it and however often a       *)
(* consumer fails: the event's effect is applied at most once, exactly in  *)
(* the step that settles it; a failed attempt is charged against a budget  *)
(* of MaxAttempts; and an event that is given up for lack of budget has    *)
(* spent the whole of it.  A consumer may also reject an event it can      *)
(* recognise as hopeless.                                                  *)
(***************************************************************************)
EXTENDS Naturals

CONSTANTS
    Events,         \* the outbox rows that may ever be emitted
    Rejectable,     \* the events whose consumer can reject them outright
    MaxAttempts     \* worker_max_attempts

VARIABLES
    phase,          \* phase[e]: "absent", "waiting", "done" or "dead"
    charged,        \* charged[e]: failed attempts charged to e
    effects         \* effects[e]: how often e's effect is in the database

vars == <<phase, charged, effects>>

-----------------------------------------------------------------------------

Init ==
    /\ phase = [e \in Events |-> "absent"]
    /\ charged = [e \in Events |-> 0]
    /\ effects = [e \in Events |-> 0]

Publish(e) ==
    /\ phase[e] = "absent"
    /\ phase' = [phase EXCEPT ![e] = "waiting"]
    /\ UNCHANGED <<charged, effects>>

Apply(e) ==
    /\ phase[e] = "waiting"
    /\ phase' = [phase EXCEPT ![e] = "done"]
    /\ effects' = [effects EXCEPT ![e] = @ + 1]
    /\ UNCHANGED charged

Charge(e) ==
    /\ phase[e] = "waiting"
    /\ charged' = [charged EXCEPT ![e] = @ + 1]
    /\ phase' = [phase EXCEPT ![e] =
                    IF charged[e] + 1 >= MaxAttempts THEN "dead" ELSE "waiting"]
    /\ UNCHANGED effects

Reject(e) ==
    /\ e \in Rejectable
    /\ phase[e] = "waiting"
    /\ charged' = [charged EXCEPT ![e] = @ + 1]
    /\ phase' = [phase EXCEPT ![e] = "dead"]
    /\ UNCHANGED effects

Next == \E e \in Events : Publish(e) \/ Apply(e) \/ Charge(e) \/ Reject(e)

Spec == Init /\ [][Next]_vars

=============================================================================
