---------------------------- MODULE MCSlaEngine ----------------------------
(***************************************************************************)
(* The clocks of one ticket, created in the last open tick of date 0.      *)
(* Tick 1 is outside working hours; then the clock is put forward over     *)
(* midnight, where the custom hours of date 1 begin, so that ticks 2 and 3 *)
(* are open.  Date 2 is closed and date 3 an ordinary one, so that a       *)
(* deadline may lie days ahead.  The shipped definitions pause the         *)
(* RESOLUTION metric only; a goal of another priority does not match.      *)
(***************************************************************************)
EXTENDS SlaEngine, TLC

MCLocal == [t \in 0 .. 12 |-> IF t < 2 THEN t + 2 ELSE t + 3]
MCCalendar ==
    [always |-> FALSE,
     periods |-> [day \in 0 .. 6 |-> {<<1, 3>>}],
     exceptions |-> {[date |-> 1, closed |-> FALSE, hours |-> <<0, 3>>],
                     [date |-> 2, closed |-> TRUE, hours |-> << >>]}]

MCFacets == [priority_code |-> "HIGH"]
MCGoal(metric, priority, order, target) ==
    [metric |-> metric, condition |-> [priority_code |-> priority], order |-> order,
     target |-> target, warning |-> 1]
MCGoals ==
    {MCGoal("FIRST_RESPONSE", "HIGH", 1, 1), MCGoal("RESOLUTION", "HIGH", 2, 2),
     MCGoal("RESOLUTION", "LOW", 1, 3),
     [MCGoal("RESOLUTION", "HIGH", 3, 3) EXCEPT !.condition = << >>]}

MCPauseMetrics == {"RESOLUTION"}
WorkerSymmetry == Permutations(Workers)

=============================================================================
