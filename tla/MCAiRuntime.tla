---------------------------- MODULE MCAiRuntime ----------------------------
(***************************************************************************)
(* Two calls at once on two models, a budget of one call under a global    *)
(* switch, two attempts, circuits that open at the second failure.         *)
(***************************************************************************)
EXTENDS AiRuntime

TwoPolicies == {[rank |-> 0, enabled |-> TRUE, budget |-> 0],
                [rank |-> 1, enabled |-> TRUE, budget |-> 1]}

=============================================================================
