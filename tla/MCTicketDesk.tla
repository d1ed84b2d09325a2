---------------------------- MODULE MCTicketDesk ----------------------------
(***************************************************************************)
(* An instance of TicketDesk for TLC: a form whose second field applies    *)
(* only to software, a matrix where a service row overrides the tenant's,  *)
(* and two groups, one of them filled in turn.                             *)
(***************************************************************************)
EXTENDS TicketDesk, TLC

MCModes == {"ANY_ONE_APPROVER", "ALL_APPROVERS"}

MCForm ==
    [kind |-> [required |-> TRUE, condition |-> NoCondition,
               norm |-> ("software" :> "software") @@ (" software " :> "software")
                       @@ ("access" :> "access"),
               bounds |-> {"software", "access"}],
     product |-> [required |-> TRUE,
                  condition |-> Condition("all", {Predicate("kind", "in", {"software"})}),
                  norm |-> ("erp" :> "erp") @@ (" erp" :> "erp"),
                  bounds |-> {"erp"}]]

MCAnswers ==
    [padded |-> [raw |-> [kind |-> " software "], level |-> "low"],
     full |-> [raw |-> [kind |-> "software", product |-> " erp"], level |-> "high"],
     stray |-> [raw |-> [kind |-> "access", product |-> "erp"], level |-> "low"]]

MCMatrix ==
    {MatrixRow("low", 1, 10, "P4"), MatrixRow("high", 1, 10, "P2"), MatrixRow("high", 3, 20, "P1")}

MCMembers == [desk |-> {1, 2}, apps |-> {3}]

MCRules ==
    {Rule(1, 10, 1, {"NEW"}, "ROUND_ROBIN", "desk", Nobody),
     Rule(2, 10, 2, {"IN_PROGRESS"}, "NAMED_ASSIGNEE", "apps", 3),
     Rule(3, 20, 1, {"IN_PROGRESS", "NEW"}, "GROUP_ONLY", "apps", Nobody),
     Rule(4, 99, 0, {}, "GROUP_ONLY", "desk", Nobody)}

MCTargets == [anna |-> Holder("desk", 1)]

DeskSymmetry == Permutations(Slots) \cup Permutations(Approvers)

=============================================================================
