------------------------------- MODULE Routing -------------------------------
(***************************************************************************)
(* Which group and which analyst a ticket is routed to (routing/service.py *)
(* and the queries of routing/repository.py).                              *)
(*                                                                         *)
(* Rules is the set of the routing rule versions of the project that are   *)
(* effective: published, inside their windows, of an active rule and an    *)
(* active group.  A condition is the set of ticket statuses it evaluates   *)
(* to true in, standing for every value a rule can look at; "default"      *)
(* marks the empty condition.  Analysts are numbered as their user ids     *)
(* sort.                                                                   *)
(***************************************************************************)
EXTENDS Naturals, Sequences, FiniteSets

CONSTANTS
    Rules,      \* the effective routing rule versions
    Members     \* Members[g]: the active analysts of each active support group

Nobody == 0
Groups == DOMAIN Members
Holder(group, who) == [group |-> group, who |-> who]
Unassigned == Holder("none", Nobody)

Rule(id, priority, specificity, condition, method, group, who) ==
    [id |-> id, priority |-> priority, specificity |-> specificity, condition |-> condition,
     default |-> condition = {}, method |-> method, group |-> group, who |-> who]

\* _rule_order: priority, then the more specific condition, then the version's id.
Precedes(r, q) ==
    \/ r.priority < q.priority
    \/ r.priority = q.priority /\ r.specificity > q.specificity
    \/ r.priority = q.priority /\ r.specificity = q.specificity /\ r.id < q.id

Defaults == {r \in Rules : r.default}

\* _select_rule: nothing is routed unless there is exactly one default route.
Routable == Cardinality(Defaults) = 1

Matching(status) == {r \in Rules \ Defaults : status \in r.condition}

Selected(status) ==
    IF Matching(status) = {} THEN CHOOSE r \in Defaults : TRUE
    ELSE CHOOSE r \in Matching(status) : \A q \in Matching(status) \ {r} : Precedes(r, q)

\* RoutingRepository.target: an active group, and nobody or one of its active members.
Target(group, who) == group \in Groups /\ who \in Members[group] \cup {Nobody}

Load(history, group, who) ==
    Cardinality({i \in 1 .. Len(history) : history[i].to = Holder(group, who)})

\* round_robin_assignee: the member with the fewest rows in the assignment history.
RoundRobin(history, group) ==
    CHOOSE m \in Members[group] : \A n \in Members[group] \ {m} :
        \/ Load(history, group, m) < Load(history, group, n)
        \/ Load(history, group, m) = Load(history, group, n) /\ m < n

\* _assignee; a round robin without members and a named assignee who left the group are
\* configuration errors.
Assignable(rule) ==
    \/ rule.method = "GROUP_ONLY"
    \/ rule.method = "ROUND_ROBIN" /\ Members[rule.group] # {}
    \/ rule.method = "NAMED_ASSIGNEE" /\ rule.who # Nobody /\ Target(rule.group, rule.who)

Assignee(history, rule) ==
    IF rule.method = "GROUP_ONLY" THEN Nobody
    ELSE IF rule.method = "ROUND_ROBIN" THEN RoundRobin(history, rule.group)
    ELSE rule.who

=============================================================================
