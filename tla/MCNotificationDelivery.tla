----------------------- MODULE MCNotificationDelivery -----------------------
(***************************************************************************)
(* Instances of NotificationDelivery for TLC: two worker processes share   *)
(* SLA inputs (odd rows) and notification events (even rows).  The ticket  *)
(* is not assigned, so event 2, an SLA warning for the assignee, has no    *)
(* recipient; event 4 tells the customer, and event 6 asks two approvers.  *)
(***************************************************************************)
EXTENDS NotificationDelivery

MCConsumer == [e \in Events |-> IF e % 2 = 1 THEN "SLA" ELSE "NOTIFY"]

MCTicket == [reporter |-> "ann", requestedFor |-> Nobody, assignee |-> Nobody]

MCNotices ==
    [e \in Events |-> IF e = 2 THEN [to |-> "assignee", actor |-> Nobody]
                      ELSE IF e = 4 THEN [to |-> "customer", actor |-> "bob"]
                      ELSE [to |-> "approvers", actor |-> "ann"]]

\* The outbox at its busiest; a delivery under every fault; two deliveries of
\* one event; a delivery beside an SLA input that fails for ever, and one beside
\* an event nobody can plan.
MCLoads ==
    {[events |-> {1, 2, 3}, crashes |-> 1, overruns |-> 0],
     [events |-> {6}, crashes |-> 0, overruns |-> 0],
     [events |-> {4}, crashes |-> 1, overruns |-> 2],
     [events |-> {1, 4}, crashes |-> 0, overruns |-> 1],
     [events |-> {2, 4}, crashes |-> 0, overruns |-> 0]}

=============================================================================
