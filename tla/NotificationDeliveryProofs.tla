---------------------- MODULE NotificationDeliveryProofs ----------------------
(***************************************************************************)
(* The outbox and the notification pipeline built on it, for any events,   *)
(* recipients, workers, attempts, crashes and limits:                      *)
(*   - the safety properties of Outbox and its refinement of               *)
(*     OutboxContract;                                                     *)
(*   - the refinement of Outbox by the pipeline: a step of a worker in     *)
(*     deliver_one, of the clock or of a recipient changes no outbox row   *)
(*     and no worker's place in the outbox's loop, and every other step is *)
(*     one of Outbox;                                                      *)
(*   - the safety of delivery: leases, attempts and duplicates.            *)
(***************************************************************************)
EXTENDS NotificationDelivery, TLAPS

-----------------------------------------------------------------------------
(* The outbox and its two consumers.                                       *)

\* What a worker that is past its claim knows about the row it works on: the
\* row exists; while its transaction is open nobody settles the row; and only
\* the planner ever reports a permanent failure.
AttemptSound ==
    \A w \in Workers :
        /\ pc[w] \in {"open", "marking"} =>
             held[w] \in Events /\ status[held[w]] # "ABSENT"
        /\ pc[w] = "open" => status[held[w]] \in {"PENDING", "FAILED"}
        /\ permanent[w] => pc[w] = "marking" /\ Consumer[held[w]] = "NOTIFY"

\* The inductive invariant.
IInv ==
    /\ TypeOK
    /\ AttemptSound
    /\ RowLockExclusive
    /\ ExactlyOnceEffect
    /\ SlaRetryBudget
    /\ NotifyNeverCharged

\* The initial state satisfies the inductive invariant.
LEMMA InitIInv == Init => IInv
  <1> SUFFICES ASSUME Init PROVE IInv
    OBVIOUS
  <1> USE EventsAssumption, ConsumerAssumption, LimitsAssumption DEF Init
  <1>1. TypeOK
    BY DEF TypeOK, Statuses, Steps, NoEvent
  <1>2. AttemptSound /\ RowLockExclusive
    BY DEF AttemptSound, RowLockExclusive, Open
  <1>3. ExactlyOnceEffect /\ SlaRetryBudget /\ NotifyNeverCharged
    BY DEF ExactlyOnceEffect, SlaRetryBudget, NotifyNeverCharged
  <1>4. QED
    BY <1>1, <1>2, <1>3 DEF IInv

\* An insert commits.
LEMMA EmitIInv ==
  ASSUME NEW e \in Events, IInv, Emit(e)
  PROVE  IInv'
  <1> USE EventsAssumption, ConsumerAssumption, LimitsAssumption DEF Emit, rows, local
  <1>1. TypeOK'
    BY DEF IInv, TypeOK, Steps, Statuses
  <1>2. AttemptSound'
    BY DEF IInv, AttemptSound, TypeOK, Steps, Statuses
  <1>3. RowLockExclusive'
    BY DEF IInv, RowLockExclusive, Open, TypeOK
  <1>4. ExactlyOnceEffect'
    BY DEF IInv, ExactlyOnceEffect, TypeOK
  <1>5. SlaRetryBudget'
    BY DEF IInv, SlaRetryBudget, TypeOK
  <1>6. NotifyNeverCharged'
    BY DEF IInv, NotifyNeverCharged, TypeOK
  <1>7. QED
    BY <1>1, <1>2, <1>3, <1>4, <1>5, <1>6 DEF IInv

\* available_at passes.
LEMMA BackoffElapsesIInv ==
  ASSUME NEW e \in Events, IInv, BackoffElapses(e)
  PROVE  IInv'
  <1> USE EventsAssumption, ConsumerAssumption, LimitsAssumption DEF BackoffElapses, rows, local
  <1>1. TypeOK'
    BY DEF IInv, TypeOK, Steps, Statuses
  <1>2. AttemptSound'
    BY DEF IInv, AttemptSound, TypeOK, Steps, Statuses
  <1>3. RowLockExclusive'
    BY DEF IInv, RowLockExclusive, Open, TypeOK
  <1>4. ExactlyOnceEffect'
    BY DEF IInv, ExactlyOnceEffect, TypeOK
  <1>5. SlaRetryBudget'
    BY DEF IInv, SlaRetryBudget, TypeOK
  <1>6. NotifyNeverCharged'
    BY DEF IInv, NotifyNeverCharged, TypeOK
  <1>7. QED
    BY <1>1, <1>2, <1>3, <1>4, <1>5, <1>6 DEF IInv

\* A claim takes an unlocked PENDING or FAILED row.
LEMMA ClaimIInv ==
  ASSUME NEW w \in Workers, NEW c, NEW e \in Events, IInv, pc[w] \in {"sla", "plan"}, Claim(w, c, e)
  PROVE  IInv'
  <1> USE EventsAssumption, ConsumerAssumption, LimitsAssumption DEF Claim, Candidate, Claimable, Locked, Open, rows, local
  <1>1. TypeOK'
    BY DEF IInv, TypeOK, Steps, Statuses
  <1>2. AttemptSound'
    BY DEF IInv, AttemptSound, TypeOK, Steps, Statuses
  <1>3. RowLockExclusive'
    BY DEF IInv, RowLockExclusive, Open, TypeOK
  <1>4. ExactlyOnceEffect'
    BY DEF IInv, ExactlyOnceEffect, TypeOK
  <1>5. SlaRetryBudget'
    BY DEF IInv, SlaRetryBudget, TypeOK
  <1>6. NotifyNeverCharged'
    BY DEF IInv, NotifyNeverCharged, TypeOK
  <1>7. QED
    BY <1>1, <1>2, <1>3, <1>4, <1>5, <1>6 DEF IInv

\* A claim finds no row.
LEMMA NothingToClaimIInv ==
  ASSUME NEW w \in Workers, IInv, NothingToClaim(w)
  PROVE  IInv'
  <1> USE EventsAssumption, ConsumerAssumption, LimitsAssumption DEF NothingToClaim, rows, local
  <1>1. TypeOK'
    BY DEF IInv, TypeOK, Steps, Statuses
  <1>2. AttemptSound'
    BY DEF IInv, AttemptSound, TypeOK, Steps, Statuses
  <1>3. RowLockExclusive'
    BY DEF IInv, RowLockExclusive, Open, TypeOK
  <1>4. ExactlyOnceEffect'
    BY DEF IInv, ExactlyOnceEffect, TypeOK
  <1>5. SlaRetryBudget'
    BY DEF IInv, SlaRetryBudget, TypeOK
  <1>6. NotifyNeverCharged'
    BY DEF IInv, NotifyNeverCharged, TypeOK
  <1>7. QED
    BY <1>1, <1>2, <1>3, <1>4, <1>5, <1>6 DEF IInv

\* The processing transaction commits.
LEMMA CommitIInv ==
  ASSUME NEW w \in Workers, IInv, Commit(w)
  PROVE  IInv'
  <1> USE EventsAssumption, ConsumerAssumption, LimitsAssumption DEF Commit, Commits, rows, local, NoEvent
  <1>0. held[w] \in Events /\ status[held[w]] \in {"PENDING", "FAILED"} /\ ~permanent[w]
    BY DEF IInv, AttemptSound, TypeOK
  <1>1. TypeOK'
    <2>1. status' \in [Events -> Statuses]
      BY <1>0 DEF IInv, TypeOK, Statuses
    <2>2. retry' \in [Events -> Nat] /\ applied' \in [Events -> Nat]
      <3>1. applied[held[w]] = 0
        BY <1>0 DEF IInv, ExactlyOnceEffect
      <3>2. QED
        BY <1>0, <3>1 DEF IInv, TypeOK
    <2>3. waiting' \in [Events -> BOOLEAN] /\ permanent' \in [Workers -> BOOLEAN]
      BY <1>0 DEF IInv, TypeOK
    <2>4. /\ pc' \in [Workers -> Steps]
          /\ held' \in [Workers -> Events \cup {NoEvent}]
          /\ crashes' \in Nat
      BY <1>0 DEF IInv, TypeOK, Steps
    <2>5. QED
      BY <2>1, <2>2, <2>3, <2>4 DEF TypeOK
  <1>2. AttemptSound'
    <2> SUFFICES ASSUME NEW v \in Workers
                 PROVE  /\ pc'[v] \in {"open", "marking"} =>
                             held'[v] \in Events /\ status'[held'[v]] # "ABSENT"
                        /\ pc'[v] = "open" => status'[held'[v]] \in {"PENDING", "FAILED"}
                        /\ permanent'[v] => pc'[v] = "marking" /\ Consumer[held'[v]] = "NOTIFY"
      BY DEF AttemptSound
    <2>1. CASE v = w
      BY <1>0, <2>1 DEF IInv, AttemptSound, TypeOK
    <2>2. CASE v # w
      <3>1. pc'[v] = pc[v] /\ held'[v] = held[v] /\ permanent'[v] = permanent[v]
        BY <2>2 DEF IInv, TypeOK
      <3>2. pc[v] = "open" => held[v] # held[w]
        BY <1>0, <2>2 DEF IInv, RowLockExclusive, Open, AttemptSound
      <3>3. QED
        BY <1>0, <3>1, <3>2 DEF IInv, AttemptSound, TypeOK
    <2>3. QED
      BY <2>1, <2>2
  <1>3. RowLockExclusive'
    BY <1>0 DEF IInv, AttemptSound, RowLockExclusive, Open, RowLockExclusive, Open, TypeOK
  <1>4. ExactlyOnceEffect'
    BY <1>0 DEF IInv, AttemptSound, RowLockExclusive, Open, ExactlyOnceEffect, TypeOK
  <1>5. SlaRetryBudget'
    BY <1>0 DEF IInv, AttemptSound, RowLockExclusive, Open, SlaRetryBudget, TypeOK
  <1>6. NotifyNeverCharged'
    BY <1>0 DEF IInv, AttemptSound, RowLockExclusive, Open, NotifyNeverCharged, TypeOK
  <1>7. QED
    BY <1>1, <1>2, <1>3, <1>4, <1>5, <1>6 DEF IInv

\* It commits and the worker does not learn of it.
LEMMA CommitReplyLostIInv ==
  ASSUME NEW w \in Workers, IInv, CommitReplyLost(w)
  PROVE  IInv'
  <1> USE EventsAssumption, ConsumerAssumption, LimitsAssumption DEF CommitReplyLost, Commits, rows, local
  <1>0. held[w] \in Events /\ status[held[w]] \in {"PENDING", "FAILED"}
    BY DEF IInv, AttemptSound, TypeOK
  <1>1. TypeOK'
    <2>1. status' \in [Events -> Statuses]
      BY <1>0 DEF IInv, TypeOK, Statuses
    <2>2. retry' \in [Events -> Nat] /\ applied' \in [Events -> Nat]
      <3>1. applied[held[w]] = 0
        BY <1>0 DEF IInv, ExactlyOnceEffect
      <3>2. QED
        BY <1>0, <3>1 DEF IInv, TypeOK
    <2>3. waiting' \in [Events -> BOOLEAN] /\ permanent' \in [Workers -> BOOLEAN]
      BY <1>0 DEF IInv, TypeOK
    <2>4. /\ pc' \in [Workers -> Steps]
          /\ held' \in [Workers -> Events \cup {NoEvent}]
          /\ crashes' \in Nat
      BY <1>0 DEF IInv, TypeOK, Steps
    <2>5. QED
      BY <2>1, <2>2, <2>3, <2>4 DEF TypeOK
  <1>2. AttemptSound'
    <2> SUFFICES ASSUME NEW v \in Workers
                 PROVE  /\ pc'[v] \in {"open", "marking"} =>
                             held'[v] \in Events /\ status'[held'[v]] # "ABSENT"
                        /\ pc'[v] = "open" => status'[held'[v]] \in {"PENDING", "FAILED"}
                        /\ permanent'[v] => pc'[v] = "marking" /\ Consumer[held'[v]] = "NOTIFY"
      BY DEF AttemptSound
    <2>1. CASE v = w
      BY <1>0, <2>1 DEF IInv, AttemptSound, TypeOK
    <2>2. CASE v # w
      <3>1. pc'[v] = pc[v] /\ held'[v] = held[v] /\ permanent'[v] = permanent[v]
        BY <2>2 DEF IInv, TypeOK
      <3>2. pc[v] = "open" => held[v] # held[w]
        BY <1>0, <2>2 DEF IInv, RowLockExclusive, Open, AttemptSound
      <3>3. QED
        BY <1>0, <3>1, <3>2 DEF IInv, AttemptSound, TypeOK
    <2>3. QED
      BY <2>1, <2>2
  <1>3. RowLockExclusive'
    BY <1>0 DEF IInv, AttemptSound, RowLockExclusive, Open, RowLockExclusive, Open, TypeOK
  <1>4. ExactlyOnceEffect'
    BY <1>0 DEF IInv, AttemptSound, RowLockExclusive, Open, ExactlyOnceEffect, TypeOK
  <1>5. SlaRetryBudget'
    BY <1>0 DEF IInv, AttemptSound, RowLockExclusive, Open, SlaRetryBudget, TypeOK
  <1>6. NotifyNeverCharged'
    BY <1>0 DEF IInv, AttemptSound, RowLockExclusive, Open, NotifyNeverCharged, TypeOK
  <1>7. QED
    BY <1>1, <1>2, <1>3, <1>4, <1>5, <1>6 DEF IInv

\* It is rolled back.
LEMMA FailIInv ==
  ASSUME NEW w \in Workers, IInv, Fail(w)
  PROVE  IInv'
  <1> USE EventsAssumption, ConsumerAssumption, LimitsAssumption DEF Fail, rows, local
  <1>1. TypeOK'
    BY DEF IInv, TypeOK, Steps, Statuses
  <1>2. AttemptSound'
    BY DEF IInv, AttemptSound, TypeOK, Steps, Statuses
  <1>3. RowLockExclusive'
    BY DEF IInv, RowLockExclusive, Open, TypeOK
  <1>4. ExactlyOnceEffect'
    BY DEF IInv, ExactlyOnceEffect, TypeOK
  <1>5. SlaRetryBudget'
    BY DEF IInv, SlaRetryBudget, TypeOK
  <1>6. NotifyNeverCharged'
    BY DEF IInv, NotifyNeverCharged, TypeOK
  <1>7. QED
    BY <1>1, <1>2, <1>3, <1>4, <1>5, <1>6 DEF IInv

\* It is rolled back before the worker knows the event.
LEMMA FailUnidentifiedIInv ==
  ASSUME NEW w \in Workers, IInv, FailUnidentified(w)
  PROVE  IInv'
  <1> USE EventsAssumption, ConsumerAssumption, LimitsAssumption DEF FailUnidentified, rows, local, NoEvent
  <1>1. TypeOK'
    BY DEF IInv, TypeOK, Steps, Statuses
  <1>2. AttemptSound'
    BY DEF IInv, AttemptSound, TypeOK, Steps, Statuses
  <1>3. RowLockExclusive'
    BY DEF IInv, RowLockExclusive, Open, TypeOK
  <1>4. ExactlyOnceEffect'
    BY DEF IInv, ExactlyOnceEffect, TypeOK
  <1>5. SlaRetryBudget'
    BY DEF IInv, SlaRetryBudget, TypeOK
  <1>6. NotifyNeverCharged'
    BY DEF IInv, NotifyNeverCharged, TypeOK
  <1>7. QED
    BY <1>1, <1>2, <1>3, <1>4, <1>5, <1>6 DEF IInv

\* The failure is charged, or the charge matches no row.
LEMMA MarkFailedIInv ==
  ASSUME NEW w \in Workers, IInv, MarkFailed(w)
  PROVE  IInv'
  <1> USE EventsAssumption, ConsumerAssumption, LimitsAssumption DEF MarkFailed, Charge, Exhausted, Markable, Locked, rows, local, NoEvent
  <1>0. held[w] \in Events /\ status[held[w]] # "ABSENT"
    BY DEF IInv, AttemptSound, TypeOK
  <1>1. TypeOK'
    <2>1. status' \in [Events -> Statuses]
      BY <1>0 DEF IInv, TypeOK, Statuses
    <2>2. retry' \in [Events -> Nat] /\ applied' \in [Events -> Nat]
      BY <1>0 DEF IInv, TypeOK
    <2>3. waiting' \in [Events -> BOOLEAN] /\ permanent' \in [Workers -> BOOLEAN]
      BY <1>0 DEF IInv, TypeOK
    <2>4. /\ pc' \in [Workers -> Steps]
          /\ held' \in [Workers -> Events \cup {NoEvent}]
          /\ crashes' \in Nat
      BY <1>0 DEF IInv, TypeOK, Steps
    <2>5. QED
      BY <2>1, <2>2, <2>3, <2>4 DEF TypeOK
  <1>2. AttemptSound'
    <2> SUFFICES ASSUME NEW v \in Workers
                 PROVE  /\ pc'[v] \in {"open", "marking"} =>
                             held'[v] \in Events /\ status'[held'[v]] # "ABSENT"
                        /\ pc'[v] = "open" => status'[held'[v]] \in {"PENDING", "FAILED"}
                        /\ permanent'[v] => pc'[v] = "marking" /\ Consumer[held'[v]] = "NOTIFY"
      BY DEF AttemptSound
    <2>1. CASE v = w
      BY <1>0, <2>1 DEF IInv, AttemptSound, TypeOK
    <2>2. CASE v # w
      <3>1. pc'[v] = pc[v] /\ held'[v] = held[v] /\ permanent'[v] = permanent[v]
        BY <2>2 DEF IInv, TypeOK
      <3>2. pc[v] = "open" => held[v] # held[w]
        BY <1>0, <2>2 DEF IInv, RowLockExclusive, Open, AttemptSound
      <3>3. status' = status \/ \E x \in {"FAILED", "DEAD_LETTER"} :
                                  status' = [status EXCEPT ![held[w]] = x]
        OBVIOUS
      <3>4. ASSUME NEW e \in Events
            PROVE  /\ e # held[w] => status'[e] = status[e]
                   /\ status[e] # "ABSENT" => status'[e] # "ABSENT"
        BY <1>0, <3>3 DEF IInv, TypeOK
      <3>5. /\ pc[v] \in {"open", "marking"} => held[v] \in Events /\ status[held[v]] # "ABSENT"
            /\ pc[v] = "open" => status[held[v]] \in {"PENDING", "FAILED"}
        BY DEF IInv, AttemptSound
      <3> HIDE EventsAssumption, ConsumerAssumption, LimitsAssumption
          DEF MarkFailed, Charge, Exhausted, Markable, Locked, rows, local, NoEvent
      <3>6. ASSUME pc[v] = "open"
            PROVE  status'[held[v]] = status[held[v]]
        <4>1. held[v] \in Events /\ held[v] # held[w]
          BY <3>2, <3>5, <3>6
        <4>2. QED
          BY <3>4, <4>1
      <3>7. ASSUME pc[v] \in {"open", "marking"}
            PROVE  held[v] \in Events /\ status'[held[v]] # "ABSENT"
        <4>1. held[v] \in Events /\ status[held[v]] # "ABSENT"
          BY <3>5, <3>7
        <4>2. QED
          BY <3>4, <4>1
      <3>8. permanent[v] => pc[v] = "marking" /\ Consumer[held[v]] = "NOTIFY"
        BY DEF IInv, AttemptSound
      <3>9. QED
        BY <3>1, <3>5, <3>6, <3>7, <3>8
    <2>3. QED
      BY <2>1, <2>2
  <1>3. RowLockExclusive'
    BY <1>0 DEF IInv, AttemptSound, RowLockExclusive, Open, RowLockExclusive, Open, TypeOK, Consumers, SlaRetryBudget, NotifyNeverCharged
  <1>4. ExactlyOnceEffect'
    BY <1>0 DEF IInv, AttemptSound, RowLockExclusive, Open, ExactlyOnceEffect, TypeOK, Consumers, SlaRetryBudget, NotifyNeverCharged
  <1>5. SlaRetryBudget'
    BY <1>0 DEF IInv, AttemptSound, RowLockExclusive, Open, SlaRetryBudget, TypeOK, Consumers, SlaRetryBudget, NotifyNeverCharged
  <1>6. NotifyNeverCharged'
    BY <1>0 DEF IInv, AttemptSound, RowLockExclusive, Open, NotifyNeverCharged, TypeOK, Consumers, SlaRetryBudget, NotifyNeverCharged
  <1>7. QED
    BY <1>1, <1>2, <1>3, <1>4, <1>5, <1>6 DEF IInv

\* A worker dies.
LEMMA CrashIInv ==
  ASSUME NEW w \in Workers, IInv, Crash(w)
  PROVE  IInv'
  <1> USE EventsAssumption, ConsumerAssumption, LimitsAssumption DEF Crash, rows, local, NoEvent
  <1>1. TypeOK'
    BY DEF IInv, TypeOK, Steps, Statuses
  <1>2. AttemptSound'
    BY DEF IInv, AttemptSound, TypeOK, Steps, Statuses
  <1>3. RowLockExclusive'
    BY DEF IInv, RowLockExclusive, Open, TypeOK
  <1>4. ExactlyOnceEffect'
    BY DEF IInv, ExactlyOnceEffect, TypeOK
  <1>5. SlaRetryBudget'
    BY DEF IInv, SlaRetryBudget, TypeOK
  <1>6. NotifyNeverCharged'
    BY DEF IInv, NotifyNeverCharged, TypeOK
  <1>7. QED
    BY <1>1, <1>2, <1>3, <1>4, <1>5, <1>6 DEF IInv

\* Every step of the system preserves the inductive invariant.
LEMMA NextIInv == IInv /\ [Next]_vars => IInv'
  <1> SUFFICES ASSUME IInv, [Next]_vars PROVE IInv'
    OBVIOUS
  <1>1. ASSUME NEW e \in Events, Emit(e) \/ BackoffElapses(e) PROVE IInv'
    BY <1>1, EmitIInv, BackoffElapsesIInv
  <1>2. ASSUME NEW w \in Workers, ClaimSla(w) \/ ClaimPlan(w) PROVE IInv'
    BY <1>2, ClaimIInv DEF ClaimSla, ClaimPlan
  <1>3. ASSUME NEW w \in Workers,
               \/ NothingToClaim(w) \/ Commit(w) \/ CommitReplyLost(w) \/ Fail(w)
               \/ FailUnidentified(w) \/ MarkFailed(w) \/ Crash(w)
        PROVE  IInv'
    BY <1>3, NothingToClaimIInv, CommitIInv, CommitReplyLostIInv, FailIInv,
       FailUnidentifiedIInv, MarkFailedIInv, CrashIInv
  <1>4. CASE UNCHANGED vars
    BY <1>4 DEF vars, IInv, TypeOK, AttemptSound, RowLockExclusive, Open,
                ExactlyOnceEffect, SlaRetryBudget, NotifyNeverCharged
  <1>5. QED
    BY <1>1, <1>2, <1>3, <1>4 DEF Next, Work

\* The inductive invariant holds in every reachable state.
LEMMA IInvHolds == Spec => []IInv
  BY InitIInv, NextIInv, PTL DEF Spec

-----------------------------------------------------------------------------
(* The theorems.                                                           *)

\* Type correctness of the outbox rows and of the workers' local state.
THEOREM TypeCorrect == Spec => []TypeOK
  BY IInvHolds, PTL DEF IInv

\* Whatever the workers, the crashes, the rollbacks and the lost commit
\* replies, a row is PROCESSED if and only if its effect was committed once,
\* and no row is ever open in two workers.
THEOREM EffectExactlyOnce == Spec => [](RowLockExclusive /\ ExactlyOnceEffect)
  BY IInvHolds, PTL DEF IInv

\* _mark_failed never charges more than worker_max_attempts failures and
\* dead-letters an SLA input exactly at the limit, however many workers fail
\* on the row concurrently.
THEOREM SlaBudgetKept == Spec => []SlaRetryBudget
  BY IInvHolds, PTL DEF IInv

\* _fail_event never matches a row: planner failures are never charged.
THEOREM PlannerFailuresUncharged == Spec => []NotifyNeverCharged
  BY IInvHolds, PTL DEF IInv

\* A settled row is never reopened, charged or applied again.
THEOREM SettledRowsStay == Spec => SettledForever
  <1>1. ASSUME IInv, [Next]_vars
        PROVE  [\A e \in Events : Settled(e) =>
                  /\ status'[e] = status[e]
                  /\ retry'[e] = retry[e]
                  /\ applied'[e] = applied[e]]_vars
    <2> SUFFICES ASSUME Next, NEW e \in Events, Settled(e)
                 PROVE  status'[e] = status[e] /\ retry'[e] = retry[e] /\ applied'[e] = applied[e]
      BY <1>1
    <2> USE <1>1, EventsAssumption, ConsumerAssumption DEF IInv, TypeOK, Settled, rows, local
    <2>1. ASSUME NEW f \in Events, Emit(f) \/ BackoffElapses(f)
          PROVE  status'[e] = status[e] /\ retry'[e] = retry[e] /\ applied'[e] = applied[e]
      BY <2>1 DEF Emit, BackoffElapses
    <2>2. ASSUME NEW w \in Workers,
                 ClaimSla(w) \/ ClaimPlan(w) \/ NothingToClaim(w) \/ Fail(w)
                   \/ FailUnidentified(w) \/ Crash(w)
          PROVE  status'[e] = status[e] /\ retry'[e] = retry[e] /\ applied'[e] = applied[e]
      BY <2>2 DEF ClaimSla, ClaimPlan, Claim, NothingToClaim, Fail, FailUnidentified, Crash
    <2>3. ASSUME NEW w \in Workers, Commit(w) \/ CommitReplyLost(w)
          PROVE  status'[e] = status[e] /\ retry'[e] = retry[e] /\ applied'[e] = applied[e]
      <3>1. pc[w] = "open" /\ held[w] \in Events /\ held[w] # e
        BY <2>3 DEF Commit, CommitReplyLost, AttemptSound
      <3>2. QED
        BY <2>3, <3>1 DEF Commit, CommitReplyLost, Commits
    <2>4. ASSUME NEW w \in Workers, MarkFailed(w)
          PROVE  status'[e] = status[e] /\ retry'[e] = retry[e] /\ applied'[e] = applied[e]
      <3>1. held[w] \in Events
        BY <2>4 DEF MarkFailed, AttemptSound
      <3>2. CASE held[w] = e
        <4>1. status[held[w]] \notin Markable(Consumer[held[w]])
          BY <3>2 DEF Markable
        <4>2. QED
          BY <2>4, <4>1 DEF MarkFailed
      <3>3. CASE held[w] # e
        BY <2>4, <3>1, <3>3 DEF MarkFailed, Charge
      <3>4. QED
        BY <3>2, <3>3
    <2>5. QED
      BY <2>1, <2>2, <2>3, <2>4 DEF Next, Work
  <1>2. QED
    BY <1>1, IInvHolds, PTL DEF Spec, SettledForever

-----------------------------------------------------------------------------
(* Refinement of the contract.                                             *)

\* The refinement mapping, row by row.
LEMMA PhaseOfStatus ==
  /\ Phase("ABSENT") = "absent"
  /\ Phase("PROCESSED") = "done"
  /\ Phase("DEAD_LETTER") = "dead"
  /\ \A s \in {"PENDING", "FAILED", "PROCESSING"} : Phase(s) = "waiting"
  BY DEF Phase

\* The outbox implements its contract: a claim, a rollback, a crash, a charge
\* that matches no row and the passing of time change nothing the emitter can
\* see, a commit is Apply and a charge that matches is Charge.
THEOREM OutboxImplementsContract == Spec => ImplementsContract
  <1> DEFINE phase == [e \in Events |-> Phase(status[e])]
  <1>1. Init => Contract!Init
    BY PhaseOfStatus DEF Init, Contract!Init
  <1>2. ASSUME IInv, [Next]_vars PROVE [Contract!Next]_(Contract!vars)
    <2> USE <1>2, EventsAssumption, ConsumerAssumption DEF IInv, TypeOK, rows, local
    <2> SUFFICES ASSUME Next PROVE Contract!Next \/ UNCHANGED Contract!vars
      BY DEF vars, Contract!vars
    <2>1. ASSUME NEW e \in Events, Emit(e) PROVE Contract!Next
      <3>1. Contract!Publish(e)
        BY <2>1, PhaseOfStatus DEF Emit, Contract!Publish
      <3>2. QED
        BY <3>1 DEF Contract!Next
    <2>2. ASSUME NEW e \in Events, BackoffElapses(e) PROVE UNCHANGED Contract!vars
      BY <2>2 DEF BackoffElapses, Contract!vars
    <2>3. ASSUME NEW w \in Workers,
                 ClaimSla(w) \/ ClaimPlan(w) \/ NothingToClaim(w) \/ Fail(w)
                   \/ FailUnidentified(w) \/ Crash(w)
          PROVE  UNCHANGED Contract!vars
      BY <2>3 DEF ClaimSla, ClaimPlan, Claim, NothingToClaim, Fail, FailUnidentified,
                  Crash, Contract!vars
    <2>4. ASSUME NEW w \in Workers, Commit(w) \/ CommitReplyLost(w) PROVE Contract!Next
      <3>1. held[w] \in Events /\ status[held[w]] \in {"PENDING", "FAILED"}
        BY <2>4 DEF Commit, CommitReplyLost, AttemptSound
      <3>2. Contract!Apply(held[w])
        BY <2>4, <3>1, PhaseOfStatus DEF Commit, CommitReplyLost, Commits, Contract!Apply
      <3>3. QED
        BY <3>1, <3>2 DEF Contract!Next
    <2>5. ASSUME NEW w \in Workers, MarkFailed(w)
          PROVE  Contract!Next \/ UNCHANGED Contract!vars
      <3>1. held[w] \in Events
        BY <2>5 DEF MarkFailed, AttemptSound
      <3>2. CASE status[held[w]] \notin Markable(Consumer[held[w]])
        BY <2>5, <3>2 DEF MarkFailed, Contract!vars
      <3>3. CASE status[held[w]] \in Markable(Consumer[held[w]])
        <4>1. /\ status[held[w]] \in {"PENDING", "FAILED", "PROCESSING"}
              /\ Consumer[held[w]] = "SLA"
          BY <3>1, <3>3 DEF Markable, Consumers, NotifyNeverCharged
        <4>2. ~permanent[w]
          BY <4>1 DEF AttemptSound
        <4>3. Contract!Charge(held[w])
          BY <2>5, <3>1, <3>3, <4>1, <4>2, PhaseOfStatus
             DEF MarkFailed, Charge, Exhausted, Contract!Charge
        <4>4. QED
          BY <3>1, <4>3 DEF Contract!Next
      <3>4. QED
        BY <3>2, <3>3
    <2>6. QED
      BY <2>1, <2>2, <2>3, <2>4, <2>5 DEF Next, Work
  <1>3. QED
    BY <1>1, <1>2, IInvHolds, PTL DEF Spec, ImplementsContract, Contract!Spec

-----------------------------------------------------------------------------
(* The pipeline implements the outbox.                                      *)

\* deliver_one has transactions of its own (_claim_delivery, _finish_delivery)
\* and touches notification_delivery and its attempts only.
LEMMA DeliverLeavesOutbox == ASSUME NEW w \in Workers, Deliver(w) PROVE UNCHANGED vars
  BY DEF Deliver, Lease, NothingToSend, Send, Finish

\* One iteration of run_forever is work on the outbox, or delivery.
LEMMA IterateIsWork ==
  ASSUME NEW w \in Workers, Iterate(w)
  PROVE  Work(w) \/ UNCHANGED vars
  <1>1. CASE Consume(w)
    BY <1>1 DEF Consume, Work
  <1>2. CASE Plan(w)
    BY <1>2 DEF Plan, Work
  <1>3. CASE NothingToPlan(w)
    BY <1>3 DEF NothingToPlan, Work
  <1>4. CASE Deliver(w)
    BY <1>4, DeliverLeavesOutbox
  <1>5. QED
    BY <1>1, <1>2, <1>3, <1>4 DEF Iterate

LEMMA PipelineStep == ASSUME [PipelineNext]_pipeline PROVE [Next]_vars
  <1>1. CASE UNCHANGED pipeline
    BY <1>1 DEF pipeline
  <1>2. ASSUME NEW e \in Events, Produce(e) \/ (BackoffElapses(e) /\ UNCHANGED delivery)
        PROVE  Next
    BY <1>2 DEF Produce, Next
  <1>3. ASSUME NEW d \in Deliveries, MarkRead(d) \/ LeaseExpires(d) \/ MailDue(d)
        PROVE  UNCHANGED vars
    BY <1>3 DEF MarkRead, LeaseExpires, MailDue
  <1>4. ASSUME NEW w \in Workers, Iterate(w) PROVE [Next]_vars
    BY <1>4, IterateIsWork DEF Next
  <1>5. ASSUME NEW w \in Workers, Die(w) PROVE Next
    BY <1>5 DEF Die, Next
  <1>6. CASE PipelineNext
    BY <1>2, <1>3, <1>4, <1>5, <1>6 DEF PipelineNext
  <1>7. QED
    BY <1>1, <1>6

\* The composition refines Outbox without any mapping: its outbox variables
\* are those of Outbox (the planner's commit carries the delivery rows with it).
THEOREM PipelineRefinesOutbox == PipelineSpec => Spec
  <1>1. PipelineInit => Init
    BY DEF PipelineInit
  <1>2. QED
    BY <1>1, PipelineStep, PTL DEF PipelineSpec, Spec

\* Planning an event inserts its deliveries once: the effect of an event is
\* committed with PROCESSED, also while workers deliver, overrun and die.
THEOREM PipelineEffectExactlyOnce == PipelineSpec => []ExactlyOnceEffect
  BY PipelineRefinesOutbox, EffectExactlyOnce

\* Delivery in the same loop changes nothing of the budget of SLA inputs.
THEOREM PipelineSlaBudgetKept == PipelineSpec => []SlaRetryBudget
  BY PipelineRefinesOutbox, SlaBudgetKept

\* To the producers of events the whole pipeline is the contract.
THEOREM PipelineImplementsContract == PipelineSpec => ImplementsContract
  BY PipelineRefinesOutbox, OutboxImplementsContract

-----------------------------------------------------------------------------
(* Delivery.                                                                *)

\* w holds a delivery it has leased.
Live(w) == step[w] \in {"sending", "finishing"}

\* A row that may still be leased has an attempt left, and so has a lease that
\* is under way, however often its row was leased again meanwhile.
AttemptsLeft ==
    /\ \A d \in Deliveries : ~final[d] => count[d] < MaxAttempts
    /\ \A w \in Workers : Live(w) => job[w].snap < MaxAttempts

\* While no lease has expired under a live sender, a delivery has one sender at
\* most, and its row shows the lease.
SoleSender ==
    overruns = 0 =>
        \A w \in Workers : Live(w) =>
            /\ mail[job[w].d] = "SENDING" /\ ~expired[job[w].d]
            /\ \A v \in Workers : Live(v) /\ job[v].d = job[w].d => v = w

\* Somebody of this system knows that the server has the message.
Reported(w, d) == step[w] = "finishing" /\ job[w].d = d /\ job[w].outcome = "DELIVERED"

Known(d) == mail[d] = "DELIVERED" \/ \E w \in Workers : Reported(w, d)

\* Every acceptance is known or in doubt.
Accounted ==
    overruns = 0 =>
        \A d \in Deliveries :
            /\ accepted[d] <= doubt[d] + 1
            /\ ~Known(d) => accepted[d] <= doubt[d]

\* Every worker has a job, which is only read while it is live.
Jobs == job = [w \in Workers |-> job[w]]

\* The inductive invariant of delivery; it leans on nothing of the outbox.
PInv == DeliveryTypeOK /\ Jobs /\ AttemptsLeft /\ SoleSender /\ Accounted

\* A saturating counter stays in its range.
LEMMA TallyBounds ==
  ASSUME NEW n \in 0 .. MaxHistory, NEW b \in BOOLEAN
  PROVE  Tally(n, b) \in 0 .. MaxHistory
  BY DeliveryLimitsAssumption DEF Tally

\* Nothing is planned or sent yet.
LEMMA InitPInv == PipelineInit => PInv
  <1> SUFFICES ASSUME PipelineInit PROVE PInv
    OBVIOUS
  <1> USE LimitsAssumption, DeliveryLimitsAssumption DEF PipelineInit
  <1>1. DeliveryTypeOK
    BY DEF DeliveryTypeOK
  <1>2. (\A w \in Workers : ~Live(w)) /\ Jobs
    BY DEF Live, Jobs
  <1>3. AttemptsLeft
    BY <1>2 DEF AttemptsLeft
  <1>4. SoleSender
    BY <1>2 DEF SoleSender
  <1>5. Accounted
    BY DEF Accounted
  <1>6. QED
    BY <1>1, <1>2, <1>3, <1>4, <1>5 DEF PInv

\* A step of the outbox alone.
LEMMA StepUnlessDelivery ==
  ASSUME PInv, UNCHANGED <<row, attempts, inbox, step, job, history>>
  PROVE  PInv'
  <1> USE DEF row, history
  <1>1. DeliveryTypeOK'
    BY DEF PInv, DeliveryTypeOK, Job
  <1>2. AttemptsLeft' /\ Jobs'
    BY DEF PInv, AttemptsLeft, Live, Jobs
  <1>3. SoleSender'
    BY DEF PInv, SoleSender, Live
  <1>4. Accounted'
    BY DEF PInv, Accounted, Known, Reported
  <1>5. QED
    BY <1>1, <1>2, <1>3, <1>4 DEF PInv

\* The planner inserts rows that were ABSENT: no sender holds them.
LEMMA PlanPInv ==
  ASSUME NEW w \in Workers, PInv, Plan(w)
  PROVE  PInv'
  <1> DEFINE I == Inserted(held[w])
  <1>0. /\ mail' = [d \in Deliveries |-> IF d \in I THEN "PENDING" ELSE mail[d]]
        /\ due' = [d \in Deliveries |-> d \in I \/ due[d]]
        /\ inbox' = [d \in Deliveries |-> IF d \in I THEN "UNREAD" ELSE inbox[d]]
        /\ UNCHANGED <<count, final, expired, attempts, step, job, accepted, doubt, overruns, load>>
    BY DEF Plan, history
  <1>1. \A d \in I : mail[d] = "ABSENT"
    BY DEF Inserted
  <1> HIDE DEF I
  <1>2. DeliveryTypeOK'
    BY <1>0 DEF PInv, DeliveryTypeOK, Job
  <1>3. AttemptsLeft' /\ Jobs'
    BY <1>0 DEF PInv, AttemptsLeft, Live, Jobs
  <1>4. SoleSender'
    <2> SUFFICES ASSUME overruns = 0, NEW v \in Workers, Live(v)
                 PROVE  /\ mail'[job[v].d] = "SENDING" /\ ~expired[job[v].d]
                        /\ \A u \in Workers : Live(u) /\ job[u].d = job[v].d => u = v
      BY <1>0 DEF SoleSender, Live
    <2>1. job[v].d \in Deliveries /\ mail[job[v].d] = "SENDING"
      BY DEF PInv, SoleSender, DeliveryTypeOK, Live, Job
    <2>2. QED
      BY <1>0, <1>1, <2>1 DEF PInv, SoleSender
  <1>5. Accounted'
    BY <1>0, <1>1 DEF PInv, Accounted, Known, Reported
  <1>6. QED
    BY <1>2, <1>3, <1>4, <1>5 DEF PInv

\* A worker that is not sending moves on in its loop.
LEMMA NothingPInv ==
  ASSUME NEW w \in Workers, NEW s \in {"claim", "away"}, PInv, ~Live(w),
         step' = [step EXCEPT ![w] = s], UNCHANGED <<row, attempts, inbox, job, history>>
  PROVE  PInv'
  <1> USE DEF row, history
  <1>1. \A v \in Workers : step'[v] = IF v = w THEN s ELSE step[v]
    BY DEF PInv, DeliveryTypeOK
  <1>2. \A v \in Workers : Live(v)' = Live(v) /\ (Live(v) => step'[v] = step[v])
    BY <1>1 DEF Live
  <1>3. DeliveryTypeOK'
    <2>1. step' \in [Workers -> {"away", "claim", "sending", "finishing"}]
      BY DEF PInv, DeliveryTypeOK
    <2>2. \A v \in Workers : step'[v] \in {"sending", "finishing"} => job'[v] \in Job
      BY <1>2 DEF PInv, DeliveryTypeOK, Live
    <2>3. QED
      BY <2>1, <2>2 DEF PInv, DeliveryTypeOK, Job
  <1>4. AttemptsLeft' /\ Jobs'
    BY <1>2 DEF PInv, AttemptsLeft, Jobs
  <1>5. SoleSender'
    BY <1>2 DEF PInv, SoleSender
  <1>6. Accounted'
    BY <1>1, <1>2 DEF PInv, Accounted, Known, Reported, Live
  <1>7. QED
    BY <1>3, <1>4, <1>5, <1>6 DEF PInv

\* A row in flight is leased again only once its lease has expired, which by
\* SoleSender means that its sender is gone.
LEMMA LeasePInv ==
  ASSUME NEW w \in Workers, NEW d \in Deliveries, PInv, Lease(w, d)
  PROVE  PInv'
  <1> DEFINE j == [d |-> d, snap |-> count[d], outcome |-> "RETRYABLE_FAILURE"]
  <1>0. /\ mail' = [mail EXCEPT ![d] = "SENDING"]
        /\ expired' = [expired EXCEPT ![d] = FALSE]
        /\ step' = [step EXCEPT ![w] = "sending"]
        /\ job' = [job EXCEPT ![w] = j]
        /\ UNCHANGED <<count, final, due, attempts, inbox, accepted, doubt, overruns, load>>
        /\ step[w] = "claim" /\ ~final[d]
        /\ mail[d] # "DELIVERED" /\ (mail[d] = "SENDING" => expired[d])
    BY DEF Lease, Sendable, history
  <1>1. j \in Job /\ j.d = d /\ j.snap = count[d] /\ j.outcome = "RETRYABLE_FAILURE"
    BY LimitsAssumption DEF Job, Outcomes, PInv, DeliveryTypeOK
  <1> HIDE DEF j
  <1>2. \A v \in Workers : step'[v] = IF v = w THEN "sending" ELSE step[v]
    BY <1>0 DEF PInv, DeliveryTypeOK
  <1>3. job'[w] = j /\ \A v \in Workers : v # w => job'[v] = job[v]
    BY <1>0 DEF PInv, Jobs
  <1>4. \A v \in Workers : Live(v)' <=> v = w \/ Live(v)
    BY <1>2 DEF Live
  <1>5. overruns = 0 => \A v \in Workers : Live(v) => job[v].d # d
    BY <1>0 DEF PInv, SoleSender
  <1>6. DeliveryTypeOK'
    <2>1. \A v \in Workers : step'[v] \in {"sending", "finishing"} => job'[v] \in Job
      BY <1>1, <1>2, <1>3 DEF PInv, DeliveryTypeOK
    <2>2. QED
      BY <1>0, <2>1 DEF PInv, DeliveryTypeOK, Job
  <1>7. AttemptsLeft' /\ Jobs'
    <2>1. AttemptsLeft'
      BY <1>0, <1>1, <1>3, <1>4 DEF PInv, AttemptsLeft
    <2>2. Jobs'
      BY <1>0 DEF PInv, Jobs
    <2>3. QED
      BY <2>1, <2>2
  <1>8. SoleSender'
    <2> SUFFICES ASSUME overruns = 0, NEW v \in Workers, Live(v)'
                 PROVE  /\ mail'[job'[v].d] = "SENDING" /\ ~expired'[job'[v].d]
                        /\ \A u \in Workers : Live(u)' /\ job'[u].d = job'[v].d => u = v
      BY <1>0 DEF SoleSender
    <2>1. CASE v = w
      BY <1>0, <1>1, <1>3, <1>4, <1>5, <2>1 DEF PInv, DeliveryTypeOK
    <2>2. CASE v # w
      <3>1. Live(v) /\ job'[v] = job[v] /\ job[v].d # d
        BY <1>3, <1>4, <1>5, <2>2
      <3>2. mail'[job[v].d] = mail[job[v].d] /\ expired'[job[v].d] = expired[job[v].d]
        BY <1>0, <3>1 DEF PInv, DeliveryTypeOK
      <3>3. mail[job[v].d] = "SENDING" /\ ~expired[job[v].d]
        BY <3>1 DEF PInv, SoleSender
      <3>4. \A u \in Workers : Live(u)' /\ job'[u].d = job[v].d => u = v
        BY <1>1, <1>3, <1>4, <3>1 DEF PInv, SoleSender
      <3>5. QED
        BY <3>1, <3>2, <3>3, <3>4
    <2>3. QED
      BY <2>1, <2>2
  <1>9. Accounted'
    <2>1. \A e \in Deliveries : Known(e)' => Known(e)
      BY <1>0, <1>1, <1>2, <1>3 DEF PInv, DeliveryTypeOK, Known, Reported
    <2>2. \A e \in Deliveries : Known(e) => Known(e)'
      BY <1>0, <1>1, <1>2, <1>3 DEF PInv, DeliveryTypeOK, Known, Reported
    <2>3. QED
      BY <1>0, <2>1, <2>2 DEF PInv, Accounted
  <1>10. QED
    BY <1>6, <1>7, <1>8, <1>9 DEF PInv

\* The recipient reads the in-app row.
LEMMA MarkReadPInv ==
  ASSUME NEW d \in Deliveries, PInv, MarkRead(d)
  PROVE  PInv'
  <1> USE DEF MarkRead, row, history
  <1>1. DeliveryTypeOK'
    BY DEF PInv, DeliveryTypeOK, Job
  <1>2. AttemptsLeft' /\ Jobs'
    BY DEF PInv, AttemptsLeft, Live, Jobs
  <1>3. SoleSender'
    BY DEF PInv, SoleSender, Live
  <1>4. Accounted'
    BY DEF PInv, Accounted, Known, Reported
  <1>5. QED
    BY <1>1, <1>2, <1>3, <1>4 DEF PInv

\* The backoff of a failed delivery elapses.
LEMMA MailDuePInv ==
  ASSUME NEW d \in Deliveries, PInv, MailDue(d)
  PROVE  PInv'
  <1> USE DEF MailDue, history
  <1>1. DeliveryTypeOK'
    BY DEF PInv, DeliveryTypeOK, Job
  <1>2. AttemptsLeft' /\ Jobs'
    BY DEF PInv, AttemptsLeft, Live, Jobs
  <1>3. SoleSender'
    BY DEF PInv, SoleSender, Live
  <1>4. Accounted'
    BY DEF PInv, Accounted, Known, Reported
  <1>5. QED
    BY <1>1, <1>2, <1>3, <1>4 DEF PInv

\* A lease that expires under its live sender is counted, and any other one is
\* nobody's.
LEMMA LeaseExpiresPInv ==
  ASSUME NEW d \in Deliveries, PInv, LeaseExpires(d)
  PROVE  PInv'
  <1>0. /\ expired' = [expired EXCEPT ![d] = TRUE]
        /\ overruns' = IF Sending(d) THEN overruns + 1 ELSE overruns
        /\ UNCHANGED <<mail, count, final, due, attempts, inbox, step, job, accepted, doubt, load>>
    BY DEF LeaseExpires
  <1>1. overruns \in Nat /\ overruns' \in Nat /\ (overruns' = 0 => overruns = 0 /\ ~Sending(d))
    BY <1>0 DEF PInv, DeliveryTypeOK
  <1>2. DeliveryTypeOK'
    BY <1>0, <1>1 DEF PInv, DeliveryTypeOK, Job
  <1>3. AttemptsLeft' /\ Jobs'
    BY <1>0 DEF PInv, AttemptsLeft, Live, Jobs
  <1>4. SoleSender'
    <2> SUFFICES ASSUME overruns' = 0, NEW v \in Workers, Live(v)
                 PROVE  /\ mail[job[v].d] = "SENDING" /\ ~expired'[job[v].d]
                        /\ \A u \in Workers : Live(u) /\ job[u].d = job[v].d => u = v
      BY <1>0 DEF SoleSender, Live
    <2>1. job[v].d # d
      BY <1>1 DEF Sending, Live
    <2>2. expired'[job[v].d] = expired[job[v].d]
      BY <1>0, <2>1 DEF PInv, DeliveryTypeOK
    <2>3. QED
      BY <1>1, <2>2 DEF PInv, SoleSender
  <1>5. Accounted'
    BY <1>0, <1>1 DEF PInv, Accounted, Known, Reported
  <1>6. QED
    BY <1>2, <1>3, <1>4, <1>5 DEF PInv

\* The server takes the message, or does not, and the worker sees the one or
\* the other.
LEMMA SendPInv ==
  ASSUME NEW w \in Workers, NEW outcome \in Outcomes, NEW taken \in BOOLEAN, PInv,
         Send(w, outcome, taken)
  PROVE  PInv'
  <1> DEFINE d == job[w].d
             lost == taken /\ outcome # "DELIVERED"
  <1>0. /\ step[w] = "sending" /\ (outcome = "DELIVERED" => taken)
        /\ step' = [step EXCEPT ![w] = "finishing"]
        /\ job' = [job EXCEPT ![w].outcome = outcome]
        /\ accepted' = [accepted EXCEPT ![d] = Tally(accepted[d], taken)]
        /\ doubt' = [doubt EXCEPT ![d] = Tally(doubt[d], lost)]
        /\ UNCHANGED <<mail, count, final, due, expired, attempts, inbox, overruns, load>>
    BY DEF Send, row
  <1>1. job[w] \in Job /\ d \in Deliveries /\ Live(w)
    BY <1>0 DEF PInv, DeliveryTypeOK, Job, Live
  <1>2. \A v \in Workers : step'[v] = IF v = w THEN "finishing" ELSE step[v]
    BY <1>0 DEF PInv, DeliveryTypeOK
  <1>3. /\ job'[w] \in Job /\ job'[w].d = d
        /\ job'[w].snap = job[w].snap /\ job'[w].outcome = outcome
    <2>1. job'[w] = [job[w] EXCEPT !.outcome = outcome]
      BY <1>0 DEF PInv, Jobs
    <2>2. QED
      BY <1>1, <2>1 DEF Job
  <1>4. \A v \in Workers : v # w => job'[v] = job[v]
    BY <1>0 DEF PInv, Jobs
  <1>5. \A v \in Workers : Live(v)' <=> Live(v)
    BY <1>1, <1>2 DEF Live
  <1>6. \A v \in Workers : job'[v].d = job[v].d /\ job'[v].snap = job[v].snap
    BY <1>3, <1>4
  <1>7. lost \in BOOLEAN
    OBVIOUS
  <1> HIDE DEF d, lost
  <1>8. /\ Tally(accepted[d], taken) \in 0 .. MaxHistory
        /\ Tally(doubt[d], lost) \in 0 .. MaxHistory
    BY <1>1, <1>7, TallyBounds DEF PInv, DeliveryTypeOK
  <1>9. DeliveryTypeOK'
    <2>1. \A v \in Workers : step'[v] \in {"sending", "finishing"} => job'[v] \in Job
      BY <1>2, <1>3, <1>4 DEF PInv, DeliveryTypeOK
    <2>2. QED
      BY <1>0, <1>8, <2>1 DEF PInv, DeliveryTypeOK, Job
  <1>10. AttemptsLeft' /\ Jobs'
    <2>1. AttemptsLeft'
      BY <1>0, <1>5, <1>6 DEF PInv, AttemptsLeft
    <2>2. Jobs'
      BY <1>0 DEF PInv, Jobs
    <2>3. QED
      BY <2>1, <2>2
  <1>11. SoleSender'
    BY <1>0, <1>5, <1>6 DEF PInv, SoleSender
  <1>12. Accounted'
    <2> SUFFICES ASSUME overruns = 0, NEW e \in Deliveries
                 PROVE  /\ accepted'[e] <= doubt'[e] + 1
                        /\ ~Known(e)' => accepted'[e] <= doubt'[e]
      BY <1>0 DEF Accounted
    <2>1. CASE e # d
      <3>1. accepted'[e] = accepted[e] /\ doubt'[e] = doubt[e]
        BY <1>0, <2>1 DEF PInv, DeliveryTypeOK
      <3>2. Known(e) => Known(e)'
        BY <1>0, <1>2, <1>4, <1>6 DEF Known, Reported, d
      <3>3. QED
        BY <3>1, <3>2 DEF PInv, Accounted
    <2>2. CASE e = d
      <3>1. ~Known(d)
        BY <1>0, <1>1 DEF PInv, SoleSender, Known, Reported, Live, d
      <3>2. accepted[d] <= doubt[d] /\ accepted[d] \in 0 .. MaxHistory /\ doubt[d] \in 0 .. MaxHistory
        BY <1>1, <3>1 DEF PInv, Accounted, DeliveryTypeOK
      <3>3. accepted'[d] = Tally(accepted[d], taken) /\ doubt'[d] = Tally(doubt[d], lost)
        BY <1>0, <1>1 DEF PInv, DeliveryTypeOK
      <3>4. outcome = "DELIVERED" => Known(e)'
        BY <1>2, <1>3, <2>2 DEF Known, Reported
      <3>5. accepted'[d] <= doubt'[d] + 1
        BY <3>2, <3>3, DeliveryLimitsAssumption DEF Tally
      <3>6. outcome # "DELIVERED" => lost = taken
        BY DEF lost
      <3>7. lost = taken => accepted'[d] <= doubt'[d]
        BY <3>2, <3>3, DeliveryLimitsAssumption DEF Tally
      <3>8. QED
        BY <2>2, <3>4, <3>5, <3>6, <3>7
    <2>3. QED
      BY <2>1, <2>2
  <1>13. QED
    BY <1>9, <1>10, <1>11, <1>12 DEF PInv

\* An outcome is recorded: one attempt more, and the row settled if it is still
\* in flight.
LEMMA FinishPInv ==
  ASSUME NEW w \in Workers, PInv, Finish(w)
  PROVE  PInv'
  <1> DEFINE d == job[w].d
             n == job[w].snap + 1
             o == job[w].outcome
             s == IF o = "DELIVERED" THEN o ELSE "FAILED"
  <1>0. /\ step[w] = "finishing"
        /\ attempts' = Append(attempts, d, n, o)
        /\ \/ /\ Settles(d)
              /\ mail' = [mail EXCEPT ![d] = s]
              /\ count' = [count EXCEPT ![d] = n]
              /\ final' = [final EXCEPT ![d] = Final(n, o)]
              /\ due' = [due EXCEPT ![d] = FALSE]
              /\ expired' = [expired EXCEPT ![d] = FALSE]
           \/ ~Settles(d) /\ UNCHANGED <<mail, count, final, due, expired>>
        /\ step' = [step EXCEPT ![w] = "away"]
        /\ job' = [job EXCEPT ![w] = <<>>]
        /\ UNCHANGED <<inbox, accepted, doubt, overruns, load>>
    BY DEF Finish, row, history
  <1>1. /\ job[w] \in Job /\ d \in Deliveries /\ Live(w) /\ o \in Outcomes
        /\ job[w].snap \in Nat /\ job[w].snap < MaxAttempts
    BY <1>0 DEF PInv, DeliveryTypeOK, Job, Live, AttemptsLeft
  <1>2. n \in 1 .. MaxAttempts
    BY <1>1, LimitsAssumption
  <1>3. s \in {"DELIVERED", "FAILED"} /\ (s = "DELIVERED" <=> o = "DELIVERED")
    OBVIOUS
  <1>4. Final(n, o) \in BOOLEAN /\ (~Final(n, o) => n < MaxAttempts)
    BY <1>2, LimitsAssumption DEF Final
  <1>5. \A v \in Workers : step'[v] = IF v = w THEN "away" ELSE step[v]
    BY <1>0 DEF PInv, DeliveryTypeOK
  <1>6. \A v \in Workers : v # w => job'[v] = job[v]
    BY <1>0 DEF PInv, Jobs
  <1>7. \A v \in Workers : Live(v)' <=> Live(v) /\ v # w
    BY <1>5 DEF Live
  <1> HIDE DEF d, n, o, s
  <1>8. /\ \A e \in Deliveries : e # d =>
             mail'[e] = mail[e] /\ count'[e] = count[e] /\ final'[e] = final[e] /\ expired'[e] = expired[e]
        /\ mail[d] = "SENDING" => mail'[d] = s
        /\ mail[d] # "SENDING" => mail'[d] = mail[d]
        /\ \/ final'[d] = final[d] /\ count'[d] = count[d]
           \/ final'[d] = Final(n, o) /\ count'[d] = n
    <2>1. CASE Settles(d)
      BY <1>0, <1>1, <2>1 DEF PInv, DeliveryTypeOK, Settles
    <2>2. CASE ~Settles(d)
      <3>1. UNCHANGED <<mail, count, final, due, expired>>
        BY <1>0, <2>2
      <3>2. QED
        BY <2>2, <3>1 DEF Settles
    <2>3. QED
      BY <2>1, <2>2
  <1>9. DeliveryTypeOK'
    <2>1. \A v \in Workers : step'[v] \in {"sending", "finishing"} => job'[v] \in Job
      BY <1>5, <1>6 DEF PInv, DeliveryTypeOK
    <2>2. attempts' \subseteq Deliveries \X (1 .. MaxAttempts) \X Outcomes
      <3>1. attempts' \subseteq attempts \cup {<<d, n, o>>}
        BY <1>0 DEF Append
      <3>2. attempts \subseteq Deliveries \X (1 .. MaxAttempts) \X Outcomes
        BY DEF PInv, DeliveryTypeOK
      <3>3. QED
        BY <1>1, <1>2, <3>1, <3>2
    <2>3. /\ mail' \in [Deliveries -> {"ABSENT", "PENDING", "SENDING", "DELIVERED", "FAILED"}]
          /\ count' \in [Deliveries -> 0 .. MaxAttempts]
          /\ final' \in [Deliveries -> BOOLEAN]
          /\ due' \in [Deliveries -> BOOLEAN]
          /\ expired' \in [Deliveries -> BOOLEAN]
      <3>1. n \in 0 .. MaxAttempts
        BY <1>2
      <3>2. CASE Settles(d)
        <4>1. /\ mail' = [mail EXCEPT ![d] = s] /\ count' = [count EXCEPT ![d] = n]
              /\ final' = [final EXCEPT ![d] = Final(n, o)]
              /\ due' = [due EXCEPT ![d] = FALSE] /\ expired' = [expired EXCEPT ![d] = FALSE]
          BY <1>0, <3>2
        <4>2. QED
          BY <1>3, <1>4, <3>1, <4>1 DEF PInv, DeliveryTypeOK
      <3>3. CASE ~Settles(d)
        BY <1>0, <3>3 DEF PInv, DeliveryTypeOK
      <3>4. QED
        BY <3>2, <3>3
    <2>4. step' \in [Workers -> {"away", "claim", "sending", "finishing"}]
      BY <1>0 DEF PInv, DeliveryTypeOK
    <2>5. QED
      BY <1>0, <2>1, <2>2, <2>3, <2>4 DEF PInv, DeliveryTypeOK
  <1>10. AttemptsLeft' /\ Jobs'
    <2>1. \A e \in Deliveries : ~final'[e] => count'[e] < MaxAttempts
      BY <1>4, <1>8 DEF PInv, AttemptsLeft
    <2>2. \A v \in Workers : Live(v)' => job'[v].snap < MaxAttempts
      BY <1>6, <1>7 DEF PInv, AttemptsLeft
    <2>3. Jobs'
      BY <1>0 DEF PInv, Jobs
    <2>4. QED
      BY <2>1, <2>2, <2>3 DEF AttemptsLeft
  <1>11. SoleSender'
    <2> SUFFICES ASSUME overruns = 0, NEW v \in Workers, Live(v), v # w
                 PROVE  /\ mail'[job[v].d] = "SENDING" /\ ~expired'[job[v].d]
                        /\ \A u \in Workers : Live(u) /\ u # w /\ job[u].d = job[v].d => u = v
      BY <1>0, <1>6, <1>7 DEF SoleSender
    <2>1. /\ mail[job[v].d] = "SENDING" /\ ~expired[job[v].d]
          /\ \A u \in Workers : Live(u) /\ job[u].d = job[v].d => u = v
      BY DEF PInv, SoleSender
    <2>2. job[v].d # d /\ job[v].d \in Deliveries
      BY <1>1, <2>1 DEF d, PInv, DeliveryTypeOK, Live, Job
    <2>3. QED
      BY <1>8, <2>1, <2>2
  <1>12. Accounted'
    <2> SUFFICES ASSUME overruns = 0, NEW e \in Deliveries
                 PROVE  Known(e) => Known(e)'
      BY <1>0 DEF Accounted, PInv
    <2> SUFFICES ASSUME Known(e) PROVE Known(e)'
      OBVIOUS
    <2>1. CASE mail[e] = "DELIVERED"
      BY <1>8, <2>1 DEF Known
    <2>2. ASSUME NEW v \in Workers, v # w, Reported(v, e) PROVE Known(e)'
      BY <1>5, <1>6, <2>2 DEF Known, Reported
    <2>3. CASE Reported(w, e)
      <3>1. e = d /\ s = "DELIVERED" /\ mail[d] = "SENDING"
        BY <1>1, <1>3, <2>3 DEF Reported, d, o, PInv, SoleSender
      <3>2. QED
        BY <1>8, <3>1 DEF Known
    <2>4. QED
      BY <2>1, <2>2, <2>3 DEF Known
  <1>13. QED
    BY <1>9, <1>10, <1>11, <1>12 DEF PInv

\* A process that dies after the server took its message leaves a doubt.
LEMMA DiePInv ==
  ASSUME NEW w \in Workers, PInv, Die(w)
  PROVE  PInv'
  <1>0. /\ doubt' = [d \in Deliveries |-> Tally(doubt[d], Reported(w, d))]
        /\ step' = [step EXCEPT ![w] = "away"]
        /\ job' = [job EXCEPT ![w] = <<>>]
        /\ UNCHANGED <<mail, count, final, due, expired, attempts, inbox, accepted, overruns, load>>
    BY DEF Die, Reported, row
  <1>1. \A v \in Workers : step'[v] = IF v = w THEN "away" ELSE step[v]
    BY <1>0 DEF PInv, DeliveryTypeOK
  <1>2. \A v \in Workers : v # w => job'[v] = job[v]
    BY <1>0 DEF PInv, Jobs
  <1>3. \A v \in Workers : Live(v)' <=> Live(v) /\ v # w
    BY <1>1 DEF Live
  <1>4. \A d \in Deliveries : Tally(doubt[d], Reported(w, d)) \in 0 .. MaxHistory
    <2> TAKE d \in Deliveries
    <2>1. doubt[d] \in 0 .. MaxHistory
      BY DEF PInv, DeliveryTypeOK
    <2>2. Reported(w, d) \in BOOLEAN
      BY DEF Reported
    <2>3. QED
      BY <2>1, <2>2, TallyBounds
  <1>5. DeliveryTypeOK'
    <2>1. \A v \in Workers : step'[v] \in {"sending", "finishing"} => job'[v] \in Job
      BY <1>1, <1>2 DEF PInv, DeliveryTypeOK
    <2>2. QED
      BY <1>0, <1>4, <2>1 DEF PInv, DeliveryTypeOK
  <1>6. AttemptsLeft' /\ Jobs'
    <2>1. AttemptsLeft'
      BY <1>0, <1>2, <1>3 DEF PInv, AttemptsLeft
    <2>2. Jobs'
      BY <1>0 DEF PInv, Jobs
    <2>3. QED
      BY <2>1, <2>2
  <1>7. SoleSender'
    BY <1>0, <1>2, <1>3 DEF PInv, SoleSender
  <1>8. Accounted'
    <2> SUFFICES ASSUME overruns = 0, NEW d \in Deliveries
                 PROVE  /\ accepted[d] <= doubt'[d] + 1
                        /\ ~Known(d)' => accepted[d] <= doubt'[d]
      BY <1>0 DEF Accounted
    <2>1. /\ accepted[d] \in 0 .. MaxHistory /\ doubt[d] \in 0 .. MaxHistory
          /\ doubt'[d] = Tally(doubt[d], Reported(w, d))
          /\ accepted[d] <= doubt[d] + 1 /\ (~Known(d) => accepted[d] <= doubt[d])
      BY <1>0 DEF PInv, DeliveryTypeOK, Accounted
    <2>2. CASE Reported(w, d)
      BY <2>1, <2>2, DeliveryLimitsAssumption DEF Tally
    <2>3. CASE ~Reported(w, d)
      <3>1. Known(d) => Known(d)'
        BY <1>0, <1>1, <1>2, <2>3 DEF Known, Reported
      <3>2. QED
        BY <2>1, <2>3, <3>1 DEF Tally
    <2>4. QED
      BY <2>2, <2>3
  <1>9. QED
    BY <1>5, <1>6, <1>7, <1>8 DEF PInv

\* Every step of the pipeline.
LEMMA PInvStep == PInv /\ [PipelineNext]_pipeline => PInv'
  <1> SUFFICES ASSUME PInv, [PipelineNext]_pipeline PROVE PInv'
    OBVIOUS
  <1>1. CASE UNCHANGED pipeline
    BY <1>1, StepUnlessDelivery DEF pipeline, delivery
  <1>2. ASSUME NEW e \in Events, Produce(e) \/ (BackoffElapses(e) /\ UNCHANGED delivery)
        PROVE  PInv'
    BY <1>2, StepUnlessDelivery DEF Produce, delivery
  <1>3. ASSUME NEW d \in Deliveries, MarkRead(d) \/ LeaseExpires(d) \/ MailDue(d)
        PROVE  PInv'
    BY <1>3, MarkReadPInv, LeaseExpiresPInv, MailDuePInv
  <1>4. ASSUME NEW w \in Workers, Iterate(w) PROVE PInv'
    <2>1. CASE Consume(w)
      BY <2>1, StepUnlessDelivery DEF Consume, delivery
    <2>2. CASE Plan(w)
      BY <2>2, PlanPInv
    <2>3. CASE step[w] = "away" /\ NothingToPlan(w)
      BY <2>3, NothingPInv DEF NothingToPlan, Live
    <2>4. CASE NothingToSend(w)
      BY <2>4, NothingPInv DEF NothingToSend, Live
    <2>5. CASE \E d \in Deliveries : Lease(w, d)
      BY <2>5, LeasePInv
    <2>6. CASE \E o \in Outcomes, taken \in BOOLEAN : Send(w, o, taken)
      BY <2>6, SendPInv
    <2>7. CASE Finish(w)
      BY <2>7, FinishPInv
    <2>8. QED
      BY <1>4, <2>1, <2>2, <2>3, <2>4, <2>5, <2>6, <2>7 DEF Iterate, Deliver
  <1>5. ASSUME NEW w \in Workers, Die(w) PROVE PInv'
    BY <1>5, DiePInv
  <1>6. QED
    BY <1>1, <1>2, <1>3, <1>4, <1>5 DEF PipelineNext

\* The delivery rows, leases and counters keep their types (at most
\* worker_max_attempts attempts are ever recorded of a delivery), and the
\* invariant above holds, in every behaviour.
THEOREM PipelineInvariant == PipelineSpec => []PInv
  BY InitPInv, PInvStep, PTL DEF PipelineSpec

\* What is accepted is known once, or in doubt.
LEMMA DuplicatesFromPInv == PInv => DuplicatesOnlyInDoubt
  BY DEF PInv, DeliveryTypeOK, Accounted, DuplicatesOnlyInDoubt

\* While no lease expires under a live sender (_claim_delivery, five minutes),
\* the SMTP server takes a delivery a second time only after an acceptance that
\* _finish_delivery never recorded.
THEOREM NoDuplicateWithoutDoubt == PipelineSpec => []DuplicatesOnlyInDoubt
  BY PipelineInvariant, DuplicatesFromPInv, PTL

=============================================================================
