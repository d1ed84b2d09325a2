-------------------------- MODULE AiRuntimeAndListProofs --------------------------
(***************************************************************************)
(* The gateway never records more than its budget and the other calls that *)
(* were under way with the last one it let in, and it implements the safety*)
(* part of AiContract: for any calls, policies, attempts and crashes.      *)
(*                                                                         *)
(* The order of a personal list is the one last asked for, and no change   *)
(* overwrites a row its sender did not know: for any lists, names and      *)
(* requests.  AiRuntime and PersonalLists share no names, so one module    *)
(* holds the proofs of both.                                               *)
(***************************************************************************)
EXTENDS AiRuntime, PersonalLists, FiniteSetTheorems, SequenceTheorems, WellFoundedInduction, TLAPS

-----------------------------------------------------------------------------
(* AiRuntime                                                               *)

CallState == [step : Steps, model : Models, attempt : 1 .. MaxAttempts]

\* start_run has committed before a call goes on, and the run stays RUNNING as
\* long as the call is live.
RunFits ==
    \A c \in Calls :
        /\ call[c].step = "idle" => run[c] = "NONE"
        /\ call[c].step \in Live => run[c] = "RUNNING"

\* Only a call that is over is metered.
Metering == \A c \in ledger : call[c].step = "done"

IInv == TypeOK /\ RunFits /\ Metering /\ SpendBounded

\* Call c goes to a step, alone.
Moves(c, s) ==
    /\ call' \in [Calls -> CallState]
    /\ call'[c].step = s
    /\ \A d \in Calls \ {c} : call'[d] = call[d]

\* The most specific policy exists, so its budget is a number.
LEMMA SelectedBudget == Enabled => Selected.budget \in Nat
  <1> SUFFICES ASSUME Enabled PROVE Selected \in Policies
    BY PoliciesAssumption
  <1>1. \A p \in Policies : p.rank \in {0, 1, 2, 3, 4}
    BY PoliciesAssumption
  <1>2. \E p \in Policies : \A q \in Policies : q.rank <= p.rank
    <2>1. CASE \E p \in Policies : p.rank = 4
      BY <1>1, <2>1
    <2>2. CASE (\E p \in Policies : p.rank = 3) /\ ~\E p \in Policies : p.rank > 3
      BY <1>1, <2>2
    <2>3. CASE (\E p \in Policies : p.rank = 2) /\ ~\E p \in Policies : p.rank > 2
      BY <1>1, <2>3
    <2>4. CASE (\E p \in Policies : p.rank = 1) /\ ~\E p \in Policies : p.rank > 1
      BY <1>1, <2>4
    <2>5. CASE ~\E p \in Policies : p.rank > 0
      BY <1>1, <2>5 DEF Enabled
    <2>6. QED
      BY <1>1, <2>1, <2>2, <2>3, <2>4, <2>5
  <1>3. QED
    BY <1>2 DEF Selected

-----------------------------------------------------------------------------
(* Moves                                                                   *)

LEMMA GoMoves ==
  ASSUME TypeOK, NEW c \in Calls, NEW s \in Steps, Go(c, s)
  PROVE  Moves(c, s)
  BY DEF TypeOK, Go, Moves, CallState

LEMMA GiveUpMoves ==
  ASSUME TypeOK, NEW c \in Calls, GiveUp(c)
  PROVE  \E s \in {"permit", "failing"} : Moves(c, s)
  <1>1. CASE call[c].model = "primary" /\ HasFallback
    BY <1>1, RuntimeAssumption DEF TypeOK, GiveUp, At, Moves, CallState, Steps, Models
  <1>2. CASE ~(call[c].model = "primary" /\ HasFallback)
    BY <1>2, GoMoves DEF GiveUp, Steps
  <1>3. QED
    BY <1>1, <1>2

LEMMA RetryMoves ==
  ASSUME TypeOK, NEW c \in Calls, Retry(c)
  PROVE  \E s \in {"permit", "failing"} : Moves(c, s)
  <1>1. CASE call[c].attempt < MaxAttempts
    <2>1. call[c].attempt + 1 \in 1 .. MaxAttempts
      BY <1>1, RuntimeAssumption DEF TypeOK
    <2>2. call' = [call EXCEPT ![c] = [call[c] EXCEPT !.step = "permit", !.attempt = @ + 1]]
      BY <1>1 DEF Retry, TypeOK
    <2> DEFINE x == [call[c] EXCEPT !.step = "permit", !.attempt = call[c].attempt + 1]
    <2>3. call \in [Calls -> CallState] /\ call' = [call EXCEPT ![c] = x]
      BY <2>2 DEF TypeOK, CallState
    <2>4. x \in CallState /\ x.step = "permit"
      BY <2>1, <2>3 DEF CallState, Steps
    <2> HIDE DEF x
    <2>5. Moves(c, "permit")
      BY <2>3, <2>4 DEF Moves
    <2>6. QED
      BY <2>5
  <1>2. CASE ~(call[c].attempt < MaxAttempts)
    BY <1>2, GiveUpMoves DEF Retry
  <1>3. QED
    BY <1>1, <1>2

LEMMA UnderWayMoves ==
  ASSUME NEW c \in Calls, NEW s \in Steps, Moves(c, s)
  PROVE  UnderWay' = IF s \in Live THEN UnderWay \cup {c} ELSE UnderWay \ {c}
  BY DEF Moves, UnderWay

LEMMA UnderWayFinite == IsFiniteSet(UnderWay) /\ Cardinality(UnderWay) \in Nat
  <1>1. UnderWay \in SUBSET Calls
    BY DEF UnderWay
  <1>2. QED
    BY <1>1, RuntimeAssumption, FS_Subset, FS_CardinalityType

LEMMA LedgerFinite ==
  ASSUME TypeOK
  PROVE  IsFiniteSet(ledger) /\ Cardinality(ledger) \in Nat
  <1>1. ledger \in SUBSET Calls
    BY DEF TypeOK
  <1>2. QED
    BY <1>1, RuntimeAssumption, FS_Subset, FS_CardinalityType

LEMMA PeakNumber == ASSUME TypeOK PROVE peak \in Nat
  BY RuntimeAssumption, FS_CardinalityType DEF TypeOK

-----------------------------------------------------------------------------
(* The invariant                                                           *)

LEMMA InitIInv == ASSUME Init PROVE IInv
  <1> USE DEF Init
  <1>1. TypeOK
    BY RuntimeAssumption, FS_CardinalityType
       DEF TypeOK, At, Steps, Models, Fresh
  <1>2. RunFits /\ Metering
    BY DEF RunFits, Metering, At, Live
  <1>3. UnderWay = {}
    BY DEF UnderWay, At, Live
  <1>4. SpendBounded
    BY <1>3, FS_EmptySet, SelectedBudget DEF SpendBounded, NoBudget
  <1>5. QED
    BY <1>1, <1>2, <1>4 DEF IInv

\* Fewer calls under way and nothing more metered keep the bound.
LEMMA FewerUnderWay ==
  ASSUME IInv, TypeOK', UnderWay' \subseteq UnderWay, UNCHANGED <<ledger, peak>>
  PROVE  SpendBounded'
  <1>1. Cardinality(UnderWay') <= Cardinality(UnderWay) /\ Cardinality(UnderWay') \in Nat
    BY UnderWayFinite, FS_Subset, FS_CardinalityType
  <1>2. SUFFICES ASSUME Enabled, Selected.budget # NoBudget
                 PROVE  Cardinality(ledger) + Cardinality(UnderWay') <= (Selected.budget - 1) + peak
    BY DEF SpendBounded, Enabled, Selected
  <1>3. /\ Cardinality(ledger) + Cardinality(UnderWay) <= (Selected.budget - 1) + peak
        /\ Selected.budget \in Nat /\ Cardinality(ledger) \in Nat /\ peak \in Nat
        /\ Cardinality(UnderWay) \in Nat
    BY <1>2, SelectedBudget, LedgerFinite, PeakNumber, UnderWayFinite DEF IInv, SpendBounded
  <1>4. QED
    BY <1>1, <1>3

\* A call that is not done moves without starting or completing.
LEMMA QuietIInv ==
  ASSUME IInv, NEW c \in Calls, NEW s \in Steps, Moves(c, s),
         call[c].step # "done", s # "idle",
         s \in Live => call[c].step \in Live /\ run'[c] = run[c],
         run' \in [Calls -> {"NONE", "RUNNING", "COMPLETED", "FAILED", "CANCELLED"}],
         \A d \in Calls \ {c} : run'[d] = run[d],
         circuit' \in [Models -> [failures : Nat, open : BOOLEAN, recovered : BOOLEAN]],
         charged' \subseteq Calls, UNCHANGED <<ledger, peak, crashes>>
  PROVE  IInv'
  <1>1. TypeOK'
    BY DEF IInv, TypeOK, Moves, CallState
  <1>2. RunFits'
    BY DEF IInv, RunFits, Moves, Steps, Live
  <1>3. Metering'
    BY DEF IInv, Metering, Moves, TypeOK
  <1>4. UnderWay' \subseteq UnderWay
    BY UnderWayMoves DEF UnderWay
  <1>5. SpendBounded'
    BY <1>1, <1>4, FewerUnderWay
  <1>6. QED
    BY <1>1, <1>2, <1>3, <1>5 DEF IInv

\* The hard stop lets a call in only below the budget, so it and the calls
\* then under way are the most there can be of what is not yet recorded.
LEMMA StartCallIInv ==
  ASSUME IInv, NEW c \in Calls, StartCall(c)
  PROVE  IInv'
  <1>1. Moves(c, "permit")
    BY GoMoves DEF IInv, StartCall, Steps
  <1>2. UnderWay' = UnderWay \cup {c} /\ c \notin UnderWay
    BY <1>1, UnderWayMoves DEF StartCall, UnderWay, Live, Steps
  <1>3. /\ Cardinality(UnderWay') = Cardinality(UnderWay) + 1
        /\ Cardinality(UnderWay') <= Cardinality(Calls)
    <2>1. UnderWay' \in SUBSET Calls
      BY DEF UnderWay
    <2>2. QED
      BY <1>2, <2>1, UnderWayFinite, FS_AddElement, FS_Subset, RuntimeAssumption
  <1>4. /\ Cardinality(UnderWay) \in Nat /\ peak \in Nat /\ Cardinality(Calls) \in Nat
        /\ Cardinality(ledger) \in Nat
    BY UnderWayFinite, PeakNumber, LedgerFinite, RuntimeAssumption, FS_CardinalityType DEF IInv
  <1>5. peak' \in 0 .. Cardinality(Calls) /\ Cardinality(UnderWay') <= peak'
    BY <1>3, <1>4 DEF IInv, TypeOK, StartCall
  <1>6. TypeOK'
    BY <1>1, <1>5 DEF IInv, TypeOK, Moves, CallState, StartCall
  <1>7. RunFits'
    BY <1>1 DEF IInv, TypeOK, RunFits, Moves, StartCall, Live
  <1>8. Metering'
    BY <1>1 DEF IInv, TypeOK, Metering, Moves, StartCall
  <1>9. SpendBounded'
    <2>1. SUFFICES ASSUME Selected.budget # NoBudget
                   PROVE  Cardinality(ledger) + Cardinality(UnderWay')
                            <= (Selected.budget - 1) + peak'
      BY DEF SpendBounded, Enabled, Selected, StartCall
    <2>2. Selected.budget \in Nat
      BY SelectedBudget DEF StartCall
    <2>3. ~(Cardinality(ledger) >= Selected.budget)
      BY <2>1 DEF StartCall, HardStop
    <2>4. QED
      BY <1>3, <1>4, <1>5, <2>2, <2>3
  <1>10. QED
    BY <1>6, <1>7, <1>8, <1>9 DEF IInv

\* complete_run moves a call from under way to the ledger.
LEMMA CompleteRunIInv ==
  ASSUME IInv, NEW c \in Calls, CompleteRun(c)
  PROVE  IInv'
  <1>1. Moves(c, "done")
    BY GoMoves DEF IInv, CompleteRun, Steps
  <1>2. UnderWay' = UnderWay \ {c} /\ c \in UnderWay /\ c \notin ledger
    BY <1>1, UnderWayMoves DEF CompleteRun, UnderWay, Live, Steps, IInv, Metering
  <1>3. /\ Cardinality(UnderWay') = Cardinality(UnderWay) - 1
        /\ Cardinality(ledger') = Cardinality(ledger) + 1
    BY <1>2, UnderWayFinite, LedgerFinite, FS_AddElement, FS_RemoveElement
       DEF IInv, CompleteRun, Metered
  <1>4. TypeOK'
    BY <1>1 DEF IInv, TypeOK, Moves, CallState, CompleteRun, Metered
  <1>5. RunFits'
    BY <1>1 DEF IInv, TypeOK, RunFits, Moves, CompleteRun, Live
  <1>6. Metering'
    BY <1>1 DEF IInv, TypeOK, Metering, Moves, CompleteRun, Metered
  <1>7. SpendBounded'
    BY <1>3, UnderWayFinite, LedgerFinite
       DEF IInv, SpendBounded, Enabled, Selected, CompleteRun
  <1>8. QED
    BY <1>4, <1>5, <1>6, <1>7 DEF IInv

LEMMA CrashIInv ==
  ASSUME IInv, Crash
  PROVE  IInv'
  <1>1. \A c \in Calls :
          /\ call'[c] \in CallState
          /\ call'[c] = call[c] \/ (c \in UnderWay /\ call'[c].step = "stopped")
    BY DEF IInv, TypeOK, Crash, CallState, Steps
  <1>2. TypeOK'
    BY <1>1, RuntimeAssumption DEF IInv, TypeOK, Crash, CallState, Fresh
  <1>3. RunFits'
    BY <1>1 DEF IInv, RunFits, Crash, Live
  <1>4. Metering'
    BY <1>1 DEF IInv, TypeOK, Metering, UnderWay, Crash, Live
  <1>5. UnderWay' \subseteq UnderWay
    BY <1>1 DEF UnderWay
  <1>6. SpendBounded'
    BY <1>2, <1>5, FewerUnderWay DEF Crash
  <1>7. QED
    BY <1>2, <1>3, <1>4, <1>6 DEF IInv

-----------------------------------------------------------------------------
(* Every step                                                              *)

\* Where a step of the executor or of the end of a call takes it.
LEMMA PermitMoves ==
  ASSUME IInv, NEW c \in Calls, Permit(c)
  PROVE  /\ \E s \in {"permit", "waiting", "failing"} : Moves(c, s)
         /\ circuit' \in [Models -> [failures : Nat, open : BOOLEAN, recovered : BOOLEAN]]
  <1> DEFINE m == call[c].model
  <1>1. m \in Models
    BY DEF IInv, TypeOK
  <1>2. CASE circuit[m].open /\ ~circuit[m].recovered
    BY <1>2, GiveUpMoves DEF IInv, TypeOK, Permit
  <1>3. CASE ~(circuit[m].open /\ ~circuit[m].recovered)
    <2>1. Moves(c, "waiting")
      BY <1>3, GoMoves DEF IInv, Permit, Steps
    <2>2. circuit' \in [Models -> [failures : Nat, open : BOOLEAN, recovered : BOOLEAN]]
      <3>1. Fresh \in [failures : Nat, open : BOOLEAN, recovered : BOOLEAN]
        BY DEF Fresh
      <3>2. circuit' = [circuit EXCEPT ![m] = IF circuit[m].open THEN Fresh ELSE circuit[m]]
        BY <1>1, <1>3 DEF IInv, TypeOK, Permit, Recovered
      <3>3. QED
        BY <1>1, <3>1, <3>2 DEF IInv, TypeOK
    <2>3. QED
      BY <2>1, <2>2
  <1>4. QED
    BY <1>2, <1>3

LEMMA ProviderFailsMoves ==
  ASSUME IInv, NEW c \in Calls, NEW retryable \in BOOLEAN, ProviderFails(c, retryable)
  PROVE  /\ \E s \in {"permit", "failing"} : Moves(c, s)
         /\ circuit' \in [Models -> [failures : Nat, open : BOOLEAN, recovered : BOOLEAN]]
  <1>1. \E s \in {"permit", "failing"} : Moves(c, s)
    BY RetryMoves, GiveUpMoves DEF IInv, ProviderFails
  <1>2. AfterFailure(circuit[call[c].model])
          \in [failures : Nat, open : BOOLEAN, recovered : BOOLEAN]
    BY DEF IInv, TypeOK, AfterFailure
  <1>3. circuit' \in [Models -> [failures : Nat, open : BOOLEAN, recovered : BOOLEAN]]
    BY <1>2 DEF IInv, TypeOK, ProviderFails
  <1>4. QED
    BY <1>1, <1>3

LEMMA CallStepIInv ==
  ASSUME IInv, NEW c \in Calls, CallStep(c) \/ RefuseCall(c) \/ CancelCall(c)
  PROVE  IInv'
  <1>1. CASE Permit(c)
    BY <1>1, PermitMoves, QuietIInv DEF IInv, TypeOK, Permit, Steps, Live
  <1>2. CASE ProviderAnswers(c)
    <2>1. Moves(c, "answered")
      BY <1>2, GoMoves DEF IInv, ProviderAnswers, Steps
    <2>2. circuit' \in [Models -> [failures : Nat, open : BOOLEAN, recovered : BOOLEAN]]
      BY <1>2 DEF IInv, TypeOK, ProviderAnswers, Fresh
    <2>3. QED
      BY <1>2, <2>1, <2>2, QuietIInv DEF IInv, TypeOK, ProviderAnswers, Steps, Live
  <1>3. ASSUME NEW retryable \in BOOLEAN, ProviderFails(c, retryable) PROVE IInv'
    BY <1>3, ProviderFailsMoves, QuietIInv DEF IInv, TypeOK, ProviderFails, Steps, Live
  <1>4. CASE RejectAnswer(c)
    <2>1. Moves(c, "failing")
      BY <1>4, GoMoves DEF IInv, RejectAnswer, Steps
    <2>2. QED
      BY <1>4, <2>1, QuietIInv DEF IInv, TypeOK, RejectAnswer, Steps, Live
  <1>5. CASE FailRun(c)
    <2>1. Moves(c, "unavailable")
      BY <1>5, GoMoves DEF IInv, FailRun, Steps
    <2>2. QED
      BY <1>5, <2>1, QuietIInv DEF IInv, TypeOK, FailRun, Steps, Live
  <1>6. CASE CancelRun(c)
    <2>1. Moves(c, "stopped")
      BY <1>6, GoMoves DEF IInv, CancelRun, Steps
    <2>2. QED
      BY <1>6, <2>1, QuietIInv DEF IInv, TypeOK, CancelRun, Steps, Live
  <1>7. CASE RefuseCall(c)
    <2>1. Moves(c, "unavailable")
      BY <1>7, GoMoves DEF IInv, RefuseCall, Steps
    <2>2. QED
      BY <1>7, <2>1, QuietIInv DEF IInv, TypeOK, RefuseCall, Steps, Live
  <1>8. CASE CancelCall(c)
    <2>1. Moves(c, "cancelling") \/ Moves(c, "stopped")
      BY <1>8, GoMoves DEF IInv, CancelCall, Steps
    <2>2. QED
      BY <1>8, <2>1, QuietIInv DEF IInv, TypeOK, CancelCall, Steps, Live
  <1>9. QED
    BY <1>1, <1>2, <1>3, <1>4, <1>5, <1>6, <1>7, <1>8, CompleteRunIInv DEF CallStep

LEMMA NextIInv == ASSUME IInv, [Next]_vars PROVE IInv'
  <1>1. CASE UNCHANGED vars
    BY <1>1 DEF vars, IInv, TypeOK, RunFits, Metering, SpendBounded, UnderWay, Enabled, Selected
  <1>2. ASSUME NEW c \in Calls, StartCall(c) PROVE IInv'
    BY <1>2, StartCallIInv
  <1>3. ASSUME NEW c \in Calls, CallStep(c) \/ RefuseCall(c) \/ CancelCall(c) PROVE IInv'
    BY <1>3, CallStepIInv
  <1>4. ASSUME NEW m \in Models, CircuitRecovers(m) PROVE IInv'
    <2>1. TypeOK'
      BY <1>4 DEF IInv, TypeOK, CircuitRecovers
    <2>2. RunFits' /\ Metering' /\ SpendBounded'
      BY <1>4 DEF IInv, CircuitRecovers, RunFits, Metering, SpendBounded, UnderWay, Enabled,
                  Selected
    <2>3. QED
      BY <2>1, <2>2 DEF IInv
  <1>5. CASE Crash
    BY <1>5, CrashIInv
  <1>6. QED
    BY <1>1, <1>2, <1>3, <1>4, <1>5 DEF Next

LEMMA IInvHolds == Spec => []IInv
  BY InitIInv, NextIInv, PTL DEF Spec

\* effective_policy reads the ledger without reserving: however many calls pass
\* the hard stop together, what is recorded and what is under way stay within
\* the budget and the calls that were ever under way at once.
THEOREM SpendStaysBounded == Spec => []SpendBounded
  BY IInvHolds, PTL DEF IInv

-----------------------------------------------------------------------------
(* The contract                                                            *)

\* What a caller sees of a step.
Seen(s) == CASE s \in Live \ {"cancelling"} -> "calling"
             [] s = "done" -> "generated"
             [] s \in {"cancelling", "stopped"} -> "stopped"
             [] OTHER -> s

LEMMA StageSeen == stage = [c \in Calls |-> Seen(call[c].step)]
  BY DEF stage, Seen

LEMMA StageMoves ==
  ASSUME NEW c \in Calls, NEW s, Moves(c, s)
  PROVE  stage' = [stage EXCEPT ![c] = Seen(s)]
  <1>1. stage' = [d \in Calls |-> Seen(call'[d].step)]
    BY DEF stage, Seen
  <1>2. \A d \in Calls : call'[d].step = IF d = c THEN s ELSE call[d].step
    BY DEF Moves
  <1>3. QED
    BY <1>1, <1>2, StageSeen

\* A step between steps that a caller sees as "calling" is a stutter.
LEMMA QuietStage ==
  ASSUME NEW c \in Calls, NEW s \in Live \ {"cancelling"}, Moves(c, s),
         call[c].step \in Live \ {"cancelling"}, run' = run
  PROVE  UNCHANGED Contract!contract
  <1>1. stage[c] = "calling" /\ Seen(s) = "calling"
    BY StageSeen DEF Seen, Live
  <1>2. stage' = [stage EXCEPT ![c] = stage[c]]
    BY <1>1, StageMoves
  <1>3. stage' = stage
    BY <1>2, StageSeen
  <1>4. QED
    BY <1>3 DEF Contract!contract

LEMMA InitContract == ASSUME Init PROVE Contract!ContractInit
  BY StageSeen DEF Init, At, Seen, Live, Contract!ContractInit

\* A step that a caller sees, with what it makes of the run.
LEMMA CallStepContract ==
  ASSUME IInv, NEW c \in Calls, StartCall(c) \/ RefuseCall(c) \/ CallStep(c) \/ CancelCall(c)
  PROVE  Contract!ContractNext \/ UNCHANGED Contract!contract
  <1>0. /\ TypeOK /\ RunFits /\ run = [run EXCEPT ![c] = run[c]]
        /\ stage = [d \in Calls |-> Seen(call[d].step)]
    BY StageSeen DEF IInv, TypeOK
  <1>1. CASE StartCall(c)
    <2>1. Moves(c, "permit") /\ Seen("permit") = "calling"
      BY <1>0, <1>1, GoMoves DEF StartCall, Steps, Seen, Live
    <2>2. stage[c] = "idle"
      BY <1>0, <1>1 DEF StartCall, Seen, Live
    <2>3. Contract!Ask(c)
      BY <1>1, <2>1, <2>2, StageMoves DEF StartCall, Contract!Ask, Contract!Move
    <2>4. QED
      BY <2>3 DEF Contract!ContractNext
  <1>2. CASE RefuseCall(c)
    <2>1. Moves(c, "unavailable") /\ Seen("unavailable") = "unavailable"
      BY <1>0, <1>2, GoMoves DEF RefuseCall, Steps, Seen, Live
    <2>2. stage[c] = "idle" /\ run' = [run EXCEPT ![c] = "NONE"]
      BY <1>0, <1>2 DEF RefuseCall, Seen, Live, RunFits
    <2>3. Contract!Refuse(c)
      BY <2>1, <2>2, StageMoves DEF Contract!Refuse, Contract!Move
    <2>4. QED
      BY <2>3 DEF Contract!ContractNext
  <1>3. CASE Permit(c)
    <2>1. /\ call[c].step \in Live \ {"cancelling"} /\ run' = run
          /\ {"permit", "waiting", "failing"} \subseteq Live \ {"cancelling"}
      BY <1>3 DEF Permit, Live
    <2>2. QED
      BY <1>3, <2>1, PermitMoves, QuietStage
  <1>4. CASE ProviderAnswers(c)
    <2>1. /\ call[c].step \in Live \ {"cancelling"} /\ run' = run
          /\ "answered" \in Live \ {"cancelling"} /\ Moves(c, "answered")
      BY <1>0, <1>4, GoMoves DEF ProviderAnswers, Live, Steps
    <2>2. QED
      BY <2>1, QuietStage
  <1>5. ASSUME NEW retryable \in BOOLEAN, ProviderFails(c, retryable)
        PROVE  UNCHANGED Contract!contract
    <2>1. /\ call[c].step \in Live \ {"cancelling"} /\ run' = run
          /\ {"permit", "failing"} \subseteq Live \ {"cancelling"}
      BY <1>5 DEF ProviderFails, Live
    <2>2. QED
      BY <1>5, <2>1, ProviderFailsMoves, QuietStage
  <1>6. CASE RejectAnswer(c)
    <2>1. /\ call[c].step \in Live \ {"cancelling"} /\ run' = run
          /\ "failing" \in Live \ {"cancelling"} /\ Moves(c, "failing")
      BY <1>0, <1>6, GoMoves DEF RejectAnswer, Live, Steps
    <2>2. QED
      BY <2>1, QuietStage
  <1>7. CASE CompleteRun(c)
    <2>1. Moves(c, "done") /\ Seen("done") = "generated"
      BY <1>0, <1>7, GoMoves DEF CompleteRun, Steps, Seen, Live
    <2>2. stage[c] = "calling"
      BY <1>0, <1>7 DEF CompleteRun, Seen, Live
    <2>3. Contract!Generate(c)
      BY <1>7, <2>1, <2>2, StageMoves DEF CompleteRun, Contract!Generate, Contract!Move
    <2>4. QED
      BY <2>3 DEF Contract!ContractNext
  <1>8. CASE FailRun(c)
    <2>1. Moves(c, "unavailable") /\ Seen("unavailable") = "unavailable"
      BY <1>0, <1>8, GoMoves DEF FailRun, Steps, Seen, Live
    <2>2. stage[c] = "calling"
      BY <1>0, <1>8 DEF FailRun, Seen, Live
    <2>3. Contract!Fail(c)
      BY <1>8, <2>1, <2>2, StageMoves DEF FailRun, Contract!Fail, Contract!Move
    <2>4. QED
      BY <2>3 DEF Contract!ContractNext
  <1>9. CASE CancelRun(c)
    <2>1. Moves(c, "stopped") /\ Seen("stopped") = "stopped"
      BY <1>0, <1>9, GoMoves DEF CancelRun, Steps, Seen, Live
    <2>2. stage[c] = "stopped" /\ run[c] = "RUNNING"
      BY <1>0, <1>9 DEF CancelRun, Seen, Live, RunFits
    <2>3. Contract!RecordStop(c)
      BY <1>9, <2>1, <2>2, StageMoves DEF CancelRun, Contract!RecordStop, Contract!Move
    <2>4. QED
      BY <2>3 DEF Contract!ContractNext
  <1>10. CASE CancelCall(c)
    <2>1. /\ Moves(c, "cancelling") \/ Moves(c, "stopped")
          /\ Seen("cancelling") = "stopped" /\ Seen("stopped") = "stopped"
      BY <1>0, <1>10, GoMoves DEF CancelCall, Steps, Seen, Live
    <2>2. stage[c] = "calling" /\ run' = [run EXCEPT ![c] = "RUNNING"]
      BY <1>0, <1>10 DEF CancelCall, Seen, Live, RunFits
    <2>3. Contract!Stop(c)
      BY <2>1, <2>2, StageMoves DEF Contract!Stop, Contract!Move
    <2>4. QED
      BY <2>3 DEF Contract!ContractNext
  <1>11. QED
    BY <1>1, <1>2, <1>3, <1>4, <1>5, <1>6, <1>7, <1>8, <1>9, <1>10 DEF CallStep

\* The death of the process stops what its callers see as calling.
LEMMA CrashContract ==
  ASSUME IInv, Crash
  PROVE  Contract!ContractNext
  <1> DEFINE C == {c \in Calls : call[c].step \in Live \ {"cancelling"}}
  <1>1. \A c \in C : stage[c] = "calling"
    BY StageSeen DEF Seen, Live
  <1>2. \A c \in Calls : call'[c].step = IF call[c].step \in Live THEN "stopped" ELSE call[c].step
    BY DEF IInv, TypeOK, Crash, UnderWay
  <1>3. \A c \in Calls : Seen(call'[c].step) = IF c \in C THEN "stopped" ELSE Seen(call[c].step)
    BY <1>2 DEF Seen, Live
  <1>4. stage' = [c \in Calls |-> Seen(call'[c].step)]
    BY DEF stage, Seen
  <1>5. stage' = [c \in Calls |-> IF c \in C THEN "stopped" ELSE stage[c]]
    BY <1>3, <1>4, StageSeen
  <1>6. Contract!StopAll(C) /\ C \in SUBSET Calls
    BY <1>1, <1>5 DEF Crash, Contract!StopAll
  <1>7. QED
    BY <1>6 DEF Contract!ContractNext

\* generate_with_run: no generation without a completed run, no "unavailable"
\* while the run is open, and nothing recorded twice, over retries, the fallback,
\* cancellations and crashes: the safety part of ImplementsContract.
THEOREM GatewayKeepsContract == Spec => Contract!ContractSpec
  <1>1. ASSUME IInv, [Next]_vars PROVE [Contract!ContractNext]_(Contract!contract)
    <2>1. CASE UNCHANGED vars
      BY <2>1 DEF vars, Contract!contract, stage
    <2>2. ASSUME NEW m \in Models, CircuitRecovers(m) PROVE UNCHANGED Contract!contract
      BY <2>2 DEF CircuitRecovers, Contract!contract, stage
    <2>3. QED
      BY <1>1, <2>1, <2>2, CallStepContract, CrashContract DEF Next
  <1>2. Init => Contract!ContractInit
    BY InitContract
  <1>3. QED
    BY <1>1, <1>2, IInvHolds, PTL DEF Spec, Contract!ContractSpec

-----------------------------------------------------------------------------
(* PersonalLists                                                           *)

Versions == Nat \ {0}
Creation == [op : {"create"}, name : Names, key : Keys]
Edit     == [op : {"update"}, id : Ids, version : Versions, name : Names]
Deletion == [op : {"delete"}, id : Ids, version : Versions]
Order    == {items \in Seq(Ids \X Versions) :
               \A m, n \in DOMAIN items : items[m][1] = items[n][1] => m = n}
Ordering == [op : {"reorder"}, items : Order]
Sent == Creation \cup Edit \cup Deletion \cup Ordering

RowsTyped ==
    /\ kind \in Kinds /\ shown \in BOOLEAN
    /\ rows \in [Ids -> RowType \cup {Absent}]
    /\ drawn \subseteq Ids /\ Listed \subseteq drawn /\ asked \in Seq(drawn)
    /\ keys = [k \in Keys |-> keys[k]]
    /\ \A k \in Keys : keys[k] # Unused => keys[k].id \in drawn /\ keys[k].name \in Names

\* A request is a record, whatever it has written.
IsReq(e) ==
    /\ e \in [step : ReqSteps, cmd : {e.cmd}, mine : {e.mine}, at : Nat]
    /\ e.step # "idle" => e.cmd \in Sent
    /\ e.mine \in [DOMAIN e.mine -> RowType \cup {Absent}]
    /\ e.step \notin {"write", "commit"} => e.mine = <<>>
    /\ e.step = "write" => e.at # 0
ReqTyped ==
    /\ req = [r \in Requests |-> req[r]]
    /\ \A r \in Requests : IsReq(req[r]) /\ DOMAIN req[r].mine \subseteq drawn

\* An id is left for every request that has not drawn one.
Drew == {r \in Requests : req[r].step \in {"commit", "done"}}
Room == Cardinality(drawn) <= Len(Initial) + Cardinality(Drew)

\* What a transaction has written is of rows that are as its command said.
Writes(r, i) ==
    LET c == req[r].cmd
        image == req[r].mine[i]
    IN  /\ c.op = "create" => /\ req[r].step = "commit" /\ rows[i] = Absent
                              /\ image \in RowType /\ i \notin Range(asked)
        /\ c.op = "update" => /\ i = c.id /\ Expected(i, c.version)
                              /\ image \in RowType /\ image.order = rows[i].order
        /\ c.op = "delete" => i = c.id /\ Expected(i, c.version) /\ image = Absent
        /\ c.op = "reorder" => \E n \in DOMAIN c.items :
             /\ n < req[r].at /\ i = c.items[n][1] /\ Expected(i, c.items[n][2])
             /\ image \in RowType /\ image.order = n - 1
Complies(r) == \A i \in DOMAIN req[r].mine : Writes(r, i)

Named(items) == {items[n][1] : n \in DOMAIN items}
Finished(r) ==
    req[r].step = "commit" =>
      /\ req[r].cmd.op = "create" => DOMAIN req[r].mine # {}
      /\ req[r].cmd.op = "reorder" => DOMAIN req[r].mine = Named(req[r].cmd.items)

\* The row locks.
Exclusive ==
    \A r, q \in Requests : r # q => DOMAIN req[r].mine \cap DOMAIN req[q].mine = {}

ListsIInv ==
    /\ RowsTyped /\ ReqTyped /\ Room
    /\ \A r \in Requests : Complies(r) /\ Finished(r)
    /\ Exclusive /\ OrderKept

-----------------------------------------------------------------------------
(* Numbers                                                                 *)

LEMMA Least ==
  ASSUME NEW S \in SUBSET Nat, S # {}
  PROVE  Min(S) \in S /\ \A x \in S : Min(S) <= x
  <1>1. IsWellFoundedOn(OpToRel(<, Nat), Nat)
    BY NatLessThanWellFounded
  <1>2. PICK x \in S : \A y \in S : ~ (<<y, x>> \in OpToRel(<, Nat))
    BY <1>1, WFMin
  <1>3. \A y \in S : ~ (y < x)
    BY <1>2 DEF OpToRel
  <1>4. \A y \in S : x <= y
    BY <1>3
  <1>5. \E m \in S : \A y \in S : m <= y
    BY <1>4
  <1>6. QED
    BY <1>5 DEF Min

\* A finite set of numbers has a bound: else a prefix of its enumeration that is
\* shortest among those without one would be none.
LEMMA Bounded ==
  ASSUME NEW S \in SUBSET Nat, IsFiniteSet(S)
  PROVE  \E b \in Nat : \A x \in S : x <= b
  <1>1. PICK n \in Nat : ExistsBijection(1..n, S)
    BY FS_NatBijection
  <1>2. PICK f \in [1..n -> S] : \A x \in S : \E k \in 1..n : f[k] = x
    BY <1>1 DEF ExistsBijection, Bijection, Surjection
  <1>3. \A k \in 1..n : f[k] \in Nat
    BY <1>2
  <1> DEFINE Bound(m, b) == \A k \in 1..m : f[k] <= b
             Unbounded == {m \in Nat : m <= n /\ ~ \E b \in Nat : Bound(m, b)}
  <1>4. ASSUME NEW m \in Nat, m + 1 <= n, \E b \in Nat : Bound(m, b)
        PROVE  \E b \in Nat : Bound(m + 1, b)
    <2>1. PICK b \in Nat : Bound(m, b)
      BY <1>4
    <2>2. f[m + 1] \in Nat
      BY <1>3, <1>4
    <2>3. CASE f[m + 1] <= b
      <3>1. Bound(m + 1, b)
        BY <2>1, <2>3
      <3>2. QED
        BY <3>1
    <2>4. CASE f[m + 1] > b
      <3>1. ASSUME NEW k \in 1..(m + 1)
            PROVE  f[k] <= f[m + 1]
        <4>1. k = m + 1 \/ (k \in 1..m /\ f[k] <= b /\ f[k] \in Nat)
          BY <1>3, <1>4, <2>1
        <4>2. QED
          BY <2>2, <2>4, <4>1
      <3>2. QED
        BY <2>2, <3>1
    <2>5. QED
      BY <2>2, <2>3, <2>4
  <1>5. \E b \in Nat : Bound(0, b)
    OBVIOUS
  <1>6. Unbounded = {}
    <2>1. SUFFICES ASSUME Unbounded # {}
                   PROVE  FALSE
      OBVIOUS
    <2>2. PICK m \in Unbounded : \A x \in Unbounded : m <= x
      <3>1. Unbounded \in SUBSET Nat
        OBVIOUS
      <3> HIDE DEF Unbounded
      <3>2. QED
        BY <2>1, <3>1, Least
    <2>3. m \in Nat /\ m <= n /\ ~ \E b \in Nat : Bound(m, b)
      OBVIOUS
    <2> HIDE DEF Bound
    <2>4. m # 0
      BY <1>5, <2>3
    <2>5. m - 1 \in Nat /\ (m - 1) + 1 = m /\ m - 1 <= n /\ ~ (m <= m - 1)
      BY <2>3, <2>4
    <2>6. \E b \in Nat : Bound(m - 1, b)
      BY <2>2, <2>5
    <2>7. QED
      BY <1>4, <2>3, <2>5, <2>6
  <1>7. PICK b \in Nat : Bound(n, b)
    <2> HIDE DEF Bound
    <2>1. QED
      BY <1>6
  <1>8. QED
    BY <1>2, <1>7

LEMMA Greatest ==
  ASSUME NEW S \in SUBSET Nat, IsFiniteSet(S), S # {}
  PROVE  Max(S) \in S
  <1>1. PICK b \in Nat : \A x \in S : x <= b
    BY Bounded
  <1> DEFINE T == {t \in Nat : \E x \in S : t = b - x}
  <1>2. T # {}
    <2>1. PICK x \in S : TRUE
      OBVIOUS
    <2>2. b - x \in Nat
      BY <1>1
    <2>3. QED
      BY <2>1, <2>2
  <1>3. PICK t \in T : \A y \in T : t <= y
    <2>1. T \in SUBSET Nat
      OBVIOUS
    <2> HIDE DEF T
    <2>2. QED
      BY <1>2, <2>1, Least
  <1>4. PICK x \in S : t = b - x
    BY <1>3
  <1>5. ASSUME NEW y \in S
        PROVE  x >= y
    <2>1. b - y \in T
      BY <1>1
    <2>2. t <= b - y
      BY <1>3, <2>1
    <2>3. QED
      BY <1>4, <2>2
  <1>6. \E z \in S : \A y \in S : z >= y
    BY <1>5
  <1>7. QED
    BY <1>6 DEF Max

-----------------------------------------------------------------------------
(* Steps of one request                                                    *)

LEMMA Nothing ==
  DOMAIN <<>> = {} /\ <<>> \in [DOMAIN <<>> -> RowType \cup {Absent}]
  <1>1. <<>> \in Seq(RowType \cup {Absent}) /\ Len(<<>>) = 0
    OBVIOUS
  <1>2. <<>> \in [1..Len(<<>>) -> RowType \cup {Absent}] /\ DOMAIN <<>> = 1..Len(<<>>)
    BY <1>1
  <1>3. QED
    BY <1>1, <1>2

\* Only r moves.
OnlyMoves(r) ==
    /\ req' = [q \in Requests |-> req'[q]]
    /\ \A q \in Requests \ {r} : req'[q] = req[q]

LEMMA OthersComply ==
  ASSUME NEW q \in Requests, Complies(q), Finished(q), req'[q] = req[q],
         \A i \in DOMAIN req[q].mine : rows'[i] = rows[i],
         \A i \in DOMAIN req[q].mine : i \notin Range(asked) => i \notin Range(asked')
  PROVE  Complies(q)' /\ Finished(q)'
  <1>1. Finished(q)'
    BY DEF Finished, Named
  <1>2. ASSUME NEW i \in DOMAIN req[q].mine
        PROVE  Writes(q, i)'
    <2>1. Writes(q, i) /\ rows'[i] = rows[i] /\ (i \notin Range(asked) => i \notin Range(asked'))
      BY <1>2 DEF Complies
    <2>2. \A v : Expected(i, v) => Expected(i, v)'
      BY <2>1 DEF Expected, Listed
    <2>3. QED
      BY <2>1, <2>2 DEF Writes
  <1>3. QED
    BY <1>1, <1>2 DEF Complies

\* A step of r that commits nothing keeps the invariant if what it draws and writes fits.
LEMMA StepOf ==
  ASSUME ListsIInv, NEW r \in Requests, OnlyMoves(r), IsReq(req'[r]),
         UNCHANGED <<kind, rows, keys, shown, asked>>,
         drawn \subseteq drawn', drawn' \subseteq Ids, Room',
         DOMAIN req'[r].mine \subseteq drawn',
         \A q \in Requests \ {r} : DOMAIN req'[r].mine \cap DOMAIN req[q].mine = {},
         Complies(r)', Finished(r)'
  PROVE  ListsIInv'
  <1>1. /\ req' = [q \in Requests |-> req'[q]]
        /\ \A q \in Requests \ {r} : req'[q] = req[q]
    BY DEF OnlyMoves
  <1>2. RowsTyped'
    <2>1. Listed' = Listed
      BY DEF Listed
    <2>2. asked \in Seq(drawn')
      BY SeqMonotonic DEF ListsIInv, RowsTyped
    <2>3. QED
      BY <2>1, <2>2 DEF ListsIInv, RowsTyped
  <1>3. ReqTyped'
    BY <1>1 DEF ListsIInv, ReqTyped
  <1>4. \A q \in Requests : Complies(q)' /\ Finished(q)'
    <2>1. ASSUME NEW q \in Requests \ {r}
          PROVE  Complies(q)' /\ Finished(q)'
      <3>1. Complies(q) /\ Finished(q) /\ req'[q] = req[q]
        BY <1>1 DEF ListsIInv
      <3>2. QED
        BY <3>1, OthersComply
    <2>2. QED
      BY <2>1
  <1>5. Exclusive'
    BY <1>1 DEF ListsIInv, Exclusive
  <1>6. OrderKept'
    BY DEF ListsIInv, OrderKept, Listed
  <1>7. QED
    BY <1>2, <1>3, <1>4, <1>5, <1>6 DEF ListsIInv

LEMMA RoomKept ==
  ASSUME ListsIInv, NEW r \in Requests, OnlyMoves(r), drawn' = drawn,
         req[r].step \in {"commit", "done"} => req'[r].step \in {"commit", "done"}
  PROVE  Room'
  <1>1. \A q \in Requests \ {r} : req'[q] = req[q]
    BY DEF OnlyMoves
  <1>2. Drew \subseteq Drew' /\ Drew' \subseteq Requests
    BY <1>1 DEF Drew
  <1>3. IsFiniteSet(Drew')
    BY <1>2, FS_Subset, ListsAssumption
  <1>4. Cardinality(Drew) <= Cardinality(Drew') /\ Cardinality(Drew) \in Nat /\ Cardinality(Drew') \in Nat
    BY <1>2, <1>3, FS_Subset, FS_CardinalityType
  <1>5. IsFiniteSet(drawn) /\ Cardinality(drawn) \in Nat /\ Len(Initial) \in Nat
    BY FS_Subset, FS_CardinalityType, ListsAssumption DEF ListsIInv, RowsTyped
  <1>6. QED
    BY <1>4, <1>5 DEF ListsIInv, Room

\* A transaction that ends holds nothing.
LEMMA EndsMoves ==
  ASSUME ListsIInv, NEW r \in Requests, Ends(r)
  PROVE  /\ OnlyMoves(r)
         /\ req'[r] \in [step : {"done"}, cmd : {req[r].cmd}, mine : {<<>>}, at : {0}]
  <1>1. req = [q \in Requests |-> req[q]]
    BY DEF ListsIInv, ReqTyped
  <1>2. req[r] \in [step : ReqSteps, cmd : {req[r].cmd}, mine : {req[r].mine}, at : Nat]
    BY DEF ListsIInv, ReqTyped, IsReq
  <1>3. /\ req' = [q \in Requests |-> req'[q]]
        /\ req'[r] = [[[req[r] EXCEPT !.step = "done"] EXCEPT !.mine = <<>>] EXCEPT !.at = 0]
        /\ \A q \in Requests \ {r} : req'[q] = req[q]
    BY <1>1 DEF Ends
  <1>4. req'[r] \in [step : {"done"}, cmd : {req[r].cmd}, mine : {<<>>}, at : {0}]
    BY <1>2, <1>3
  <1>5. QED
    BY <1>3, <1>4 DEF OnlyMoves

\* A step of r that draws nothing and holds nothing.
LEMMA QuietStep ==
  ASSUME ListsIInv, NEW r \in Requests, OnlyMoves(r), IsReq(req'[r]),
         UNCHANGED <<kind, rows, drawn, keys, shown, asked>>, req'[r].mine = <<>>,
         req[r].step \in {"commit", "done"} => req'[r].step \in {"commit", "done"},
         req'[r].step # "commit"
  PROVE  ListsIInv'
  <1>1. DOMAIN req'[r].mine = {}
    OBVIOUS
  <1>2. Complies(r)' /\ Finished(r)'
    BY <1>1 DEF Complies, Finished
  <1>3. Room'
    BY RoomKept
  <1>4. drawn \subseteq drawn' /\ drawn' \subseteq Ids /\ DOMAIN req'[r].mine \subseteq drawn'
    BY <1>1 DEF ListsIInv, RowsTyped
  <1>5. \A q \in Requests \ {r} : DOMAIN req'[r].mine \cap DOMAIN req[q].mine = {}
    BY <1>1
  <1>6. QED
    BY <1>2, <1>3, <1>4, <1>5, StepOf

LEMMA AskStep ==
  ASSUME ListsIInv, NEW r \in Requests, Ask(r)
  PROVE  ListsIInv'
  <1>1. req = [q \in Requests |-> req[q]] /\ IsReq(req[r]) /\ RowsTyped
    BY DEF ListsIInv, ReqTyped
  <1>2. PICK c \in Commands : req' = [req EXCEPT ![r].step = "asked", ![r].cmd = c]
    BY DEF Ask
  <1>3. c \in Sent
    <2>1. Listed \subseteq Ids /\ \A i \in Listed : rows[i].version \in Versions
      BY <1>1 DEF RowsTyped, Listed, RowType, Versions
    <2>2. CASE c \in [op : {"create"}, name : Names, key : Keys]
      BY <2>2 DEF Sent, Creation
    <2>3. CASE \E i \in Listed : c \in [op : {"update"}, id : {i}, version : {rows[i].version},
                                        name : Names]
      BY <2>1, <2>3 DEF Sent, Edit
    <2>4. CASE \E i \in Listed : c = [op |-> "delete", id |-> i, version |-> rows[i].version]
      BY <2>1, <2>4 DEF Sent, Deletion
    <2>5. ASSUME NEW s \in Injection(1..Cardinality(Listed), Listed),
                 c = [op |-> "reorder", items |-> [n \in DOMAIN s |-> <<s[n], rows[s[n]].version>>]]
          PROVE  c \in Sent
      <3> DEFINE items == [n \in DOMAIN s |-> <<s[n], rows[s[n]].version>>]
      <3>1. /\ s \in [1..Cardinality(Listed) -> Listed]
            /\ \A m, n \in DOMAIN s : s[m] = s[n] => m = n
        BY <2>5 DEF Injection, IsInjective
      <3>2. IsFiniteSet(Listed) /\ Cardinality(Listed) \in Nat
        BY <2>1, FS_Subset, FS_CardinalityType, ListsAssumption
      <3>3. items \in Seq(Ids \X Versions)
        BY <2>1, <3>1, <3>2
      <3>4. \A m, n \in DOMAIN items : items[m][1] = items[n][1] => m = n
        BY <3>1
      <3> HIDE DEF items
      <3>5. items \in Order
        BY <3>3, <3>4 DEF Order
      <3>6. c = [op |-> "reorder", items |-> items]
        BY <2>5 DEF items
      <3>7. QED
        BY <3>5, <3>6 DEF Sent, Ordering
    <2>6. QED
      BY <1>2, <2>2, <2>3, <2>4, <2>5 DEF Commands
  <1>4. /\ req' = [q \in Requests |-> req'[q]]
        /\ req'[r] = [[req[r] EXCEPT !.step = "asked"] EXCEPT !.cmd = c]
        /\ \A q \in Requests \ {r} : req'[q] = req[q]
    BY <1>1, <1>2
  <1>5. req[r].mine = <<>> /\ req[r].step = "idle"
    BY <1>1 DEF IsReq, Ask
  <1>6. req[r] \in [step : ReqSteps, cmd : {req[r].cmd}, mine : {<<>>}, at : Nat]
    BY <1>1, <1>5 DEF IsReq
  <1>7. req'[r] \in [step : {"asked"}, cmd : {c}, mine : {<<>>}, at : Nat]
    BY <1>4, <1>6
  <1>8. IsReq(req'[r])
    BY <1>3, <1>7, Nothing DEF IsReq, ReqSteps
  <1>9. QED
    BY <1>4, <1>5, <1>7, <1>8, QuietStep DEF Ask, OnlyMoves

LEMMA EndsStep ==
  ASSUME ListsIInv, NEW r \in Requests, Ends(r), req[r].step # "idle",
         UNCHANGED <<kind, rows, drawn, keys, shown, asked>>
  PROVE  ListsIInv'
  <1>1. /\ OnlyMoves(r)
        /\ req'[r] \in [step : {"done"}, cmd : {req[r].cmd}, mine : {<<>>}, at : {0}]
    BY EndsMoves
  <1>2. req[r].cmd \in Sent
    BY DEF ListsIInv, ReqTyped, IsReq
  <1>3. IsReq(req'[r])
    <2>1. /\ req'[r].step = "done" /\ req'[r].cmd = req[r].cmd /\ req'[r].mine = <<>>
          /\ req'[r] \in [step : ReqSteps, cmd : {req'[r].cmd}, mine : {req'[r].mine}, at : Nat]
      BY <1>1 DEF ReqSteps
    <2>2. QED
      BY <1>2, <2>1, Nothing DEF IsReq
  <1>4. QED
    BY <1>1, <1>3, QuietStep

LEMMA ProceedsStep ==
  ASSUME ListsIInv, NEW r \in Requests, Proceeds(r), req[r].step = "asked",
         UNCHANGED <<kind, rows, drawn, keys, shown, asked>>
  PROVE  ListsIInv'
  <1>1. IsReq(req[r])
    BY DEF ListsIInv, ReqTyped
  <1>2. req[r].mine = <<>>
    BY <1>1 DEF IsReq
  <1>3. /\ OnlyMoves(r)
        /\ req'[r] \in [step : {"write"}, cmd : {req[r].cmd}, mine : {<<>>}, at : {1}]
    <2>1. req = [q \in Requests |-> req[q]]
      BY DEF ListsIInv, ReqTyped
    <2>2. req[r] \in [step : {"asked"}, cmd : {req[r].cmd}, mine : {<<>>}, at : {req[r].at}]
      BY <1>1, <1>2 DEF IsReq
    <2>3. /\ req' = [q \in Requests |-> req'[q]]
          /\ req'[r] = [[req[r] EXCEPT !.step = "write"] EXCEPT !.at = 1]
          /\ \A q \in Requests \ {r} : req'[q] = req[q]
      BY <2>1 DEF Proceeds
    <2>4. QED
      BY <2>2, <2>3 DEF OnlyMoves
  <1>4. IsReq(req'[r])
    BY <1>1, <1>3, Nothing DEF IsReq, ReqSteps
  <1>5. QED
    BY <1>3, <1>4, QuietStep

-----------------------------------------------------------------------------
(* Statements that write                                                   *)

LEMMA WroteOne ==
  ASSUME NEW i, NEW image \in RowType \cup {Absent}, NEW m, m = Wrote(<<>>, i, image)
  PROVE  m \in [DOMAIN m -> RowType \cup {Absent}] /\ DOMAIN m = {i} /\ m[i] = image
  <1>1. PICK none : /\ none = <<>> /\ DOMAIN none = {}
                    /\ none \in [DOMAIN none -> RowType \cup {Absent}]
    BY Nothing
  <1>2. /\ m \in [DOMAIN m -> RowType \cup {Absent}]
        /\ DOMAIN m = {i} \cup DOMAIN none /\ m[i] = image
    BY <1>1 DEF Wrote
  <1>3. QED
    BY <1>1, <1>2

\* A statement that has written all it will: a row nobody else holds, as its command said.
LEMMA WriteStep ==
  ASSUME ListsIInv, NEW r \in Requests, req[r].step = "write", req[r].cmd.op # "reorder",
         NEW i \in drawn', NEW image \in RowType \cup {Absent},
         req' = [req EXCEPT ![r].step = "commit", ![r].mine = Wrote(<<>>, i, image)],
         UNCHANGED <<kind, rows, keys, shown, asked>>,
         drawn \subseteq drawn', drawn' \subseteq Ids, Room',
         \A q \in Requests \ {r} : i \notin DOMAIN req[q].mine,
         req'[r].cmd = req[r].cmd /\ req'[r].step = "commit" /\ req'[r].mine[i] = image => Writes(r, i)'
  PROVE  ListsIInv'
  <1>0. PICK m : m = Wrote(<<>>, i, image)
    OBVIOUS
  <1>1. m \in [DOMAIN m -> RowType \cup {Absent}] /\ DOMAIN m = {i} /\ m[i] = image
    BY <1>0, WroteOne
  <1>2. req' = [req EXCEPT ![r].step = "commit", ![r].mine = m]
    BY <1>0
  <1>3. req[r].cmd \in Sent /\ req[r].at \in Nat
    BY DEF ListsIInv, ReqTyped, IsReq
  <1>4. /\ OnlyMoves(r)
        /\ req'[r] \in [step : {"commit"}, cmd : {req[r].cmd}, mine : {m}, at : {req[r].at}]
        /\ req'[r].step = "commit" /\ req'[r].cmd = req[r].cmd /\ req'[r].mine = m
    <2>1. req = [q \in Requests |-> req[q]]
      BY DEF ListsIInv, ReqTyped
    <2>2. req[r] \in [step : ReqSteps, cmd : {req[r].cmd}, mine : {req[r].mine}, at : {req[r].at}]
      BY DEF ListsIInv, ReqTyped, IsReq
    <2>3. /\ req' = [q \in Requests |-> req'[q]]
          /\ req'[r] = [[req[r] EXCEPT !.step = "commit"] EXCEPT !.mine = m]
          /\ \A q \in Requests \ {r} : req'[q] = req[q]
      BY <1>2, <2>1
    <2>4. req'[r] \in [step : {"commit"}, cmd : {req[r].cmd}, mine : {m}, at : {req[r].at}]
      BY <2>2, <2>3
    <2>5. QED
      BY <2>3, <2>4 DEF OnlyMoves
  <1>5. IsReq(req'[r])
    BY <1>1, <1>3, <1>4 DEF IsReq, ReqSteps
  <1>6. Complies(r)'
    BY <1>1, <1>4 DEF Complies
  <1>7. Finished(r)'
    BY <1>1, <1>4 DEF Finished
  <1>8. DOMAIN req'[r].mine = {i}
    BY <1>1, <1>4
  <1>9. \A q \in Requests \ {r} : DOMAIN req'[r].mine \cap DOMAIN req[q].mine = {}
    BY <1>8
  <1>10. DOMAIN req'[r].mine \subseteq drawn'
    BY <1>8
  <1>11. QED
    BY <1>4, <1>5, <1>6, <1>7, <1>9, <1>10, StepOf

\* A free id is left for a request that has not drawn one.
LEMMA IdLeft ==
  ASSUME ListsIInv, NEW r \in Requests, req[r].step = "write"
  PROVE  /\ Min(Ids \ drawn) \in Ids \ drawn
         /\ Cardinality(drawn) + 1 <= Len(Initial) + Cardinality(Drew \cup {r})
         /\ IsFiniteSet(drawn) /\ Cardinality(drawn) \in Nat
  <1>1. /\ IsFiniteSet(drawn) /\ Cardinality(drawn) \in Nat /\ Cardinality(Ids) \in Nat
        /\ Len(Initial) \in Nat /\ Cardinality(Requests) \in Nat /\ drawn \subseteq Ids
    BY FS_Subset, FS_CardinalityType, ListsAssumption DEF ListsIInv, RowsTyped
  <1>2. Drew \cup {r} \subseteq Requests /\ r \notin Drew
    BY DEF Drew
  <1>3. IsFiniteSet(Drew)
    BY <1>2, FS_Subset, ListsAssumption
  <1>4. Cardinality(Drew \cup {r}) = Cardinality(Drew) + 1 /\ Cardinality(Drew) \in Nat
    BY <1>2, <1>3, FS_AddElement, FS_CardinalityType
  <1>5. Cardinality(Drew \cup {r}) <= Cardinality(Requests)
    BY <1>2, FS_Subset, ListsAssumption
  <1>6. Cardinality(drawn) + 1 <= Len(Initial) + Cardinality(Drew \cup {r})
    BY <1>1, <1>4 DEF ListsIInv, Room
  <1>7. drawn # Ids
    BY <1>1, <1>4, <1>5, <1>6, ListsAssumption
  <1>8. Ids \ drawn \in SUBSET Nat /\ Ids \ drawn # {}
    <2>1. PICK n \in Nat : Ids = 1..n
      BY <1>1, ListsAssumption
    <2>2. Ids \subseteq Nat
      BY <2>1
    <2>3. drawn \subseteq Ids
      BY <1>1
    <2>4. QED
      BY <1>7, <2>2, <2>3
  <1>9. QED
    BY <1>1, <1>6, <1>8, Least

LEMMA InsertStep ==
  ASSUME ListsIInv, NEW r \in Requests, Insert(r), UNCHANGED <<kind, rows, keys, shown, asked>>
  PROVE  ListsIInv'
  <1>1. PICK c, new, row : /\ c = req[r].cmd
                           /\ new = Min(Ids \ drawn)
                           /\ row = [name |-> c.name, order |-> NextOrder, version |-> 1]
    OBVIOUS
  <1>5. req[r].step = "write" /\ c.op = "create"
    BY <1>1 DEF Insert
  <1>2. CASE Ends(r) /\ UNCHANGED drawn
    BY <1>5, <1>2, EndsStep
  <1>3. ASSUME drawn' = drawn \cup {new},
               req' = [req EXCEPT ![r].step = "commit", ![r].mine = Wrote(<<>>, new, row)]
        PROVE  ListsIInv'
    <2>1. new \in Ids /\ new \notin drawn
      BY <1>1, <1>5, IdLeft
    <2>2. c \in Creation
      <3>1. c \in Sent
        BY <1>1, <1>5 DEF ListsIInv, ReqTyped, IsReq
      <3>2. QED
        BY <1>5, <3>1 DEF Sent, Creation, Edit, Deletion, Ordering
    <2>3. NextOrder \in Nat
      <3>1. CASE Listed = {}
        BY <3>1 DEF NextOrder
      <3>2. CASE Listed # {}
        <4> DEFINE orders == {rows[i].order : i \in Listed}
        <4>1. Listed \subseteq Ids /\ \A i \in Listed : rows[i].order \in Nat
          BY DEF ListsIInv, RowsTyped, Listed, RowType
        <4>2. orders \in SUBSET Nat /\ orders # {}
          BY <3>2, <4>1
        <4>3. IsFiniteSet(orders)
          <5> DEFINE f == [i \in Listed |-> rows[i].order]
          <5>1. f \in Surjection(Listed, orders)
            BY DEF Surjection
          <5>2. IsFiniteSet(Listed)
            BY <4>1, FS_Subset, ListsAssumption
          <5>3. QED
            BY <5>1, <5>2, FS_Surjection
        <4> HIDE DEF orders
        <4>4. Max(orders) \in Nat
          BY <4>2, <4>3, Greatest
        <4>5. NextOrder = 1 + Max(orders)
          BY <3>2 DEF NextOrder, orders
        <4>6. QED
          BY <4>4, <4>5
      <3>3. QED
        BY <3>1, <3>2
    <2>4. row \in RowType
      BY <1>1, <2>2, <2>3 DEF Creation, RowType
    <2>5. \A q \in Requests \ {r} : new \notin DOMAIN req[q].mine
      BY <2>1 DEF ListsIInv, ReqTyped
    <2>6. new \in drawn' /\ drawn \subseteq drawn' /\ drawn' \subseteq Ids
      BY <1>3, <2>1 DEF ListsIInv, RowsTyped
    <2>7. Room'
      <3>1. OnlyMoves(r) /\ req'[r].step = "commit"
        <4>1. req = [q \in Requests |-> req[q]] /\ "step" \in DOMAIN req[r]
          BY DEF ListsIInv, ReqTyped, IsReq
        <4>2. QED
          BY <1>3, <4>1 DEF OnlyMoves
      <3>2. Drew' = Drew \cup {r}
        BY <3>1 DEF Drew, OnlyMoves
      <3>3. Cardinality(drawn') = Cardinality(drawn) + 1
        BY <1>5, <1>3, <2>1, IdLeft, FS_AddElement
      <3>4. QED
        BY <1>5, <3>2, <3>3, IdLeft DEF Room
    <2>8. rows[new] = Absent /\ new \notin Range(asked)
      BY <2>1 DEF ListsIInv, RowsTyped, Listed, Range
    <2>9. ASSUME req'[r].cmd = c, req'[r].step = "commit", req'[r].mine[new] = row
          PROVE  Writes(r, new)'
      <3>1. c.op # "update" /\ c.op # "delete" /\ c.op # "reorder"
        BY <1>5
      <3>2. rows'[new] = Absent /\ new \notin Range(asked)'
        BY <2>8 DEF Range
      <3>3. QED
        BY <1>5, <2>4, <2>9, <3>1, <3>2 DEF Writes
    <2>10. QED
      <3>1. req[r].cmd.op # "reorder" /\ row \in RowType \cup {Absent}
        BY <1>1, <1>5, <2>4
      <3>2. /\ req'[r].cmd = req[r].cmd /\ req'[r].step = "commit" /\ req'[r].mine[new] = row
            => Writes(r, new)'
        BY <1>1, <2>9
      <3>3. QED
        BY <1>5, <1>3, <2>5, <2>6, <2>7, <3>1, <3>2, WriteStep
  <1>4. QED
    BY <1>1, <1>2, <1>3 DEF Insert

LEMMA CommandIs ==
  ASSUME ListsIInv, NEW r \in Requests, req[r].step # "idle"
  PROVE  /\ req[r].cmd.op \in {"create", "update", "delete", "reorder"}
         /\ req[r].cmd.op = "create" => req[r].cmd \in Creation
         /\ req[r].cmd.op = "update" => req[r].cmd \in Edit
         /\ req[r].cmd.op = "delete" => req[r].cmd \in Deletion
         /\ req[r].cmd.op = "reorder" => req[r].cmd \in Ordering
  <1>1. req[r].cmd \in Sent
    BY DEF ListsIInv, ReqTyped, IsReq
  <1>2. QED
    BY <1>1 DEF Sent, Creation, Edit, Deletion, Ordering

\* A row that r changes or removes, once it has the lock.
LEMMA ChangeStep ==
  ASSUME ListsIInv, NEW r \in Requests, req[r].step = "write", req[r].cmd.op # "reorder",
         NEW i \in Listed, ~ Locked(i, r), NEW image \in RowType \cup {Absent},
         req' = [req EXCEPT ![r].step = "commit", ![r].mine = Wrote(<<>>, i, image)],
         UNCHANGED <<kind, rows, drawn, keys, shown, asked>>,
         req'[r].cmd = req[r].cmd /\ req'[r].step = "commit" /\ req'[r].mine[i] = image => Writes(r, i)'
  PROVE  ListsIInv'
  <1>1. i \in drawn' /\ drawn \subseteq drawn' /\ drawn' \subseteq Ids
    BY DEF ListsIInv, RowsTyped
  <1>2. \A q \in Requests \ {r} : i \notin DOMAIN req[q].mine
    BY DEF Locked
  <1>3. OnlyMoves(r)
    <2>1. req = [q \in Requests |-> req[q]]
      BY DEF ListsIInv, ReqTyped
    <2>2. QED
      BY <2>1 DEF OnlyMoves
  <1>4. Room'
    BY <1>3, RoomKept
  <1>5. QED
    BY <1>1, <1>2, <1>4, WriteStep

LEMMA WriteRowStep ==
  ASSUME ListsIInv, NEW r \in Requests, WriteRow(r), UNCHANGED <<kind, rows, drawn, keys, shown, asked>>
  PROVE  ListsIInv'
  <1>1. PICK c, image : c = req[r].cmd /\ image = [rows[c.id] EXCEPT !.name = c.name, !.version = @ + 1]
    OBVIOUS
  <1>2. /\ req[r].step = "write" /\ c.op = "update" /\ ~ Locked(c.id, r)
        /\ \/ /\ Expected(c.id, c.version)
              /\ req' = [req EXCEPT ![r].step = "commit", ![r].mine = Wrote(<<>>, c.id, image)]
           \/ Ends(r)
    BY <1>1 DEF WriteRow
  <1>3. CASE Ends(r)
    BY <1>2, <1>3, EndsStep
  <1>4. CASE /\ Expected(c.id, c.version)
             /\ req' = [req EXCEPT ![r].step = "commit", ![r].mine = Wrote(<<>>, c.id, image)]
    <2>1. c \in Edit
      BY <1>1, <1>2, CommandIs
    <2>2. PICK i \in Listed : i = c.id
      BY <1>4 DEF Expected
    <2>3. rows[i] \in RowType
      BY DEF ListsIInv, RowsTyped, Listed
    <2>4. image \in RowType /\ image.order = rows[i].order
      <3>1. c.name \in Names
        BY <2>1 DEF Edit
      <3>2. image = [[rows[i] EXCEPT !.name = c.name] EXCEPT !.version = rows[i].version + 1]
        BY <1>1, <2>2, <2>3 DEF RowType
      <3>3. rows[i].version + 1 \in Nat \ {0}
        BY <2>3 DEF RowType
      <3>4. QED
        BY <2>3, <3>1, <3>2, <3>3 DEF RowType
    <2>5. Expected(i, c.version)'
      BY <1>4, <2>2 DEF Expected, Listed
    <2>6. ASSUME req'[r].cmd = c, req'[r].step = "commit", req'[r].mine[i] = image
          PROVE  Writes(r, i)'
      <3>1. c.op # "create" /\ c.op # "delete" /\ c.op # "reorder"
        BY <1>2
      <3>2. QED
        BY <2>2, <2>4, <2>5, <2>6, <3>1 DEF Writes
    <2>7. req[r].cmd.op # "reorder" /\ image \in RowType \cup {Absent} /\ ~ Locked(i, r)
      BY <1>1, <1>2, <2>2, <2>4
    <2>8. req'[r].cmd = req[r].cmd /\ req'[r].step = "commit" /\ req'[r].mine[i] = image => Writes(r, i)'
      BY <1>1, <2>6
    <2>9. req' = [req EXCEPT ![r].step = "commit", ![r].mine = Wrote(<<>>, i, image)]
      BY <1>4, <2>2
    <2>10. QED
      BY <1>2, <2>7, <2>8, <2>9, ChangeStep
  <1>5. QED
    BY <1>2, <1>3, <1>4

LEMMA RemoveRowStep ==
  ASSUME ListsIInv, NEW r \in Requests, RemoveRow(r), UNCHANGED <<kind, rows, drawn, keys, shown, asked>>
  PROVE  ListsIInv'
  <1>1. PICK c : c = req[r].cmd
    OBVIOUS
  <1>2. /\ req[r].step = "write" /\ c.op = "delete" /\ ~ Locked(c.id, r)
        /\ \/ /\ Expected(c.id, c.version)
              /\ req' = [req EXCEPT ![r].step = "commit", ![r].mine = Wrote(<<>>, c.id, Absent)]
           \/ Ends(r)
    BY <1>1 DEF RemoveRow
  <1>3. CASE Ends(r)
    BY <1>2, <1>3, EndsStep
  <1>4. CASE /\ Expected(c.id, c.version)
             /\ req' = [req EXCEPT ![r].step = "commit", ![r].mine = Wrote(<<>>, c.id, Absent)]
    <2>1. PICK i \in Listed : i = c.id
      BY <1>4 DEF Expected
    <2>2. PICK image \in RowType \cup {Absent} : image = Absent
      OBVIOUS
    <2>3. Expected(i, c.version)'
      BY <1>4, <2>1 DEF Expected, Listed
    <2>4. ASSUME req'[r].cmd = c, req'[r].step = "commit", req'[r].mine[i] = image
          PROVE  Writes(r, i)'
      <3>1. c.op # "create" /\ c.op # "update" /\ c.op # "reorder"
        BY <1>2
      <3>2. QED
        BY <2>1, <2>2, <2>3, <2>4, <3>1 DEF Writes
    <2>5. req[r].cmd.op # "reorder" /\ ~ Locked(i, r)
      BY <1>1, <1>2, <2>1
    <2>6. req'[r].cmd = req[r].cmd /\ req'[r].step = "commit" /\ req'[r].mine[i] = image => Writes(r, i)'
      BY <1>1, <2>4
    <2>7. req' = [req EXCEPT ![r].step = "commit", ![r].mine = Wrote(<<>>, i, image)]
      BY <1>4, <2>1, <2>2
    <2>8. QED
      BY <1>2, <2>5, <2>6, <2>7, ChangeStep
  <1>5. QED
    BY <1>2, <1>3, <1>4

LEMMA WriteOrderStep ==
  ASSUME ListsIInv, NEW r \in Requests, WriteOrder(r),
         UNCHANGED <<kind, rows, drawn, keys, shown, asked>>
  PROVE  ListsIInv'
  <1>1. PICK items, n, i, old, image :
          /\ items = req[r].cmd.items /\ n = req[r].at /\ i = items[n][1] /\ old = req[r].mine
          /\ image = [rows[i] EXCEPT !.order = n - 1, !.version = @ + 1]
    OBVIOUS
  <1>2. PICK m : m = IF Expected(i, items[n][2]) THEN Wrote(old, i, image) ELSE old
    OBVIOUS
  <1>3. /\ req[r].step = "write" /\ req[r].cmd.op = "reorder" /\ n <= Len(items)
        /\ ~ Locked(i, r)
    BY <1>1 DEF WriteOrder
  <1>4. /\ req = [q \in Requests |-> req[q]]
        /\ req[r] \in [step : {"write"}, cmd : {req[r].cmd}, mine : {old}, at : {n}]
        /\ n \in Nat /\ n # 0 /\ old \in [DOMAIN old -> RowType \cup {Absent}] /\ DOMAIN old \subseteq drawn
    BY <1>1, <1>3 DEF ListsIInv, ReqTyped, IsReq
  <1>5. req' = [req EXCEPT ![r] = [[req[r] EXCEPT !.at = n + 1] EXCEPT !.mine = m]]
    BY <1>1, <1>2, <1>4 DEF WriteOrder
  <1>6. OnlyMoves(r) /\ req'[r] \in [step : {"write"}, cmd : {req[r].cmd}, mine : {m}, at : {n + 1}]
    <2>1. /\ req' = [q \in Requests |-> req'[q]]
          /\ req'[r] = [[req[r] EXCEPT !.at = n + 1] EXCEPT !.mine = m]
          /\ \A q \in Requests \ {r} : req'[q] = req[q]
      BY <1>4, <1>5
    <2>2. QED
      BY <1>4, <2>1 DEF OnlyMoves
  <1>7. items \in Seq(Ids \X Versions) /\ req[r].cmd \in Sent
    <2>1. req[r].cmd \in Ordering
      BY <1>3, CommandIs
    <2>2. QED
      BY <1>1, <2>1 DEF Ordering, Order, Sent
  <1>8. CASE ~ Expected(i, items[n][2])
    <2>1. m = old
      BY <1>2, <1>8
    <2>2. IsReq(req'[r]) /\ DOMAIN req'[r].mine \subseteq drawn'
      BY <1>4, <1>6, <1>7, <2>1 DEF IsReq, ReqSteps
    <2>3. \A q \in Requests \ {r} : DOMAIN req'[r].mine \cap DOMAIN req[q].mine = {}
      BY <1>1, <1>6, <2>1 DEF ListsIInv, Exclusive
    <2>4. Complies(r)'
      <3>1. ASSUME NEW j \in DOMAIN old
            PROVE  Writes(r, j)'
        <4>1. Writes(r, j)
          BY <1>1 DEF ListsIInv, Complies
        <4>2. PICK k \in DOMAIN items :
                /\ k < n /\ j = items[k][1] /\ Expected(j, items[k][2])
                /\ old[j] \in RowType /\ old[j].order = k - 1
          BY <1>1, <1>3, <4>1 DEF Writes
        <4>3. k < n + 1 /\ Expected(j, items[k][2])'
          BY <1>4, <1>7, <4>2 DEF Expected, Listed
        <4>4. req'[r].cmd = req[r].cmd /\ req'[r].mine = old /\ req'[r].at = n + 1
          BY <1>6, <2>1
        <4>5. QED
          BY <1>1, <1>3, <4>2, <4>3, <4>4 DEF Writes
      <3>2. QED
        BY <1>6, <2>1, <3>1 DEF Complies
    <2>5. Finished(r)'
      BY <1>6 DEF Finished
    <2>6. Room'
      BY <1>3, <1>6, RoomKept
    <2>7. drawn \subseteq drawn' /\ drawn' \subseteq Ids
      BY DEF ListsIInv, RowsTyped
    <2>8. QED
      BY <1>6, <2>2, <2>3, <2>4, <2>5, <2>6, <2>7, StepOf
  <1>9. CASE Expected(i, items[n][2])
    <2>1. i \in Listed /\ rows[i] \in RowType /\ i \in drawn
      BY <1>9 DEF ListsIInv, RowsTyped, Listed, Expected
    <2>2. n \in DOMAIN items /\ n # 0
      BY <1>3, <1>4, <1>7
    <2>3. image \in RowType /\ image.order = n - 1
      <3>1. image = [[rows[i] EXCEPT !.order = n - 1] EXCEPT !.version = rows[i].version + 1]
        BY <1>1, <2>1 DEF RowType
      <3>2. n - 1 \in Nat
        BY <1>4, <2>2
      <3>3. rows[i].version + 1 \in Nat \ {0}
        BY <2>1 DEF RowType
      <3>4. QED
        BY <2>1, <3>1, <3>2, <3>3 DEF RowType
    <2>4. /\ m \in [DOMAIN m -> RowType \cup {Absent}]
          /\ DOMAIN m = {i} \cup DOMAIN old
          /\ m[i] = image /\ \A j \in DOMAIN old : j # i => m[j] = old[j]
      BY <1>2, <1>4, <1>9, <2>3 DEF Wrote
    <2>5. IsReq(req'[r]) /\ DOMAIN req'[r].mine \subseteq drawn'
      BY <1>4, <1>6, <1>7, <2>1, <2>4 DEF IsReq, ReqSteps
    <2>6. \A q \in Requests \ {r} : DOMAIN req'[r].mine \cap DOMAIN req[q].mine = {}
      <3>1. ASSUME NEW q \in Requests \ {r}
            PROVE  ({i} \cup DOMAIN old) \cap DOMAIN req[q].mine = {}
        <4>1. i \notin DOMAIN req[q].mine
          BY <1>3 DEF Locked
        <4>2. DOMAIN old \cap DOMAIN req[q].mine = {}
          BY <1>1 DEF ListsIInv, Exclusive
        <4>3. QED
          BY <4>1, <4>2
      <3>2. DOMAIN req'[r].mine = {i} \cup DOMAIN old
        BY <1>6, <2>4
      <3>3. QED
        BY <3>1, <3>2
    <2>7. Complies(r)'
      <3>1. ASSUME NEW j \in DOMAIN m
            PROVE  Writes(r, j)'
        <4>1. \E k \in DOMAIN items :
                /\ k < n + 1 /\ j = items[k][1] /\ Expected(j, items[k][2])
                /\ m[j] \in RowType /\ m[j].order = k - 1
          <5>1. CASE j = i
            <6>1. n \in DOMAIN items /\ n < n + 1
              BY <1>4, <2>2
            <6>2. /\ j = items[n][1] /\ Expected(j, items[n][2])
                  /\ m[j] \in RowType /\ m[j].order = n - 1
              BY <1>1, <1>9, <2>3, <2>4, <5>1
            <6>3. QED
              BY <6>1, <6>2
          <5>2. CASE j # i
            <6>1. j \in DOMAIN old /\ m[j] = old[j]
              BY <2>4, <5>2
            <6>2. Writes(r, j)
              BY <1>1, <6>1 DEF ListsIInv, Complies
            <6>3. PICK k \in DOMAIN items :
                    /\ k < n /\ j = items[k][1] /\ Expected(j, items[k][2])
                    /\ old[j] \in RowType /\ old[j].order = k - 1
              BY <1>1, <1>3, <6>2 DEF Writes
            <6>4. k < n + 1
              BY <1>4, <1>7, <6>3
            <6>5. QED
              BY <6>1, <6>3, <6>4
          <5>3. QED
            BY <5>1, <5>2
        <4>2. PICK k \in DOMAIN items :
                /\ k < n + 1 /\ j = items[k][1] /\ Expected(j, items[k][2])
                /\ m[j] \in RowType /\ m[j].order = k - 1
          BY <4>1
        <4>3. Expected(j, items[k][2])'
          BY <4>2 DEF Expected, Listed
        <4>4. req'[r].cmd = req[r].cmd /\ req'[r].mine = m /\ req'[r].at = n + 1
          BY <1>6
        <4>5. QED
          BY <1>1, <1>3, <4>2, <4>3, <4>4 DEF Writes
      <3>2. QED
        BY <1>6, <3>1 DEF Complies
    <2>8. Finished(r)'
      BY <1>6 DEF Finished
    <2>9. Room'
      BY <1>3, <1>6, RoomKept
    <2>10. drawn \subseteq drawn' /\ drawn' \subseteq Ids
      BY DEF ListsIInv, RowsTyped
    <2>11. QED
      BY <1>6, <2>5, <2>6, <2>7, <2>8, <2>9, <2>10, StepOf
  <1>10. QED
    BY <1>8, <1>9

\* An order whose statements changed as many rows as it has items changed them all.
LEMMA CheckChangedStep ==
  ASSUME ListsIInv, NEW r \in Requests, CheckChanged(r),
         UNCHANGED <<kind, rows, drawn, keys, shown, asked>>
  PROVE  ListsIInv'
  <1>1. PICK items, mine : items = req[r].cmd.items /\ mine = req[r].mine
    OBVIOUS
  <1>2. /\ req[r].step = "write" /\ req[r].cmd.op = "reorder"
        /\ \/ Cardinality(DOMAIN mine) = Len(items) /\ req' = [req EXCEPT ![r].step = "commit"]
           \/ Ends(r)
    BY <1>1 DEF CheckChanged, AllChanged
  <1>3. CASE Ends(r)
    BY <1>2, <1>3, EndsStep
  <1>4. CASE Cardinality(DOMAIN mine) = Len(items) /\ req' = [req EXCEPT ![r].step = "commit"]
    <2>1. /\ req = [q \in Requests |-> req[q]] /\ DOMAIN mine \subseteq drawn
          /\ req[r] \in [step : {"write"}, cmd : {req[r].cmd}, mine : {mine}, at : {req[r].at}]
          /\ req[r].at \in Nat /\ mine \in [DOMAIN mine -> RowType \cup {Absent}]
      BY <1>1, <1>2 DEF ListsIInv, ReqTyped, IsReq
    <2>2. /\ OnlyMoves(r)
          /\ req'[r] \in [step : {"commit"}, cmd : {req[r].cmd}, mine : {mine}, at : {req[r].at}]
      <3>1. /\ req' = [q \in Requests |-> req'[q]]
            /\ req'[r] = [req[r] EXCEPT !.step = "commit"]
            /\ \A q \in Requests \ {r} : req'[q] = req[q]
        BY <1>4, <2>1
      <3>2. QED
        BY <2>1, <3>1 DEF OnlyMoves
    <2>3. items \in Seq(Ids \X Versions) /\ req[r].cmd \in Sent
      <3>1. req[r].cmd \in Ordering
        BY <1>2, CommandIs
      <3>2. QED
        BY <1>1, <3>1 DEF Ordering, Order, Sent
    <2>4. IsReq(req'[r]) /\ DOMAIN req'[r].mine \subseteq drawn'
      BY <2>1, <2>2, <2>3 DEF IsReq, ReqSteps
    <2>5. \A q \in Requests \ {r} : DOMAIN req'[r].mine \cap DOMAIN req[q].mine = {}
      BY <1>1, <2>2 DEF ListsIInv, Exclusive
    <2>6. ASSUME NEW j \in DOMAIN mine
          PROVE  Writes(r, j)' /\ j \in Named(items)
      <3>1. Writes(r, j)
        BY <1>1 DEF ListsIInv, Complies
      <3>2. PICK k \in DOMAIN items :
              /\ k < req[r].at /\ j = items[k][1] /\ Expected(j, items[k][2])
              /\ mine[j] \in RowType /\ mine[j].order = k - 1
        BY <1>1, <1>2, <3>1 DEF Writes
      <3>3. Expected(j, items[k][2])'
        BY <3>2 DEF Expected, Listed
      <3>4. req'[r].cmd = req[r].cmd /\ req'[r].mine = mine /\ req'[r].at = req[r].at
        BY <2>2
      <3>5. QED
        BY <1>1, <1>2, <3>2, <3>3, <3>4 DEF Writes, Named
    <2>7. Complies(r)'
      BY <2>2, <2>6 DEF Complies
    <2>8. DOMAIN mine = Named(items)
      <3>1. DOMAIN items = 1..Len(items) /\ Len(items) \in Nat
        BY <2>3
      <3>2. IsFiniteSet(1..Len(items)) /\ Cardinality(1..Len(items)) = Len(items)
        <4>1. PICK n \in Nat : n = Len(items)
          BY <3>1
        <4>2. IsFiniteSet(1..n) /\ Cardinality(1..n) = n
          BY FS_Interval
        <4>3. QED
          BY <4>1, <4>2
      <3> DEFINE f == [n \in 1..Len(items) |-> items[n][1]]
      <3>3. f \in Surjection(1..Len(items), Named(items))
        BY <3>1 DEF Surjection, Named
      <3>4. IsFiniteSet(Named(items)) /\ Cardinality(Named(items)) <= Len(items)
        BY <3>2, <3>3, FS_Surjection
      <3>5. DOMAIN mine \subseteq Named(items)
        BY <2>6
      <3>6. /\ Cardinality(Named(items)) \in Nat
            /\ Cardinality(DOMAIN mine) <= Cardinality(Named(items))
            /\ Cardinality(Named(items)) = Cardinality(DOMAIN mine) => Named(items) = DOMAIN mine
        BY <3>4, <3>5, FS_Subset, FS_CardinalityType
      <3>7. QED
        BY <1>4, <3>1, <3>4, <3>6
    <2>9. Finished(r)'
      <3>1. req'[r].cmd = req[r].cmd /\ req'[r].mine = mine
        BY <2>2
      <3>2. QED
        BY <1>1, <1>2, <2>8, <3>1 DEF Finished, Named
    <2>10. Room'
      BY <1>2, <2>2, RoomKept
    <2>11. drawn \subseteq drawn' /\ drawn' \subseteq Ids
      BY DEF ListsIInv, RowsTyped
    <2>12. QED
      BY <2>2, <2>4, <2>5, <2>7, <2>9, <2>10, <2>11, StepOf
  <1>5. QED
    BY <1>2, <1>3, <1>4

LEMMA GivenUpStep ==
  ASSUME ListsIInv, NEW r \in Requests, Abort(r) \/ DeadlockVictim(r)
  PROVE  ListsIInv'
  <1>1. CASE Abort(r)
    BY <1>1, EndsStep DEF Abort
  <1>2. CASE DeadlockVictim(r)
    <2>1. PICK C \in SUBSET Requests : r \in C /\ \A q \in C : WaitsFor(q) \cap C # {}
      BY <1>2 DEF DeadlockVictim
    <2>2. req[r].step = "write"
      BY <2>1 DEF WaitsFor
    <2>3. QED
      BY <1>2, <2>2, EndsStep DEF DeadlockVictim
  <1>3. QED
    BY <1>1, <1>2

LEMMA WithdrawStep ==
  ASSUME ListsIInv, Withdraw
  PROVE  ListsIInv'
  <1>1. RowsTyped'
    BY DEF ListsIInv, Withdraw, RowsTyped, Listed
  <1>2. ReqTyped' /\ Room' /\ Exclusive' /\ OrderKept'
    BY DEF ListsIInv, Withdraw, ReqTyped, Room, Drew, Exclusive, OrderKept, Listed
  <1>3. ASSUME NEW q \in Requests
        PROVE  Complies(q)' /\ Finished(q)'
    BY OthersComply DEF ListsIInv, Withdraw
  <1>4. QED
    BY <1>1, <1>2, <1>3 DEF ListsIInv

LEMMA StatementStep ==
  ASSUME ListsIInv, NEW r \in Requests, Statement(r)
  PROVE  ListsIInv'
  <1>1. UNCHANGED <<kind, rows, drawn, keys, shown, asked>>
    BY DEF Statement
  <1>2. CASE \/ CreateResponse(r) \/ CreateFilter(r) \/ UpdateResponse(r) \/ UpdateFilter(r)
             \/ DeleteResponse(r) \/ DeleteFilter(r) \/ ReorderResponses(r) \/ ReorderFilters(r)
    <2>1. req[r].step = "asked" /\ (Proceeds(r) \/ Ends(r))
      <3>1. Create(r) \/ Update(r) \/ Delete(r) \/ Reorder(r)
        BY <1>2 DEF CreateResponse, CreateFilter, UpdateResponse, UpdateFilter,
                    DeleteResponse, DeleteFilter, ReorderResponses, ReorderFilters
      <3>2. QED
        BY <3>1 DEF Create, Update, Delete, Reorder
    <2>2. QED
      BY <1>1, <2>1, ProceedsStep, EndsStep
  <1>3. CASE WriteRow(r)
    BY <1>1, <1>3, WriteRowStep
  <1>4. CASE RemoveRow(r)
    BY <1>1, <1>4, RemoveRowStep
  <1>5. CASE WriteOrder(r)
    BY <1>1, <1>5, WriteOrderStep
  <1>6. CASE CheckChanged(r)
    BY <1>1, <1>6, CheckChangedStep
  <1>7. QED
    BY <1>2, <1>3, <1>4, <1>5, <1>6 DEF Statement

-----------------------------------------------------------------------------
(* The commit                                                              *)

LEMMA CommitFacts ==
  ASSUME ListsIInv, NEW r \in Requests, Commit(r)
  PROVE  /\ req[r].step = "commit" /\ OnlyMoves(r) /\ IsReq(req'[r])
         /\ req'[r].step = "done" /\ req'[r].mine = <<>> /\ DOMAIN req'[r].mine = {}
         /\ drawn' = drawn /\ kind' = kind /\ shown' = shown
         /\ rows' = [i \in Ids |-> IF i \in DOMAIN req[r].mine THEN req[r].mine[i] ELSE rows[i]]
         /\ \A q \in Requests \ {r} : DOMAIN req[q].mine \cap DOMAIN req[r].mine = {}
         /\ DOMAIN req[r].mine \subseteq drawn
         /\ req[r].mine \in [DOMAIN req[r].mine -> RowType \cup {Absent}]
  <1>1. req[r].step = "commit" /\ Ends(r)
    BY DEF Commit
  <1>2. /\ OnlyMoves(r)
        /\ req'[r] \in [step : {"done"}, cmd : {req[r].cmd}, mine : {<<>>}, at : {0}]
    BY <1>1, EndsMoves
  <1>3. req[r].cmd \in Sent
    BY <1>1 DEF ListsIInv, ReqTyped, IsReq
  <1>4. IsReq(req'[r])
    <2>1. /\ req'[r].step = "done" /\ req'[r].cmd = req[r].cmd /\ req'[r].mine = <<>>
          /\ req'[r] \in [step : ReqSteps, cmd : {req'[r].cmd}, mine : {req'[r].mine}, at : Nat]
      BY <1>2 DEF ReqSteps
    <2>2. QED
      BY <1>3, <2>1, Nothing DEF IsReq
  <1>5. \A q \in Requests \ {r} : DOMAIN req[q].mine \cap DOMAIN req[r].mine = {}
    BY DEF ListsIInv, Exclusive
  <1>6. /\ DOMAIN req[r].mine \subseteq drawn
        /\ req[r].mine \in [DOMAIN req[r].mine -> RowType \cup {Absent}]
    BY DEF ListsIInv, ReqTyped, IsReq
  <1>7. req'[r].step = "done" /\ req'[r].mine = <<>> /\ DOMAIN req'[r].mine = {}
    BY <1>2, Nothing
  <1>8. QED
    BY <1>1, <1>2, <1>4, <1>5, <1>6, <1>7 DEF Commit

\* What a committed reorder leaves behind.
LEMMA OrderTaken ==
  ASSUME ListsIInv, NEW r \in Requests, Commit(r), req[r].cmd.op = "reorder"
  PROVE  /\ asked' \in Seq(drawn) /\ Range(asked') = DOMAIN req[r].mine
         /\ \A n \in DOMAIN asked' : rows'[asked'[n]].order = n - 1
  <1>1. PICK items : items = req[r].cmd.items
    OBVIOUS
  <1>2. req[r].step = "commit" /\ asked' = [n \in DOMAIN items |-> items[n][1]]
    BY <1>1 DEF Commit
  <1>3. items \in Order
    BY <1>1, <1>2, CommandIs DEF Ordering
  <1>4. DOMAIN req[r].mine = Named(items)
    BY <1>1, <1>2 DEF ListsIInv, Finished
  <1>5. DOMAIN items = 1..Len(items) /\ Len(items) \in Nat
    BY <1>3 DEF Order
  <1>6. Range(asked') = DOMAIN req[r].mine
    BY <1>2, <1>4 DEF Range, Named
  <1>7. asked' \in Seq(drawn)
    <2>1. \A n \in 1..Len(items) : items[n][1] \in drawn
      BY <1>4, <1>5, CommitFacts DEF Named
    <2>2. QED
      BY <1>2, <1>5, <2>1
  <1>8. ASSUME NEW n \in DOMAIN asked'
        PROVE  rows'[asked'[n]].order = n - 1
    <2>1. PICK i : i = items[n][1] /\ i = asked'[n] /\ i \in DOMAIN req[r].mine /\ n \in DOMAIN items
      BY <1>2, <1>4 DEF Named
    <2>2. Writes(r, i)
      BY <2>1 DEF ListsIInv, Complies
    <2>3. PICK k \in DOMAIN items : i = items[k][1] /\ req[r].mine[i].order = k - 1
      BY <1>1, <2>2 DEF Writes
    <2>4. k = n
      BY <1>3, <2>1, <2>3 DEF Order
    <2>5. i \in Ids /\ rows'[i] = req[r].mine[i]
      BY <2>1, CommitFacts DEF ListsIInv, RowsTyped
    <2>6. QED
      BY <2>1, <2>3, <2>4, <2>5
  <1>9. QED
    BY <1>6, <1>7, <1>8

\* Any other command spares the order.
LEMMA OrderSpared ==
  ASSUME ListsIInv, NEW r \in Requests, Commit(r), req[r].cmd.op # "reorder"
  PROVE  /\ asked' = asked
         /\ \A i \in Range(asked) \cap Listed' : i \in Listed /\ rows'[i].order = rows[i].order
  <1>1. asked' = asked
    BY DEF Commit
  <1>2. ASSUME NEW i \in Range(asked), i \in Listed'
        PROVE  i \in Listed /\ rows'[i].order = rows[i].order
    <2>1. i \in Ids
      BY <1>2 DEF Listed
    <2>2. CASE i \notin DOMAIN req[r].mine
      <3>1. rows'[i] = rows[i]
        BY <2>1, <2>2, CommitFacts
      <3>2. QED
        BY <1>2, <3>1 DEF Listed
    <2>3. CASE i \in DOMAIN req[r].mine
      <3>1. rows'[i] = req[r].mine[i] /\ req[r].step = "commit"
        BY <2>1, <2>3, CommitFacts
      <3>2. Writes(r, i)
        BY <2>3 DEF ListsIInv, Complies
      <3>3. req[r].cmd.op \in {"create", "update", "delete"}
        BY <3>1, CommandIs
      <3>4. QED
        BY <1>2, <3>1, <3>2, <3>3 DEF Writes, Listed, Expected
    <2>4. QED
      BY <2>2, <2>3
  <1>3. QED
    BY <1>1, <1>2

LEMMA CommitStep ==
  ASSUME ListsIInv, NEW r \in Requests, Commit(r)
  PROVE  ListsIInv'
  <1>1. req[r].step = "commit" /\ drawn' = drawn
    BY DEF Commit
  <1>2. asked' \in Seq(drawn)
    <2>1. CASE req[r].cmd.op = "reorder"
      BY <2>1, OrderTaken
    <2>2. CASE req[r].cmd.op # "reorder"
      BY <2>2, OrderSpared DEF ListsIInv, RowsTyped
    <2>3. QED
      BY <2>1, <2>2
  <1>3. rows' \in [Ids -> RowType \cup {Absent}] /\ Listed' \subseteq drawn
    <2>1. rows \in [Ids -> RowType \cup {Absent}] /\ Listed \subseteq drawn
      BY DEF ListsIInv, RowsTyped
    <2>2. ASSUME NEW i \in Ids
          PROVE  rows'[i] \in RowType \cup {Absent} /\ (rows'[i] # Absent => i \in drawn)
      <3>1. CASE i \in DOMAIN req[r].mine
        BY <3>1, CommitFacts
      <3>2. CASE i \notin DOMAIN req[r].mine
        <4>1. rows'[i] = rows[i]
          BY <3>2, CommitFacts
        <4>2. QED
          BY <2>1, <4>1 DEF Listed
      <3>3. QED
        BY <3>1, <3>2
    <2>3. rows' = [i \in Ids |-> rows'[i]]
      BY CommitFacts
    <2>4. QED
      BY <2>2, <2>3 DEF Listed
  <1>4. /\ keys' = [k \in Keys |-> keys'[k]]
        /\ \A k \in Keys : keys'[k] # Unused => keys'[k].id \in drawn /\ keys'[k].name \in Names
    <2>1. /\ keys = [k \in Keys |-> keys[k]]
          /\ \A k \in Keys : keys[k] # Unused => keys[k].id \in drawn /\ keys[k].name \in Names
      BY DEF ListsIInv, RowsTyped
    <2>2. CASE req[r].cmd.op # "create"
      BY <2>1, <2>2 DEF Commit
    <2>3. CASE req[r].cmd.op = "create"
      <3>1. PICK c, i : c = req[r].cmd /\ i = Min(DOMAIN req[r].mine)
        OBVIOUS
      <3>2. c \in Creation
        BY <1>1, <2>3, <3>1, CommandIs
      <3>3. DOMAIN req[r].mine \in SUBSET Nat /\ DOMAIN req[r].mine # {} /\ DOMAIN req[r].mine \subseteq drawn
        <4>1. DOMAIN req[r].mine # {}
          BY <1>1, <2>3 DEF ListsIInv, Finished
        <4>2. PICK n \in Nat : Ids = 1..n
          BY FS_CardinalityType, ListsAssumption
        <4>3. Ids \subseteq Nat
          BY <4>2
        <4>4. QED
          BY <4>1, <4>3, CommitFacts DEF ListsIInv, RowsTyped
      <3>4. i \in drawn
        BY <3>1, <3>3, Least
      <3>5. keys' = [keys EXCEPT ![c.key] = [id |-> i, name |-> c.name]]
        BY <2>3, <3>1 DEF Commit
      <3>6. c.key \in Keys /\ c.name \in Names
        BY <3>2 DEF Creation
      <3>7. QED
        BY <2>1, <3>4, <3>5, <3>6
    <2>4. QED
      BY <2>2, <2>3
  <1>5. RowsTyped'
    BY <1>2, <1>3, <1>4, CommitFacts DEF ListsIInv, RowsTyped
  <1>6. ReqTyped'
    <2>1. ASSUME NEW q \in Requests
          PROVE  IsReq(req'[q]) /\ DOMAIN req'[q].mine \subseteq drawn'
      <3>1. CASE q = r
        BY <3>1, CommitFacts
      <3>2. CASE q # r
        <4>1. req'[q] = req[q]
          BY <3>2, CommitFacts DEF OnlyMoves
        <4>2. QED
          BY <1>1, <4>1 DEF ListsIInv, ReqTyped
      <3>3. QED
        BY <3>1, <3>2
    <2>2. QED
      BY <2>1, CommitFacts DEF ReqTyped, OnlyMoves
  <1>7. Room'
    BY CommitFacts, RoomKept
  <1>8. ASSUME NEW q \in Requests
        PROVE  Complies(q)' /\ Finished(q)'
    <2>1. CASE q = r
      BY <2>1, CommitFacts DEF Complies, Finished
    <2>2. CASE q # r
      <3>1. req'[q] = req[q] /\ Complies(q) /\ Finished(q)
        BY <2>2, CommitFacts DEF OnlyMoves, ListsIInv
      <3>2. ASSUME NEW i \in DOMAIN req[q].mine
            PROVE  rows'[i] = rows[i] /\ (i \notin Range(asked) => i \notin Range(asked'))
        <4>1. i \in Ids
          BY DEF ListsIInv, ReqTyped, RowsTyped
        <4>2. i \notin DOMAIN req[r].mine
          BY <2>2, <3>2, CommitFacts
        <4>3. rows'[i] = rows[i]
          BY <4>1, <4>2, CommitFacts
        <4>4. i \notin Range(asked) => i \notin Range(asked')
          BY <4>2, OrderTaken, OrderSpared
        <4>5. QED
          BY <4>3, <4>4
      <3>3. QED
        BY <3>1, <3>2, OthersComply
    <2>3. QED
      BY <2>1, <2>2
  <1>9. Exclusive'
    <2>1. ASSUME NEW p \in Requests, NEW q \in Requests, p # q
          PROVE  DOMAIN req'[p].mine \cap DOMAIN req'[q].mine = {}
      <3>1. CASE p = r \/ q = r
        BY <3>1, CommitFacts
      <3>2. CASE p # r /\ q # r
        BY <2>1, <3>2, CommitFacts DEF OnlyMoves, ListsIInv, Exclusive
      <3>3. QED
        BY <3>1, <3>2
    <2>2. QED
      BY <2>1 DEF Exclusive
  <1>10. OrderKept'
    <2>1. CASE req[r].cmd.op = "reorder"
      <3>1. DOMAIN asked' \subseteq Nat
        BY <1>2
      <3>2. \A n \in DOMAIN asked' : rows'[asked'[n]].order = n - 1
        BY <2>1, OrderTaken
      <3>3. QED
        BY <3>1, <3>2 DEF OrderKept
    <2>2. CASE req[r].cmd.op # "reorder"
      <3>1. /\ asked' = asked
            /\ \A i \in Range(asked) \cap Listed' : i \in Listed /\ rows'[i].order = rows[i].order
        BY <2>2, OrderSpared
      <3>2. ASSUME NEW m \in DOMAIN asked, NEW n \in DOMAIN asked,
                   m < n, {asked[m], asked[n]} \subseteq Listed'
            PROVE  rows'[asked[m]].order < rows'[asked[n]].order
        <4>1. asked[m] \in Range(asked) /\ asked[n] \in Range(asked)
          BY DEF Range
        <4>2. /\ {asked[m], asked[n]} \subseteq Listed
              /\ rows'[asked[m]].order = rows[asked[m]].order
              /\ rows'[asked[n]].order = rows[asked[n]].order
          BY <3>1, <3>2, <4>1
        <4>3. QED
          BY <3>2, <4>2 DEF ListsIInv, OrderKept
      <3>3. QED
        BY <3>1, <3>2 DEF OrderKept
    <2>3. QED
      BY <2>1, <2>2
  <1>11. QED
    BY <1>5, <1>6, <1>7, <1>8, <1>9, <1>10 DEF ListsIInv

-----------------------------------------------------------------------------
(* Theorems                                                                *)

LEMMA InitListsIInv ==
  ASSUME ListsInit
  PROVE  ListsIInv
  <1>1. PICK n \in Nat : n = Cardinality(Ids) /\ Ids = 1..n
    BY FS_CardinalityType, ListsAssumption
  <1>2. PICK l \in Nat : l = Len(Initial) /\ DOMAIN Initial = 1..l /\ \A i \in 1..l : Initial[i] \in Names
    BY ListsAssumption
  <1>3. l <= n /\ Cardinality(Requests) \in Nat
    BY <1>1, <1>2, FS_CardinalityType, ListsAssumption
  <1>4. drawn = 1..l /\ drawn \subseteq Ids
    <2>1. drawn = DOMAIN Initial
      BY DEF ListsInit
    <2>2. drawn = 1..l
      BY <1>2, <2>1
    <2>3. 1..l \subseteq 1..n
      BY <1>3
    <2>4. 1..l \subseteq Ids
      BY <1>1, <2>3
    <2>5. QED
      BY <2>2, <2>4
  <1>5. RowsTyped
    <2>1. ASSUME NEW i \in Ids
          PROVE  rows[i] \in RowType \cup {Absent} /\ (rows[i] # Absent => i \in drawn)
      <3>1. CASE i \in 1..l
        BY <1>2, <1>4, <3>1 DEF ListsInit, RowType
      <3>2. CASE i \notin 1..l
        BY <1>2, <3>2 DEF ListsInit
      <3>3. QED
        BY <3>1, <3>2
    <2>2. rows = [i \in Ids |-> rows[i]] /\ asked \in Seq(drawn)
      BY DEF ListsInit
    <2>3. QED
      BY <1>4, <2>1, <2>2 DEF ListsInit, RowsTyped, Listed
  <1>6. ASSUME NEW r \in Requests
        PROVE  /\ IsReq(req[r]) /\ DOMAIN req[r].mine \subseteq drawn
               /\ Complies(r) /\ Finished(r)
    <2>1. /\ req[r].step = "idle" /\ req[r].mine = <<>> /\ DOMAIN req[r].mine = {}
          /\ req[r] \in [step : {"idle"}, cmd : {req[r].cmd}, mine : {<<>>}, at : {0}]
      BY Nothing DEF ListsInit
    <2>2. IsReq(req[r])
      BY <2>1, Nothing DEF IsReq, ReqSteps
    <2>3. QED
      BY <2>1, <2>2 DEF Complies, Finished
  <1>7. Room
    <2>1. Drew = {}
      BY DEF ListsInit, Drew
    <2>2. Cardinality(drawn) = l /\ Cardinality({}) = 0
      BY <1>4, FS_Interval, FS_EmptySet
    <2>3. QED
      BY <1>2, <2>1, <2>2 DEF Room
  <1>8. Exclusive /\ OrderKept
    <2>1. \A r \in Requests : DOMAIN req[r].mine = {}
      BY Nothing DEF ListsInit
    <2>2. DOMAIN asked = {}
      BY Nothing DEF ListsInit
    <2>3. QED
      BY <2>1, <2>2 DEF Exclusive, OrderKept
  <1>9. req = [r \in Requests |-> req[r]]
    BY DEF ListsInit
  <1>10. QED
    BY <1>5, <1>6, <1>7, <1>8, <1>9 DEF ListsIInv, ReqTyped

LEMMA NextListsIInv ==
  ASSUME ListsIInv, [ListsNext]_listsVars
  PROVE  ListsIInv'
  <1>1. CASE UNCHANGED listsVars
    <2>1. RowsTyped' /\ ReqTyped' /\ Room' /\ Exclusive' /\ OrderKept'
      BY <1>1 DEF listsVars, ListsIInv, RowsTyped, ReqTyped, Room, Drew, Exclusive, OrderKept, Listed
    <2>2. ASSUME NEW q \in Requests
          PROVE  Complies(q)' /\ Finished(q)'
      BY <1>1, OthersComply DEF listsVars, ListsIInv
    <2>3. QED
      BY <2>1, <2>2 DEF ListsIInv
  <1>2. ASSUME NEW r \in Requests, Ask(r)
        PROVE  ListsIInv'
    BY <1>2, AskStep
  <1>3. ASSUME NEW r \in Requests, Statement(r)
        PROVE  ListsIInv'
    BY <1>3, StatementStep
  <1>4. ASSUME NEW r \in Requests, Commit(r)
        PROVE  ListsIInv'
    BY <1>4, CommitStep
  <1>5. ASSUME NEW r \in Requests, Abort(r) \/ DeadlockVictim(r)
        PROVE  ListsIInv'
    BY <1>5, GivenUpStep
  <1>6. ASSUME NEW r \in Requests, Insert(r), UNCHANGED <<kind, rows, keys, shown, asked>>
        PROVE  ListsIInv'
    BY <1>6, InsertStep
  <1>7. QED
    BY <1>1, <1>2, <1>3, <1>4, <1>5, <1>6, WithdrawStep DEF ListsNext

THEOREM ListsInvariant == ListsSpec => []ListsIInv
  <1>1. QED
    BY InitListsIInv, NextListsIInv, PTL DEF ListsSpec

\* Rows, idempotency records and requests keep their shape.
THEOREM ListsTypeCorrect == ListsSpec => []ListsTypeOK
  <1>1. ListsIInv => ListsTypeOK
    <2>1. ASSUME ListsIInv
          PROVE  ListsTypeOK
      BY <2>1 DEF ListsIInv, RowsTyped, ReqTyped, IsReq, ListsTypeOK
    <2>2. QED
      BY <2>1
  <1>2. QED
    BY <1>1, ListsInvariant, PTL

\* The list stands in the order of the last reorder that was answered
\* (reorder_saved_filters, reorder_canned_responses).
THEOREM LastOrderStands == ListsSpec => []OrderKept
  <1>1. ListsIInv => OrderKept
    BY DEF ListsIInv
  <1>2. QED
    BY <1>1, ListsInvariant, PTL

\* No command overwrites a row that its sender did not know of.
THEOREM EditsWereSeen == ListsSpec => NoLostEdit
  <1>1. ASSUME ListsIInv, [ListsNext]_listsVars, NEW i \in Listed, rows'[i] # rows[i]
        PROVE  \E r \in Requests : /\ req[r].step = "commit" /\ i \in DOMAIN req[r].mine
                                   /\ SeenVersion(r, i) = rows[i].version
    <2>1. PICK r \in Requests : Commit(r)
      BY <1>1 DEF ListsNext, listsVars, Ask, Statement, Abort, DeadlockVictim, Withdraw
    <2>2. i \in DOMAIN req[r].mine /\ req[r].step = "commit"
      <3>1. i \in Ids
        BY DEF Listed
      <3>2. QED
        BY <1>1, <2>1, <3>1, CommitFacts
    <2>3. Writes(r, i) /\ rows[i] # Absent
      BY <1>1, <2>2 DEF ListsIInv, Complies, Listed
    <2>4. req[r].cmd.op \in {"update", "delete", "reorder"}
      BY <1>1, <2>2, <2>3, CommandIs DEF Writes
    <2>5. CASE req[r].cmd.op # "reorder"
      <3>1. SeenVersion(r, i) = req[r].cmd.version
        BY <2>5 DEF SeenVersion
      <3>2. QED
        BY <2>2, <2>3, <2>4, <2>5, <3>1 DEF Writes, Expected
    <2>6. CASE req[r].cmd.op = "reorder"
      <3>1. PICK items : items = req[r].cmd.items
        OBVIOUS
      <3>2. PICK k \in DOMAIN items : i = items[k][1] /\ rows[i].version = items[k][2]
        BY <2>3, <2>6, <3>1 DEF Writes, Expected
      <3>3. items \in Order
        BY <1>1, <2>2, <2>6, <3>1, CommandIs DEF Ordering
      <3>4. \A item \in Range(items) : item[1] = i => item = items[k]
        BY <3>2, <3>3 DEF Range, Order
      <3>5. items[k] \in Range(items)
        BY DEF Range
      <3>6. (CHOOSE item \in Range(items) : item[1] = i) = items[k]
        BY <3>2, <3>4, <3>5
      <3>7. SeenVersion(r, i) = items[k][2]
        BY <2>6, <3>1, <3>6 DEF SeenVersion
      <3>8. QED
        BY <2>2, <3>2, <3>7
    <2>7. QED
      BY <2>5, <2>6
  <1>2. ListsIInv /\ [ListsNext]_listsVars =>
          [\A i \in Listed : rows'[i] # rows[i] =>
             \E r \in Requests : /\ req[r].step = "commit" /\ i \in DOMAIN req[r].mine
                                 /\ SeenVersion(r, i) = rows[i].version]_listsVars
    BY <1>1
  <1>3. QED
    BY <1>2, ListsInvariant, PTL DEF ListsSpec, NoLostEdit

=============================================================================
