----------------------------- MODULE AiRuntime -----------------------------
(***************************************************************************)
(* The governed AI gateway (ai/service.py, resilience.py, repository.py)   *)
(* of one API process.  A call checks policy and budget and inserts a      *)
(* RUNNING run in one transaction, talks to the provider with retries, a   *)
(* circuit breaker per model and a fallback model outside any transaction, *)
(* and records the run's end in a last transaction; only a completed run   *)
(* gets a row in the usage ledger the budget is read from.                 *)
(*                                                                         *)
(* Every charged call costs 1.  The circuits live in the memory of the     *)
(* process and are lost with it.                                           *)
(***************************************************************************)
EXTENDS Naturals, FiniteSets

CONSTANTS
    Calls,          \* generate_with_run calls
    Policies,       \* approved feature policies in effect: [rank, enabled, budget]
    HasFallback,    \* the model policy names a fallback model
    MaxAttempts,    \* executor maximum_attempts
    Threshold,      \* circuit failure_threshold
    MaxCrashes      \* bound on process crashes

NoBudget == 0

ASSUME PoliciesAssumption ==
    \A p \in Policies : p.rank \in 0 .. 4 /\ p.enabled \in BOOLEAN /\ p.budget \in Nat
ASSUME RuntimeAssumption ==
    /\ IsFiniteSet(Calls)
    /\ HasFallback \in BOOLEAN
    /\ MaxAttempts \in Nat \ {0} /\ Threshold \in Nat \ {0} /\ MaxCrashes \in Nat

Models == {"primary", "fallback"}

VARIABLES
    call,           \* call[c]: where the call is, and on which model and attempt
    run,            \* ai.agent_run.run_status, NONE before start_run
    circuit,        \* circuit[m]: [failures, open, recovered]
    ledger,         \* calls with an ai.usage_ledger row
    charged,        \* calls a provider answered, so that they cost money
    peak,           \* the largest number of calls that were ever under way
    crashes

vars == <<call, run, circuit, ledger, charged, peak, crashes>>

Steps == {"idle", "permit", "waiting", "answered", "failing", "cancelling",
          "done", "unavailable", "stopped"}
Live  == {"permit", "waiting", "answered", "failing", "cancelling"}

TypeOK ==
    /\ call \in [Calls -> [step : Steps, model : Models, attempt : 1 .. MaxAttempts]]
    /\ run \in [Calls -> {"NONE", "RUNNING", "COMPLETED", "FAILED", "CANCELLED"}]
    /\ circuit \in [Models -> [failures : Nat, open : BOOLEAN, recovered : BOOLEAN]]
    /\ ledger \subseteq Calls /\ charged \subseteq Calls
    /\ peak \in 0 .. Cardinality(Calls)
    /\ crashes \in 0 .. MaxCrashes

-----------------------------------------------------------------------------
(* Policy and budget *)

\* The most specific policy decides on the budget, all of them on the switch.
Selected == CHOOSE p \in Policies : \A q \in Policies : q.rank <= p.rank

Enabled == Policies # {} /\ \A p \in Policies : p.enabled

\* Mutant of HardStop: the ledger compared after the budget is passed.
HardStop_Late ==
    Selected.budget # NoBudget /\ Cardinality(ledger) > Selected.budget

\* _BUDGET_AND_RATE: what is recorded as spent has reached the budget.
HardStop == Selected.budget # NoBudget /\ Cardinality(ledger) >= Selected.budget

\* A circuit without failures, as success leaves it.
Fresh == [failures |-> 0, open |-> FALSE, recovered |-> FALSE]

UnderWay == {c \in Calls : call[c].step \in Live}

At(step, model, attempt) == [step |-> step, model |-> model, attempt |-> attempt]
Go(c, step) == call' = [call EXCEPT ![c].step = step]

Init ==
    /\ call = [c \in Calls |-> At("idle", "primary", 1)]
    /\ run = [c \in Calls |-> "NONE"]
    /\ circuit = [m \in Models |-> Fresh]
    /\ ledger = {} /\ charged = {}
    /\ peak = 0 /\ crashes = 0

\* effective_policy and start_run commit together.
StartCall(c) ==
    /\ call[c].step = "idle"
    /\ Enabled
    /\ ~HardStop
    /\ run' = [run EXCEPT ![c] = "RUNNING"]
    /\ Go(c, "permit")
    /\ peak' = LET n == Cardinality(UnderWay) + 1 IN IF n > peak THEN n ELSE peak
    /\ UNCHANGED <<circuit, ledger, charged, crashes>>

\* AIDisabledError: switched off, over budget, over the rate or a token limit,
\* or a model alias that is not deployed.
RefuseCall(c) ==
    /\ call[c].step = "idle"
    /\ Go(c, "unavailable")
    /\ UNCHANGED <<run, circuit, ledger, charged, peak, crashes>>

-----------------------------------------------------------------------------
(* ResilientProviderExecutor and CircuitBreaker *)

\* generate: what follows when _attempt on the current model has raised.
GiveUp(c) ==
    IF call[c].model = "primary" /\ HasFallback
    THEN call' = [call EXCEPT ![c] = At("permit", "fallback", 1)]
    ELSE Go(c, "failing")

\* permit after the recovery time: closed, and every request let through.
Recovered(s) == Fresh

\* A circuit that is open and not recovered raises CircuitOpenError, which is
\* not counted as a failure of the model.
Permit(c) ==
    LET m == call[c].model IN
    /\ call[c].step = "permit"
    /\ IF circuit[m].open /\ ~circuit[m].recovered
       THEN GiveUp(c) /\ UNCHANGED circuit
       ELSE /\ Go(c, "waiting")
            /\ circuit' = [circuit EXCEPT ![m] = IF @.open THEN Recovered(@) ELSE @]
    /\ UNCHANGED <<run, ledger, charged, peak, crashes>>

\* provider.generate returns: the circuit of the model starts afresh, whatever
\* happened to it since this request was permitted.
ProviderAnswers(c) ==
    /\ call[c].step = "waiting"
    /\ circuit' = [circuit EXCEPT ![call[c].model] = Fresh]
    /\ charged' = charged \cup {c}
    /\ Go(c, "answered")
    /\ UNCHANGED <<run, ledger, peak, crashes>>

\* failure: counts, and from the threshold on (re)opens the circuit.
AfterFailure(s) ==
    IF s.failures + 1 >= Threshold
    THEN [failures |-> s.failures + 1, open |-> TRUE, recovered |-> FALSE]
    ELSE [s EXCEPT !.failures = @ + 1]

\* The next round of the for loop of _attempt, or its end.
Retry(c) ==
    IF call[c].attempt < MaxAttempts
    THEN call' = [call EXCEPT ![c].step = "permit", ![c].attempt = @ + 1]
    ELSE GiveUp(c)

\* A timeout or a ProviderError; one that is not retryable ends _attempt.
ProviderFails(c, retryable) ==
    /\ call[c].step = "waiting"
    /\ circuit' = [circuit EXCEPT ![call[c].model] = AfterFailure(@)]
    /\ IF retryable THEN Retry(c) ELSE GiveUp(c)
    /\ UNCHANGED <<run, ledger, charged, peak, crashes>>

\* recovery_seconds have passed since the circuit opened.
CircuitRecovers(m) ==
    /\ circuit[m].open /\ ~circuit[m].recovered
    /\ circuit' = [circuit EXCEPT ![m].recovered = TRUE]
    /\ UNCHANGED <<call, run, ledger, charged, peak, crashes>>

-----------------------------------------------------------------------------
(* The end of a call *)

\* The allow-list and tool-limit checks on the answer.
RejectAnswer(c) ==
    /\ call[c].step = "answered"
    /\ Go(c, "failing")
    /\ UNCHANGED <<run, circuit, ledger, charged, peak, crashes>>

Metered(c) == ledger \cup {c}

\* complete_run: the run and its ledger row in one transaction.
CompleteRun(c) ==
    /\ call[c].step = "answered"
    /\ run' = [run EXCEPT ![c] = "COMPLETED"]
    /\ ledger' = Metered(c)
    /\ Go(c, "done")
    /\ UNCHANGED <<circuit, charged, peak, crashes>>

FailRun(c) ==
    /\ call[c].step = "failing"
    /\ run' = [run EXCEPT ![c] = "FAILED"]
    /\ Go(c, "unavailable")
    /\ UNCHANGED <<circuit, ledger, charged, peak, crashes>>

\* Mutant of CancelCall: cancelled in the executor, recorded as unavailable.
CancelCall_AsUnavailable(c) ==
    /\ call[c].step \in Live \ {"cancelling"}
    /\ Go(c, IF call[c].step \in {"permit", "waiting"} THEN "unavailable" ELSE "stopped")
    /\ UNCHANGED <<run, circuit, ledger, charged, peak, crashes>>

\* The caller's task is cancelled.  Inside the executor that is caught and
\* recorded; while the end of the call is being recorded it is not, and the
\* run stays RUNNING.
CancelCall(c) ==
    /\ call[c].step \in Live \ {"cancelling"}
    /\ Go(c, IF call[c].step \in {"permit", "waiting"} THEN "cancelling" ELSE "stopped")
    /\ UNCHANGED <<run, circuit, ledger, charged, peak, crashes>>

CancelRun(c) ==
    /\ call[c].step = "cancelling"
    /\ run' = [run EXCEPT ![c] = "CANCELLED"]
    /\ Go(c, "stopped")
    /\ UNCHANGED <<circuit, ledger, charged, peak, crashes>>

\* The process dies with its calls and its circuits; runs stay as they are.
Crash ==
    /\ crashes < MaxCrashes
    /\ crashes' = crashes + 1
    /\ call' = [c \in Calls |-> IF c \in UnderWay
                                THEN [call[c] EXCEPT !.step = "stopped"] ELSE call[c]]
    /\ circuit' = [m \in Models |-> Fresh]
    /\ UNCHANGED <<run, ledger, charged, peak>>

-----------------------------------------------------------------------------

CallStep(c) ==
    \/ Permit(c)
    \/ ProviderAnswers(c)
    \/ \E retryable \in BOOLEAN : ProviderFails(c, retryable)
    \/ RejectAnswer(c)
    \/ CompleteRun(c)
    \/ FailRun(c)
    \/ CancelRun(c)

Next ==
    \/ \E c \in Calls : StartCall(c) \/ RefuseCall(c) \/ CallStep(c) \/ CancelCall(c)
    \/ \E m \in Models : CircuitRecovers(m)
    \/ Crash

Spec == Init /\ [][Next]_vars

\* The event loop goes on with every call; clocks and callers owe nothing.
FairSpec == Spec /\ \A c \in Calls : WF_vars(CallStep(c))

-----------------------------------------------------------------------------
(* What the gateway promises *)

\* The budget is read without being reserved, so calls that were under way
\* together may all pass the hard stop; never does more get recorded than the
\* budget and the other calls that were ever under way at once.
SpendBounded ==
    Enabled /\ Selected.budget # NoBudget =>
        Cardinality(ledger) + Cardinality(UnderWay) <= (Selected.budget - 1) + peak

\* What a caller sees of a call.
stage == [c \in Calls |->
    CASE call[c].step \in Live \ {"cancelling"} -> "calling"
      [] call[c].step = "done" -> "generated"
      [] call[c].step \in {"cancelling", "stopped"} -> "stopped"
      [] OTHER -> call[c].step]

Contract == INSTANCE AiContract

\* The gateway keeps its contract: no generation without a completed run, no
\* "unavailable" while the run is open, nothing recorded twice, and every call
\* that was started comes to its end, because a provider call ends by its
\* timeout, the attempts and the one fallback are bounded, and an open circuit
\* refuses at once (_attempt, generate).
ImplementsContract == Contract!ContractSpec /\ Contract!CallsEnd

=============================================================================
