---------------------------- MODULE AiContract -----------------------------
(***************************************************************************)
(* What a caller of the AI gateway may rely on (AIGateway.generate_with_   *)
(* run): a call is refused without a run, or has one RUNNING run from its  *)
(* start; it returns a generation only after its run was completed, and    *)
(* raises "unavailable" only after its run was recorded as failed; a call  *)
(* whose task is cancelled or whose process dies returns nothing, and may  *)
(* leave the run RUNNING.  AiRuntime is shown to implement this.           *)
(***************************************************************************)
CONSTANT Calls

VARIABLES
    stage,          \* idle, calling, generated, unavailable or stopped
    run             \* ai.agent_run.run_status

contract == <<stage, run>>

Stages == {"idle", "calling", "generated", "unavailable", "stopped"}
RunStates == {"NONE", "RUNNING", "COMPLETED", "FAILED", "CANCELLED"}

ContractTypeOK == stage \in [Calls -> Stages] /\ run \in [Calls -> RunStates]

ContractInit ==
    /\ stage = [c \in Calls |-> "idle"]
    /\ run = [c \in Calls |-> "NONE"]

Move(c, s, r) == stage' = [stage EXCEPT ![c] = s] /\ run' = [run EXCEPT ![c] = r]

\* The run is committed before a provider is asked.
Ask(c) == stage[c] = "idle" /\ Move(c, "calling", "RUNNING")

Refuse(c) == stage[c] = "idle" /\ Move(c, "unavailable", "NONE")

Generate(c) == stage[c] = "calling" /\ Move(c, "generated", "COMPLETED")

Fail(c) == stage[c] = "calling" /\ Move(c, "unavailable", "FAILED")

\* The task of the caller is cancelled, or its process dies.
Stop(c) == stage[c] = "calling" /\ Move(c, "stopped", "RUNNING")

\* The cancellation is recorded after the caller is gone.
RecordStop(c) == stage[c] = "stopped" /\ run[c] = "RUNNING" /\ Move(c, "stopped", "CANCELLED")

\* A process may die with several calls.
StopAll(C) ==
    /\ \A c \in C : stage[c] = "calling"
    /\ stage' = [c \in Calls |-> IF c \in C THEN "stopped" ELSE stage[c]]
    /\ UNCHANGED run

ContractNext ==
    \/ \E c \in Calls : Ask(c) \/ Refuse(c) \/ Generate(c) \/ Fail(c) \/ Stop(c) \/ RecordStop(c)
    \/ \E C \in SUBSET Calls : StopAll(C)

ContractSpec == ContractInit /\ [][ContractNext]_contract

\* Nobody waits for ever: a call that was started ends, one way or another.
CallsEnd == \A c \in Calls : stage[c] = "calling" ~> stage[c] # "calling"

=============================================================================
