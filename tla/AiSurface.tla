----------------------------- MODULE AiSurface -----------------------------
(***************************************************************************)
(* What the employee agent and the analyst copilot have in common: each    *)
(* relies on the contract of the AI gateway (AiContract), and the process  *)
(* that serves it may die between any two of its transactions.             *)
(***************************************************************************)
EXTENDS Naturals, AiContract

CONSTANT MaxCrashes     \* bound on process crashes

ASSUME CrashAssumption == MaxCrashes \in Nat

VARIABLE crashes

ProcessDies == crashes < MaxCrashes /\ crashes' = crashes + 1

=============================================================================
