-------------------------- MODULE MCEmployeeAgent --------------------------
(***************************************************************************)
(* One conversation with two turns, so that a cancelled turn still streams *)
(* while the next one runs, two feedback or confirmation requests and a    *)
(* crash.                                                                  *)
(***************************************************************************)
EXTENDS EmployeeAgent

=============================================================================
