-------------------------- MODULE MCAccessControl --------------------------
(***************************************************************************)
(* Two administrators and a newcomer nobody has provisioned; three         *)
(* requests, interchangeable because each is served once.                  *)
(***************************************************************************)
EXTENDS AccessControl, TLC

CONSTANTS ann, bob, new, u1, u2, u3, u4

Linked == ann :> u1 @@ bob :> u2 @@ new :> None

RequestSymmetry == Permutations(Requests)
=============================================================================
