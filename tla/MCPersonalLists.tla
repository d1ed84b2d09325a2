--------------------------- MODULE MCPersonalLists ---------------------------
(***************************************************************************)
(* Instances of PersonalLists for TLC: a list of two rows and three        *)
(* commands that overlap in every way, two of them perhaps with one key.   *)
(***************************************************************************)
EXTENDS PersonalLists, TLC

MCInitial == <<"a", "b", "c">>

MCSymmetry == Permutations(Requests) \cup Permutations(Keys)

=============================================================================
