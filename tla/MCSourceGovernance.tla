------------------------- MODULE MCSourceGovernance -------------------------
(***************************************************************************)
(* One source with two entries; three requests, interchangeable because    *)
(* each is served once; two interchangeable administrators, one owning it. *)
(***************************************************************************)
EXTENDS SourceGovernance, TLC

OneOwner == {{u} : u \in Users}

\* One entry, and both entries in either order.
Imports == {<<<<s, k>>>> : s \in Sources, k \in Keys}
             \cup {<<<<s, k>>, <<s, l>>>> : s \in Sources, k \in Keys, l \in Keys}
OfDistinct == {m \in Imports : \A i, j \in DOMAIN m : m[i] = m[j] => i = j}

Stages == [Sources -> {"absent", "manual", "granted"}]

Interchangeable == Permutations(Requests) \cup Permutations(Users)
=============================================================================
