----------------------------- MODULE MCKnowledge -----------------------------
(***************************************************************************)
(* Two documents, the first of which is canonical; three requests,         *)
(* interchangeable because each is served once.                            *)
(***************************************************************************)
EXTENDS Knowledge, TLC

\* The canonical document never changes; the other one may get new content.
Content == <<1, 2>>

\* A canonical document nobody has approved yet beside a copy that users
\* already find; and a published corpus that suppresses an unpublished copy.
Tenants == {[stage |-> <<"DRAFT", "LIVE">>, published |-> FALSE],
            [stage |-> <<"LIVE", "APPROVED">>, published |-> TRUE]}

RequestSymmetry == Permutations(Requests)
=============================================================================
