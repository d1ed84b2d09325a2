----------------------------- MODULE MCIngestion -----------------------------
(***************************************************************************)
(* An instance of Ingestion for TLC: two workers, and four sets of bounds  *)
(* explored in one run.                                                    *)
(***************************************************************************)
EXTENDS Ingestion

CONSTANTS p1, p2, c1, c2

Bounds(P, C, r, a, e, k, l) ==
    [pages |-> P, contents |-> C, runs |-> r, attempts |-> a, edits |-> e,
     crashes |-> k, lost |-> l]

\* One run of two pages with a crash; one page with more faults, and with an administrator at
\* work; and two runs over one page that changes.
Instances == {Bounds({p1, p2}, {c1}, 1, 2, 0, 1, 0),
              Bounds({p1}, {c1}, 1, 2, 0, 1, 1),
              Bounds({p1}, {c1}, 1, 2, 2, 0, 0),
              Bounds({p1}, {c1, c2}, 2, 1, 0, 0, 0)}
==============================================================================
