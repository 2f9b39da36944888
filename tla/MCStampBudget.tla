--------------------------- MODULE MCStampBudget ---------------------------
(* Small instances of the file-backed stamp budget. *)
EXTENDS StampBudget, TLC

CONSTANTS r1, r2, r3, r4, r5, c1, c2, c3

FiveRequests  == {r1, r2, r3, r4, r5}
ThreeClients  == {c1, c2, c3}

\* Requests and clients are interchangeable.
Symmetry == Permutations(FiveRequests) \cup Permutations(ThreeClients)
=============================================================================
