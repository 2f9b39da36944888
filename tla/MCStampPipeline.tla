-------------------------- MODULE MCStampPipeline --------------------------
(* Small instances of the whole stamp route with its wallet. *)
EXTENDS StampPipeline, TLC

CONSTANTS r1, r2, r3, c1

TwoRequests   == {r1, r2}
ThreeRequests == {r1, r2, r3}
OneClient     == {c1}
Symmetry      == Permutations(ThreeRequests)
=============================================================================
