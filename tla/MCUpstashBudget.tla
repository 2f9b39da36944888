-------------------------- MODULE MCUpstashBudget --------------------------
(* Small instances of the Upstash budget: two days of three ticks. *)
EXTENDS UpstashBudget, TLC

CONSTANTS r1, r2, r3, c1, c2

TwoRequests   == {r1, r2}
ThreeRequests == {r1, r2, r3}
OneClient     == {c1}
TwoClients    == {c1, c2}
Symmetry      == Permutations(ThreeRequests) \cup Permutations(TwoClients)
=============================================================================
