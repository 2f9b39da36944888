---------------------------- MODULE MCRateLimit ----------------------------
(* Two keys, two requests per window of three ticks, three windows. *)
EXTENDS RateLimit, TLC

CONSTANTS k1, k2

TwoKeys  == {k1, k2}
Symmetry == Permutations(TwoKeys)
=============================================================================
