---------------------------- MODULE MCReceipts ----------------------------
(* Two receipts over two documents, three blocks, one of them reorganized; *)
(* the circuits as MCCircuits has them.                                    *)
EXTENDS Receipts, MCCircuits, TLC

CONSTANTS r1, r2, d1, d2

TwoReceipts == {r1, r2}
TwoDocs     == {d1, d2}
TwoClaims   == {0, 2}
Symmetry    == Permutations(TwoReceipts) \cup Permutations(TwoDocs)
=============================================================================
