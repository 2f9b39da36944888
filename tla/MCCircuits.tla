---------------------------- MODULE MCCircuits ----------------------------
(* The circuits over trees of four leaves and the field of five elements.  *)
EXTENDS Circuits, Sequences, Folds

Five   == 0 .. 4
Values == {1, 2}

TwoLevels == [i \in 0 .. 2 |-> 2 ^ i]

\* A hash that mixes its arguments by their place.
SmallHash(call) ==
  MapThenFoldSet(LAMBDA a, b : (a + b) % 5, 1, LAMBDA i : (i + call[i]) * (i + call[i]) * i,
                 LAMBDA S : CHOOSE i \in S : TRUE, DOMAIN call)

\* The swap rows over a node that its gate accepts.
Swaps(cur) ==
  {s \in [sib : Five, bit : Five, left : Five, right : Five] :
     SwapGate(cur, s.sib, s.bit, s.left, s.right)}

Above(s) == SmallHash(NodeCall(s.left, s.right))

\* The assignment whose hashes, sums and public cells follow from its leaf and
\* two swap rows; the index may be another than the path's.
Assigned(index, value, s, t) ==
  [commitment   |-> SmallHash(<<CommitmentTag, Above(t), 0, 3>>),
   block_height |-> 0,
   claim_hash   |-> SmallHash(ClaimCall(index, value)),
   doc_root     |-> Above(t),
   nonce        |-> 3,
   field_index  |-> index,
   field_value  |-> value,
   path_bits    |-> [i \in 0 .. 1 |-> IF i = 0 THEN s.bit ELSE t.bit],
   siblings     |-> [i \in 0 .. 1 |-> IF i = 0 THEN s.sib ELSE t.sib],
   left         |-> [i \in 0 .. 1 |-> IF i = 0 THEN s.left ELSE t.left],
   right        |-> [i \in 0 .. 1 |-> IF i = 0 THEN s.right ELSE t.right],
   current      |-> [i \in 0 .. 2 |-> CASE i = 0 -> SmallHash(LeafCall(index, value))
                                        [] i = 1 -> Above(s)
                                        [] i = 2 -> Above(t)],
   acc          |-> [i \in 0 .. 2 |-> CASE i = 0 -> 0
                                        [] i = 1 -> s.bit
                                        [] i = 2 -> (s.bit + 2 * t.bit) % 5]]

SmallCandidates ==
  UNION {UNION {{Assigned(index, value, s, t) : t \in Swaps(Above(s))} :
                  s \in Swaps(SmallHash(LeafCall(index, value)))} :
           index \in Five, value \in Values}

Tree(values) ==
  LET node[i \in 0 .. TREE_DEPTH] ==
        [p \in Positions(i) |->
           IF i = 0 THEN Poseidon(LeafCall(p, values[p]))
           ELSE Poseidon(NodeCall(node[i - 1][2 * p], node[i - 1][2 * p + 1]))]
  IN  node

\* What an honest prover assigns satisfies the circuit, for every document and
\* field, and is typed as the theorems about it say.
ASSUME HonestCheck ==
  \A values \in [Positions(0) -> Values] : \A index \in Positions(0) :
    LET w == Honest(Tree(values), values, index, 3, 0)
    IN  IsTree(Tree(values), values) /\ w \in Assignment /\ Satisfied(w)

\* The theorem FieldsAreBound on this instance: all that the gates accept.
ASSUME SmallFieldCheck == OneValuePerField
=============================================================================
