----------------------------- MODULE Circuits -----------------------------
(***************************************************************************)
(* The two constraint systems of crates/circuit: the open circuit          *)
(* (timestamp.rs) and the predicate circuit (timestamp_predicate.rs).      *)
(*                                                                         *)
(* An assignment gives a value to every cell, the public ones of the       *)
(* instance column and those the prover fills; a circuit is the relation   *)
(* that its gates and copy constraints ask of an assignment, whoever made  *)
(* it.  A sound proof shows that its prover has a satisfying assignment    *)
(* for the public cells.  Poseidon is any operator: nothing is assumed of  *)
(* it, and what is claimed holds unless two of its calls collide.  Calls   *)
(* of different lengths differ, as ConstantLength makes them.              *)
(***************************************************************************)
EXTENDS Integers

CONSTANTS
  TREE_DEPTH,   \* levels of the document tree (8 in the code)
  Modulus,      \* the field is 0 .. Modulus - 1 (the Pallas base field)
  Weight,       \* Weight[i] is 2^i
  Poseidon(_),  \* of a tuple of field elements
  CommitmentTag, LeafTag, NodeTag, ClaimTag,
  Candidates    \* the assignments of the predicate circuit that are looked at

ASSUME FieldAssumption ==
  /\ Modulus \in Nat \ {0, 1}
  /\ \A a, b \in 1 .. Modulus - 1 : (a * b) % Modulus # 0

ASSUME DepthAssumption ==
  /\ TREE_DEPTH \in Nat
  /\ Weight \in [0 .. TREE_DEPTH -> Nat]
  /\ Weight[0] = 1
  /\ \A i \in 0 .. TREE_DEPTH - 1 : Weight[i + 1] = 2 * Weight[i]
  /\ Weight[TREE_DEPTH] <= Modulus

Field  == 0 .. Modulus - 1
Levels == 0 .. TREE_DEPTH - 1

-----------------------------------------------------------------------------
(* The open circuit.  Its domain tag, too, is a cell that the prover fills. *)

OpenAssignment ==
  [commitment : Field, block_height : Field,
   domain_tag : Field, doc_hash_lo : Field, doc_hash_hi : Field, nonce : Field]

OpenCall(o) == <<o.domain_tag, o.doc_hash_lo, o.doc_hash_hi, o.nonce>>

OpenSatisfied(o) == Poseidon(OpenCall(o)) = o.commitment

-----------------------------------------------------------------------------
(* The predicate circuit *)

Assignment ==
  [commitment : Field, block_height : Field, claim_hash : Field,
   doc_root : Field, nonce : Field, field_index : Field, field_value : Field,
   path_bits : [Levels -> Field], siblings : [Levels -> Field],
   left : [Levels -> Field], right : [Levels -> Field],
   current : [0 .. TREE_DEPTH -> Field],  \* the hashes from the leaf up
   acc : [0 .. TREE_DEPTH -> Field]]      \* the sum in the composition gate

CommitmentCall(w) == <<CommitmentTag, w.doc_root, 0, w.nonce>>
LeafCall(index, value)  == <<LeafTag, index, value>>
ClaimCall(index, value) == <<ClaimTag, index, value>>
NodeCall(l, r) == <<NodeTag, l, r>>

\* The gate "merkle swap": one row per level.
SwapGate(cur, sib, bit, l, r) ==
  /\ (bit * (1 - bit)) % Modulus = 0
  /\ (l - ((1 - bit) * cur + bit * sib)) % Modulus = 0
  /\ (r - ((1 - bit) * sib + bit * cur)) % Modulus = 0

\* The gate "field_index bit composition".
ComposeGate(w) ==
  /\ w.acc[0] = 0
  /\ \A i \in Levels :
       w.acc[i + 1] = (w.acc[i] + w.path_bits[i] * Weight[i]) % Modulus
  /\ (w.field_index - w.acc[TREE_DEPTH]) % Modulus = 0

\* The fold from the leaf of index and value up to the root.
Folds(w) ==
  /\ w.current[0] = Poseidon(LeafCall(w.field_index, w.field_value))
  /\ \A i \in Levels :
       /\ SwapGate(w.current[i], w.siblings[i], w.path_bits[i], w.left[i], w.right[i])
       /\ w.current[i + 1] = Poseidon(NodeCall(w.left[i], w.right[i]))
  /\ w.current[TREE_DEPTH] = w.doc_root

\* No gate has block_height: the chain says what it is.
Satisfied(w) ==
  /\ ComposeGate(w)
  /\ Folds(w)
  /\ Poseidon(CommitmentCall(w)) = w.commitment
  /\ Poseidon(ClaimCall(w.field_index, w.field_value)) = w.claim_hash

ASSUME CandidatesAssumption == Candidates \subseteq Assignment

-----------------------------------------------------------------------------
(* Documents, and the assignment an honest prover makes of one *)

Positions(i) == 0 .. Weight[TREE_DEPTH - i] - 1

\* node is the tree of hashes over values, node[0] the leaves.
IsTree(node, values) ==
  /\ DOMAIN node = 0 .. TREE_DEPTH
  /\ \A i \in 0 .. TREE_DEPTH : node[i] \in [Positions(i) -> Field]
  /\ \A p \in Positions(0) : node[0][p] = Poseidon(LeafCall(p, values[p]))
  /\ \A i \in Levels : \A p \in Positions(i + 1) :
       node[i + 1][p] = Poseidon(NodeCall(node[i][2 * p], node[i][2 * p + 1]))

Root(node) == node[TREE_DEPTH][0]

Honest(node, values, index, nonce, height) ==
  LET at(i)      == index \div Weight[i]
      bit(i)     == at(i) % 2
      cur(i)     == node[i][at(i)]
      sibling(i) == node[i][IF bit(i) = 1 THEN at(i) - 1 ELSE at(i) + 1]
  IN  [commitment   |-> Poseidon(<<CommitmentTag, Root(node), 0, nonce>>),
       block_height |-> height,
       claim_hash   |-> Poseidon(ClaimCall(index, values[index])),
       doc_root     |-> Root(node),
       nonce        |-> nonce,
       field_index  |-> index,
       field_value  |-> values[index],
       path_bits    |-> [i \in Levels |-> bit(i)],
       siblings     |-> [i \in Levels |-> sibling(i)],
       left         |-> [i \in Levels |-> IF bit(i) = 0 THEN cur(i) ELSE sibling(i)],
       right        |-> [i \in Levels |-> IF bit(i) = 0 THEN sibling(i) ELSE cur(i)],
       current      |-> [i \in 0 .. TREE_DEPTH |-> cur(i)],
       acc          |-> [i \in 0 .. TREE_DEPTH |-> index % Weight[i]]]

-----------------------------------------------------------------------------
(* Properties *)

\* The call of the i-th hash on the way from the leaf into the commitment.
CallAt(w, i) ==
  CASE i = 0              -> LeafCall(w.field_index, w.field_value)
    [] i \in 1 .. TREE_DEPTH -> NodeCall(w.left[i - 1], w.right[i - 1])
    [] i = TREE_DEPTH + 1 -> CommitmentCall(w)

\* Two different calls at the same place of two assignments, one hash.
Collision(w, v) ==
  \E i \in 0 .. TREE_DEPTH + 1 :
    CallAt(w, i) # CallAt(v, i) /\ Poseidon(CallAt(w, i)) = Poseidon(CallAt(v, i))

\* A commitment fixes every field of its document: two proofs about the same
\* commitment and index are about the same value, whatever path bits, siblings
\* and swapped pairs their provers made up.
OneValuePerField ==
  \A w, v \in {u \in Candidates : Satisfied(u)} :
    w.commitment = v.commitment /\ w.field_index = v.field_index
      => w.field_value = v.field_value \/ Collision(w, v)

=============================================================================
