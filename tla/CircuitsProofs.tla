-------------------------- MODULE CircuitsProofs --------------------------
(***************************************************************************)
(* What the constraints of the circuits bind, proved for every prime       *)
(* field, every depth of the tree that the field has room for, and every   *)
(* assignment.  Nothing is assumed of Poseidon.                            *)
(***************************************************************************)
EXTENDS Circuits, WellFoundedInduction, TLAPS

-----------------------------------------------------------------------------
(* Induction over the levels of the tree, upwards and downwards *)

LessThan == {ss \in Nat \X Nat : ss[1] < ss[2]}

LEMMA LeastElement ==
  ASSUME NEW S, S \subseteq Nat, S # {}
  PROVE  \E x \in S : \A y \in S : x <= y
<1>1. IsWellFoundedOn(LessThan, Nat)
  <2>1. LessThan = OpToRel(<, Nat)
    BY Zenon DEF LessThan, OpToRel
  <2> QED
    BY <2>1, NatLessThanWellFounded, Zenon
<1>2. PICK x \in S : \A y \in S : ~(<<y, x>> \in LessThan)
  BY <1>1, WFMin, Zenon
<1>3. ASSUME NEW y \in S PROVE x <= y
  <2>1. x \in Nat /\ y \in Nat /\ ~(<<y, x>> \in LessThan)
    BY <1>2
  <2> QED
    BY <2>1 DEF LessThan
<1> QED
  BY <1>3

LEMMA Upwards ==
  ASSUME NEW S, NEW n \in Nat, 0 \in S, \A i \in 0 .. n - 1 : i \in S => i + 1 \in S
  PROVE  \A i \in 0 .. n : i \in S
<1> DEFINE T == {i \in 0 .. n : i \notin S}
<1>1. CASE T = {}
  BY <1>1
<1>2. ASSUME T # {} PROVE FALSE
  <2>1. T \subseteq Nat
    OBVIOUS
  <2>2. PICK x \in T : \A y \in T : x <= y
    <3> HIDE DEF T
    <3> QED
      BY <1>2, <2>1, LeastElement
  <2>3. x \in 0 .. n /\ x # 0 /\ x \notin S
    BY <2>2
  <2>4. x - 1 \in 0 .. n - 1 /\ ~(x <= x - 1) /\ (x - 1) + 1 = x
    BY <2>3
  <2>5. x - 1 \notin T
    BY <2>2, <2>4
  <2>6. x - 1 \in S
    BY <2>4, <2>5
  <2> QED
    BY <2>3, <2>4, <2>6
<1> QED
  BY <1>1, <1>2

LEMMA Downwards ==
  ASSUME NEW S, NEW n \in Nat, n \in S, \A i \in 0 .. n - 1 : i + 1 \in S => i \in S
  PROVE  \A i \in 0 .. n : i \in S
<1> DEFINE T == {j \in 0 .. n : n - j \in S}
<1>1. 0 \in T
  OBVIOUS
<1>2. ASSUME NEW j \in 0 .. n - 1, j \in T PROVE j + 1 \in T
  <2>1. n - (j + 1) \in 0 .. n - 1 /\ (n - (j + 1)) + 1 = n - j
    OBVIOUS
  <2> QED
    BY <1>2, <2>1
<1>3. \A j \in 0 .. n : j \in T
  <2> HIDE DEF T
  <2> QED
    BY <1>1, <1>2, Upwards
<1>4. ASSUME NEW i \in 0 .. n PROVE i \in S
  <2>1. n - i \in 0 .. n /\ n - (n - i) = i
    OBVIOUS
  <2> QED
    BY <1>3, <2>1
<1> QED
  BY <1>4

-----------------------------------------------------------------------------
(* The field *)

LEMMA Divided ==
  ASSUME NEW m \in Nat \ {0}, NEW x \in Int
  PROVE  x \div m \in Int /\ x % m \in 0 .. m - 1 /\ x = m * (x \div m) + (x % m)
<1>1. PICK q, r : q = x \div m /\ r = x % m
  OBVIOUS
<1>2. q \in Int /\ r \in 0 .. m - 1
  BY <1>1
<1>3. x = m * q + r
  BY <1>1
<1> QED
  BY <1>1, <1>2, <1>3

LEMMA Quotient ==
  ASSUME NEW m \in Nat \ {0}, NEW x \in Int, NEW q \in Int, NEW r \in 0 .. m - 1,
         x = m * q + r
  PROVE  x \div m = q /\ x % m = r
BY SMT

LEMMA NegatedZero ==
  ASSUME NEW m \in Nat \ {0}, NEW x \in Int, NEW y \in Int, y = -x, y % m = 0
  PROVE  x % m = 0
<1>1. PICK k \in Int : k = y \div m /\ y = m * k + (y % m)
  BY Divided
<1>2. y = m * k
  BY <1>1
<1>3. 0 - k \in Int /\ x = m * (0 - k) + 0
  BY <1>2
<1> QED
  BY <1>3, Quotient

LEMMA FieldFacts ==
  ASSUME NEW x \in Field
  PROVE  /\ x \in Nat /\ x % Modulus = x
         /\ \A y \in Field : (x - y) % Modulus = 0 <=> x = y
BY FieldAssumption DEF Field

\* What the gate's first polynomial is for: a prime field has no other roots.
LEMMA BitIsBoolean ==
  ASSUME NEW bit \in Field
  PROVE  (bit * (1 - bit)) % Modulus = 0 <=> bit \in {0, 1}
<1>1. ASSUME bit \in {0, 1} PROVE (bit * (1 - bit)) % Modulus = 0
  BY <1>1, FieldFacts, FieldAssumption DEF Field
<1>2. ASSUME bit \notin {0, 1}, (bit * (1 - bit)) % Modulus = 0 PROVE FALSE
  <2>1. bit \in 1 .. Modulus - 1 /\ bit - 1 \in 1 .. Modulus - 1
    BY <1>2, FieldAssumption DEF Field
  <2>2. (bit * (bit - 1)) % Modulus # 0
    BY <2>1, FieldAssumption
  <2>3. /\ bit * (1 - bit) = -(bit * (bit - 1))
        /\ bit * (1 - bit) \in Int /\ bit * (bit - 1) \in Int
    BY <2>1
  <2> QED
    BY <1>2, <2>2, <2>3, NegatedZero, FieldAssumption
<1> QED
  BY <1>1, <1>2

\* The swap gate is exact: it accepts the pair in the order that a Boolean bit
\* says, and nothing else.
THEOREM SwapGateExact ==
  ASSUME NEW cur \in Field, NEW sib \in Field, NEW bit \in Field,
         NEW l \in Field, NEW r \in Field
  PROVE  SwapGate(cur, sib, bit, l, r)
           <=> \/ bit = 0 /\ l = cur /\ r = sib
               \/ bit = 1 /\ l = sib /\ r = cur
<1>0. cur \in Int /\ sib \in Int /\ l \in Int /\ r \in Int
  BY FieldAssumption DEF Field
<1>1. SwapGate(cur, sib, bit, l, r) => bit \in {0, 1}
  BY BitIsBoolean DEF SwapGate
<1>2. ASSUME bit = 0
      PROVE  SwapGate(cur, sib, bit, l, r) <=> l = cur /\ r = sib
  <2>1. /\ l - ((1 - bit) * cur + bit * sib) = l - cur
        /\ r - ((1 - bit) * sib + bit * cur) = r - sib
    BY <1>0, <1>2
  <2>2. (l - cur) % Modulus = 0 <=> l = cur
    BY FieldFacts, FieldAssumption
  <2>3. (r - sib) % Modulus = 0 <=> r = sib
    BY FieldFacts, FieldAssumption
  <2> QED
    BY <1>2, <2>1, <2>2, <2>3, BitIsBoolean DEF SwapGate
<1>3. ASSUME bit = 1
      PROVE  SwapGate(cur, sib, bit, l, r) <=> l = sib /\ r = cur
  <2>1. /\ l - ((1 - bit) * cur + bit * sib) = l - sib
        /\ r - ((1 - bit) * sib + bit * cur) = r - cur
    BY <1>0, <1>3
  <2>2. (l - sib) % Modulus = 0 <=> l = sib
    BY FieldFacts, FieldAssumption
  <2>3. (r - cur) % Modulus = 0 <=> r = cur
    BY FieldFacts, FieldAssumption
  <2> QED
    BY <1>3, <2>1, <2>2, <2>3, BitIsBoolean DEF SwapGate
<1> QED
  BY <1>1, <1>2, <1>3

-----------------------------------------------------------------------------
(* The composition gate *)

LEMMA Weights ==
  \A i \in 0 .. TREE_DEPTH :
    Weight[i] \in Nat \ {0} /\ Weight[i] <= Weight[TREE_DEPTH]
<1> DEFINE Positive == {i \in 0 .. TREE_DEPTH : Weight[i] \in Nat \ {0}}
           Bounded  == {i \in 0 .. TREE_DEPTH : Weight[i] <= Weight[TREE_DEPTH]}
<1>0. TREE_DEPTH \in Nat
  BY DepthAssumption
<1>1. \A i \in 0 .. TREE_DEPTH : i \in Positive
  <2>1. 0 \in Positive
    BY DepthAssumption
  <2>2. ASSUME NEW i \in 0 .. TREE_DEPTH - 1, i \in Positive PROVE i + 1 \in Positive
    <3>1. Weight[i + 1] = 2 * Weight[i] /\ i + 1 \in 0 .. TREE_DEPTH
      BY DepthAssumption
    <3> QED
      BY <2>2, <3>1
  <2> HIDE DEF Positive
  <2> QED
    BY <1>0, <2>1, <2>2, Upwards
<1>2. \A i \in 0 .. TREE_DEPTH : i \in Bounded
  <2>1. TREE_DEPTH \in Bounded
    BY DepthAssumption
  <2>2. ASSUME NEW i \in 0 .. TREE_DEPTH - 1, i + 1 \in Bounded PROVE i \in Bounded
    <3>1. Weight[i + 1] = 2 * Weight[i] /\ i \in 0 .. TREE_DEPTH
      BY DepthAssumption
    <3>2. Weight[i] \in Nat /\ Weight[TREE_DEPTH] \in Nat
      BY <3>1, DepthAssumption
    <3> QED
      BY <2>2, <3>1, <3>2
  <2> HIDE DEF Bounded
  <2> QED
    BY <1>0, <2>1, <2>2, Downwards
<1> QED
  BY <1>1, <1>2

LEMMA LevelWeights ==
  ASSUME NEW i \in Levels
  PROVE  /\ i \in 0 .. TREE_DEPTH /\ i + 1 \in 0 .. TREE_DEPTH
         /\ Weight[i] \in Nat \ {0} /\ Weight[i + 1] = 2 * Weight[i]
         /\ Weight[i + 1] <= Modulus
<1>1. i \in 0 .. TREE_DEPTH /\ i + 1 \in 0 .. TREE_DEPTH
  BY DepthAssumption DEF Levels
<1>2. Weight[i + 1] = 2 * Weight[i]
  BY DepthAssumption DEF Levels
<1>3. Weight[TREE_DEPTH] \in Nat /\ Weight[TREE_DEPTH] <= Modulus
  BY DepthAssumption
<1> QED
  BY <1>1, <1>2, <1>3, Weights, FieldAssumption

\* One binary digit more.
LEMMA Digit ==
  ASSUME NEW m \in Nat \ {0}, NEW x \in Int, NEW b \in {0, 1}, NEW r \in 0 .. m - 1,
         x % (2 * m) = r + b * m
  PROVE  x % m = r /\ (x \div m) % 2 = b
<1>1. PICK q \in Int : x = (2 * m) * q + (r + b * m)
  <2>1. 2 * m \in Nat \ {0}
    OBVIOUS
  <2>2. x \div (2 * m) \in Int /\ x = (2 * m) * (x \div (2 * m)) + (x % (2 * m))
    BY <2>1, Divided
  <2> QED
    BY <2>2
<1>2. 2 * q + b \in Int /\ x = m * (2 * q + b) + r
  BY <1>1
<1>3. x \div m = 2 * q + b /\ x % m = r
  BY <1>2, Quotient
<1>4. (2 * q + b) % 2 = b
  OBVIOUS
<1> QED
  BY <1>3, <1>4

LEMMA Cells ==
  ASSUME NEW w \in Assignment
  PROVE  /\ w.field_index \in Field /\ w.field_value \in Field
         /\ w.doc_root \in Field /\ w.nonce \in Field
         /\ \A i \in Levels : /\ w.path_bits[i] \in Field /\ w.siblings[i] \in Field
                            /\ w.left[i] \in Field /\ w.right[i] \in Field
         /\ \A i \in 0 .. TREE_DEPTH : w.current[i] \in Field /\ w.acc[i] \in Field
BY DEF Assignment

\* The swap of each level, as SwapGateExact reads the gate.
LEMMA Swapped ==
  ASSUME NEW w \in Assignment, Folds(w), NEW i \in Levels
  PROVE  \/ /\ w.path_bits[i] = 0
            /\ w.left[i] = w.current[i] /\ w.right[i] = w.siblings[i]
         \/ /\ w.path_bits[i] = 1
            /\ w.left[i] = w.siblings[i] /\ w.right[i] = w.current[i]
<1>1. SwapGate(w.current[i], w.siblings[i], w.path_bits[i], w.left[i], w.right[i])
  BY DEF Folds
<1>2. /\ w.current[i] \in Field /\ w.siblings[i] \in Field /\ w.path_bits[i] \in Field
      /\ w.left[i] \in Field /\ w.right[i] \in Field
  BY Cells, LevelWeights
<1> QED
  BY <1>1, <1>2, SwapGateExact

\* The sums never wrap around, because the field has room for every index.
LEMMA Sums ==
  ASSUME NEW w \in Assignment, ComposeGate(w),
         \A i \in Levels : w.path_bits[i] \in {0, 1}
  PROVE  /\ \A i \in 0 .. TREE_DEPTH : w.acc[i] \in 0 .. Weight[i] - 1
         /\ \A i \in Levels : w.acc[i + 1] = w.acc[i] + w.path_bits[i] * Weight[i]
         /\ w.acc[TREE_DEPTH] = w.field_index
<1> DEFINE S == {i \in 0 .. TREE_DEPTH : w.acc[i] \in 0 .. Weight[i] - 1}
<1>0. TREE_DEPTH \in Nat
  BY DepthAssumption
<1>1. ASSUME NEW i \in Levels, w.acc[i] \in 0 .. Weight[i] - 1
      PROVE  /\ w.acc[i + 1] = w.acc[i] + w.path_bits[i] * Weight[i]
             /\ w.acc[i + 1] \in 0 .. Weight[i + 1] - 1
  <2> DEFINE sum == w.acc[i] + w.path_bits[i] * Weight[i]
  <2>1. w.path_bits[i] \in {0, 1}
    OBVIOUS
  <2>2. sum \in 0 .. Weight[i + 1] - 1
    BY <1>1, <2>1, LevelWeights
  <2>3. sum \in Field
    BY <2>2, LevelWeights, FieldAssumption DEF Field
  <2>4. w.acc[i + 1] = sum % Modulus
    BY DEF ComposeGate
  <2> HIDE DEF sum
  <2>5. sum % Modulus = sum
    BY <2>3, FieldFacts
  <2> QED
    BY <2>2, <2>4, <2>5 DEF sum
<1>2. \A i \in 0 .. TREE_DEPTH : i \in S
  <2>1. 0 \in S
    BY DepthAssumption DEF ComposeGate
  <2>2. ASSUME NEW i \in 0 .. TREE_DEPTH - 1, i \in S PROVE i + 1 \in S
    <3>1. i \in Levels /\ i + 1 \in 0 .. TREE_DEPTH
      BY <1>0 DEF Levels
    <3> QED
      BY <1>1, <2>2, <3>1
  <2> HIDE DEF S
  <2> QED
    BY <1>0, <2>1, <2>2, Upwards
<1>3. \A i \in Levels : w.acc[i + 1] = w.acc[i] + w.path_bits[i] * Weight[i]
  BY <1>1, <1>2, LevelWeights
<1>4. w.acc[TREE_DEPTH] = w.field_index
  <2>1. (w.field_index - w.acc[TREE_DEPTH]) % Modulus = 0
    BY DEF ComposeGate
  <2>2. w.field_index \in Field /\ w.acc[TREE_DEPTH] \in Field
    BY <1>0, Cells
  <2> QED
    BY <2>1, <2>2, FieldFacts
<1> QED
  BY <1>2, <1>3, <1>4

\* An index that satisfies the circuit is that of a leaf, and the path its
\* prover walked is the one to that leaf: the bits are the index's digits.
THEOREM PathIsIndex ==
  ASSUME NEW w \in Assignment, Satisfied(w)
  PROVE  /\ w.field_index \in 0 .. Weight[TREE_DEPTH] - 1
         /\ \A i \in Levels : w.path_bits[i] = (w.field_index \div Weight[i]) % 2
<1> DEFINE S == {i \in 0 .. TREE_DEPTH : w.field_index % Weight[i] = w.acc[i]}
<1>0. TREE_DEPTH \in Nat
  BY DepthAssumption
<1>1. ComposeGate(w) /\ Folds(w)
  BY DEF Satisfied
<1>2. \A i \in Levels : w.path_bits[i] \in {0, 1}
  BY <1>1, Swapped
<1>3. /\ \A i \in 0 .. TREE_DEPTH : w.acc[i] \in 0 .. Weight[i] - 1
      /\ \A i \in Levels : w.acc[i + 1] = w.acc[i] + w.path_bits[i] * Weight[i]
      /\ w.acc[TREE_DEPTH] = w.field_index
  BY <1>1, <1>2, Sums
<1>4. w.field_index \in 0 .. Weight[TREE_DEPTH] - 1
  BY <1>0, <1>3
<1>5. ASSUME NEW i \in Levels, w.field_index % Weight[i + 1] = w.acc[i + 1]
      PROVE  /\ w.field_index % Weight[i] = w.acc[i]
             /\ (w.field_index \div Weight[i]) % 2 = w.path_bits[i]
  <2>1. /\ Weight[i] \in Nat \ {0} /\ w.field_index \in Int
        /\ w.path_bits[i] \in {0, 1} /\ w.acc[i] \in 0 .. Weight[i] - 1
    BY <1>2, <1>3, <1>4, LevelWeights
  <2>2. w.field_index % (2 * Weight[i]) = w.acc[i] + w.path_bits[i] * Weight[i]
    BY <1>3, <1>5, LevelWeights
  <2> QED
    BY <2>1, <2>2, Digit
<1>6. \A i \in 0 .. TREE_DEPTH : i \in S
  <2>1. TREE_DEPTH \in S
    <3>1. Weight[TREE_DEPTH] \in Nat \ {0} /\ w.field_index = Weight[TREE_DEPTH] * 0 + w.field_index
      BY <1>0, <1>4, Weights
    <3> QED
      BY <1>0, <1>3, <1>4, <3>1, Quotient
  <2>2. ASSUME NEW i \in 0 .. TREE_DEPTH - 1, i + 1 \in S PROVE i \in S
    <3>1. i \in Levels
      BY DEF Levels
    <3> QED
      BY <1>5, <2>2, <3>1, LevelWeights
  <2> HIDE DEF S
  <2> QED
    BY <1>0, <2>1, <2>2, Downwards
<1>7. \A i \in Levels : w.path_bits[i] = (w.field_index \div Weight[i]) % 2
  BY <1>5, <1>6, LevelWeights
<1> QED
  BY <1>4, <1>7

-----------------------------------------------------------------------------
(* From the root down *)

\* Two assignments that fold to the same root along the same path meet at every
\* level, unless two of their calls collide.
LEMMA SameHashes ==
  ASSUME NEW w \in Assignment, NEW v \in Assignment, Folds(w), Folds(v),
         w.doc_root = v.doc_root, ~Collision(w, v),
         \A i \in Levels : w.path_bits[i] = v.path_bits[i]
  PROVE  w.current[0] = v.current[0]
<1> DEFINE S == {i \in 0 .. TREE_DEPTH : w.current[i] = v.current[i]}
<1>0. TREE_DEPTH \in Nat
  BY DepthAssumption
<1>1. TREE_DEPTH \in S
  BY <1>0 DEF Folds
<1>2. ASSUME NEW i \in 0 .. TREE_DEPTH - 1, i + 1 \in S PROVE i \in S
  <2>1. i \in Levels /\ i \in 0 .. TREE_DEPTH /\ i + 1 \in 1 .. TREE_DEPTH
        /\ i + 1 \in 0 .. TREE_DEPTH + 1 /\ (i + 1) - 1 = i /\ i + 1 # 0
    BY <1>0 DEF Levels
  <2>2. /\ CallAt(w, i + 1) = NodeCall(w.left[i], w.right[i])
        /\ CallAt(v, i + 1) = NodeCall(v.left[i], v.right[i])
    BY <2>1, DepthAssumption DEF CallAt
  <2>3. /\ w.current[i + 1] = Poseidon(NodeCall(w.left[i], w.right[i]))
        /\ v.current[i + 1] = Poseidon(NodeCall(v.left[i], v.right[i]))
    BY <2>1 DEF Folds
  <2>4. Poseidon(CallAt(w, i + 1)) = Poseidon(CallAt(v, i + 1))
    BY <1>2, <2>2, <2>3
  <2>5. NodeCall(w.left[i], w.right[i]) = NodeCall(v.left[i], v.right[i])
    BY <2>1, <2>2, <2>4, Zenon DEF Collision
  <2>6. w.left[i] = v.left[i] /\ w.right[i] = v.right[i]
    BY <2>5 DEF NodeCall
  <2>7. w.path_bits[i] = v.path_bits[i]
    BY <2>1
  <2>8. w.current[i] = v.current[i]
    BY <2>1, <2>6, <2>7, Swapped
  <2> QED
    BY <2>1, <2>8
<1>3. \A i \in 0 .. TREE_DEPTH : i \in S
  <2> HIDE DEF S
  <2> QED
    BY <1>0, <1>1, <1>2, Downwards
<1> QED
  BY <1>0, <1>3

\* One value per root and index, unless two calls collide.
LEMMA ValueOfRoot ==
  ASSUME NEW w \in Assignment, NEW v \in Assignment, Satisfied(w), Satisfied(v),
         w.doc_root = v.doc_root, w.field_index = v.field_index, ~Collision(w, v)
  PROVE  w.field_value = v.field_value
<1>1. Folds(w) /\ Folds(v)
  BY DEF Satisfied
<1>2. \A i \in Levels : w.path_bits[i] = v.path_bits[i]
  BY PathIsIndex
<1>3. w.current[0] = v.current[0]
  BY <1>1, <1>2, SameHashes
<1>4. /\ CallAt(w, 0) = LeafCall(w.field_index, w.field_value)
      /\ CallAt(v, 0) = LeafCall(v.field_index, v.field_value)
  BY DepthAssumption DEF CallAt
<1>5. Poseidon(CallAt(w, 0)) = Poseidon(CallAt(v, 0))
  BY <1>1, <1>3, <1>4 DEF Folds
<1>6. 0 \in 0 .. TREE_DEPTH + 1
  BY DepthAssumption
<1>7. LeafCall(w.field_index, w.field_value) = LeafCall(v.field_index, v.field_value)
  BY <1>4, <1>5, <1>6, Zenon DEF Collision
<1> QED
  BY <1>7 DEF LeafCall

\* One root and one nonce per commitment, unless two calls collide.
LEMMA RootOfCommitment ==
  ASSUME NEW w \in Assignment, NEW v \in Assignment, Satisfied(w), Satisfied(v),
         w.commitment = v.commitment, ~Collision(w, v)
  PROVE  w.doc_root = v.doc_root /\ w.nonce = v.nonce
<1>1. /\ TREE_DEPTH + 1 \in 0 .. TREE_DEPTH + 1
      /\ TREE_DEPTH + 1 # 0 /\ TREE_DEPTH + 1 \notin 1 .. TREE_DEPTH
  BY DepthAssumption
<1>2. /\ CallAt(w, TREE_DEPTH + 1) = CommitmentCall(w)
      /\ CallAt(v, TREE_DEPTH + 1) = CommitmentCall(v)
  BY <1>1 DEF CallAt
<1>3. Poseidon(CommitmentCall(w)) = Poseidon(CommitmentCall(v))
  BY DEF Satisfied
<1>4. CommitmentCall(w) = CommitmentCall(v)
  BY <1>1, <1>2, <1>3, Zenon DEF Collision
<1> QED
  BY <1>4 DEF CommitmentCall

\* A commitment fixes every field of its document, for every prover: the
\* constraints leave no freedom but a collision of Poseidon.
THEOREM FieldsAreBound == OneValuePerField
<1> SUFFICES ASSUME NEW w \in Candidates, NEW v \in Candidates,
                    Satisfied(w), Satisfied(v), w.commitment = v.commitment,
                    w.field_index = v.field_index, ~Collision(w, v)
             PROVE  w.field_value = v.field_value
  BY DEF OneValuePerField
<1>1. w \in Assignment /\ v \in Assignment
  BY CandidatesAssumption
<1>2. w.doc_root = v.doc_root
  BY <1>1, RootOfCommitment
<1> QED
  BY <1>1, <1>2, ValueOfRoot

-----------------------------------------------------------------------------
(* Claims, and the two circuits together *)

\* A claim hash fixes index and value: the pair that a verifier is told and
\* hashes is the pair that the proof is about.
THEOREM ClaimsAreBound ==
  ASSUME NEW w \in Assignment, NEW v \in Assignment, Satisfied(w), Satisfied(v),
         w.claim_hash = v.claim_hash
  PROVE  LET wCall == ClaimCall(w.field_index, w.field_value)
             vCall == ClaimCall(v.field_index, v.field_value)
         IN  \/ w.field_index = v.field_index /\ w.field_value = v.field_value
             \/ wCall # vCall /\ Poseidon(wCall) = Poseidon(vCall)
<1>1. Poseidon(ClaimCall(w.field_index, w.field_value))
        = Poseidon(ClaimCall(v.field_index, v.field_value))
  BY DEF Satisfied
<1>2. ASSUME ClaimCall(w.field_index, w.field_value) = ClaimCall(v.field_index, v.field_value)
      PROVE  w.field_index = v.field_index /\ w.field_value = v.field_value
  BY <1>2 DEF ClaimCall
<1> QED
  BY <1>1, <1>2

\* Proofs of both circuits about one commitment are about one document: what
\* the open circuit calls its low half is the root, its high half is 0, and
\* the tag that it leaves to the prover is the tag of commitments.
THEOREM CircuitsAgree ==
  ASSUME NEW o \in OpenAssignment, NEW w \in Assignment, OpenSatisfied(o), Satisfied(w),
         o.commitment = w.commitment
  PROVE  \/ /\ o.domain_tag = CommitmentTag /\ o.doc_hash_lo = w.doc_root
            /\ o.doc_hash_hi = 0 /\ o.nonce = w.nonce
         \/ OpenCall(o) # CommitmentCall(w) /\ Poseidon(OpenCall(o)) = Poseidon(CommitmentCall(w))
<1>1. Poseidon(OpenCall(o)) = Poseidon(CommitmentCall(w))
  BY DEF Satisfied, OpenSatisfied
<1>2. ASSUME OpenCall(o) = CommitmentCall(w)
      PROVE  /\ o.domain_tag = CommitmentTag /\ o.doc_hash_lo = w.doc_root
             /\ o.doc_hash_hi = 0 /\ o.nonce = w.nonce
  BY <1>2 DEF OpenCall, CommitmentCall
<1> QED
  BY <1>1, <1>2

-----------------------------------------------------------------------------
(* Honest provers *)

LEMMA WeightsMultiply ==
  \A i \in 0 .. TREE_DEPTH : Weight[i] * Weight[TREE_DEPTH - i] = Weight[TREE_DEPTH]
<1> DEFINE S == {i \in 0 .. TREE_DEPTH :
                   Weight[i] * Weight[TREE_DEPTH - i] = Weight[TREE_DEPTH]}
<1>0. TREE_DEPTH \in Nat
  BY DepthAssumption
<1>1. 0 \in S
  BY DepthAssumption
<1>2. ASSUME NEW i \in 0 .. TREE_DEPTH - 1, i \in S PROVE i + 1 \in S
  <2>1. /\ i \in Levels /\ TREE_DEPTH - (i + 1) \in Levels
        /\ (TREE_DEPTH - (i + 1)) + 1 = TREE_DEPTH - i
    BY <1>0 DEF Levels
  <2>2. PICK a \in Nat, b \in Nat : a = Weight[i] /\ b = Weight[TREE_DEPTH - (i + 1)]
    BY <2>1, LevelWeights
  <2>3. Weight[i + 1] = 2 * a /\ Weight[TREE_DEPTH - i] = 2 * b
    BY <2>1, <2>2, LevelWeights
  <2>4. a * (2 * b) = Weight[TREE_DEPTH]
    BY <1>2, <2>2, <2>3
  <2>5. (2 * a) * b = Weight[TREE_DEPTH]
    BY <2>4
  <2> QED
    BY <2>1, <2>2, <2>3, <2>5, LevelWeights
<1> QED
  <2> HIDE DEF S
  <2>1. \A i \in 0 .. TREE_DEPTH : i \in S
    BY <1>0, <1>1, <1>2, Upwards
  <2> QED
    BY <2>1 DEF S

\* Where the path of a leaf passes: at level i it is at index \div Weight[i].
LEMMA PathPositions ==
  ASSUME NEW index \in Positions(0), NEW i \in 0 .. TREE_DEPTH
  PROVE  index \div Weight[i] \in Positions(i)
<1>1. PICK a \in Nat \ {0}, b \in Nat \ {0} : a = Weight[i] /\ b = Weight[TREE_DEPTH - i]
  <2>1. TREE_DEPTH - i \in 0 .. TREE_DEPTH
    BY DepthAssumption
  <2> QED
    BY <2>1, Weights
<1>2. index \in Nat /\ index < a * b
  BY <1>1, WeightsMultiply, DepthAssumption, Weights DEF Positions
<1>3. PICK q \in Int, r \in 0 .. a - 1 : q = index \div a /\ index = a * q + r
  <2>1. index \in Int
    BY <1>2
  <2>2. index \div a \in Int /\ index % a \in 0 .. a - 1 /\ index = a * (index \div a) + (index % a)
    BY <2>1, Divided
  <2> QED
    BY <2>2
<1>4. a * q < a * b
  BY <1>2, <1>3
<1>5. q < b
  <2>1. ASSUME q >= b PROVE FALSE
    <3>1. a * (q - b) >= 0
      BY <2>1
    <3> QED
      BY <1>4, <3>1
  <2> QED
    BY <2>1
<1>6. q >= 0
  <2>1. ASSUME q <= -1 PROVE FALSE
    <3>1. a * q <= a * (-1)
      BY <2>1
    <3> QED
      BY <1>2, <1>3, <3>1
  <2> QED
    BY <2>1
<1> QED
  BY <1>1, <1>3, <1>5, <1>6 DEF Positions

\* One level up the position is halved, and the digit that falls off says which
\* child the node was.
LEMMA StepUp ==
  ASSUME NEW index \in Positions(0), NEW i \in Levels,
         NEW at, NEW above, NEW bit,
         at = index \div Weight[i], above = index \div Weight[i + 1], bit = at % 2
  PROVE  /\ bit \in {0, 1} /\ at \in Nat /\ above \in Nat /\ at = 2 * above + bit
         /\ index % Weight[i + 1] = (index % Weight[i]) + bit * Weight[i]
<1>1. PICK m \in Nat \ {0} : m = Weight[i] /\ 2 * m = Weight[i + 1]
  BY LevelWeights
<1>2. index \in Nat
  BY DepthAssumption, Weights DEF Positions
<1>3. PICK r \in 0 .. m - 1 : r = index % m /\ at \in Int /\ index = m * at + r
  <2>1. index \in Int /\ at = index \div m
    BY <1>1, <1>2
  <2>2. index \div m \in Int /\ index % m \in 0 .. m - 1 /\ index = m * (index \div m) + (index % m)
    BY <2>1, Divided
  <2> QED
    BY <2>1, <2>2
<1>4. PICK h \in Int : bit \in {0, 1} /\ at = 2 * h + bit
  <2>1. 2 \in Nat \ {0} /\ at \in Int
    BY <1>3
  <2>2. at \div 2 \in Int /\ at % 2 \in 0 .. 1 /\ at = 2 * (at \div 2) + (at % 2)
    BY <2>1, Divided
  <2> QED
    BY <2>2
<1>5. index = (2 * m) * h + (r + bit * m) /\ r + bit * m \in 0 .. 2 * m - 1
  BY <1>3, <1>4
<1>6. index \div (2 * m) = h /\ index % (2 * m) = r + bit * m
  <2>1. 2 * m \in Nat \ {0} /\ index \in Int
    BY <1>2
  <2> QED
    BY <1>5, <2>1, Quotient
<1>7. at \in Nat /\ above \in Nat
  <2>1. i \in 0 .. TREE_DEPTH /\ i + 1 \in 0 .. TREE_DEPTH
    BY LevelWeights
  <2>2. at \in Positions(i) /\ above \in Positions(i + 1)
    BY <2>1, PathPositions
  <2> QED
    BY <2>2 DEF Positions
<1> QED
  BY <1>1, <1>3, <1>4, <1>6, <1>7

\* The two children of the next node on the path are the node and its sibling,
\* in the order that the digit says.
LEMMA Siblings ==
  ASSUME NEW node, NEW values, IsTree(node, values),
         NEW index \in Positions(0), NEW i \in Levels,
         NEW at, NEW above, NEW bit,
         at = index \div Weight[i], above = index \div Weight[i + 1], bit = at % 2
  PROVE  LET cur     == node[i][at]
             sibling == node[i][IF bit = 1 THEN at - 1 ELSE at + 1]
         IN  /\ cur \in Field /\ sibling \in Field /\ bit \in {0, 1}
             /\ (IF bit = 0 THEN cur ELSE sibling) = node[i][2 * above]
             /\ (IF bit = 0 THEN sibling ELSE cur) = node[i][2 * above + 1]
             /\ node[i + 1][above] = Poseidon(NodeCall(node[i][2 * above], node[i][2 * above + 1]))
<1>1. /\ i \in 0 .. TREE_DEPTH /\ i + 1 \in 0 .. TREE_DEPTH
      /\ TREE_DEPTH - (i + 1) \in Levels /\ (TREE_DEPTH - (i + 1)) + 1 = TREE_DEPTH - i
  BY DepthAssumption DEF Levels
<1>2. /\ bit \in {0, 1} /\ at \in Nat /\ above \in Nat /\ at = 2 * above + bit
  BY StepUp
<1>3. above \in Positions(i + 1) /\ at \in Positions(i)
  BY <1>1, PathPositions
<1>4. 2 * above \in Positions(i) /\ 2 * above + 1 \in Positions(i)
  <2>1. PICK b \in Nat \ {0} : b = Weight[TREE_DEPTH - (i + 1)] /\ Weight[TREE_DEPTH - i] = 2 * b
    BY <1>1, LevelWeights
  <2>2. above \in 0 .. b - 1
    BY <1>3, <2>1 DEF Positions
  <2>3. 2 * above \in 0 .. 2 * b - 1 /\ 2 * above + 1 \in 0 .. 2 * b - 1
    BY <2>2
  <2> QED
    BY <2>1, <2>3 DEF Positions
<1>5. \A p \in Positions(i) : node[i][p] \in Field
  BY <1>1 DEF IsTree
<1>6. node[i + 1][above] = Poseidon(NodeCall(node[i][2 * above], node[i][2 * above + 1]))
  BY <1>3 DEF IsTree
<1>7. CASE bit = 0
  <2>1. at = 2 * above /\ at + 1 = 2 * above + 1
    BY <1>2, <1>7
  <2> QED
    BY <1>4, <1>5, <1>6, <1>7, <2>1
<1>8. CASE bit = 1
  <2>1. at = 2 * above + 1 /\ at - 1 = 2 * above
    BY <1>2, <1>8
  <2> QED
    BY <1>4, <1>5, <1>6, <1>8, <2>1
<1> QED
  BY <1>2, <1>7, <1>8

\* The circuit can be satisfied for every field of every document, by the path
\* that the tests build and the swaps that synthesize assigns.
THEOREM HonestSatisfies ==
  ASSUME NEW node, NEW values \in [Positions(0) -> Field], IsTree(node, values),
         \A call : Poseidon(call) \in Field,
         NEW index \in Positions(0), NEW nonce \in Field, NEW height \in Field
  PROVE  LET w == Honest(node, values, index, nonce, height)
         IN  w \in Assignment /\ Satisfied(w)
<1> DEFINE w          == Honest(node, values, index, nonce, height)
           at(i)      == index \div Weight[i]
           bit(i)     == at(i) % 2
           cur(i)     == node[i][at(i)]
           sibling(i) == node[i][IF bit(i) = 1 THEN at(i) - 1 ELSE at(i) + 1]
           l(i)       == IF bit(i) = 0 THEN cur(i) ELSE sibling(i)
           r(i)       == IF bit(i) = 0 THEN sibling(i) ELSE cur(i)
<1>0. /\ TREE_DEPTH \in Nat /\ 0 \in 0 .. TREE_DEPTH /\ TREE_DEPTH \in 0 .. TREE_DEPTH
      /\ Weight[0] = 1 /\ Weight[TREE_DEPTH] <= Modulus /\ Weight[TREE_DEPTH] \in Nat \ {0}
  BY DepthAssumption, Weights
<1>1. w = [commitment   |-> Poseidon(<<CommitmentTag, Root(node), 0, nonce>>),
           block_height |-> height,
           claim_hash   |-> Poseidon(ClaimCall(index, values[index])),
           doc_root     |-> Root(node),
           nonce        |-> nonce,
           field_index  |-> index,
           field_value  |-> values[index],
           path_bits    |-> [i \in Levels |-> bit(i)],
           siblings     |-> [i \in Levels |-> sibling(i)],
           left         |-> [i \in Levels |-> l(i)],
           right        |-> [i \in Levels |-> r(i)],
           current      |-> [i \in 0 .. TREE_DEPTH |-> cur(i)],
           acc          |-> [i \in 0 .. TREE_DEPTH |-> index % Weight[i]]]
  BY Zenon DEF Honest
<1>2. ASSUME NEW i \in Levels
      PROVE  /\ cur(i) \in Field /\ sibling(i) \in Field /\ bit(i) \in {0, 1}
             /\ l(i) \in Field /\ r(i) \in Field
             /\ cur(i + 1) = Poseidon(NodeCall(l(i), r(i)))
             /\ i \in 0 .. TREE_DEPTH /\ i + 1 \in 0 .. TREE_DEPTH
             /\ index % Weight[i + 1] = (index % Weight[i]) + bit(i) * Weight[i]
  <2>1. /\ cur(i) \in Field /\ sibling(i) \in Field /\ bit(i) \in {0, 1}
        /\ l(i) = node[i][2 * at(i + 1)] /\ r(i) = node[i][2 * at(i + 1) + 1]
        /\ cur(i + 1) = Poseidon(NodeCall(node[i][2 * at(i + 1)], node[i][2 * at(i + 1) + 1]))
    BY Siblings
  <2>2. index % Weight[i + 1] = (index % Weight[i]) + bit(i) * Weight[i]
    BY StepUp
  <2>3. i \in 0 .. TREE_DEPTH /\ i + 1 \in 0 .. TREE_DEPTH
    BY LevelWeights
  <2>4. l(i) \in Field /\ r(i) \in Field
    BY <2>1
  <2> HIDE DEF at, bit, cur, sibling, l, r
  <2> QED
    BY <2>1, <2>2, <2>3, <2>4
<1>3. index \in Nat /\ index < Weight[TREE_DEPTH] /\ index \in Field
  BY <1>0, FieldAssumption DEF Positions, Field
<1>4. ASSUME NEW i \in 0 .. TREE_DEPTH
      PROVE  /\ cur(i) \in Field /\ index % Weight[i] \in Field
             /\ index % Weight[i] \in 0 .. Weight[i] - 1
  <2>1. at(i) \in Positions(i)
    BY PathPositions
  <2>2. Weight[i] \in Nat \ {0} /\ Weight[i] <= Modulus
    BY <1>0, Weights, FieldAssumption
  <2>3. index % Weight[i] \in 0 .. Weight[i] - 1
    <3>1. index \in Int
      BY <1>3
    <3> QED
      BY <2>2, <3>1, Divided, Zenon
  <2> QED
    BY <2>1, <2>2, <2>3, FieldAssumption DEF IsTree, Field
<1>5. /\ at(0) = index /\ index % Weight[0] = 0
      /\ at(TREE_DEPTH) = 0 /\ index % Weight[TREE_DEPTH] = index
  <2>1. index = Weight[0] * index + 0 /\ 0 \in 0 .. Weight[0] - 1 /\ Weight[0] \in Nat \ {0}
    BY <1>0, <1>3
  <2>2. index = Weight[TREE_DEPTH] * 0 + index /\ index \in 0 .. Weight[TREE_DEPTH] - 1
    BY <1>0, <1>3
  <2> QED
    BY <1>0, <1>3, <2>1, <2>2, Quotient
<1> HIDE DEF w, at, bit, cur, sibling, l, r
<1>6. values[index] \in Field /\ Root(node) \in Field /\ cur(TREE_DEPTH) = Root(node)
  <2>1. cur(TREE_DEPTH) = Root(node)
    BY <1>5 DEF cur, Root
  <2> QED
    BY <1>0, <1>4, <2>1
<1>7. w \in Assignment
  <2>1. 0 \in Field /\ 1 \in Field
    BY FieldAssumption DEF Field
  <2>2. \A i \in Levels : bit(i) \in Field
    BY <1>2, <2>1
  <2> QED
    BY <1>1, <1>2, <1>3, <1>4, <1>6, <2>2 DEF Assignment
<1>8. ComposeGate(w)
  <2>1. w.acc[0] = 0
    BY <1>0, <1>1, <1>5
  <2>2. ASSUME NEW i \in Levels
        PROVE  w.acc[i + 1] = (w.acc[i] + w.path_bits[i] * Weight[i]) % Modulus
    <3>1. /\ w.acc[i + 1] = index % Weight[i + 1] /\ w.acc[i] = index % Weight[i]
          /\ w.path_bits[i] = bit(i)
      BY <1>1, <1>2
    <3>2. w.acc[i + 1] = w.acc[i] + w.path_bits[i] * Weight[i]
      BY <1>2, <3>1
    <3>3. w.acc[i + 1] \in Field
      BY <1>2, <1>4, <3>1
    <3>4. w.acc[i + 1] % Modulus = w.acc[i + 1]
      BY <3>3, FieldFacts
    <3> QED
      BY <3>2, <3>4
  <2>3. w.field_index = index /\ w.acc[TREE_DEPTH] = index
    BY <1>0, <1>1, <1>5
  <2>4. (w.field_index - w.acc[TREE_DEPTH]) % Modulus = 0
    BY <1>3, <2>3, FieldFacts
  <2> QED
    BY <2>1, <2>2, <2>4 DEF ComposeGate
<1>9. Folds(w)
  <2>1. w.current[0] = Poseidon(LeafCall(w.field_index, w.field_value))
    <3>1. w.current[0] = node[0][index]
      BY <1>0, <1>1, <1>5 DEF cur
    <3>2. node[0][index] = Poseidon(LeafCall(index, values[index]))
      BY DEF IsTree
    <3> QED
      BY <1>1, <3>1, <3>2
  <2>2. ASSUME NEW i \in Levels
        PROVE  /\ SwapGate(w.current[i], w.siblings[i], w.path_bits[i], w.left[i], w.right[i])
               /\ w.current[i + 1] = Poseidon(NodeCall(w.left[i], w.right[i]))
    <3>1. /\ w.current[i] = cur(i) /\ w.siblings[i] = sibling(i) /\ w.path_bits[i] = bit(i)
          /\ w.left[i] = l(i) /\ w.right[i] = r(i) /\ w.current[i + 1] = cur(i + 1)
      BY <1>1, <1>2
    <3>2. \/ bit(i) = 0 /\ l(i) = cur(i) /\ r(i) = sibling(i)
          \/ bit(i) = 1 /\ l(i) = sibling(i) /\ r(i) = cur(i)
      BY <1>2 DEF l, r
    <3>3. bit(i) \in Field
      BY <1>2, FieldAssumption DEF Field
    <3>4. SwapGate(cur(i), sibling(i), bit(i), l(i), r(i))
      BY <1>2, <3>2, <3>3, SwapGateExact
    <3> QED
      BY <1>2, <3>1, <3>4
  <2>3. w.current[TREE_DEPTH] = w.doc_root
    BY <1>0, <1>1, <1>6
  <2> QED
    BY <2>1, <2>2, <2>3 DEF Folds
<1>10. /\ Poseidon(CommitmentCall(w)) = w.commitment
       /\ Poseidon(ClaimCall(w.field_index, w.field_value)) = w.claim_hash
  BY <1>1 DEF CommitmentCall
<1>11. Satisfied(w)
  BY <1>8, <1>9, <1>10 DEF Satisfied
<1> QED
  BY <1>7, <1>11 DEF w

\* What a proof shows of a document: whoever made it, its index is that of a
\* field and its value is that field's, unless Poseidon collides with itself
\* somewhere between the proof's path and the document's.
THEOREM ProofOpensDocument ==
  ASSUME NEW node, NEW values \in [Positions(0) -> Field], IsTree(node, values),
         \A call : Poseidon(call) \in Field, NEW nonce \in Field,
         NEW w \in Assignment, Satisfied(w),
         w.commitment = Poseidon(<<CommitmentTag, Root(node), 0, nonce>>)
  PROVE  /\ w.field_index \in Positions(0)
         /\ \/ w.field_value = values[w.field_index]
            \/ Collision(w, Honest(node, values, w.field_index, nonce, w.block_height))
<1> DEFINE v == Honest(node, values, w.field_index, nonce, w.block_height)
<1>1. w.field_index \in Positions(0) /\ w.block_height \in Field
  <2>1. w.field_index \in 0 .. Weight[TREE_DEPTH] - 1
    BY PathIsIndex
  <2> QED
    BY <2>1, DepthAssumption DEF Positions, Assignment
<1>2. v \in Assignment /\ Satisfied(v)
  BY <1>1, HonestSatisfies
<1>3. /\ v.commitment = w.commitment /\ v.field_index = w.field_index
      /\ v.field_value = values[w.field_index]
  BY DEF Honest
<1> HIDE DEF v
<1>4. ASSUME ~Collision(w, v) PROVE w.field_value = values[w.field_index]
  <2>1. w.doc_root = v.doc_root
    BY <1>2, <1>3, <1>4, RootOfCommitment
  <2> QED
    BY <1>2, <1>3, <1>4, <2>1, ValueOfRoot
<1> QED
  BY <1>1, <1>4 DEF v

=============================================================================
