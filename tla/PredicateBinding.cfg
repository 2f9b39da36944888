SPECIFICATION Spec
CONSTANTS
  TREE_DEPTH = 2
  Modulus = 5
  Weight <- TwoLevels
  Poseidon <- SmallHash
  CommitmentTag = 1
  LeafTag = 2
  NodeTag = 3
  ClaimTag = 4
  Candidates <- SmallCandidates
  r1 = r1
  r2 = r2
  d1 = d1
  d2 = d2
  Receipts <- TwoReceipts
  Docs <- TwoDocs
  Claims <- TwoClaims
  MaxHeight = 3
  MaxReorgs = 0
SYMMETRY Symmetry
INVARIANTS
  PredicateBindingReported
