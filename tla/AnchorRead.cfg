SPECIFICATION Spec
CONSTANTS
  Txids <- MCTxids
  Commitments = {"c1", "c2"}
  Contents <- MCContents
  MaxHeight = 3
  MaxReorgs = 1
INVARIANTS
  TypeOK
  ReadsTheChain
  MinedAnchorIsRead
