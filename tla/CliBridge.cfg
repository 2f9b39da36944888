SPECIFICATION Spec
CONSTANTS
  MaxBytes = 3
  MaxChunk = 2
INVARIANTS
  TypeOK
  NothingLeft
  OkMeansFinished
  RefusedHasNoEffect
PROPERTIES
  BridgeAnswers
CHECK_DEADLOCK FALSE
