SPECIFICATION Spec
CONSTANTS
  d1 = d1
  d2 = d2
  Docs <- MCDocs
  Digest <- MCDigest
  Pages = {"stamp", "verify", "predicate"}
  MaxStamps = 2
  MaxElapsed = 21
  Typed <- MCTyped
  Texts <- MCTexts
  FileTexts <- MCFileTexts
  Chain <- MCChain
  MaxCalls = 2
  MaxReads = 1
  Witnesses <- MCWitnesses
  Proofs <- MCProofs
  Inputs <- MCInputs
  Pasted <- MCPasted
  MaxPosts = 2
INVARIANTS
  TypeOK
  DownloadsVerify
  LossHasCause
  ShownTogether
  VerdictSound
  SameExtraction
  BusyMeansInFlight
  PrivateStaysLocal
PROPERTIES
  PhasesAdvance
CHECK_DEADLOCK FALSE
