SPECIFICATION PipeFairSpec
CONSTANTS
  r1 = r1
  r2 = r2
  r3 = r3
  c1 = c1
  Requests <- TwoRequests
  Clients <- OneClient
  GlobalDailyLimit = 1
  IpDailyLimit = 1
  Concurrency = 2
  MaxDay = 1
  MaxServerRestarts = 2
  MaxWalletRestarts = 1
INVARIANTS
  PipeTypeOK
  SpendWithinBudget
  PublishersHoldSlots
PROPERTIES
  EveryRequestAnswered
