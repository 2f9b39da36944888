SPECIFICATION PipeFairSpec
CONSTANTS
  r1 = r1
  r2 = r2
  r3 = r3
  c1 = c1
  Requests <- TwoRequests
  Clients <- OneClient
  GlobalDailyLimit = 2
  IpDailyLimit = 2
  Concurrency = 1
  MaxDay = 1
  MaxServerRestarts = 0
  MaxWalletRestarts = 1
PROPERTIES
  CallersWaitForConfirmation
