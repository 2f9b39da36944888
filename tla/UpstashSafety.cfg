SPECIFICATION Spec
CONSTANTS
  r1 = r1
  r2 = r2
  r3 = r3
  c1 = c1
  c2 = c2
  Requests <- TwoRequests
  Clients <- TwoClients
  GlobalDailyLimit = 1
  IpDailyLimit = 1
  DayTicks = 3
  MinTtl = 1
  MaxTime = 4
SYMMETRY Symmetry
INVARIANTS
  TypeOK
  CountersLastTheDay
  GrantsAreCounted
PROPERTIES
  ImplementsBudget
