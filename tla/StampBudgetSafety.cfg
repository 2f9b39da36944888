SPECIFICATION Spec
CONSTANTS
  r1 = r1
  r2 = r2
  r3 = r3
  r4 = r4
  r5 = r5
  c1 = c1
  c2 = c2
  c3 = c3
  Requests <- FiveRequests
  Clients <- ThreeClients
  GlobalDailyLimit = 2
  IpDailyLimit = 1
  Concurrency = 2
  MaxDay = 1
SYMMETRY Symmetry
INVARIANTS
  TypeOK
  BudgetHolds
  FileCountsCharges
  SlotsMatchRequests
  PublishesPerCalendarDay
PROPERTIES
  DayNeverReverts
  RefusedOnlyWhenSpent
  ImplementsBudget
