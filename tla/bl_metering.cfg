SPECIFICATION BFairSpec
CONSTANTS
  Workload = {w1}
  TicksPerSecond = 2
  MinSlice = 2
  Enforce = TRUE
  Budget = 2
  Credits = {2}
  price <- UnitPrice
  MaxTime = 4
  MaxCredit = 2
  MaxFaults = 1
INVARIANTS BilledOnce LedgerMatchesUsage
PROPERTIES Settles
