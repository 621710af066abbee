SPECIFICATION Spec
CONSTANTS
  Runs = {r1, r2}
  Periods = {r1, r2}
  Entries = {r1, r2}
  Window <- WeekAndDay
  PeriodOf <- OwnPeriod
  InPeriod <- EveryEntry
  Workers = {w1}
  Bridges = {b1}
  Clerks = {c1}
  BatchLimit = 1
  MaxAttempts = 1
  MaxRetries = 1
  MaxVersion = 3
  Deletable = {r1}
  Nobody = Nobody
  NoPeriod = NoPeriod
INVARIANTS StampsMatchLists ApprovedRunHoldsItsLocks
