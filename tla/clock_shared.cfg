SPECIFICATION FairSpec
CONSTANTS
  Workers = {w1}
  Clerks = {c1}
  LastDay = 4
  Delivered = 1
  Cadence = 2
  PlannedReturns = {3}
  TransferDates = {2}
  MaxVersion = 2
  MaxBilled = 2
  Nothing = Nothing
INVARIANTS
  EachDayBilledOnce
  NoDayMissed
  InvoicedDaysAreBilled
PROPERTY ReturnedIsClosed
