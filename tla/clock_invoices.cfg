SPECIFICATION Spec
CONSTANTS
  Workers = {w1}
  Clerks = {}
  LastDay = 5
  Delivered = 1
  Cadence = 1
  PlannedReturns = {5}
  TransferDates = {}
  MaxVersion = 2
  MaxBilled = 1
  Nothing = Nothing
INVARIANT PushedPeriodsAreInvoiced
