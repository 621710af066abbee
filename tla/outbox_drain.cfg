SPECIFICATION FairSpec
CONSTANTS
  Anchors = {a}
  Jobs = {j}
  Strangers = {s}
  Workers = {w1, w2}
  MaxRetries = 2
  MaxRequests = 2
  MaxFaults = 1
  NoKey = NoKey
INVARIANTS
  TypeOK
  AppliedWasWorked
  LossesAreExplained
PROPERTY RequestsSettle
