SPECIFICATION FairLockSpec
CONSTANTS
  Runs = {r1}
  Entries = {e1}
  Window <- Overlapping
  Workers = {w1, w2}
  BatchLimit = 2
  MaxAttempts = 2
  MaxRetries = 3
  MaxVersion = 3
  Deletable = {}
  Nobody = Nobody
INVARIANT ReopenedRunHoldsNoLock
PROPERTY RowsSettle
