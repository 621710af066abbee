SPECIFICATION FairSpec
CONSTANTS
  e1 = e1
  e2 = e2
  Entries = {e1, e2}
  Worked <- MCWorked
  Hours = {8, 10}
  Workers = {w1, w2}
  MaxRetries = 2
  MaxVersion = 5
  MaxEdits = 1
INVARIANTS
  NothingOverpaid
  PostedPaysEveryEntry
  AutoPostedWasAutoApproved
PROPERTY PostingIsAnswered
