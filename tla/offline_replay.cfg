SPECIFICATION FairClockSpec
CONSTANTS
  MaxThreads = 2
  Tabs = {d1, d2}
  MaxVoids = 1
  MaxTaps = 2
  MaxFaults = 3
  BackoffFrom = 1
  Nobody = Nobody
  NoTab = NoTab
INVARIANTS
  ClockTypeOK
  TapsAreKept
  CopiesAreExplained
  OutsArePaid
PROPERTIES
  OvertakenWereDeferred
  QueueDrains
CHECK_DEADLOCK FALSE
