SPECIFICATION ReadersSpec
CONSTANTS
  Fixtures <- MCFixtures
  Ratio = 2
  NoTable = NoTable
  MaxRuns = 2
  Unread = Unread
INVARIANTS
  NeverStale
  TimeTravelConsistent
  PanelsAgree
CHECK_DEADLOCK FALSE
