SPECIFICATION Spec
CONSTANTS
  Fixtures <- MCSmallFixtures
  Ratio = 2
  NoTable = NoTable
  MaxRuns = 2
INVARIANTS
  LakeIsFresh
CHECK_DEADLOCK FALSE
