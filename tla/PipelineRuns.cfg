SPECIFICATION FairSpec
CONSTANTS
  Fixtures <- MCFixtures
  Ratio = 2
  NoTable = NoTable
  MaxRuns = 2
INVARIANTS
  TypeOK
  ReplayComplete
  RejectsLanded
  OneGeneration
  GoldFollowsBronze
PROPERTIES
  PipelineEnds
  TableIsVersioned
CHECK_DEADLOCK FALSE
