SPECIFICATION Spec
CONSTANTS
  MaxMessages = 0
  MaxReconnects = NoLimit
  NoLimit = NoLimit
  Base = 1
  Cap = 2
  FactorMax = 8
  QueueMax = 2
  FrameMax = 1
  MaxRecords = 2
  MaxDrops = 1
INVARIANTS
  MalformedNeverFatal
CHECK_DEADLOCK FALSE
