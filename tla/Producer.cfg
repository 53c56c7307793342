\* Frames, the local queue, the broker, reconnects with backoff, both limits.
SPECIFICATION FairSpec
CONSTANTS
  MaxMessages = 2
  MaxReconnects = 4
  NoLimit = NoLimit
  Base = 1
  Cap = 3
  FactorMax = 4
  QueueMax = 2
  FrameMax = 2
  MaxRecords = 3
  MaxDrops = 5
INVARIANTS
  TypeOK
  RoutedOnce
  RawOrdered
  PublishedAccounted
  LimitsRespected
PROPERTIES
  NoHotLoop
  AlwaysReconnects
  EndsAfterStop
CHECK_DEADLOCK FALSE
