SPECIFICATION FairSpec
CONSTANTS
  Exchanges = {coinbase, binance_us}
  Torn = Torn
  NoLimit = NoLimit
  Limits <- MCLimits
  MaxCalls = 2
  MaxStream = 3
  MaxCrashes = 1
INVARIANTS
  TypeOK
  ReplaysOneCapture
  FixtureSurvives
PROPERTIES
  RecordEnds
CHECK_DEADLOCK FALSE
