SPECIFICATION FairSpec
CONSTANTS
  trades = trades
  ticker = ticker
  btc = btc
  eth = eth
  m1 = m1
  m5 = m5
  Topics = {trades}
  TradeTopics = {trades}
  Keys = {btc}
  Labels = {m1}
  Width <- MCWidthOne
  Grace = 1
  Sizes = {0, 1}
  Null = Null
  NullTopics = {}
  Bounded = FALSE
  MaxTs = 4
  MaxLog = 3
  MaxCrashes = 2
  MaxMetrics = 12
INVARIANTS
  TypeOK
  ExactWindows
  CommittedWindowsPublished
  RecordsConserved
  NeverOvercounted
  OncePerIncarnation
  VolumeExact
PROPERTIES
  ClosedWindowsAppear
  FeedIsWriteOnce
CHECK_DEADLOCK FALSE
