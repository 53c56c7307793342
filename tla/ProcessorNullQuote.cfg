SPECIFICATION FairSpec
CONSTANTS
  trades = trades
  ticker = ticker
  btc = btc
  eth = eth
  m1 = m1
  m5 = m5
  Topics = {ticker}
  TradeTopics = {}
  Keys = {btc}
  Labels = {m1}
  Width <- MCWidthOne
  Grace = 1
  Sizes = {1}
  Null = Null
  NullTopics = {ticker}
  Bounded = FALSE
  MaxTs = 3
  MaxLog = 3
  MaxCrashes = 0
  MaxMetrics = 12
PROPERTIES
  NullOperandsSkipped
CHECK_DEADLOCK FALSE
