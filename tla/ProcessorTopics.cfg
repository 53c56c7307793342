SPECIFICATION Spec
CONSTANTS
  trades = trades
  ticker = ticker
  btc = btc
  eth = eth
  m1 = m1
  m5 = m5
  Topics = {trades, ticker}
  TradeTopics = {trades}
  Keys = {btc, eth}
  Labels = {m1, m5}
  Width <- MCWidthShort
  Grace = 0
  Sizes = {1}
  Null = Null
  NullTopics = {ticker}
  Bounded = TRUE
  MaxTs = 2
  MaxLog = 2
  MaxCrashes = 1
  MaxMetrics = 2
INVARIANTS
  MatchesReference
SYMMETRY MCSymmetry
CHECK_DEADLOCK FALSE
