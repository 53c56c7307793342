SPECIFICATION Spec
CONSTANTS
  Clients = {p, q}
  Topics = {trades, ticker}
  Events = 2
INVARIANTS
  TypeOK
  TopicsReady
  RaceIsBenign
CHECK_DEADLOCK FALSE
