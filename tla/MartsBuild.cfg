SPECIFICATION Spec
CONSTANTS
  Rows <- MCRows
  Null = Null
  Labels <- MCLabels
  Width <- MCWidth
  Grace = 1
  Symbols = {"BTC", "ETH"}
  MaxRows = 4
INVARIANTS
  GoldMatchesOracle
  RedeliveryIdempotent
  CompletenessIsFull
  ContractGuardsGold
  GoldAgreesWithStream
CHECK_DEADLOCK FALSE
