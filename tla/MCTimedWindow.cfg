SPECIFICATION WindowSpec
CONSTANTS
  Aggregation = 2
  Periods <- MCPeriods
  Capacity = 3
  WarmupPolicy = "FullWindow"
  Times <- MCTimes
  Values = {1, 2}
  Never <- MCNever
  MaxReceived = 3
INVARIANTS
  OffsetsPartTheRing
  SumsAreOfReceived
PROPERTIES
  EvictsOnlyExpired
