SPECIFICATION DerivationSpec
CONSTANTS
  Aggregation = 2
  MaxWindows = 2
  MaxInt = 100
  Scale = 12
  Never <- MCNever
  PeriodLists <- MCPeriodLists
  Times <- MCTimes
  Trades <- MCTrades
  MaxTrades = 4
INVARIANTS
  SumsAreOfTrades
  VolumesAreBalances
  AveragesAreMeansOfMeans
  VolatilitiesAreOfReturns
  SamplesAreOfTrades
