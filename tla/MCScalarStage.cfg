SPECIFICATION StageSpec
CONSTANTS
  MaxWindows = 8
  MaxLag = 10000
  MaxCount = 3
  Scale = 12
  Never <- MCNever
  DefinitionLists <- MCDefinitionLists
  Prices <- MCPrices
  Rates <- MCRates
  Times <- MCTimes
  MaxRefreshes = 6
  MaxTimed = 4
INVARIANTS
  SummariesAreOfNewest
  OutputsAreOfOwnDefinition
  TimedOutputsAreOfClock
CHECK_DEADLOCK FALSE
