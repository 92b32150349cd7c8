SPECIFICATION ReplaySpec
CONSTANTS
  MaxWindows = 8
  MaxLag = 10000
  MaxCount = 2
  Scale = 12
  Unit = 12
  MaxCalls = 3
  Never <- MCNever
  Reserved <- MCReserved
  NormalTable <- MCNormalTable
  Symbols <- MCSymbols
  Context <- MCContext
  RawIds <- MCRawIds
  Graphs <- MCGraphs
  Values <- MCValues
  Times <- MCTimes
  Batches <- MCBatches
INVARIANTS
  RowsAreTimely
  NodesFollowAcceptedEvents
PROPERTIES
  ClocksNeverRegress
  ChangesAreMarked
