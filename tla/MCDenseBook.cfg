SPECIFICATION DenseSpec
CONSTANTS
  Levels <- MCLevels
  UpdatePolicy = "Monotonic"
  BufferSize = 3
  MaxUpdateId = 5
  Timestamps = {0, 1}
  Exchange <- MCExchange
  Deltas <- MCDeltas
  Snapshots <- MCSnapshots
  TickSize = 2
  MinPrice = 2
  MaxPrice = 6
INVARIANTS
  QuotesAreOfImage
PROPERTIES
  FlowAccountsForGrowth
