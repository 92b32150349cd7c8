SPECIFICATION ExtractorSpec
CONSTANTS
  Levels <- MCLevels
  UpdatePolicy = "Contiguous"
  BufferSize = 2
  Symbols <- MCSymbols
  BookSymbol = "BTC"
  Payloads = {0}
  NonFinite = 9
  MaxUpdateId = 3
  Timestamps = {0, 1}
  Deltas <- MCDeltas
  Snapshots <- MCSnapshots
  Events <- MCBookEvents
  Features <- MCBookFeatures
  ContextUpdates <- MCBookContextUpdates
INVARIANTS
  BookCellsFollowBook
  FlowCellsAreOfAppliedDeltas
PROPERTIES
  MarksAreOfLastEvent
  RejectionsDoNotShow
