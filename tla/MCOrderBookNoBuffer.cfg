SPECIFICATION Spec
CONSTANTS
  Levels <- MCLevels
  UpdatePolicy = "Contiguous"
  BufferSize = 0
  MaxUpdateId = 4
  Timestamps = {0, 1}
  Exchange <- MCExchange
  Deltas <- MCDeltas
  Snapshots <- MCSnapshots
INVARIANTS
  CoveredRangesAreStale
