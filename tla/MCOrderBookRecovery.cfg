SPECIFICATION FairSpec
CONSTANTS
  Levels <- MCLevels
  UpdatePolicy = "Contiguous"
  BufferSize = 2
  MaxUpdateId = 4
  Timestamps = {0}
  Exchange <- MCExchange
  Deltas <- MCShortDeltas
  Snapshots <- MCSnapshots
PROPERTIES
  EventuallyResynchronizes
