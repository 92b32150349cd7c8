SPECIFICATION Spec
CONSTANTS
  Levels <- MCLevels
  UpdatePolicy = "Contiguous"
  BufferSize = 3
  MaxUpdateId = 4
  Timestamps = {0, 1}
  Exchange <- MCExchange
  Deltas <- MCDeltas
  Snapshots <- MCSnapshots
INVARIANTS
  TypeOK
  HistoryOrdered
  LiveHistoryIsComplete
  VisibleIsSnapshotPlusHistory
  SourceTimeIsOfVisibleUpdate
  HistoryReachesVisible
  CoveredRangesAreStale
  FlowIsOfVisibleDelta
PROPERTIES
  ReplicaSpec
  LiveBookKeepsUp
