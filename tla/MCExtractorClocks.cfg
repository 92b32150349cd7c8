SPECIFICATION ExtractorSpec
CONSTANTS
  Levels <- MCLevels
  UpdatePolicy = "Contiguous"
  BufferSize = 2
  Symbols <- MCSymbols
  BookSymbol = "BTC"
  Payloads = {0}
  NonFinite = 9
  MaxUpdateId = 0
  Timestamps = {0, 1, 2}
  Deltas = {}
  Snapshots = {}
  Events <- MCClockEvents
  Features <- MCClockFeatures
  ContextUpdates <- MCContextUpdates
INVARIANTS
  WatermarksAgree
  ClocksAreEvaluationTimes
  WindowSourcesAreTrades
