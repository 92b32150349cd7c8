SPECIFICATION CompilerSpec
CONSTANTS
  MaxMillis = 1000
  MaxUsize = 10
  MaxSymbols = 3
  MaxRequests = 4
  MaxOutputs = 2
  MaxU16 = 3
  Names <- MCNames
  Canonical <- MCCanonical
  BookNames <- MCBookNames
  EventKinds <- MCEventKinds
  ReservedIds <- MCReservedIds
  OutputLengths <- MCOutputLengths
  Requests <- MCRequests
INVARIANTS
  DefinitionsFindTheirCells
  EventsReachTheirDefinitions
  RefusalsNameTheFault
CHECK_DEADLOCK FALSE
