SPECIFICATION AttendedSpec
CONSTANTS
  Distances <- SomeDistances
  Coordinates <- SomeCoordinates
  Widths <- SomeWidths
  WHOLE = 1000
  Environments <- Usable
  Batch <- NoBatches
  Signals = {"offer"}
  BrowserMoves <- AnyWithdrawal
  Faults = {"reply", "stream", "clock", "killed"}
  TurnUrls <- Relays
  MAX_ASKS = 3
  MAX_BATCHES = 0
  MAX_INBOUND = 4
  MAX_OUTBOUND = 1
INVARIANTS KeyTablesAgree BothPathsScrollAlike PointerKeepsPace
PROPERTIES HostStopsAfterEnd ControlRequestsAreSettled
CHECK_DEADLOCK FALSE
