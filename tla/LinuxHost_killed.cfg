SPECIFICATION Spec
CONSTANTS
  Distances = {}
  Coordinates = {}
  Widths = {}
  WHOLE = 1
  Environments <- X11Only
  Batch <- OnePress
  Signals = {}
  BrowserMoves = {}
  Faults = {"killed"}
  TurnUrls <- NoRelays
  MAX_ASKS = 1
  MAX_BATCHES = 1
  MAX_INBOUND = 3
  MAX_OUTBOUND = 0
INVARIANTS KeysAreReleased
CHECK_DEADLOCK FALSE
