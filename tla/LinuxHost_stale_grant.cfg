SPECIFICATION Spec
CONSTANTS
  Distances = {}
  Coordinates = {}
  Widths = {}
  WHOLE = 1
  Environments <- X11Only
  Batch <- OnePress
  Signals = {}
  BrowserMoves <- Withdrawals
  Faults = {}
  TurnUrls <- NoRelays
  MAX_ASKS = 3
  MAX_BATCHES = 1
  MAX_INBOUND = 4
  MAX_OUTBOUND = 0
PROPERTIES InjectedUnderItsGrant
CHECK_DEADLOCK FALSE
