SPECIFICATION FairSpec
CONSTANTS
  Distances = {}
  Coordinates = {}
  Widths = {}
  WHOLE = 1
  Environments <- X11Only
  Batch <- NoBatches
  Signals = {}
  BrowserMoves = {}
  Faults = {}
  TurnUrls <- NoRelays
  MAX_ASKS = 1
  MAX_BATCHES = 0
  MAX_INBOUND = 2
  MAX_OUTBOUND = 0
PROPERTIES EndStopsSharing
CHECK_DEADLOCK FALSE
