SPECIFICATION Spec
CONSTANTS
  Distances = {}
  Coordinates = {}
  Widths = {}
  WHOLE = 1
  Environments <- Usable
  Batch <- NoBatches
  Signals = {}
  BrowserMoves = {}
  Faults = {}
  TurnUrls <- Relays
  MAX_ASKS = 1
  MAX_BATCHES = 0
  MAX_INBOUND = 2
  MAX_OUTBOUND = 0
INVARIANTS SharingHostHasRelay
CHECK_DEADLOCK FALSE
