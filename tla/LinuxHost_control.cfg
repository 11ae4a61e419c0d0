SPECIFICATION Spec
CONSTANTS
  Distances = {}
  Coordinates = {}
  Widths = {}
  WHOLE = 1
  Environments <- Desktops
  Batch <- PressBatches
  Signals = {"offer", "malformed"}
  BrowserMoves <- Withdrawals
  Faults = {"request", "reply", "stream", "closed", "display"}
  TurnUrls <- NoRelays
  MAX_ASKS = 2
  MAX_BATCHES = 2
  MAX_INBOUND = 4
  MAX_OUTBOUND = 1
INVARIANTS TypeOK SharesTheLocalDisplay LocalGrantMatchesController ReleasedWhenDropped ControllerNeedsGrant NoStaleEnvelope ViewFollowsCapture
PROPERTIES LocalConsentIsKept
CHECK_DEADLOCK FALSE
