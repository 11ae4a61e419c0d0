SPECIFICATION Spec
CONSTANTS
  Session = {s1}
  Token = {}
  Ip = {ip1}
  Code = {c1}
  Text = {}
  InputSequence = {}
  None = None
  SESSION_TTL = 3
  TOKEN_TTL = 1
  TURN_TTL = 2
  RETENTION = 3
  TIMER_SLACK = 0
  Length <- OneTick
  Limit <- TwoRequests
  MAX_ACTIVE = 1
  MAX_AUDIT = 4
  MAX_CHAT = 1
  MAX_REPORTS = 1
  MAX_SIGNALS = 0
  TurnConfigured = TRUE
INVARIANTS TurnEndsWithSession
