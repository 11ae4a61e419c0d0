SPECIFICATION FairSpec
CONSTANTS
  Session = {s1}
  Token = {}
  Ip = {ip1}
  Code = {c1}
  Text = {}
  InputSequence = {}
  None = None
  SESSION_TTL = 2
  TOKEN_TTL = 1
  TURN_TTL = 2
  RETENTION = 1
  TIMER_SLACK = 1
  Length <- OneTick
  Limit <- OnePerRole
  MAX_ACTIVE = 2
  MAX_AUDIT = 1
  MAX_CHAT = 1
  MAX_REPORTS = 0
  MAX_SIGNALS = 0
  TurnConfigured = FALSE

PROPERTIES EverySessionEnds
