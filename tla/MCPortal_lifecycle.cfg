SPECIFICATION FairSpec
CONSTANTS
  Session = {s1, s2}
  Token = {}
  Ip = {ip1}
  Code = {c1, c2}
  Text = {}
  InputSequence = {}
  None = None
  SESSION_TTL = 2
  TOKEN_TTL = 1
  TURN_TTL = 2
  RETENTION = 1
  TIMER_SLACK = 0
  Length <- OneTick
  Limit <- OnePerRole
  MAX_ACTIVE = 1
  MAX_AUDIT = 1
  MAX_CHAT = 1
  MAX_REPORTS = 1
  MAX_SIGNALS = 0
  TurnConfigured = TRUE

INVARIANTS TurnEndsByExpiry CodesAreUnique ActiveSessionsCapped
PROPERTIES EverySessionEnds EveryRecordIsPurged ConsentIsKept
