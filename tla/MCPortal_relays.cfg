SPECIFICATION Spec
CONSTANTS
  Session = {s1}
  Token = {t1}
  Ip = {ip1}
  Code = {c1}
  Text = {}
  InputSequence = {0, 1}
  None = None
  SESSION_TTL = 2
  TOKEN_TTL = 1
  TURN_TTL = 1
  RETENTION = 1
  TIMER_SLACK = 0
  Length <- OneTick
  Limit <- OnePerRole
  MAX_ACTIVE = 1
  MAX_AUDIT = 1
  MAX_CHAT = 1
  MAX_REPORTS = 0
  MAX_SIGNALS = 2
  TurnConfigured = FALSE
PROPERTIES SignalsArriveInOrder SignalsFollowConsent InputArrivesInOrder InputFollowsConsent
