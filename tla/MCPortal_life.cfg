SPECIFICATION Spec
CONSTANTS
  Session = {s1}
  Token = {t1}
  Ip = {ip1}
  Code = {c1}
  Text = {x}
  InputSequence = {}
  None = None
  SESSION_TTL = 2
  TOKEN_TTL = 2
  TURN_TTL = 2
  RETENTION = 1
  TIMER_SLACK = 0
  Length <- OneTick
  Limit <- OnePerRole
  MAX_ACTIVE = 1
  MAX_AUDIT = 2
  MAX_CHAT = 2
  MAX_REPORTS = 0
  MAX_SIGNALS = 0
  TurnConfigured = TRUE
INVARIANTS TypeOK AuditTellsState OneHostPerCode StreamsAreCurrent NothingOutlivesItsSession GrantsEndWithSession StreamsHearTheEnd
PROPERTIES StreamsOpenOnLiveSessions
