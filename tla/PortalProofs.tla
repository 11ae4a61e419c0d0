---------------------------- MODULE PortalProofs -----------------------------
(***************************************************************************)
(* Proofs about the portal, for every value of the constants.              *)
(***************************************************************************)
EXTENDS Portal, TLAPS

-----------------------------------------------------------------------------
(* The operators that the model is built from.                             *)

(* Pushing on a list that is within its bound keeps it there, and the      *)
(* entry pushed is the last.                                               *)
LEMMA PushKeepsBound ==
  ASSUME NEW S, NEW log \in Seq(S), NEW entry \in S, NEW max \in Nat \ {0},
         Len(log) <= max
  PROVE  /\ Push(log, entry, max) \in Seq(S)
         /\ Len(Push(log, entry, max)) <= max
         /\ Len(Push(log, entry, max)) > 0
         /\ Push(log, entry, max)[Len(Push(log, entry, max))] = entry
<1>1. CASE Len(log) < max
  BY <1>1 DEF Push
<1>2. CASE ~(Len(log) < max)
  <2>1. Len(log) = max
    BY <1>2
  <2>2. SubSeq(log, Len(log) - max + 2, Len(log)) \in Seq(S)
    BY <2>1
  <2>3. Len(SubSeq(log, Len(log) - max + 2, Len(log))) = max - 1
    BY <2>1
  <2>. QED  BY <1>2, <2>2, <2>3 DEF Push
<1>. QED  BY <1>1, <1>2

(* A counted, pruned or aged window is a window, and one that was counted  *)
(* is not empty.                                                           *)
LEMMA CountedIsWindow ==
  ASSUME NEW maxAge \in Nat, NEW limit \in Nat \ {0},
         NEW w \in Window(maxAge, limit), NEW over
  PROVE  Counted(w, over, limit) \in Window(maxAge, limit)
BY DEF Counted, Window, NoWindow

LEMMA PrunedIsWindow ==
  ASSUME NEW maxAge \in Nat, NEW limit \in Nat \ {0}, NEW retention \in Nat,
         NEW w \in Window(maxAge, limit)
  PROVE  /\ Pruned(w, retention) \in Window(maxAge, limit)
         /\ Pruned(NoWindow, retention) = NoWindow
BY DEF Pruned, Window, NoWindow

LEMMA OlderIsWindow ==
  ASSUME NEW maxAge \in Nat, NEW limit \in Nat \ {0},
         NEW w \in Window(maxAge, limit)
  PROVE  /\ Older(w, maxAge) \in Window(maxAge, limit)
         /\ Older(NoWindow, maxAge) = NoWindow
BY DEF Older, Window, NoWindow

LEMMA Constants ==
  /\ SESSION_TTL \in Nat \ {0} /\ TOKEN_TTL \in Nat \ {0}
  /\ TURN_TTL \in Nat \ {0} /\ RETENTION \in Nat \ {0} /\ TIMER_SLACK \in Nat
  /\ MAX_ACTIVE \in Nat \ {0} /\ MAX_AUDIT \in Nat \ {0}
  /\ MAX_CHAT \in Nat \ {0} /\ MAX_REPORTS \in Nat /\ MAX_SIGNALS \in Nat
  /\ \A k \in Kind : Length[k] \in Nat \ {0} /\ Limit[k] \in Nat \ {0}
  /\ RoleKind \subseteq Kind /\ "request" \in Kind /\ "input" \in Kind
BY TimesAssumption, WindowsAssumption, LimitsAssumption DEF Kind, RoleKind

-----------------------------------------------------------------------------
(* Session records.                                                        *)

(* A record that is typed and whose lists keep within their bounds.        *)
RecordOK(record) ==
  /\ record \in SessionRecord
  /\ Len(record.audit) <= MAX_AUDIT
  /\ Len(record.chat) <= MAX_CHAT

LEMMA AuditKeepsRecord ==
  ASSUME NEW record, RecordOK(record), NEW event \in Event
  PROVE  /\ RecordOK(AddAudit(record, event))
         /\ \A field \in {"state", "expiresIn", "expiryTimer", "chat"} :
              AddAudit(record, event)[field] = record[field]
<1>1. /\ record.audit \in Seq(Event)
      /\ Len(record.audit) <= MAX_AUDIT
  BY DEF RecordOK, SessionRecord
<1>2. /\ Push(record.audit, event, MAX_AUDIT) \in Seq(Event)
      /\ Len(Push(record.audit, event, MAX_AUDIT)) <= MAX_AUDIT
  BY <1>1, PushKeepsBound, Constants
<1>. QED  BY <1>2 DEF RecordOK, SessionRecord, AddAudit

LEMMA MovedKeepsRecord ==
  ASSUME NEW record, RecordOK(record), NEW event \in Event,
         NEW state \in LiveStates \cup TerminalStates
  PROVE  /\ RecordOK(Moved(record, state, event))
         /\ Moved(record, state, event).state = state
         /\ Moved(record, state, event).chat = record.chat
         /\ Moved(record, state, event).expiresIn = record.expiresIn
         /\ Moved(record, state, event).expiryTimer = record.expiryTimer
<1>. DEFINE moved == [record EXCEPT !.state = state]
<1>1. RecordOK(moved) /\ moved.state = state
  BY DEF RecordOK, SessionRecord
<1>2. /\ moved.chat = record.chat
      /\ moved.expiresIn = record.expiresIn
      /\ moved.expiryTimer = record.expiryTimer
  BY DEF RecordOK, SessionRecord
<1>. HIDE DEF moved
<1>3. Moved(record, state, event) = AddAudit(moved, event)
  BY DEF Moved, moved
<1>. QED  BY <1>1, <1>2, <1>3, AuditKeepsRecord

LEMMA TerminatedKeepsRecord ==
  ASSUME NEW record, RecordOK(record), NEW event \in Event,
         NEW state \in TerminalStates
  PROVE  /\ RecordOK(Terminated(record, state, event))
         /\ Terminated(record, state, event).state = state
         /\ Terminated(record, state, event).expiresIn = record.expiresIn
         /\ ~Terminated(record, state, event).expiryTimer
<1>. DEFINE moved == Moved(record, state, event)
<1>1. /\ RecordOK(moved)
      /\ moved.state = state
      /\ moved.expiresIn = record.expiresIn
  BY MovedKeepsRecord
<1>. HIDE DEF moved
<1>2. Terminated(record, state, event) =
        [moved EXCEPT !.expiryTimer = FALSE, !.purgeIn = RETENTION]
  BY DEF Terminated, moved
<1>3. RETENTION \in 0 .. RETENTION
  BY Constants
<1>. QED  BY <1>1, <1>2, <1>3 DEF RecordOK, SessionRecord

LEMMA JoinedKeepsRecord ==
  ASSUME NEW record, RecordOK(record)
  PROVE  /\ RecordOK(Joined(record))
         /\ Joined(record).state = "HOST_JOINED"
         /\ Joined(record).chat = record.chat
         /\ Joined(record).expiresIn = record.expiresIn
<1>. DEFINE moved == Moved(record, "HOST_JOINED", "HOST_JOINED")
<1>1. /\ RecordOK(moved)
      /\ moved.state = "HOST_JOINED"
      /\ moved.chat = record.chat
      /\ moved.expiresIn = record.expiresIn
  BY MovedKeepsRecord DEF LiveStates, Event, Leads
<1>. HIDE DEF moved
<1>2. Joined(record) = [moved EXCEPT !.hostToken = TRUE]
  BY DEF Joined, moved
<1>. QED  BY <1>1, <1>2 DEF RecordOK, SessionRecord

LEMMA AbsentIsRecord == RecordOK(Absent) /\ Absent.expiresIn = 0
BY Constants DEF RecordOK, SessionRecord, Absent

LEMMA NewSessionIsRecord ==
  ASSUME NEW ip \in Ip, NEW code \in Code
  PROVE  /\ RecordOK(NewSession(ip, code))
         /\ NewSession(ip, code).state = "CREATED"
         /\ NewSession(ip, code).expiresIn = SESSION_TTL
<1>. DEFINE audit == Push(<<>>, "SESSION_CREATED", MAX_AUDIT)
<1>1. "SESSION_CREATED" \in Event
  BY DEF Event, Leads
<1>2. audit \in Seq(Event) /\ Len(audit) <= MAX_AUDIT
  <2>1. <<>> \in Seq(Event) /\ Len(<<>>) <= MAX_AUDIT
    BY Constants
  <2>. QED  BY <1>1, <2>1, PushKeepsBound, Constants
<1>. HIDE DEF audit
<1>3. NewSession(ip, code) =
        [Absent EXCEPT !.state = "CREATED", !.ip = ip, !.code = code,
                       !.expiresIn = SESSION_TTL, !.expiryTimer = TRUE,
                       !.audit = audit]
  BY DEF NewSession, audit
<1>4. /\ SESSION_TTL \in 0 .. SESSION_TTL
      /\ "CREATED" \in LiveStates
  BY Constants DEF LiveStates
<1>5. NewSession(ip, code) \in SessionRecord
  <2>1. Absent \in SessionRecord
    BY AbsentIsRecord DEF RecordOK
  <2>. QED  BY <1>2, <1>3, <1>4, <2>1 DEF SessionRecord
<1>6. /\ NewSession(ip, code).state = "CREATED"
      /\ NewSession(ip, code).expiresIn = SESSION_TTL
      /\ NewSession(ip, code).audit = audit
      /\ NewSession(ip, code).chat = <<>>
  BY <1>3 DEF Absent
<1>. QED  BY <1>2, <1>5, <1>6, Constants DEF RecordOK

(* The moves that the participants make.                                   *)
LEMMA MovesAreLive ==
  ASSUME NEW move \in OperatorRequests \cup HostActions
  PROVE  /\ move.to \in LiveStates \ {"CREATED"}
         /\ move.from \subseteq LiveStates \ {"CREATED"}
         /\ move.event \in Event
<1>1. {"VIEW_REQUESTED", "CONTROL_REQUESTED", "APPROVE_VIEW", "DENY_VIEW",
       "APPROVE_CONTROL", "DENY_CONTROL", "REVOKE_CONTROL"} \subseteq Event
  BY DEF Event, Leads
<1>. QED
  BY <1>1 DEF OperatorRequests, HostActions, ViewRequest, ControlRequest,
       ApproveView, DenyView, ApproveControl, DenyControl, RevokeControl,
       Transition, LiveStates

LEMMA SessionsAreRecords ==
  ASSUME SessionsOK, NEW s \in Session
  PROVE  RecordOK(sessions[s])
BY DEF SessionsOK, RecordOK

-----------------------------------------------------------------------------
(* The session records stay records.                                       *)

LEMMA OneRecord ==
  ASSUME SessionsOK, NEW s \in Session, NEW record, RecordOK(record),
         sessions' = [sessions EXCEPT ![s] = record]
  PROVE  SessionsOK'
BY DEF SessionsOK, RecordOK

LEMMA EveryRecord ==
  ASSUME NEW f, sessions' = [s \in Session |-> f[s]],
         \A s \in Session : RecordOK(f[s])
  PROVE  SessionsOK'
BY DEF SessionsOK, RecordOK

LEMMA ExpiredAreRecords ==
  ASSUME SessionsOK, NEW S \in SUBSET Session
  PROVE  \A s \in Session :
           /\ RecordOK(Expired(S)[s])
           /\ Expired(S)[s].expiresIn = sessions[s].expiresIn
           /\ s \in S => /\ Expired(S)[s].state = "EXPIRED"
                         /\ ~Expired(S)[s].expiryTimer
           /\ s \notin S => Expired(S)[s] = sessions[s]
<1>. SUFFICES ASSUME NEW s \in Session
              PROVE  /\ RecordOK(Expired(S)[s])
                     /\ Expired(S)[s].expiresIn = sessions[s].expiresIn
                     /\ s \in S => /\ Expired(S)[s].state = "EXPIRED"
                                   /\ ~Expired(S)[s].expiryTimer
                     /\ s \notin S => Expired(S)[s] = sessions[s]
  OBVIOUS
<1>1. RecordOK(sessions[s])
  BY SessionsAreRecords
<1>2. "SESSION_EXPIRED" \in Event /\ "EXPIRED" \in TerminalStates
  BY DEF Event, Leads, TerminalStates
<1>. QED  BY <1>1, <1>2, TerminatedKeepsRecord DEF Expired

LEMMA ExpireKeepsSessions ==
  ASSUME SessionsOK, NEW S \in SUBSET Session, Expire(S)
  PROVE  SessionsOK'
<1>1. sessions' = [s \in Session |-> Expired(S)[s]]
  BY DEF Expire, Expired
<1>. QED  BY <1>1, EveryRecord, ExpiredAreRecords

(* Every step leaves the session records typed and within their bounds.    *)
LEMMA SessionsStep ==
  ASSUME SessionsOK, [Next]_vars
  PROVE  SessionsOK'
<1>. USE SessionsAreRecords
<1>1. CASE sessions' = sessions
  BY <1>1 DEF SessionsOK
<1>2. ASSUME NEW ip \in Ip, NEW s \in Session, NEW code \in Code,
             CreateSession(ip, s, code)
      PROVE  SessionsOK'
  <2>. DEFINE new == NewSession(ip, code)
              f == [Expired(LapsedSessions) EXCEPT ![s] = new]
  <2>1. RecordOK(new)
    BY NewSessionIsRecord
  <2>2. LapsedSessions \in SUBSET Session
    BY DEF LapsedSessions
  <2>3. DOMAIN f = Session
    BY DEF Expired
  <2>4. sessions' = [x \in Session |-> f[x]]
    BY <1>2, <2>3 DEF CreateSession
  <2>5. ASSUME NEW x \in Session
        PROVE  RecordOK(f[x])
    <3>. HIDE DEF new
    <3>1. RecordOK(Expired(LapsedSessions)[x])
      BY <2>2, ExpiredAreRecords
    <3>2. f[x] = IF x = s THEN new ELSE Expired(LapsedSessions)[x]
      BY DEF Expired
    <3>. QED  BY <2>1, <3>1, <3>2
  <2>. HIDE DEF f
  <2>. QED  BY <2>4, <2>5, EveryRecord
<1>3. ASSUME NEW ip \in Ip, CreateRefused(ip)
      PROVE  SessionsOK'
  BY <1>3, ExpireKeepsSessions DEF CreateRefused, LapsedSessions
<1>4. ASSUME NEW ip \in Ip, NEW s \in Session, Join(ip, s)
      PROVE  SessionsOK'
  BY <1>4, JoinedKeepsRecord, OneRecord DEF Join
<1>5. ASSUME NEW s \in Session,
             ExpireOnAccess(s) \/ \E ip \in Ip : JoinLapsed(ip, s)
      PROVE  SessionsOK'
  BY <1>5, ExpireKeepsSessions DEF JoinLapsed, ExpireOnAccess
<1>6. ASSUME NEW s \in Session, NEW role \in Role,
             NEW move \in OperatorRequests \cup HostActions, Act(s, role, move)
      PROVE  SessionsOK'
  <2>1. move.to \in LiveStates /\ move.event \in Event
    BY MovesAreLive
  <2>2. RecordOK(Moved(sessions[s], move.to, move.event))
    BY <2>1, MovedKeepsRecord
  <2>. QED  BY <1>6, <2>2, OneRecord DEF Act, Step
<1>7. ASSUME NEW s \in Session, NEW role \in Role, End(s, role)
      PROVE  SessionsOK'
  <2>1. "SESSION_ENDED" \in Event /\ "ENDED" \in TerminalStates
    BY DEF Event, Leads, TerminalStates
  <2>2. RecordOK(Terminated(sessions[s], "ENDED", "SESSION_ENDED"))
    BY <2>1, TerminatedKeepsRecord
  <2>. QED  BY <1>7, <2>2, OneRecord DEF End
<1>8. ASSUME NEW s \in Session, NEW role \in Role, ReportAbuse(s, role)
      PROVE  SessionsOK'
  <2>1. /\ "SESSION_ENDED_AFTER_ABUSE_REPORT" \in Event
        /\ "ABUSE_REPORTED" \in Event
        /\ "ENDED" \in TerminalStates
    BY DEF Event, Leads, Neutral, TerminalStates
  <2>2. RecordOK(AddAudit(sessions[s], "ABUSE_REPORTED"))
    BY <2>1, AuditKeepsRecord
  <2>3. RecordOK(Terminated(AddAudit(sessions[s], "ABUSE_REPORTED"), "ENDED",
                            "SESSION_ENDED_AFTER_ABUSE_REPORT"))
    BY <2>1, <2>2, TerminatedKeepsRecord
  <2>. QED  BY <1>8, <2>3, OneRecord DEF ReportAbuse
<1>9. ASSUME NEW s \in Session, NEW role \in Role, IceConfig(s, role)
      PROVE  SessionsOK'
  <2>1. "TURN_CREDENTIAL_ISSUED" \in Event
    BY DEF Event, Neutral
  <2>. QED  BY <1>9, <2>1, AuditKeepsRecord, OneRecord DEF IceConfig
<1>10. ASSUME NEW s \in Session, NEW role \in Role, Signal(s, role)
       PROVE  SessionsOK'
  <2>. DEFINE record == [sessions[s] EXCEPT !.signalSequence = NextSequence(s)]
  <2>1. NextSequence(s) \in 0 .. MAX_SIGNALS
    BY <1>10, Constants DEF Signal, NextSequence, SessionsOK, SessionRecord
  <2>2. RecordOK(record)
    BY <2>1 DEF RecordOK, SessionRecord
  <2>3. sessions' = [sessions EXCEPT ![s] = record]
    BY <1>10 DEF Signal
  <2>. QED  BY <2>2, <2>3, OneRecord
<1>11. ASSUME NEW s \in Session, NEW role \in Role, NEW text \in Text,
              Chat(s, role, text)
       PROVE  SessionsOK'
  <2>. DEFINE message == [from |-> role, text |-> text]
              chat == Push(sessions[s].chat, message, MAX_CHAT)
              record == [sessions[s] EXCEPT !.chat = chat]
  <2>1. message \in Message
    BY DEF Message
  <2>2. chat \in Seq(Message) /\ Len(chat) <= MAX_CHAT
    BY <2>1, PushKeepsBound, Constants DEF RecordOK, SessionRecord
  <2>3. sessions' = [sessions EXCEPT ![s] = record]
    BY <1>11 DEF Chat
  <2>4. RecordOK(record)
    <3>. HIDE DEF chat
    <3>. QED  BY <2>2 DEF RecordOK, SessionRecord
  <2>. QED  BY <2>3, <2>4, OneRecord
<1>12. ASSUME NEW s \in Session, NEW sequence \in InputSequence,
              Input(s, sequence)
       PROVE  SessionsOK'
  <2>. DEFINE record == [sessions[s] EXCEPT !.lastInputSequence = sequence]
  <2>1. RecordOK(record)
    BY DEF RecordOK, SessionRecord
  <2>2. sessions' = [sessions EXCEPT ![s] = record]
    BY <1>12 DEF Input
  <2>. QED  BY <2>1, <2>2, OneRecord
<1>13. ASSUME NEW s \in Session, FireExpiryTimer(s)
       PROVE  SessionsOK'
  <2>1. CASE sessions[s].expiresIn = 0
    BY <1>13, <2>1, ExpireKeepsSessions DEF FireExpiryTimer
  <2>2. CASE sessions[s].expiresIn # 0
    <3>. DEFINE record == [sessions[s] EXCEPT !.expiryTimer = FALSE]
    <3>1. RecordOK(record)
      BY DEF RecordOK, SessionRecord
    <3>2. sessions' = [sessions EXCEPT ![s] = record]
      BY <1>13, <2>2 DEF FireExpiryTimer
    <3>. QED  BY <3>1, <3>2, OneRecord
  <2>. QED  BY <2>1, <2>2
<1>14. ASSUME NEW s \in Session, FirePurgeTimer(s)
       PROVE  SessionsOK'
  BY <1>14, AbsentIsRecord, OneRecord DEF FirePurgeTimer
<1>15. CASE Tick
  <2>. DEFINE f == [s \in Session |-> [sessions[s] EXCEPT !.expiresIn = Less(@),
                                                         !.purgeIn = Less(@)]]
  <2>1. ASSUME NEW s \in Session
        PROVE  RecordOK(f[s])
    <3>1. /\ Less(sessions[s].expiresIn) \in 0 .. SESSION_TTL
          /\ Less(sessions[s].purgeIn) \in 0 .. RETENTION
      <4>1. RecordOK(sessions[s])
        OBVIOUS
      <4>2. /\ sessions[s].expiresIn \in 0 .. SESSION_TTL
            /\ sessions[s].purgeIn \in 0 .. RETENTION
        BY <4>1 DEF RecordOK, SessionRecord
      <4>. QED  BY <4>2, Constants DEF Less
    <3>. QED  BY <3>1 DEF RecordOK, SessionRecord
  <2>2. sessions' = [s \in Session |-> f[s]]
    BY <1>15 DEF Tick
  <2>. HIDE DEF f
  <2>. QED  BY <2>1, <2>2, EveryRecord
<1>16. ASSUME \/ EventsRefused
              \/ \E ip \in Ip : RequestLimited(ip) \/ JoinRefused(ip)
              \/ \E s \in Session, role \in Role :
                   \/ TokenLimited(s, role) \/ SignalLimited(s, role)
                   \/ ChatLimited(s, role)
                   \/ \E t \in Token : IssueEventToken(s, role, t)
              \/ \E s \in Session : InputDropped(s)
              \/ \E t \in Token : OpenEvents(t) \/ CloseEvents(t)
       PROVE  SessionsOK'
  BY <1>16, <1>1 DEF EventsRefused, RequestLimited, JoinRefused, TokenLimited,
       SignalLimited, ChatLimited, IssueEventToken, InputDropped, OpenEvents,
       CloseEvents
<1>17. CASE UNCHANGED vars
  BY <1>17, <1>1 DEF vars
<1>. QED
  BY <1>2, <1>3, <1>4, <1>5, <1>6, <1>7, <1>8, <1>9, <1>10, <1>11, <1>12,
     <1>13, <1>14, <1>15, <1>16, <1>17 DEF Next

-----------------------------------------------------------------------------
(* The credentials stay credentials.                                       *)

LEMMA InvalidationKeepsTokens ==
  ASSUME TokensOK, NEW S, InvalidateEventTokens(S)
  PROVE  /\ TokensOK'
         /\ \A t \in Token : eventTokens'[t].session \notin S \/ None \in S
         /\ \A t \in Token : \/ eventTokens'[t] = NoGrant
                             \/ eventTokens'[t] = eventTokens[t]
BY DEF TokensOK, InvalidateEventTokens, NoGrant

LEMMA CurrentAreTokens ==
  ASSUME TokensOK
  PROVE  /\ CurrentTokens \in [Token -> Grant \cup {NoGrant}]
         /\ \A t \in Token : CurrentTokens[t] \in {NoGrant, eventTokens[t]}
         /\ \A t \in Token : CurrentTokens[t] # NoGrant => eventTokens[t].left # 0
BY DEF TokensOK, CurrentTokens

(* Whatever Release does to the credentials, as the actions that call it.  *)
LEMMA TokenLifeIsTyped ==
  ASSUME SessionsOK, NEW s \in Session
  PROVE  /\ TokenLife(s) \in 0 .. TOKEN_TTL
         /\ TokenLife(s) <= sessions[s].expiresIn
         /\ TurnLife(s) \in 0 .. TURN_TTL
         /\ TurnLife(s) <= sessions[s].expiresIn
<1>1. sessions[s].expiresIn \in 0 .. SESSION_TTL
  BY DEF SessionsOK, SessionRecord
<1>. QED  BY <1>1, Constants DEF TokenLife, TurnLife, Lesser

LEMMA TokensStep ==
  ASSUME SessionsOK, TokensOK, [Next]_vars
  PROVE  TokensOK'
<1>1. CASE eventTokens' = eventTokens
  BY <1>1 DEF TokensOK
<1>2. ASSUME NEW S, InvalidateEventTokens(S)
      PROVE  TokensOK'
  BY <1>2, InvalidationKeepsTokens
<1>3. ASSUME NEW ip \in Ip, NEW s \in Session, NEW code \in Code,
             CreateSession(ip, s, code)
      PROVE  TokensOK'
  BY <1>2, <1>3 DEF CreateSession, Release
<1>4. ASSUME \/ \E ip \in Ip : CreateRefused(ip)
             \/ \E ip \in Ip, s \in Session : JoinLapsed(ip, s)
             \/ \E s \in Session : ExpireOnAccess(s)
      PROVE  TokensOK'
  BY <1>2, <1>4 DEF CreateRefused, JoinLapsed, ExpireOnAccess, Expire, Release
<1>5. ASSUME NEW s \in Session, NEW role \in Role,
             End(s, role) \/ ReportAbuse(s, role)
      PROVE  TokensOK'
  BY <1>2, <1>5 DEF End, ReportAbuse, Release
<1>6. ASSUME NEW s \in Session, FireExpiryTimer(s) \/ FirePurgeTimer(s)
      PROVE  TokensOK'
  BY <1>1, <1>2, <1>6 DEF FireExpiryTimer, FirePurgeTimer, Expire, Release
<1>7. ASSUME NEW s \in Session, NEW role \in Role, NEW t \in Token,
             IssueEventToken(s, role, t)
      PROVE  TokensOK'
  <2>. DEFINE grant == [session |-> s, role |-> role, left |-> TokenLife(s)]
  <2>1. grant \in Grant
    BY TokenLifeIsTyped DEF Grant
  <2>2. eventTokens' = [CurrentTokens EXCEPT ![t] = grant]
    BY <1>7 DEF IssueEventToken
  <2>. HIDE DEF grant
  <2>. QED  BY <2>1, <2>2, CurrentAreTokens DEF TokensOK
<1>8. ASSUME NEW s \in Session, NEW role \in Role, TokenLimited(s, role)
      PROVE  TokensOK'
  BY <1>8, CurrentAreTokens DEF TokenLimited, TokensOK
<1>9. ASSUME NEW t \in Token, OpenEvents(t)
      PROVE  TokensOK'
  BY <1>9, CurrentAreTokens DEF OpenEvents, TokensOK
<1>10. CASE EventsRefused
  BY <1>10, CurrentAreTokens DEF EventsRefused, TokensOK
<1>11. CASE Tick
  <2>1. ASSUME NEW t \in Token
        PROVE  [eventTokens[t] EXCEPT !.left = Less(@)] \in Grant \cup {NoGrant}
    <3>1. CASE eventTokens[t] = NoGrant
      BY <3>1 DEF NoGrant, Less
    <3>2. CASE eventTokens[t] \in Grant
      <4>1. eventTokens[t].left \in 0 .. TOKEN_TTL
        BY <3>2 DEF Grant
      <4>2. Less(eventTokens[t].left) \in 0 .. TOKEN_TTL
        BY <4>1, Constants DEF Less
      <4>. QED  BY <3>2, <4>2 DEF Grant
    <3>. QED  BY <3>1, <3>2 DEF TokensOK
  <2>. QED  BY <1>11, <2>1 DEF Tick, TokensOK
<1>12. ASSUME \/ \E ip \in Ip : \/ RequestLimited(ip) \/ JoinRefused(ip)
                               \/ \E s \in Session : Join(ip, s)
              \/ \E s \in Session, role \in Role :
                   \/ \E move \in OperatorRequests \cup HostActions :
                        Act(s, role, move)
                   \/ IceConfig(s, role)
                   \/ Signal(s, role) \/ SignalLimited(s, role)
                   \/ ChatLimited(s, role)
                   \/ \E text \in Text : Chat(s, role, text)
              \/ \E s \in Session :
                   \/ InputDropped(s)
                   \/ \E sequence \in InputSequence : Input(s, sequence)
              \/ \E t \in Token : CloseEvents(t)
              \/ UNCHANGED vars
       PROVE  eventTokens' = eventTokens
  BY <1>12 DEF RequestLimited, JoinRefused, Join, Act, Step, IceConfig, Signal,
       SignalLimited, ChatLimited, Chat, InputDropped, Input, CloseEvents, vars
<1>. QED
  BY <1>1, <1>3, <1>4, <1>5, <1>6, <1>7, <1>8, <1>9, <1>10, <1>11, <1>12 DEF Next

-----------------------------------------------------------------------------
(* The streams stay streams.                                               *)

(* A stream that is typed, within its bound, and somebody's while open.    *)
StreamOK(stream) ==
  /\ stream \in Stream
  /\ Len(stream.chat) <= MAX_CHAT
  /\ stream.phase = "open" => stream.session \in Session /\ stream.role \in Role

LEMMA StreamsAreOK ==
  ASSUME StreamsOK, NEW t \in Token
  PROVE  StreamOK(streams[t])
BY DEF StreamsOK, StreamOK

LEMMA EveryStream ==
  ASSUME NEW f, streams' = [t \in Token |-> f[t]],
         \A t \in Token : StreamOK(f[t])
  PROVE  StreamsOK'
BY DEF StreamsOK, StreamOK

LEMMA OneStream ==
  ASSUME StreamsOK, NEW t \in Token, NEW stream, StreamOK(stream),
         streams' = [streams EXCEPT ![t] = stream]
  PROVE  StreamsOK'
BY DEF StreamsOK, StreamOK

LEMMA SnapshotIsStream ==
  ASSUME NEW stream, StreamOK(stream), NEW record, RecordOK(record),
         record.state # "ABSENT"
  PROVE  /\ StreamOK(Snapshot(stream, record))
         /\ Snapshot(stream, record).state = record.state
         /\ Snapshot(stream, record).chat = record.chat
         /\ Snapshot(stream, record).session = stream.session
         /\ Snapshot(stream, record).role = stream.role
         /\ Snapshot(stream, record).phase = stream.phase
BY DEF Snapshot, StreamOK, Stream, RecordOK, SessionRecord

LEMMA NoStreamIsStream ==
  /\ StreamOK(NoStream)
  /\ NoStream.phase = "none" /\ NoStream.session = None
BY Constants DEF StreamOK, Stream, NoStream

LEMMA HangupIsStream ==
  ASSUME NEW stream, NEW record, RecordOK(record),
         record.state \in TerminalStates
  PROVE  /\ StreamOK(Hangup(stream, record))
         /\ Hangup(stream, record).phase = "closed"
         /\ Hangup(stream, record).state = record.state
<1>1. NoStream \in Stream /\ Len(NoStream.chat) <= MAX_CHAT
  BY NoStreamIsStream DEF StreamOK
<1>2. record.state \in LiveStates \cup TerminalStates \cup {None}
  OBVIOUS
<1>3. /\ Hangup(stream, record) \in Stream
      /\ Hangup(stream, record).chat = NoStream.chat
      /\ Hangup(stream, record).phase = "closed"
      /\ Hangup(stream, record).state = record.state
  BY <1>1, <1>2 DEF Stream, Hangup
<1>. QED  BY <1>1, <1>3 DEF StreamOK

LEMMA OpenedIsStream ==
  ASSUME NEW grant \in Grant, NEW record, RecordOK(record),
         record.state # "ABSENT"
  PROVE  /\ StreamOK(Opened(grant, record))
         /\ Opened(grant, record).phase = "open"
         /\ Opened(grant, record).session = grant.session
         /\ Opened(grant, record).role = grant.role
         /\ Opened(grant, record).state = record.state
         /\ Opened(grant, record).chat = record.chat
<1>. DEFINE stream == [NoStream EXCEPT !.session = grant.session,
                                       !.role = grant.role, !.phase = "open"]
<1>1. /\ StreamOK(stream)
      /\ stream.phase = "open"
      /\ stream.session = grant.session
      /\ stream.role = grant.role
  <2>1. NoStream \in Stream /\ Len(NoStream.chat) <= MAX_CHAT
    BY NoStreamIsStream DEF StreamOK
  <2>2. grant.session \in Session /\ grant.role \in Role
    BY DEF Grant
  <2>3. /\ stream \in Stream
        /\ stream.chat = NoStream.chat
        /\ stream.phase = "open"
        /\ stream.session = grant.session
        /\ stream.role = grant.role
    BY <2>1, <2>2 DEF Stream
  <2>. QED  BY <2>1, <2>2, <2>3 DEF StreamOK
<1>2. Opened(grant, record) = Snapshot(stream, record)
  BY DEF Opened
<1>. HIDE DEF stream
<1>. QED  BY <1>1, <1>2, SnapshotIsStream

LEMMA PublishKeepsStreams ==
  ASSUME StreamsOK, SessionsOK', NEW s \in Session, Publish(s), Present(s)'
  PROVE  StreamsOK'
<1>. DEFINE f == [t \in Token |-> IF Subscribed(t, s)
                                 THEN Snapshot(streams[t], sessions'[s])
                                 ELSE streams[t]]
<1>1. RecordOK(sessions[s])'
  BY DEF SessionsOK, RecordOK
<1>2. ASSUME NEW t \in Token
      PROVE  StreamOK(f[t])
  BY <1>1, StreamsAreOK, SnapshotIsStream DEF Present
<1>3. streams' = [t \in Token |-> f[t]]
  BY DEF Publish
<1>. QED  BY <1>2, <1>3, EveryStream

LEMMA HangupKeepsStreams ==
  ASSUME StreamsOK, SessionsOK', NEW S \in SUBSET Session, CloseSubscribers(S),
         \A s \in S : Terminal(s)'
  PROVE  StreamsOK'
<1>. DEFINE f == [t \in Token |->
                    IF streams[t].phase = "open" /\ streams[t].session \in S
                    THEN Hangup(streams[t], sessions'[streams[t].session])
                    ELSE streams[t]]
<1>1. \A s \in S : RecordOK(sessions[s])'
  BY DEF SessionsOK, RecordOK
<1>2. ASSUME NEW t \in Token
      PROVE  StreamOK(f[t])
  BY <1>1, StreamsAreOK, HangupIsStream DEF Terminal
<1>3. streams' = [t \in Token |-> f[t]]
  BY DEF CloseSubscribers
<1>. QED  BY <1>2, <1>3, EveryStream

(* The sessions that a handler or a timer ends are terminal by the time it *)
(* releases what they hold.                                                *)
LEMMA ExpiredAreTerminal ==
  ASSUME SessionsOK, NEW S \in SUBSET Session, Expire(S)
  PROVE  /\ \A s \in S : Terminal(s)'
         /\ Release(S)
<1>. QED  BY ExpiredAreRecords DEF Expire, Terminal, TerminalStates

LEMMA CreationExpires ==
  ASSUME SessionsOK, NEW ip \in Ip, NEW s \in Session, NEW code \in Code,
         CreateSession(ip, s, code)
  PROVE  /\ LapsedSessions \in SUBSET Session
         /\ s \notin LapsedSessions
         /\ \A x \in LapsedSessions : Terminal(x)' /\ ~sessions'[x].expiryTimer
         /\ sessions'[s] = NewSession(ip, code)
         /\ \A x \in Session \ (LapsedSessions \cup {s}) :
              sessions'[x] = sessions[x]
         /\ Release(LapsedSessions)
<1>1. s \notin LapsedSessions
  BY DEF CreateSession, Unnamed, Present, LapsedSessions, Lapsed, Live, LiveStates
<1>2. LapsedSessions \in SUBSET Session
  BY DEF LapsedSessions
<1>3. sessions' = [Expired(LapsedSessions) EXCEPT ![s] = NewSession(ip, code)]
  BY DEF CreateSession
<1>4. /\ sessions'[s] = NewSession(ip, code)
      /\ \A x \in Session \ {s} : sessions'[x] = Expired(LapsedSessions)[x]
  BY <1>3 DEF Expired
<1>. HIDE DEF LapsedSessions
<1>5. \A x \in LapsedSessions : Terminal(x)' /\ ~sessions'[x].expiryTimer
  BY <1>1, <1>2, <1>4, ExpiredAreRecords DEF Terminal, TerminalStates
<1>6. \A x \in Session \ (LapsedSessions \cup {s}) : sessions'[x] = sessions[x]
  BY <1>2, <1>4, ExpiredAreRecords
<1>. QED  BY <1>1, <1>2, <1>4, <1>5, <1>6 DEF CreateSession

LEMMA EndingTerminates ==
  ASSUME SessionsOK, NEW s \in Session, NEW role \in Role,
         End(s, role) \/ ReportAbuse(s, role)
  PROVE  /\ Terminal(s)' /\ ~sessions'[s].expiryTimer
         /\ \A x \in Session \ {s} : sessions'[x] = sessions[x]
         /\ Release({s})
<1>1. /\ {"SESSION_ENDED", "SESSION_ENDED_AFTER_ABUSE_REPORT",
          "ABUSE_REPORTED"} \subseteq Event
      /\ "ENDED" \in TerminalStates
  BY DEF Event, Leads, Neutral, TerminalStates
<1>2. RecordOK(sessions[s]) /\ RecordOK(AddAudit(sessions[s], "ABUSE_REPORTED"))
  BY <1>1, SessionsAreRecords, AuditKeepsRecord
<1>3. CASE End(s, role)
  <2>1. sessions' = [sessions EXCEPT ![s] =
                       Terminated(sessions[s], "ENDED", "SESSION_ENDED")]
    BY <1>3 DEF End
  <2>. QED  BY <1>1, <1>2, <1>3, <2>1, TerminatedKeepsRecord
            DEF End, Terminal, SessionsOK
<1>4. CASE ReportAbuse(s, role)
  <2>. DEFINE reported == AddAudit(sessions[s], "ABUSE_REPORTED")
  <2>1. sessions' = [sessions EXCEPT ![s] =
                       Terminated(reported, "ENDED",
                                  "SESSION_ENDED_AFTER_ABUSE_REPORT")]
    BY <1>4 DEF ReportAbuse
  <2>. HIDE DEF reported
  <2>2. RecordOK(reported)
    BY <1>2 DEF reported
  <2>3. /\ Terminated(reported, "ENDED",
                      "SESSION_ENDED_AFTER_ABUSE_REPORT").state = "ENDED"
        /\ ~Terminated(reported, "ENDED",
                       "SESSION_ENDED_AFTER_ABUSE_REPORT").expiryTimer
    BY <1>1, <2>2, TerminatedKeepsRecord
  <2>. QED  BY <1>1, <1>4, <2>1, <2>3 DEF ReportAbuse, Terminal, SessionsOK
<1>. QED  BY <1>3, <1>4

LEMMA StreamsStep ==
  ASSUME SessionsOK, TokensOK, StreamsOK, [Next]_vars
  PROVE  StreamsOK'
<1>. USE SessionsStep
<1>1. CASE streams' = streams
  BY <1>1 DEF StreamsOK
<1>2. ASSUME NEW S \in SUBSET Session, Expire(S)
      PROVE  StreamsOK'
  BY <1>2, ExpiredAreTerminal, HangupKeepsStreams DEF Release
<1>3. ASSUME NEW ip \in Ip, NEW s \in Session, NEW code \in Code,
             CreateSession(ip, s, code)
      PROVE  StreamsOK'
  BY <1>3, CreationExpires, HangupKeepsStreams DEF Release
<1>4. ASSUME NEW ip \in Ip, NEW s \in Session, Join(ip, s)
      PROVE  StreamsOK'
  <2>1. sessions'[s].state = "HOST_JOINED"
    BY <1>4, SessionsAreRecords, JoinedKeepsRecord DEF Join, SessionsOK
  <2>. QED  BY <1>4, <2>1, PublishKeepsStreams DEF Join, Present
<1>5. ASSUME \/ \E ip \in Ip : CreateRefused(ip)
             \/ \E ip \in Ip, s \in Session : JoinLapsed(ip, s)
             \/ \E s \in Session : ExpireOnAccess(s)
      PROVE  StreamsOK'
  BY <1>2, <1>5 DEF CreateRefused, JoinLapsed, ExpireOnAccess, LapsedSessions
<1>6. ASSUME NEW s \in Session, NEW role \in Role,
             NEW move \in OperatorRequests \cup HostActions, Act(s, role, move)
      PROVE  StreamsOK'
  <2>1. move.to \in LiveStates /\ move.event \in Event
    BY MovesAreLive
  <2>2. sessions'[s].state = move.to
    BY <1>6, <2>1, SessionsAreRecords, MovedKeepsRecord DEF Act, Step, SessionsOK
  <2>. QED  BY <1>6, <2>1, <2>2, PublishKeepsStreams
            DEF Act, Step, Present, LiveStates
<1>7. ASSUME NEW s \in Session, NEW role \in Role,
             End(s, role) \/ ReportAbuse(s, role)
      PROVE  StreamsOK'
  BY <1>7, EndingTerminates, HangupKeepsStreams DEF Release
<1>8. ASSUME NEW s \in Session, NEW role \in Role, NEW t \in Token,
             IssueEventToken(s, role, t)
      PROVE  StreamsOK'
  BY <1>8, NoStreamIsStream, OneStream DEF IssueEventToken
<1>9. ASSUME NEW t \in Token, OpenEvents(t)
      PROVE  StreamsOK'
  <2>. DEFINE grant == CurrentTokens[t]
  <2>1. grant \in Grant /\ grant.session \in Session
    BY <1>9, CurrentAreTokens DEF OpenEvents, Grant
  <2>2. StreamOK(Opened(grant, sessions[grant.session]))
    <3>. HIDE DEF grant
    <3>1. sessions[grant.session].state # "ABSENT"
      BY <1>9 DEF OpenEvents, Present, grant
    <3>. QED  BY <2>1, <3>1, SessionsAreRecords, OpenedIsStream
  <2>. QED  BY <1>9, <2>2, OneStream DEF OpenEvents
<1>10. ASSUME NEW t \in Token, CloseEvents(t)
       PROVE  StreamsOK'
  BY <1>10, NoStreamIsStream, OneStream DEF CloseEvents
<1>11. ASSUME NEW s \in Session, NEW role \in Role, Signal(s, role)
       PROVE  StreamsOK'
  <2>. DEFINE f == [t \in Token |->
                      IF Subscribed(t, s) /\ streams[t].role = Other(role)
                      THEN [streams[t] EXCEPT !.signal = NextSequence(s)]
                      ELSE streams[t]]
  <2>1. NextSequence(s) \in 0 .. MAX_SIGNALS
    BY <1>11, Constants DEF Signal, NextSequence, SessionsOK, SessionRecord
  <2>2. ASSUME NEW t \in Token
        PROVE  StreamOK(f[t])
    BY <2>1, StreamsAreOK DEF StreamOK, Stream
  <2>3. streams' = [t \in Token |-> f[t]]
    BY <1>11 DEF Signal, PublishSignal
  <2>. QED  BY <2>2, <2>3, EveryStream
<1>12. ASSUME NEW s \in Session, NEW role \in Role, NEW text \in Text,
              Chat(s, role, text)
       PROVE  StreamsOK'
  <2>. DEFINE message == [from |-> role, text |-> text]
              f == [t \in Token |->
                      IF Subscribed(t, s)
                      THEN [streams[t] EXCEPT !.chat =
                              Push(streams[t].chat, message, MAX_CHAT)]
                      ELSE streams[t]]
  <2>1. message \in Message
    BY DEF Message
  <2>2. ASSUME NEW t \in Token
        PROVE  StreamOK(f[t])
    <3>. DEFINE chat == Push(streams[t].chat, message, MAX_CHAT)
    <3>1. StreamOK(streams[t])
      BY StreamsAreOK
    <3>2. chat \in Seq(Message) /\ Len(chat) <= MAX_CHAT
      BY <2>1, <3>1, PushKeepsBound, Constants DEF StreamOK, Stream
    <3>3. f[t] = IF Subscribed(t, s) THEN [streams[t] EXCEPT !.chat = chat]
                 ELSE streams[t]
      OBVIOUS
    <3>. HIDE DEF chat, f
    <3>. QED  BY <3>1, <3>2, <3>3 DEF StreamOK, Stream
  <2>3. streams' = [t \in Token |-> f[t]]
    BY <1>12 DEF Chat, PublishChat
  <2>. HIDE DEF f
  <2>. QED  BY <2>2, <2>3, EveryStream
<1>13. ASSUME NEW s \in Session, NEW sequence \in InputSequence,
              Input(s, sequence)
       PROVE  StreamsOK'
  <2>. DEFINE f == [t \in Token |->
                      IF Subscribed(t, s) /\ streams[t].role = "host"
                      THEN [streams[t] EXCEPT !.input = sequence]
                      ELSE streams[t]]
  <2>1. ASSUME NEW t \in Token
        PROVE  StreamOK(f[t])
    BY StreamsAreOK DEF StreamOK, Stream
  <2>2. streams' = [t \in Token |-> f[t]]
    BY <1>13 DEF Input, PublishInput
  <2>. QED  BY <2>1, <2>2, EveryStream
<1>14. ASSUME NEW s \in Session, FireExpiryTimer(s)
       PROVE  StreamsOK'
  BY <1>1, <1>2, <1>14 DEF FireExpiryTimer
<1>15. ASSUME \/ \E ip \in Ip : RequestLimited(ip) \/ JoinRefused(ip)
              \/ \E s \in Session, role \in Role :
                   \/ IceConfig(s, role) \/ TokenLimited(s, role)
                   \/ SignalLimited(s, role) \/ ChatLimited(s, role)
              \/ \E s \in Session : InputDropped(s) \/ FirePurgeTimer(s)
              \/ EventsRefused
              \/ Tick
              \/ UNCHANGED vars
       PROVE  streams' = streams
  BY <1>15 DEF RequestLimited, JoinRefused, IceConfig, TokenLimited,
       SignalLimited, ChatLimited, InputDropped, FirePurgeTimer, EventsRefused,
       Tick, vars
<1>. QED
  BY <1>1, <1>3, <1>4, <1>5, <1>6, <1>7, <1>8, <1>9, <1>10, <1>11, <1>12,
     <1>13, <1>14, <1>15 DEF Next

-----------------------------------------------------------------------------
(* The windows stay windows.  Each kind of window is typed on its own.     *)

RateWindowsOK ==
  rateWindows \in [Ip -> Window(2 * Length["request"] + 1, Limit["request"])]

RoleWindowsOK ==
  /\ roleWindows \in [Session -> [Role -> [RoleKind -> [age : Nat, count : Nat]]]]
  /\ \A s \in Session, r \in Role, k \in RoleKind :
       roleWindows[s][r][k] \in Window(2 * Length[k] + 1, Limit[k])

InputWindowsOK ==
  inputWindows \in [Session -> Window(Length["input"], Limit["input"])]

LEMMA NoWindowIsWindow ==
  ASSUME NEW maxAge \in Nat, NEW limit \in Nat
  PROVE  /\ NoWindow \in Window(maxAge, limit)
         /\ NoWindow \in [age : Nat, count : Nat]
         /\ Window(maxAge, limit) \subseteq [age : Nat, count : Nat]
BY DEF NoWindow, Window

LEMMA EveryRoleWindow ==
  ASSUME NEW f, DOMAIN f = Session,
         \A s \in Session : /\ f[s] = [r \in Role |-> f[s][r]]
                            /\ \A r \in Role : f[s][r] = [k \in RoleKind |-> f[s][r][k]],
         \A s \in Session, r \in Role, k \in RoleKind :
           f[s][r][k] \in Window(2 * Length[k] + 1, Limit[k]),
         roleWindows' = [s \in Session |-> f[s]]
  PROVE  RoleWindowsOK'
<1>1. ASSUME NEW s \in Session, NEW r \in Role, NEW k \in RoleKind
      PROVE  f[s][r][k] \in [age : Nat, count : Nat]
  <2>1. 2 * Length[k] + 1 \in Nat /\ Limit[k] \in Nat
    BY Constants
  <2>. QED  BY <2>1, NoWindowIsWindow
<1>2. ASSUME NEW s \in Session
      PROVE  f[s] \in [Role -> [RoleKind -> [age : Nat, count : Nat]]]
  BY <1>1
<1>. QED  BY <1>2 DEF RoleWindowsOK

LEMMA CountRoleKeepsWindows ==
  ASSUME RoleWindowsOK, NEW s \in Session, NEW role \in Role,
         NEW kind \in RoleKind, CountRole(s, role, kind)
  PROVE  RoleWindowsOK'
<1>. DEFINE p == PrunedRoleWindows
            new == Counted(p[s][role][kind],
                           p[s][role][kind].age >= Length[kind], Limit[kind])
            f == [p EXCEPT ![s][role][kind] = new]
<1>1. \A x \in Session, r \in Role, k \in RoleKind :
        p[x][r][k] \in Window(2 * Length[k] + 1, Limit[k])
  <2>. SUFFICES ASSUME NEW x \in Session, NEW r \in Role, NEW k \in RoleKind
                PROVE  p[x][r][k] \in Window(2 * Length[k] + 1, Limit[k])
    OBVIOUS
  <2>1. /\ 2 * Length[k] + 1 \in Nat /\ 2 * Length[k] \in Nat
        /\ Limit[k] \in Nat \ {0}
    BY Constants
  <2>2. Pruned(roleWindows[x][r][k], 2 * Length[k])
          \in Window(2 * Length[k] + 1, Limit[k])
    BY <2>1, PrunedIsWindow DEF RoleWindowsOK
  <2>. QED  BY <2>2 DEF PrunedRoleWindows
<1>2. new \in Window(2 * Length[kind] + 1, Limit[kind])
  <2>1. 2 * Length[kind] + 1 \in Nat /\ Limit[kind] \in Nat \ {0}
    BY Constants
  <2>2. p[s][role][kind] \in Window(2 * Length[kind] + 1, Limit[kind])
    BY <1>1
  <2>. HIDE DEF p
  <2>. QED  BY <2>1, <2>2, CountedIsWindow
<1>3. /\ DOMAIN p = Session
      /\ \A x \in Session : /\ p[x] = [r \in Role |-> p[x][r]]
                            /\ \A r \in Role : p[x][r] = [k \in RoleKind |-> p[x][r][k]]
  BY DEF PrunedRoleWindows
<1>4. roleWindows' = f
  BY DEF CountRole
<1>. HIDE DEF p, new
<1>5. /\ DOMAIN f = Session
      /\ \A x \in Session : /\ f[x] = [r \in Role |-> f[x][r]]
                            /\ \A r \in Role : f[x][r] = [k \in RoleKind |-> f[x][r][k]]
  BY <1>3
<1>6. \A x \in Session, r \in Role, k \in RoleKind :
        f[x][r][k] = IF x = s /\ r = role /\ k = kind THEN new ELSE p[x][r][k]
  BY <1>3
<1>7. \A x \in Session, r \in Role, k \in RoleKind :
        f[x][r][k] \in Window(2 * Length[k] + 1, Limit[k])
  BY <1>1, <1>2, <1>6
<1>8. roleWindows' = [x \in Session |-> f[x]]
  BY <1>4, <1>5
<1>. HIDE DEF f
<1>. QED  BY <1>5, <1>7, <1>8, EveryRoleWindow

LEMMA InvalidationKeepsWindows ==
  ASSUME RoleWindowsOK, NEW S, InvalidateEventTokens(S)
  PROVE  RoleWindowsOK'
<1>. DEFINE f == [s \in Session |-> IF s \in S THEN NoRoleWindows
                                   ELSE roleWindows[s]]
<1>1. ASSUME NEW s \in Session, NEW r \in Role, NEW k \in RoleKind
      PROVE  f[s][r][k] \in Window(2 * Length[k] + 1, Limit[k])
  <2>1. 2 * Length[k] + 1 \in Nat /\ Limit[k] \in Nat
    BY Constants
  <2>2. NoRoleWindows[r][k] = NoWindow
    BY DEF NoRoleWindows
  <2>. QED  BY <2>1, <2>2, NoWindowIsWindow DEF RoleWindowsOK
<1>2. /\ DOMAIN f = Session
      /\ \A s \in Session : /\ f[s] = [r \in Role |-> f[s][r]]
                            /\ \A r \in Role : f[s][r] = [k \in RoleKind |-> f[s][r][k]]
  BY DEF RoleWindowsOK, NoRoleWindows
<1>3. roleWindows' = [s \in Session |-> f[s]]
  BY DEF InvalidateEventTokens
<1>. HIDE DEF f
<1>. QED  BY <1>1, <1>2, <1>3, EveryRoleWindow

LEMMA CountRequestKeepsWindows ==
  ASSUME RateWindowsOK, NEW ip \in Ip, CountRequest(ip)
  PROVE  RateWindowsOK'
<1>. DEFINE maxAge == 2 * Length["request"] + 1
            pruned == [i \in Ip |-> Pruned(rateWindows[i], 2 * Length["request"])]
            new == Counted(pruned[ip], pruned[ip].age > Length["request"],
                           Limit["request"])
<1>1. /\ maxAge \in Nat /\ 2 * Length["request"] \in Nat
      /\ Limit["request"] \in Nat \ {0}
  BY Constants
<1>2. pruned \in [Ip -> Window(maxAge, Limit["request"])]
  BY <1>1, PrunedIsWindow DEF RateWindowsOK
<1>3. rateWindows' = [pruned EXCEPT ![ip] = new]
  BY DEF CountRequest
<1>. HIDE DEF pruned, maxAge
<1>4. new \in Window(maxAge, Limit["request"])
  BY <1>1, <1>2, CountedIsWindow
<1>. HIDE DEF new
<1>. QED  BY <1>2, <1>3, <1>4 DEF RateWindowsOK, maxAge

LEMMA CountInputKeepsWindows ==
  ASSUME InputWindowsOK, NEW s \in Session, CountInput(s)
  PROVE  InputWindowsOK'
<1>. DEFINE new == Counted(inputWindows[s],
                           inputWindows[s].age >= Length["input"], Limit["input"])
<1>1. Length["input"] \in Nat /\ Limit["input"] \in Nat \ {0}
  BY Constants
<1>2. new \in Window(Length["input"], Limit["input"])
  BY <1>1, CountedIsWindow DEF InputWindowsOK
<1>3. inputWindows' = [inputWindows EXCEPT ![s] = new]
  BY DEF CountInput
<1>. HIDE DEF new
<1>. QED  BY <1>2, <1>3 DEF InputWindowsOK

LEMMA ReleaseKeepsWindows ==
  ASSUME RoleWindowsOK, InputWindowsOK, NEW S, Release(S)
  PROVE  RoleWindowsOK' /\ InputWindowsOK'
<1>1. RoleWindowsOK'
  BY InvalidationKeepsWindows DEF Release
<1>2. Length["input"] \in Nat /\ Limit["input"] \in Nat
  BY Constants
<1>3. InputWindowsOK'
  BY <1>2, NoWindowIsWindow DEF Release, InputWindowsOK
<1>. QED  BY <1>1, <1>3

LEMMA TickKeepsWindows ==
  ASSUME RateWindowsOK, RoleWindowsOK, InputWindowsOK, Tick
  PROVE  RateWindowsOK' /\ RoleWindowsOK' /\ InputWindowsOK'
<1>1. \A k \in Kind : /\ 2 * Length[k] + 1 \in Nat /\ Length[k] \in Nat
                      /\ Limit[k] \in Nat \ {0}
  BY Constants
<1>2. RateWindowsOK'
  BY <1>1, OlderIsWindow, Constants DEF Tick, RateWindowsOK
<1>3. InputWindowsOK'
  BY <1>1, OlderIsWindow, Constants DEF Tick, InputWindowsOK
<1>4. RoleWindowsOK'
  <2>. DEFINE f == [s \in Session |-> [r \in Role |-> [k \in RoleKind |->
                      Older(roleWindows[s][r][k], 2 * Length[k] + 1)]]]
  <2>1. \A s \in Session, r \in Role, k \in RoleKind :
          f[s][r][k] \in Window(2 * Length[k] + 1, Limit[k])
    BY <1>1, OlderIsWindow, Constants DEF RoleWindowsOK
  <2>2. /\ DOMAIN f = Session
        /\ \A s \in Session : /\ f[s] = [r \in Role |-> f[s][r]]
                              /\ \A r \in Role : f[s][r] = [k \in RoleKind |-> f[s][r][k]]
    OBVIOUS
  <2>3. roleWindows' = [s \in Session |-> f[s]]
    BY DEF Tick
  <2>. HIDE DEF f
  <2>. QED  BY <2>1, <2>2, <2>3, EveryRoleWindow
<1>. QED  BY <1>2, <1>3, <1>4

LEMMA WindowsStep ==
  ASSUME WindowsOK, [Next]_vars
  PROVE  WindowsOK'
<1>. USE DEF Release
<1>1. WindowsOK <=> RateWindowsOK /\ RoleWindowsOK /\ InputWindowsOK
  BY DEF WindowsOK, RateWindowsOK, RoleWindowsOK, InputWindowsOK
<1>2. WindowsOK' <=> RateWindowsOK' /\ RoleWindowsOK' /\ InputWindowsOK'
  BY DEF WindowsOK, RateWindowsOK, RoleWindowsOK, InputWindowsOK
<1>3. /\ rateWindows' = rateWindows => RateWindowsOK'
      /\ roleWindows' = roleWindows => RoleWindowsOK'
      /\ inputWindows' = inputWindows => InputWindowsOK'
  BY <1>1 DEF RateWindowsOK, RoleWindowsOK, InputWindowsOK
<1>4. ASSUME NEW S, Expire(S)
      PROVE  RoleWindowsOK' /\ InputWindowsOK'
  BY <1>1, <1>4, ReleaseKeepsWindows DEF Expire
<1>5. ASSUME NEW ip \in Ip,
             \/ RequestLimited(ip) \/ JoinRefused(ip) \/ CreateRefused(ip)
             \/ \E s \in Session : \/ Join(ip, s) \/ JoinLapsed(ip, s)
                                  \/ \E code \in Code : CreateSession(ip, s, code)
      PROVE  WindowsOK'
  <2>1. RateWindowsOK'
    BY <1>1, <1>5, CountRequestKeepsWindows DEF RequestLimited, JoinRefused,
         CreateRefused, Join, JoinLapsed, CreateSession
  <2>2. CASE RequestLimited(ip) \/ JoinRefused(ip) \/ \E s \in Session : Join(ip, s)
    BY <1>2, <1>3, <2>1, <2>2 DEF RequestLimited, JoinRefused, Join
  <2>3. CASE CreateRefused(ip) \/ \E s \in Session : JoinLapsed(ip, s)
    BY <1>2, <1>4, <2>1, <2>3 DEF CreateRefused, JoinLapsed
  <2>4. CASE \E s \in Session, code \in Code : CreateSession(ip, s, code)
    <3>1. Release(LapsedSessions)
      BY <2>4 DEF CreateSession
    <3>. QED  BY <1>1, <1>2, <2>1, <3>1, ReleaseKeepsWindows
  <2>. QED  BY <1>5, <2>2, <2>3, <2>4
<1>6. ASSUME NEW s \in Session, NEW role \in Role,
             \/ End(s, role) \/ ReportAbuse(s, role)
      PROVE  WindowsOK'
  <2>1. Release({s}) /\ rateWindows' = rateWindows
    BY <1>6 DEF End, ReportAbuse
  <2>. QED  BY <1>1, <1>2, <1>3, <2>1, ReleaseKeepsWindows
<1>7. ASSUME NEW s \in Session, NEW role \in Role,
             \/ TokenLimited(s, role) \/ SignalLimited(s, role)
             \/ ChatLimited(s, role) \/ Signal(s, role)
             \/ \E t \in Token : IssueEventToken(s, role, t)
             \/ \E text \in Text : Chat(s, role, text)
      PROVE  WindowsOK'
  <2>1. \E kind \in RoleKind : CountRole(s, role, kind)
    BY <1>7 DEF TokenLimited, SignalLimited, ChatLimited, Signal,
         IssueEventToken, Chat, RoleKind
  <2>2. RoleWindowsOK'
    BY <1>1, <2>1, CountRoleKeepsWindows
  <2>3. rateWindows' = rateWindows /\ inputWindows' = inputWindows
    BY <1>7 DEF TokenLimited, SignalLimited, ChatLimited, Signal,
         IssueEventToken, Chat
  <2>. QED  BY <1>2, <1>3, <2>2, <2>3
<1>8. ASSUME NEW s \in Session,
             \/ InputDropped(s)
             \/ \E sequence \in InputSequence : Input(s, sequence)
      PROVE  WindowsOK'
  BY <1>1, <1>2, <1>3, <1>8, CountInputKeepsWindows DEF InputDropped, Input
<1>9. ASSUME NEW s \in Session, ExpireOnAccess(s)
      PROVE  WindowsOK'
  BY <1>2, <1>3, <1>4, <1>9 DEF ExpireOnAccess
<1>10. ASSUME NEW s \in Session, FireExpiryTimer(s)
       PROVE  WindowsOK'
  BY <1>2, <1>3, <1>4, <1>10 DEF FireExpiryTimer
<1>11. ASSUME NEW s \in Session, FirePurgeTimer(s)
       PROVE  WindowsOK'
  <2>1. RoleWindowsOK'
    BY <1>1, <1>11, InvalidationKeepsWindows DEF FirePurgeTimer
  <2>2. Length["input"] \in Nat /\ Limit["input"] \in Nat
    BY Constants
  <2>3. InputWindowsOK'
    BY <1>1, <1>11, <2>2, NoWindowIsWindow DEF FirePurgeTimer, InputWindowsOK
  <2>. QED  BY <1>2, <1>3, <1>11, <2>1, <2>3 DEF FirePurgeTimer
<1>12. CASE Tick
  BY <1>1, <1>2, <1>12, TickKeepsWindows
<1>13. ASSUME \/ \E s \in Session, role \in Role :
                   \/ IceConfig(s, role)
                   \/ \E move \in OperatorRequests \cup HostActions :
                        Act(s, role, move)
              \/ EventsRefused
              \/ \E t \in Token : OpenEvents(t) \/ CloseEvents(t)
              \/ UNCHANGED vars
       PROVE  WindowsOK'
  BY <1>2, <1>3, <1>13 DEF IceConfig, Act, Step, EventsRefused, OpenEvents,
       CloseEvents, vars, windows
<1>. QED
  BY <1>5, <1>6, <1>7, <1>8, <1>9, <1>10, <1>11, <1>12, <1>13 DEF Next

-----------------------------------------------------------------------------
(* Type correctness.                                                       *)

LEMMA CountersStep ==
  ASSUME SessionsOK, [Next]_vars, turn \in [Session -> 0 .. TURN_TTL],
         abuseReports \in 0 .. MAX_REPORTS
  PROVE  /\ turn' \in [Session -> 0 .. TURN_TTL]
         /\ abuseReports' \in 0 .. MAX_REPORTS
<1>1. ASSUME NEW s \in Session, NEW role \in Role, ReportAbuse(s, role)
      PROVE  turn' = turn /\ abuseReports' \in 0 .. MAX_REPORTS
  BY <1>1, Constants DEF ReportAbuse, Lesser
<1>2. ASSUME NEW s \in Session, NEW role \in Role, IceConfig(s, role)
      PROVE  turn' \in [Session -> 0 .. TURN_TTL] /\ abuseReports' = abuseReports
  BY <1>2, TokenLifeIsTyped DEF IceConfig
<1>3. ASSUME Tick
      PROVE  turn' \in [Session -> 0 .. TURN_TTL] /\ abuseReports' = abuseReports
  <2>1. ASSUME NEW s \in Session
        PROVE  Less(turn[s]) \in 0 .. TURN_TTL
    <3>1. turn[s] \in 0 .. TURN_TTL
      OBVIOUS
    <3>. QED  BY <3>1, Constants DEF Less
  <2>. QED  BY <1>3, <2>1 DEF Tick
<1>4. ASSUME \/ \E ip \in Ip :
                   \/ RequestLimited(ip) \/ JoinRefused(ip) \/ CreateRefused(ip)
                   \/ \E s \in Session : \/ Join(ip, s) \/ JoinLapsed(ip, s)
                                        \/ \E code \in Code :
                                             CreateSession(ip, s, code)
      PROVE  turn' = turn /\ abuseReports' = abuseReports
  BY <1>4 DEF RequestLimited, JoinRefused, CreateRefused, Join, JoinLapsed,
       CreateSession, Expire, external
<1>5. ASSUME NEW s \in Session, NEW role \in Role,
             \/ End(s, role) \/ TokenLimited(s, role)
             \/ SignalLimited(s, role) \/ ChatLimited(s, role)
             \/ Signal(s, role)
             \/ \E t \in Token : IssueEventToken(s, role, t)
             \/ \E text \in Text : Chat(s, role, text)
             \/ \E move \in OperatorRequests \cup HostActions : Act(s, role, move)
      PROVE  turn' = turn /\ abuseReports' = abuseReports
  BY <1>5 DEF End, TokenLimited, SignalLimited, ChatLimited, Signal,
       IssueEventToken, Chat, Act, Step, external
<1>6. ASSUME \/ \E s \in Session :
                   \/ InputDropped(s) \/ ExpireOnAccess(s)
                   \/ FireExpiryTimer(s) \/ FirePurgeTimer(s)
                   \/ \E sequence \in InputSequence : Input(s, sequence)
             \/ EventsRefused
             \/ \E t \in Token : OpenEvents(t) \/ CloseEvents(t)
             \/ UNCHANGED vars
      PROVE  turn' = turn /\ abuseReports' = abuseReports
  BY <1>6 DEF InputDropped, ExpireOnAccess, FireExpiryTimer, FirePurgeTimer,
       Input, EventsRefused, OpenEvents, CloseEvents, Expire, vars, external
<1>. QED  BY <1>1, <1>2, <1>3, <1>4, <1>5, <1>6 DEF Next

(* Every variable keeps its type, and the audit trail, the transcript, the *)
(* counters and the windows keep within their bounds, whatever the limits. *)
THEOREM TypeCorrect == Spec => []TypeOK
<1>1. Init => TypeOK
  <2>. SUFFICES ASSUME Init
                PROVE  TypeOK
    OBVIOUS
  <2>. USE DEF Init
  <2>1. SessionsOK
    BY AbsentIsRecord DEF SessionsOK, RecordOK
  <2>2. TokensOK
    BY DEF TokensOK
  <2>3. StreamsOK
    BY NoStreamIsStream DEF StreamsOK, StreamOK
  <2>4. \A k \in Kind : /\ 2 * Length[k] + 1 \in Nat /\ Length[k] \in Nat
                        /\ Limit[k] \in Nat
    BY Constants
  <2>5. WindowsOK
    BY <2>4, NoWindowIsWindow, Constants DEF WindowsOK, NoRoleWindows
  <2>6. turn \in [Session -> 0 .. TURN_TTL] /\ abuseReports \in 0 .. MAX_REPORTS
    BY Constants
  <2>. QED  BY <2>1, <2>2, <2>3, <2>5, <2>6 DEF TypeOK
<1>2. TypeOK /\ [Next]_vars => TypeOK'
  BY SessionsStep, TokensStep, StreamsStep, WindowsStep, CountersStep DEF TypeOK
<1>. QED  BY <1>1, <1>2, PTL DEF Spec

-----------------------------------------------------------------------------
(* What a session holds does not outlive it.  The two invariants are       *)
(* inductive together: the credential that opens a stream is of a live     *)
(* session by the first, of one that has not lapsed by the second.         *)

Held == NothingOutlivesItsSession /\ GrantsEndWithSession

(* Nothing refers to the session.                                          *)
Bare(s) ==
  /\ \A t \in Token : eventTokens[t].session # s /\ ~Subscribed(t, s)
  /\ roleWindows[s] = NoRoleWindows
  /\ inputWindows[s] = NoWindow

LEMMA HeldBare ==
  ASSUME Held, NEW s \in Session, ~Live(s)
  PROVE  Bare(s) /\ ~sessions[s].expiryTimer
BY DEF Held, NothingOutlivesItsSession, Bare

LEMMA ReleaseBares ==
  ASSUME TokensOK, NEW S \in SUBSET Session, Release(S)
  PROVE  /\ \A s \in S : Bare(s)'
         /\ \A s \in Session : Bare(s) => Bare(s)'
         /\ \A t \in Token : \/ eventTokens'[t] = NoGrant
                             \/ /\ eventTokens'[t] = eventTokens[t]
                                /\ eventTokens[t].session \notin S
<1>1. \A t \in Token : \/ eventTokens'[t] = NoGrant
                       \/ /\ eventTokens'[t] = eventTokens[t]
                          /\ eventTokens[t].session \notin S
  BY DEF Release, InvalidateEventTokens, TokensOK
<1>2. NoGrant.session \notin Session
  BY NoneAssumption DEF NoGrant
<1>3. ASSUME NEW t \in Token, NEW s \in Session, Subscribed(t, s)'
      PROVE  Subscribed(t, s) /\ s \notin S
  BY <1>3 DEF Release, CloseSubscribers, Subscribed, Hangup, NoStream
<1>4. \A s \in Session : /\ roleWindows'[s] = IF s \in S THEN NoRoleWindows
                                              ELSE roleWindows[s]
                         /\ inputWindows'[s] = IF s \in S THEN NoWindow
                                               ELSE inputWindows[s]
  BY DEF Release, InvalidateEventTokens
<1>5. ASSUME NEW s \in S
      PROVE  Bare(s)'
  BY <1>1, <1>2, <1>3, <1>4 DEF Bare
<1>6. ASSUME NEW s \in Session, Bare(s)
      PROVE  Bare(s)'
  BY <1>1, <1>2, <1>3, <1>4, <1>6 DEF Bare
<1>. QED  BY <1>1, <1>5, <1>6

(* Handlers that end the sessions S and leave the others as they are, but  *)
(* for one that is created.                                                *)
LEMMA EndingHolds ==
  ASSUME TokensOK, Held, NEW S \in SUBSET Session, Release(S),
         \A s \in S : Terminal(s)' /\ ~sessions'[s].expiryTimer,
         \A s \in Session \ S : \/ sessions'[s] = sessions[s]
                               \/ (~Live(s) /\ Live(s)')
  PROVE  Held'
<1>1. ASSUME NEW s \in Session, ~Live(s)'
      PROVE  Bare(s)' /\ ~sessions'[s].expiryTimer
  <2>1. CASE s \in S
    BY <2>1, ReleaseBares
  <2>2. CASE s \notin S
    <3>1. sessions'[s] = sessions[s]
      BY <1>1, <2>2
    <3>2. ~Live(s)
      BY <1>1, <3>1 DEF Live
    <3>. QED  BY <3>1, <3>2, HeldBare, ReleaseBares
  <2>. QED  BY <2>1, <2>2
<1>2. ASSUME NEW t \in Token, eventTokens'[t] # NoGrant
      PROVE  eventTokens'[t].left <= sessions'[eventTokens'[t].session].expiresIn
  <2>. DEFINE s == eventTokens[t].session
  <2>1. eventTokens'[t] = eventTokens[t] /\ s \notin S
    BY <1>2, ReleaseBares
  <2>2. s \in Session
    BY <1>2, <2>1 DEF TokensOK, Grant
  <2>3. Live(s)
    BY <2>2, HeldBare DEF Bare
  <2>4. sessions'[s] = sessions[s]
    BY <2>1, <2>2, <2>3
  <2>. QED  BY <1>2, <2>1, <2>4 DEF Held, GrantsEndWithSession
<1>. QED  BY <1>1, <1>2 DEF Held, NothingOutlivesItsSession,
            GrantsEndWithSession, Bare

LEMMA ExpiringHolds ==
  ASSUME SessionsOK, TokensOK, Held, NEW S \in SUBSET Session, Expire(S)
  PROVE  Held'
<1>1. /\ \A s \in S : Terminal(s)' /\ ~sessions'[s].expiryTimer
      /\ \A s \in Session \ S : sessions'[s] = sessions[s]
      /\ Release(S)
  BY ExpiredAreTerminal, ExpiredAreRecords DEF Expire
<1>2. \A s \in Session \ S : \/ sessions'[s] = sessions[s]
                            \/ (~Live(s) /\ Live(s)')
  BY <1>1
<1>. QED  BY <1>1, <1>2, EndingHolds

(* Steps that end no session: what they add is of live sessions.           *)
LEMMA LivingHolds ==
  ASSUME Held,
         \A s \in Session :
           /\ Live(s)' <=> Live(s)
           /\ sessions'[s].expiresIn = sessions[s].expiresIn
           /\ sessions'[s].expiryTimer => sessions[s].expiryTimer,
         \A t \in Token, s \in Session :
           Subscribed(t, s)' => Subscribed(t, s) \/ Live(s),
         \A t \in Token :
           \/ eventTokens'[t] = NoGrant
           \/ eventTokens'[t] = eventTokens[t]
           \/ /\ eventTokens'[t].session \in Session
              /\ Live(eventTokens'[t].session)
              /\ eventTokens'[t].left
                   <= sessions[eventTokens'[t].session].expiresIn,
         TokensOK,
         \A s \in Session : ~Live(s) =>
           /\ roleWindows'[s] = NoRoleWindows
           /\ inputWindows'[s] = NoWindow
  PROVE  Held'
<1>1. NoGrant.session \notin Session
  BY NoneAssumption DEF NoGrant
<1>2. ASSUME NEW s \in Session, ~Live(s)'
      PROVE  Bare(s)' /\ ~sessions'[s].expiryTimer
  <2>1. ~Live(s)
    BY <1>2
  <2>2. Bare(s) /\ ~sessions[s].expiryTimer
    BY <2>1, HeldBare
  <2>3. ASSUME NEW t \in Token
        PROVE  eventTokens'[t].session # s /\ ~Subscribed(t, s)'
    BY <1>1, <2>1, <2>2 DEF Bare
  <2>. QED  BY <2>1, <2>2, <2>3 DEF Bare
<1>3. ASSUME NEW t \in Token, eventTokens'[t] # NoGrant
      PROVE  eventTokens'[t].left <= sessions'[eventTokens'[t].session].expiresIn
  <2>1. eventTokens'[t].session \in Session
    BY <1>3 DEF TokensOK, Grant
  <2>. QED  BY <1>3, <2>1 DEF Held, GrantsEndWithSession
<1>. QED  BY <1>2, <1>3 DEF Held, NothingOutlivesItsSession,
            GrantsEndWithSession, Bare

LEMMA PruningKeepsBare ==
  ASSUME Held, NEW s \in Session, NEW role \in Role, NEW kind \in RoleKind,
         Live(s), CountRole(s, role, kind), NEW x \in Session, ~Live(x)
  PROVE  roleWindows'[x] = NoRoleWindows
<1>1. roleWindows[x] = NoRoleWindows /\ x # s
  BY HeldBare DEF Bare
<1>2. PrunedRoleWindows[x] = NoRoleWindows
  <2>1. \A k \in RoleKind : Pruned(NoWindow, 2 * Length[k]) = NoWindow
    BY Constants DEF Pruned, NoWindow
  <2>2. \A r \in Role, k \in RoleKind : roleWindows[x][r][k] = NoWindow
    BY <1>1 DEF NoRoleWindows
  <2>. QED  BY <2>1, <2>2 DEF PrunedRoleWindows, NoRoleWindows
<1>3. roleWindows'[x] = PrunedRoleWindows[x]
  <2>. DEFINE new == Counted(PrunedRoleWindows[s][role][kind],
                PrunedRoleWindows[s][role][kind].age >= Length[kind], Limit[kind])
  <2>1. roleWindows' = [PrunedRoleWindows EXCEPT ![s][role][kind] = new]
    BY DEF CountRole
  <2>. HIDE DEF new
  <2>. QED  BY <1>1, <2>1 DEF PrunedRoleWindows
<1>. QED  BY <1>2, <1>3

LEMMA AuthorizedIsLive ==
  ASSUME NEW s \in Session, NEW role \in Role, Authorized(s, role)
  PROVE  Live(s)
BY DEF Authorized

LEMMA PublishKeepsSubscribers ==
  ASSUME StreamsOK, NEW s \in Session, Publish(s), NEW t \in Token
  PROVE  /\ streams'[t].phase = streams[t].phase
         /\ streams'[t].session = streams[t].session
         /\ streams'[t].role = streams[t].role
         /\ \A x \in Session : Subscribed(t, x)' <=> Subscribed(t, x)
<1>1. streams[t] \in Stream
  BY DEF StreamsOK
<1>2. streams'[t] \in {streams[t], Snapshot(streams[t], sessions'[s])}
  BY DEF Publish
<1>. QED  BY <1>1, <1>2 DEF Snapshot, Stream, Subscribed

(* A record written over that of a live session which stays live.          *)
LEMMA OneLivingRecord ==
  ASSUME SessionsOK, NEW s \in Session, Live(s), NEW record,
         sessions' = [sessions EXCEPT ![s] = record],
         record.state \in LiveStates,
         record.expiresIn = sessions[s].expiresIn
  PROVE  \A x \in Session : /\ Live(x)' <=> Live(x)
                            /\ sessions'[x].expiresIn = sessions[x].expiresIn
BY DEF SessionsOK, Live

LEMMA HeldStep ==
  ASSUME TypeOK, Held, [Next]_vars
  PROVE  Held'
<1>. USE DEF TypeOK
<1>1. \A s \in Session : ~Live(s) =>
        /\ roleWindows[s] = NoRoleWindows
        /\ inputWindows[s] = NoWindow
  BY HeldBare DEF Bare
<1>2. ASSUME NEW ip \in Ip, NEW s \in Session, NEW code \in Code,
             CreateSession(ip, s, code)
      PROVE  Held'
  <2>1. ~Live(s) /\ Live(s)'
    BY <1>2, CreationExpires, NewSessionIsRecord
       DEF CreateSession, Unnamed, Present, Live, LiveStates
  <2>2. \A x \in Session \ LapsedSessions :
          \/ sessions'[x] = sessions[x]
          \/ (~Live(x) /\ Live(x)')
    BY <1>2, <2>1, CreationExpires
  <2>. QED  BY <1>2, <2>2, CreationExpires, EndingHolds
<1>3. ASSUME \/ \E ip \in Ip : CreateRefused(ip)
             \/ \E ip \in Ip, s \in Session : JoinLapsed(ip, s)
             \/ \E s \in Session : ExpireOnAccess(s)
      PROVE  Held'
  BY <1>3, ExpiringHolds DEF CreateRefused, JoinLapsed, ExpireOnAccess,
       LapsedSessions
<1>4. ASSUME NEW s \in Session, NEW role \in Role,
             End(s, role) \/ ReportAbuse(s, role)
      PROVE  Held'
  <2>1. \A x \in Session \ {s} : \/ sessions'[x] = sessions[x]
                                 \/ (~Live(x) /\ Live(x)')
    BY <1>4, EndingTerminates
  <2>. QED  BY <1>4, <2>1, EndingTerminates, EndingHolds
<1>5. ASSUME NEW ip \in Ip, NEW s \in Session, Join(ip, s)
      PROVE  Held'
  <2>. DEFINE record == Joined(sessions[s])
  <2>1. Live(s)
    BY <1>5 DEF Join, Joinable, Live, LiveStates
  <2>2. /\ record.state \in LiveStates
        /\ record.expiresIn = sessions[s].expiresIn
    BY SessionsAreRecords, JoinedKeepsRecord DEF LiveStates
  <2>3. record.expiryTimer = sessions[s].expiryTimer
    <3>. DEFINE moved == Moved(sessions[s], "HOST_JOINED", "HOST_JOINED")
    <3>1. RecordOK(moved) /\ moved.expiryTimer = sessions[s].expiryTimer
      <4>1. RecordOK(sessions[s])
        BY SessionsAreRecords
      <4>2. "HOST_JOINED" \in LiveStates /\ "HOST_JOINED" \in Event
        BY DEF LiveStates, Event, Leads
      <4>. QED  BY <4>1, <4>2, MovedKeepsRecord
    <3>2. record = [moved EXCEPT !.hostToken = TRUE]
      BY DEF Joined
    <3>. HIDE DEF moved, record
    <3>. QED  BY <3>1, <3>2 DEF RecordOK, SessionRecord
  <2>4. sessions' = [sessions EXCEPT ![s] = record]
    BY <1>5 DEF Join
  <2>. HIDE DEF record
  <2>5. \A x \in Session : /\ Live(x)' <=> Live(x)
                           /\ sessions'[x].expiresIn = sessions[x].expiresIn
    BY <2>1, <2>2, <2>4, OneLivingRecord
  <2>6. \A x \in Session : sessions'[x].expiryTimer => sessions[x].expiryTimer
    BY <2>3, <2>4 DEF SessionsOK
  <2>7. \A t \in Token, x \in Session : Subscribed(t, x)' => Subscribed(t, x)
    BY <1>5, PublishKeepsSubscribers DEF Join
  <2>8. UNCHANGED <<eventTokens, roleWindows, inputWindows>>
    BY <1>5 DEF Join
  <2>. QED  BY <1>1, <2>5, <2>6, <2>7, <2>8, LivingHolds
<1>6. ASSUME NEW s \in Session, NEW role \in Role,
             NEW move \in OperatorRequests \cup HostActions, Act(s, role, move)
      PROVE  Held'
  <2>. DEFINE record == Moved(sessions[s], move.to, move.event)
  <2>1. move.to \in LiveStates /\ move.event \in Event
    BY MovesAreLive
  <2>2. /\ record.state = move.to
        /\ record.expiresIn = sessions[s].expiresIn
        /\ record.expiryTimer = sessions[s].expiryTimer
    BY <2>1, SessionsAreRecords, MovedKeepsRecord
  <2>3. sessions' = [sessions EXCEPT ![s] = record]
    BY <1>6 DEF Act, Step
  <2>4. Live(s)
    BY <1>6, AuthorizedIsLive DEF Act
  <2>. HIDE DEF record
  <2>5. \A x \in Session : /\ Live(x)' <=> Live(x)
                           /\ sessions'[x].expiresIn = sessions[x].expiresIn
    BY <2>1, <2>2, <2>3, <2>4, OneLivingRecord
  <2>6. \A x \in Session : sessions'[x].expiryTimer => sessions[x].expiryTimer
    BY <2>2, <2>3 DEF SessionsOK
  <2>7. \A t \in Token, x \in Session : Subscribed(t, x)' => Subscribed(t, x)
    BY <1>6, PublishKeepsSubscribers DEF Act, Step
  <2>8. UNCHANGED <<eventTokens, roleWindows, inputWindows>>
    BY <1>6 DEF Act, Step
  <2>. QED  BY <1>1, <2>5, <2>6, <2>7, <2>8, LivingHolds
<1>7. ASSUME NEW s \in Session, NEW role \in Role, IceConfig(s, role)
      PROVE  Held'
  <2>. DEFINE record == AddAudit(sessions[s], "TURN_CREDENTIAL_ISSUED")
  <2>1. /\ record.state = sessions[s].state
        /\ record.expiresIn = sessions[s].expiresIn
        /\ record.expiryTimer = sessions[s].expiryTimer
    BY SessionsAreRecords DEF AddAudit, RecordOK, SessionRecord
  <2>2. sessions' = [sessions EXCEPT ![s] = record]
    BY <1>7 DEF IceConfig
  <2>. HIDE DEF record
  <2>3. \A x \in Session :
          /\ Live(x)' <=> Live(x)
          /\ sessions'[x].expiresIn = sessions[x].expiresIn
          /\ sessions'[x].expiryTimer => sessions[x].expiryTimer
    BY <2>1, <2>2 DEF SessionsOK, Live
  <2>4. UNCHANGED <<eventTokens, streams, roleWindows, inputWindows>>
    BY <1>7 DEF IceConfig, windows
  <2>5. \A t \in Token, x \in Session : Subscribed(t, x)' => Subscribed(t, x)
    BY <2>4 DEF Subscribed
  <2>. QED  BY <1>1, <2>3, <2>4, <2>5, LivingHolds
<1>8. ASSUME NEW s \in Session, NEW role \in Role, NEW t \in Token,
             IssueEventToken(s, role, t)
      PROVE  Held'
  <2>1. Live(s)
    BY <1>8, AuthorizedIsLive DEF IssueEventToken
  <2>2. \A x \in Session : ~Live(x) => roleWindows'[x] = NoRoleWindows
    BY <1>8, <2>1, PruningKeepsBare DEF IssueEventToken, RoleKind
  <2>3. \A u \in Token : \/ eventTokens'[u] \in {NoGrant, eventTokens[u]}
                         \/ /\ eventTokens'[u].session = s
                            /\ eventTokens'[u].left <= sessions[s].expiresIn
    BY <1>8, CurrentAreTokens, TokenLifeIsTyped DEF IssueEventToken
  <2>4. \A u \in Token, x \in Session : Subscribed(u, x)' => Subscribed(u, x)
    BY <1>8, NoStreamIsStream DEF IssueEventToken, Subscribed, StreamsOK
  <2>5. sessions' = sessions /\ inputWindows' = inputWindows
    BY <1>8 DEF IssueEventToken
  <2>6. \A x \in Session : Live(x)' <=> Live(x)
    BY <2>5 DEF Live
  <2>. QED  BY <1>1, <2>1, <2>2, <2>3, <2>4, <2>5, <2>6, LivingHolds
<1>9. ASSUME NEW t \in Token, OpenEvents(t)
      PROVE  Held'
  <2>. DEFINE grant == CurrentTokens[t]
  <2>1. grant \in Grant /\ grant = eventTokens[t]
    BY <1>9, CurrentAreTokens DEF OpenEvents
  <2>2. grant.session \in Session /\ Live(grant.session)
    BY <2>1, HeldBare DEF Grant, Bare
  <2>3. /\ UNCHANGED <<sessions, roleWindows, inputWindows>>
        /\ \A u \in Token : eventTokens'[u] \in {NoGrant, eventTokens[u]}
    BY <1>9, CurrentAreTokens DEF OpenEvents, windows
  <2>4. \A u \in Token, x \in Session :
          Subscribed(u, x)' => Subscribed(u, x) \/ Live(x)
    <3>1. streams' = [streams EXCEPT ![t] = Opened(grant, sessions[grant.session])]
      BY <1>9 DEF OpenEvents
    <3>2. Opened(grant, sessions[grant.session]).session = grant.session
      BY <1>9, <2>1, <2>2, SessionsAreRecords, OpenedIsStream DEF OpenEvents, Present
    <3>. HIDE DEF grant
    <3>. QED  BY <2>2, <3>1, <3>2 DEF Subscribed, StreamsOK
  <2>5. \A x \in Session : Live(x)' <=> Live(x)
    BY <2>3 DEF Live
  <2>. QED  BY <1>1, <2>3, <2>4, <2>5, LivingHolds
<1>10. ASSUME NEW s \in Session, NEW role \in Role,
              \/ TokenLimited(s, role) \/ SignalLimited(s, role)
              \/ ChatLimited(s, role)
       PROVE  Held'
  <2>1. Live(s)
    BY <1>10, AuthorizedIsLive DEF TokenLimited, SignalLimited, ChatLimited,
         Signallable
  <2>2. \A x \in Session : ~Live(x) => roleWindows'[x] = NoRoleWindows
    BY <1>10, <2>1, PruningKeepsBare
       DEF TokenLimited, SignalLimited, ChatLimited, RoleKind
  <2>3. /\ UNCHANGED <<sessions, streams, inputWindows>>
        /\ \A u \in Token : eventTokens'[u] \in {NoGrant, eventTokens[u]}
    BY <1>10, CurrentAreTokens DEF TokenLimited, SignalLimited, ChatLimited
  <2>4. /\ \A x \in Session : Live(x)' <=> Live(x)
        /\ \A u \in Token, x \in Session : Subscribed(u, x)' => Subscribed(u, x)
    BY <2>3 DEF Live, Subscribed
  <2>. QED  BY <1>1, <2>2, <2>3, <2>4, LivingHolds
<1>11. ASSUME NEW s \in Session, NEW role \in Role,
              Signal(s, role) \/ \E text \in Text : Chat(s, role, text)
       PROVE  Held'
  <2>1. Live(s)
    BY <1>11, AuthorizedIsLive DEF Signal, Signallable, Chat
  <2>2. \A x \in Session : ~Live(x) => roleWindows'[x] = NoRoleWindows
    BY <1>11, <2>1, PruningKeepsBare DEF Signal, Chat, RoleKind
  <2>3. UNCHANGED <<eventTokens, inputWindows>>
    BY <1>11 DEF Signal, Chat
  <2>4. \A x \in Session :
          /\ Live(x)' <=> Live(x)
          /\ sessions'[x].expiresIn = sessions[x].expiresIn
          /\ sessions'[x].expiryTimer => sessions[x].expiryTimer
    <3>1. CASE Signal(s, role)
      BY <3>1 DEF Signal, SessionsOK, SessionRecord, Live
    <3>2. ASSUME NEW text \in Text, Chat(s, role, text)
          PROVE  \A x \in Session :
                   /\ Live(x)' <=> Live(x)
                   /\ sessions'[x].expiresIn = sessions[x].expiresIn
                   /\ sessions'[x].expiryTimer => sessions[x].expiryTimer
      <4>. DEFINE log == Push(sessions[s].chat, [from |-> role, text |-> text],
                              MAX_CHAT)
      <4>1. sessions' = [sessions EXCEPT ![s].chat = log]
        BY <3>2 DEF Chat
      <4>. HIDE DEF log
      <4>. QED  BY <4>1 DEF SessionsOK, SessionRecord, Live
    <3>. QED  BY <1>11, <3>1, <3>2
  <2>5. \A t \in Token, x \in Session : Subscribed(t, x)' => Subscribed(t, x)
    BY <1>11 DEF Signal, PublishSignal, Chat, PublishChat, StreamsOK, Stream,
         Subscribed
  <2>. QED  BY <1>1, <2>2, <2>3, <2>4, <2>5, LivingHolds
<1>12. ASSUME NEW s \in Session, NEW sequence \in InputSequence,
              Input(s, sequence)
       PROVE  Held'
  <2>1. Live(s)
    BY <1>12 DEF Input, Controllable, Authorized
  <2>2. \A x \in Session : ~Live(x) => inputWindows'[x] = NoWindow
    BY <1>1, <1>12, <2>1 DEF Input, CountInput, WindowsOK
  <2>3. UNCHANGED <<eventTokens, roleWindows>>
    BY <1>12 DEF Input
  <2>4. \A x \in Session :
          /\ Live(x)' <=> Live(x)
          /\ sessions'[x].expiresIn = sessions[x].expiresIn
          /\ sessions'[x].expiryTimer => sessions[x].expiryTimer
    BY <1>12 DEF Input, SessionsOK, SessionRecord, Live
  <2>5. \A t \in Token, x \in Session : Subscribed(t, x)' => Subscribed(t, x)
    BY <1>12 DEF Input, PublishInput, StreamsOK, Stream, Subscribed
  <2>. QED  BY <1>1, <2>2, <2>3, <2>4, <2>5, LivingHolds
<1>13. ASSUME NEW s \in Session, InputDropped(s)
       PROVE  Held'
  <2>1. Live(s)
    BY <1>13 DEF InputDropped, Controllable, Authorized
  <2>2. \A x \in Session : ~Live(x) => inputWindows'[x] = NoWindow
    BY <1>1, <1>13, <2>1 DEF InputDropped, CountInput, WindowsOK
  <2>3. UNCHANGED <<sessions, eventTokens, streams, roleWindows>>
    BY <1>13 DEF InputDropped
  <2>4. /\ \A x \in Session : Live(x)' <=> Live(x)
        /\ \A t \in Token, x \in Session : Subscribed(t, x)' => Subscribed(t, x)
    BY <2>3 DEF Live, Subscribed
  <2>. QED  BY <1>1, <2>2, <2>3, <2>4, LivingHolds
<1>14. ASSUME EventsRefused \/ \E t \in Token : CloseEvents(t)
       PROVE  Held'
  <2>1. /\ UNCHANGED <<sessions, roleWindows, inputWindows>>
        /\ \A u \in Token : eventTokens'[u] \in {NoGrant, eventTokens[u]}
    BY <1>14, CurrentAreTokens DEF EventsRefused, CloseEvents, windows
  <2>2. \A u \in Token, x \in Session : Subscribed(u, x)' => Subscribed(u, x)
    BY <1>14, NoStreamIsStream DEF EventsRefused, CloseEvents, Subscribed,
         StreamsOK
  <2>3. \A x \in Session : Live(x)' <=> Live(x)
    BY <2>1 DEF Live
  <2>. QED  BY <1>1, <2>1, <2>2, <2>3, LivingHolds
<1>15. ASSUME NEW s \in Session, FireExpiryTimer(s)
       PROVE  Held'
  <2>1. CASE sessions[s].expiresIn = 0
    BY <1>15, <2>1, ExpiringHolds DEF FireExpiryTimer
  <2>2. CASE sessions[s].expiresIn # 0
    <3>1. /\ sessions' = [sessions EXCEPT ![s].expiryTimer = FALSE]
          /\ UNCHANGED <<eventTokens, streams, roleWindows, inputWindows>>
      BY <1>15, <2>2 DEF FireExpiryTimer
    <3>2. \A x \in Session :
            /\ Live(x)' <=> Live(x)
            /\ sessions'[x].expiresIn = sessions[x].expiresIn
            /\ sessions'[x].expiryTimer => sessions[x].expiryTimer
      BY <3>1 DEF SessionsOK, SessionRecord, Live
    <3>3. \A t \in Token, x \in Session : Subscribed(t, x)' => Subscribed(t, x)
      BY <3>1 DEF Subscribed
    <3>. QED  BY <1>1, <3>1, <3>2, <3>3, LivingHolds
  <2>. QED  BY <2>1, <2>2
<1>16. ASSUME NEW s \in Session, FirePurgeTimer(s)
       PROVE  Held'
  <2>1. ~Live(s)
    BY <1>16 DEF FirePurgeTimer, Purgeable, Terminal, TerminalStates, Live,
         LiveStates
  <2>2. /\ \A x \in Session : Live(x)' <=> Live(x)
        /\ \A x \in Session : x # s => sessions'[x] = sessions[x]
        /\ sessions'[s] = Absent
    BY <1>16, <2>1 DEF FirePurgeTimer, SessionsOK, Live, Absent, LiveStates
  <2>3. \A t \in Token : eventTokens'[t] = eventTokens[t]
    BY <1>16, <2>1, HeldBare DEF FirePurgeTimer, InvalidateEventTokens, Bare
  <2>4. \A x \in Session : ~Live(x) => /\ roleWindows'[x] = NoRoleWindows
                                       /\ inputWindows'[x] = NoWindow
    BY <1>1, <1>16 DEF FirePurgeTimer, InvalidateEventTokens, WindowsOK
  <2>5. \A t \in Token, x \in Session : Subscribed(t, x)' => Subscribed(t, x)
    BY <1>16 DEF FirePurgeTimer, Subscribed
  <2>6. \A x \in Session : ~Live(x)' => Bare(x)' /\ ~sessions'[x].expiryTimer
    BY <2>2, <2>3, <2>4, <2>5, HeldBare DEF Bare, Absent
  <2>7. ASSUME NEW t \in Token, eventTokens'[t] # NoGrant
        PROVE  eventTokens'[t].left <= sessions'[eventTokens'[t].session].expiresIn
    <3>1. eventTokens[t].session \in Session
      BY <2>3, <2>7 DEF TokensOK, Grant
    <3>2. eventTokens[t].session # s
      BY <2>1, HeldBare DEF Bare
    <3>. QED  BY <2>2, <2>3, <2>7, <3>1, <3>2 DEF Held, GrantsEndWithSession
  <2>. QED  BY <2>6, <2>7 DEF Held, NothingOutlivesItsSession,
              GrantsEndWithSession, Bare
<1>17. CASE Tick
  <2>1. \A x \in Session :
          /\ Live(x)' <=> Live(x)
          /\ sessions'[x].expiresIn = Less(sessions[x].expiresIn)
          /\ sessions'[x].expiryTimer = sessions[x].expiryTimer
    BY <1>17 DEF Tick, SessionsOK, SessionRecord, Live
  <2>2. \A t \in Token :
          /\ eventTokens'[t].session = eventTokens[t].session
          /\ eventTokens'[t].left = Less(eventTokens[t].left)
          /\ eventTokens'[t] # NoGrant => eventTokens[t] # NoGrant
    <3>. SUFFICES ASSUME NEW t \in Token
                  PROVE  /\ eventTokens'[t].session = eventTokens[t].session
                         /\ eventTokens'[t].left = Less(eventTokens[t].left)
                         /\ eventTokens'[t] # NoGrant => eventTokens[t] # NoGrant
      OBVIOUS
    <3>1. eventTokens'[t] = [eventTokens[t] EXCEPT !.left = Less(@)]
      BY <1>17 DEF Tick
    <3>2. [NoGrant EXCEPT !.left = Less(@)] = NoGrant
      BY DEF NoGrant, Less
    <3>3. eventTokens[t] \in Grant \cup {NoGrant}
      BY DEF TokensOK
    <3>. QED  BY <3>1, <3>2, <3>3 DEF Grant, NoGrant
  <2>3. \A x \in Session : ~Live(x) => /\ roleWindows'[x] = NoRoleWindows
                                       /\ inputWindows'[x] = NoWindow
    <3>1. \A n : Older(NoWindow, n) = NoWindow
      BY DEF Older
    <3>2. ASSUME NEW x \in Session, ~Live(x)
          PROVE  /\ roleWindows'[x] = NoRoleWindows
                 /\ inputWindows'[x] = NoWindow
      <4>1. \A r \in Role, k \in RoleKind : roleWindows[x][r][k] = NoWindow
        BY <1>1, <3>2 DEF NoRoleWindows
      <4>2. roleWindows'[x] = [r \in Role |-> [k \in RoleKind |->
              Older(roleWindows[x][r][k], 2 * Length[k] + 1)]]
        BY <1>17 DEF Tick
      <4>3. \A r \in Role, k \in RoleKind :
              Older(roleWindows[x][r][k], 2 * Length[k] + 1) = NoWindow
        BY <3>1, <4>1
      <4>4. inputWindows'[x] = Older(inputWindows[x], Length["input"])
        BY <1>17 DEF Tick
      <4>5. roleWindows'[x] = NoRoleWindows
        BY <4>2, <4>3 DEF NoRoleWindows
      <4>. QED  BY <1>1, <3>1, <3>2, <4>4, <4>5
    <3>. QED  BY <3>2
  <2>4. \A t \in Token, x \in Session : Subscribed(t, x)' => Subscribed(t, x)
    BY <1>17 DEF Tick, Subscribed
  <2>5. \A x \in Session : ~Live(x)' => Bare(x)' /\ ~sessions'[x].expiryTimer
    BY <2>1, <2>2, <2>3, <2>4, HeldBare DEF Bare
  <2>6. ASSUME NEW t \in Token, eventTokens'[t] # NoGrant
        PROVE  eventTokens'[t].left <= sessions'[eventTokens'[t].session].expiresIn
    <3>. DEFINE x == eventTokens[t].session
    <3>1. /\ eventTokens[t] # NoGrant /\ x \in Session
          /\ eventTokens[t].left \in Nat
      BY <2>2, <2>6, Constants DEF TokensOK, Grant
    <3>2. /\ eventTokens[t].left <= sessions[x].expiresIn
          /\ sessions[x].expiresIn \in Nat
      BY <3>1, Constants DEF Held, GrantsEndWithSession, SessionsOK, SessionRecord
    <3>. QED  BY <2>1, <2>2, <3>1, <3>2 DEF Less
  <2>. QED  BY <2>5, <2>6 DEF Held, NothingOutlivesItsSession,
              GrantsEndWithSession, Bare
<1>18. ASSUME \/ \E ip \in Ip : RequestLimited(ip) \/ JoinRefused(ip)
              \/ UNCHANGED vars
       PROVE  Held'
  <2>1. UNCHANGED <<sessions, eventTokens, streams, roleWindows, inputWindows>>
    BY <1>18 DEF RequestLimited, JoinRefused, vars, windows
  <2>. QED  BY <2>1 DEF Held, NothingOutlivesItsSession, GrantsEndWithSession,
              Live, Subscribed
<1>. QED
  BY <1>2, <1>3, <1>4, <1>5, <1>6, <1>7, <1>8, <1>9, <1>10, <1>11, <1>12,
     <1>13, <1>14, <1>15, <1>16, <1>17, <1>18 DEF Next

(* Both invariants hold for every number of sessions, credentials, roles   *)
(* and addresses, and for all lives and limits.                            *)
LEMMA HeldAlways == Spec => []Held
<1>1. Init => Held
  BY NoneAssumption
     DEF Init, Held, NothingOutlivesItsSession, GrantsEndWithSession, Absent,
         NoGrant, NoStream, Subscribed
<1>2. TypeOK /\ Held /\ [Next]_vars => Held'
  BY HeldStep
<1>. QED  BY <1>1, <1>2, TypeCorrect, PTL DEF Spec

(* Once a session is over, by its end, by a report or by expiry, nothing   *)
(* of it is left that could still act: invalidateEventTokens and           *)
(* closeSubscribers reach all there is.                                    *)
THEOREM NothingOutlives == Spec => []NothingOutlivesItsSession
<1>1. Held => NothingOutlivesItsSession
  BY DEF Held
<1>. QED  BY <1>1, HeldAlways, PTL

(* createEventToken caps the life of a credential by that of its session.  *)
THEOREM GrantsEnd == Spec => []GrantsEndWithSession
<1>1. Held => GrantsEndWithSession
  BY DEF Held
<1>. QED  BY <1>1, HeldAlways, PTL

(* No other step opens a stream.                                           *)
LEMMA OnlyEventsOpen ==
  ASSUME SessionsOK, StreamsOK, Next, NEW t \in Token, streams'[t].phase = "open",
         \A u \in Token : ~OpenEvents(u)
  PROVE  streams[t].phase = "open"
<1>. USE DEF StreamsOK
<1>1. ASSUME NEW S \in SUBSET Session, Release(S)
      PROVE  streams[t].phase = "open"
  BY <1>1 DEF Release, CloseSubscribers, Hangup, NoStream
<1>2. ASSUME NEW s \in Session,
             \/ \E ip \in Ip : JoinLapsed(ip, s)
             \/ ExpireOnAccess(s)
             \/ \E ip \in Ip, code \in Code : CreateSession(ip, s, code)
             \/ \E role \in Role : End(s, role) \/ ReportAbuse(s, role)
      PROVE  streams[t].phase = "open"
  <2>1. LapsedSessions \in SUBSET Session
    BY DEF LapsedSessions
  <2>. QED  BY <1>1, <1>2, <2>1 DEF JoinLapsed, ExpireOnAccess,
              CreateSession, End, ReportAbuse, Expire
<1>3. ASSUME NEW s \in Session, Publish(s)
      PROVE  streams[t].phase = "open"
  BY <1>3, PublishKeepsSubscribers
<1>4. ASSUME NEW s \in Session,
             \/ \E ip \in Ip : Join(ip, s)
             \/ \E role \in Role, move \in OperatorRequests \cup HostActions :
                  Act(s, role, move)
      PROVE  streams[t].phase = "open"
  BY <1>3, <1>4 DEF Join, Act, Step
<1>5. ASSUME NEW s \in Session, NEW role \in Role, NEW u \in Token,
             IssueEventToken(s, role, u)
      PROVE  streams[t].phase = "open"
  BY <1>5 DEF IssueEventToken, NoStream
<1>6. ASSUME NEW u \in Token, CloseEvents(u)
      PROVE  streams[t].phase = "open"
  BY <1>6 DEF CloseEvents, NoStream
<1>7. ASSUME NEW s \in Session,
             \/ \E role \in Role : Signal(s, role)
             \/ \E role \in Role, text \in Text : Chat(s, role, text)
             \/ \E sequence \in InputSequence : Input(s, sequence)
      PROVE  streams[t].phase = "open"
  <2>1. \A value : /\ [streams[t] EXCEPT !.signal = value].phase = streams[t].phase
                   /\ [streams[t] EXCEPT !.chat = value].phase = streams[t].phase
                   /\ [streams[t] EXCEPT !.input = value].phase = streams[t].phase
    BY DEF Stream
  <2>2. ASSUME NEW role \in Role, Signal(s, role)
        PROVE  streams[t].phase = "open"
    BY <2>1, <2>2 DEF Signal, PublishSignal
  <2>3. ASSUME NEW role \in Role, NEW text \in Text, Chat(s, role, text)
        PROVE  streams[t].phase = "open"
    BY <2>1, <2>3 DEF Chat, PublishChat
  <2>4. ASSUME NEW sequence \in InputSequence, Input(s, sequence)
        PROVE  streams[t].phase = "open"
    BY <2>1, <2>4 DEF Input, PublishInput
  <2>. QED  BY <1>7, <2>2, <2>3, <2>4
<1>8. ASSUME NEW s \in Session, FireExpiryTimer(s)
      PROVE  streams[t].phase = "open"
  BY <1>1, <1>8 DEF FireExpiryTimer, Expire
<1>9. ASSUME \/ \E ip \in Ip : RequestLimited(ip) \/ JoinRefused(ip)
             \/ \E s \in Session, role \in Role :
                  \/ IceConfig(s, role) \/ TokenLimited(s, role)
                  \/ SignalLimited(s, role) \/ ChatLimited(s, role)
             \/ \E s \in Session : InputDropped(s) \/ FirePurgeTimer(s)
             \/ EventsRefused
             \/ Tick
      PROVE  streams[t].phase = "open"
  BY <1>9 DEF RequestLimited, JoinRefused, IceConfig, TokenLimited,
       SignalLimited, ChatLimited, InputDropped, FirePurgeTimer, EventsRefused,
       Tick
<1>10. CASE \E ip \in Ip : CreateRefused(ip)
  <2>1. Release(LapsedSessions) /\ LapsedSessions \in SUBSET Session
    BY <1>10 DEF CreateRefused, Expire, LapsedSessions
  <2>. QED  BY <1>1, <2>1
<1>. QED
  BY <1>2, <1>4, <1>5, <1>6, <1>7, <1>8, <1>9, <1>10 DEF Next

(* Every stream that GET events opens is on a live, unexpired session: the *)
(* check that the handler leaves out follows from the two invariants.      *)
THEOREM StreamsOpenLive == Spec => StreamsOpenOnLiveSessions
<1>1. TypeOK /\ Held /\ [Next]_vars =>
        [\A t \in Token :
           (streams[t].phase # "open" /\ streams'[t].phase = "open") =>
             /\ Live(streams'[t].session)
             /\ sessions[streams'[t].session].expiresIn > 0]_vars
  <2>. SUFFICES ASSUME TypeOK, Held, Next, NEW t \in Token,
                       streams[t].phase # "open", streams'[t].phase = "open"
                PROVE  /\ Live(streams'[t].session)
                       /\ sessions[streams'[t].session].expiresIn > 0
    OBVIOUS
  <2>1. ASSUME NEW u \in Token, OpenEvents(u)
        PROVE  /\ Live(streams'[t].session)
               /\ sessions[streams'[t].session].expiresIn > 0
    <3>. DEFINE grant == CurrentTokens[u]
    <3>1. /\ grant \in Grant /\ grant = eventTokens[u]
          /\ eventTokens[u].left # 0
      BY <2>1, CurrentAreTokens DEF OpenEvents, TypeOK, CurrentTokens
    <3>2. grant.session \in Session /\ Live(grant.session)
      BY <3>1, HeldBare DEF Grant, Bare
    <3>3. sessions[grant.session].expiresIn > 0
      <4>1. /\ grant.left \in Nat /\ grant.left # 0
            /\ sessions[grant.session].expiresIn \in Nat
        BY <3>1, <3>2, Constants DEF Grant, TypeOK, SessionsOK, SessionRecord
      <4>2. grant # NoGrant
        BY <2>1 DEF OpenEvents
      <4>3. grant.left <= sessions[grant.session].expiresIn
        BY <3>1, <4>2 DEF Held, GrantsEndWithSession
      <4>. HIDE DEF grant
      <4>. QED  BY <4>1, <4>3
    <3>4. streams' = [streams EXCEPT ![u] = Opened(grant, sessions[grant.session])]
      BY <2>1 DEF OpenEvents
    <3>5. Opened(grant, sessions[grant.session]).session = grant.session
      BY <2>1, <3>1, <3>2, SessionsAreRecords, OpenedIsStream
         DEF OpenEvents, Present, TypeOK
    <3>. HIDE DEF grant
    <3>6. t = u
      BY <3>4 DEF TypeOK, StreamsOK
    <3>. QED  BY <3>2, <3>3, <3>4, <3>5, <3>6 DEF TypeOK, StreamsOK
  <2>2. ASSUME \A u \in Token : ~OpenEvents(u)
        PROVE  FALSE
    BY <2>2, OnlyEventsOpen DEF TypeOK
  <2>. QED  BY <2>1, <2>2
<1>. QED  BY <1>1, TypeCorrect, HeldAlways, PTL DEF Spec, StreamsOpenOnLiveSessions
=============================================================================
