------------------------------- MODULE Portal --------------------------------
(***************************************************************************)
(* The portal, server.mjs: one Node process whose request handlers run one *)
(* at a time to completion, so every handler is one action.  The actions   *)
(* between handlers are the timers, the passing of time and the closing of *)
(* an event stream by its client.                                          *)
(*                                                                         *)
(* Time is modelled by what is left of it: a session holds the time until  *)
(* its expiresAt, so "expiresAt <= now" reads "expiresIn = 0".  The names  *)
(* in Session and Token stand for random ids: the name of a session that   *)
(* has been purged, or of a credential that nothing holds, serves again.   *)
(***************************************************************************)
EXTENDS SessionStates, RateWindow, BoundedLog, FiniteSets

CONSTANTS
  Session,          (* names of sessions                                   *)
  Token,            (* names of live-event credentials                     *)
  Ip,               (* client addresses                                    *)
  Code,             (* support codes                                       *)
  Text,             (* chat texts that normalise to an acceptable message  *)
  InputSequence,    (* sequence numbers of valid input batches             *)
  None,             (* no session, no address, no code, no role            *)
  SESSION_TTL,      (* life of a session                                   *)
  TOKEN_TTL,        (* life of a live-event credential                     *)
  TURN_TTL,         (* life of a TURN credential                           *)
  RETENTION,        (* how long a terminal record is kept                  *)
  TIMER_SLACK,      (* how early, at most, a timer fires by the wall clock *)
  Length,           (* length of the fixed window of each kind             *)
  Limit,            (* requests that a window of each kind lets through    *)
  MAX_ACTIVE,       (* MAX_ACTIVE_SESSIONS_PER_IP                          *)
  MAX_AUDIT,        (* MAX_AUDIT_EVENTS_PER_SESSION                        *)
  MAX_CHAT,         (* MAX_CHAT_MESSAGES_PER_SESSION                       *)
  MAX_REPORTS,      (* abuse reports kept                                  *)
  MAX_SIGNALS,      (* bound of the model: signals sent in a session       *)
  TurnConfigured    (* the deployment has a TURN secret and URLs           *)

(* Windows kept by session and role, and those kept by session or address. *)
RoleKind == {"token", "signal", "chat"}
Kind == RoleKind \cup {"input", "request"}

ASSUME TimesAssumption ==
  /\ SESSION_TTL \in Nat \ {0} /\ TOKEN_TTL \in Nat \ {0}
  /\ TURN_TTL \in Nat \ {0} /\ RETENTION \in Nat \ {0}
  /\ TIMER_SLACK \in Nat
ASSUME WindowsAssumption ==
  Length \in [Kind -> Nat \ {0}] /\ Limit \in [Kind -> Nat \ {0}]
ASSUME LimitsAssumption ==
  /\ MAX_ACTIVE \in Nat \ {0} /\ MAX_AUDIT \in Nat \ {0}
  /\ MAX_CHAT \in Nat \ {0} /\ MAX_REPORTS \in Nat /\ MAX_SIGNALS \in Nat
  /\ InputSequence \subseteq Nat /\ TurnConfigured \in BOOLEAN
ASSUME NoneAssumption == None \notin Session \cup Ip \cup Code \cup Role

VARIABLES
  sessions,      (* the session records; state "ABSENT" is not in the map  *)
  eventTokens,   (* the grant of each live-event credential                *)
  streams,       (* the SSE connection opened with each credential         *)
  turn,          (* external: validity left of TURN credentials at CoTURN  *)
  rateWindows,   (* creations and joins of each address                    *)
  roleWindows,   (* eventTokenWindows, signalWindows and chatWindows       *)
  inputWindows,  (* input batches of each session                          *)
  abuseReports   (* how many abuse reports are kept                        *)

windows == <<rateWindows, roleWindows, inputWindows>>
external == <<turn, abuseReports>>
vars == <<sessions, eventTokens, streams, windows, external>>

-----------------------------------------------------------------------------
(* Records.                                                                *)

Neutral == {"TURN_CREDENTIAL_ISSUED", "ABUSE_REPORTED"}

(* Where each audited event of the life cycle leaves the session.          *)
Leads == [SESSION_CREATED |-> "CREATED", HOST_JOINED |-> "HOST_JOINED",
          VIEW_REQUESTED |-> "VIEW_PENDING", APPROVE_VIEW |-> "VIEW_ACTIVE",
          DENY_VIEW |-> "HOST_JOINED", CONTROL_REQUESTED |-> "CONTROL_PENDING",
          APPROVE_CONTROL |-> "CONTROL_ACTIVE", DENY_CONTROL |-> "VIEW_ACTIVE",
          REVOKE_CONTROL |-> "VIEW_ACTIVE", SESSION_ENDED |-> "ENDED",
          SESSION_ENDED_AFTER_ABUSE_REPORT |-> "ENDED",
          SESSION_EXPIRED |-> "EXPIRED"]

Event == DOMAIN Leads \cup Neutral

Message == [from : Role, text : Text]

SessionRecord ==
  [state : LiveStates \cup TerminalStates \cup {"ABSENT"},
   ip : Ip \cup {None}, code : Code \cup {None}, hostToken : BOOLEAN,
   expiresIn : 0 .. SESSION_TTL, expiryTimer : BOOLEAN,
   purgeIn : 0 .. RETENTION, audit : Seq(Event), chat : Seq(Message),
   signalSequence : 0 .. MAX_SIGNALS,
   lastInputSequence : InputSequence \cup {-1}]

Absent ==
  [state |-> "ABSENT", ip |-> None, code |-> None, hostToken |-> FALSE,
   expiresIn |-> 0, expiryTimer |-> FALSE, purgeIn |-> 0, audit |-> <<>>,
   chat |-> <<>>, signalSequence |-> 0, lastInputSequence |-> -1]

NoGrant == [session |-> None, role |-> None, left |-> 0]

Grant == [session : Session, role : Role, left : 0 .. TOKEN_TTL]

(* A stream remembers what it was last written of each kind of event.      *)
Stream ==
  [session : Session \cup {None}, role : Role \cup {None},
   phase : {"none", "open", "closed"},
   state : LiveStates \cup TerminalStates \cup {None}, chat : Seq(Message),
   signal : 0 .. MAX_SIGNALS, input : InputSequence \cup {-1}]

NoStream == [session |-> None, role |-> None, phase |-> "none", state |-> None,
             chat |-> <<>>, signal |-> 0, input |-> -1]

NoRoleWindows == [r \in Role |-> [k \in RoleKind |-> NoWindow]]

Present(s) == sessions[s].state # "ABSENT"
Terminal(s) == sessions[s].state \in TerminalStates
Live(s) == sessions[s].state \in LiveStates
Lapsed(s) == Live(s) /\ sessions[s].expiresIn = 0

(* requireSession: the session is live and unexpired and the token is one  *)
(* of its two.                                                             *)
Authorized(s, role) ==
  /\ Live(s) /\ sessions[s].expiresIn > 0
  /\ role = "host" => sessions[s].hostToken

Subscribed(t, s) == streams[t].phase = "open" /\ streams[t].session = s

-----------------------------------------------------------------------------
(* The helpers that the handlers share.                                    *)

Lesser(m, n) == IF m < n THEN m ELSE n

AddAudit(record, event) ==
  [record EXCEPT !.audit = Push(@, event, MAX_AUDIT)]

MovedForgettingInput(record, state, event) ==
  AddAudit([record EXCEPT !.state = state, !.lastInputSequence = -1], event)

Moved(record, state, event) == AddAudit([record EXCEPT !.state = state], event)

SnapshotWithoutChat(stream, record) == [stream EXCEPT !.state = record.state]

Snapshot(stream, record) ==
  [stream EXCEPT !.state = record.state, !.chat = record.chat]

(* publish: every subscriber is written the session as it has become.      *)
Publish(s) ==
  streams' = [t \in Token |-> IF Subscribed(t, s)
                              THEN Snapshot(streams[t], sessions'[s])
                              ELSE streams[t]]

(* transition: the new state, its audit entry, then the publication.       *)
Step(s, state, event) ==
  /\ sessions' = [sessions EXCEPT ![s] = Moved(@, state, event)]
  /\ Publish(s)
  /\ UNCHANGED <<eventTokens, roleWindows, inputWindows, external>>

(* invalidateEventTokens, of every session in S.                           *)
InvalidateEventTokens(S) ==
  /\ eventTokens' = [t \in Token |-> IF eventTokens[t].session \in S
                                     THEN NoGrant ELSE eventTokens[t]]
  /\ roleWindows' = [s \in Session |->
                       IF s \in S THEN NoRoleWindows ELSE roleWindows[s]]

ClosedUnheard(stream, record) ==
  [NoStream EXCEPT !.phase = "closed", !.state = stream.state]

(* A subscriber of a session that ends: written the end, then closed.      *)
Hangup(stream, record) ==
  [NoStream EXCEPT !.phase = "closed", !.state = record.state]

LeaveSubscribed(S) == UNCHANGED streams

(* The publication of the end and closeSubscribers.                        *)
CloseSubscribers(S) ==
  streams' = [t \in Token |->
                IF streams[t].phase = "open" /\ streams[t].session \in S
                THEN Hangup(streams[t], sessions'[streams[t].session])
                ELSE streams[t]]

(* terminateSession's record: the expiry timer cleared, the purge timer    *)
(* set.                                                                    *)
Terminated(record, state, event) ==
  [Moved(record, state, event) EXCEPT !.expiryTimer = FALSE,
                                      !.purgeIn = RETENTION]

(* What terminateSession does beyond the records of the sessions S.        *)
Release(S) ==
  /\ CloseSubscribers(S)
  /\ InvalidateEventTokens(S)
  /\ inputWindows' = [s \in Session |->
                        IF s \in S THEN NoWindow ELSE inputWindows[s]]

(* expireSession, of every session in S.                                   *)
Expired(S) ==
  [s \in Session |-> IF s \in S
                     THEN Terminated(sessions[s], "EXPIRED", "SESSION_EXPIRED")
                     ELSE sessions[s]]

Expire(S) ==
  /\ sessions' = Expired(S)
  /\ Release(S)
  /\ UNCHANGED external

-----------------------------------------------------------------------------
(* Rate windows.                                                           *)

(* pruneRateWindows and the counting of rateLimited: this window is over   *)
(* only when it is older than its length.                                  *)
CountRequest(ip) ==
  LET pruned == [i \in Ip |-> Pruned(rateWindows[i], 2 * Length["request"])]
  IN rateWindows' =
       [pruned EXCEPT ![ip] = Counted(@, @.age > Length["request"],
                                      Limit["request"])]

RequestRefused(ip) == Refused(rateWindows'[ip], Limit["request"])

(* pruneRoleRateWindows, then the counting of eventTokenRateLimited,       *)
(* signalRateLimited and chatRateLimited.                                  *)
PrunedRoleWindows ==
  [s \in Session |-> [r \in Role |-> [k \in RoleKind |->
     Pruned(roleWindows[s][r][k], 2 * Length[k])]]]

CountRole(s, role, kind) ==
  roleWindows' =
    [PrunedRoleWindows EXCEPT ![s][role][kind] =
       Counted(@, @.age >= Length[kind], Limit[kind])]

RoleRefused(s, role, kind) == Refused(roleWindows'[s][role][kind], Limit[kind])

(* The counting of inputRateLimited, which prunes nothing.                 *)
CountInput(s) ==
  inputWindows' =
    [inputWindows EXCEPT ![s] =
       Counted(@, @.age >= Length["input"], Limit["input"])]

InputRefused(s) == Refused(inputWindows'[s], Limit["input"])

-----------------------------------------------------------------------------
(* POST /api/sessions and POST /api/sessions/join.                         *)

(* Either route, refused by the limit that they share.                     *)
RequestLimited(ip) ==
  /\ CountRequest(ip)
  /\ RequestRefused(ip)
  /\ UNCHANGED <<sessions, eventTokens, streams, roleWindows, inputWindows,
                 external>>

LapsedSessions == {s \in Session : Lapsed(s)}

WaitingFrom(ip) == {s \in Session : /\ sessions[s].state = "CREATED"
                                    /\ sessions[s].ip = ip}

(* activeSessionsFromIp, after it has expired every lapsed session.        *)
ActiveFrom(ip) == {s \in Session : /\ Live(s) /\ ~Lapsed(s)
                                   /\ sessions[s].ip = ip}

UsedByLiveSession(code) ==
  \E s \in Session : Live(s) /\ sessions[s].code = code

(* findSessionByCode: a code is in use while a record holds it.            *)
Used(code) == \E s \in Session : Present(s) /\ sessions[s].code = code

(* A name for a new session: nothing outside the map refers to it either.  *)
Unnamed(s) == ~Present(s) /\ turn[s] = 0

NewSession(ip, code) ==
  [Absent EXCEPT !.state = "CREATED", !.ip = ip, !.code = code,
                 !.expiresIn = SESSION_TTL, !.expiryTimer = TRUE,
                 !.audit = Push(<<>>, "SESSION_CREATED", MAX_AUDIT)]

CreateSession(ip, s, code) ==
  /\ CountRequest(ip)
  /\ ~RequestRefused(ip)
  /\ Cardinality(ActiveFrom(ip)) < MAX_ACTIVE
  /\ Unnamed(s)
  /\ ~Used(code)
  /\ sessions' = [Expired(LapsedSessions) EXCEPT ![s] = NewSession(ip, code)]
  /\ Release(LapsedSessions)
  /\ UNCHANGED external

(* Too many active sessions; the lapsed ones have been expired all the     *)
(* same.                                                                   *)
CreateRefused(ip) ==
  /\ CountRequest(ip)
  /\ ~RequestRefused(ip)
  /\ Cardinality(ActiveFrom(ip)) >= MAX_ACTIVE
  /\ Expire(LapsedSessions)

JoinAnyLive(s) == Live(s) /\ sessions[s].expiresIn > 0

Joinable(s) == sessions[s].state = "CREATED" /\ sessions[s].expiresIn > 0

JoinedClearingTimer(record) ==
  [Moved(record, "HOST_JOINED", "HOST_JOINED") EXCEPT !.hostToken = TRUE,
                                                      !.expiryTimer = FALSE]

Joined(record) ==
  [Moved(record, "HOST_JOINED", "HOST_JOINED") EXCEPT !.hostToken = TRUE]

Join(ip, s) ==
  /\ CountRequest(ip)
  /\ ~RequestRefused(ip)
  /\ Joinable(s)
  /\ sessions' = [sessions EXCEPT ![s] = Joined(@)]
  /\ Publish(s)
  /\ UNCHANGED <<eventTokens, roleWindows, inputWindows, external>>

JoinLapsed(ip, s) ==
  /\ CountRequest(ip)
  /\ ~RequestRefused(ip)
  /\ Lapsed(s)
  /\ Expire({s})

(* A code that is unknown, or whose session has a host or is over.         *)
JoinRefused(ip) ==
  /\ CountRequest(ip)
  /\ ~RequestRefused(ip)
  /\ UNCHANGED <<sessions, eventTokens, streams, roleWindows, inputWindows,
                 external>>

-----------------------------------------------------------------------------
(* The routes of a session.                                                *)

(* Any of them, on a session that has lapsed: requireSession and           *)
(* requireAuditSession expire it before they look at the token.            *)
ExpireOnAccess(s) ==
  /\ Lapsed(s)
  /\ Expire({s})
  /\ UNCHANGED rateWindows

(* view-request, control-request and the five host actions.                *)
Act(s, role, move) ==
  /\ Authorized(s, role)
  /\ move \in IF role = "host" THEN HostActions ELSE OperatorRequests
  /\ sessions[s].state \in move.from
  /\ Step(s, move.to, move.event)
  /\ UNCHANGED rateWindows

End(s, role) ==
  /\ Authorized(s, role)
  /\ sessions' = [sessions EXCEPT ![s] =
                    Terminated(@, "ENDED", "SESSION_ENDED")]
  /\ Release({s})
  /\ UNCHANGED <<rateWindows, external>>

ReportAbuse(s, role) ==
  /\ Authorized(s, role)
  /\ abuseReports' = Lesser(abuseReports + 1, MAX_REPORTS)
  /\ sessions' = [sessions EXCEPT ![s] =
                    Terminated(AddAudit(@, "ABUSE_REPORTED"), "ENDED",
                               "SESSION_ENDED_AFTER_ABUSE_REPORT")]
  /\ Release({s})
  /\ UNCHANGED <<turn, rateWindows>>

FixedTurnLife(s) == TURN_TTL

(* makeTurnConfiguration: the credential never outlives the session.       *)
TurnLife(s) == Lesser(sessions[s].expiresIn, TURN_TTL)

IceConfig(s, role) ==
  /\ TurnConfigured
  /\ Authorized(s, role)
  /\ sessions[s].state \in SharingStates
  /\ sessions' = [sessions EXCEPT ![s] = AddAudit(@, "TURN_CREDENTIAL_ISSUED")]
  /\ turn' = [turn EXCEPT ![s] = IF @ < TurnLife(s) THEN TurnLife(s) ELSE @]
  /\ UNCHANGED <<eventTokens, streams, windows, abuseReports>>

-----------------------------------------------------------------------------
(* Live events.                                                            *)

(* pruneExpiredEventTokens.                                                *)
CurrentTokens ==
  [t \in Token |-> IF eventTokens[t].left = 0 THEN NoGrant ELSE eventTokens[t]]

Unissued(t) == CurrentTokens[t] = NoGrant /\ streams[t].phase # "open"

FixedTokenLife(s) == TOKEN_TTL

TokenLife(s) == Lesser(sessions[s].expiresIn, TOKEN_TTL)

IssueEventToken(s, role, t) ==
  /\ Authorized(s, role)
  /\ CountRole(s, role, "token")
  /\ ~RoleRefused(s, role, "token")
  /\ Unissued(t)
  /\ eventTokens' = [CurrentTokens EXCEPT ![t] =
                       [session |-> s, role |-> role, left |-> TokenLife(s)]]
  /\ streams' = [streams EXCEPT ![t] = NoStream]
  /\ UNCHANGED <<sessions, rateWindows, inputWindows, external>>

TokenLimited(s, role) ==
  /\ Authorized(s, role)
  /\ CountRole(s, role, "token")
  /\ RoleRefused(s, role, "token")
  /\ eventTokens' = CurrentTokens
  /\ UNCHANGED <<sessions, streams, rateWindows, inputWindows, external>>

(* A new subscriber, which is first written the session.                   *)
Opened(grant, record) ==
  Snapshot([NoStream EXCEPT !.session = grant.session, !.role = grant.role,
                            !.phase = "open"], record)

(* GET events.  The handler looks at the credential and at the presence of *)
(* the session, never at its state or its expiry.                          *)
OpenEvents(t) ==
  LET grant == CurrentTokens[t]
  IN /\ grant # NoGrant
     /\ Present(grant.session)
     /\ eventTokens' = [CurrentTokens EXCEPT ![t] = NoGrant]
     /\ streams' = [streams EXCEPT ![t] =
                      Opened(grant, sessions[grant.session])]
     /\ UNCHANGED <<sessions, windows, external>>

(* GET events with no current credential.                                  *)
EventsRefused ==
  /\ eventTokens' = CurrentTokens
  /\ UNCHANGED <<sessions, streams, windows, external>>

(* The client goes away.                                                   *)
CloseEvents(t) ==
  /\ streams[t].phase = "open"
  /\ streams' = [streams EXCEPT ![t] = NoStream]
  /\ UNCHANGED <<sessions, eventTokens, windows, external>>

-----------------------------------------------------------------------------
(* The relays.                                                             *)

RestartingSequence(s) == IF sessions[s].signalSequence = 0 THEN 1 ELSE 0

NextSequence(s) == sessions[s].signalSequence + 1

(* publishSignal: a signal with no subscriber to receive it is lost.       *)
PublishSignal(s, role, sequence) ==
  streams' = [t \in Token |->
                IF Subscribed(t, s) /\ streams[t].role = role
                THEN [streams[t] EXCEPT !.signal = sequence] ELSE streams[t]]

SignallableAlways(s, role) ==
  Authorized(s, role) /\ sessions[s].state # "CREATED"

(* Signals are relayed while the screen is shared.                         *)
Signallable(s, role) ==
  Authorized(s, role) /\ sessions[s].state \in SharingStates

Signal(s, role) ==
  /\ sessions[s].signalSequence < MAX_SIGNALS
  /\ Signallable(s, role)
  /\ CountRole(s, role, "signal")
  /\ ~RoleRefused(s, role, "signal")
  /\ sessions' = [sessions EXCEPT ![s].signalSequence = NextSequence(s)]
  /\ PublishSignal(s, Other(role), NextSequence(s))
  /\ UNCHANGED <<eventTokens, rateWindows, inputWindows, external>>

SignalLimited(s, role) ==
  /\ sessions[s].signalSequence < MAX_SIGNALS
  /\ Signallable(s, role)
  /\ CountRole(s, role, "signal")
  /\ RoleRefused(s, role, "signal")
  /\ UNCHANGED <<sessions, eventTokens, streams, rateWindows, inputWindows,
                 external>>

(* publishChat: both roles, the sender too.                                *)
PublishChat(s, message) ==
  streams' = [t \in Token |->
                IF Subscribed(t, s)
                THEN [streams[t] EXCEPT !.chat = Push(@, message, MAX_CHAT)]
                ELSE streams[t]]

Chat(s, role, text) ==
  LET message == [from |-> role, text |-> text]
  IN /\ Authorized(s, role)
     /\ sessions[s].state # "CREATED"
     /\ CountRole(s, role, "chat")
     /\ ~RoleRefused(s, role, "chat")
     /\ sessions' = [sessions EXCEPT ![s].chat = Push(@, message, MAX_CHAT)]
     /\ PublishChat(s, message)
     /\ UNCHANGED <<eventTokens, rateWindows, inputWindows, external>>

ChatLimited(s, role) ==
  /\ Text # {}
  /\ Authorized(s, role)
  /\ sessions[s].state # "CREATED"
  /\ CountRole(s, role, "chat")
  /\ RoleRefused(s, role, "chat")
  /\ UNCHANGED <<sessions, eventTokens, streams, rateWindows, inputWindows,
                 external>>

ControllableWhileShared(s) ==
  Authorized(s, "operator") /\ sessions[s].state \in SharingStates

(* Remote input is the operator's, and needs the grant of control.         *)
Controllable(s) ==
  Authorized(s, "operator") /\ sessions[s].state = "CONTROL_ACTIVE"

AnyInput(s, sequence) == TRUE

NewInput(s, sequence) == sequence > sessions[s].lastInputSequence

PublishInput(s, sequence) ==
  streams' = [t \in Token |->
                IF Subscribed(t, s) /\ streams[t].role = "host"
                THEN [streams[t] EXCEPT !.input = sequence] ELSE streams[t]]

Input(s, sequence) ==
  /\ Controllable(s)
  /\ CountInput(s)
  /\ ~InputRefused(s)
  /\ NewInput(s, sequence)
  /\ sessions' = [sessions EXCEPT ![s].lastInputSequence = sequence]
  /\ PublishInput(s, sequence)
  /\ UNCHANGED <<eventTokens, rateWindows, roleWindows, external>>

(* Too many batches, an invalid payload or a stale sequence: counted.      *)
InputDropped(s) ==
  /\ InputSequence # {}
  /\ Controllable(s)
  /\ CountInput(s)
  /\ UNCHANGED <<sessions, eventTokens, streams, rateWindows, roleWindows,
                 external>>

-----------------------------------------------------------------------------
(* Timers and time.                                                        *)

(* The callback of scheduleExpiry runs once and looks at the clock again:  *)
(* one that comes early by the clock leaves the session as it is.          *)
FireExpiryTimer(s) ==
  /\ sessions[s].expiryTimer
  /\ sessions[s].expiresIn <= TIMER_SLACK
  /\ IF sessions[s].expiresIn = 0
     THEN Expire({s})
     ELSE /\ sessions' = [sessions EXCEPT ![s].expiryTimer = FALSE]
          /\ UNCHANGED <<eventTokens, streams, roleWindows, inputWindows,
                         external>>
  /\ UNCHANGED rateWindows

PurgeableOnceEnded(s) == sessions[s].state = "ENDED"

Purgeable(s) == Terminal(s)

(* purgeTerminalSession.                                                   *)
FirePurgeTimer(s) ==
  /\ Purgeable(s)
  /\ sessions[s].purgeIn = 0
  /\ sessions' = [sessions EXCEPT ![s] = Absent]
  /\ InvalidateEventTokens({s})
  /\ inputWindows' = [inputWindows EXCEPT ![s] = NoWindow]
  /\ UNCHANGED <<streams, rateWindows, external>>

Less(n) == IF n = 0 THEN 0 ELSE n - 1

Tick ==
  /\ sessions' = [s \in Session |->
                    [sessions[s] EXCEPT !.expiresIn = Less(@),
                                        !.purgeIn = Less(@)]]
  /\ eventTokens' = [t \in Token |-> [eventTokens[t] EXCEPT !.left = Less(@)]]
  /\ turn' = [s \in Session |-> Less(turn[s])]
  /\ rateWindows' = [i \in Ip |-> Older(rateWindows[i],
                                        2 * Length["request"] + 1)]
  /\ roleWindows' = [s \in Session |-> [r \in Role |-> [k \in RoleKind |->
                       Older(roleWindows[s][r][k], 2 * Length[k] + 1)]]]
  /\ inputWindows' = [s \in Session |-> Older(inputWindows[s],
                                              Length["input"])]
  /\ UNCHANGED <<streams, abuseReports>>

-----------------------------------------------------------------------------
Init ==
  /\ sessions = [s \in Session |-> Absent]
  /\ eventTokens = [t \in Token |-> NoGrant]
  /\ streams = [t \in Token |-> NoStream]
  /\ turn = [s \in Session |-> 0]
  /\ rateWindows = [i \in Ip |-> NoWindow]
  /\ roleWindows = [s \in Session |-> NoRoleWindows]
  /\ inputWindows = [s \in Session |-> NoWindow]
  /\ abuseReports = 0

Next ==
  \/ \E ip \in Ip : \/ RequestLimited(ip)
                    \/ CreateRefused(ip)
                    \/ JoinRefused(ip)
                    \/ \E s \in Session : \/ Join(ip, s)
                                          \/ JoinLapsed(ip, s)
                    \/ \E s \in Session, code \in Code :
                         CreateSession(ip, s, code)
  \/ \E s \in Session, role \in Role :
       \/ \E move \in OperatorRequests \cup HostActions : Act(s, role, move)
       \/ End(s, role)
       \/ ReportAbuse(s, role)
       \/ IceConfig(s, role)
       \/ \E t \in Token : IssueEventToken(s, role, t)
       \/ TokenLimited(s, role)
       \/ Signal(s, role)
       \/ SignalLimited(s, role)
       \/ \E text \in Text : Chat(s, role, text)
       \/ ChatLimited(s, role)
  \/ \E s \in Session : \/ ExpireOnAccess(s)
                        \/ \E sequence \in InputSequence : Input(s, sequence)
                        \/ InputDropped(s)
                        \/ FireExpiryTimer(s)
                        \/ FirePurgeTimer(s)
  \/ \E t \in Token : OpenEvents(t) \/ CloseEvents(t)
  \/ EventsRefused
  \/ Tick

Spec == Init /\ [][Next]_vars

(* Time passes, and a timer that is due fires once the process is free.    *)
Fairness ==
  /\ WF_vars(Tick)
  /\ \A s \in Session : WF_vars(FireExpiryTimer(s)) /\ WF_vars(FirePurgeTimer(s))

FairSpec == Spec /\ Fairness

-----------------------------------------------------------------------------
(* Properties.                                                             *)

SessionsOK ==
  /\ sessions \in [Session -> SessionRecord]
  /\ \A s \in Session : /\ Len(sessions[s].audit) <= MAX_AUDIT
                        /\ Len(sessions[s].chat) <= MAX_CHAT

TokensOK == eventTokens \in [Token -> Grant \cup {NoGrant}]

StreamsOK ==
  /\ streams \in [Token -> Stream]
  /\ \A t \in Token :
       /\ Len(streams[t].chat) <= MAX_CHAT
       /\ streams[t].phase = "open" => /\ streams[t].session \in Session
                                       /\ streams[t].role \in Role

WindowsOK ==
  /\ rateWindows \in [Ip -> Window(2 * Length["request"] + 1, Limit["request"])]
  /\ roleWindows \in [Session -> [Role -> [RoleKind -> [age : Nat, count : Nat]]]]
  /\ \A s \in Session, r \in Role, k \in RoleKind :
       roleWindows[s][r][k] \in Window(2 * Length[k] + 1, Limit[k])
  /\ inputWindows \in [Session -> Window(Length["input"], Limit["input"])]

(* Every variable has its type; the trail, the transcript and the counters *)
(* keep within their bounds.                                               *)
TypeOK ==
  /\ SessionsOK
  /\ TokensOK
  /\ StreamsOK
  /\ WindowsOK
  /\ turn \in [Session -> 0 .. TURN_TTL]
  /\ abuseReports \in 0 .. MAX_REPORTS

(* A session that is over holds nothing that could still act for it: no    *)
(* credential, no subscriber, no window, no expiry timer.                  *)
NothingOutlivesItsSession ==
  \A s \in Session : ~Live(s) =>
    /\ ~sessions[s].expiryTimer
    /\ \A t \in Token : eventTokens[t].session # s /\ ~Subscribed(t, s)
    /\ roleWindows[s] = NoRoleWindows
    /\ inputWindows[s] = NoWindow

(* A credential for live events never has longer to live than its session, *)
(* which is why GET events need not look at the expiry of the session.     *)
GrantsEndWithSession ==
  \A t \in Token : eventTokens[t] # NoGrant =>
    eventTokens[t].left <= sessions[eventTokens[t].session].expiresIn

(* A subscriber is always one that GET events let in while its session was *)
(* live and unexpired, although that handler checks neither.               *)
StreamsOpenOnLiveSessions ==
  [][\A t \in Token :
       (streams[t].phase # "open" /\ streams'[t].phase = "open") =>
         /\ Live(streams'[t].session)
         /\ sessions[streams'[t].session].expiresIn > 0]_vars

(* What a subscriber has been written is the session as it is: no          *)
(* transition and no chat message misses an open stream, and no snapshot   *)
(* undoes a later message.                                                 *)
StreamsAreCurrent ==
  \A t \in Token : streams[t].phase = "open" =>
    /\ streams[t].state = sessions[streams[t].session].state
    /\ streams[t].chat = sessions[streams[t].session].chat

(* A subscriber that the portal hangs up on has been told why.             *)
StreamsHearTheEnd ==
  \A t \in Token : streams[t].phase = "closed" =>
    streams[t].state \in TerminalStates

(* A code, typed by a host, names one record: a code is not given out      *)
(* again while the record of its last session is kept.                     *)
CodesAreUnique ==
  \A s1, s2 \in Session :
    (Present(s1) /\ Present(s2) /\ s1 # s2) =>
      sessions[s1].code # sessions[s2].code

(* No address holds more than its share of live sessions, whatever expired *)
(* or was purged while it was creating them.                               *)
ActiveSessionsCapped ==
  \A ip \in Ip : Cardinality({s \in Session : Live(s) /\ sessions[s].ip = ip})
                 <= MAX_ACTIVE

(* A code admits one host: no sequence of requests, refusals and           *)
(* revocations makes a session joinable a second time.                     *)
OneHostPerCode ==
  \A s \in Session :
    /\ sessions[s].state = "CREATED" => ~sessions[s].hostToken
    /\ Cardinality({i \in DOMAIN sessions[s].audit :
                      sessions[s].audit[i] = "HOST_JOINED"}) <= 1

(* The trail explains the session: the last event of the life cycle in it, *)
(* if the cap has not pushed it out, leads to the state.                   *)
AuditTellsState ==
  \A s \in Session : \A i \in DOMAIN sessions[s].audit :
    (/\ sessions[s].audit[i] \notin Neutral
     /\ \A j \in i + 1 .. Len(sessions[s].audit) : sessions[s].audit[j] \in Neutral)
      => Leads[sessions[s].audit[i]] = sessions[s].state

StillOpen(t) == /\ streams[t].phase = "open" /\ streams'[t].phase = "open"
                /\ streams[t].session = streams'[t].session

(* Signals reach a stream in the order the portal numbered them, and none  *)
(* twice, however the two sides interleave.                                *)
SignalsArriveInOrder ==
  [][\A t \in Token : (StillOpen(t) /\ streams'[t].signal # streams[t].signal)
       => streams'[t].signal > streams[t].signal]_vars

(* Input is written to hosts only, and in increasing sequence over all the *)
(* grants of control in a session: a batch that comes again or late is not *)
(* written to a stream that was written it or a later one, whatever was    *)
(* revoked and granted between the two.                                    *)
InputArrivesInOrder ==
  [][\A t \in Token :
       /\ StillOpen(t) /\ streams'[t].input # streams[t].input
            => streams[t].role = "host"
       /\ \A s \in Session, sequence \in InputSequence :
            Subscribed(t, s) /\ streams[t].role = "host" /\ Input(s, sequence)
              => sequence > streams[t].input]_vars

(* Read by itself, the stream of a participant makes sense: a signal only  *)
(* comes while the last state it was written is one in which the screen is *)
(* shared, and never after the session has lapsed.                         *)
SignalsFollowConsent ==
  [][\A t \in Token : (StillOpen(t) /\ streams'[t].signal # streams[t].signal)
       => /\ streams[t].state \in SharingStates
          /\ sessions[streams[t].session].expiresIn > 0]_vars

(* A host's stream carries input only between a grant of control that it   *)
(* was written and the revocation, the end or the expiry of it.            *)
InputFollowsConsent ==
  [][\A t \in Token : (StillOpen(t) /\ streams'[t].input # streams[t].input)
       => /\ streams[t].state = "CONTROL_ACTIVE"
          /\ sessions[streams[t].session].expiresIn > 0]_vars

(* No TURN credential is valid beyond the expiry of its session.           *)
TurnEndsByExpiry ==
  \A s \in Session : Present(s) => turn[s] <= sessions[s].expiresIn

(* What turn-reliability-notes.md asks: that ending a session invalidates  *)
(* its TURN credentials.                                                   *)
TurnEndsWithSession == \A s \in Session : turn[s] > 0 => Live(s)

(* Every session ends, whether or not anybody calls the portal again.      *)
EverySessionEnds == \A s \in Session : Live(s) ~> ~Live(s)

(* Every terminal record is purged, and its name with it.                  *)
EveryRecordIsPurged == \A s \in Session : Terminal(s) ~> ~Present(s)

-----------------------------------------------------------------------------
(* What the states of the session mean to its participants.                *)

Attended == [s \in Session |-> Live(s) /\ sessions[s].state # "CREATED"]

Asked == [s \in Session |->
            CASE sessions[s].state = "VIEW_PENDING" -> "view"
              [] sessions[s].state = "CONTROL_PENDING" -> "control"
              [] OTHER -> "nothing"]

Grants == [s \in Session |->
             CASE sessions[s].state \in {"VIEW_ACTIVE", "CONTROL_PENDING"} ->
                    {"view"}
               [] sessions[s].state = "CONTROL_ACTIVE" -> {"view", "control"}
               [] OTHER -> {}]

Promise == INSTANCE Consent WITH attended <- Attended, asked <- Asked,
                                 grants <- Grants

(* The portal keeps the promise of attended support: whatever the handlers *)
(* and timers do is a step of Consent or none.                             *)
ConsentIsKept == Promise!Spec
=============================================================================
