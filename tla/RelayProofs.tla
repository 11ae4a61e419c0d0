----------------------------- MODULE RelayProofs -----------------------------
(***************************************************************************)
(* What the relays write to a stream: in order, once, to whom it is meant, *)
(* and only under the consent that the stream was last written.            *)
(***************************************************************************)
EXTENDS SessionProofs

-----------------------------------------------------------------------------
(* A credential opens one stream.                                          *)

OneUse == \A t \in Token : eventTokens[t] # NoGrant => streams[t].phase # "open"

LEMMA TokenAppears ==
  ASSUME SessionsOK, TokensOK, [Next]_vars, NEW t \in Token,
         eventTokens'[t] # NoGrant,
         \A s \in Session, role \in Role : ~IssueEventToken(s, role, t)
  PROVE  eventTokens[t] # NoGrant
<1>. USE DEF TokensOK
<1>1. ASSUME NEW S, InvalidateEventTokens(S)
      PROVE  eventTokens[t] # NoGrant
  BY <1>1 DEF InvalidateEventTokens
<1>2. ASSUME \/ \E ip \in Ip, s \in Session, code \in Code : CreateSession(ip, s, code)
             \/ \E ip \in Ip : CreateRefused(ip)
             \/ \E ip \in Ip, s \in Session : JoinLapsed(ip, s)
             \/ \E s \in Session : ExpireOnAccess(s)
             \/ \E s \in Session, role \in Role : End(s, role) \/ ReportAbuse(s, role)
             \/ \E s \in Session : FireExpiryTimer(s) \/ FirePurgeTimer(s)
      PROVE  eventTokens[t] # NoGrant
  BY <1>1, <1>2 DEF CreateSession, CreateRefused, JoinLapsed, ExpireOnAccess, End,
     ReportAbuse, FireExpiryTimer, FirePurgeTimer, Expire, Release
<1>3. ASSUME \/ \E s \in Session, role \in Role, u \in Token :
                  u # t /\ IssueEventToken(s, role, u)
             \/ \E s \in Session, role \in Role : TokenLimited(s, role)
             \/ \E u \in Token : OpenEvents(u)
             \/ EventsRefused
      PROVE  eventTokens[t] # NoGrant
  <2>1. CurrentTokens[t] # NoGrant
    BY <1>3 DEF IssueEventToken, TokenLimited, OpenEvents, EventsRefused, CurrentTokens
  <2>. QED  BY <2>1 DEF CurrentTokens
<1>4. CASE Tick
  <2>1. eventTokens'[t] = [eventTokens[t] EXCEPT !.left = Less(@)]
    BY <1>4 DEF Tick
  <2>2. [NoGrant EXCEPT !.left = Less(@)] = NoGrant
    BY DEF NoGrant, Less
  <2>. QED  BY <2>1, <2>2
<1>5. ASSUME \/ \E ip \in Ip : \/ RequestLimited(ip) \/ JoinRefused(ip)
                              \/ \E s \in Session : Join(ip, s)
             \/ \E s \in Session, role \in Role :
                  \/ \E move \in OperatorRequests \cup HostActions : Act(s, role, move)
                  \/ IceConfig(s, role)
                  \/ Signal(s, role) \/ SignalLimited(s, role)
                  \/ ChatLimited(s, role)
                  \/ \E text \in Text : Chat(s, role, text)
             \/ \E s \in Session :
                  \/ InputDropped(s)
                  \/ \E sequence \in InputSequence : Input(s, sequence)
             \/ \E u \in Token : CloseEvents(u)
             \/ UNCHANGED vars
      PROVE  eventTokens[t] # NoGrant
  BY <1>5 DEF RequestLimited, JoinRefused, Join, Act, Step, IceConfig, Signal,
     SignalLimited, ChatLimited, Chat, InputDropped, Input, CloseEvents, vars
<1>. QED  BY <1>2, <1>3, <1>4, <1>5 DEF Next

LEMMA UsedOnce == Spec => []OneUse
<1>1. Init => OneUse
  BY DEF Init, OneUse
<1>2. TypeOK /\ OneUse /\ [Next]_vars => OneUse'
  <2>. SUFFICES ASSUME TypeOK, OneUse, [Next]_vars, NEW t \in Token,
                       eventTokens'[t] # NoGrant, streams'[t].phase = "open"
                PROVE  FALSE
    BY DEF OneUse
  <2>. USE DEF TypeOK
  <2>1. ASSUME NEW s \in Session, NEW role \in Role, IssueEventToken(s, role, t)
        PROVE  FALSE
    BY <2>1 DEF IssueEventToken, StreamsOK, NoStream
  <2>2. ASSUME NEW u \in Token, OpenEvents(u), \A s \in Session, role \in Role :
                 ~IssueEventToken(s, role, t)
        PROVE  FALSE
    <3>1. streams[t].phase # "open"
      BY <2>2, TokenAppears DEF OneUse
    <3>2. t # u
      BY <2>2, CurrentAreTokens DEF OpenEvents, TokensOK
    <3>. QED  BY <2>2, <3>1, <3>2 DEF OpenEvents
  <2>3. CASE /\ \A s \in Session, role \in Role : ~IssueEventToken(s, role, t)
             /\ \A u \in Token : ~OpenEvents(u)
    <3>1. streams[t].phase # "open"
      BY <2>3, TokenAppears DEF OneUse
    <3>2. CASE Next
      BY <2>3, <3>1, <3>2, OnlyEventsOpen
    <3>3. CASE UNCHANGED vars
      BY <3>1, <3>3 DEF vars
    <3>. QED  BY <3>2, <3>3
  <2>. QED  BY <2>1, <2>2, <2>3
<1>. QED  BY <1>1, <1>2, TypeCorrect, PTL DEF Spec

-----------------------------------------------------------------------------
(* What a step writes to a stream that stays open.                         *)

SameSubscriber(old, new) ==
  new.session = old.session /\ new.role = old.role

Relayed(t) ==
  /\ SameSubscriber(streams[t], streams'[t])
  /\ \/ streams'[t].signal = streams[t].signal
     \/ \E role \in Role : /\ Signal(streams[t].session, role)
                           /\ streams'[t].signal = NextSequence(streams[t].session)
  /\ \/ streams'[t].input = streams[t].input
     \/ \E sequence \in InputSequence :
          /\ Input(streams[t].session, sequence)
          /\ streams[t].role = "host" /\ streams'[t].input = sequence

LEMMA RelayStep ==
  ASSUME TypeOK, OneUse, [Next]_vars, NEW t \in Token,
         streams[t].phase = "open", streams'[t].phase = "open"
  PROVE  Relayed(t)
<1>. USE DEF TypeOK
<1>1. streams[t] \in Stream
  BY DEF StreamsOK
<1>2. CASE streams'[t] = streams[t]
  BY <1>2 DEF Relayed, SameSubscriber
<1>3. ASSUME NEW S, Release(S)
      PROVE  streams'[t] = streams[t]
  BY <1>3 DEF Release, CloseSubscribers, Hangup, NoStream
<1>4. ASSUME \/ \E ip \in Ip, s \in Session, code \in Code : CreateSession(ip, s, code)
             \/ \E ip \in Ip : CreateRefused(ip)
             \/ \E ip \in Ip, s \in Session : JoinLapsed(ip, s)
             \/ \E s \in Session : ExpireOnAccess(s)
             \/ \E s \in Session, role \in Role : End(s, role) \/ ReportAbuse(s, role)
             \/ \E s \in Session : FireExpiryTimer(s)
      PROVE  streams'[t] = streams[t]
  BY <1>3, <1>4 DEF CreateSession, CreateRefused, JoinLapsed, ExpireOnAccess, End,
     ReportAbuse, FireExpiryTimer, Expire
<1>5. ASSUME NEW s \in Session, Publish(s)
      PROVE  Relayed(t)
  <2>1. streams'[t] \in {streams[t], Snapshot(streams[t], sessions'[s])}
    BY <1>5 DEF Publish
  <2>. QED  BY <1>1, <2>1 DEF Snapshot, Stream, Relayed, SameSubscriber
<1>6. ASSUME \/ \E ip \in Ip, s \in Session : Join(ip, s)
             \/ \E s \in Session, role \in Role,
                   move \in OperatorRequests \cup HostActions : Act(s, role, move)
      PROVE  Relayed(t)
  BY <1>5, <1>6 DEF Join, Act, Step
<1>7. ASSUME \/ \E s \in Session, role \in Role, u \in Token : IssueEventToken(s, role, u)
             \/ \E u \in Token : CloseEvents(u)
      PROVE  streams'[t] = streams[t]
  BY <1>7, NoStreamIsStream DEF IssueEventToken, CloseEvents, StreamsOK
<1>8. ASSUME NEW u \in Token, OpenEvents(u)
      PROVE  streams'[t] = streams[t]
  <2>1. eventTokens[u] # NoGrant
    BY <1>8, CurrentAreTokens DEF OpenEvents
  <2>2. u # t
    BY <2>1 DEF OneUse
  <2>. QED  BY <1>8, <2>2 DEF OpenEvents
<1>9. ASSUME NEW s \in Session, NEW role \in Role, NEW text \in Text, Chat(s, role, text)
      PROVE  Relayed(t)
  <2>1. \/ streams'[t] = streams[t]
        \/ \E v : streams'[t] = [streams[t] EXCEPT !.chat = v]
    BY <1>9 DEF Chat, PublishChat
  <2>. QED  BY <1>1, <2>1 DEF Stream, Relayed, SameSubscriber
<1>10. ASSUME NEW s \in Session, NEW role \in Role, Signal(s, role)
       PROVE  Relayed(t)
  <2>1. CASE Subscribed(t, s) /\ streams[t].role = Other(role)
    <3>1. streams'[t] = [streams[t] EXCEPT !.signal = NextSequence(s)]
      BY <1>10, <2>1 DEF Signal, PublishSignal
    <3>2. /\ SameSubscriber(streams[t], streams'[t])
          /\ streams'[t].signal = NextSequence(s) /\ streams'[t].input = streams[t].input
      BY <1>1, <3>1 DEF Stream, SameSubscriber
    <3>. QED  BY <1>10, <2>1, <3>2 DEF Relayed, Subscribed
  <2>2. CASE ~(Subscribed(t, s) /\ streams[t].role = Other(role))
    BY <1>2, <1>10, <2>2 DEF Signal, PublishSignal
  <2>. QED  BY <2>1, <2>2
<1>11. ASSUME NEW s \in Session, NEW sequence \in InputSequence, Input(s, sequence)
       PROVE  Relayed(t)
  <2>1. CASE Subscribed(t, s) /\ streams[t].role = "host"
    <3>1. streams'[t] = [streams[t] EXCEPT !.input = sequence]
      BY <1>11, <2>1 DEF Input, PublishInput
    <3>2. /\ SameSubscriber(streams[t], streams'[t])
          /\ streams'[t].input = sequence /\ streams'[t].signal = streams[t].signal
      BY <1>1, <3>1 DEF Stream, SameSubscriber
    <3>. QED  BY <1>11, <2>1, <3>2 DEF Relayed, Subscribed
  <2>2. CASE ~(Subscribed(t, s) /\ streams[t].role = "host")
    BY <1>2, <1>11, <2>2 DEF Input, PublishInput
  <2>. QED  BY <2>1, <2>2
<1>12. ASSUME \/ EventsRefused
              \/ \E ip \in Ip : RequestLimited(ip) \/ JoinRefused(ip)
              \/ \E s \in Session, role \in Role :
                   \/ IceConfig(s, role) \/ TokenLimited(s, role)
                   \/ SignalLimited(s, role) \/ ChatLimited(s, role)
              \/ \E s \in Session : InputDropped(s) \/ FirePurgeTimer(s)
              \/ Tick
              \/ UNCHANGED vars
       PROVE  streams'[t] = streams[t]
  BY <1>12 DEF EventsRefused, RequestLimited, JoinRefused, IceConfig, TokenLimited,
     SignalLimited, ChatLimited, InputDropped, FirePurgeTimer, Tick, vars
<1>. QED
  BY <1>2, <1>4, <1>6, <1>7, <1>8, <1>9, <1>10, <1>11, <1>12 DEF Next

-----------------------------------------------------------------------------
(* The numbers of the signals and of the batches of input.                 *)

(* A live session never takes a number back, whatever is granted, revoked  *)
(* or ended in it.                                                         *)
LEMMA SequenceGrows ==
  ASSUME SessionsOK, NEW s \in Session, RecordStep(s), Live(s), Live(s)'
  PROVE  /\ sessions[s].signalSequence <= sessions'[s].signalSequence
         /\ sessions[s].lastInputSequence <= sessions'[s].lastInputSequence
<1>1. /\ RecordOK(sessions[s])
      /\ sessions[s].signalSequence \in Nat /\ sessions[s].lastInputSequence \in Int
  BY SessionsAreRecords, LastNumbers DEF SessionsOK
<1>2. {"SESSION_EXPIRED", "SESSION_ENDED", "ABUSE_REPORTED",
       "SESSION_ENDED_AFTER_ABUSE_REPORT", "TURN_CREDENTIAL_ISSUED"} \subseteq Event
  BY DEF Event, Leads, Neutral
<1>3. CASE Alike(sessions[s], sessions'[s])
  BY <1>3 DEF Alike
<1>4. ASSUME sessions'[s].state \in TerminalStates \cup {"ABSENT"}
      PROVE  FALSE
  BY <1>4 DEF Live, LiveStates, TerminalStates
<1>5. sessions'[s] # Absent
  BY <1>4 DEF Absent
<1>6. ASSUME \/ sessions'[s] = Terminated(sessions[s], "EXPIRED", "SESSION_EXPIRED")
             \/ sessions'[s] = Terminated(sessions[s], "ENDED", "SESSION_ENDED")
      PROVE  FALSE
  BY <1>1, <1>2, <1>4, <1>6, TerminatedFields DEF TerminalStates
<1>7. ASSUME sessions'[s] = Terminated(AddAudit(sessions[s], "ABUSE_REPORTED"), "ENDED",
                                       "SESSION_ENDED_AFTER_ABUSE_REPORT")
      PROVE  FALSE
  <2>1. RecordOK(AddAudit(sessions[s], "ABUSE_REPORTED"))
    BY <1>1, <1>2, AuditKeepsRecord
  <2>2. sessions'[s].state = "ENDED"
    BY <1>2, <1>7, <2>1, TerminatedFields
  <2>. QED  BY <1>4, <2>2 DEF TerminalStates
<1>8. CASE sessions'[s] = Joined(sessions[s])
  BY <1>1, <1>8, JoinedFields
<1>9. ASSUME NEW move \in OperatorRequests \cup HostActions,
             sessions'[s] = Moved(sessions[s], move.to, move.event)
      PROVE  /\ sessions'[s].signalSequence = sessions[s].signalSequence
             /\ sessions'[s].lastInputSequence = sessions[s].lastInputSequence
  BY <1>1, <1>9, MovesAreLive, MovedFields DEF Kept
<1>10. CASE sessions'[s] = AddAudit(sessions[s], "TURN_CREDENTIAL_ISSUED")
  BY <1>1, <1>2, <1>10, AuditFields DEF Kept
<1>11. ASSUME NEW ip \in Ip, NEW code \in Code, CreateSession(ip, s, code)
       PROVE  FALSE
  BY <1>11 DEF CreateSession, Unnamed, Present, Live, LiveStates
<1>. QED
  BY <1>1, <1>3, <1>5, <1>6, <1>7, <1>8, <1>9, <1>10, <1>11 DEF RecordStep

(* No stream was written a signal that its session has not numbered, or a  *)
(* batch beyond the last one that it has accepted.                         *)
Numbered ==
  \A t \in Token : streams[t].phase = "open" =>
    /\ streams[t].signal <= sessions[streams[t].session].signalSequence
    /\ streams[t].input <= sessions[streams[t].session].lastInputSequence

LEMMA NumbersAreInts ==
  ASSUME TypeOK, NEW t \in Token, NEW s \in Session, Live(s)
  PROVE  /\ streams[t].signal \in Int /\ sessions[s].signalSequence \in Int
         /\ streams[t].input \in Int /\ sessions[s].lastInputSequence \in Int
<1>1. streams[t] \in Stream /\ sessions[s] \in SessionRecord
  BY DEF TypeOK, StreamsOK, SessionsOK
<1>2. streams[t].signal \in Int /\ streams[t].input \in InputSequence \cup {-1}
  BY <1>1, Constants DEF Stream
<1>. QED  BY <1>1, <1>2, LastNumbers, Sequences

LEMMA NumberedAlways == Spec => []Numbered
<1>1. Init => Numbered
  BY DEF Init, Numbered, NoStream
<1>2. TypeOK /\ TypeOK' /\ Held /\ Held' /\ OneUse /\ Numbered /\ [Next]_vars => Numbered'
  <2>. SUFFICES ASSUME TypeOK, TypeOK', Held, Held', OneUse, Numbered, [Next]_vars,
                       NEW t \in Token, streams'[t].phase = "open",
                       NEW s \in Session, s = streams'[t].session
                PROVE  /\ streams'[t].signal <= sessions'[s].signalSequence
                       /\ streams'[t].input <= sessions'[s].lastInputSequence
    BY DEF Numbered, TypeOK, StreamsOK
  <2>1. Live(s)'
    <3>1. NothingOutlivesItsSession' /\ Subscribed(t, s)'
      BY DEF Held, Subscribed
    <3>. QED  BY <3>1 DEF NothingOutlivesItsSession
  <2>2. CASE streams[t].phase = "open"
    <3>1. Relayed(t) /\ streams[t].session = s
      BY <2>2, RelayStep DEF Relayed, SameSubscriber
    <3>2. Live(s)
      BY <2>2, <3>1, OpenOnLive DEF TypeOK
    <3>3. /\ sessions[s].signalSequence <= sessions'[s].signalSequence
          /\ sessions[s].lastInputSequence <= sessions'[s].lastInputSequence
      <4>1. RecordStep(s)
        BY EveryRecordSteps DEF TypeOK
      <4>. QED  BY <2>1, <3>2, <4>1, SequenceGrows DEF TypeOK
    <3>4. /\ streams[t].signal <= sessions[s].signalSequence
          /\ streams[t].input <= sessions[s].lastInputSequence
      BY <2>2, <3>1 DEF Numbered
    <3>5. /\ streams[t].signal \in Int /\ sessions[s].signalSequence \in Int
          /\ streams[t].input \in Int /\ sessions[s].lastInputSequence \in Int
      BY <3>2, NumbersAreInts
    <3>6. /\ sessions'[s].signalSequence \in Int /\ sessions'[s].lastInputSequence \in Int
      <4>1. sessions'[s] \in SessionRecord
        BY DEF TypeOK, SessionsOK
      <4>. QED  BY <4>1, LastNumbers
    <3>7. ASSUME NEW role \in Role, Signal(s, role), streams'[t].signal = NextSequence(s)
          PROVE  streams'[t].signal = sessions'[s].signalSequence
      BY <2>1, <3>7 DEF Signal, TypeOK, SessionsOK, SessionRecord
    <3>8. ASSUME NEW sequence \in InputSequence, Input(s, sequence), streams'[t].input = sequence
          PROVE  streams'[t].input = sessions'[s].lastInputSequence
      BY <2>1, <3>8 DEF Input, TypeOK, SessionsOK, SessionRecord
    <3>9. streams'[t].signal <= sessions'[s].signalSequence
      BY <3>1, <3>3, <3>4, <3>5, <3>6, <3>7 DEF Relayed
    <3>10. streams'[t].input <= sessions'[s].lastInputSequence
      BY <3>1, <3>3, <3>4, <3>5, <3>6, <3>8 DEF Relayed
    <3>. QED  BY <3>9, <3>10
  <2>3. CASE streams[t].phase # "open"
    <3>1. PICK u \in Token : OpenEvents(u)
      BY <2>3, OnlyEventsOpen DEF TypeOK, vars
    <3>2. streams' = [streams EXCEPT ![u] =
                        Opened(CurrentTokens[u], sessions[CurrentTokens[u].session])]
      BY <3>1 DEF OpenEvents
    <3>3. t = u
      BY <2>3, <3>2 DEF TypeOK, StreamsOK
    <3>4. streams'[t].signal = 0 /\ streams'[t].input = -1
      BY <3>2, <3>3 DEF TypeOK, StreamsOK, Opened, Snapshot, NoStream
    <3>5. sessions'[s] \in SessionRecord
      BY DEF TypeOK, SessionsOK
    <3>6. -1 <= sessions'[s].lastInputSequence /\ 0 <= sessions'[s].signalSequence
      BY <3>5, LastNumbers
    <3>. QED  BY <3>4, <3>6
  <2>. QED  BY <2>2, <2>3
<1>. QED  BY <1>1, <1>2, TypeCorrect, HeldAlways, UsedOnce, PTL DEF Spec

-----------------------------------------------------------------------------
(* What every stream may rely on.                                          *)

Background == TypeOK /\ Held /\ OneUse /\ Numbered /\ StreamsAreCurrent

LEMMA BackgroundAlways == Spec => []Background
BY TypeCorrect, HeldAlways, UsedOnce, NumberedAlways, StreamsCurrent, PTL DEF Background

(* Signals reach a subscriber in the order of their numbers, none twice,   *)
(* however many participants and reconnections there are.                  *)
THEOREM SignalsInOrder == Spec => SignalsArriveInOrder
<1>1. Background /\ [Next]_vars =>
        [\A t \in Token : (StillOpen(t) /\ streams'[t].signal # streams[t].signal)
           => streams'[t].signal > streams[t].signal]_vars
  <2>. SUFFICES ASSUME Background, Next, NEW t \in Token, StillOpen(t),
                       streams'[t].signal # streams[t].signal
                PROVE  streams'[t].signal > streams[t].signal
    OBVIOUS
  <2>. DEFINE s == streams[t].session
  <2>1. PICK role \in Role : Signal(s, role) /\ streams'[t].signal = NextSequence(s)
    BY RelayStep DEF StillOpen, Background, Relayed
  <2>2. /\ streams[t].signal \in Nat /\ sessions[s].signalSequence \in Nat
        /\ streams[t].signal <= sessions[s].signalSequence
    BY OpenOnLive, Constants DEF Background, StillOpen, Numbered, TypeOK, StreamsOK,
       Stream, SessionsOK, SessionRecord
  <2>. QED  BY <2>1, <2>2 DEF NextSequence
<1>. QED  BY <1>1, BackgroundAlways, PTL DEF Spec, SignalsArriveInOrder

(* Input reaches hosts only, and a stream that was written a batch is      *)
(* never written it again or an earlier one, however often control is      *)
(* revoked and granted in between: no grant starts the numbers anew.       *)
THEOREM InputInOrder == Spec => InputArrivesInOrder
<1>1. Background /\ [Next]_vars =>
        [\A t \in Token :
           /\ StillOpen(t) /\ streams'[t].input # streams[t].input
                => streams[t].role = "host"
           /\ \A s \in Session, sequence \in InputSequence :
                Subscribed(t, s) /\ streams[t].role = "host" /\ Input(s, sequence)
                  => sequence > streams[t].input]_vars
  <2>. SUFFICES ASSUME Background, Next, NEW t \in Token
                PROVE  /\ StillOpen(t) /\ streams'[t].input # streams[t].input
                            => streams[t].role = "host"
                       /\ \A s \in Session, sequence \in InputSequence :
                            Subscribed(t, s) /\ streams[t].role = "host" /\ Input(s, sequence)
                              => sequence > streams[t].input
    OBVIOUS
  <2>1. StillOpen(t) /\ streams'[t].input # streams[t].input => streams[t].role = "host"
    BY RelayStep DEF StillOpen, Background, Relayed
  <2>2. ASSUME NEW s \in Session, NEW sequence \in InputSequence,
               Subscribed(t, s), Input(s, sequence)
        PROVE  sequence > streams[t].input
    <3>1. streams[t].input <= sessions[s].lastInputSequence
      BY <2>2 DEF Background, Numbered, Subscribed
    <3>2. sequence > sessions[s].lastInputSequence /\ Live(s)
      BY <2>2 DEF Input, NewInput, Controllable, Authorized
    <3>3. streams[t].input \in Int /\ sessions[s].lastInputSequence \in Int /\ sequence \in Int
      BY <2>2, <3>2, NumbersAreInts, Sequences DEF Background
    <3>. QED  BY <3>1, <3>2, <3>3
  <2>. QED  BY <2>1, <2>2
<1>. QED  BY <1>1, BackgroundAlways, PTL DEF Spec, InputArrivesInOrder

(* A signal is written only to a stream whose last state shares the screen. *)
THEOREM SignalsUnderConsent == Spec => SignalsFollowConsent
<1>1. Background /\ [Next]_vars =>
        [\A t \in Token : (StillOpen(t) /\ streams'[t].signal # streams[t].signal)
           => /\ streams[t].state \in SharingStates
              /\ sessions[streams[t].session].expiresIn > 0]_vars
  <2>. SUFFICES ASSUME Background, Next, NEW t \in Token, StillOpen(t),
                       streams'[t].signal # streams[t].signal
                PROVE  /\ streams[t].state \in SharingStates
                       /\ sessions[streams[t].session].expiresIn > 0
    OBVIOUS
  <2>1. PICK role \in Role : Signal(streams[t].session, role)
    BY RelayStep DEF StillOpen, Background, Relayed
  <2>2. streams[t].state = sessions[streams[t].session].state
    BY DEF Background, StreamsAreCurrent, StillOpen
  <2>. QED  BY <2>1, <2>2 DEF Signal, Signallable, Authorized
<1>. QED  BY <1>1, BackgroundAlways, PTL DEF Spec, SignalsFollowConsent

(* Input is written to a host only between the grant of control and the    *)
(* end of it, as its own stream shows them.                                *)
THEOREM InputUnderConsent == Spec => InputFollowsConsent
<1>1. Background /\ [Next]_vars =>
        [\A t \in Token : (StillOpen(t) /\ streams'[t].input # streams[t].input)
           => /\ streams[t].state = "CONTROL_ACTIVE"
              /\ sessions[streams[t].session].expiresIn > 0]_vars
  <2>. SUFFICES ASSUME Background, Next, NEW t \in Token, StillOpen(t),
                       streams'[t].input # streams[t].input
                PROVE  /\ streams[t].state = "CONTROL_ACTIVE"
                       /\ sessions[streams[t].session].expiresIn > 0
    OBVIOUS
  <2>1. PICK sequence \in InputSequence : Input(streams[t].session, sequence)
    BY RelayStep DEF StillOpen, Background, Relayed
  <2>2. streams[t].state = sessions[streams[t].session].state
    BY DEF Background, StreamsAreCurrent, StillOpen
  <2>. QED  BY <2>1, <2>2 DEF Input, Controllable, Authorized
<1>. QED  BY <1>1, BackgroundAlways, PTL DEF Spec, InputFollowsConsent
=============================================================================
