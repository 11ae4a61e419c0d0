---------------------------- MODULE SessionProofs ----------------------------
(***************************************************************************)
(* Proofs about the sessions of the portal: its trail, its code, its       *)
(* host, the load of an address, the TURN credentials and its life, for    *)
(* every value of the constants.                                           *)
(***************************************************************************)
EXTENDS PortalProofs, FiniteSetTheorems

-----------------------------------------------------------------------------
(* What the helpers leave of a record.                                     *)

(* The new list is the old one without its k oldest entries, and the entry. *)
Shifted(old, new, entry) ==
  \E k \in 0 .. Len(old) :
    /\ Len(new) = Len(old) - k + 1
    /\ \A i \in 1 .. Len(old) - k : new[i] = old[i + k]
    /\ new[Len(old) - k + 1] = entry

LEMMA PushShifts ==
  ASSUME NEW S, NEW log \in Seq(S), NEW entry \in S, NEW max \in Nat \ {0},
         Len(log) <= max
  PROVE  Shifted(log, Push(log, entry, max), entry)
<1>1. CASE Len(log) < max
  <2>1. /\ Len(Push(log, entry, max)) = Len(log) + 1
        /\ \A i \in 1 .. Len(log) : Push(log, entry, max)[i] = log[i]
        /\ Push(log, entry, max)[Len(log) + 1] = entry
    BY <1>1 DEF Push
  <2>2. 0 \in 0 .. Len(log) /\ \A i \in 1 .. Len(log) - 0 : i + 0 = i
    OBVIOUS
  <2>. QED  BY <2>1, <2>2 DEF Shifted
<1>2. CASE ~(Len(log) < max)
  <2>1. Len(log) = max
    BY <1>2
  <2>. DEFINE rest == SubSeq(log, 2, Len(log))
  <2>2. /\ rest \in Seq(S) /\ Len(rest) = Len(log) - 1
        /\ \A i \in 1 .. Len(log) - 1 : rest[i] = log[i + 1]
    BY <2>1
  <2>3. Push(log, entry, max) = Append(rest, entry)
    BY <1>2, <2>1 DEF Push
  <2>. HIDE DEF rest
  <2>4. /\ Len(Push(log, entry, max)) = Len(log) - 1 + 1
        /\ \A i \in 1 .. Len(log) - 1 : Push(log, entry, max)[i] = log[i + 1]
        /\ Push(log, entry, max)[Len(log) - 1 + 1] = entry
    BY <2>1, <2>2, <2>3
  <2>5. 1 \in 0 .. Len(log)
    BY <2>1
  <2>. QED  BY <2>4, <2>5 DEF Shifted
<1>. QED  BY <1>1, <1>2

(* What no helper changes but those that say so.                           *)
Kept(old, new) ==
  /\ new.ip = old.ip /\ new.code = old.code
  /\ new.hostToken = old.hostToken /\ new.expiresIn = old.expiresIn
  /\ new.signalSequence = old.signalSequence
  /\ new.lastInputSequence = old.lastInputSequence

LEMMA AuditFields ==
  ASSUME NEW record, RecordOK(record), NEW event \in Event
  PROVE  /\ Kept(record, AddAudit(record, event))
         /\ AddAudit(record, event).state = record.state
         /\ AddAudit(record, event).audit = Push(record.audit, event, MAX_AUDIT)
BY DEF RecordOK, SessionRecord, AddAudit, Kept

LEMMA MovedFields ==
  ASSUME NEW record, RecordOK(record), NEW event \in Event, NEW state
  PROVE  /\ Kept(record, Moved(record, state, event))
         /\ Moved(record, state, event).state = state
         /\ Moved(record, state, event).audit = Push(record.audit, event, MAX_AUDIT)
BY DEF RecordOK, SessionRecord, AddAudit, Moved, Kept

LEMMA TerminatedFields ==
  ASSUME NEW record, RecordOK(record), NEW event \in Event, NEW state
  PROVE  /\ Kept(record, Terminated(record, state, event))
         /\ Terminated(record, state, event).state = state
         /\ Terminated(record, state, event).audit =
              Push(record.audit, event, MAX_AUDIT)
<1>. DEFINE moved == Moved(record, state, event)
<1>1. Terminated(record, state, event) =
        [moved EXCEPT !.expiryTimer = FALSE, !.purgeIn = RETENTION]
  BY DEF Terminated
<1>2. DOMAIN moved = DOMAIN record /\ {"ip", "code", "hostToken", "expiresIn", "state", "audit",
                                   "signalSequence", "lastInputSequence"}
        \subseteq DOMAIN record
  BY DEF Moved, AddAudit, RecordOK, SessionRecord
<1>3. /\ Kept(record, moved) /\ moved.state = state
      /\ moved.audit = Push(record.audit, event, MAX_AUDIT)
  BY MovedFields
<1>. HIDE DEF moved
<1>. QED  BY <1>1, <1>2, <1>3 DEF Kept

LEMMA JoinedFields ==
  ASSUME NEW record, RecordOK(record)
  PROVE  /\ Joined(record).ip = record.ip /\ Joined(record).code = record.code
         /\ Joined(record).signalSequence = record.signalSequence
         /\ Joined(record).lastInputSequence = record.lastInputSequence
         /\ Joined(record).expiresIn = record.expiresIn
         /\ Joined(record).state = "HOST_JOINED"
         /\ Joined(record).audit = Push(record.audit, "HOST_JOINED", MAX_AUDIT)
BY DEF RecordOK, SessionRecord, AddAudit, Moved, Joined

LEMMA NewFields ==
  ASSUME NEW ip \in Ip, NEW code \in Code
  PROVE  /\ NewSession(ip, code).ip = ip /\ NewSession(ip, code).code = code
         /\ NewSession(ip, code).state = "CREATED"
         /\ ~NewSession(ip, code).hostToken
         /\ NewSession(ip, code).audit = <<"SESSION_CREATED">>
         /\ NewSession(ip, code).expiresIn = SESSION_TTL
<1>1. Push(<<>>, "SESSION_CREATED", MAX_AUDIT) = <<"SESSION_CREATED">>
  BY Constants DEF Push
<1>. QED  BY <1>1 DEF NewSession, Absent

-----------------------------------------------------------------------------
(* What a step makes of one record.                                        *)

(* Nothing that tells, beyond the time that passed and what was relayed.   *)
Alike(old, new) ==
  /\ old.signalSequence <= new.signalSequence
  /\ old.lastInputSequence <= new.lastInputSequence
  /\ new.ip = old.ip /\ new.code = old.code /\ new.hostToken = old.hostToken
  /\ new.state = old.state /\ new.audit = old.audit
  /\ \/ new.expiresIn = old.expiresIn /\ new.purgeIn = old.purgeIn
     \/ /\ Tick
        /\ new.expiresIn = Less(old.expiresIn) /\ new.purgeIn = Less(old.purgeIn)
  /\ \/ new.expiryTimer = old.expiryTimer
     \/ old.expiresIn \in 1 .. TIMER_SLACK /\ new.expiresIn = old.expiresIn

RecordStep(s) ==
  \/ Alike(sessions[s], sessions'[s])
  \/ Terminal(s) /\ sessions[s].purgeIn = 0 /\ sessions'[s] = Absent
  \/ Live(s) /\ sessions'[s] = Terminated(sessions[s], "EXPIRED", "SESSION_EXPIRED")
  \/ Live(s) /\ sessions'[s] = Terminated(sessions[s], "ENDED", "SESSION_ENDED")
  \/ Live(s) /\ sessions'[s] = Terminated(AddAudit(sessions[s], "ABUSE_REPORTED"), "ENDED",
                                          "SESSION_ENDED_AFTER_ABUSE_REPORT")
  \/ sessions[s].state = "CREATED" /\ sessions'[s] = Joined(sessions[s])
  \/ \E move \in OperatorRequests \cup HostActions :
       sessions[s].state \in move.from /\ sessions'[s] = Moved(sessions[s], move.to, move.event)
  \/ Live(s) /\ sessions'[s] = AddAudit(sessions[s], "TURN_CREDENTIAL_ISSUED")
  \/ \E ip \in Ip, code \in Code :
       CreateSession(ip, s, code) /\ sessions'[s] = NewSession(ip, code)

LEMMA Sequences ==
  ASSUME NEW v \in InputSequence \cup {-1}
  PROVE  v \in Int /\ -1 <= v
BY LimitsAssumption

LEMMA LastNumbers ==
  ASSUME NEW record \in SessionRecord
  PROVE  /\ record.lastInputSequence \in Int /\ -1 <= record.lastInputSequence
         /\ record.signalSequence \in Nat
<1>1. record.lastInputSequence \in InputSequence \cup {-1}
  BY DEF SessionRecord
<1>2. record.signalSequence \in Nat
  BY Constants DEF SessionRecord
<1>. QED  BY <1>1, <1>2, Sequences

LEMMA AlikeItself ==
  ASSUME SessionsOK, NEW s \in Session
  PROVE  Alike(sessions[s], sessions[s])
<1>1. sessions[s].signalSequence \in Nat /\ sessions[s].lastInputSequence \in Int
  BY LastNumbers DEF SessionsOK
<1>. QED  BY <1>1 DEF Alike

LEMMA ExpireStepsRecords ==
  ASSUME SessionsOK, NEW S \in SUBSET Session, \A s \in S : Live(s), Expire(S),
         NEW s \in Session
  PROVE  RecordStep(s)
<1>1. sessions'[s] = IF s \in S THEN Terminated(sessions[s], "EXPIRED", "SESSION_EXPIRED")
                                ELSE sessions[s]
  BY DEF Expire, Expired
<1>. QED  BY <1>1, AlikeItself DEF RecordStep

LEMMA OneRecordSteps ==
  ASSUME SessionsOK, NEW s \in Session, NEW record,
         sessions' = [sessions EXCEPT ![s] = record],
         sessions'[s] = record => RecordStep(s)
  PROVE  \A x \in Session : RecordStep(x)
<1>1. sessions'[s] = record /\ \A x \in Session \ {s} : sessions'[x] = sessions[x]
  BY DEF SessionsOK
<1>. QED  BY <1>1, AlikeItself DEF RecordStep

LEMMA EveryRecordSteps ==
  ASSUME SessionsOK, Held, [Next]_vars
  PROVE  \A s \in Session : RecordStep(s)
<1>1. CASE sessions' = sessions
  BY <1>1, AlikeItself DEF RecordStep
<1>2. ASSUME NEW ip \in Ip, NEW s \in Session, NEW code \in Code,
             CreateSession(ip, s, code), NEW x \in Session
      PROVE  RecordStep(x)
  <2>1. CASE x = s
    BY <1>2, <2>1, CreationExpires DEF RecordStep
  <2>2. CASE x # s
    <3>1. sessions'[x] = Expired(LapsedSessions)[x]
      BY <1>2, <2>2 DEF CreateSession, Expired
    <3>2. CASE x \in LapsedSessions
      BY <3>1, <3>2 DEF Expired, LapsedSessions, Lapsed, RecordStep
    <3>3. CASE x \notin LapsedSessions
      BY <3>1, <3>3, AlikeItself DEF Expired, RecordStep
    <3>. QED  BY <3>2, <3>3
  <2>. QED  BY <2>1, <2>2
<1>3. ASSUME \/ \E ip \in Ip : CreateRefused(ip)
             \/ \E ip \in Ip, s \in Session : JoinLapsed(ip, s)
             \/ \E s \in Session : ExpireOnAccess(s)
      PROVE  \A s \in Session : RecordStep(s)
  BY <1>3, ExpireStepsRecords
  DEF CreateRefused, JoinLapsed, ExpireOnAccess, LapsedSessions, Lapsed
<1>4. ASSUME NEW ip \in Ip, NEW s \in Session, Join(ip, s)
      PROVE  \A x \in Session : RecordStep(x)
  BY <1>4, OneRecordSteps DEF Join, Joinable, RecordStep
<1>5. ASSUME NEW s \in Session, NEW role \in Role,
             NEW move \in OperatorRequests \cup HostActions, Act(s, role, move)
      PROVE  \A x \in Session : RecordStep(x)
  BY <1>5, OneRecordSteps DEF Act, Step, RecordStep
<1>6. ASSUME NEW s \in Session, NEW role \in Role,
             End(s, role) \/ ReportAbuse(s, role) \/ IceConfig(s, role)
      PROVE  \A x \in Session : RecordStep(x)
  <2>1. Live(s)
    BY <1>6 DEF End, ReportAbuse, IceConfig, Authorized
  <2>. QED  BY <1>6, <2>1, OneRecordSteps DEF End, ReportAbuse, IceConfig, RecordStep
<1>7. ASSUME NEW s \in Session,
             \/ \E role \in Role : Signal(s, role)
             \/ \E role \in Role, text \in Text : Chat(s, role, text)
             \/ \E sequence \in InputSequence : Input(s, sequence)
      PROVE  \A x \in Session : RecordStep(x)
  <2>1. sessions[s] \in SessionRecord
    BY DEF SessionsOK
  <2>2. PICK record :
          /\ sessions' = [sessions EXCEPT ![s] = record]
          /\ \/ record = [sessions[s] EXCEPT !.signalSequence = NextSequence(s)]
             \/ \E v : record = [sessions[s] EXCEPT !.chat = v]
             \/ \E v : /\ sessions[s].lastInputSequence <= v
                      /\ record = [sessions[s] EXCEPT !.lastInputSequence = v]
    <3>1. \A v \in InputSequence : NewInput(s, v) => sessions[s].lastInputSequence <= v
      BY <2>1, LastNumbers, Sequences DEF NewInput
    <3>. QED  BY <1>7, <3>1 DEF Signal, Chat, Input
  <2>3. /\ sessions[s].signalSequence \in Nat /\ sessions[s].lastInputSequence \in Int
        /\ sessions[s].signalSequence <= NextSequence(s)
    BY <2>1, LastNumbers DEF NextSequence
  <2>4. Alike(sessions[s], record)
    BY <2>1, <2>2, <2>3 DEF SessionRecord, Alike
  <2>. QED  BY <2>2, <2>4, OneRecordSteps DEF RecordStep
<1>8. ASSUME NEW s \in Session, FireExpiryTimer(s)
      PROVE  \A x \in Session : RecordStep(x)
  <2>1. Live(s)
    BY <1>8, HeldBare DEF FireExpiryTimer
  <2>2. CASE sessions[s].expiresIn = 0
    BY <1>8, <2>1, <2>2, ExpireStepsRecords DEF FireExpiryTimer
  <2>3. CASE sessions[s].expiresIn # 0
    <3>. DEFINE record == [sessions[s] EXCEPT !.expiryTimer = FALSE]
    <3>1. Alike(sessions[s], record)
      <4>1. /\ sessions[s] \in SessionRecord /\ Alike(sessions[s], sessions[s])
            /\ sessions[s].expiresIn <= TIMER_SLACK
        BY <1>8, AlikeItself DEF FireExpiryTimer, SessionsOK
      <4>2. /\ \A field \in DOMAIN record \ {"expiryTimer"} : record[field] = sessions[s][field]
            /\ DOMAIN record = DOMAIN sessions[s]
            /\ sessions[s].expiresIn \in 1 .. TIMER_SLACK
        BY <2>3, <4>1, Constants DEF SessionRecord
      <4>. HIDE DEF record
      <4>3. /\ record.signalSequence = sessions[s].signalSequence /\ record.ip = sessions[s].ip
            /\ record.lastInputSequence = sessions[s].lastInputSequence
            /\ record.code = sessions[s].code /\ record.hostToken = sessions[s].hostToken
            /\ record.state = sessions[s].state /\ record.audit = sessions[s].audit
            /\ record.expiresIn = sessions[s].expiresIn
            /\ record.purgeIn = sessions[s].purgeIn
        BY <4>1, <4>2 DEF SessionRecord
      <4>. QED  BY <4>1, <4>2, <4>3 DEF Alike
    <3>2. sessions' = [sessions EXCEPT ![s] = record]
      BY <1>8, <2>3 DEF FireExpiryTimer
    <3>. QED  BY <3>1, <3>2, OneRecordSteps DEF RecordStep
  <2>. QED  BY <2>2, <2>3
<1>9. ASSUME NEW s \in Session, FirePurgeTimer(s)
      PROVE  \A x \in Session : RecordStep(x)
  BY <1>9, OneRecordSteps DEF FirePurgeTimer, Purgeable, RecordStep
<1>10. CASE Tick
  <2>1. ASSUME NEW s \in Session
        PROVE  Alike(sessions[s], sessions'[s])
    <3>1. /\ sessions[s] \in SessionRecord /\ Alike(sessions[s], sessions[s])
          /\ sessions'[s] = [sessions[s] EXCEPT !.expiresIn = Less(@), !.purgeIn = Less(@)]
      BY <1>10, AlikeItself DEF Tick, SessionsOK
    <3>. QED  BY <1>10, <3>1 DEF SessionRecord, Alike
  <2>. QED  BY <2>1 DEF RecordStep
<1>11. ASSUME \/ EventsRefused
              \/ \E ip \in Ip : RequestLimited(ip) \/ JoinRefused(ip)
              \/ \E s \in Session, role \in Role :
                   \/ TokenLimited(s, role) \/ SignalLimited(s, role)
                   \/ ChatLimited(s, role)
                   \/ \E t \in Token : IssueEventToken(s, role, t)
              \/ \E s \in Session : InputDropped(s)
              \/ \E t \in Token : OpenEvents(t) \/ CloseEvents(t)
              \/ UNCHANGED vars
       PROVE  sessions' = sessions
  BY <1>11 DEF EventsRefused, RequestLimited, JoinRefused, TokenLimited,
       SignalLimited, ChatLimited, IssueEventToken, InputDropped, OpenEvents,
       CloseEvents, vars
<1>. QED
  BY <1>1, <1>2, <1>3, <1>4, <1>5, <1>6, <1>7, <1>8, <1>9, <1>10, <1>11 DEF Next

(* A record that is not new keeps its code and its address until it is     *)
(* purged, and no session comes to life again.                             *)
LEMMA Identity ==
  ASSUME SessionsOK, NEW s \in Session, RecordStep(s)
  PROVE  \/ \E ip \in Ip, code \in Code :
              CreateSession(ip, s, code) /\ sessions'[s] = NewSession(ip, code)
         \/ sessions'[s] = Absent
         \/ /\ sessions'[s].code = sessions[s].code /\ sessions'[s].ip = sessions[s].ip
            /\ Present(s)' <=> Present(s)
            /\ Live(s)' => Live(s)
            /\ sessions'[s].expiresIn = sessions[s].expiresIn \/ Tick
<1>1. RecordOK(sessions[s])
  BY SessionsAreRecords
<1>2. {"SESSION_EXPIRED", "SESSION_ENDED", "ABUSE_REPORTED",
       "SESSION_ENDED_AFTER_ABUSE_REPORT", "TURN_CREDENTIAL_ISSUED"} \subseteq Event
  BY DEF Event, Leads, Neutral
<1>3. CASE Alike(sessions[s], sessions'[s])
  BY <1>3 DEF Alike, Present, Live
<1>4. CASE \/ Live(s) /\ sessions'[s] = Terminated(sessions[s], "EXPIRED", "SESSION_EXPIRED")
           \/ Live(s) /\ sessions'[s] = Terminated(sessions[s], "ENDED", "SESSION_ENDED")
  <2>1. Kept(sessions[s], sessions'[s]) /\ sessions'[s].state \in {"EXPIRED", "ENDED"}
    BY <1>1, <1>2, <1>4, TerminatedFields
  <2>. QED  BY <1>4, <2>1 DEF Kept, Present, Live, LiveStates
<1>5. CASE Live(s) /\ sessions'[s] = Terminated(AddAudit(sessions[s], "ABUSE_REPORTED"), "ENDED",
                                                "SESSION_ENDED_AFTER_ABUSE_REPORT")
  <2>. DEFINE reported == AddAudit(sessions[s], "ABUSE_REPORTED")
  <2>1. RecordOK(reported) /\ Kept(sessions[s], reported)
    BY <1>1, <1>2, AuditKeepsRecord, AuditFields
  <2>. HIDE DEF reported
  <2>2. sessions'[s] = Terminated(reported, "ENDED", "SESSION_ENDED_AFTER_ABUSE_REPORT")
    BY <1>5 DEF reported
  <2>3. Kept(reported, sessions'[s]) /\ sessions'[s].state = "ENDED"
    BY <1>2, <2>1, <2>2, TerminatedFields
  <2>. QED  BY <1>5, <2>1, <2>3 DEF Kept, Present, Live, LiveStates
<1>6. CASE sessions[s].state = "CREATED" /\ sessions'[s] = Joined(sessions[s])
  BY <1>1, <1>6, JoinedFields DEF Present, Live, LiveStates
<1>7. ASSUME NEW move \in OperatorRequests \cup HostActions, sessions[s].state \in move.from,
             sessions'[s] = Moved(sessions[s], move.to, move.event)
      PROVE  /\ sessions'[s].code = sessions[s].code /\ sessions'[s].ip = sessions[s].ip
             /\ Present(s)' <=> Present(s)
             /\ Live(s)' => Live(s)
             /\ sessions'[s].expiresIn = sessions[s].expiresIn
  <2>1. Kept(sessions[s], sessions'[s]) /\ sessions'[s].state = move.to
    BY <1>1, <1>7, MovesAreLive, MovedFields
  <2>. QED  BY <1>7, <2>1, MovesAreLive DEF Kept, Present, Live, LiveStates
<1>8. CASE Live(s) /\ sessions'[s] = AddAudit(sessions[s], "TURN_CREDENTIAL_ISSUED")
  BY <1>1, <1>2, <1>8, AuditFields DEF Kept, Present, Live
<1>. QED  BY <1>3, <1>4, <1>5, <1>6, <1>7, <1>8 DEF RecordStep

LEMMA Identities ==
  ASSUME SessionsOK, Held, [Next]_vars, NEW s \in Session
  PROVE  \/ \E ip \in Ip, code \in Code :
              CreateSession(ip, s, code) /\ sessions'[s] = NewSession(ip, code)
         \/ ~Present(s)' /\ ~Live(s)'
         \/ /\ sessions'[s].code = sessions[s].code /\ sessions'[s].ip = sessions[s].ip
            /\ Present(s)' <=> Present(s)
            /\ Live(s)' => Live(s)
            /\ sessions'[s].expiresIn = sessions[s].expiresIn \/ Tick
<1>1. RecordStep(s)
  BY EveryRecordSteps
<1>2. Absent.state = "ABSENT"
  BY DEF Absent
<1>. QED  BY <1>1, <1>2, Identity DEF Present, Live, LiveStates

(* Only one session is created in a step.                                  *)
LEMMA OneCreated ==
  ASSUME SessionsOK, NEW ip \in Ip, NEW code \in Code, NEW s \in Session,
         CreateSession(ip, s, code), NEW x \in Session, x # s
  PROVE  /\ sessions'[x].code = sessions[x].code /\ sessions'[x].ip = sessions[x].ip
         /\ Present(x)' <=> Present(x)
         /\ Live(x)' => x \in Session \ LapsedSessions /\ Live(x)
<1>1. sessions'[x] = Expired(LapsedSessions)[x]
  BY DEF CreateSession, Expired
<1>2. CASE x \notin LapsedSessions
  <2>1. sessions'[x] = sessions[x]
    BY <1>1, <1>2 DEF Expired
  <2>. QED  BY <1>2, <2>1 DEF Present, Live
<1>3. CASE x \in LapsedSessions
  <2>1. sessions'[x] = Terminated(sessions[x], "EXPIRED", "SESSION_EXPIRED")
    BY <1>1, <1>3 DEF Expired
  <2>2. RecordOK(sessions[x]) /\ "SESSION_EXPIRED" \in Event
    BY SessionsAreRecords DEF Event, Leads
  <2>3. Kept(sessions[x], sessions'[x]) /\ sessions'[x].state = "EXPIRED"
    BY <2>1, <2>2, TerminatedFields
  <2>. QED  BY <1>3, <2>3 DEF Kept, Present, Live, LiveStates, LapsedSessions, Lapsed
<1>. QED  BY <1>2, <1>3

(* A code that a host types names one record, among any number of codes    *)
(* and of sessions whose records are still kept.                           *)
THEOREM UniqueCodes == Spec => []CodesAreUnique
<1>1. Init => CodesAreUnique
  BY DEF Init, CodesAreUnique, Present, Absent
<1>2. TypeOK /\ Held /\ CodesAreUnique /\ [Next]_vars => CodesAreUnique'
  <2>. SUFFICES ASSUME SessionsOK, Held, CodesAreUnique, [Next]_vars,
                       NEW s1 \in Session, NEW s2 \in Session,
                       Present(s1)', Present(s2)', s1 # s2
                PROVE  sessions'[s1].code # sessions'[s2].code
    BY DEF CodesAreUnique, TypeOK
  <2>1. ASSUME NEW ip \in Ip, NEW code \in Code, NEW s \in Session, NEW x \in Session,
               CreateSession(ip, s, code), sessions'[s] = NewSession(ip, code),
               x # s, Present(x)'
        PROVE  sessions'[s].code # sessions'[x].code
    <3>1. sessions'[s].code = code
      BY <2>1, NewFields
    <3>2. Present(x) /\ sessions'[x].code = sessions[x].code
      BY <2>1, OneCreated
    <3>3. sessions[x].code # code
      BY <2>1, <3>2 DEF CreateSession, Used
    <3>. QED  BY <3>1, <3>2, <3>3
  <2>2. CASE \E ip \in Ip, code \in Code :
               CreateSession(ip, s1, code) /\ sessions'[s1] = NewSession(ip, code)
    BY <2>1, <2>2
  <2>3. CASE \E ip \in Ip, code \in Code :
               CreateSession(ip, s2, code) /\ sessions'[s2] = NewSession(ip, code)
    BY <2>1, <2>3
  <2>4. CASE /\ sessions'[s1].code = sessions[s1].code /\ Present(s1)
             /\ sessions'[s2].code = sessions[s2].code /\ Present(s2)
    BY <2>4 DEF CodesAreUnique
  <2>. QED  BY <2>2, <2>3, <2>4, Identities
<1>. QED  BY <1>1, <1>2, TypeCorrect, HeldAlways, PTL DEF Spec

(* No TURN credential is valid beyond the expiry of its session, whenever  *)
(* it is minted and however often.                                         *)
THEOREM TurnEnds == Spec => []TurnEndsByExpiry
<1>1. Init => TurnEndsByExpiry
  BY DEF Init, TurnEndsByExpiry, Present, Absent
<1>2. TypeOK /\ Held /\ TurnEndsByExpiry /\ [Next]_vars => TurnEndsByExpiry'
  <2>. SUFFICES ASSUME TypeOK, Held, TurnEndsByExpiry, [Next]_vars,
                       NEW s \in Session, Present(s)'
                PROVE  turn'[s] <= sessions'[s].expiresIn
    BY DEF TurnEndsByExpiry
  <2>1. /\ turn[s] \in Nat /\ sessions[s].expiresIn \in Nat /\ SessionsOK
        /\ DOMAIN turn = Session
    BY Constants DEF TypeOK, SessionsOK, SessionRecord
  <2>2. CASE turn' = turn /\ sessions'[s].expiresIn = sessions[s].expiresIn /\ Present(s)
    BY <2>1, <2>2 DEF TurnEndsByExpiry
  <2>3. CASE \E ip \in Ip, code \in Code :
               CreateSession(ip, s, code) /\ sessions'[s] = NewSession(ip, code)
    <3>1. turn'[s] = 0 /\ sessions'[s].expiresIn = SESSION_TTL
      BY <2>3, NewFields DEF CreateSession, external, Unnamed
    <3>. QED  BY <3>1, Constants
  <2>4. CASE Tick
    <3>1. turn'[s] = Less(turn[s]) /\ sessions'[s].expiresIn = Less(sessions[s].expiresIn)
          /\ sessions'[s].state = sessions[s].state
      BY <2>4 DEF Tick, TypeOK, SessionsOK, SessionRecord
    <3>2. turn[s] <= sessions[s].expiresIn
      BY <3>1 DEF TurnEndsByExpiry, Present
    <3>. QED  BY <2>1, <3>1, <3>2 DEF Less
  <2>5. ASSUME NEW x \in Session, NEW role \in Role, IceConfig(x, role)
        PROVE  turn'[s] <= sessions'[s].expiresIn
    <3>1. sessions'[s].state = sessions[s].state /\ sessions'[s].expiresIn = sessions[s].expiresIn
      BY <2>5 DEF IceConfig, AddAudit, TypeOK, SessionsOK, SessionRecord
    <3>2. turn'[s] = turn[s] \/ turn'[s] = TurnLife(s)
      BY <2>1, <2>5 DEF IceConfig
    <3>3. TurnLife(s) <= sessions[s].expiresIn
      BY <2>1, Constants DEF TurnLife, Lesser
    <3>4. turn[s] <= sessions[s].expiresIn
      BY <3>1 DEF TurnEndsByExpiry, Present
    <3>. QED  BY <2>1, <3>1, <3>2, <3>3, <3>4
  <2>6. \/ turn' = turn \/ Tick
        \/ \E x \in Session, role \in Role : IceConfig(x, role)
    <3>1. ASSUME NEW ip \in Ip,
                 \/ RequestLimited(ip) \/ CreateRefused(ip) \/ JoinRefused(ip)
                 \/ \E x \in Session : Join(ip, x) \/ JoinLapsed(ip, x)
                 \/ \E x \in Session, code \in Code : CreateSession(ip, x, code)
          PROVE  turn' = turn
      BY <3>1 DEF RequestLimited, CreateRefused, JoinRefused, Join, JoinLapsed,
         CreateSession, Expire, external
    <3>2. ASSUME NEW x \in Session, NEW role \in Role,
                 \/ \E move \in OperatorRequests \cup HostActions : Act(x, role, move)
                 \/ End(x, role) \/ ReportAbuse(x, role)
                 \/ \E t \in Token : IssueEventToken(x, role, t)
                 \/ TokenLimited(x, role)
                 \/ Signal(x, role) \/ SignalLimited(x, role)
                 \/ \E text \in Text : Chat(x, role, text)
                 \/ ChatLimited(x, role)
          PROVE  turn' = turn
      BY <3>2 DEF Act, Step, End, ReportAbuse, IssueEventToken, TokenLimited, Signal,
         SignalLimited, Chat, ChatLimited, external
    <3>3. ASSUME NEW x \in Session,
                 \/ ExpireOnAccess(x)
                 \/ \E sequence \in InputSequence : Input(x, sequence)
                 \/ InputDropped(x) \/ FireExpiryTimer(x) \/ FirePurgeTimer(x)
          PROVE  turn' = turn
      BY <3>3 DEF ExpireOnAccess, Input, InputDropped, FireExpiryTimer, FirePurgeTimer,
         Expire, external
    <3>4. ASSUME (\E t \in Token : OpenEvents(t) \/ CloseEvents(t)) \/ EventsRefused
                   \/ UNCHANGED vars
          PROVE  turn' = turn
      BY <3>4 DEF OpenEvents, CloseEvents, EventsRefused, external, vars
    <3>. QED  BY <3>1, <3>2, <3>3, <3>4 DEF Next
  <2>. QED  BY <2>1, <2>2, <2>3, <2>4, <2>5, <2>6, Identities
<1>. QED  BY <1>1, <1>2, TypeCorrect, HeldAlways, PTL DEF Spec

LiveFrom(ip) == {s \in Session : Live(s) /\ sessions[s].ip = ip}

Capped ==
  \A ip \in Ip : IsFiniteSet(LiveFrom(ip)) /\ Cardinality(LiveFrom(ip)) <= MAX_ACTIVE

(* No address ever holds more than its share of live sessions, whichever   *)
(* of them expired, unnoticed or not, before it created the next.          *)
THEOREM LoadCapped == Spec => []ActiveSessionsCapped
<1>1. Init => Capped
  <2>. SUFFICES ASSUME Init, NEW ip \in Ip
                PROVE  IsFiniteSet(LiveFrom(ip)) /\ Cardinality(LiveFrom(ip)) <= MAX_ACTIVE
    BY DEF Capped
  <2>1. LiveFrom(ip) = {}
    BY DEF Init, LiveFrom, Live, LiveStates, Absent
  <2>. QED  BY <2>1, FS_EmptySet, Constants
<1>2. TypeOK /\ Held /\ Capped /\ [Next]_vars => Capped'
  <2>. SUFFICES ASSUME SessionsOK, Held, Capped, [Next]_vars, NEW ip \in Ip
                PROVE  IsFiniteSet(LiveFrom(ip)') /\ Cardinality(LiveFrom(ip)') <= MAX_ACTIVE
    BY DEF Capped, TypeOK
  <2>1. IsFiniteSet(LiveFrom(ip)) /\ Cardinality(LiveFrom(ip)) <= MAX_ACTIVE
        /\ MAX_ACTIVE \in Nat
    BY Constants DEF Capped
  <2>2. CASE LiveFrom(ip)' \subseteq LiveFrom(ip)
    BY <2>1, <2>2, FS_Subset, FS_CardinalityType
  <2>3. ASSUME NEW from \in Ip, NEW code \in Code, NEW s \in Session,
               CreateSession(from, s, code)
        PROVE  IsFiniteSet(LiveFrom(ip)') /\ Cardinality(LiveFrom(ip)') <= MAX_ACTIVE
    <3>1. \A x \in Session \ {s} : x \in LiveFrom(ip)' => x \in LiveFrom(ip) \ LapsedSessions
      BY <2>3, OneCreated DEF LiveFrom
    <3>2. sessions'[s].ip = from
      BY <2>3, CreationExpires, NewFields
    <3>3. CASE from # ip
      BY <2>2, <3>1, <3>2, <3>3 DEF LiveFrom
    <3>4. CASE from = ip
      <4>1. ActiveFrom(ip) \subseteq LiveFrom(ip)
        BY DEF ActiveFrom, LiveFrom
      <4>2. IsFiniteSet(ActiveFrom(ip)) /\ Cardinality(ActiveFrom(ip)) \in Nat
        BY <2>1, <4>1, FS_Subset, FS_CardinalityType
      <4>3. Cardinality(ActiveFrom(ip)) + 1 <= MAX_ACTIVE
        BY <2>1, <2>3, <3>4, <4>2 DEF CreateSession
      <4>4. s \notin ActiveFrom(ip)
        BY <2>3 DEF CreateSession, Unnamed, Present, ActiveFrom, Live, LiveStates
      <4>5. LiveFrom(ip)' \subseteq ActiveFrom(ip) \cup {s}
        BY <3>1 DEF LiveFrom, ActiveFrom, LapsedSessions
      <4>6. /\ IsFiniteSet(ActiveFrom(ip) \cup {s})
            /\ Cardinality(ActiveFrom(ip) \cup {s}) = Cardinality(ActiveFrom(ip)) + 1
        BY <4>2, <4>4, FS_AddElement
      <4>7. /\ IsFiniteSet(LiveFrom(ip)')
            /\ Cardinality(LiveFrom(ip)') <= Cardinality(ActiveFrom(ip) \cup {s})
            /\ Cardinality(LiveFrom(ip)') \in Nat
        BY <4>5, <4>6, FS_Subset, FS_CardinalityType
      <4>. QED  BY <2>1, <4>2, <4>3, <4>6, <4>7
    <3>. QED  BY <3>3, <3>4
  <2>4. CASE ~\E from \in Ip, code \in Code, s \in Session : CreateSession(from, s, code)
    BY <2>2, <2>4, Identities DEF LiveFrom
  <2>. QED  BY <2>3, <2>4
<1>3. Capped => ActiveSessionsCapped
  BY DEF Capped, ActiveSessionsCapped, LiveFrom
<1>. QED  BY <1>1, <1>2, <1>3, TypeCorrect, HeldAlways, PTL DEF Spec

-----------------------------------------------------------------------------
(* The trail of a record.                                                  *)

(* The last event of the life cycle in the trail leads to the state.       *)
Told(record) ==
  \A i \in 1 .. Len(record.audit) :
    (/\ record.audit[i] \notin Neutral
     /\ \A j \in i + 1 .. Len(record.audit) : record.audit[j] \in Neutral)
      => Leads[record.audit[i]] = record.state

(* At most one host has joined, and none a session that still waits.       *)
Once(record) ==
  /\ record.state = "CREATED" =>
       /\ ~record.hostToken
       /\ \A i \in 1 .. Len(record.audit) : record.audit[i] # "HOST_JOINED"
  /\ \A i, j \in 1 .. Len(record.audit) :
       (record.audit[i] = "HOST_JOINED" /\ record.audit[j] = "HOST_JOINED") => i = j

Story(record) == Told(record) /\ Once(record)

(* An entry of the new trail is the pushed event, or was in the old one.   *)
LEMMA TrailShifts ==
  ASSUME NEW record, RecordOK(record), NEW event \in Event
  PROVE  /\ Shifted(record.audit, Push(record.audit, event, MAX_AUDIT), event)
         /\ Len(record.audit) \in Nat
<1>1. /\ record.audit \in Seq(Event) /\ Len(record.audit) <= MAX_AUDIT
      /\ MAX_AUDIT \in Nat \ {0}
  BY Constants DEF RecordOK, SessionRecord
<1>. QED  BY <1>1, PushShifts

(* A transition tells where it leads.                                      *)
LEMMA ToldByTransition ==
  ASSUME NEW record, RecordOK(record), NEW event \in Event \ Neutral, NEW new,
         new.audit = Push(record.audit, event, MAX_AUDIT), new.state = Leads[event]
  PROVE  Told(new)
<1>. DEFINE audit == Push(record.audit, event, MAX_AUDIT)
            n == Len(record.audit)
<1>1. PICK k \in 0 .. n : /\ n \in Nat /\ Len(audit) = n - k + 1
                          /\ audit[n - k + 1] = event
  BY TrailShifts DEF Shifted
<1>2. new.audit = audit
  OBVIOUS
<1>. HIDE DEF audit, n
<1>3. ASSUME NEW i \in 1 .. Len(audit),
             \A j \in i + 1 .. Len(audit) : audit[j] \in Neutral
      PROVE  audit[i] = event
  <2>1. n - k + 1 \in Int /\ i \in Int /\ i <= n - k + 1
    BY <1>1
  <2>2. i # n - k + 1 => n - k + 1 \in i + 1 .. Len(audit)
    BY <1>1, <2>1
  <2>. QED  BY <1>1, <1>3, <2>2
<1>. QED  BY <1>2, <1>3 DEF Told

(* An entry that is none of the life cycle leaves what the trail tells.    *)
LEMMA ToldAside ==
  ASSUME NEW record, RecordOK(record), Told(record), NEW event \in Neutral, NEW new,
         new.audit = Push(record.audit, event, MAX_AUDIT), new.state = record.state
  PROVE  Told(new)
<1>. DEFINE audit == Push(record.audit, event, MAX_AUDIT)
            n == Len(record.audit)
<1>1. event \in Event
  BY DEF Event
<1>2. PICK k \in 0 .. n : /\ n \in Nat /\ Len(audit) = n - k + 1
                          /\ \A i \in 1 .. n - k : audit[i] = record.audit[i + k]
                          /\ audit[n - k + 1] = event
  BY <1>1, TrailShifts DEF Shifted
<1>3. new.audit = audit
  OBVIOUS
<1>. HIDE DEF audit
<1>4. ASSUME NEW i \in 1 .. Len(audit), audit[i] \notin Neutral,
             \A j \in i + 1 .. Len(audit) : audit[j] \in Neutral
      PROVE  Leads[audit[i]] = record.state
  <2>1. i \in 1 .. n - k /\ i + k \in 1 .. n
    BY <1>2, <1>4
  <2>2. audit[i] = record.audit[i + k]
    BY <1>2, <2>1
  <2>3. ASSUME NEW j \in i + k + 1 .. n
        PROVE  record.audit[j] \in Neutral
    <3>1. /\ j - k \in i + 1 .. Len(audit) /\ j - k \in 1 .. n - k
          /\ (j - k) + k = j
      BY <1>2, <2>1
    <3>. QED  BY <1>2, <1>4, <3>1
  <2>. QED  BY <1>4, <2>1, <2>2, <2>3 DEF Told
<1>. QED  BY <1>3, <1>4 DEF Told

(* An entry that is no arrival leaves one host at most.                    *)
LEMMA OnceAside ==
  ASSUME NEW record, RecordOK(record), Once(record),
         NEW event \in Event \ {"HOST_JOINED"}, NEW new,
         new.audit = Push(record.audit, event, MAX_AUDIT),
         \/ new.state # "CREATED"
         \/ new.state = record.state /\ new.hostToken = record.hostToken
  PROVE  Once(new)
<1>. DEFINE audit == Push(record.audit, event, MAX_AUDIT)
            n == Len(record.audit)
<1>1. PICK k \in 0 .. n : /\ n \in Nat /\ Len(audit) = n - k + 1
                          /\ \A i \in 1 .. n - k : audit[i] = record.audit[i + k]
                          /\ audit[n - k + 1] = event
  BY TrailShifts DEF Shifted
<1>2. new.audit = audit
  OBVIOUS
<1>. HIDE DEF audit
<1>3. ASSUME NEW i \in 1 .. Len(audit), audit[i] = "HOST_JOINED"
      PROVE  i + k \in 1 .. n /\ record.audit[i + k] = "HOST_JOINED"
  <2>1. i # n - k + 1
    BY <1>1, <1>3
  <2>2. i \in 1 .. n - k /\ i + k \in 1 .. n
    BY <1>1, <2>1
  <2>. QED  BY <1>1, <1>3, <2>2
<1>4. ASSUME NEW i \in 1 .. Len(audit), NEW j \in 1 .. Len(audit),
             audit[i] = "HOST_JOINED", audit[j] = "HOST_JOINED"
      PROVE  i = j
  <2>1. i + k = j + k
    BY <1>3, <1>4 DEF Once
  <2>. QED  BY <1>1, <2>1
<1>5. ASSUME new.state = "CREATED"
      PROVE  ~new.hostToken /\ \A i \in 1 .. Len(audit) : audit[i] # "HOST_JOINED"
  BY <1>3, <1>5 DEF Once
<1>. QED  BY <1>2, <1>4, <1>5 DEF Once

(* The arrival of the host is the first.                                   *)
LEMMA OnceJoined ==
  ASSUME NEW record, RecordOK(record), Once(record), record.state = "CREATED", NEW new,
         new.audit = Push(record.audit, "HOST_JOINED", MAX_AUDIT), new.state = "HOST_JOINED"
  PROVE  Once(new)
<1>. DEFINE audit == Push(record.audit, "HOST_JOINED", MAX_AUDIT)
            n == Len(record.audit)
<1>1. "HOST_JOINED" \in Event
  BY DEF Event, Leads
<1>2. PICK k \in 0 .. n : /\ n \in Nat /\ Len(audit) = n - k + 1
                          /\ \A i \in 1 .. n - k : audit[i] = record.audit[i + k]
                          /\ audit[n - k + 1] = "HOST_JOINED"
  BY <1>1, TrailShifts DEF Shifted
<1>3. new.audit = audit
  OBVIOUS
<1>. HIDE DEF audit
<1>4. ASSUME NEW i \in 1 .. Len(audit), audit[i] = "HOST_JOINED"
      PROVE  i = n - k + 1
  <2>1. CASE i \in 1 .. n - k
    <3>1. i + k \in 1 .. n /\ record.audit[i + k] = "HOST_JOINED"
      BY <1>2, <1>4, <2>1
    <3>. QED  BY <3>1 DEF Once
  <2>2. CASE i \notin 1 .. n - k
    BY <1>2, <2>2
  <2>. QED  BY <2>1, <2>2
<1>. QED  BY <1>3, <1>4 DEF Once

(* What the names of the events say.                                       *)
LEMMA EndsLead ==
  /\ {"SESSION_ENDED", "SESSION_ENDED_AFTER_ABUSE_REPORT", "SESSION_EXPIRED",
      "HOST_JOINED", "SESSION_CREATED"} \subseteq Event \ Neutral
  /\ Neutral \subseteq Event \ {"HOST_JOINED"}
  /\ Leads["SESSION_ENDED"] = "ENDED" /\ Leads["SESSION_EXPIRED"] = "EXPIRED"
  /\ Leads["SESSION_ENDED_AFTER_ABUSE_REPORT"] = "ENDED"
  /\ Leads["HOST_JOINED"] = "HOST_JOINED" /\ Leads["SESSION_CREATED"] = "CREATED"
BY DEF Event, Leads, Neutral

LEMMA MovesLead ==
  ASSUME NEW move \in OperatorRequests \cup HostActions
  PROVE  /\ move.event \in (Event \ Neutral) \ {"HOST_JOINED"}
         /\ Leads[move.event] = move.to /\ move.to # "CREATED"
<1>1. move \in {ViewRequest, ControlRequest, ApproveView, DenyView, ApproveControl,
                DenyControl, RevokeControl}
  BY DEF OperatorRequests, HostActions
<1>2. /\ move.event \in {"VIEW_REQUESTED", "CONTROL_REQUESTED", "APPROVE_VIEW",
                         "DENY_VIEW", "APPROVE_CONTROL", "DENY_CONTROL", "REVOKE_CONTROL"}
      /\ Leads[move.event] = move.to
  BY <1>1 DEF ViewRequest, ControlRequest, ApproveView, DenyView, ApproveControl,
     DenyControl, RevokeControl, Transition, Leads
<1>3. {"VIEW_REQUESTED", "CONTROL_REQUESTED", "APPROVE_VIEW",
       "DENY_VIEW", "APPROVE_CONTROL", "DENY_CONTROL", "REVOKE_CONTROL"}
        \subseteq (Event \ Neutral) \ {"HOST_JOINED"}
  BY DEF Event, Leads, Neutral
<1>. QED  BY <1>2, <1>3, MovesAreLive

(* A transition away from the first state keeps the story.                 *)
LEMMA StoryGoesOn ==
  ASSUME NEW record, RecordOK(record), Story(record),
         NEW event \in (Event \ Neutral) \ {"HOST_JOINED"}, NEW new,
         new.audit = Push(record.audit, event, MAX_AUDIT),
         new.state = Leads[event], new.state # "CREATED"
  PROVE  Story(new)
BY ToldByTransition, OnceAside DEF Story

LEMMA StoryAside ==
  ASSUME NEW record, RecordOK(record), Story(record), NEW event \in Neutral, NEW new,
         new.audit = Push(record.audit, event, MAX_AUDIT),
         new.state = record.state, new.hostToken = record.hostToken
  PROVE  Story(new)
BY ToldAside, OnceAside, EndsLead DEF Story

LEMMA StoryStep ==
  ASSUME SessionsOK, NEW s \in Session, RecordStep(s), Story(sessions[s])
  PROVE  Story(sessions'[s])
<1>1. RecordOK(sessions[s])
  BY SessionsAreRecords
<1>2. CASE Alike(sessions[s], sessions'[s])
  BY <1>2 DEF Alike, Story, Told, Once
<1>3. CASE sessions'[s] = Absent
  BY <1>3 DEF Absent, Story, Told, Once
<1>4. CASE Live(s) /\ sessions'[s] = Terminated(sessions[s], "EXPIRED", "SESSION_EXPIRED")
  <2>1. /\ sessions'[s].state = "EXPIRED"
        /\ sessions'[s].audit = Push(sessions[s].audit, "SESSION_EXPIRED", MAX_AUDIT)
    BY <1>1, <1>4, EndsLead, TerminatedFields
  <2>. QED  BY <1>1, <2>1, EndsLead, StoryGoesOn
<1>5. CASE Live(s) /\ sessions'[s] = Terminated(sessions[s], "ENDED", "SESSION_ENDED")
  <2>1. /\ sessions'[s].state = "ENDED"
        /\ sessions'[s].audit = Push(sessions[s].audit, "SESSION_ENDED", MAX_AUDIT)
    BY <1>1, <1>5, EndsLead, TerminatedFields
  <2>. QED  BY <1>1, <2>1, EndsLead, StoryGoesOn
<1>6. CASE Live(s) /\ sessions'[s] = Terminated(AddAudit(sessions[s], "ABUSE_REPORTED"), "ENDED",
                                                "SESSION_ENDED_AFTER_ABUSE_REPORT")
  <2>. DEFINE reported == AddAudit(sessions[s], "ABUSE_REPORTED")
  <2>1. "ABUSE_REPORTED" \in Neutral /\ "ABUSE_REPORTED" \in Event
    BY DEF Neutral, Event
  <2>2. RecordOK(reported) /\ Story(reported)
    BY <1>1, <2>1, AuditFields, AuditKeepsRecord, StoryAside DEF Kept
  <2>. HIDE DEF reported
  <2>3. sessions'[s] = Terminated(reported, "ENDED", "SESSION_ENDED_AFTER_ABUSE_REPORT")
    BY <1>6 DEF reported
  <2>4. /\ sessions'[s].state = "ENDED"
        /\ sessions'[s].audit =
             Push(reported.audit, "SESSION_ENDED_AFTER_ABUSE_REPORT", MAX_AUDIT)
    BY <2>2, <2>3, EndsLead, TerminatedFields
  <2>. QED  BY <2>2, <2>4, EndsLead, StoryGoesOn
<1>7. CASE sessions[s].state = "CREATED" /\ sessions'[s] = Joined(sessions[s])
  <2>1. /\ sessions'[s].state = "HOST_JOINED"
        /\ sessions'[s].audit = Push(sessions[s].audit, "HOST_JOINED", MAX_AUDIT)
    BY <1>1, <1>7, JoinedFields
  <2>. QED  BY <1>1, <1>7, <2>1, EndsLead, ToldByTransition, OnceJoined DEF Story
<1>8. ASSUME NEW move \in OperatorRequests \cup HostActions,
             sessions'[s] = Moved(sessions[s], move.to, move.event)
      PROVE  Story(sessions'[s])
  <2>1. /\ sessions'[s].state = move.to
        /\ sessions'[s].audit = Push(sessions[s].audit, move.event, MAX_AUDIT)
    BY <1>1, <1>8, MovesLead, MovedFields
  <2>. QED  BY <1>1, <2>1, MovesLead, StoryGoesOn
<1>9. CASE Live(s) /\ sessions'[s] = AddAudit(sessions[s], "TURN_CREDENTIAL_ISSUED")
  <2>1. "TURN_CREDENTIAL_ISSUED" \in Neutral /\ "TURN_CREDENTIAL_ISSUED" \in Event
    BY DEF Neutral, Event
  <2>. QED  BY <1>1, <1>9, <2>1, AuditFields, StoryAside DEF Kept
<1>10. ASSUME NEW ip \in Ip, NEW code \in Code, sessions'[s] = NewSession(ip, code)
       PROVE  Story(sessions'[s])
  <2>1. /\ sessions'[s].state = "CREATED" /\ ~sessions'[s].hostToken
        /\ sessions'[s].audit = <<"SESSION_CREATED">>
    BY <1>10, NewFields
  <2>2. \A i \in 1 .. Len(sessions'[s].audit) : sessions'[s].audit[i] = "SESSION_CREATED" /\ i = 1
    BY <2>1
  <2>. QED  BY <2>1, <2>2, EndsLead DEF Story, Told, Once
<1>. QED  BY <1>2, <1>3, <1>4, <1>5, <1>6, <1>7, <1>8, <1>9, <1>10 DEF RecordStep

LEMMA Stories == Spec => [](\A s \in Session : Story(sessions[s]))
<1>1. Init => \A s \in Session : Story(sessions[s])
  BY DEF Init, Absent, Story, Told, Once
<1>2. TypeOK /\ Held /\ (\A s \in Session : Story(sessions[s])) /\ [Next]_vars
        => (\A s \in Session : Story(sessions[s]))'
  <2>. SUFFICES ASSUME SessionsOK, Held, \A s \in Session : Story(sessions[s]),
                       [Next]_vars, NEW s \in Session
                PROVE  Story(sessions'[s])
    BY DEF TypeOK
  <2>. QED  BY EveryRecordSteps, StoryStep
<1>. QED  BY <1>1, <1>2, TypeCorrect, HeldAlways, PTL DEF Spec

(* Whatever was pushed out of the trail, what is left of it explains the   *)
(* state of the session.                                                   *)
THEOREM TrailTells == Spec => []AuditTellsState
<1>1. TypeOK /\ (\A s \in Session : Story(sessions[s])) => AuditTellsState
  <2>. SUFFICES ASSUME SessionsOK, \A s \in Session : Story(sessions[s]),
                       NEW s \in Session, NEW i \in DOMAIN sessions[s].audit,
                       sessions[s].audit[i] \notin Neutral,
                       \A j \in i + 1 .. Len(sessions[s].audit) :
                         sessions[s].audit[j] \in Neutral
                PROVE  Leads[sessions[s].audit[i]] = sessions[s].state
    BY DEF AuditTellsState, TypeOK
  <2>1. sessions[s].audit \in Seq(Event)
    BY DEF SessionsOK, SessionRecord
  <2>2. i \in 1 .. Len(sessions[s].audit)
    BY <2>1
  <2>. QED  BY <2>2 DEF Story, Told
<1>. QED  BY <1>1, Stories, TypeCorrect, PTL

(* One host joins a session, in any number of requests and refusals.       *)
THEOREM OneHost == Spec => []OneHostPerCode
<1>1. TypeOK /\ (\A s \in Session : Story(sessions[s])) => OneHostPerCode
  <2>. SUFFICES ASSUME SessionsOK, \A s \in Session : Story(sessions[s]), NEW s \in Session
                PROVE  /\ sessions[s].state = "CREATED" => ~sessions[s].hostToken
                       /\ Cardinality({i \in DOMAIN sessions[s].audit :
                                         sessions[s].audit[i] = "HOST_JOINED"}) <= 1
    BY DEF OneHostPerCode, TypeOK
  <2>. DEFINE arrivals == {i \in DOMAIN sessions[s].audit :
                             sessions[s].audit[i] = "HOST_JOINED"}
  <2>1. sessions[s].audit \in Seq(Event)
    BY DEF SessionsOK, SessionRecord
  <2>2. \A i, j \in arrivals : i = j
    BY <2>1 DEF Story, Once
  <2>. HIDE DEF arrivals
  <2>3. Cardinality(arrivals) <= 1
    <3>1. CASE arrivals = {}
      BY <3>1, FS_EmptySet
    <3>2. CASE arrivals # {}
      <4>1. PICK i : i \in arrivals
        BY <3>2
      <4>2. arrivals = {i}
        BY <2>2, <4>1
      <4>. QED  BY <4>2, FS_Singleton
    <3>. QED  BY <3>1, <3>2
  <2>. QED  BY <2>3 DEF Story, Once, arrivals
<1>. QED  BY <1>1, Stories, TypeCorrect, PTL

-----------------------------------------------------------------------------
(* What the streams have been written.                                     *)

(* An open stream shows its session, a closed one the end of it.           *)
Heard(t) ==
  /\ streams[t].phase = "open" =>
       /\ streams[t].state = sessions[streams[t].session].state
       /\ streams[t].chat = sessions[streams[t].session].chat
  /\ streams[t].phase = "closed" => streams[t].state \in TerminalStates

AllHeard == \A t \in Token : Heard(t)

(* Only a live session has subscribers, so the others may change unheard.  *)
LEMMA OpenOnLive ==
  ASSUME StreamsOK, Held, NEW t \in Token, streams[t].phase = "open"
  PROVE  streams[t].session \in Session /\ Live(streams[t].session)
BY HeldBare DEF StreamsOK, Bare, Subscribed

(* The streams change in nothing that is written of the session.           *)
LEMMA HeardQuietly ==
  ASSUME StreamsOK, Held, AllHeard,
         \A t \in Token : /\ streams'[t].phase = streams[t].phase
                          /\ streams'[t].session = streams[t].session
                          /\ streams'[t].state = streams[t].state
                          /\ streams'[t].chat = streams[t].chat,
         \A s \in Session : Live(s) => /\ sessions'[s].state = sessions[s].state
                                       /\ sessions'[s].chat = sessions[s].chat
  PROVE  AllHeard'
BY OpenOnLive DEF AllHeard, Heard

LEMMA HeardPublished ==
  ASSUME SessionsOK', StreamsOK, AllHeard, NEW s \in Session, Publish(s), Present(s)',
         \A x \in Session \ {s} : sessions'[x] = sessions[x]
  PROVE  AllHeard'
<1>. SUFFICES ASSUME NEW t \in Token
              PROVE  Heard(t)'
  BY DEF AllHeard
<1>1. StreamOK(streams[t]) /\ RecordOK(sessions[s])'
  BY StreamsAreOK DEF SessionsOK, RecordOK
<1>2. CASE Subscribed(t, s)
  <2>1. streams'[t] = Snapshot(streams[t], sessions'[s])
    BY <1>2 DEF Publish
  <2>. QED  BY <1>1, <1>2, <2>1, SnapshotIsStream DEF Heard, Subscribed, Present
<1>3. CASE ~Subscribed(t, s)
  <2>1. streams'[t] = streams[t]
    BY <1>3 DEF Publish
  <2>. QED  BY <1>1, <1>3, <2>1 DEF AllHeard, Heard, Subscribed, StreamOK
<1>. QED  BY <1>2, <1>3

LEMMA HeardHangup ==
  ASSUME SessionsOK', StreamsOK, Held, AllHeard, NEW S \in SUBSET Session,
         Release(S), \A s \in S : Terminal(s)',
         \A x \in Session \ S : Live(x) => sessions'[x] = sessions[x]
  PROVE  AllHeard'
<1>. SUFFICES ASSUME NEW t \in Token
              PROVE  Heard(t)'
  BY DEF AllHeard
<1>1. CASE streams[t].phase = "open" /\ streams[t].session \in S
  <2>1. streams'[t] = Hangup(streams[t], sessions'[streams[t].session])
    BY <1>1 DEF Release, CloseSubscribers
  <2>2. RecordOK(sessions'[streams[t].session])
        /\ sessions'[streams[t].session].state \in TerminalStates
    BY <1>1 DEF SessionsOK, RecordOK, Terminal
  <2>. QED  BY <2>1, <2>2, HangupIsStream DEF Heard
<1>2. CASE ~(streams[t].phase = "open" /\ streams[t].session \in S)
  <2>1. streams'[t] = streams[t]
    BY <1>2 DEF Release, CloseSubscribers
  <2>. QED  BY <1>2, <2>1, OpenOnLive DEF AllHeard, Heard
<1>. QED  BY <1>1, <1>2

LEMMA HeardOne ==
  ASSUME StreamsOK, AllHeard, sessions' = sessions, NEW t \in Token, NEW stream,
         streams' = [streams EXCEPT ![t] = stream],
         stream.phase = "open" =>
           /\ stream.state = sessions[stream.session].state
           /\ stream.chat = sessions[stream.session].chat,
         stream.phase # "closed"
  PROVE  AllHeard'
BY DEF AllHeard, Heard, StreamsOK

LEMMA HeardStep ==
  ASSUME TypeOK, TypeOK', Held, AllHeard, [Next]_vars
  PROVE  AllHeard'
<1>. USE DEF TypeOK
<1>1. ASSUME NEW S \in SUBSET Session, Expire(S)
      PROVE  AllHeard'
  <2>1. \A x \in Session \ S : sessions'[x] = sessions[x]
    BY <1>1 DEF Expire, Expired
  <2>. QED  BY <1>1, <2>1, ExpiredAreTerminal, HeardHangup
<1>2. ASSUME \/ \E ip \in Ip : CreateRefused(ip)
             \/ \E ip \in Ip, s \in Session : JoinLapsed(ip, s)
             \/ \E s \in Session : ExpireOnAccess(s)
      PROVE  AllHeard'
  BY <1>1, <1>2 DEF CreateRefused, JoinLapsed, ExpireOnAccess, LapsedSessions
<1>3. ASSUME NEW ip \in Ip, NEW s \in Session, NEW code \in Code,
             CreateSession(ip, s, code)
      PROVE  AllHeard'
  <2>1. ~Live(s)
    BY <1>3 DEF CreateSession, Unnamed, Present, Live, LiveStates
  <2>. QED  BY <1>3, <2>1, CreationExpires, HeardHangup
<1>4. ASSUME NEW ip \in Ip, NEW s \in Session, Join(ip, s)
      PROVE  AllHeard'
  <2>1. sessions'[s].state = "HOST_JOINED" /\ Publish(s)
        /\ \A x \in Session \ {s} : sessions'[x] = sessions[x]
    BY <1>4, SessionsAreRecords, JoinedKeepsRecord DEF Join, SessionsOK
  <2>. QED  BY <2>1, HeardPublished DEF Present
<1>5. ASSUME NEW s \in Session, NEW role \in Role,
             NEW move \in OperatorRequests \cup HostActions, Act(s, role, move)
      PROVE  AllHeard'
  <2>1. sessions'[s].state = move.to /\ Publish(s)
        /\ \A x \in Session \ {s} : sessions'[x] = sessions[x]
    BY <1>5, MovesAreLive, SessionsAreRecords, MovedKeepsRecord DEF Act, Step, SessionsOK
  <2>. QED  BY <2>1, MovesAreLive, HeardPublished DEF Present, LiveStates
<1>6. ASSUME NEW s \in Session, NEW role \in Role, End(s, role) \/ ReportAbuse(s, role)
      PROVE  AllHeard'
  BY <1>6, EndingTerminates, HeardHangup
<1>7. ASSUME NEW s \in Session, NEW role \in Role, IceConfig(s, role)
      PROVE  AllHeard'
  <2>1. "TURN_CREDENTIAL_ISSUED" \in Event
    BY DEF Event, Neutral
  <2>2. AddAudit(sessions[s], "TURN_CREDENTIAL_ISSUED").state = sessions[s].state
        /\ AddAudit(sessions[s], "TURN_CREDENTIAL_ISSUED").chat = sessions[s].chat
    BY <2>1, SessionsAreRecords, AuditKeepsRecord
  <2>3. \A x \in Session : /\ sessions'[x].state = sessions[x].state
                           /\ sessions'[x].chat = sessions[x].chat
    BY <1>7, <2>2 DEF IceConfig, SessionsOK
  <2>4. streams' = streams
    BY <1>7 DEF IceConfig
  <2>. QED  BY <2>3, <2>4, HeardQuietly
<1>8. ASSUME NEW s \in Session, NEW role \in Role, NEW t \in Token,
             IssueEventToken(s, role, t)
      PROVE  AllHeard'
  BY <1>8, NoStreamIsStream, HeardOne DEF IssueEventToken
<1>9. ASSUME NEW t \in Token, CloseEvents(t)
      PROVE  AllHeard'
  BY <1>9, NoStreamIsStream, HeardOne DEF CloseEvents
<1>10. ASSUME NEW t \in Token, OpenEvents(t)
       PROVE  AllHeard'
  <2>. DEFINE grant == CurrentTokens[t]
  <2>1. grant \in Grant
    BY <1>10 DEF OpenEvents, CurrentTokens, TokensOK
  <2>2. RecordOK(sessions[grant.session]) /\ sessions[grant.session].state # "ABSENT"
    BY <1>10, <2>1, SessionsAreRecords DEF OpenEvents, Present, Grant
  <2>3. streams' = [streams EXCEPT ![t] = Opened(grant, sessions[grant.session])]
        /\ sessions' = sessions
    BY <1>10 DEF OpenEvents
  <2>. HIDE DEF grant
  <2>4. LET stream == Opened(grant, sessions[grant.session]) IN
        /\ stream.phase = "open" /\ stream.session = grant.session
        /\ stream.state = sessions[grant.session].state
        /\ stream.chat = sessions[grant.session].chat
    BY <2>1, <2>2, OpenedIsStream
  <2>5. Opened(grant, sessions[grant.session]).phase # "closed"
    BY <2>4
  <2>. QED  BY <2>3, <2>4, <2>5, HeardOne
<1>11. ASSUME NEW s \in Session,
              \/ \E role \in Role : Signal(s, role)
              \/ \E sequence \in InputSequence : Input(s, sequence)
       PROVE  AllHeard'
  <2>1. ASSUME NEW t \in Token
        PROVE  /\ streams'[t].phase = streams[t].phase
               /\ streams'[t].session = streams[t].session
               /\ streams'[t].state = streams[t].state
               /\ streams'[t].chat = streams[t].chat
    <3>1. streams[t] \in Stream
      BY DEF StreamsOK
    <3>2. \/ streams'[t] = streams[t]
          \/ \E v : streams'[t] = [streams[t] EXCEPT !.signal = v]
          \/ \E v : streams'[t] = [streams[t] EXCEPT !.input = v]
      BY <1>11 DEF Signal, Input, PublishSignal, PublishInput
    <3>. QED  BY <3>1, <3>2 DEF Stream
  <2>2. ASSUME NEW x \in Session
        PROVE  sessions'[x].state = sessions[x].state /\ sessions'[x].chat = sessions[x].chat
    <3>1. sessions[x] \in SessionRecord
      BY DEF SessionsOK
    <3>2. \/ sessions'[x] = sessions[x]
          \/ \E v : sessions'[x] = [sessions[x] EXCEPT !.signalSequence = v]
          \/ \E v : sessions'[x] = [sessions[x] EXCEPT !.lastInputSequence = v]
      BY <1>11 DEF Signal, Input, SessionsOK
    <3>. QED  BY <3>1, <3>2 DEF SessionRecord
  <2>. QED  BY <2>1, <2>2, HeardQuietly
<1>12. ASSUME NEW s \in Session, NEW role \in Role, NEW text \in Text, Chat(s, role, text)
       PROVE  AllHeard'
  <2>. DEFINE message == [from |-> role, text |-> text]
  <2>1. /\ sessions' = [sessions EXCEPT ![s].chat = Push(@, message, MAX_CHAT)]
        /\ PublishChat(s, message)
    BY <1>12 DEF Chat
  <2>. HIDE DEF message
  <2>2. sessions[s] \in SessionRecord /\ \A t \in Token : StreamOK(streams[t])
    BY StreamsAreOK DEF SessionsOK
  <2>3. /\ sessions'[s].state = sessions[s].state
        /\ sessions'[s].chat = Push(sessions[s].chat, message, MAX_CHAT)
        /\ \A x \in Session \ {s} : sessions'[x] = sessions[x]
    BY <2>1, <2>2 DEF SessionsOK, SessionRecord
  <2>4. ASSUME NEW t \in Token
        PROVE  Heard(t)'
    <3>1. CASE Subscribed(t, s)
      <4>1. streams'[t] = [streams[t] EXCEPT !.chat = Push(@, message, MAX_CHAT)]
        BY <2>1, <3>1 DEF PublishChat
      <4>2. /\ streams'[t].phase = "open" /\ streams'[t].session = s
            /\ streams'[t].state = streams[t].state
            /\ streams'[t].chat = Push(streams[t].chat, message, MAX_CHAT)
        BY <2>2, <3>1, <4>1 DEF Subscribed, StreamOK, Stream
      <4>. QED  BY <2>3, <3>1, <4>2 DEF AllHeard, Heard, Subscribed
    <3>2. CASE ~Subscribed(t, s)
      <4>1. streams'[t] = streams[t]
        BY <2>1, <3>2 DEF PublishChat
      <4>. QED  BY <2>2, <2>3, <3>2, <4>1 DEF AllHeard, Heard, Subscribed, StreamOK
    <3>. QED  BY <3>1, <3>2
  <2>. QED  BY <2>4 DEF AllHeard
<1>13. ASSUME NEW s \in Session, FireExpiryTimer(s)
       PROVE  AllHeard'
  <2>1. CASE sessions[s].expiresIn = 0
    BY <1>1, <1>13, <2>1 DEF FireExpiryTimer
  <2>2. CASE sessions[s].expiresIn # 0
    <3>1. streams' = streams /\ sessions' = [sessions EXCEPT ![s].expiryTimer = FALSE]
      BY <1>13, <2>2 DEF FireExpiryTimer
    <3>2. ASSUME NEW x \in Session
          PROVE  sessions'[x].state = sessions[x].state /\ sessions'[x].chat = sessions[x].chat
      <4>1. sessions[x] \in SessionRecord
        BY DEF SessionsOK
      <4>2. sessions'[x] \in {sessions[x], [sessions[x] EXCEPT !.expiryTimer = FALSE]}
        BY <3>1 DEF SessionsOK
      <4>. QED  BY <4>1, <4>2 DEF SessionRecord
    <3>. QED  BY <3>1, <3>2, HeardQuietly
  <2>. QED  BY <2>1, <2>2
<1>14. ASSUME NEW s \in Session, FirePurgeTimer(s)
       PROVE  AllHeard'
  <2>1. ~Live(s)
    BY <1>14 DEF FirePurgeTimer, Purgeable, Terminal, TerminalStates, Live, LiveStates
  <2>2. streams' = streams /\ \A x \in Session \ {s} : sessions'[x] = sessions[x]
    BY <1>14 DEF FirePurgeTimer
  <2>. QED  BY <2>1, <2>2, HeardQuietly
<1>15. CASE Tick
  <2>1. ASSUME NEW x \in Session
        PROVE  sessions'[x].state = sessions[x].state /\ sessions'[x].chat = sessions[x].chat
    <3>1. sessions[x] \in SessionRecord
      BY DEF SessionsOK
    <3>2. sessions'[x] = [sessions[x] EXCEPT !.expiresIn = Less(@), !.purgeIn = Less(@)]
      BY <1>15 DEF Tick
    <3>. QED  BY <3>1, <3>2 DEF SessionRecord
  <2>2. streams' = streams
    BY <1>15 DEF Tick
  <2>. QED  BY <2>1, <2>2, HeardQuietly
<1>16. ASSUME \/ EventsRefused
              \/ \E ip \in Ip : RequestLimited(ip) \/ JoinRefused(ip)
              \/ \E s \in Session, role \in Role :
                   \/ TokenLimited(s, role) \/ SignalLimited(s, role)
                   \/ ChatLimited(s, role)
              \/ \E s \in Session : InputDropped(s)
              \/ UNCHANGED vars
       PROVE  AllHeard'
  <2>1. sessions' = sessions /\ streams' = streams
    BY <1>16 DEF EventsRefused, RequestLimited, JoinRefused, TokenLimited,
       SignalLimited, ChatLimited, InputDropped, vars
  <2>. QED  BY <2>1, HeardQuietly
<1>. QED
  BY <1>2, <1>3, <1>4, <1>5, <1>6, <1>7, <1>8, <1>9, <1>10, <1>11, <1>12, <1>13,
     <1>14, <1>15, <1>16 DEF Next

LEMMA HeardAlways == Spec => []AllHeard
<1>1. Init => AllHeard
  BY NoStreamIsStream DEF Init, AllHeard, Heard
<1>. QED  BY <1>1, HeardStep, TypeCorrect, HeldAlways, PTL DEF Spec

(* Every open stream has been written its session as it is, however many   *)
(* participants, requests and messages there are.                          *)
THEOREM StreamsCurrent == Spec => []StreamsAreCurrent
<1>1. AllHeard => StreamsAreCurrent
  BY DEF AllHeard, Heard, StreamsAreCurrent
<1>. QED  BY <1>1, HeardAlways, PTL

(* No subscriber is hung up on before it was written how its session ended. *)
THEOREM EndsHeard == Spec => []StreamsHearTheEnd
<1>1. AllHeard => StreamsHearTheEnd
  BY DEF AllHeard, Heard, StreamsHearTheEnd
<1>. QED  BY <1>1, HeardAlways, PTL

-----------------------------------------------------------------------------
(* The life of a session runs down: what the timers of the portal rest on  *)
(* when they end and purge every session.  EverySessionEnds and            *)
(* EveryRecordIsPurged follow from these and from the fairness of Tick and *)
(* of the two timers.                                                      *)

(* The longest that the record of a session can still be kept: the life    *)
(* that a live session has left, the end, and the retention.               *)
TimeLeft(s) == IF Live(s) THEN sessions[s].expiresIn + 1 + RETENTION
                          ELSE sessions[s].purgeIn

(* What is left to do is the work of a timer.                              *)
Due(s) == \/ Live(s) /\ sessions[s].expiresIn = 0
          \/ Terminal(s) /\ sessions[s].purgeIn = 0

(* No request, by anybody and at any time, renews a session or its record, *)
(* and time that passes brings the end nearer, or a timer is due.          *)
LifeRunsDown ==
  [][\A s \in Session : (Present(s) /\ Present(s)') =>
       /\ TimeLeft(s)' <= TimeLeft(s)
       /\ Tick => TimeLeft(s)' < TimeLeft(s) \/ Due(s)]_vars

(* The end of a session is final: an ended session does not turn into an   *)
(* expired one or the reverse, none is revived, and its trail is closed.   *)
EndsAreFinal ==
  [][\A s \in Session : (Terminal(s) /\ Present(s)') =>
       /\ sessions'[s].state = sessions[s].state
       /\ sessions'[s].audit = sessions[s].audit]_vars

(* A record disappears only after its session has ended and the retention  *)
(* is over: nobody is left with a session that the portal has forgotten.   *)
RecordsAreRetained ==
  [][\A s \in Session : (Present(s) /\ ~Present(s)') =>
       Terminal(s) /\ sessions[s].purgeIn = 0]_vars

(* A live session has its expiry timer, from its creation to its end,      *)
(* unless a timer that came early has spent it within the last TIMER_SLACK *)
(* of the session.                                                         *)
ExpiryStaysArmed ==
  \A s \in Session : Live(s) /\ ~sessions[s].expiryTimer =>
    TIMER_SLACK > 0 /\ sessions[s].expiresIn <= TIMER_SLACK

-----------------------------------------------------------------------------
(* What the helpers make of the timers of a record.                        *)

LEMMA MovedTimers ==
  ASSUME NEW record, RecordOK(record), NEW event \in Event, NEW state
  PROVE  /\ Moved(record, state, event).expiryTimer = record.expiryTimer
         /\ Moved(record, state, event).purgeIn = record.purgeIn
BY DEF RecordOK, SessionRecord, AddAudit, Moved

LEMMA AuditTimers ==
  ASSUME NEW record, RecordOK(record), NEW event \in Event
  PROVE  /\ AddAudit(record, event).expiryTimer = record.expiryTimer
         /\ AddAudit(record, event).purgeIn = record.purgeIn
BY DEF RecordOK, SessionRecord, AddAudit

LEMMA JoinedTimers ==
  ASSUME NEW record, RecordOK(record)
  PROVE  /\ Joined(record).expiryTimer = record.expiryTimer
         /\ Joined(record).purgeIn = record.purgeIn
BY DEF RecordOK, SessionRecord, AddAudit, Moved, Joined

LEMMA TerminatedTimers ==
  ASSUME NEW record, RecordOK(record), NEW event \in Event, NEW state
  PROVE  Terminated(record, state, event).purgeIn = RETENTION
<1>. DEFINE moved == Moved(record, state, event)
<1>1. Terminated(record, state, event) =
        [moved EXCEPT !.expiryTimer = FALSE, !.purgeIn = RETENTION]
  BY DEF Terminated
<1>2. DOMAIN moved = DOMAIN record /\ "purgeIn" \in DOMAIN record
  BY DEF Moved, AddAudit, RecordOK, SessionRecord
<1>. HIDE DEF moved
<1>. QED  BY <1>1, <1>2

-----------------------------------------------------------------------------
(* What a step makes of the life of one record.                            *)

(* The session ends, and the retention of its record begins.               *)
Ending(old, new) ==
  /\ old.state \in LiveStates /\ new.state \in TerminalStates
  /\ new.purgeIn = RETENTION

(* The session lives on or stays over, and keeps its two timers.           *)
Lasting(old, new) ==
  /\ new.state = old.state \/ (old.state \in LiveStates /\ new.state \in LiveStates)
  /\ old.state \in TerminalStates => new.audit = old.audit
  /\ \/ new.expiresIn = old.expiresIn /\ new.purgeIn = old.purgeIn
     \/ /\ Tick
        /\ new.expiresIn = Less(old.expiresIn) /\ new.purgeIn = Less(old.purgeIn)
  /\ \/ new.expiryTimer = old.expiryTimer
     \/ old.expiresIn \in 1 .. TIMER_SLACK /\ new.expiresIn = old.expiresIn

LifeStep(s) ==
  \/ Lasting(sessions[s], sessions'[s])
  \/ Ending(sessions[s], sessions'[s])
  \/ Terminal(s) /\ sessions[s].purgeIn = 0 /\ sessions'[s] = Absent
  \/ ~Present(s) /\ \E ip \in Ip, code \in Code : sessions'[s] = NewSession(ip, code)

LEMMA LifeSteps ==
  ASSUME SessionsOK, NEW s \in Session, RecordStep(s)
  PROVE  LifeStep(s)
<1>1. RecordOK(sessions[s])
  BY SessionsAreRecords
<1>2. {"SESSION_EXPIRED", "SESSION_ENDED", "ABUSE_REPORTED", "HOST_JOINED",
       "SESSION_ENDED_AFTER_ABUSE_REPORT", "TURN_CREDENTIAL_ISSUED"} \subseteq Event
  BY DEF Event, Leads, Neutral
<1>3. CASE Alike(sessions[s], sessions'[s])
  BY <1>3 DEF Alike, Lasting, LifeStep
<1>4. CASE Terminal(s) /\ sessions[s].purgeIn = 0 /\ sessions'[s] = Absent
  BY <1>4 DEF LifeStep
<1>5. ASSUME NEW record, RecordOK(record), record.state = sessions[s].state, Live(s),
             NEW state \in {"EXPIRED", "ENDED"}, NEW event \in Event,
             sessions'[s] = Terminated(record, state, event)
      PROVE  LifeStep(s)
  BY <1>5, TerminatedFields, TerminatedTimers DEF Live, Ending, TerminalStates, LifeStep
<1>6. CASE \/ Live(s) /\ sessions'[s] = Terminated(sessions[s], "EXPIRED", "SESSION_EXPIRED")
           \/ Live(s) /\ sessions'[s] = Terminated(sessions[s], "ENDED", "SESSION_ENDED")
  BY <1>1, <1>2, <1>5, <1>6
<1>7. CASE Live(s) /\ sessions'[s] = Terminated(AddAudit(sessions[s], "ABUSE_REPORTED"), "ENDED",
                                                "SESSION_ENDED_AFTER_ABUSE_REPORT")
  <2>1. /\ RecordOK(AddAudit(sessions[s], "ABUSE_REPORTED"))
        /\ AddAudit(sessions[s], "ABUSE_REPORTED").state = sessions[s].state
    BY <1>1, <1>2, AuditKeepsRecord, AuditFields
  <2>. QED  BY <1>2, <1>5, <1>7, <2>1
<1>8. CASE sessions[s].state = "CREATED" /\ sessions'[s] = Joined(sessions[s])
  <2>1. {"CREATED", "HOST_JOINED"} \subseteq LiveStates /\ "CREATED" \notin TerminalStates
    BY DEF LiveStates, TerminalStates
  <2>. QED  BY <1>1, <1>8, <2>1, JoinedFields, JoinedTimers DEF Lasting, LifeStep
<1>9. ASSUME NEW move \in OperatorRequests \cup HostActions, sessions[s].state \in move.from,
             sessions'[s] = Moved(sessions[s], move.to, move.event)
      PROVE  LifeStep(s)
  <2>1. /\ sessions[s].state \in LiveStates /\ move.to \in LiveStates
        /\ sessions[s].state \notin TerminalStates /\ move.event \in Event
    BY <1>9, MovesAreLive DEF LiveStates, TerminalStates
  <2>2. /\ sessions'[s].state = move.to /\ Kept(sessions[s], sessions'[s])
        /\ sessions'[s].expiryTimer = sessions[s].expiryTimer
        /\ sessions'[s].purgeIn = sessions[s].purgeIn
    BY <1>1, <1>9, <2>1, MovedFields, MovedTimers
  <2>. QED  BY <2>1, <2>2 DEF Kept, Lasting, LifeStep
<1>10. CASE Live(s) /\ sessions'[s] = AddAudit(sessions[s], "TURN_CREDENTIAL_ISSUED")
  <2>1. sessions[s].state \in LiveStates /\ sessions[s].state \notin TerminalStates
    BY <1>10 DEF Live, LiveStates, TerminalStates
  <2>2. /\ sessions'[s].state = sessions[s].state /\ Kept(sessions[s], sessions'[s])
        /\ sessions'[s].expiryTimer = sessions[s].expiryTimer
        /\ sessions'[s].purgeIn = sessions[s].purgeIn
    BY <1>1, <1>2, <1>10, AuditFields, AuditTimers
  <2>. QED  BY <2>1, <2>2 DEF Kept, Lasting, LifeStep
<1>11. CASE \E ip \in Ip, code \in Code :
              CreateSession(ip, s, code) /\ sessions'[s] = NewSession(ip, code)
  BY <1>11 DEF CreateSession, Unnamed, LifeStep
<1>. QED  BY <1>3, <1>4, <1>6, <1>7, <1>8, <1>9, <1>10, <1>11 DEF RecordStep

LEMMA EveryLifeSteps ==
  ASSUME TypeOK, Held, [Next]_vars
  PROVE  \A s \in Session : LifeStep(s)
BY EveryRecordSteps, LifeSteps DEF TypeOK

(* The state of a record says which of the three kinds it is.              *)
LEMMA Kinds ==
  ASSUME NEW s \in Session, SessionsOK
  PROVE  /\ Live(s) => Present(s) /\ ~Terminal(s)
         /\ Terminal(s) => Present(s)
         /\ Present(s) => Live(s) \/ Terminal(s)
BY DEF SessionsOK, SessionRecord, Live, Terminal, Present, LiveStates, TerminalStates

-----------------------------------------------------------------------------
(* No sequence of requests, refusals, signals or credentials lets a        *)
(* session last longer than it was given, and passing time always brings   *)
(* it nearer to its end or leaves a timer due: the variant behind          *)
(* EverySessionEnds and EveryRecordIsPurged.                               *)
THEOREM LifeGoesDown == Spec => LifeRunsDown
<1>1. ASSUME TypeOK, Held, [Next]_vars, NEW s \in Session, Present(s), Present(s)'
      PROVE  /\ TimeLeft(s)' <= TimeLeft(s)
             /\ Tick => TimeLeft(s)' < TimeLeft(s) \/ Due(s)
  <2>. DEFINE old == sessions[s]
              new == sessions'[s]
  <2>1. /\ old.expiresIn \in Nat /\ old.purgeIn \in Nat /\ RETENTION \in Nat
        /\ (Live(s) /\ ~Terminal(s)) \/ (Terminal(s) /\ ~Live(s))
    BY <1>1, Kinds, Constants DEF TypeOK, SessionsOK, SessionRecord, Live, Terminal,
         LiveStates, TerminalStates
  <2>2. CASE Lasting(old, new)
    <3>1. /\ Live(s)' <=> Live(s)
      BY <1>1, <2>1, <2>2 DEF Lasting, Live, Terminal, LiveStates, TerminalStates
    <3>2. CASE Tick
      <4>1. new.expiresIn = Less(old.expiresIn) /\ new.purgeIn = Less(old.purgeIn)
        BY <1>1, <3>2 DEF Tick, TypeOK, SessionsOK, SessionRecord
      <4>. HIDE DEF new
      <4>2. /\ TimeLeft(s)' = IF Live(s) THEN new.expiresIn + 1 + RETENTION ELSE new.purgeIn
            /\ TimeLeft(s) = IF Live(s) THEN old.expiresIn + 1 + RETENTION ELSE old.purgeIn
        BY <3>1 DEF TimeLeft, new
      <4>. QED  BY <2>1, <4>1, <4>2 DEF Less, Due
    <3>3. CASE ~Tick
      BY <2>1, <2>2, <3>1, <3>3 DEF Lasting, TimeLeft
    <3>. QED  BY <3>2, <3>3
  <2>3. CASE Ending(old, new)
    <3>1. Live(s) /\ ~Live(s)' /\ new.purgeIn = RETENTION
      BY <2>3 DEF Ending, Live, LiveStates, TerminalStates
    <3>. QED  BY <2>1, <3>1 DEF TimeLeft
  <2>4. ~(~Present(s) \/ new = Absent)
    BY <1>1 DEF Present, Absent
  <2>. QED  BY <1>1, <2>2, <2>3, <2>4, EveryLifeSteps DEF LifeStep
<1>2. TypeOK /\ Held /\ [Next]_vars =>
        [\A s \in Session : (Present(s) /\ Present(s)') =>
           /\ TimeLeft(s)' <= TimeLeft(s)
           /\ Tick => TimeLeft(s)' < TimeLeft(s) \/ Due(s)]_vars
  BY <1>1
<1>. QED  BY <1>2, TypeCorrect, HeldAlways, PTL DEF Spec, LifeRunsDown

(* Whoever acts late on a session that is over, a host that ends what has  *)
(* expired or an operator that asks again, changes neither its end nor its *)
(* trail, until the record is purged.                                      *)
THEOREM EndsStand == Spec => EndsAreFinal
<1>1. ASSUME TypeOK, Held, [Next]_vars, NEW s \in Session, Terminal(s), Present(s)'
      PROVE  /\ sessions'[s].state = sessions[s].state
             /\ sessions'[s].audit = sessions[s].audit
  <2>1. /\ sessions[s].state \in TerminalStates /\ sessions[s].state \notin LiveStates
        /\ Present(s)
    BY <1>1 DEF Terminal, Present, LiveStates, TerminalStates
  <2>2. sessions'[s] # Absent
    BY <1>1 DEF Present, Absent
  <2>. QED  BY <1>1, <2>1, <2>2, EveryLifeSteps DEF LifeStep, Lasting, Ending
<1>2. TypeOK /\ Held /\ [Next]_vars =>
        [\A s \in Session : (Terminal(s) /\ Present(s)') =>
           /\ sessions'[s].state = sessions[s].state
           /\ sessions'[s].audit = sessions[s].audit]_vars
  BY <1>1
<1>. QED  BY <1>2, TypeCorrect, HeldAlways, PTL DEF Spec, EndsAreFinal

(* No handler and no timer forgets a session that has not ended, nor the   *)
(* end of one before its retention is over.                                *)
THEOREM RecordsRetained == Spec => RecordsAreRetained
<1>1. ASSUME TypeOK, Held, [Next]_vars, NEW s \in Session, Present(s), ~Present(s)'
      PROVE  Terminal(s) /\ sessions[s].purgeIn = 0
  <2>1. ~Lasting(sessions[s], sessions'[s]) /\ ~Ending(sessions[s], sessions'[s])
    BY <1>1 DEF Present, Lasting, Ending, LiveStates, TerminalStates
  <2>. QED  BY <1>1, <2>1, EveryLifeSteps DEF LifeStep
<1>2. TypeOK /\ Held /\ [Next]_vars =>
        [\A s \in Session : (Present(s) /\ ~Present(s)') =>
           Terminal(s) /\ sessions[s].purgeIn = 0]_vars
  BY <1>1
<1>. QED  BY <1>2, TypeCorrect, HeldAlways, PTL DEF Spec, RecordsAreRetained

(* With timers that are never early (TIMER_SLACK = 0) no live session is   *)
(* ever without its timer; with early ones it is so only in the slack that *)
(* is left, where the next call on the session ends it.                    *)
THEOREM ExpiryArmed == Spec => []ExpiryStaysArmed
<1>1. Init => ExpiryStaysArmed
  BY DEF Init, ExpiryStaysArmed, Live, LiveStates, Absent
<1>2. TypeOK /\ Held /\ ExpiryStaysArmed /\ [Next]_vars => ExpiryStaysArmed'
  <2>. SUFFICES ASSUME TypeOK, Held, ExpiryStaysArmed, [Next]_vars,
                       NEW s \in Session, Live(s)', ~sessions'[s].expiryTimer
                PROVE  TIMER_SLACK > 0 /\ sessions'[s].expiresIn <= TIMER_SLACK
    BY DEF ExpiryStaysArmed
  <2>1. sessions[s].expiresIn \in Nat /\ TIMER_SLACK \in Nat
    BY Constants DEF TypeOK, SessionsOK, SessionRecord
  <2>2. CASE Lasting(sessions[s], sessions'[s])
    <3>1. Live(s)
      BY <2>2 DEF Lasting, Live
    <3>2. \/ sessions'[s].expiresIn = sessions[s].expiresIn
          \/ sessions'[s].expiresIn = Less(sessions[s].expiresIn)
      BY <2>2 DEF Lasting
    <3>3. CASE ~sessions[s].expiryTimer
      <4>1. TIMER_SLACK > 0 /\ sessions[s].expiresIn <= TIMER_SLACK
        BY <3>1, <3>3 DEF ExpiryStaysArmed
      <4>. QED  BY <2>1, <3>2, <4>1 DEF Less
    <3>4. CASE sessions[s].expiryTimer
      <4>1. sessions'[s].expiryTimer # sessions[s].expiryTimer
        BY <3>4
      <4>. QED  BY <2>1, <2>2, <4>1 DEF Lasting
    <3>. QED  BY <3>3, <3>4
  <2>3. ~Ending(sessions[s], sessions'[s]) /\ sessions'[s] # Absent
    BY DEF Ending, Live, Absent, LiveStates, TerminalStates
  <2>4. ~\E ip \in Ip, code \in Code : sessions'[s] = NewSession(ip, code)
    BY DEF NewSession, Absent
  <2>. QED  BY <2>2, <2>3, <2>4, EveryLifeSteps DEF LifeStep
<1>. QED  BY <1>1, <1>2, TypeCorrect, HeldAlways, PTL DEF Spec
=============================================================================
