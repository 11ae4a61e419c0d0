---------------------------- MODULE PromiseProofs ----------------------------
(***************************************************************************)
(* The portal implements the promise of attended support: every handler    *)
(* and every timer is a step of Consent or none, for every value of the    *)
(* constants.  And what the relays write follows the grants.               *)
(***************************************************************************)
EXTENDS SessionProofs

-----------------------------------------------------------------------------
(* What the states mean, and how they change.                              *)

SameMeaning(s) ==
  /\ Attended'[s] = Attended[s] /\ Asked'[s] = Asked[s] /\ Grants'[s] = Grants[s]

LEMMA SameStateSameMeaning ==
  ASSUME NEW s \in Session, sessions'[s].state = sessions[s].state
  PROVE  SameMeaning(s)
BY DEF SameMeaning, Attended, Asked, Grants, Live

(* Nobody attends a session that waits, is over or is not there.           *)
LEMMA Unattended ==
  ASSUME NEW s \in Session,
         sessions[s].state \in TerminalStates \cup {"ABSENT", "CREATED"}
  PROVE  Attended[s] = FALSE /\ Asked[s] = "nothing" /\ Grants[s] = {}
BY DEF Attended, Asked, Grants, Live, LiveStates, TerminalStates

LEMMA UnattendedNext ==
  ASSUME NEW s \in Session,
         sessions'[s].state \in TerminalStates \cup {"ABSENT", "CREATED"}
  PROVE  Attended'[s] = FALSE /\ Asked'[s] = "nothing" /\ Grants'[s] = {}
BY DEF Attended, Asked, Grants, Live, LiveStates, TerminalStates

LEMMA Meanings ==
  /\ Attended = [s \in Session |-> Attended[s]]
  /\ Asked = [s \in Session |-> Asked[s]]
  /\ Grants = [s \in Session |-> Grants[s]]
  /\ Attended' = [s \in Session |-> Attended'[s]]
  /\ Asked' = [s \in Session |-> Asked'[s]]
  /\ Grants' = [s \in Session |-> Grants'[s]]
BY DEF Attended, Asked, Grants

LEMMA NothingMeant ==
  ASSUME \A s \in Session : SameMeaning(s)
  PROVE  UNCHANGED Promise!vars
BY Meanings DEF SameMeaning, Promise!vars

LEMMA Closes ==
  ASSUME NEW S \in SUBSET Session,
         \A s \in S : sessions'[s].state \in TerminalStates \cup {"ABSENT", "CREATED"},
         \A s \in Session \ S : SameMeaning(s)
  PROVE  Promise!Next
<1>1. \A s \in S : Attended'[s] = FALSE /\ Asked'[s] = "nothing" /\ Grants'[s] = {}
  BY UnattendedNext
<1>2. Promise!Close(S)
  BY <1>1, Meanings DEF SameMeaning, Promise!Close
<1>. QED  BY <1>2 DEF Promise!Next

(* What each state with a host in it means.                                *)
Means(state, attended, asked, grants) ==
  /\ state = "HOST_JOINED" => attended = TRUE /\ asked = "nothing" /\ grants = {}
  /\ state = "VIEW_PENDING" => attended = TRUE /\ asked = "view" /\ grants = {}
  /\ state = "VIEW_ACTIVE" => attended = TRUE /\ asked = "nothing" /\ grants = {"view"}
  /\ state = "CONTROL_PENDING" =>
       attended = TRUE /\ asked = "control" /\ grants = {"view"}
  /\ state = "CONTROL_ACTIVE" =>
       attended = TRUE /\ asked = "nothing" /\ grants = {"view", "control"}

LEMMA MeansNow ==
  ASSUME NEW s \in Session
  PROVE  Means(sessions[s].state, Attended[s], Asked[s], Grants[s])
<1>1. CASE sessions[s].state = "HOST_JOINED"
  BY <1>1 DEF Means, Attended, Asked, Grants, Live, LiveStates
<1>2. CASE sessions[s].state = "VIEW_PENDING"
  BY <1>2 DEF Means, Attended, Asked, Grants, Live, LiveStates
<1>3. CASE sessions[s].state = "VIEW_ACTIVE"
  BY <1>3 DEF Means, Attended, Asked, Grants, Live, LiveStates
<1>4. CASE sessions[s].state = "CONTROL_PENDING"
  BY <1>4 DEF Means, Attended, Asked, Grants, Live, LiveStates
<1>5. CASE sessions[s].state = "CONTROL_ACTIVE"
  BY <1>5 DEF Means, Attended, Asked, Grants, Live, LiveStates
<1>. QED  BY <1>1, <1>2, <1>3, <1>4, <1>5 DEF Means

LEMMA MeansNext ==
  ASSUME NEW s \in Session
  PROVE  Means(sessions'[s].state, Attended'[s], Asked'[s], Grants'[s])
<1>1. CASE sessions'[s].state = "HOST_JOINED"
  BY <1>1 DEF Means, Attended, Asked, Grants, Live, LiveStates
<1>2. CASE sessions'[s].state = "VIEW_PENDING"
  BY <1>2 DEF Means, Attended, Asked, Grants, Live, LiveStates
<1>3. CASE sessions'[s].state = "VIEW_ACTIVE"
  BY <1>3 DEF Means, Attended, Asked, Grants, Live, LiveStates
<1>4. CASE sessions'[s].state = "CONTROL_PENDING"
  BY <1>4 DEF Means, Attended, Asked, Grants, Live, LiveStates
<1>5. CASE sessions'[s].state = "CONTROL_ACTIVE"
  BY <1>5 DEF Means, Attended, Asked, Grants, Live, LiveStates
<1>. QED  BY <1>1, <1>2, <1>3, <1>4, <1>5 DEF Means

(* One session moves.                                                      *)
OneMoves(s, attended, asked, grants) ==
  /\ Attended' = [Attended EXCEPT ![s] = attended]
  /\ Asked' = [Asked EXCEPT ![s] = asked]
  /\ Grants' = [Grants EXCEPT ![s] = grants]

LEMMA MovesAlone ==
  ASSUME NEW s \in Session, \A x \in Session \ {s} : SameMeaning(x)
  PROVE  OneMoves(s, Attended'[s], Asked'[s], Grants'[s])
BY Meanings DEF SameMeaning, OneMoves

LEMMA ExceptItself ==
  ASSUME NEW s \in Session, NEW f, f = [x \in Session |-> f[x]], NEW v, f[s] = v
  PROVE  [f EXCEPT ![s] = v] = f
OBVIOUS

LEMMA Unmoved ==
  ASSUME NEW s \in Session, OneMoves(s, Attended'[s], Asked'[s], Grants'[s])
  PROVE  /\ Attended'[s] = Attended[s] => Attended' = Attended
         /\ Asked'[s] = Asked[s] => Asked' = Asked
         /\ Grants'[s] = Grants[s] => Grants' = Grants
<1>1. ASSUME Attended'[s] = Attended[s]
      PROVE  Attended' = Attended
  <2>1. [Attended EXCEPT ![s] = Attended'[s]] = Attended
    BY <1>1, Meanings, ExceptItself, Zenon
  <2>. QED  BY <2>1 DEF OneMoves
<1>2. ASSUME Asked'[s] = Asked[s]
      PROVE  Asked' = Asked
  <2>1. [Asked EXCEPT ![s] = Asked'[s]] = Asked
    BY <1>2, Meanings, ExceptItself, Zenon
  <2>. QED  BY <2>1 DEF OneMoves
<1>3. ASSUME Grants'[s] = Grants[s]
      PROVE  Grants' = Grants
  <2>1. [Grants EXCEPT ![s] = Grants'[s]] = Grants
    BY <1>3, Meanings, ExceptItself, Zenon
  <2>. QED  BY <2>1 DEF OneMoves
<1>. QED  BY <1>1, <1>2, <1>3

LEMMA MoveKept ==
  ASSUME NEW s \in Session, NEW move \in OperatorRequests \cup HostActions,
         sessions[s].state \in move.from, sessions'[s].state = move.to,
         \A x \in Session \ {s} : SameMeaning(x)
  PROVE  Promise!Next
<1>1. /\ Attended = [x \in Session |-> Attended[x]]
      /\ Asked = [x \in Session |-> Asked[x]]
      /\ Grants = [x \in Session |-> Grants[x]]
  BY Meanings
<1>2. OneMoves(s, Attended'[s], Asked'[s], Grants'[s])
  BY MovesAlone
<1>3. Means(sessions[s].state, Attended[s], Asked[s], Grants[s])
      /\ Means(sessions'[s].state, Attended'[s], Asked'[s], Grants'[s])
  BY MeansNow, MeansNext
<1>4. CASE move = ViewRequest
  <2>1. sessions[s].state = "HOST_JOINED" /\ sessions'[s].state = "VIEW_PENDING"
    BY <1>4 DEF ViewRequest, Transition
  <2>2. /\ Attended[s] = TRUE /\ Asked[s] = "nothing" /\ Grants[s] = {}
        /\ Attended'[s] = TRUE /\ Asked'[s] = "view" /\ Grants'[s] = {}
    BY <1>3, <2>1 DEF Means
  <2>3. /\ Attended' = Attended /\ Grants' = Grants
        /\ Asked' = [Asked EXCEPT ![s] = "view"]
    BY <1>2, <2>2, Unmoved DEF OneMoves
  <2>4. Promise!Ask(s, "view")
    BY <2>2, <2>3 DEF Promise!Ask, Promise!Askable
  <2>. QED  BY <2>4 DEF Promise!Next, Promise!Thing
<1>5. CASE move = ControlRequest
  <2>1. sessions[s].state = "VIEW_ACTIVE" /\ sessions'[s].state = "CONTROL_PENDING"
    BY <1>5 DEF ControlRequest, Transition
  <2>2. /\ Attended[s] = TRUE /\ Asked[s] = "nothing" /\ Grants[s] = {"view"}
        /\ Attended'[s] = TRUE /\ Asked'[s] = "control" /\ Grants'[s] = {"view"}
    BY <1>3, <2>1 DEF Means
  <2>3. /\ Attended' = Attended /\ Grants' = Grants
        /\ Asked' = [Asked EXCEPT ![s] = "control"]
    BY <1>2, <2>2, Unmoved DEF OneMoves
  <2>4. Promise!Ask(s, "control")
    BY <2>2, <2>3 DEF Promise!Ask, Promise!Askable
  <2>. QED  BY <2>4 DEF Promise!Next, Promise!Thing
<1>6. CASE move \in {ApproveView, ApproveControl}
  <2>1. \/ sessions[s].state = "VIEW_PENDING" /\ sessions'[s].state = "VIEW_ACTIVE"
        \/ sessions[s].state = "CONTROL_PENDING" /\ sessions'[s].state = "CONTROL_ACTIVE"
    BY <1>6 DEF ApproveView, ApproveControl, Transition
  <2>2. /\ Attended[s] = TRUE /\ Asked[s] # "nothing"
        /\ Attended'[s] = TRUE /\ Asked'[s] = "nothing"
        /\ Grants'[s] = Grants[s] \cup {Asked[s]}
    BY <1>3, <2>1 DEF Means
  <2>3. /\ Attended' = Attended /\ Asked' = [Asked EXCEPT ![s] = "nothing"]
        /\ Grants' = [Grants EXCEPT ![s] = Grants[s] \cup {Asked[s]}]
    BY <1>2, <2>2, Unmoved DEF OneMoves
  <2>4. Promise!Grant(s)
    BY <2>2, <2>3 DEF Promise!Grant, Promise!Granted
  <2>. QED  BY <2>4 DEF Promise!Next
<1>7. CASE move \in {DenyView, DenyControl}
  <2>1. \/ sessions[s].state = "VIEW_PENDING" /\ sessions'[s].state = "HOST_JOINED"
        \/ sessions[s].state = "CONTROL_PENDING" /\ sessions'[s].state = "VIEW_ACTIVE"
    BY <1>7 DEF DenyView, DenyControl, Transition
  <2>2. /\ Attended[s] = TRUE /\ Asked[s] # "nothing"
        /\ Attended'[s] = TRUE /\ Asked'[s] = "nothing" /\ Grants'[s] = Grants[s]
    BY <1>3, <2>1 DEF Means
  <2>3. /\ Attended' = Attended /\ Asked' = [Asked EXCEPT ![s] = "nothing"]
        /\ Grants' = Grants
    BY <1>2, <2>2, Unmoved DEF OneMoves
  <2>4. Promise!Refuse(s)
    BY <2>2, <2>3 DEF Promise!Refuse
  <2>. QED  BY <2>4 DEF Promise!Next
<1>8. CASE move = RevokeControl
  <2>1. sessions[s].state \in {"CONTROL_ACTIVE", "CONTROL_PENDING"}
        /\ sessions'[s].state = "VIEW_ACTIVE"
    BY <1>8 DEF RevokeControl, Transition
  <2>2. /\ Attended[s] = TRUE /\ Attended'[s] = TRUE /\ Asked'[s] = "nothing"
        /\ Grants'[s] = Grants[s] \ {"control"}
    BY <1>3, <2>1 DEF Means
  <2>3. /\ Attended' = Attended /\ Asked' = [Asked EXCEPT ![s] = "nothing"]
        /\ Grants' = [Grants EXCEPT ![s] = @ \ {"control"}]
    BY <1>2, <2>2, Unmoved DEF OneMoves
  <2>4. Promise!Revoke(s)
    BY <2>3 DEF Promise!Revoke
  <2>. QED  BY <2>4 DEF Promise!Next
<1>. QED  BY <1>4, <1>5, <1>6, <1>7, <1>8 DEF OperatorRequests, HostActions

-----------------------------------------------------------------------------
(* Every step is a step of the promise, or none.                           *)

LEMMA PromiseStep ==
  ASSUME SessionsOK, Held, [Next]_vars
  PROVE  [Promise!Next]_(Promise!vars)
<1>1. ASSUME NEW S \in SUBSET Session, Expire(S)
      PROVE  Promise!Next
  <2>1. \A s \in Session \ S : SameMeaning(s)
    BY <1>1, SameStateSameMeaning DEF Expire, Expired
  <2>. QED  BY <1>1, <2>1, ExpiredAreTerminal, Closes DEF Terminal
<1>2. ASSUME \/ \E ip \in Ip : CreateRefused(ip)
             \/ \E ip \in Ip, s \in Session : JoinLapsed(ip, s)
             \/ \E s \in Session : ExpireOnAccess(s)
      PROVE  Promise!Next
  BY <1>1, <1>2 DEF CreateRefused, JoinLapsed, ExpireOnAccess, LapsedSessions
<1>3. ASSUME NEW ip \in Ip, NEW s \in Session, NEW code \in Code,
             CreateSession(ip, s, code)
      PROVE  Promise!Next
  <2>. DEFINE S == LapsedSessions \cup {s}
  <2>1. sessions'[s].state = "CREATED"
    BY <1>3, CreationExpires, NewFields
  <2>2. \A x \in LapsedSessions : sessions'[x].state \in TerminalStates
    BY <1>3, CreationExpires DEF Terminal
  <2>3. S \in SUBSET Session
    BY DEF LapsedSessions
  <2>4. \A x \in Session \ S : SameMeaning(x)
    BY <1>3, CreationExpires, SameStateSameMeaning
  <2>. QED  BY <2>1, <2>2, <2>3, <2>4, Closes
<1>4. ASSUME NEW ip \in Ip, NEW s \in Session, Join(ip, s)
      PROVE  Promise!Next
  <2>1. /\ sessions[s].state = "CREATED" /\ sessions'[s].state = "HOST_JOINED"
        /\ \A x \in Session \ {s} : sessions'[x] = sessions[x]
    BY <1>4, SessionsAreRecords, JoinedKeepsRecord DEF Join, Joinable, SessionsOK
  <2>2. /\ Attended[s] = FALSE /\ Asked[s] = "nothing" /\ Grants[s] = {}
        /\ Attended'[s] = TRUE /\ Asked'[s] = "nothing" /\ Grants'[s] = {}
    BY <2>1, Unattended, MeansNext DEF Means
  <2>3. OneMoves(s, Attended'[s], Asked'[s], Grants'[s])
    BY <2>1, SameStateSameMeaning, MovesAlone
  <2>4. /\ Attended' = [Attended EXCEPT ![s] = TRUE]
        /\ Asked' = Asked /\ Grants' = Grants
    BY <2>2, <2>3, Unmoved DEF OneMoves
  <2>5. Promise!Attend(s)
    BY <2>2, <2>4 DEF Promise!Attend
  <2>. QED  BY <2>5 DEF Promise!Next
<1>5. ASSUME NEW s \in Session, NEW role \in Role,
             NEW move \in OperatorRequests \cup HostActions, Act(s, role, move)
      PROVE  Promise!Next
  <2>1. /\ sessions[s].state \in move.from /\ sessions'[s].state = move.to
        /\ \A x \in Session \ {s} : sessions'[x] = sessions[x]
    BY <1>5, MovesAreLive, SessionsAreRecords, MovedKeepsRecord DEF Act, Step, SessionsOK
  <2>. QED  BY <2>1, SameStateSameMeaning, MoveKept
<1>6. ASSUME NEW s \in Session, NEW role \in Role, End(s, role) \/ ReportAbuse(s, role)
      PROVE  Promise!Next
  <2>1. sessions'[s].state \in TerminalStates
        /\ \A x \in Session \ {s} : SameMeaning(x)
    BY <1>6, EndingTerminates, SameStateSameMeaning DEF Terminal
  <2>2. /\ {s} \in SUBSET Session
        /\ \A x \in {s} : sessions'[x].state \in TerminalStates \cup {"ABSENT", "CREATED"}
    BY <2>1
  <2>. QED  BY <2>1, <2>2, Closes
<1>7. ASSUME NEW s \in Session, FirePurgeTimer(s)
      PROVE  Promise!Next
  <2>1. sessions'[s].state = "ABSENT"
    BY <1>7 DEF FirePurgeTimer, SessionsOK, Absent
  <2>2. \A x \in Session \ {s} : SameMeaning(x)
    BY <1>7, SameStateSameMeaning DEF FirePurgeTimer
  <2>3. /\ {s} \in SUBSET Session
        /\ \A x \in {s} : sessions'[x].state \in TerminalStates \cup {"ABSENT", "CREATED"}
    BY <2>1
  <2>. QED  BY <2>2, <2>3, Closes
<1>8. ASSUME NEW s \in Session, FireExpiryTimer(s), sessions[s].expiresIn = 0
      PROVE  Promise!Next
  BY <1>1, <1>8 DEF FireExpiryTimer
<1>9. ASSUME \A s \in Session : sessions'[s].state = sessions[s].state
      PROVE  UNCHANGED Promise!vars
  BY <1>9, SameStateSameMeaning, NothingMeant
<1>10. ASSUME NEW s \in Session, NEW record, record.state = sessions[s].state,
              sessions' = [sessions EXCEPT ![s] = record]
       PROVE  UNCHANGED Promise!vars
  <2>1. \A x \in Session : sessions'[x].state = sessions[x].state
    BY <1>10 DEF SessionsOK
  <2>. QED  BY <1>9, <2>1
<1>11. ASSUME NEW s \in Session, NEW role \in Role, IceConfig(s, role)
       PROVE  UNCHANGED Promise!vars
  <2>1. "TURN_CREDENTIAL_ISSUED" \in Event
    BY DEF Event, Neutral
  <2>2. AddAudit(sessions[s], "TURN_CREDENTIAL_ISSUED").state = sessions[s].state
    BY <2>1, SessionsAreRecords, AuditFields
  <2>. QED  BY <1>10, <1>11, <2>2 DEF IceConfig
<1>12. ASSUME NEW s \in Session,
              \/ \E role \in Role : Signal(s, role)
              \/ \E role \in Role, text \in Text : Chat(s, role, text)
              \/ \E sequence \in InputSequence : Input(s, sequence)
              \/ FireExpiryTimer(s) /\ sessions[s].expiresIn # 0
       PROVE  UNCHANGED Promise!vars
  <2>1. sessions[s] \in SessionRecord
    BY DEF SessionsOK
  <2>2. PICK record :
          /\ sessions' = [sessions EXCEPT ![s] = record]
          /\ \/ \E v : record = [sessions[s] EXCEPT !.signalSequence = v]
             \/ \E v : record = [sessions[s] EXCEPT !.chat = v]
             \/ \E v : record = [sessions[s] EXCEPT !.lastInputSequence = v]
             \/ \E v : record = [sessions[s] EXCEPT !.expiryTimer = v]
    BY <1>12 DEF Signal, Chat, Input, FireExpiryTimer
  <2>3. record.state = sessions[s].state
    BY <2>1, <2>2 DEF SessionRecord
  <2>. QED  BY <1>10, <2>2, <2>3
<1>13. CASE Tick
  <2>1. ASSUME NEW x \in Session
        PROVE  sessions'[x].state = sessions[x].state
    <3>1. sessions[x] \in SessionRecord
      BY DEF SessionsOK
    <3>2. sessions'[x] = [sessions[x] EXCEPT !.expiresIn = Less(@), !.purgeIn = Less(@)]
      BY <1>13 DEF Tick
    <3>. QED  BY <3>1, <3>2 DEF SessionRecord
  <2>. QED  BY <1>9, <2>1
<1>14. ASSUME \/ EventsRefused
              \/ \E ip \in Ip : RequestLimited(ip) \/ JoinRefused(ip)
              \/ \E s \in Session, role \in Role :
                   \/ TokenLimited(s, role) \/ SignalLimited(s, role)
                   \/ ChatLimited(s, role)
                   \/ \E t \in Token : IssueEventToken(s, role, t)
              \/ \E t \in Token : OpenEvents(t) \/ CloseEvents(t)
              \/ \E s \in Session : InputDropped(s)
              \/ UNCHANGED vars
       PROVE  UNCHANGED Promise!vars
  <2>1. sessions' = sessions
    BY <1>14 DEF EventsRefused, RequestLimited, JoinRefused, TokenLimited, SignalLimited,
       ChatLimited, IssueEventToken, OpenEvents, CloseEvents, InputDropped, vars
  <2>. QED  BY <1>9, <2>1
<1>. QED
  BY <1>2, <1>3, <1>4, <1>5, <1>6, <1>7, <1>8, <1>11, <1>12, <1>13, <1>14 DEF Next

(* Whatever participants, timers and clock do, and however many there are, *)
(* what a session grants is what its host granted when it was asked.       *)
THEOREM KeepsItsPromise == Spec => ConsentIsKept
<1>1. Init => Promise!Init
  <2>. SUFFICES ASSUME Init
                PROVE  Promise!Init
    OBVIOUS
  <2>1. \A s \in Session : sessions[s].state = "ABSENT"
    BY DEF Init, Absent
  <2>2. \A s \in Session : Attended[s] = FALSE /\ Asked[s] = "nothing" /\ Grants[s] = {}
    BY <2>1, Unattended
  <2>. QED  BY <2>2, Meanings DEF Promise!Init
<1>2. TypeOK /\ Held /\ [Next]_vars => [Promise!Next]_(Promise!vars)
  BY PromiseStep DEF TypeOK
<1>. QED
  BY <1>1, <1>2, TypeCorrect, HeldAlways, PTL DEF Spec, ConsentIsKept, Promise!Spec

-----------------------------------------------------------------------------
(* What Consent guarantees holds of the portal.                            *)

Assured == INSTANCE ConsentProofs WITH attended <- Attended, asked <- Asked,
                                       grants <- Grants

LEMMA SamePromise ==
  /\ Assured!Init <=> Promise!Init
  /\ [Assured!Next]_(Assured!vars) <=> [Promise!Next]_(Promise!vars)
  /\ Assured!ControlNeedsView <=> Promise!ControlNeedsView
<1>1. Assured!Init <=> Promise!Init
  BY DEF Assured!Init, Promise!Init
<1>2. [Assured!Next]_(Assured!vars) <=> [Promise!Next]_(Promise!vars)
  BY DEF Assured!vars, Promise!vars, Assured!Next, Promise!Next, Assured!Attend, Promise!Attend,
         Assured!Ask, Promise!Ask, Assured!Askable, Promise!Askable, Assured!Grant,
         Promise!Grant, Assured!Granted, Promise!Granted, Assured!Refuse, Promise!Refuse,
         Assured!Revoke, Promise!Revoke, Assured!Close, Promise!Close, Assured!Thing,
         Promise!Thing
<1>3. Assured!ControlNeedsView <=> Promise!ControlNeedsView
  BY DEF Assured!ControlNeedsView, Promise!ControlNeedsView
<1>. QED  BY <1>1, <1>2, <1>3

(* No session of the portal holds or asks for control without the view, or *)
(* anything without a host.                                                *)
THEOREM PortalControlNeedsView == Spec => []Promise!ControlNeedsView
<1>1. Assured!Spec => []Assured!ControlNeedsView
  BY Assured!ControlWithView
<1>. QED
  BY <1>1, KeepsItsPromise, SamePromise, PTL
  DEF ConsentIsKept, Promise!Spec, Assured!Spec

(* Whatever the portal grants, the operator was waiting for it, in a       *)
(* session that a host had joined.                                         *)
THEOREM PortalGrantsWereAsked == Spec => Promise!GrantsWereAsked
<1>1. Assured!Spec => Assured!GrantsWereAsked
  BY Assured!GrantsFollowRequests
<1>2. Assured!GrantsWereAsked => Promise!GrantsWereAsked
  BY PTL DEF Assured!GrantsWereAsked, Promise!GrantsWereAsked, Assured!vars, Promise!vars
<1>. QED
  BY <1>1, <1>2, KeepsItsPromise, SamePromise, PTL
  DEF ConsentIsKept, Promise!Spec, Assured!Spec
=============================================================================
