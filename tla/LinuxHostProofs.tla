--------------------------- MODULE LinuxHostProofs ---------------------------
(***************************************************************************)
(* Proofs about the Linux host, for every value of the constants.          *)
(***************************************************************************)
EXTENDS LinuxHost, TLAPS

-----------------------------------------------------------------------------
(* The operators that the model is built from.                             *)

(* Injecting a batch holds down only what the display has.                 *)
LEMMA PressedIsTyped ==
  ASSUME NEW path, NEW down \in SUBSET Details(path),
         NEW events \in Seq(InputEvent)
  PROVE  Pressed(path, down, events) \in SUBSET Details(path)
<1>1. ASSUME NEW i \in Deciding(path, events)
      PROVE  Detail(path, events[i]) \in Details(path)
  <2>1. i \in DOMAIN events /\ events[i] # Motion /\ Supported(path, events[i])
    <3>1. i \in DOMAIN events /\ events[i] # Motion
      BY DEF Deciding, Injected
    <3>2. DOMAIN events = 1 .. Len(events) /\ Len(events) \in Nat
      OBVIOUS
    <3>3. i \in 1 .. i
      BY <3>1, <3>2
    <3>. QED  BY <3>1, <3>3 DEF Deciding, Injected
  <2>2. events[i] \in InputEvent
    BY <2>1
  <2>3. /\ events[i].kind \in {"key", "button"}
        /\ events[i].name \in DOMAIN Codes(path, events[i].kind)
    BY <2>1, <2>2 DEF InputEvent, Supported
  <2>. QED  BY <2>3 DEF Detail, Details
<1>. QED  BY <1>1 DEF Pressed

LEMMA Constants ==
  /\ MAX_ASKS \in Nat /\ MAX_BATCHES \in Nat
  /\ MAX_INBOUND \in Nat /\ MAX_OUTBOUND \in Nat
  /\ Batch \subseteq Seq(InputEvent)
  /\ BrowserMoves \subseteq HostActions
  /\ Signals \subseteq SignalKind
BY ParticipantsAssumption, BoundsAssumption

LEMMA States ==
  /\ \A move \in {ViewRequest, ControlRequest, ApproveView, DenyView,
                  ApproveControl, DenyControl, RevokeControl} :
       move.to \in LiveStates
  /\ SharingStates \subseteq LiveStates
  /\ LiveStates \cap TerminalStates = {}
BY DEF ViewRequest, ControlRequest, ApproveView, DenyView, ApproveControl,
       DenyControl, RevokeControl, Transition, LiveStates, SharingStates,
       TerminalStates

(* What the portal writes to the stream is queued behind what is there.    *)
LEMMA WrittenIsTyped ==
  ASSUME NEW queue \in Seq(Event), NEW event \in Event
  PROVE  Written(queue, event) \in Seq(Event)
BY DEF Written

LEMMA BecomesIsTyped ==
  ASSUME TypeOK, NEW s \in LiveStates \cup TerminalStates, Becomes(s)
  PROVE  /\ state' \in LiveStates \cup TerminalStates
         /\ inbound' \in Seq(Event)
         /\ subscribed' \in BOOLEAN
<1>1. SessionEvent(s) \in Event
  BY DEF SessionEvent, Event
<1>. QED  BY <1>1, WrittenIsTyped DEF Becomes, TypeOK

-----------------------------------------------------------------------------
(* Types.                                                                  *)

PortalTypes ==
  /\ state \in LiveStates \cup TerminalStates
  /\ asks \in 0 .. MAX_ASKS /\ batches \in 0 .. MAX_BATCHES
  /\ subscribed \in BOOLEAN
  /\ inbound \in Seq(Event)

CallTypes ==
  /\ call \in [action : Action \cup {"none"},
               status : {"none", "sent", "ok", "failed"}, grant : 0 .. MAX_ASKS]
  /\ at \in Place
  /\ IF at \in Action THEN call.action = at /\ call.status # "none"
                      ELSE call = NoCall

LocalTypes ==
  /\ env \in Environments /\ step \in 0 .. 5 /\ picked \in BOOLEAN
  /\ approval \in Approval
  /\ prompted \in BOOLEAN /\ controller \in BOOLEAN /\ lost \in BOOLEAN
  /\ lastSequence \in {NoSequence} \cup 0 .. MAX_BATCHES
  /\ held \subseteq Details(Path) /\ heldGrant \in 0 .. MAX_ASKS

MediaTypes ==
  /\ sender \in {"none", "playing", "null"} /\ relay \in BOOLEAN
  /\ negotiated \in BOOLEAN /\ outbound \in 0 .. MAX_OUTBOUND

LEMMA Parts ==
  /\ TypeOK => PortalTypes /\ CallTypes /\ LocalTypes /\ MediaTypes
  /\ PortalTypes /\ CallTypes /\ LocalTypes /\ MediaTypes => TypeOK
  /\ PortalTypes' /\ CallTypes' /\ LocalTypes' /\ MediaTypes' => TypeOK'
BY DEF TypeOK, PortalTypes, CallTypes, LocalTypes, MediaTypes

LEMMA RestingParts ==
  /\ LocalTypes /\ UNCHANGED <<desktop, local>> => LocalTypes'
  /\ MediaTypes /\ UNCHANGED media => MediaTypes'
  /\ CallTypes /\ UNCHANGED <<call, at>> => CallTypes'
<1>1. LocalTypes /\ UNCHANGED <<desktop, local>> => LocalTypes'
  BY DEF LocalTypes, desktop, local, input, Path
<1>2. MediaTypes /\ UNCHANGED media => MediaTypes'
  BY DEF MediaTypes, media
<1>3. CallTypes /\ UNCHANGED <<call, at>> => CallTypes'
  BY DEF CallTypes
<1>. QED  BY <1>1, <1>2, <1>3

LEMMA AnsweredIsTyped ==
  ASSUME TypeOK, call.status = "sent", NEW status \in {"ok", "failed"},
         Answer(status)
  PROVE  CallTypes' /\ LocalTypes' /\ MediaTypes'
<1>1. LocalTypes' /\ MediaTypes'
  BY Parts, RestingParts DEF Answer
<1>2. call' = [call EXCEPT !.status = status, !.grant = asks] /\ at' = at
  BY DEF Answer
<1>3. asks \in 0 .. MAX_ASKS
  BY DEF TypeOK
<1>4. at \in Action /\ call.action = at
  BY DEF TypeOK, NoCall
<1>5. CallTypes
  BY Parts
<1>6. CallTypes'
  BY <1>2, <1>3, <1>4, <1>5 DEF CallTypes
<1>. QED  BY <1>1, <1>6

LEMMA TypesInitially == Init => TypeOK
<1>. SUFFICES ASSUME Init PROVE TypeOK
  OBVIOUS
<1>1. 0 \in 0 .. MAX_ASKS /\ 0 \in 0 .. MAX_BATCHES /\ 0 \in 0 .. MAX_OUTBOUND
  BY Constants
<1>2. PortalTypes
  <2>1. <<>> \in Seq(Event)
    OBVIOUS
  <2>. QED  BY <1>1, <2>1 DEF Init, PortalTypes, LiveStates
<1>3. CallTypes
  BY Constants DEF Init, CallTypes, NoCall, Action, Place
<1>4. LocalTypes
  <2>1. approval \in Approval /\ step \in 0 .. 5
    BY DEF Init, NotJoined, Approval, Permission
  <2>. QED  BY <1>1, <2>1 DEF Init, LocalTypes
<1>5. MediaTypes
  BY <1>1 DEF Init, MediaTypes
<1>. QED  BY <1>2, <1>3, <1>4, <1>5, Parts

LEMMA TypesOfPortal ==
  ASSUME TypeOK, Handle \/ Lose \/ FailStream \/ CloseStream
  PROVE  TypeOK'
<1>1. CASE Lose
  <2>1. PortalTypes'
    BY <1>1 DEF Lose, Answer, TypeOK, PortalTypes
  <2>. QED  BY <1>1, <2>1, AnsweredIsTyped, Parts DEF Lose
<1>2. CASE FailStream
  <2>1. inbound' \in Seq(Event)
    BY <1>2 DEF FailStream, TypeOK, Event
  <2>2. PortalTypes'
    BY <1>2, <2>1 DEF FailStream, TypeOK, PortalTypes
  <2>. QED  BY <1>2, <2>2, Parts, RestingParts DEF FailStream
<1>3. CASE CloseStream
  <2>1. PortalTypes'
    BY <1>3 DEF CloseStream, TypeOK, PortalTypes
  <2>. QED  BY <1>3, <2>1, Parts, RestingParts DEF CloseStream
<1>4. CASE Handle
  <2>1. ASSUME NEW action \in Action, Effect(action)
        PROVE  /\ state' \in LiveStates \cup TerminalStates
               /\ inbound' \in Seq(Event)
               /\ subscribed' \in BOOLEAN
    <3>1. CASE action \in {"approve-view", "approve-control", "deny-control", "end"}
      <4>1. PICK s \in LiveStates \cup TerminalStates : Becomes(s)
        BY <2>1, <3>1, States DEF Effect, TerminalStates
      <4>. QED  BY <4>1, BecomesIsTyped
    <3>2. CASE action = "events"
      <4>1. SessionEvent(state) \in Event
        BY DEF TypeOK, SessionEvent, Event
      <4>2. inbound' = <<SessionEvent(state)>> /\ subscribed' = TRUE /\ state' = state
        BY <2>1, <3>2 DEF Effect
      <4>. QED  BY <4>1, <4>2 DEF TypeOK
    <3>3. CASE action \in {"event-token", "ice-config", "signal"}
      BY <2>1, <3>3 DEF Effect, TypeOK
    <3>. QED  BY <3>1, <3>2, <3>3 DEF Action
  <2>2. call.action \in Action
    BY <1>4 DEF Handle, TypeOK, NoCall
  <2>3. /\ state' \in LiveStates \cup TerminalStates
        /\ inbound' \in Seq(Event)
        /\ subscribed' \in BOOLEAN
    BY <1>4, <2>1, <2>2 DEF Handle, TypeOK
  <2>4. PICK status \in {"ok", "failed"} : call.status = "sent" /\ Answer(status)
    BY <1>4 DEF Handle
  <2>5. PortalTypes'
    BY <2>3, <2>4 DEF Answer, TypeOK, PortalTypes
  <2>. QED  BY <2>4, <2>5, AnsweredIsTyped, Parts
<1>. QED  BY <1>1, <1>2, <1>3, <1>4

LEMMA TypesOfOthers ==
  ASSUME TypeOK,
         \/ AskView \/ AskControl
         \/ \E move \in BrowserMoves : BrowserHostActs(move)
         \/ \E events \in Batch : SendBatch(events)
         \/ \E signal \in Signals : SendSignal(signal)
         \/ SessionEnds
  PROVE  TypeOK'
<1>1. Others
  BY DEF AskView, AskControl, BrowserHostActs, SessionEnds, SendBatch, SendSignal
<1>2. CallTypes' /\ LocalTypes' /\ MediaTypes'
  BY <1>1, Parts, RestingParts DEF Others
<1>3. CASE AskView \/ AskControl \/ (\E move \in BrowserMoves : BrowserHostActs(move))
           \/ SessionEnds
  <2>1. PICK s \in LiveStates \cup TerminalStates : Becomes(s)
    BY <1>3, States, Constants
    DEF AskView, AskControl, BrowserHostActs, SessionEnds, HostActions
  <2>2. /\ state' \in LiveStates \cup TerminalStates
        /\ inbound' \in Seq(Event)
        /\ subscribed' \in BOOLEAN
    BY <2>1, BecomesIsTyped
  <2>3. asks' \in 0 .. MAX_ASKS /\ batches' = batches
    BY <1>3, Constants DEF AskView, AskControl, BrowserHostActs, SessionEnds, TypeOK
  <2>4. PortalTypes'
    BY <2>2, <2>3 DEF PortalTypes, TypeOK
  <2>. QED  BY <1>2, <2>4, Parts
<1>4. ASSUME NEW events \in Batch, SendBatch(events)
      PROVE  TypeOK'
  <2>1. InputEnvelope(NewSequence, events, asks) \in Event
    BY <1>4, Constants DEF TypeOK, InputEnvelope, NewSequence, Event
  <2>2. inbound' \in Seq(Event)
    BY <1>4, <2>1, WrittenIsTyped DEF SendBatch, TypeOK
  <2>3. PortalTypes'
    BY <1>4, <2>2, Constants DEF SendBatch, TypeOK, PortalTypes
  <2>. QED  BY <1>2, <2>3, Parts
<1>5. ASSUME NEW signal \in Signals, SendSignal(signal)
      PROVE  TypeOK'
  <2>1. SignalEnvelope(signal) \in Event
    BY DEF SignalEnvelope, Event
  <2>2. inbound' \in Seq(Event)
    BY <1>5, <2>1, WrittenIsTyped DEF SendSignal, TypeOK
  <2>3. PortalTypes'
    BY <1>5, <2>2 DEF SendSignal, TypeOK, PortalTypes
  <2>. QED  BY <1>2, <2>3, Parts
<1>. QED  BY <1>3, <1>4, <1>5

(* What the agent's own steps do to the call and to the stream.            *)
LEMMA StepsOfTheAgent ==
  ASSUME TypeOK
  PROVE  /\ Exit => /\ CallTypes' /\ inbound' \in Seq(Event) /\ subscribed' \in BOOLEAN
                    /\ step' \in 0 .. 5 /\ picked' \in BOOLEAN
         /\ \A action \in Action : Request(action) => CallTypes'
         /\ \A place \in Place \ Action :
              at' = place /\ call' = NoCall => CallTypes'
         /\ at \notin Action => call = NoCall
         /\ PortalRests /\ inbound' \in Seq(Event) /\ subscribed' \in BOOLEAN
              => PortalTypes'
         /\ inbound # <<>> => Head(inbound) \in Event /\ Tail(inbound) \in Seq(Event)
<1>1. ASSUME Exit
      PROVE  /\ CallTypes' /\ inbound' \in Seq(Event) /\ subscribed' \in BOOLEAN
             /\ step' \in 0 .. 5 /\ picked' \in BOOLEAN
  <2>1. NoCall \in [action : Action \cup {"none"},
                    status : {"none", "sent", "ok", "failed"}, grant : 0 .. MAX_ASKS]
    BY Constants DEF NoCall
  <2>2. <<>> \in Seq(Event)
    OBVIOUS
  <2>3. /\ at' = "exited" /\ call' = NoCall /\ inbound' = <<>> /\ step' = 0
        /\ subscribed' = FALSE /\ picked' = FALSE
    BY <1>1, Zenon DEF Exit
  <2>4. CallTypes'
    BY <2>1, <2>3 DEF CallTypes, Place, Action
  <2>5. step' \in 0 .. 5 /\ inbound' \in Seq(Event)
    BY <2>2, <2>3
  <2>6. subscribed' \in BOOLEAN /\ picked' \in BOOLEAN
    BY <2>3
  <2>. QED  BY <2>4, <2>5, <2>6
<1>2. ASSUME NEW action \in Action, Request(action)
      PROVE  CallTypes'
  <2>1. 0 \in 0 .. MAX_ASKS
    BY Constants
  <2>. QED  BY <1>2, <2>1 DEF Request, CallTypes, Place
<1>3. ASSUME NEW place \in Place \ Action, at' = place, call' = NoCall
      PROVE  CallTypes'
  BY <1>3, Constants DEF CallTypes, NoCall
<1>4. at \notin Action => call = NoCall
  BY DEF TypeOK
<1>5. ASSUME PortalRests, inbound' \in Seq(Event), subscribed' \in BOOLEAN
      PROVE  PortalTypes'
  BY <1>5 DEF PortalRests, PortalTypes, TypeOK
<1>6. ASSUME inbound # <<>>
      PROVE  Head(inbound) \in Event /\ Tail(inbound) \in Seq(Event)
  BY <1>6 DEF TypeOK
<1>. QED  BY <1>1, <1>2, <1>3, <1>4, <1>5, <1>6

LEMMA Approvals ==
  ASSUME NEW a \in Approval
  PROVE  /\ ViewApproval(a) \in Approval /\ ControlApproval(a) \in Approval
         /\ ControlRevoked(a) \in Approval
         /\ HostJoined \in Approval /\ NotJoined \in Approval
BY DEF ViewApproval, ControlApproval, ControlRevoked, HostJoined, NotJoined,
       Approval, Permission

LEMMA TypesOfStart ==
  ASSUME TypeOK, Start \/ Share \/ Capture
  PROVE  TypeOK'
<1>. USE Parts, StepsOfTheAgent DEF TypeOK
<1>1. at \notin Action
  BY DEF Start, Share, Capture, Action
<1>2. MediaTypes'
  BY RestingParts DEF Start, Share, Capture, media
<1>3. CASE Start
  <2>1. approval' \in Approval
    BY <1>3, Approvals DEF Start
  <2>2. Goes("share") \/ Exit
    BY <1>3 DEF Start
  <2>3. CallTypes'
    BY <1>1, <2>2 DEF Goes, Place, Action
  <2>4. inbound' \in Seq(Event) /\ subscribed' \in BOOLEAN
        /\ step' \in 0 .. 5 /\ picked' \in BOOLEAN
    BY <2>2 DEF Goes
  <2>5. LocalTypes'
    BY <1>3, <2>1, <2>4 DEF Start, LocalTypes, input, Path
  <2>6. PortalTypes'
    BY <1>3, <2>4 DEF Start
  <2>. QED  BY <1>2, <2>3, <2>5, <2>6
<1>4. CASE Share
  <2>1. approval' \in Approval
    BY <1>4, Approvals DEF Share
  <2>2. Goes("capture") \/ Exit
    BY <1>4 DEF Share
  <2>3. CallTypes'
    BY <1>1, <2>2 DEF Goes, Place, Action
  <2>4. inbound' \in Seq(Event) /\ subscribed' \in BOOLEAN
        /\ step' \in 0 .. 5 /\ picked' \in BOOLEAN
    BY <2>2 DEF Goes
  <2>5. LocalTypes'
    BY <1>4, <2>1, <2>4 DEF Share, LocalTypes, input, Path
  <2>6. PortalTypes'
    BY <1>4, <2>4 DEF Share
  <2>. QED  BY <1>2, <2>3, <2>5, <2>6
<1>5. CASE Capture
  <2>1. \/ step < CaptureCalls /\ NextCall
        \/ Request("event-token") /\ step' = 0 /\ picked' \in BOOLEAN
             /\ UNCHANGED <<inbound, subscribed>>
        \/ Exit
    BY <1>5 DEF Capture
  <2>2. CaptureCalls \in {0, 5}
    BY DEF CaptureCalls
  <2>3. CallTypes'
    BY <1>1, <2>1, <1>5, RestingParts DEF NextCall, Action
  <2>4. inbound' \in Seq(Event) /\ subscribed' \in BOOLEAN
        /\ step' \in 0 .. 5 /\ picked' \in BOOLEAN
    BY <2>1, <2>2 DEF NextCall
  <2>5. LocalTypes'
    BY <1>5, <2>4 DEF Capture, LocalTypes, local, input, Path
  <2>6. PortalTypes'
    BY <1>5, <2>4 DEF Capture
  <2>. QED  BY <1>2, <2>3, <2>5, <2>6
<1>. QED  BY <1>3, <1>4, <1>5

(* The parts that the agent's own steps leave to be shown.                 *)
LEMMA TypesOfAgent ==
  ASSUME TypeOK, PortalRests, UNCHANGED <<env>>, CallTypes',
         inbound' \in Seq(Event), subscribed' \in BOOLEAN,
         step' \in 0 .. 5, picked' \in BOOLEAN,
         LocalTypes /\ step' \in 0 .. 5 /\ picked' \in BOOLEAN => LocalTypes',
         MediaTypes'
  PROVE  TypeOK'
BY Parts, StepsOfTheAgent

LEMMA RestingDesktop ==
  ASSUME UNCHANGED <<env, local>>, LocalTypes, step' \in 0 .. 5, picked' \in BOOLEAN
  PROVE  LocalTypes'
BY DEF LocalTypes, local, input, Path

LEMMA CallsAndExits ==
  ASSUME TypeOK, \/ \E action \in Action : Calls(action)
                 \/ Exit
  PROVE  /\ CallTypes'
         /\ inbound' \in Seq(Event) /\ subscribed' \in BOOLEAN
         /\ step' \in 0 .. 5 /\ picked' \in BOOLEAN
<1>1. ASSUME NEW action \in Action, Calls(action)
      PROVE  /\ CallTypes'
             /\ inbound' \in Seq(Event) /\ subscribed' \in BOOLEAN
             /\ step' \in 0 .. 5 /\ picked' \in BOOLEAN
  <2>1. CallTypes'
    BY <1>1, StepsOfTheAgent DEF Calls
  <2>. QED  BY <1>1, <2>1 DEF Calls, TypeOK
<1>. QED  BY <1>1, StepsOfTheAgent

LEMMA TypesOfCalls ==
  ASSUME TypeOK, Subscribe \/ StartSender \/ ViewApproved
  PROVE  TypeOK'
<1>. USE Parts, TypesOfAgent
<1>1. CASE Subscribe
  <2>1. (\E action \in Action : Calls(action)) \/ Exit
    BY <1>1 DEF Subscribe, Action
  <2>2. MediaTypes'
    BY <1>1, RestingParts DEF Subscribe
  <2>. QED  BY <1>1, <2>1, <2>2, CallsAndExits, RestingDesktop DEF Subscribe
<1>2. CASE StartSender
  <2>1. (\E action \in Action : Calls(action)) \/ Exit
    BY <1>2 DEF StartSender, Action
  <2>2. sender' \in {"none", "playing", "null"}
    BY <1>2 DEF StartSender, Starting
  <2>3. relay' \in BOOLEAN
    BY <1>2 DEF StartSender
  <2>4. MediaTypes'
    BY <1>2, <2>2, <2>3 DEF StartSender, MediaTypes
  <2>. QED  BY <1>2, <2>1, <2>4, CallsAndExits, RestingDesktop DEF StartSender
<1>3. CASE ViewApproved
  <2>1. CASE Ok
    <3>1. at' = "loop" /\ call' = NoCall
      BY <1>3, <2>1 DEF ViewApproved
    <3>2. CallTypes'
      BY <3>1, StepsOfTheAgent DEF Place, Action
    <3>3. UNCHANGED <<inbound, subscribed, step, picked, sender>>
      BY <1>3, <2>1 DEF ViewApproved
    <3>4. MediaTypes'
      BY <1>3, <3>3 DEF ViewApproved, MediaTypes
    <3>. QED  BY <1>3, <3>2, <3>3, <3>4, RestingDesktop DEF ViewApproved, TypeOK
  <2>2. CASE ~Ok
    <3>1. sender' = "null" /\ Exit
      BY <1>3, <2>2 DEF ViewApproved
    <3>2. MediaTypes'
      BY <1>3, <3>1 DEF ViewApproved, MediaTypes
    <3>. QED  BY <1>3, <3>1, <3>2, CallsAndExits, RestingDesktop DEF ViewApproved
  <2>. QED  BY <2>1, <2>2
<1>. QED  BY <1>1, <1>2, <1>3

(* Stopping the sender and dropping the controller.                        *)
LEMMA TypesOfStop ==
  ASSUME TypeOK, NEW terminated \in BOOLEAN, Stop(terminated)
  PROVE  /\ PortalTypes' /\ CallTypes' /\ MediaTypes'
         /\ step' \in 0 .. 5 /\ picked' \in BOOLEAN
<1>1. (\E action \in Action : Calls(action)) \/ Exit
  BY DEF Stop, Action
<1>2. MediaTypes'
  BY Parts DEF Stop, MediaTypes
<1>. QED  BY <1>1, <1>2, CallsAndExits, StepsOfTheAgent DEF Stop

LEMMA TypesOfDropped ==
  ASSUME LocalTypes, NEW down \in SUBSET Details(Path), DroppedHolding(down),
         UNCHANGED <<env, prompted>>, approval' \in Approval,
         step' \in 0 .. 5, picked' \in BOOLEAN
  PROVE  LocalTypes'
<1>1. held' \subseteq Details(Path)
  BY DEF DroppedHolding, Released
<1>2. 0 \in 0 .. MAX_ASKS
  BY Constants
<1>3. /\ controller' \in BOOLEAN /\ lost' \in BOOLEAN
      /\ prompted' \in BOOLEAN
  BY DEF DroppedHolding, LocalTypes
<1>4. lastSequence' \in {NoSequence} \cup 0 .. MAX_BATCHES
      /\ heldGrant' \in 0 .. MAX_ASKS
  BY <1>2 DEF DroppedHolding
<1>. QED  BY <1>1, <1>3, <1>4 DEF LocalTypes, Path

LEMMA TypesOfLeave ==
  ASSUME TypeOK, NEW terminated \in BOOLEAN, Leave(terminated)
  PROVE  TypeOK'
<1>1. Stop(terminated) /\ DroppedHolding(held) /\ held \in SUBSET Details(Path)
  BY DEF Leave, Dropped, TypeOK
<1>2. UNCHANGED <<env, approval, prompted>>
  BY <1>1 DEF Stop
<1>. QED  BY <1>1, <1>2, TypesOfStop, TypesOfDropped, Parts DEF TypeOK

(* An event is taken and the agent stays where it is.                      *)
LEMMA TypesOfTake ==
  ASSUME TypeOK, inbound # <<>>, Take, PortalRests
  PROVE  /\ PortalTypes' /\ CallTypes'
         /\ LocalTypes /\ UNCHANGED local => LocalTypes'
         /\ UNCHANGED <<env, step, picked>>
<1>1. UNCHANGED <<at, call, subscribed, env, step, picked>> /\ inbound' = Tail(inbound)
  BY DEF Take, desktop
<1>2. PortalTypes'
  BY <1>1, StepsOfTheAgent DEF TypeOK
<1>3. CallTypes'
  BY <1>1, Parts, RestingParts
<1>4. LocalTypes /\ UNCHANGED local => LocalTypes'
  BY <1>1, RestingParts DEF desktop
<1>. QED  BY <1>1, <1>2, <1>3, <1>4

LEMMA TypesOfInput ==
  ASSUME TypeOK, IgnoreInput \/ Inject \/ RejectInput \/ LoseDisplay
  PROVE  TypeOK'
<1>. USE Parts
<1>1. /\ inbound # <<>> /\ Head(inbound).kind = "input"
      /\ Head(inbound) \in Event
  BY StepsOfTheAgent DEF IgnoreInput, Inject, RejectInput, LoseDisplay, Arrived
<1>2. /\ Head(inbound).sequence \in 0 .. MAX_BATCHES
      /\ Head(inbound).events \in Seq(InputEvent)
  BY <1>1, Constants DEF Event, StreamError
<1>3. held \in SUBSET Details(Path)
  BY DEF TypeOK
<1>4. CASE IgnoreInput
  BY <1>1, <1>4, TypesOfTake, RestingParts DEF IgnoreInput
<1>5. CASE Inject
  <2>1. PortalTypes' /\ CallTypes' /\ UNCHANGED <<env, step, picked>>
    BY <1>1, <1>5, TypesOfTake DEF Inject
  <2>2. MediaTypes'
    BY <1>5, RestingParts DEF Inject
  <2>3. held' \subseteq Details(Path)
    BY <1>2, <1>3, <1>5, PressedIsTyped DEF Inject
  <2>4. lastSequence' \in {NoSequence} \cup 0 .. MAX_BATCHES
    BY <1>2, <1>5 DEF Inject
  <2>5. UNCHANGED <<approval, prompted, controller, heldGrant, lost>>
    BY <1>5 DEF Inject
  <2>6. LocalTypes'
    BY <2>1, <2>3, <2>4, <2>5 DEF LocalTypes, Path
  <2>. QED  BY <2>1, <2>2, <2>6
<1>6. CASE RejectInput
  <2>1. Stop(FALSE) /\ UNCHANGED <<env, approval, prompted>>
    BY <1>6 DEF RejectInput, Stop
  <2>2. PICK down \in SUBSET Details(Path) : DroppedHolding(down)
    BY <1>2, <1>3, <1>6, PressedIsTyped DEF RejectInput, Dropped
  <2>. QED  BY <2>1, <2>2, TypesOfStop, TypesOfDropped DEF TypeOK
<1>7. CASE LoseDisplay
  <2>1. Stop(FALSE) /\ UNCHANGED <<env, approval, prompted>>
    BY <1>7 DEF LoseDisplay, Stop
  <2>2. /\ PortalTypes' /\ CallTypes' /\ MediaTypes'
        /\ step' \in 0 .. 5 /\ picked' \in BOOLEAN
    BY <2>1, TypesOfStop
  <2>3. held' \subseteq Details(Path)
    <3>1. PICK n \in 0 .. Len(Head(inbound).events) :
            held' = IF Path = "X11Compatibility"
                    THEN Pressed(Path, held, SubSeq(Head(inbound).events, 1, n))
                    ELSE Released(Path, held)
      BY <1>7 DEF LoseDisplay
    <3>2. SubSeq(Head(inbound).events, 1, n) \in Seq(InputEvent)
      BY <1>2
    <3>3. Pressed(Path, held, SubSeq(Head(inbound).events, 1, n)) \in SUBSET Details(Path)
      BY <1>3, <3>2, PressedIsTyped
    <3>. QED  BY <3>1, <3>3 DEF Released
  <2>4. lastSequence' \in {NoSequence} \cup 0 .. MAX_BATCHES /\ heldGrant' \in 0 .. MAX_ASKS
    BY <1>7, Constants DEF LoseDisplay
  <2>5. controller' = FALSE /\ lost' = (Path = "X11Compatibility")
    BY <1>7, Zenon DEF LoseDisplay
  <2>6. controller' \in BOOLEAN /\ lost' \in BOOLEAN
    BY <2>5
  <2>7. LocalTypes'
    BY <2>1, <2>2, <2>3, <2>4, <2>6 DEF LocalTypes, Path
  <2>. QED  BY <2>2, <2>7
<1>. QED  BY <1>4, <1>5, <1>6, <1>7

LEMMA TypesOfEvents ==
  ASSUME TypeOK, HandleSignal \/ HandleSession \/ HandleError
  PROVE  TypeOK'
<1>. USE Parts
<1>1. inbound # <<>>
  BY DEF HandleSignal, HandleSession, HandleError, Arrived
<1>2. CASE \E terminated \in BOOLEAN : Leave(terminated)
  BY <1>2, TypesOfLeave
<1>3. CASE HandleSignal /\ Take /\ PortalRests
           /\ UNCHANGED <<local, sender, relay, outbound>> /\ negotiated' \in BOOLEAN
  <2>1. MediaTypes'
    BY <1>3 DEF MediaTypes
  <2>. QED  BY <1>1, <1>3, <2>1, TypesOfTake
<1>4. HandleSignal => \/ \E terminated \in BOOLEAN : Leave(terminated)
                      \/ /\ Take /\ PortalRests
                         /\ UNCHANGED <<local, sender, relay, outbound>>
                         /\ negotiated' \in BOOLEAN
  BY DEF HandleSignal, TypeOK
<1>5. ASSUME Take, Dropped, approval' = ControlRevoked(approval),
             prompted' = NoLongerPrompted, UNCHANGED media, PortalRests
      PROVE  TypeOK'
  <2>1. PortalTypes' /\ CallTypes' /\ UNCHANGED <<env, step, picked>>
    BY <1>1, <1>5, TypesOfTake
  <2>2. MediaTypes'
    BY <1>5, RestingParts
  <2>3. /\ held' \subseteq Details(Path)
        /\ approval' \in Approval
    BY <1>5, Approvals DEF Dropped, DroppedHolding, Released, TypeOK
  <2>4. lastSequence' \in {NoSequence} \cup 0 .. MAX_BATCHES /\ heldGrant' \in 0 .. MAX_ASKS
    BY <1>5, Constants DEF Dropped, DroppedHolding
  <2>5. controller' \in BOOLEAN /\ lost' \in BOOLEAN /\ prompted' \in BOOLEAN
    BY <1>5 DEF Dropped, DroppedHolding, NoLongerPrompted, LocalTypes
  <2>6. LocalTypes'
    BY <2>1, <2>3, <2>4, <2>5 DEF LocalTypes, Path
  <2>. QED  BY <2>1, <2>2, <2>6
<1>6. ASSUME inbound' = Tail(inbound), prompted' = TRUE, at' = "confirm", at = "loop",
             UNCHANGED <<call, subscribed, desktop, approval, input, media>>, PortalRests
      PROVE  TypeOK'
  <2>1. call = NoCall
    BY <1>6 DEF TypeOK, Action
  <2>2. CallTypes'
    BY <1>6, <2>1, StepsOfTheAgent DEF Place, Action
  <2>3. PortalTypes'
    BY <1>1, <1>6, StepsOfTheAgent DEF TypeOK
  <2>4. MediaTypes'
    BY <1>6, RestingParts
  <2>5. prompted' \in BOOLEAN
    BY <1>6
  <2>6. LocalTypes'
    BY <1>6, <2>5 DEF LocalTypes, desktop, input, Path
  <2>. QED  BY <2>2, <2>3, <2>4, <2>6
<1>7. ASSUME Take, UNCHANGED <<local, media>>, PortalRests
      PROVE  TypeOK'
  BY <1>1, <1>7, TypesOfTake, RestingParts
<1>8. HandleSession \/ HandleError => 
        \/ \E terminated \in BOOLEAN : Leave(terminated)
        \/ /\ Take /\ Dropped /\ approval' = ControlRevoked(approval)
           /\ prompted' = NoLongerPrompted /\ UNCHANGED media /\ PortalRests
        \/ /\ inbound' = Tail(inbound) /\ prompted' = TRUE /\ at' = "confirm"
           /\ at = "loop"
           /\ UNCHANGED <<call, subscribed, desktop, approval, input, media>>
           /\ PortalRests
        \/ Take /\ UNCHANGED <<local, media>> /\ PortalRests
  BY Zenon DEF HandleSession, HandleError, Arrived
<1>. QED  BY <1>2, <1>3, <1>4, <1>5, <1>6, <1>7, <1>8

LEMMA TypesOfRelay ==
  ASSUME TypeOK, PipelineSignals \/ RelaySignal \/ SignalRelayed
  PROVE  TypeOK'
<1>. USE Parts
<1>1. CASE PipelineSignals
  <2>1. outbound' \in 0 .. MAX_OUTBOUND
    BY <1>1, Constants DEF PipelineSignals, TypeOK
  <2>2. MediaTypes'
    BY <1>1, <2>1 DEF PipelineSignals, MediaTypes
  <2>3. PortalTypes'
    BY <1>1 DEF PipelineSignals, PortalRests, PortalTypes
  <2>. QED  BY <1>1, <2>2, <2>3, RestingParts DEF PipelineSignals
<1>2. CASE RelaySignal
  <2>1. \E action \in Action : Calls(action)
    BY <1>2 DEF RelaySignal, Action
  <2>2. outbound' \in 0 .. MAX_OUTBOUND
    BY <1>2, Constants DEF RelaySignal, TypeOK
  <2>3. MediaTypes'
    BY <1>2, <2>2 DEF RelaySignal, MediaTypes
  <2>. QED  BY <1>2, <2>1, <2>3, CallsAndExits, RestingDesktop, TypesOfAgent
            DEF RelaySignal
<1>3. CASE SignalRelayed
  <2>1. CASE Leave(FALSE)
    BY <2>1, TypesOfLeave
  <2>2. CASE /\ at' = "loop" /\ call' = NoCall /\ PortalRests
             /\ UNCHANGED <<subscribed, inbound, desktop, local, media>>
    <3>1. CallTypes'
      BY <2>2, StepsOfTheAgent DEF Place, Action
    <3>2. PortalTypes'
      BY <2>2 DEF PortalTypes, PortalRests
    <3>. QED  BY <2>2, <3>1, <3>2, RestingParts
  <2>. QED  BY <1>3, <2>1, <2>2 DEF SignalRelayed
<1>. QED  BY <1>1, <1>2, <1>3

LEMMA TypesOfControl ==
  ASSUME TypeOK, Confirm \/ Dialog \/ ControlApproved \/ ControlDenied
  PROVE  TypeOK'
<1>. USE Parts
<1>1. /\ Unchanged /\ PortalRests
      /\ UNCHANGED <<subscribed, inbound, env, picked, prompted, held, lost, media>>
  BY DEF Confirm, Dialog, ControlApproved, ControlDenied, Unchanged
<1>2. MediaTypes' /\ PortalTypes'
  BY <1>1, RestingParts DEF PortalTypes, PortalRests
<1>3. \/ \E action \in Action : Request(action)
      \/ at' = "loop" /\ call' = NoCall
      \/ at' = "dialog" /\ at = "confirm" /\ call' = call
      \/ UNCHANGED <<at, call>>
  BY DEF Confirm, Dialog, ControlApproved, ControlDenied, Action
<1>4. CallTypes'
  <2>1. at = "confirm" => call = NoCall
    BY DEF TypeOK, Action
  <2>. QED  BY <1>3, <2>1, StepsOfTheAgent, RestingParts DEF Place, Action
<1>5. approval' \in Approval
  BY Approvals DEF Confirm, Dialog, ControlApproved, ControlDenied, TypeOK
<1>6. step' \in 0 .. 5
  BY DEF Confirm, Dialog, DialogCalls, ControlApproved, ControlDenied, TypeOK
<1>7. heldGrant' \in 0 .. MAX_ASKS /\ lastSequence' \in {NoSequence} \cup 0 .. MAX_BATCHES
  BY DEF Confirm, Dialog, ControlApproved, ControlDenied, TypeOK
<1>8. controller' = TRUE \/ controller' = controller
  BY Zenon DEF Confirm, Dialog, ControlApproved, ControlDenied
<1>9. LocalTypes'
  <2>1. controller' \in BOOLEAN
    BY <1>8 DEF LocalTypes
  <2>. QED  BY <1>1, <1>5, <1>6, <1>7, <2>1 DEF LocalTypes, Path
<1>. QED  BY <1>2, <1>4, <1>9

LEMMA TypesOfEnd ==
  ASSUME TypeOK, Ended \/ Killed
  PROVE  TypeOK'
<1>. USE Parts
<1>1. Exit /\ PortalRests /\ env' = env
  BY DEF Ended, Killed
<1>2. CASE Ended
  <2>1. MediaTypes'
    BY <1>2, RestingParts DEF Ended
  <2>. QED  BY <1>1, <1>2, <2>1, CallsAndExits, RestingDesktop, TypesOfAgent DEF Ended
<1>3. CASE Killed
  <2>1. MediaTypes'
    BY <1>3 DEF Killed, MediaTypes
  <2>2. held' \subseteq Details(Path)
    BY <1>3 DEF Killed, Released, TypeOK
  <2>3. controller' = FALSE
    BY <1>3, Zenon DEF Killed
  <2>4. UNCHANGED <<approval, prompted, lastSequence, heldGrant, lost>>
    BY <1>3 DEF Killed
  <2>5. LocalTypes /\ step' \in 0 .. 5 /\ picked' \in BOOLEAN => LocalTypes'
    BY <1>1, <2>2, <2>3, <2>4 DEF LocalTypes, Path
  <2>. QED  BY <1>1, <2>1, <2>5, CallsAndExits, TypesOfAgent
<1>. QED  BY <1>2, <1>3

LEMMA TypesAtRest == TypeOK /\ UNCHANGED vars => TypeOK'
<1>. SUFFICES ASSUME TypeOK, UNCHANGED vars PROVE TypeOK'
  OBVIOUS
<1>1. PortalTypes'
  BY Parts DEF vars, portal, PortalTypes
<1>. QED  BY <1>1, Parts, RestingParts DEF vars

(* Every step keeps the types.                                             *)
LEMMA TypesAreKept == TypeOK /\ [Next]_vars => TypeOK'
<1>. SUFFICES ASSUME TypeOK, Next PROVE TypeOK'
  BY TypesAtRest
<1>1. \/ Handle \/ Lose \/ FailStream \/ CloseStream
      \/ AskView \/ AskControl
      \/ \E move \in BrowserMoves : BrowserHostActs(move)
      \/ \E events \in Batch : SendBatch(events)
      \/ \E signal \in Signals : SendSignal(signal)
      \/ SessionEnds
      \/ Start \/ Share \/ Capture
      \/ Subscribe \/ StartSender \/ ViewApproved
      \/ IgnoreInput \/ Inject \/ RejectInput \/ LoseDisplay
      \/ HandleSignal \/ HandleSession \/ HandleError
      \/ PipelineSignals \/ RelaySignal \/ SignalRelayed
      \/ Confirm \/ Dialog \/ ControlApproved \/ ControlDenied
      \/ Ended \/ Killed
  BY DEF Next, LocalUser, Agent, Loop
<1>. QED  BY <1>1, TypesOfPortal, TypesOfOthers, TypesOfStart, TypesOfCalls,
             TypesOfInput, TypesOfEvents, TypesOfRelay, TypesOfControl, TypesOfEnd

(* Every variable of the agent and of its session keeps its type, and the  *)
(* agent awaits an answer exactly when it is in a call, whichever desktop  *)
(* it was started in, whatever it is sent and whatever fails.              *)
THEOREM AgentTypes == Spec => []TypeOK
BY TypesInitially, TypesAreKept, PTL DEF Spec

-----------------------------------------------------------------------------
(* What holds at each place of the agent.                                  *)

Preparing == {"capture", "event-token", "events", "ice-config", "approve-view"}

Serving == {"loop", "signal", "confirm", "dialog", "approve-control", "deny-control"}

(* The local approval.                                                     *)
ApprovalByPlace ==
  /\ at \in {"start", "share"} => approval.permission = "None"
  /\ at \notin {"start", "exited"} => approval.joined
  /\ at \in Preparing \cup {"confirm"} => approval.permission = "ViewOnly"
  /\ at \in {"dialog", "approve-control"} => approval.permission = "Control"
  /\ at \in Serving => approval.permission \in {"ViewOnly", "Control"}

(* A controller is held in the loop only, after a prompt.                  *)
ControllerByPlace ==
  /\ controller => at \in {"loop", "signal"} /\ prompted
  /\ at \in {"loop", "signal", "deny-control"} =>
       (controller <=> approval.permission = "Control")
  /\ at \in Serving \ {"loop", "signal"} => prompted

(* The pipeline, and what it captures.                                     *)
SenderByPlace ==
  /\ at \in {"start", "share"} \cup (Preparing \ {"approve-view"}) => sender = "none"
  /\ at = "approve-view" => sender = "playing"
  /\ sender = "playing" => at \in Serving \cup {"approve-view"}
  /\ at \in {"share"} \cup Preparing \cup Serving => Path # "Unsupported"
  /\ at \in (Preparing \ {"capture"}) \cup Serving =>
       (Path = "WaylandPortal" => picked)
  /\ sender = "playing" /\ Path = "X11Compatibility" => LocalDisplay(env)

AgentInv == ApprovalByPlace /\ ControllerByPlace /\ SenderByPlace

(* A withdrawal of the grant is still in the stream.                       *)
WithdrawalQueued ==
  \E i \in 1 .. Len(inbound) : inbound[i] = SessionEvent("VIEW_ACTIVE")

GrantInv ==
  /\ subscribed => state \in LiveStates
  /\ /\ controller \/ (at = "approve-control" /\ call.status = "ok")
     /\ subscribed
     /\ state # "CONTROL_ACTIVE"
     => WithdrawalQueued

(* The batches of the stream are in the order in which they were sent, and *)
(* none of them has been injected.                                         *)
SequenceInv ==
  /\ lastSequence < batches
  /\ \A i \in 1 .. Len(inbound) : inbound[i].kind = "input" =>
       lastSequence < inbound[i].sequence /\ inbound[i].sequence < batches
  /\ \A i, j \in 1 .. Len(inbound) :
       (i < j /\ inbound[i].kind = "input" /\ inbound[j].kind = "input") =>
         inbound[i].sequence < inbound[j].sequence

-----------------------------------------------------------------------------
(* The agent's invariant.                                                  *)

LEMMA AgentInitially == Init => AgentInv
BY DEF Init, AgentInv, ApprovalByPlace, ControllerByPlace, SenderByPlace,
       NotJoined, Preparing, Serving

LEMMA AgentAtRest ==
  ASSUME AgentInv, UNCHANGED <<at, desktop, local, sender>>
  PROVE  AgentInv'
BY DEF AgentInv, ApprovalByPlace, ControllerByPlace, SenderByPlace, desktop, local,
       input, Path

LEMMA AgentUntouched ==
  ASSUME AgentInv,
         \/ Handle \/ Lose \/ FailStream \/ CloseStream
         \/ AskView \/ AskControl
         \/ \E move \in BrowserMoves : BrowserHostActs(move)
         \/ \E events \in Batch : SendBatch(events)
         \/ \E signal \in Signals : SendSignal(signal)
         \/ SessionEnds \/ PipelineSignals \/ IgnoreInput
  PROVE  AgentInv'
<1>1. UNCHANGED <<at, desktop, local, sender>>
  BY DEF Handle, Lose, FailStream, CloseStream, Answer, AskView, AskControl, BrowserHostActs,
         SendBatch, SendSignal, SessionEnds, Others, PipelineSignals, IgnoreInput,
         Take, media
<1>. QED  BY <1>1, AgentAtRest

(* Where nothing is shared and nothing is held any more.                   *)
LEMMA AgentDone ==
  ASSUME AgentInv,
         at' = "exited" \/ (at' = "end" /\ at \in Serving /\ approval' = approval),
         sender' # "playing", ~controller'
  PROVE  AgentInv'
<1>1. at \in Serving => approval.joined
  BY DEF AgentInv, ApprovalByPlace, Serving
<1>2. ApprovalByPlace'
  BY <1>1 DEF ApprovalByPlace, Preparing, Serving
<1>. QED  BY <1>2 DEF AgentInv, ControllerByPlace, SenderByPlace, Preparing, Serving

(* Before the loop, the agent goes on to the next place or the process     *)
(* ends.                                                                   *)
LEMMA AgentPrepares ==
  ASSUME TypeOK, AgentInv,
         Start \/ Share \/ Capture \/ Subscribe \/ StartSender \/ ViewApproved
  PROVE  AgentInv'
<1>1. at \in {"start", "share"} \cup Preparing
  BY DEF Start, Share, Capture, Subscribe, StartSender, ViewApproved, Answered,
         Preparing
<1>2. ~controller
  BY <1>1 DEF AgentInv, ControllerByPlace, Preparing
<1>3. UNCHANGED <<env, prompted, input>>
  BY DEF Start, Share, Capture, Subscribe, StartSender, ViewApproved, local
<1>4. ~controller'
  BY <1>2, <1>3 DEF input
<1>5. CASE at' = "exited"
  <2>1. at = "approve-view" => sender' = "null"
    BY <1>5 DEF Start, Share, Capture, Subscribe, StartSender, ViewApproved, Answered
  <2>2. at # "approve-view" => sender = "none"
    BY <1>1 DEF AgentInv, SenderByPlace, Preparing
  <2>3. at \notin {"ice-config", "approve-view"} => sender' = sender
    BY DEF Start, Share, Capture, Subscribe, StartSender, ViewApproved, Answered, media
  <2>4. at = "ice-config" => sender' # "playing"
    BY <1>5 DEF Start, Share, Capture, Subscribe, StartSender, ViewApproved, Answered,
                Starting, Calls, Request
  <2>. QED  BY <1>4, <1>5, <2>1, <2>2, <2>3, <2>4, AgentDone
<1>6. CASE Start /\ at' # "exited"
  <2>1. at' = "share" /\ approval' = HostJoined /\ Path # "Unsupported"
        /\ sender' = sender /\ env' = env
    BY <1>6 DEF Start, Goes, Exit, media
  <2>. QED  BY <1>4, <1>6, <2>1 DEF Start, HostJoined, AgentInv, ApprovalByPlace,
            ControllerByPlace, SenderByPlace, Preparing, Serving, Path
<1>7. CASE Share /\ at' # "exited"
  <2>1. at = "share" /\ at' = "capture" /\ approval' = ViewApproval(approval)
        /\ sender' = sender /\ env' = env
    BY <1>7 DEF Share, Goes, Exit, media
  <2>2. approval'.joined /\ approval'.permission = "ViewOnly"
    BY <2>1 DEF ViewApproval, AgentInv, ApprovalByPlace, TypeOK, Approval
  <2>. QED  BY <1>4, <2>1, <2>2 DEF AgentInv, ApprovalByPlace,
            ControllerByPlace, SenderByPlace, Preparing, Serving, Path
<1>8. CASE Capture /\ at' # "exited"
  <2>1. /\ at = "capture" /\ at' \in {"capture", "event-token"}
        /\ approval' = approval /\ sender' = sender /\ env' = env
    BY <1>8 DEF Capture, NextCall, Request, Exit, local, media
  <2>2. at' = "event-token" /\ Path = "WaylandPortal" => picked'
    BY <1>8, <2>1 DEF Capture, NextCall, Exit
  <2>. QED  BY <1>4, <2>1, <2>2 DEF AgentInv, ApprovalByPlace,
            ControllerByPlace, SenderByPlace, Preparing, Serving, Path
<1>9. CASE Subscribe /\ at' # "exited"
  <2>1. /\ at \in {"event-token", "events"} /\ at' \in {"events", "ice-config"}
        /\ UNCHANGED <<approval, sender, env, picked>>
    BY <1>9 DEF Subscribe, Answered, Calls, Request, Exit, local, media
  <2>. QED  BY <1>4, <2>1 DEF AgentInv, ApprovalByPlace,
            ControllerByPlace, SenderByPlace, Preparing, Serving, Path
<1>10. CASE StartSender /\ at' # "exited"
  <2>1. /\ at = "ice-config" /\ at' = "approve-view"
        /\ UNCHANGED <<approval, env, picked>>
        /\ sender' = "playing"
        /\ Path = "X11Compatibility" => LocalDisplay(env)
    BY <1>10 DEF StartSender, Starting, Answered, Calls, Request, Exit, local
  <2>. QED  BY <1>4, <2>1 DEF AgentInv, ApprovalByPlace,
            ControllerByPlace, SenderByPlace, Preparing, Serving, Path
<1>11. CASE ViewApproved /\ at' # "exited"
  <2>1. /\ at = "approve-view" /\ at' = "loop"
        /\ UNCHANGED <<approval, sender, env, picked>>
    BY <1>11 DEF ViewApproved, Answered, Exit, local
  <2>. QED  BY <1>2, <1>3, <1>4, <2>1 DEF AgentInv, ApprovalByPlace,
            ControllerByPlace, SenderByPlace, Preparing, Serving, Path
<1>. QED  BY <1>5, <1>6, <1>7, <1>8, <1>9, <1>10, <1>11

(* In the loop an event is handled, or the loop is left.                   *)
LEMMA AgentServes ==
  ASSUME TypeOK, AgentInv,
         \/ HandleSignal \/ Inject \/ RejectInput \/ LoseDisplay
         \/ HandleSession \/ HandleError \/ RelaySignal \/ SignalRelayed
  PROVE  AgentInv'
<1>1. at \in {"loop", "signal"}
  BY DEF HandleSignal, Inject, RejectInput, LoseDisplay, HandleSession, HandleError,
         RelaySignal, SignalRelayed, Arrived, Answered
<1>2. ASSUME NEW terminated \in BOOLEAN, Stop(terminated), ~controller'
      PROVE  AgentInv'
  <2>1. at' \in {"end", "exited"} /\ sender' = "null" /\ approval' = approval
    BY <1>2 DEF Stop, Exit, Calls, Request
  <2>. QED  BY <1>1, <1>2, <2>1, AgentDone DEF Serving
<1>3. ASSUME NEW terminated \in BOOLEAN, Leave(terminated)
      PROVE  AgentInv'
  <2>1. controller' = FALSE
    BY <1>3, Zenon DEF Leave, Dropped, DroppedHolding
  <2>. QED  BY <1>2, <1>3, <2>1 DEF Leave
<1>4. CASE LoseDisplay \/ RejectInput
  <2>1. controller' = FALSE
    BY <1>4, Zenon DEF LoseDisplay, RejectInput, Dropped, DroppedHolding
  <2>2. Stop(FALSE)
    BY <1>4 DEF LoseDisplay, RejectInput
  <2>. QED  BY <1>2, <2>1, <2>2
<1>5. ASSUME at' \in {"loop", "signal"},
             UNCHANGED <<approval, prompted, controller, sender, env, picked>>
      PROVE  AgentInv'
  BY <1>1, <1>5 DEF AgentInv, ApprovalByPlace, ControllerByPlace, SenderByPlace,
     Preparing, Serving, Path
<1>6. CASE Inject \/ RelaySignal
  BY <1>5, <1>6 DEF Inject, RelaySignal, Arrived, Take, Calls, Request, media, desktop,
     local, input
<1>7. CASE HandleSignal \/ SignalRelayed \/ HandleError
  <2>1. \/ \E terminated \in BOOLEAN : Leave(terminated)
        \/ at' \in {"loop", "signal"}
             /\ UNCHANGED <<approval, prompted, controller, sender, env, picked>>
    BY <1>7 DEF HandleSignal, SignalRelayed, HandleError, Arrived, Take, media, desktop,
       local, input
  <2>. QED  BY <1>3, <1>5, <2>1
<1>8. CASE HandleSession
  <2>1. CASE \E terminated \in BOOLEAN : Leave(terminated)
    BY <1>3, <2>1
  <2>2. CASE Take /\ UNCHANGED <<local, media>>
    BY <1>1, <1>5, <2>2 DEF Take, local, media, desktop, input
  <2>3. CASE Take /\ Dropped /\ approval' = ControlRevoked(approval)
             /\ prompted' = NoLongerPrompted /\ UNCHANGED media
    <3>1. controller' = FALSE
      BY <2>3, Zenon DEF Dropped, DroppedHolding
    <3>2. UNCHANGED <<at, env, picked, sender>>
      BY <2>3 DEF Take, desktop, media
    <3>3. approval'.joined /\ approval'.permission = "ViewOnly"
      BY <1>1, <2>3 DEF ControlRevoked, ViewApproval, AgentInv, ApprovalByPlace,
         Serving, TypeOK, Approval
    <3>. QED  BY <1>1, <3>1, <3>2, <3>3 DEF AgentInv, ApprovalByPlace,
              ControllerByPlace, SenderByPlace, Preparing, Serving, Path
  <2>4. CASE /\ at = "loop" /\ ~prompted /\ prompted' = TRUE /\ at' = "confirm"
             /\ UNCHANGED <<call, subscribed, desktop, approval, input, media>>
    <3>1. ~controller /\ approval.permission = "ViewOnly" /\ approval.joined
      BY <2>4 DEF AgentInv, ApprovalByPlace, ControllerByPlace, Serving
    <3>2. UNCHANGED <<env, picked, approval, controller, sender>>
      BY <2>4 DEF desktop, input, media
    <3>3. prompted'
      BY <2>4
    <3>. QED  BY <2>4, <3>1, <3>2, <3>3 DEF AgentInv, ApprovalByPlace,
              ControllerByPlace, SenderByPlace, Preparing, Serving, Path
  <2>. QED  BY <1>8, <2>1, <2>2, <2>3, <2>4, Zenon DEF HandleSession, Arrived
<1>. QED  BY <1>3, <1>4, <1>6, <1>7, <1>8

(* From the prompt for control to the loop.                                *)
LEMMA AgentDecides ==
  ASSUME TypeOK, AgentInv, Confirm \/ Dialog \/ ControlApproved \/ ControlDenied
  PROVE  AgentInv'
<1>1. UNCHANGED <<env, picked, prompted, sender>>
  BY DEF Confirm, Dialog, ControlApproved, ControlDenied, Unchanged, media
<1>2. /\ at \in {"confirm", "dialog", "approve-control", "deny-control"}
      /\ ~controller /\ prompted
      /\ approval.joined /\ approval \in Approval
  BY DEF Confirm, Dialog, ControlApproved, ControlDenied, Answered, AgentInv,
         ApprovalByPlace, ControllerByPlace, Serving, TypeOK
<1>3. sender = "playing" => at \in Serving
  BY <1>2 DEF Serving
<1>4. CASE Confirm
  <2>1. \/ /\ at' = "dialog" /\ approval' = ControlApproval(approval)
        \/ /\ at' = "deny-control" /\ approval' = approval
    BY <1>4 DEF Confirm, Request
  <2>2. at = "confirm" /\ approval.permission = "ViewOnly" /\ controller' = controller
    BY <1>4 DEF Confirm, AgentInv, ApprovalByPlace
  <2>3. /\ approval'.joined
        /\ at' = "dialog" => approval'.permission = "Control"
        /\ at' = "deny-control" => approval'.permission = "ViewOnly"
    BY <1>2, <2>1, <2>2 DEF ControlApproval, Approval
  <2>. QED  BY <1>1, <1>2, <2>1, <2>2, <2>3 DEF AgentInv, ApprovalByPlace,
            ControllerByPlace, SenderByPlace, Preparing, Serving, Path
<1>5. CASE Dialog
  <2>1. \/ at' = "dialog" /\ approval' = approval
        \/ at' = "approve-control" /\ approval' = approval
        \/ at' = "deny-control" /\ approval' = ControlRevoked(approval)
    BY <1>5 DEF Dialog, Request
  <2>2. at = "dialog" /\ approval.permission = "Control" /\ controller' = controller
    BY <1>5 DEF Dialog, AgentInv, ApprovalByPlace
  <2>3. /\ approval'.joined
        /\ at' \in {"dialog", "approve-control"} => approval'.permission = "Control"
        /\ at' = "deny-control" => approval'.permission = "ViewOnly"
    BY <1>2, <2>1, <2>2 DEF ControlRevoked, ViewApproval, Approval
  <2>. QED  BY <1>1, <1>2, <2>1, <2>2, <2>3 DEF AgentInv, ApprovalByPlace,
            ControllerByPlace, SenderByPlace, Preparing, Serving, Path
<1>6. CASE ControlApproved
  <2>1. at = "approve-control" /\ at' = "loop" /\ approval.permission = "Control"
    BY <1>6 DEF ControlApproved, Answered, AgentInv, ApprovalByPlace
  <2>2. CASE Granted
    <3>1. controller' = TRUE
      BY <1>6, <2>2, Zenon DEF ControlApproved
    <3>2. approval' = approval
      BY <1>6, <2>2 DEF ControlApproved
    <3>3. controller'
      BY <3>1
    <3>. QED  BY <1>1, <1>2, <2>1, <3>2, <3>3 DEF AgentInv, ApprovalByPlace,
              ControllerByPlace, SenderByPlace, Preparing, Serving, Path
  <2>3. CASE ~Granted
    <3>1. approval' = ControlRevoked(approval) /\ controller' = controller
      BY <1>6, <2>3 DEF ControlApproved
    <3>2. approval'.joined /\ approval'.permission = "ViewOnly"
      BY <1>2, <2>1, <3>1 DEF ControlRevoked, ViewApproval, Approval
    <3>. QED  BY <1>1, <1>2, <2>1, <3>1, <3>2 DEF AgentInv, ApprovalByPlace,
              ControllerByPlace, SenderByPlace, Preparing, Serving, Path
  <2>. QED  BY <2>2, <2>3
<1>7. CASE ControlDenied
  <2>1. /\ at = "deny-control" /\ at' = "loop"
        /\ UNCHANGED <<approval, controller>>
    BY <1>7 DEF ControlDenied, Answered
  <2>. QED  BY <1>1, <1>2, <2>1 DEF AgentInv, ApprovalByPlace,
            ControllerByPlace, SenderByPlace, Preparing, Serving, Path
<1>. QED  BY <1>4, <1>5, <1>6, <1>7

LEMMA AgentEnds ==
  ASSUME AgentInv, Ended \/ Killed
  PROVE  AgentInv'
<1>1. at' = "exited"
  BY DEF Ended, Killed, Exit
<1>2. sender' # "playing"
  BY DEF Ended, Killed, Answered, media, AgentInv, SenderByPlace, Serving
<1>3. CASE Ended
  <2>1. controller' = controller /\ at = "end"
    BY <1>3 DEF Ended, Answered, local, input
  <2>2. ~controller
    BY <2>1 DEF AgentInv, ControllerByPlace
  <2>. QED  BY <1>1, <1>2, <2>1, <2>2, AgentDone
<1>4. CASE Killed
  <2>1. controller' = FALSE
    BY <1>4, Zenon DEF Killed
  <2>. QED  BY <1>1, <1>2, <2>1, AgentDone
<1>. QED  BY <1>3, <1>4

LEMMA AgentIsKept == TypeOK /\ AgentInv /\ [Next]_vars => AgentInv'
<1>. SUFFICES ASSUME TypeOK, AgentInv, [Next]_vars PROVE AgentInv'
  OBVIOUS
<1>1. CASE UNCHANGED vars
  BY <1>1, AgentAtRest DEF vars, media
<1>2. CASE Next
  <2>1. \/ \/ Handle \/ Lose \/ FailStream \/ CloseStream
           \/ AskView \/ AskControl
           \/ \E move \in BrowserMoves : BrowserHostActs(move)
           \/ \E events \in Batch : SendBatch(events)
           \/ \E signal \in Signals : SendSignal(signal)
           \/ SessionEnds \/ PipelineSignals \/ IgnoreInput
        \/ Start \/ Share \/ Capture \/ Subscribe \/ StartSender \/ ViewApproved
        \/ \/ HandleSignal \/ Inject \/ RejectInput \/ LoseDisplay
           \/ HandleSession \/ HandleError \/ RelaySignal \/ SignalRelayed
        \/ Confirm \/ Dialog \/ ControlApproved \/ ControlDenied
        \/ Ended \/ Killed
    BY <1>2 DEF Next, LocalUser, Agent, Loop
  <2>. QED  BY <2>1, AgentUntouched, AgentPrepares, AgentServes, AgentDecides, AgentEnds
<1>. QED  BY <1>1, <1>2

LEMMA AgentAlways == Spec => []AgentInv
<1>1. TypeOK /\ AgentInv /\ [Next]_vars => (TypeOK /\ AgentInv)'
  BY TypesAreKept, AgentIsKept
<1>2. Init => TypeOK /\ AgentInv
  BY TypesInitially, AgentInitially
<1>. QED  BY <1>1, <1>2, PTL DEF Spec

(* Whatever was declined, refused by the portal or lost before, the local  *)
(* boundary of the agent says "control" exactly when a controller is held, *)
(* and is ready to approve whenever it prompts.                            *)
THEOREM LocalGrant == Spec => []LocalGrantMatchesController
<1>1. AgentInv => LocalGrantMatchesController
  <2>. SUFFICES ASSUME AgentInv PROVE LocalGrantMatchesController
    OBVIOUS
  <2>1. at = "confirm" => approval.permission = "ViewOnly" /\ ~controller
    BY DEF AgentInv, ApprovalByPlace, ControllerByPlace
  <2>. QED  BY <2>1 DEF AgentInv, ControllerByPlace, LocalGrantMatchesController,
            CanApproveControl
<1>. QED  BY <1>1, AgentAlways, PTL

(* The screen is taken only with the local user's approval, and only from  *)
(* the display of this machine that the desktop stands for: on Wayland     *)
(* through a session that the desktop portal granted.                      *)
THEOREM LocalDisplayOnly == Spec => []SharesTheLocalDisplay
<1>1. TypeOK /\ AgentInv => SharesTheLocalDisplay
  <2>. SUFFICES ASSUME TypeOK, AgentInv, sender = "playing"
                PROVE  /\ CanStartCapture(approval)
                       /\ IF env.wayland THEN env.portal /\ picked ELSE env.display = "local"
    BY DEF SharesTheLocalDisplay
  <2>1. at \in Serving \cup {"approve-view"}
    BY DEF AgentInv, SenderByPlace
  <2>2. CanStartCapture(approval)
    BY <2>1 DEF CanStartCapture, AgentInv, ApprovalByPlace, Preparing, Serving
  <2>3. /\ Path # "Unsupported"
        /\ Path = "WaylandPortal" => picked
        /\ Path = "X11Compatibility" => LocalDisplay(env)
    BY <2>1 DEF AgentInv, SenderByPlace, Preparing, Serving
  <2>4. IF env.wayland THEN env.portal /\ picked ELSE env.display = "local"
    BY <2>3 DEF Path, DisplayPath, LocalDisplay
  <2>. QED  BY <2>2, <2>4
<1>2. Spec => []TypeOK
  BY AgentTypes
<1>. QED  BY <1>1, <1>2, AgentAlways, PTL

-----------------------------------------------------------------------------
(* What the controller holds down.                                         *)

LEMMA ReleasedByDropping ==
  ASSUME ReleasedWhenDropped, Dropped \/ (controller /\ \E down : DroppedHolding(down))
  PROVE  ReleasedWhenDropped'
<1>1. held' = (IF controller THEN {} ELSE held) /\ lost' = lost
  BY DEF Dropped, DroppedHolding, Released
<1>. QED  BY <1>1 DEF ReleasedWhenDropped

LEMMA ReleasedIsKept ==
  ASSUME "killed" \notin Faults, ReleasedWhenDropped, [Next]_vars
  PROVE  ReleasedWhenDropped'
<1>1. CASE UNCHANGED <<controller, held, lost>>
  BY <1>1 DEF ReleasedWhenDropped
<1>2. CASE Dropped \/ RejectInput
  BY <1>2, ReleasedByDropping DEF RejectInput, Dropped
<1>3. CASE Inject
  BY <1>3 DEF Inject, ReleasedWhenDropped
<1>4. CASE LoseDisplay
  <2>1. lost' = (Path = "X11Compatibility")
    BY <1>4, Zenon DEF LoseDisplay
  <2>2. Path # "X11Compatibility" => held' = {}
    BY <1>4 DEF LoseDisplay, Released
  <2>. QED  BY <2>1, <2>2 DEF ReleasedWhenDropped
<1>5. CASE ControlApproved
  <2>1. controller' = TRUE \/ UNCHANGED <<controller, held, lost>>
    BY <1>5, Zenon DEF ControlApproved, Unchanged
  <2>2. controller' \/ UNCHANGED <<controller, held, lost>>
    BY <2>1
  <2>. QED  BY <1>1, <2>2 DEF ReleasedWhenDropped
<1>6. CASE UNCHANGED input
  BY <1>1, <1>6 DEF input
<1>7. Handle \/ Lose \/ FailStream \/ CloseStream => UNCHANGED input
  BY DEF Handle, Lose, FailStream, CloseStream, Answer, local
<1>8. \/ AskView \/ AskControl
      \/ \E move \in BrowserMoves : BrowserHostActs(move)
      \/ \E events \in Batch : SendBatch(events)
      \/ \E signal \in Signals : SendSignal(signal)
      \/ SessionEnds \/ PipelineSignals \/ RelaySignal \/ IgnoreInput
      => UNCHANGED input
  BY DEF AskView, AskControl, BrowserHostActs, SendBatch, SendSignal, SessionEnds,
         Others, PipelineSignals, RelaySignal, IgnoreInput, local
<1>9. LocalUser => UNCHANGED <<controller, held, lost>>
  BY DEF LocalUser, Share, Capture, Confirm, Dialog, Unchanged, local, input
<1>10. Agent => UNCHANGED <<controller, held, lost>> \/ Dropped \/ ControlApproved
  BY DEF Agent, Start, Subscribe, StartSender, ViewApproved, SignalRelayed, Leave,
         ControlDenied, Ended, Unchanged, local, input
<1>11. Loop => \/ UNCHANGED <<controller, held, lost>>
               \/ Dropped \/ RejectInput \/ Inject \/ LoseDisplay
  BY DEF Loop, HandleSignal, HandleSession, HandleError, IgnoreInput, Leave, local,
         input
<1>12. ~Killed
  BY DEF Killed
<1>13. UNCHANGED vars => UNCHANGED input
  BY DEF vars, local
<1>. QED  BY <1>1, <1>2, <1>3, <1>4, <1>5, <1>6, <1>7, <1>8, <1>9, <1>10, <1>11, <1>12,
             <1>13 DEF Next

(* As long as no signal kills the process, no key or button stays down     *)
(* once the controller is gone, however the batches that pressed it ended, *)
(* unless its connection to the display was lost first.                    *)
THEOREM KeysReleased ==
  ASSUME "killed" \notin Faults
  PROVE  Spec => []ReleasedWhenDropped
<1>1. Init => ReleasedWhenDropped
  BY DEF Init, ReleasedWhenDropped
<1>2. ReleasedWhenDropped /\ [Next]_vars => ReleasedWhenDropped'
  BY ReleasedIsKept
<1>. QED  BY <1>1, <1>2, PTL DEF Spec

-----------------------------------------------------------------------------
(* The view.                                                               *)

(* The pipeline, once it plays, is stopped only by an agent that leaves,    *)
(* and that one never comes back.                                          *)
LEMMA SenderStops ==
  ASSUME [Next]_vars
  PROVE  \/ StartSender
         \/ sender' = "null" /\ at' \in {"end", "exited"}
         \/ /\ sender' = sender
            /\ at \in {"end", "exited"} => at' \in {"end", "exited"}
<1>1. CASE \/ Handle \/ Lose \/ FailStream \/ CloseStream
           \/ AskView \/ AskControl
           \/ \E move \in BrowserMoves : BrowserHostActs(move)
           \/ \E events \in Batch : SendBatch(events)
           \/ \E signal \in Signals : SendSignal(signal)
           \/ SessionEnds \/ PipelineSignals \/ UNCHANGED vars
  BY <1>1 DEF Handle, Lose, FailStream, CloseStream, Answer, AskView, AskControl,
     BrowserHostActs, SendBatch, SendSignal, SessionEnds, Others, PipelineSignals, vars, media
<1>2. CASE \/ Start \/ Share \/ Capture \/ Subscribe \/ IgnoreInput \/ Inject \/ RelaySignal
           \/ Confirm \/ Dialog \/ ControlApproved \/ ControlDenied
  BY <1>2 DEF Start, Share, Capture, Subscribe, IgnoreInput, Inject, RelaySignal, Confirm,
     Dialog, ControlApproved, ControlDenied, Unchanged, Answered, Arrived, media
<1>3. ASSUME NEW terminated \in BOOLEAN, Stop(terminated)
      PROVE  sender' = "null" /\ at' \in {"end", "exited"}
  BY <1>3 DEF Stop, Exit, Calls, Request
<1>4. CASE \/ HandleSignal \/ HandleSession \/ HandleError \/ RejectInput \/ LoseDisplay
           \/ SignalRelayed
  <2>1. \/ \E terminated \in BOOLEAN : Stop(terminated)
        \/ sender' = sender /\ at \in {"loop", "signal"}
    BY <1>4 DEF HandleSignal, HandleSession, HandleError, RejectInput, LoseDisplay,
       SignalRelayed, Leave, Arrived, Answered, media
  <2>. QED  BY <1>3, <2>1
<1>5. CASE Ended \/ Killed \/ ViewApproved
  BY <1>5 DEF Ended, Killed, ViewApproved, Answered, Exit, media
<1>. QED  BY <1>1, <1>2, <1>4, <1>5 DEF Next, LocalUser, Agent, Loop

LEMMA ViewIsKept ==
  ASSUME ApproveView \notin BrowserMoves, TypeOK, AgentInv, ViewFollowsCapture,
         [Next]_vars
  PROVE  ViewFollowsCapture'
<1>1. CASE state' = state
  <2>1. CASE StartSender
    <3>1. sender = "none"
      BY <2>1 DEF StartSender, Answered, AgentInv, SenderByPlace, Preparing
    <3>. QED  BY <1>1, <3>1 DEF ViewFollowsCapture
  <2>2. CASE sender' = "null" /\ at' \in {"end", "exited"}
    BY <2>2 DEF ViewFollowsCapture
  <2>3. CASE sender' = sender /\ (at \in {"end", "exited"} => at' \in {"end", "exited"})
    BY <1>1, <2>3 DEF ViewFollowsCapture
  <2>. QED  BY <2>1, <2>2, <2>3, SenderStops
<1>2. CASE Handle /\ state' # state
  <2>1. sender' = sender /\ at' = at
    BY <1>2 DEF Handle, Answer, media
  <2>2. call.action \in Action /\ at = call.action /\ Accepted(call.action) /\ Effect(call.action)
    BY <1>2 DEF Handle, TypeOK, NoCall
  <2>3. CASE call.action = "approve-view"
    <3>1. sender = "playing"
      BY <2>2, <2>3 DEF AgentInv, SenderByPlace
    <3>. QED  BY <2>1, <3>1 DEF ViewFollowsCapture
  <2>4. CASE call.action \in {"approve-control", "deny-control"}
    <3>1. state \in SharingStates
      BY <2>2, <2>4 DEF Accepted, ApproveControl, DenyControl, Transition, SharingStates
    <3>. QED  BY <2>1, <3>1 DEF ViewFollowsCapture
  <2>5. CASE call.action = "end"
    <3>1. state' = "ENDED"
      BY <2>2, <2>5 DEF Effect, Becomes
    <3>. QED  BY <3>1 DEF ViewFollowsCapture, SharingStates
  <2>6. CASE call.action \in {"event-token", "events", "ice-config", "signal"}
    BY <1>2, <2>2, <2>6 DEF Effect
  <2>. QED  BY <2>2, <2>3, <2>4, <2>5, <2>6 DEF Action
<1>3. CASE AskView \/ AskControl \/ (\E move \in BrowserMoves : BrowserHostActs(move))
           \/ SessionEnds
  <2>1. sender' = sender /\ at' = at
    BY <1>3 DEF AskView, AskControl, BrowserHostActs, SessionEnds, Others, media
  <2>2. ASSUME NEW move \in BrowserMoves, BrowserHostActs(move)
        PROVE  state' \in SharingStates => state \in SharingStates
    <3>1. move \in {DenyView, ApproveControl, DenyControl, RevokeControl}
      BY <2>2, Constants DEF HostActions
    <3>2. move = DenyView => state' \notin SharingStates
      BY <2>2 DEF BrowserHostActs, Becomes, DenyView, Transition, SharingStates
    <3>3. move \in {ApproveControl, DenyControl, RevokeControl} => state \in SharingStates
      BY <2>2 DEF BrowserHostActs, ApproveControl, DenyControl, RevokeControl,
                  Transition, SharingStates
    <3>. QED  BY <3>1, <3>2, <3>3
  <2>3. AskView \/ SessionEnds => state' \notin SharingStates
    BY DEF AskView, SessionEnds, Becomes, ViewRequest, Transition, SharingStates,
       TerminalStates
  <2>4. AskControl => state \in SharingStates
    BY DEF AskControl, ControlRequest, Transition, SharingStates
  <2>. QED  BY <1>3, <2>1, <2>2, <2>3, <2>4 DEF ViewFollowsCapture
<1>4. \/ state' = state \/ Handle \/ AskView \/ AskControl
      \/ (\E move \in BrowserMoves : BrowserHostActs(move)) \/ SessionEnds
  BY DEF Next, vars, portal, PortalRests, Lose, FailStream, CloseStream, SendBatch, SendSignal,
     PipelineSignals, RelaySignal, LocalUser, Share, Capture, Confirm, Dialog, Agent, Start,
     Subscribe, StartSender, ViewApproved, SignalRelayed, Leave, Stop, ControlApproved,
     ControlDenied, Ended, Loop, HandleSignal, HandleSession, HandleError,
     IgnoreInput, Inject, RejectInput, LoseDisplay, Killed
<1>. QED  BY <1>1, <1>2, <1>3, <1>4

(* If the view is approved by the agent alone, the portal holds it active  *)
(* only while the agent captures, or once it has stopped its pipeline to   *)
(* leave: it waits for its last call, or is gone.                          *)
THEOREM CaptureBeforeView ==
  ASSUME ApproveView \notin BrowserMoves
  PROVE  Spec => []ViewFollowsCapture
<1>1. Init => ViewFollowsCapture
  BY DEF Init, ViewFollowsCapture, SharingStates
<1>2. TypeOK /\ AgentInv /\ ViewFollowsCapture /\ [Next]_vars => ViewFollowsCapture'
  BY ViewIsKept
<1>3. Spec => []TypeOK
  BY AgentTypes
<1>. QED  BY <1>1, <1>2, <1>3, AgentAlways, PTL DEF Spec

-----------------------------------------------------------------------------
(* The order of the stream.                                                *)

LEMMA Queued ==
  ASSUME TypeOK
  PROVE  /\ Len(inbound) \in Nat
         /\ \A i \in 1 .. Len(inbound) :
              /\ inbound[i] \in Event
              /\ inbound[i].kind = "input" => inbound[i].sequence \in 0 .. MAX_BATCHES
         /\ lastSequence \in Int /\ NoSequence <= lastSequence
         /\ batches \in Nat
<1>1. Len(inbound) \in Nat /\ \A i \in 1 .. Len(inbound) : inbound[i] \in Event
  BY DEF TypeOK
<1>2. \A e \in Event : e.kind = "input" => e.sequence \in 0 .. MAX_BATCHES
  BY DEF Event, StreamError
<1>3. lastSequence \in Int /\ NoSequence <= lastSequence /\ batches \in Nat
  BY Constants DEF TypeOK, NoSequence
<1>. QED  BY <1>1, <1>2, <1>3

(* The stream loses its oldest events, or all of them.                     *)
LEMMA OrderOfPart ==
  ASSUME TypeOK, SequenceInv, batches' = batches,
         lastSequence' \in {lastSequence, NoSequence},
         NEW k \in Nat, Len(inbound') \in Nat, k + Len(inbound') <= Len(inbound),
         \A i \in 1 .. Len(inbound') : inbound'[i] = inbound[i + k]
  PROVE  SequenceInv'
<1>1. ASSUME NEW i \in 1 .. Len(inbound')
      PROVE  i + k \in 1 .. Len(inbound)
  <2>1. Len(inbound) \in Nat
    BY Queued
  <2>. QED  BY <2>1
<1>2. lastSequence' <= lastSequence /\ lastSequence' \in Int
  BY Queued DEF NoSequence
<1>3. (lastSequence < batches)'
  BY <1>2, Queued DEF SequenceInv
<1>4. ASSUME NEW i \in 1 .. Len(inbound'), inbound'[i].kind = "input"
      PROVE  lastSequence' < inbound'[i].sequence /\ inbound'[i].sequence < batches'
  <2>1. /\ i + k \in 1 .. Len(inbound) /\ inbound[i + k].kind = "input"
        /\ inbound'[i] = inbound[i + k]
    BY <1>1, <1>4
  <2>2. /\ lastSequence < inbound[i + k].sequence /\ inbound[i + k].sequence < batches
        /\ inbound[i + k].sequence \in 0 .. MAX_BATCHES
    BY <2>1, Queued DEF SequenceInv
  <2>. QED  BY <1>2, <2>1, <2>2, Queued, Constants
<1>5. ASSUME NEW i \in 1 .. Len(inbound'), NEW j \in 1 .. Len(inbound'), i < j,
             inbound'[i].kind = "input", inbound'[j].kind = "input"
      PROVE  inbound'[i].sequence < inbound'[j].sequence
  <2>1. i + k < j + k
    BY <1>5
  <2>. QED  BY <1>1, <1>5, <2>1 DEF SequenceInv
<1>. QED  BY <1>3, <1>4, <1>5 DEF SequenceInv

(* An event is written that is no batch, or the next batch.                *)
LEMMA OrderOfWritten ==
  ASSUME TypeOK, SequenceInv, lastSequence' = lastSequence, NEW e,
         inbound' = Append(inbound, e) \/ inbound' = inbound,
         \/ e.kind # "input" /\ batches' = batches
         \/ e.kind = "input" /\ e.sequence = batches /\ batches' = batches + 1
  PROVE  SequenceInv'
<1>1. batches <= batches' /\ batches' \in Nat
  BY Queued
<1>2. \A i \in 1 .. Len(inbound) : inbound[i].kind = "input" =>
        lastSequence < inbound[i].sequence /\ inbound[i].sequence < batches'
  BY <1>1, Queued DEF SequenceInv
<1>3. CASE inbound' = inbound
  BY <1>1, <1>2, <1>3, Queued DEF SequenceInv
<1>4. CASE inbound' = Append(inbound, e)
  <2>1. /\ Len(inbound') = Len(inbound) + 1
        /\ \A i \in 1 .. Len(inbound) : inbound'[i] = inbound[i]
        /\ inbound'[Len(inbound) + 1] = e
    BY <1>4 DEF TypeOK
  <2>2. \A i \in 1 .. Len(inbound') : i \in 1 .. Len(inbound) \/ i = Len(inbound) + 1
    BY <2>1, Queued
  <2>3. e.kind = "input" => e.sequence = batches /\ batches' = batches + 1
    OBVIOUS
  <2>4. ASSUME NEW i \in 1 .. Len(inbound'), inbound'[i].kind = "input"
        PROVE  lastSequence < inbound'[i].sequence /\ inbound'[i].sequence < batches'
    BY <1>2, <2>1, <2>2, <2>3, <2>4, Queued DEF SequenceInv
  <2>5. ASSUME NEW i \in 1 .. Len(inbound'), NEW j \in 1 .. Len(inbound'), i < j,
               inbound'[i].kind = "input", inbound'[j].kind = "input"
        PROVE  inbound'[i].sequence < inbound'[j].sequence
    <3>1. i \in 1 .. Len(inbound)
      BY <2>1, <2>5, Queued
    <3>2. CASE j \in 1 .. Len(inbound)
      BY <2>1, <2>5, <3>1, <3>2 DEF SequenceInv
    <3>3. CASE j = Len(inbound) + 1
      BY <2>1, <2>3, <2>5, <3>1, <3>3 DEF SequenceInv
    <3>. QED  BY <2>2, <3>2, <3>3
  <2>6. lastSequence < batches'
    BY <1>1, Queued DEF SequenceInv
  <2>. QED  BY <2>4, <2>5, <2>6 DEF SequenceInv
<1>. QED  BY <1>3, <1>4

LEMMA OrderOfTail ==
  ASSUME TypeOK, SequenceInv, inbound # <<>>, inbound' = Tail(inbound), batches' = batches,
         \/ lastSequence' \in {lastSequence, NoSequence}
         \/ Head(inbound).kind = "input" /\ lastSequence' = Head(inbound).sequence
  PROVE  SequenceInv'
<1>1. /\ Len(inbound') \in Nat /\ 1 + Len(inbound') = Len(inbound)
      /\ \A i \in 1 .. Len(inbound') : inbound'[i] = inbound[i + 1]
      /\ Head(inbound) = inbound[1] /\ 1 \in 1 .. Len(inbound)
  BY DEF TypeOK
<1>2. CASE lastSequence' \in {lastSequence, NoSequence}
  BY <1>1, <1>2, OrderOfPart
<1>3. CASE Head(inbound).kind = "input" /\ lastSequence' = Head(inbound).sequence
  <2>1. \A i \in 1 .. Len(inbound') : i + 1 \in 1 .. Len(inbound) /\ 1 < i + 1
    BY <1>1
  <2>2. (lastSequence < batches)'
    BY <1>1, <1>3 DEF SequenceInv
  <2>3. ASSUME NEW i \in 1 .. Len(inbound'), inbound'[i].kind = "input"
        PROVE  lastSequence' < inbound'[i].sequence /\ inbound'[i].sequence < batches'
    BY <1>1, <1>3, <2>1, <2>3 DEF SequenceInv
  <2>4. ASSUME NEW i \in 1 .. Len(inbound'), NEW j \in 1 .. Len(inbound'), i < j,
               inbound'[i].kind = "input", inbound'[j].kind = "input"
        PROVE  inbound'[i].sequence < inbound'[j].sequence
    <3>1. i + 1 < j + 1
      BY <2>4
    <3>. QED  BY <1>1, <2>1, <2>4, <3>1 DEF SequenceInv
  <2>. QED  BY <2>2, <2>3, <2>4 DEF SequenceInv
<1>. QED  BY <1>2, <1>3

LEMMA OrderInitially == Init => SequenceInv
BY DEF Init, SequenceInv, NoSequence

LEMMA OrderOfRelease ==
  ASSUME TypeOK, SequenceInv, batches' = batches, inbound' = <<>> \/ inbound' = inbound,
         lastSequence' \in {lastSequence, NoSequence}
  PROVE  SequenceInv'
<1>1. CASE inbound' = <<>>
  BY <1>1, OrderOfPart, Queued
<1>2. CASE inbound' = inbound
  BY <1>2, OrderOfPart, Queued
<1>. QED  BY <1>1, <1>2

LEMMA OrderAtPortal ==
  ASSUME TypeOK, SequenceInv,
         \/ Handle \/ Lose \/ FailStream \/ CloseStream
         \/ AskView \/ AskControl
         \/ \E move \in BrowserMoves : BrowserHostActs(move)
         \/ \E events \in Batch : SendBatch(events)
         \/ \E signal \in Signals : SendSignal(signal)
         \/ SessionEnds
  PROVE  SequenceInv'
<1>1. lastSequence' = lastSequence
  BY DEF Handle, Lose, FailStream, CloseStream, Answer, AskView, AskControl, BrowserHostActs,
         SendBatch, SendSignal, SessionEnds, Others, local, input
<1>2. ASSUME batches' = batches, NEW s, Becomes(s)
      PROVE  SequenceInv'
  <2>1. SessionEvent(s).kind # "input"
    BY DEF SessionEvent
  <2>2. inbound' = Append(inbound, SessionEvent(s)) \/ inbound' = inbound
    BY <1>2 DEF Becomes, Written
  <2>. QED  BY <1>1, <1>2, <2>1, <2>2, OrderOfWritten
<1>3. CASE AskView \/ AskControl \/ (\E move \in BrowserMoves : BrowserHostActs(move))
           \/ SessionEnds
  BY <1>2, <1>3 DEF AskView, AskControl, BrowserHostActs, SessionEnds
<1>4. CASE Lose
  BY <1>1, <1>4, OrderOfRelease DEF Lose, Answer
<1>5. CASE FailStream
  <2>1. StreamError.kind # "input"
    BY DEF StreamError
  <2>. QED  BY <1>1, <1>5, <2>1, OrderOfWritten DEF FailStream
<1>6. ASSUME NEW events \in Batch, SendBatch(events)
      PROVE  SequenceInv'
  <2>1. InputEnvelope(NewSequence, events, asks).kind = "input"
        /\ InputEnvelope(NewSequence, events, asks).sequence = batches
    BY DEF InputEnvelope, NewSequence
  <2>2. \/ inbound' = Append(inbound, InputEnvelope(NewSequence, events, asks))
        \/ inbound' = inbound
    BY <1>6 DEF SendBatch, Written
  <2>3. batches' = batches + 1
    BY <1>6 DEF SendBatch
  <2>. QED  BY <1>1, <2>1, <2>2, <2>3, OrderOfWritten
<1>7. ASSUME NEW signal \in Signals, SendSignal(signal)
      PROVE  SequenceInv'
  <2>1. SignalEnvelope(signal).kind # "input"
    BY DEF SignalEnvelope
  <2>2. inbound' = Append(inbound, SignalEnvelope(signal)) \/ inbound' = inbound
    BY <1>7 DEF SendSignal, Written
  <2>. QED  BY <1>1, <1>7, <2>1, <2>2, OrderOfWritten DEF SendSignal
<1>8. CASE Handle
  <2>1. batches' = batches
    BY <1>8 DEF Handle, Answer
  <2>2. call.action \in Action
    BY <1>8 DEF Handle, TypeOK, NoCall
  <2>3. Effect(call.action) \/ inbound' = inbound
    BY <1>8 DEF Handle
  <2>4. ASSUME inbound' = <<SessionEvent(state)>>
        PROVE  SequenceInv'
    <3>1. Len(inbound') = 1 /\ \A i \in 1 .. Len(inbound') : inbound'[i] = SessionEvent(state)
      BY <2>4
    <3>2. SessionEvent(state).kind # "input"
      BY DEF SessionEvent
    <3>. QED  BY <1>1, <2>1, <3>1, <3>2 DEF SequenceInv
  <2>5. \/ \E s \in LiveStates \cup TerminalStates : Becomes(s)
        \/ inbound' = <<SessionEvent(state)>>
        \/ inbound' = inbound
    <3>1. CASE call.action \in {"approve-view", "approve-control", "deny-control", "end"}
      BY <2>3, <3>1, States DEF Effect, TerminalStates
    <3>2. CASE call.action \in {"events", "event-token", "ice-config", "signal"}
      BY <2>3, <3>2 DEF Effect
    <3>. QED  BY <2>2, <3>1, <3>2 DEF Action
  <2>. QED  BY <1>1, <1>2, <2>1, <2>4, <2>5, OrderOfRelease
<1>9. CASE CloseStream
  BY <1>1, <1>9, OrderOfRelease DEF CloseStream
<1>. QED  BY <1>3, <1>4, <1>5, <1>6, <1>7, <1>8, <1>9

(* Whatever the agent does, it takes the oldest event, closes the stream   *)
(* or leaves it alone.                                                     *)
LEMMA OrderAtAgent ==
  ASSUME TypeOK, SequenceInv,
         LocalUser \/ Agent \/ Loop \/ RelaySignal \/ Killed \/ PipelineSignals
           \/ UNCHANGED vars
  PROVE  SequenceInv'
<1>1. batches' = batches
  BY DEF LocalUser, Agent, Loop, Killed, PipelineSignals, vars, portal, PortalRests,
     RelaySignal, Share, Capture, Confirm, Dialog, Start, Subscribe, StartSender,
     ViewApproved, SignalRelayed, Leave, Stop, ControlApproved, ControlDenied, Ended,
     HandleSignal, HandleSession, HandleError, IgnoreInput, Inject, RejectInput,
     LoseDisplay
<1>2. CASE Inject
  BY <1>1, <1>2, OrderOfTail DEF Inject, Arrived, Take
<1>3. CASE ~Inject
  <2>1. lastSequence' \in {lastSequence, NoSequence}
    BY <1>3 DEF LocalUser, Agent, Loop, Killed, PipelineSignals, vars, local, input,
       Dropped, DroppedHolding, RelaySignal, Share, Capture, Confirm, Dialog, Start, Subscribe,
       StartSender, ViewApproved, SignalRelayed, Leave, Stop, ControlApproved,
       ControlDenied, Ended, HandleSignal, HandleSession, HandleError, IgnoreInput,
       RejectInput, LoseDisplay
  <2>2. inbound' \in {inbound, <<>>} \/ (inbound # <<>> /\ inbound' = Tail(inbound))
    BY <1>3 DEF LocalUser, Agent, Loop, Killed, PipelineSignals, vars, Exit, Calls, Goes,
       NextCall, Unchanged, Take, Arrived, RelaySignal, Share, Capture, Confirm, Dialog,
       Start, Subscribe, StartSender, ViewApproved, SignalRelayed, Leave, Stop,
       ControlApproved, ControlDenied, Ended, HandleSignal, HandleSession, HandleError,
       IgnoreInput, RejectInput, LoseDisplay
  <2>3. CASE inbound' \in {inbound, <<>>}
    BY <1>1, <2>1, <2>3, OrderOfRelease
  <2>4. CASE inbound # <<>> /\ inbound' = Tail(inbound)
    BY <1>1, <2>1, <2>4, OrderOfTail
  <2>. QED  BY <2>2, <2>3, <2>4
<1>. QED  BY <1>2, <1>3

(* The loop never meets a batch that it would have to refuse as stale,     *)
(* which would end the session, however many grants the sequence has gone  *)
(* on across and whenever the stream was opened.                           *)
THEOREM OrderOfBatches == Spec => []NoStaleEnvelope
<1>1. TypeOK /\ SequenceInv /\ [Next]_vars => SequenceInv'
  <2>. SUFFICES ASSUME TypeOK, SequenceInv, [Next]_vars PROVE SequenceInv'
    OBVIOUS
  <2>1. \/ \/ Handle \/ Lose \/ FailStream \/ CloseStream
           \/ AskView \/ AskControl
           \/ \E move \in BrowserMoves : BrowserHostActs(move)
           \/ \E events \in Batch : SendBatch(events)
           \/ \E signal \in Signals : SendSignal(signal)
           \/ SessionEnds
        \/ LocalUser \/ Agent \/ Loop \/ RelaySignal \/ Killed \/ PipelineSignals
             \/ UNCHANGED vars
    BY DEF Next
  <2>. QED  BY <2>1, OrderAtPortal, OrderAtAgent
<1>2. TypeOK /\ SequenceInv => NoStaleEnvelope
  <2>. SUFFICES ASSUME TypeOK, SequenceInv, Arrived("input"), controller
                PROVE  ~Stale(Head(inbound).sequence, lastSequence)
    BY DEF NoStaleEnvelope
  <2>1. Head(inbound) = inbound[1] /\ 1 \in 1 .. Len(inbound)
    BY DEF Arrived, TypeOK
  <2>2. lastSequence < inbound[1].sequence /\ inbound[1].sequence \in Nat
    BY <2>1, Queued, Constants DEF Arrived, SequenceInv
  <2>. QED  BY <2>1, <2>2, Queued DEF Stale
<1>3. Spec => []TypeOK
  BY AgentTypes
<1>. QED  BY <1>1, <1>2, <1>3, OrderInitially, PTL DEF Spec

-----------------------------------------------------------------------------
(* The grant behind a controller.                                          *)

(* A controller is held, or about to be.                                   *)
Holding == controller \/ (at = "approve-control" /\ call.status = "ok")

LEMMA GrantOf ==
  GrantInv <=> /\ subscribed => state \in LiveStates
               /\ Holding /\ subscribed /\ state # "CONTROL_ACTIVE" => WithdrawalQueued
BY DEF GrantInv, Holding

LEMMA GrantOfPrimed ==
  GrantInv' <=> /\ subscribed' => state' \in LiveStates
                /\ Holding' /\ subscribed' /\ state' # "CONTROL_ACTIVE" => WithdrawalQueued'
BY DEF GrantInv, Holding

LEMMA GrantInitially == Init => GrantInv
BY DEF Init, GrantInv

(* What is queued stays queued until it is taken.                          *)
LEMMA QueuedStays ==
  ASSUME TypeOK, WithdrawalQueued,
         \/ inbound' = inbound
         \/ \E e : inbound' = Append(inbound, e)
         \/ /\ inbound # <<>> /\ inbound' = Tail(inbound)
            /\ Head(inbound) # SessionEvent("VIEW_ACTIVE")
  PROVE  WithdrawalQueued'
<1>1. PICK i \in 1 .. Len(inbound) : inbound[i] = SessionEvent("VIEW_ACTIVE")
  BY DEF WithdrawalQueued
<1>2. inbound \in Seq(Event) /\ Len(inbound) \in Nat
  BY DEF TypeOK
<1>3. SessionEvent("VIEW_ACTIVE")' = SessionEvent("VIEW_ACTIVE")
  BY DEF SessionEvent
<1>4. CASE inbound' = inbound
  BY <1>4, <1>3 DEF WithdrawalQueued
<1>5. ASSUME NEW e, inbound' = Append(inbound, e)
      PROVE  WithdrawalQueued'
  <2>1. i \in 1 .. Len(inbound') /\ inbound'[i] = inbound[i]
    BY <1>2, <1>5
  <2>. QED  BY <1>1, <1>3, <2>1 DEF WithdrawalQueued
<1>6. CASE /\ inbound # <<>> /\ inbound' = Tail(inbound)
           /\ Head(inbound) # SessionEvent("VIEW_ACTIVE")
  <2>1. i # 1
    BY <1>1, <1>2, <1>6
  <2>2. i - 1 \in 1 .. Len(inbound') /\ inbound'[i - 1] = inbound[i]
    BY <1>2, <1>6, <2>1
  <2>. QED  BY <1>1, <1>3, <2>2 DEF WithdrawalQueued
<1>. QED  BY <1>4, <1>5, <1>6

(* The session leaves CONTROL_ACTIVE by a withdrawal, or ends.             *)
LEMMA GrantOfTransition ==
  ASSUME TypeOK, GrantInv, NEW s \in LiveStates \cup TerminalStates, Becomes(s),
         state = "CONTROL_ACTIVE" /\ s \in LiveStates => s \in {"VIEW_ACTIVE", "CONTROL_ACTIVE"},
         Holding' => Holding \/ s = "CONTROL_ACTIVE"
  PROVE  GrantInv'
<1>1. state' = s /\ (subscribed' <=> subscribed /\ s \in LiveStates)
  BY DEF Becomes
<1>2. SUFFICES ASSUME Holding, subscribed, s \in LiveStates, s # "CONTROL_ACTIVE"
               PROVE  WithdrawalQueued'
  BY <1>1, GrantOfPrimed
<1>3. inbound' = Append(inbound, SessionEvent(s))
  BY <1>2 DEF Becomes, Written
<1>4. CASE state = "CONTROL_ACTIVE"
  <2>1. s = "VIEW_ACTIVE"
    BY <1>2, <1>4
  <2>2. Len(inbound) + 1 \in 1 .. Len(inbound') /\ inbound'[Len(inbound) + 1] = SessionEvent(s)
    BY <1>3 DEF TypeOK
  <2>. QED  BY <2>1, <2>2 DEF WithdrawalQueued, SessionEvent
<1>5. CASE state # "CONTROL_ACTIVE"
  BY <1>2, <1>3, <1>5, GrantOf, QueuedStays
<1>. QED  BY <1>4, <1>5

(* Nothing changes but the stream.                                         *)
LEMMA GrantOfStream ==
  ASSUME TypeOK, GrantInv, state' = state, subscribed' \in BOOLEAN,
         Holding' => Holding,
         subscribed' => subscribed,
         \/ ~subscribed' \/ ~Holding'
         \/ inbound' = inbound
         \/ \E e : inbound' = Append(inbound, e)
         \/ /\ inbound # <<>> /\ inbound' = Tail(inbound)
            /\ Head(inbound) # SessionEvent("VIEW_ACTIVE")
  PROVE  GrantInv'
<1>1. subscribed' => state' \in LiveStates
  BY GrantOf
<1>2. ASSUME Holding', subscribed', state' # "CONTROL_ACTIVE"
      PROVE  WithdrawalQueued'
  <2>1. WithdrawalQueued
    BY <1>2, GrantOf
  <2>. QED  BY <1>2, <2>1, QueuedStays
<1>. QED  BY <1>1, <1>2, GrantOfPrimed

LEMMA GrantAtPortal ==
  ASSUME TypeOK, AgentInv, GrantInv, Handle \/ Lose \/ FailStream \/ CloseStream
  PROVE  GrantInv'
<1>1. CASE FailStream \/ CloseStream
  <2>1. state' = state /\ subscribed' = FALSE
    BY <1>1, Zenon DEF FailStream, CloseStream
  <2>. QED  BY <2>1, GrantOfPrimed
<1>2. CASE Lose
  <2>1. /\ call' = [call EXCEPT !.status = "failed", !.grant = asks]
        /\ UNCHANGED <<at, controller, state, inbound, subscribed>>
    BY <1>2 DEF Lose, Answer, local, input
  <2>2. call'.status = "failed"
    BY <2>1 DEF TypeOK
  <2>3. Holding' => Holding
    BY <2>1, <2>2 DEF Holding
  <2>. QED  BY <2>1, <2>3, GrantOfStream DEF TypeOK
<1>3. CASE Handle
  <2>1. PICK status \in {"ok", "failed"} :
          /\ call' = [call EXCEPT !.status = status, !.grant = asks]
          /\ \/ /\ Accepted(call.action) /\ Effect(call.action)
             \/ status = "failed" /\ UNCHANGED <<state, inbound, subscribed>>
    BY <1>3 DEF Handle, Answer
  <2>2. call'.status = status /\ UNCHANGED <<at, controller>>
    BY <1>3, <2>1 DEF TypeOK, Handle, Answer, local, input
  <2>3. call.action \in Action /\ at = call.action
    BY <1>3 DEF Handle, TypeOK, NoCall
  <2>4. controller => at = "signal"
    BY <2>3 DEF AgentInv, ControllerByPlace, Action
  <2>5. CASE \/ at \in {"event-token", "ice-config", "signal"}
             \/ ~(Accepted(call.action) /\ Effect(call.action))
    <3>1. UNCHANGED <<state, inbound, subscribed>>
      BY <2>1, <2>3, <2>5 DEF Effect
    <3>2. Holding' => Holding
      BY <2>1, <2>2, <2>5 DEF Holding
    <3>. QED  BY <3>1, <3>2, GrantOfStream DEF TypeOK
  <2>6. CASE at = "events" /\ Accepted(call.action) /\ Effect(call.action)
    <3>1. ~Holding'
      BY <2>2, <2>4, <2>6 DEF Holding
    <3>2. state' = state /\ state \in LiveStates
      BY <2>3, <2>6 DEF Effect, Accepted, Live
    <3>. QED  BY <3>1, <3>2, GrantOfPrimed
  <2>7. CASE at = "approve-control" /\ Accepted(call.action) /\ Effect(call.action)
    <3>1. Becomes("CONTROL_ACTIVE")
      BY <2>3, <2>7 DEF Effect, ApproveControl, Transition
    <3>2. state' = "CONTROL_ACTIVE"
      BY <3>1 DEF Becomes
    <3>. QED  BY <3>2, GrantOfPrimed DEF LiveStates
  <2>8. CASE /\ at \in {"approve-view", "deny-control", "end"}
             /\ Accepted(call.action) /\ Effect(call.action)
    <3>1. ~Holding'
      BY <2>2, <2>4, <2>8 DEF Holding
    <3>2. PICK s \in LiveStates \cup TerminalStates : Becomes(s)
      BY <2>3, <2>8, States DEF Effect, TerminalStates
    <3>3. subscribed' => state' \in LiveStates
      BY <3>2 DEF Becomes
    <3>. QED  BY <3>1, <3>3, GrantOfPrimed
  <2>. QED  BY <2>1, <2>3, <2>5, <2>6, <2>7, <2>8 DEF Action
<1>. QED  BY <1>1, <1>2, <1>3

LEMMA GrantAmongOthers ==
  ASSUME TypeOK, GrantInv,
         \/ AskView \/ AskControl
         \/ \E move \in BrowserMoves : BrowserHostActs(move)
         \/ \E events \in Batch : SendBatch(events)
         \/ \E signal \in Signals : SendSignal(signal)
         \/ SessionEnds
  PROVE  GrantInv'
<1>1. UNCHANGED <<call, at, controller>>
  BY DEF AskView, AskControl, BrowserHostActs, SendBatch, SendSignal, SessionEnds,
         Others, local, input
<1>2. Holding' <=> Holding
  BY <1>1 DEF Holding
<1>3. CASE AskView \/ AskControl
  <2>1. /\ Becomes(ViewRequest.to) \/ Becomes(ControlRequest.to)
        /\ state # "CONTROL_ACTIVE"
    BY <1>3 DEF AskView, AskControl, ViewRequest, ControlRequest, Transition
  <2>. QED  BY <1>2, <2>1, States, GrantOfTransition
<1>4. ASSUME NEW move \in BrowserMoves, BrowserHostActs(move)
      PROVE  GrantInv'
  <2>1. move \in {ApproveView, DenyView, ApproveControl, DenyControl, RevokeControl}
    BY Constants DEF HostActions
  <2>2. Becomes(move.to) /\ state \in move.from
    BY <1>4 DEF BrowserHostActs
  <2>3. state = "CONTROL_ACTIVE" => move = RevokeControl
    BY <2>1, <2>2 DEF ApproveView, DenyView, ApproveControl, DenyControl, Transition
  <2>4. RevokeControl.to = "VIEW_ACTIVE"
    BY DEF RevokeControl, Transition
  <2>. QED  BY <1>2, <2>1, <2>2, <2>3, <2>4, States, GrantOfTransition
<1>5. CASE SessionEnds
  <2>1. PICK s \in TerminalStates : Becomes(s)
    BY <1>5 DEF SessionEnds
  <2>. QED  BY <1>2, <2>1, States, GrantOfTransition
<1>6. CASE (\E events \in Batch : SendBatch(events)) \/ (\E signal \in Signals : SendSignal(signal))
  <2>1. /\ state' = state /\ subscribed' = subscribed
        /\ inbound' = inbound \/ \E e : inbound' = Append(inbound, e)
    BY <1>6 DEF SendBatch, SendSignal, Written
  <2>. QED  BY <1>2, <2>1, GrantOfStream DEF TypeOK
<1>. QED  BY <1>3, <1>4, <1>5, <1>6

LEMMA GrantAtAgent ==
  ASSUME TypeOK, AgentInv, GrantInv,
         LocalUser \/ Agent \/ Loop \/ RelaySignal \/ Killed \/ PipelineSignals
           \/ UNCHANGED vars
  PROVE  GrantInv'
<1>1. state' = state
  BY DEF LocalUser, Agent, Loop, Killed, PipelineSignals, vars, portal, PortalRests,
     RelaySignal, Share, Capture, Confirm, Dialog, Start, Subscribe, StartSender,
     ViewApproved, SignalRelayed, Leave, Stop, ControlApproved, ControlDenied, Ended,
     HandleSignal, HandleSession, HandleError, IgnoreInput, Inject, RejectInput,
     LoseDisplay
<1>2. subscribed' = FALSE \/ subscribed' = subscribed
  BY Zenon
  DEF LocalUser, Agent, Loop, Killed, PipelineSignals, vars, portal, Exit, Calls, Goes,
      NextCall, Unchanged, Take, RelaySignal, Share, Capture, Confirm, Dialog,
      Start, Subscribe, StartSender, ViewApproved, SignalRelayed, Leave, Stop,
      ControlApproved, ControlDenied, Ended, HandleSignal, HandleSession, HandleError,
      IgnoreInput, Inject, RejectInput, LoseDisplay
<1>3. subscribed' \in BOOLEAN /\ (subscribed' => subscribed)
  <2>1. subscribed \in BOOLEAN
    BY DEF TypeOK
  <2>2. CASE subscribed' = FALSE
    BY <2>2
  <2>3. CASE subscribed' = subscribed
    BY <2>1, <2>3
  <2>. QED  BY <1>2, <2>2, <2>3
<1>4. AgentInv'
  BY AgentIsKept DEF Next
<1>5. CASE ~Holding'
  BY <1>1, <1>3, <1>5, GrantOfStream DEF TypeOK
<1>6. CASE at' \notin {"loop", "signal", "approve-control"}
  BY <1>4, <1>5, <1>6 DEF Holding, AgentInv, ControllerByPlace
<1>7. ASSUME Holding' => Holding,
             \/ inbound' = inbound
             \/ /\ inbound # <<>> /\ inbound' = Tail(inbound)
                /\ Head(inbound) # SessionEvent("VIEW_ACTIVE")
      PROVE  GrantInv'
  BY <1>1, <1>3, <1>7, GrantOfStream DEF TypeOK
<1>8. CASE Start \/ Share \/ Capture \/ Subscribe \/ StartSender \/ Confirm \/ Ended \/ Killed
  BY <1>6, <1>8 DEF Start, Share, Capture, NextCall, Subscribe, StartSender, Confirm,
     Ended, Killed, Exit, Calls, Request, Goes
<1>9. CASE ViewApproved \/ ControlDenied
  <2>1. at \in {"approve-view", "deny-control"} /\ controller' = controller
        /\ at' \in {"loop", "exited"}
    BY <1>9 DEF ViewApproved, ControlDenied, Answered, Exit, local, input
  <2>2. ~Holding'
    BY <2>1 DEF Holding, AgentInv, ControllerByPlace
  <2>. QED  BY <1>5, <2>2
<1>10. CASE Dialog
  <2>1. at = "dialog" /\ controller' = controller
    BY <1>10 DEF Dialog
  <2>2. at' = "approve-control" => call'.status = "sent"
    BY <1>10 DEF Dialog, Request
  <2>3. ~Holding'
    BY <2>1, <2>2 DEF Holding, AgentInv, ControllerByPlace
  <2>. QED  BY <1>5, <2>3
<1>11. CASE ControlApproved
  <2>1. inbound' = inbound /\ at = "approve-control" /\ at' = "loop"
    BY <1>11 DEF ControlApproved, Unchanged, Answered
  <2>2. Granted \/ controller' = controller
    BY <1>11 DEF ControlApproved
  <2>3. Holding' => Holding
    BY <2>1, <2>2 DEF Holding, Granted, Ok
  <2>. QED  BY <1>7, <2>1, <2>3
<1>12. CASE PipelineSignals \/ UNCHANGED vars
  <2>1. UNCHANGED <<inbound, at, call, controller>>
    BY <1>12 DEF PipelineSignals, vars, local, input
  <2>. QED  BY <1>7, <2>1 DEF Holding
<1>13. CASE RelaySignal
  <2>1. inbound' = inbound /\ at' = "signal" /\ controller' = controller
    BY <1>13 DEF RelaySignal, Calls, Request, local, input
  <2>. QED  BY <1>7, <2>1 DEF Holding
<1>14. ASSUME NEW terminated \in BOOLEAN, Stop(terminated)
       PROVE  GrantInv'
  BY <1>6, <1>14 DEF Stop, Exit, Calls, Request
<1>15. CASE SignalRelayed
  <2>1. \/ Stop(FALSE)
        \/ inbound' = inbound /\ at' = "loop" /\ controller' = controller
    BY <1>15 DEF SignalRelayed, Leave, local, input
  <2>. QED  BY <1>7, <1>14, <2>1 DEF Holding
<1>16. CASE RejectInput \/ LoseDisplay \/ HandleError
  BY <1>14, <1>16 DEF RejectInput, LoseDisplay, HandleError, Leave
<1>17. CASE HandleSignal \/ IgnoreInput \/ Inject
  <2>1. \/ Stop(FALSE)
        \/ /\ inbound # <<>> /\ Head(inbound).kind \in {"signal", "input"}
           /\ inbound' = Tail(inbound)
           /\ UNCHANGED <<at, call, controller>>
    BY <1>17 DEF HandleSignal, IgnoreInput, Inject, Leave, Arrived, Take, local, input
  <2>2. SessionEvent("VIEW_ACTIVE").kind = "session"
    BY DEF SessionEvent
  <2>. QED  BY <1>7, <1>14, <2>1, <2>2 DEF Holding
<1>18. CASE HandleSession
  <2>1. CASE \E terminated \in BOOLEAN : Stop(terminated)
    BY <1>14, <2>1
  <2>2. CASE Dropped /\ Take /\ at = "loop"
    <3>1. controller' = FALSE
      BY <2>2, Zenon DEF Dropped, DroppedHolding
    <3>2. at' = "loop"
      BY <2>2 DEF Take
    <3>. QED  BY <1>5, <3>1, <3>2 DEF Holding
  <2>3. CASE at' = "confirm"
    BY <1>6, <2>3
  <2>4. CASE Take /\ UNCHANGED local /\ inbound # <<>> /\ Head(inbound).state # "VIEW_ACTIVE"
    <3>1. inbound' = Tail(inbound) /\ UNCHANGED <<at, call, controller>>
      BY <2>4 DEF Take, local, input
    <3>2. SessionEvent("VIEW_ACTIVE").state = "VIEW_ACTIVE"
      BY DEF SessionEvent
    <3>. QED  BY <1>7, <2>4, <3>1, <3>2 DEF Holding
  <2>. QED  BY <1>18, <2>1, <2>2, <2>3, <2>4, Zenon DEF HandleSession, Arrived, Leave
<1>. QED  BY <1>8, <1>9, <1>10, <1>11, <1>12, <1>13, <1>15, <1>16, <1>17, <1>18
          DEF LocalUser, Agent, Loop

(* Once the agent has taken every event of a stream that is still open, a  *)
(* controller that it holds has an active grant of control behind it: no   *)
(* withdrawal is overlooked, whichever prompt or call it overlapped and    *)
(* however often the answer of the approval was lost.                      *)
THEOREM NoGrantOverlooked == Spec => []ControllerNeedsGrant
<1>1. TypeOK /\ AgentInv /\ GrantInv /\ [Next]_vars => GrantInv'
  <2>. SUFFICES ASSUME TypeOK, AgentInv, GrantInv, [Next]_vars PROVE GrantInv'
    OBVIOUS
  <2>1. \/ Handle \/ Lose \/ FailStream \/ CloseStream
        \/ \/ AskView \/ AskControl
           \/ \E move \in BrowserMoves : BrowserHostActs(move)
           \/ \E events \in Batch : SendBatch(events)
           \/ \E signal \in Signals : SendSignal(signal)
           \/ SessionEnds
        \/ LocalUser \/ Agent \/ Loop \/ RelaySignal \/ Killed \/ PipelineSignals
             \/ UNCHANGED vars
    BY DEF Next
  <2>. QED  BY <2>1, GrantAtPortal, GrantAmongOthers, GrantAtAgent
<1>2. GrantInv => ControllerNeedsGrant
  <2>. SUFFICES ASSUME GrantInv, inbound = <<>>, subscribed, controller,
                       state # "CONTROL_ACTIVE"
                PROVE  FALSE
    BY DEF ControllerNeedsGrant
  <2>1. WithdrawalQueued
    BY DEF GrantInv
  <2>. QED  BY <2>1 DEF WithdrawalQueued
<1>3. Spec => []TypeOK
  BY AgentTypes
<1>. QED  BY <1>1, <1>2, <1>3, GrantInitially, AgentAlways, PTL DEF Spec

-----------------------------------------------------------------------------
(* The arithmetic of the two controllers.                                  *)

(* Whatever whole distance the browser reports, both controllers scroll    *)
(* the same bounded way.                                                   *)
THEOREM WheelsAgree == \A delta \in Int : ScrollsAlike(delta)
BY DEF ScrollsAlike, Steps, Scrolled, WheelButton, Magnitude, Clamped, Lesser, SCROLL_STEP,
       MAX_SCROLL_STEPS, MAX_SCROLL_DELTA

(* Whatever position the browser reports on a picture of any size, and     *)
(* wherever the pointer of the desktop is, the relative motion leads the   *)
(* browser's way and loses no more of it than the limit cuts off.          *)
THEOREM PaceIsKept ==
  \A span \in Nat, position, pointer \in Int : \A last \in 0 .. span :
    KeepsPace(pointer, last, position, span)
BY DEF KeepsPace, Excess, RelativeMotion, Delta, Magnitude, Clamped,
       MAX_RELATIVE_POINTER_DELTA

(* A fraction of at most one never leads off a screen.                     *)
LEMMA CutOff ==
  ASSUME NEW whole \in Nat \ {0}, NEW a \in 0 .. whole, NEW w \in Nat
  PROVE  (a * w) \div whole \in 0 .. w
<1>1. a * w <= whole * w /\ a * w \in Nat
  OBVIOUS
<1>. QED  BY <1>1

(* Whatever fraction of the picture the browser reports, an absolute       *)
(* position is a pixel of the screen, whatever its width.                  *)
THEOREM PointerOnScreen ==
  \A whole \in Nat \ {0}, part \in Int, width \in Nat :
    PixelOnScreen(part, whole, width)
<1>. SUFFICES ASSUME NEW whole \in Nat \ {0}, NEW part \in Int, NEW width \in Nat
              PROVE  PixelOnScreen(part, whole, width)
  OBVIOUS
<1>. DEFINE last == IF width = 0 THEN 0 ELSE width - 1
            cut == (Clamped(part, 0, whole) * last) \div whole
<1>1. last \in Nat /\ Clamped(part, 0, whole) \in 0 .. whole
  BY DEF Clamped
<1>2. cut \in 0 .. last
  BY <1>1, CutOff
<1>3. Lesser(cut, I16_MAX) \in 0 .. last
  BY <1>1, <1>2 DEF Lesser, I16_MAX
<1>. QED  BY <1>3 DEF PixelOnScreen, Pixel

-----------------------------------------------------------------------------
(* The tables of the two controllers, and what the runs check of both.     *)

(* The keys are written down twice with the same codes, each its own and   *)
(* none beyond what a byte holds in the numbering of X11.                  *)
LEMMA SameKeys ==
  /\ LinuxKeycode = X11Evdev
  /\ \A c \in DOMAIN X11Evdev : X11Evdev[c] \in 1 .. 126
  /\ \A c, d \in DOMAIN X11Evdev : X11Evdev[c] = X11Evdev[d] => c = d
<1>1. LinuxKeycode = X11Evdev
  BY DEF LinuxKeycode, X11Evdev
<1>2. \A c \in DOMAIN X11Evdev : X11Evdev[c] \in 1 .. 126
  BY DEF X11Evdev
<1>3. \A c, d \in DOMAIN X11Evdev : X11Evdev[c] = X11Evdev[d] => c = d
  BY SMTT(60) DEF X11Evdev
<1>. QED  BY <1>1, <1>2, <1>3

(* So the check against a byte leaves no key out.                          *)
LEMMA KeycodesOfX11 ==
  /\ DOMAIN X11Keycode = DOMAIN X11Evdev
  /\ \A c \in DOMAIN X11Keycode : X11Keycode[c] = X11Evdev[c] + 8
BY SameKeys DEF X11Keycode, CoreKeycode, U8_MAX

(* The two controllers know the same keys and buttons by codes that agree, *)
(* no two of which are the same, and no held button is one of the wheel's. *)
THEOREM TablesAreOne == TablesAgree
<1>1. DOMAIN X11Keycode = DOMAIN LinuxKeycode
  BY SameKeys, KeycodesOfX11
<1>2. DOMAIN X11Button = DOMAIN LinuxButton
  BY DEF X11Button, LinuxButton
<1>3. \A c \in DOMAIN LinuxKeycode : X11Keycode[c] = LinuxKeycode[c] + 8
  BY SameKeys, KeycodesOfX11
<1>4. \A c, d \in DOMAIN X11Keycode : X11Keycode[c] = X11Keycode[d] => c = d
  BY SameKeys, KeycodesOfX11
<1>5. \A b \in DOMAIN X11Button, axis \in {"x", "y"}, delta \in {-1, 1} :
        X11Button[b] # WheelButton(axis, delta)
  <2>1. \A b \in DOMAIN X11Button : X11Button[b] \in 1 .. 3
    BY DEF X11Button
  <2>2. \A axis \in {"x", "y"}, delta \in {-1, 1} : WheelButton(axis, delta) \in 4 .. 7
    BY DEF WheelButton
  <2>. QED  BY <2>1, <2>2
<1>. QED  BY <1>1, <1>2, <1>3, <1>4, <1>5 DEF TablesAgree

(* Whichever controller is held, a key is the same on both displays.       *)
THEOREM SameKeysOnBothPaths == Spec => []KeyTablesAgree
<1>1. KeyTablesAgree
  BY TablesAreOne DEF KeyTablesAgree
<1>. QED  BY <1>1, PTL

LEMMA Measures ==
  /\ Distances \subseteq Int
  /\ Coordinates \subseteq Int
  /\ Widths \subseteq Nat
  /\ WHOLE \in Nat \ {0}
<1>1. /\ Distances \subseteq Int /\ Coordinates \subseteq Int
      /\ Widths \subseteq 0 .. U16_MAX /\ WHOLE \in Nat \ {0}
  BY MeasuresAssumption
<1>2. 0 .. U16_MAX \subseteq Nat
  BY DEF U16_MAX
<1>. QED  BY <1>1, <1>2

(* Whichever controller is held, the wheel scrolls as far.                 *)
THEOREM SameScrollOnBothPaths == Spec => []BothPathsScrollAlike
<1>1. BothPathsScrollAlike
  <2>1. Distances \subseteq Int
    BY Measures
  <2>. QED  BY <2>1, WheelsAgree DEF BothPathsScrollAlike
<1>. QED  BY <1>1, PTL

(* Whichever controller is held, the pointer falls behind the browser's by *)
(* no more than what is cut off, or is put on a pixel of the screen.       *)
THEOREM PointerFollows == Spec => []PointerKeepsPace
<1>1. PointerKeepsPace
  <2>. Coordinates \subseteq Int /\ Widths \subseteq Nat /\ WHOLE \in Nat \ {0}
    BY Measures
  <2>1. \A part \in Coordinates, width \in Widths : PixelOnScreen(part, WHOLE, width)
    BY PointerOnScreen
  <2>2. \A pointer, position \in Coordinates, span \in {POINTER_X_SPAN, POINTER_Y_SPAN} :
          \A last \in Coordinates \cap 0 .. span : KeepsPace(pointer, last, position, span)
    <3>1. {POINTER_X_SPAN, POINTER_Y_SPAN} \subseteq Nat
      BY DEF POINTER_X_SPAN, POINTER_Y_SPAN
    <3>. QED  BY <3>1, PaceIsKept, Zenon
  <2>. QED  BY <2>1, <2>2 DEF PointerKeepsPace
<1>. QED  BY <1>1, PTL

-----------------------------------------------------------------------------
(* The promise to the local user.                                          *)

(* Where nothing is asked.                                                 *)
Quiet == Place \ {"share", "confirm", "exited"}

LEMMA OneVisit ==
  ASSUME NEW f, f = [s \in Visit |-> f[s]], NEW g, g = [s \in Visit |-> g[s]]
  PROVE  /\ g = [f EXCEPT !["visit"] = g["visit"]]
         /\ g["visit"] = f["visit"] => g = f
BY DEF Visit

LEMMA VisitStates ==
  /\ LocallyAttended = [s \in Visit |-> LocallyAttended[s]]
  /\ LocallyAsked = [s \in Visit |-> LocallyAsked[s]]
  /\ LocalGrants = [s \in Visit |-> LocalGrants[s]]
  /\ LocallyAttended' = [s \in Visit |-> LocallyAttended'[s]]
  /\ LocallyAsked' = [s \in Visit |-> LocallyAsked'[s]]
  /\ LocalGrants' = [s \in Visit |-> LocalGrants'[s]]
BY DEF LocallyAttended, LocallyAsked, LocalGrants

(* What is asked and granted at each place, for either permission.         *)
LEMMA AskedHere ==
  /\ at \in Quiet => LocallyAsked["visit"] = "nothing"
  /\ at = "share" => LocallyAsked["visit"] = "view"
  /\ at = "confirm" => LocallyAsked["visit"] = "control"
  /\ at \in Quiet \cup {"share", "confirm"} =>
       /\ LocallyAttended["visit"] = TRUE
       /\ LocalGrants["visit"] = GrantedBy(approval.permission)
BY DEF LocallyAttended, LocallyAsked, LocalGrants, Quiet, Place, Action, Visit

LEMMA AskedNext ==
  /\ at' \in Quiet => LocallyAsked'["visit"] = "nothing"
  /\ at' = "share" => LocallyAsked'["visit"] = "view"
  /\ at' = "confirm" => LocallyAsked'["visit"] = "control"
  /\ at' \in Quiet \cup {"share", "confirm"} =>
       /\ LocallyAttended'["visit"] = TRUE
       /\ LocalGrants'["visit"] = GrantedBy(approval'.permission)
BY DEF LocallyAttended, LocallyAsked, LocalGrants, Quiet, Place, Action, Visit

(* One of the steps below is taken.                                        *)
LocalStep ==
  \/ at' = "exited"
  \/ UNCHANGED <<at, approval>>
  \/ at \in Quiet /\ at' \in Quiet /\ approval'.permission = approval.permission
  \/ /\ at \in Quiet /\ at' = "share"
     /\ approval.permission = "None" /\ approval'.permission = "None"
  \/ /\ at = "share" /\ at' \in Quiet
     /\ approval.permission = "None" /\ approval'.permission = "ViewOnly"
  \/ /\ at \in Quiet /\ at' = "confirm"
     /\ approval.permission = "ViewOnly" /\ approval'.permission = "ViewOnly"
  \/ /\ at = "confirm" /\ at' \in Quiet
     /\ approval.permission = "ViewOnly" /\ approval'.permission \in {"ViewOnly", "Control"}
  \/ /\ at \in Quiet /\ at' \in Quiet
     /\ approval.permission = "Control" /\ approval'.permission = "ViewOnly"

LEMMA LocalStepIsKept ==
  ASSUME LocalStep
  PROVE  [LocalPromise!Next]_(LocalPromise!vars)
<1>. USE DEF GrantedBy
<1>s. "visit" \in Visit
  BY DEF Visit
<1>a. ASSUME LocallyAttended'["visit"] = LocallyAttended["visit"]
      PROVE  LocallyAttended' = LocallyAttended
  BY <1>a, OneVisit, VisitStates
<1>q. LocallyAsked' = [LocallyAsked EXCEPT !["visit"] = LocallyAsked'["visit"]]
      /\ (LocallyAsked'["visit"] = LocallyAsked["visit"] => LocallyAsked' = LocallyAsked)
  BY OneVisit, VisitStates
<1>g. LocalGrants' = [LocalGrants EXCEPT !["visit"] = LocalGrants'["visit"]]
      /\ (LocalGrants'["visit"] = LocalGrants["visit"] => LocalGrants' = LocalGrants)
  BY OneVisit, VisitStates
<1>1. CASE at' = "exited"
  <2>1. LocalPromise!Close(Visit)
    BY <1>1 DEF LocalPromise!Close, LocallyAttended, LocallyAsked, LocalGrants
  <2>. QED  BY <2>1 DEF LocalPromise!Next
<1>2. CASE UNCHANGED <<at, approval>>
  BY <1>2 DEF LocalPromise!vars, LocallyAttended, LocallyAsked, LocalGrants
<1>3. CASE at \in Quiet /\ at' \in Quiet /\ approval'.permission = approval.permission
  BY <1>3, <1>a, <1>q, <1>g, AskedHere, AskedNext DEF LocalPromise!vars
<1>4. CASE /\ at \in Quiet /\ at' = "share"
           /\ approval.permission = "None" /\ approval'.permission = "None"
  <2>1. LocalPromise!Ask("visit", "view")
    BY <1>4, <1>s, <1>a, <1>q, <1>g, AskedHere, AskedNext DEF LocalPromise!Ask, LocalPromise!Askable
  <2>. QED  BY <1>s, <2>1 DEF LocalPromise!Next, LocalPromise!Thing
<1>5. CASE /\ at = "share" /\ at' \in Quiet
           /\ approval.permission = "None" /\ approval'.permission = "ViewOnly"
  <2>1. LocalPromise!Grant("visit")
    BY <1>5, <1>s, <1>a, <1>q, <1>g, AskedHere, AskedNext DEF LocalPromise!Grant, LocalPromise!Granted
  <2>. QED  BY <1>s, <2>1 DEF LocalPromise!Next
<1>6. CASE /\ at \in Quiet /\ at' = "confirm"
           /\ approval.permission = "ViewOnly" /\ approval'.permission = "ViewOnly"
  <2>1. LocalPromise!Ask("visit", "control")
    BY <1>6, <1>s, <1>a, <1>q, <1>g, AskedHere, AskedNext DEF LocalPromise!Ask, LocalPromise!Askable
  <2>. QED  BY <1>s, <2>1 DEF LocalPromise!Next, LocalPromise!Thing
<1>7. CASE /\ at = "confirm" /\ at' \in Quiet
           /\ approval.permission = "ViewOnly"
           /\ approval'.permission = "Control"
  <2>1. /\ LocalGrants["visit"] = {"view"} /\ LocallyAsked["visit"] = "control"
        /\ LocalGrants'["visit"] = {"view", "control"}
    BY <1>7, AskedHere, AskedNext
  <2>2. LocalGrants'["visit"] = LocalGrants["visit"] \cup {LocallyAsked["visit"]}
    BY <2>1
  <2>3. LocalPromise!Grant("visit")
    BY <2>1, <2>2, <1>7, <1>s, <1>a, <1>q, <1>g, AskedHere, AskedNext DEF LocalPromise!Grant, LocalPromise!Granted
  <2>. QED  BY <1>s, <2>3 DEF LocalPromise!Next
<1>8. CASE /\ at = "confirm" /\ at' \in Quiet
           /\ approval.permission = "ViewOnly" /\ approval'.permission = "ViewOnly"
  <2>1. LocalPromise!Refuse("visit")
    BY <1>8, <1>s, <1>a, <1>q, <1>g, AskedHere, AskedNext DEF LocalPromise!Refuse
  <2>. QED  BY <1>s, <2>1 DEF LocalPromise!Next
<1>9. CASE /\ at \in Quiet /\ at' \in Quiet
           /\ approval.permission = "Control" /\ approval'.permission = "ViewOnly"
  <2>1. LocalPromise!Revoke("visit")
    BY <1>9, <1>s, <1>a, <1>q, <1>g, AskedHere, AskedNext DEF LocalPromise!Revoke
  <2>. QED  BY <1>s, <2>1 DEF LocalPromise!Next
<1>. QED  BY <1>1, <1>2, <1>3, <1>4, <1>5, <1>6, <1>7, <1>8, <1>9 DEF LocalStep

(* Every step of the agent is one of these.                                *)
LEMMA LocalStepIsTaken ==
  ASSUME TypeOK, AgentInv, [Next]_vars
  PROVE  LocalStep
<1>. USE DEF LocalStep
<1>0. {"start", "capture", "loop", "dialog"} \cup Action \subseteq Quiet
  BY DEF Quiet, Place, Action
<1>1. CASE \/ Handle \/ Lose \/ FailStream \/ CloseStream
           \/ AskView \/ AskControl
           \/ \E move \in BrowserMoves : BrowserHostActs(move)
           \/ \E events \in Batch : SendBatch(events)
           \/ \E signal \in Signals : SendSignal(signal)
           \/ SessionEnds \/ PipelineSignals \/ IgnoreInput \/ UNCHANGED vars
  BY <1>1 DEF Handle, Lose, FailStream, CloseStream, Answer, AskView, AskControl, BrowserHostActs,
         SendBatch, SendSignal, SessionEnds, Others, PipelineSignals, IgnoreInput,
         Take, media, local, vars
<1>2. CASE Start
  BY <1>0, <1>2 DEF Start, Goes, Exit, HostJoined, AgentInv, ApprovalByPlace
<1>3. CASE Share
  <2>1. approval \in Approval /\ (at = "share" => approval.permission = "None")
    BY DEF AgentInv, ApprovalByPlace, TypeOK
  <2>. QED  BY <1>0, <1>3, <2>1 DEF Share, Goes, Exit, ViewApproval, Approval
<1>4. CASE Capture \/ Subscribe \/ StartSender \/ ViewApproved
  <2>1. at \in {"capture"} \cup Action /\ approval' = approval
    BY <1>4 DEF Capture, Subscribe, StartSender, ViewApproved, Answered, local, Action
  <2>2. at' = "exited" \/ at' \in {"capture", "loop"} \cup Action
    BY <1>4 DEF Capture, Subscribe, StartSender, ViewApproved, Answered, Calls, Request,
       NextCall, Exit, Action
  <2>. QED  BY <1>0, <2>1, <2>2
<1>5. CASE \/ HandleSignal \/ Inject \/ RejectInput \/ LoseDisplay
           \/ HandleError \/ RelaySignal \/ SignalRelayed
  <2>1. at \in {"loop"} \cup Action /\ approval' = approval
    BY <1>5 DEF HandleSignal, Inject, RejectInput, LoseDisplay, HandleError,
         RelaySignal, SignalRelayed, Arrived, Answered, Action, Leave, Stop, local
  <2>2. at' = "exited" \/ at' \in {"loop"} \cup Action
    BY <1>5 DEF HandleSignal, Inject, RejectInput, LoseDisplay, HandleError,
         RelaySignal, SignalRelayed, Arrived, Answered, Action, Leave, Stop, Exit, Calls,
         Request, Take
  <2>. QED  BY <1>0, <2>1, <2>2
<1>6. CASE HandleSession
  <2>0. /\ at = "loop" /\ approval \in Approval
        /\ approval.permission \in {"ViewOnly", "Control"}
        /\ ~prompted => approval.permission = "ViewOnly"
    BY <1>6 DEF HandleSession, Arrived, AgentInv, ApprovalByPlace, ControllerByPlace,
       Serving, TypeOK
  <2>1. CASE Leave(TRUE)
    BY <2>1 DEF Leave, Stop, Exit
  <2>2. CASE Take /\ UNCHANGED <<local, media>>
    BY <2>2 DEF Take, local
  <2>3. CASE Take /\ approval' = ControlRevoked(approval)
    <3>1. at' = "loop"
      BY <2>0, <2>3 DEF Take
    <3>2. approval'.permission = "ViewOnly"
      BY <2>0, <2>3 DEF ControlRevoked, ViewApproval, Approval
    <3>. QED  BY <1>0, <2>0, <3>1, <3>2
  <2>4. CASE ~prompted /\ at' = "confirm" /\ approval' = approval
    BY <1>0, <2>0, <2>4
  <2>. QED  BY <1>6, <2>1, <2>2, <2>3, <2>4 DEF HandleSession
<1>7. CASE Confirm
  <2>0. at = "confirm" /\ approval \in Approval /\ approval.permission = "ViewOnly"
    BY <1>7 DEF Confirm, AgentInv, ApprovalByPlace, TypeOK
  <2>1. \/ at' = "dialog" /\ approval' = ControlApproval(approval)
        \/ at' = "deny-control" /\ approval' = approval
    BY <1>7 DEF Confirm, Request
  <2>2. at' \in Quiet
    BY <1>0, <2>1 DEF Action
  <2>3. approval'.permission \in {"ViewOnly", "Control"}
    BY <2>0, <2>1 DEF ControlApproval, Approval
  <2>. QED  BY <2>0, <2>2, <2>3
<1>8. CASE Dialog \/ ControlApproved \/ ControlDenied
  <2>0. /\ at \in {"dialog"} \cup Action /\ approval \in Approval
        /\ approval.permission \in {"ViewOnly", "Control"}
    BY <1>8 DEF Dialog, ControlApproved, ControlDenied, Answered, Action, AgentInv,
       ApprovalByPlace, Serving, TypeOK
  <2>1. at' \in {"dialog", "loop"} \cup Action
    BY <1>8 DEF Dialog, ControlApproved, ControlDenied, Request, Action
  <2>2. approval' = approval \/ approval' = ControlRevoked(approval)
    BY <1>8 DEF Dialog, ControlApproved, ControlDenied
  <2>3. approval' = approval \/ approval'.permission = "ViewOnly"
    BY <2>0, <2>2 DEF ControlRevoked, ViewApproval, Approval
  <2>. QED  BY <1>0, <2>0, <2>1, <2>3
<1>9. CASE Ended \/ Killed
  BY <1>9 DEF Ended, Killed, Exit
<1>. QED  BY <1>1, <1>2, <1>3, <1>4, <1>5, <1>6, <1>7, <1>8, <1>9
        DEF Next, LocalUser, Agent, Loop

(* In every environment and with every fault, what the agent's own         *)
(* boundary allows was granted at a prompt that named it.                  *)
THEOREM KeepsItsPromiseLocally == Spec => LocalConsentIsKept
<1>1. TypeOK /\ AgentInv /\ [Next]_vars => [LocalPromise!Next]_(LocalPromise!vars)
  BY LocalStepIsTaken, LocalStepIsKept
<1>. QED  BY <1>1, AgentTypes, AgentAlways, PTL DEF Spec, LocalConsentIsKept

(* The consequences that Consent draws of its steps.                       *)
LocallyKept == INSTANCE ConsentProofs WITH Session <- Visit,
                 attended <- LocallyAttended, asked <- LocallyAsked,
                 grants <- LocalGrants

LEMMA SameLocalPromise ==
  /\ [LocallyKept!Next]_(LocallyKept!vars) <=> [LocalPromise!Next]_(LocalPromise!vars)
  /\ LocallyKept!ControlNeedsView <=> LocalPromise!ControlNeedsView
<1>1. [LocallyKept!Next]_(LocallyKept!vars) <=> [LocalPromise!Next]_(LocalPromise!vars)
  BY DEF LocallyKept!vars, LocalPromise!vars, LocallyKept!Next, LocalPromise!Next,
         LocallyKept!Attend, LocalPromise!Attend, LocallyKept!Ask, LocalPromise!Ask,
         LocallyKept!Askable, LocalPromise!Askable, LocallyKept!Grant,
         LocalPromise!Grant, LocallyKept!Granted, LocalPromise!Granted,
         LocallyKept!Refuse, LocalPromise!Refuse, LocallyKept!Revoke,
         LocalPromise!Revoke, LocallyKept!Close, LocalPromise!Close,
         LocallyKept!Thing, LocalPromise!Thing
<1>2. LocallyKept!ControlNeedsView <=> LocalPromise!ControlNeedsView
  BY DEF LocallyKept!ControlNeedsView, LocalPromise!ControlNeedsView
<1>. QED  BY <1>1, <1>2

LEMMA LocallyInitially ==
  Init => LocallyKept!TypeOK /\ LocallyKept!ControlNeedsView
<1>. SUFFICES ASSUME Init
              PROVE  LocallyKept!TypeOK /\ LocallyKept!ControlNeedsView
  OBVIOUS
<1>1. at = "start" /\ approval.permission = "None"
  BY DEF Init, NotJoined
<1>2. \A s \in Visit : /\ LocallyAttended[s] = TRUE
                        /\ LocallyAsked[s] = "nothing" /\ LocalGrants[s] = {}
  BY <1>1 DEF LocallyAttended, LocallyAsked, LocalGrants, GrantedBy
<1>3. LocallyKept!TypeOK
  BY <1>1, <1>2, VisitStates DEF LocallyKept!TypeOK, LocallyKept!Thing
<1>. QED  BY <1>2, <1>3 DEF LocallyKept!ControlNeedsView

(* The local boundary never allows input without capture, nor anything     *)
(* once the agent is gone.                                                 *)
THEOREM LocalControlNeedsView == Spec => []LocalPromise!ControlNeedsView
BY LocallyInitially, SameLocalPromise, KeepsItsPromiseLocally,
   LocallyKept!TypesAreKept, LocallyKept!ViewIsKept, PTL DEF Spec, LocalConsentIsKept

(* Whatever the local boundary comes to allow, the local user was at a     *)
(* prompt for it.                                                          *)
THEOREM LocalGrantsWereAsked == Spec => LocalPromise!GrantsWereAsked
<1>1. Spec => [][LocallyKept!Next]_(LocallyKept!vars)
  BY SameLocalPromise, KeepsItsPromiseLocally, PTL DEF LocalConsentIsKept
<1>2. Spec => LocallyKept!GrantsWereAsked
  BY <1>1, LocallyInitially, LocallyKept!TypesAreKept, LocallyKept!ViewIsKept,
     LocallyKept!GrantsAnswer, PTL DEF Spec, LocallyKept!GrantsWereAsked
<1>3. LocallyKept!GrantsWereAsked => LocalPromise!GrantsWereAsked
  BY PTL DEF LocallyKept!GrantsWereAsked, LocalPromise!GrantsWereAsked,
     LocallyKept!vars, LocalPromise!vars
<1>. QED  BY <1>2, <1>3
=============================================================================
