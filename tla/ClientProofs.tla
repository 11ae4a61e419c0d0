----------------------------- MODULE ClientProofs -----------------------------
(***************************************************************************)
(* Proofs about the page and the window, for every scenario: any number of *)
(* calls, subscriptions and viewers under way, and answers in any order.   *)
(***************************************************************************)
EXTENDS Clients, TLAPS

-----------------------------------------------------------------------------
(* The session, and the calls that are on their way.                       *)

SessionState == LiveStates \cup TerminalStates

Moves == OperatorRequests \cup HostActions \cup {JoinSession, EndSession, ReadSession, Nothing}

Call == [asks : Moves, status : Statuses, seen : SessionState \cup {"none"}]

CallsOK ==
  /\ scenario \in Scenarios
  /\ state \in SessionState
  /\ calls \in [Slots -> Call]
  /\ \A c \in Slots :
       (calls[c].status = "ok" /\ calls[c].asks \in HostActions \cup {ReadSession}) =>
         calls[c].seen \in LiveStates

(* Where a move may lead.                                                  *)
LEMMA MovesLead ==
  ASSUME NEW move \in Moves, NEW s \in move.from
  PROVE  /\ s \in LiveStates
         /\ move = ReadSession \/ move.to \in SessionState
         /\ move \in HostActions => move.to \in LiveStates
<1>. USE DEF Transition, LiveStates, TerminalStates, SessionState
<1>1. CASE move \in OperatorRequests
  BY <1>1 DEF OperatorRequests, ViewRequest, ControlRequest, HostActions, ApproveView,
     DenyView, ApproveControl, DenyControl, RevokeControl
<1>2. CASE move \in HostActions
  BY <1>2 DEF HostActions, ApproveView, DenyView, ApproveControl, DenyControl, RevokeControl
<1>3. CASE move \in {JoinSession, EndSession, ReadSession, Nothing}
  BY <1>3 DEF JoinSession, EndSession, ReadSession, Nothing, HostActions, ApproveView,
     DenyView, ApproveControl, DenyControl, RevokeControl
<1>. QED  BY <1>1, <1>2, <1>3 DEF Moves

(* Reading is none of the other moves.                                     *)
LEMMA ReadingIsNoAction ==
  ReadSession \notin OperatorRequests \cup HostActions \cup {JoinSession}
BY DEF ReadSession, JoinSession, Transition, OperatorRequests, ViewRequest, ControlRequest,
   HostActions, ApproveView, DenyView, ApproveControl, DenyControl, RevokeControl

LEMMA AfterLive ==
  ASSUME state \in SessionState, NEW move \in Moves, state \in move.from
  PROVE  /\ After(move) \in SessionState
         /\ move \in HostActions \cup {ReadSession} => After(move) \in LiveStates
BY MovesLead, ReadingIsNoAction DEF After

(* Everything that happens to the calls.                                   *)
Sends == \E move \in Moves : Send(move) /\ UNCHANGED state

Served == \E c \in Slots : Handled(c) \/ Lost(c)

Frees ==
  \E c \in Slots : /\ calls' \in {Freed(c), [calls EXCEPT ![c] = Asking(ReadSession)]}
                   /\ UNCHANGED state

MovedOn == \E moves \in SUBSET (Moves \ {ReadSession}) : Moved(moves)

CallsChange == Sends \/ Served \/ Frees \/ MovedOn \/ UNCHANGED <<state, calls>>

LEMMA PageCalls ==
  ASSUME CallsOK, PageNext
  PROVE  CallsChange
<1>1. scenario.moves \subseteq Moves \ {ReadSession}
  BY ScenariosAssumption, ReadingIsNoAction DEF CallsOK, Scenario, Moves
<1>2. ASSUME NEW move \in OperatorRequests \cup {EndSession}, Click(move)
      PROVE  Sends
  BY <1>2 DEF Click, Sends, Moves
<1>3. ASSUME NEW c \in Slots, Serve(c)
      PROVE  Served
  BY <1>3 DEF Serve, Served
<1>4. ASSUME NEW c \in Slots, PageGoesOn(c)
      PROVE  Frees
  BY <1>4 DEF PageGoesOn, ActionAnswered, SessionRead, EndAnswered, Frees
<1>5. ASSUME Others
      PROVE  MovedOn
  BY <1>1, <1>5 DEF Others, MovedOn
<1>6. ASSUME NEW token \in tokens, ServeToken(token) \/ TokenAnswered(token)
      PROVE  UNCHANGED <<state, calls>>
  BY <1>6 DEF ServeToken, TokenAnswered
<1>7. ASSUME NEW source \in sources,
             OpenStream(source) \/ BreakStream(source) \/ StreamEvent(source)
      PROVE  UNCHANGED <<state, calls>>
  BY <1>7 DEF OpenStream, BreakStream, StreamEvent
<1>8. ASSUME \/ Reconnected \/ QueueRemoteInput \/ FlushRemoteInput
             \/ \E t \in Task : StartViewer(t)
             \/ \E batch \in batches : ServeInput(batch) \/ InputAnswered(batch)
      PROVE  UNCHANGED <<state, calls>>
  BY <1>8 DEF Reconnected, QueueRemoteInput, FlushRemoteInput, StartViewer, ServeInput,
     InputAnswered, NotDelivery
<1>. QED
  BY <1>2, <1>3, <1>4, <1>5, <1>6, <1>7, <1>8 DEF PageNext, CallsChange

LEMMA WindowCalls ==
  ASSUME CallsOK, WindowNext
  PROVE  CallsChange
<1>1. ASSUME JoinButton_Click \/ Poll \/ HostAction \/ EndButton_Click
      PROVE  Sends
  <2>1. Buttons \subseteq HostActions
    BY DEF Buttons, HostActions
  <2>. QED
    BY <1>1, <2>1 DEF JoinButton_Click, Poll, HostAction, EndButton_Click, Sends, Moves
<1>2. ASSUME NEW c \in Slots, Handled(c) \/ Lost(c)
      PROVE  Served
  BY <1>2 DEF Served
<1>3. ASSUME NEW c \in Slots, WindowGoesOn(c)
      PROVE  Frees
  BY <1>3 DEF WindowGoesOn, JoinAnswered, StatusAnswered, WindowEnds, Frees
<1>4. ASSUME Moved(OperatorRequests \cup HostActions)
      PROVE  MovedOn
  BY <1>4, ReadingIsNoAction DEF MovedOn, Moves
<1>. QED  BY <1>1, <1>2, <1>3, <1>4 DEF WindowNext, CallsChange

LEMMA CallsStep ==
  ASSUME CallsOK, [Next]_vars
  PROVE  CallsOK'
<1>. USE DEF CallsOK, Call
<1>0. CallsChange /\ scenario' = scenario
  BY PageCalls, WindowCalls DEF Next, vars, CallsChange
<1>1. Slots' = Slots
  BY <1>0 DEF Slots
<1>2. CASE Sends
  <2>1. PICK move \in Moves : Send(move) /\ UNCHANGED state
    BY <1>2 DEF Sends
  <2>2. Asking(move) \in Call /\ Asking(move).status # "ok"
    BY DEF Asking, Statuses
  <2>. QED  BY <1>0, <1>1, <2>1, <2>2 DEF Send
<1>3. CASE Served
  <2>1. PICK c \in Slots : Handled(c) \/ Lost(c)
    BY <1>3 DEF Served
  <2>. DEFINE move == calls[c].asks
  <2>2. move \in Moves
    OBVIOUS
  <2>3. state' \in SessionState
    BY <2>1, <2>2, AfterLive DEF Handled, Lost
  <2>4. PICK status \in Statuses, seen \in SessionState \cup {"none"} :
          /\ Answer(c, status, seen)
          /\ (status = "ok" /\ move \in HostActions \cup {ReadSession}) => seen \in LiveStates
    <3>1. CASE Handled(c)
      BY <3>1, <2>2, AfterLive DEF Handled, Statuses
    <3>2. CASE Lost(c)
      BY <3>2 DEF Lost, Statuses
    <3>. QED  BY <2>1, <3>1, <3>2
  <2>5. /\ calls' \in [Slots -> Call]
        /\ calls'[c].asks = move /\ calls'[c].status = status /\ calls'[c].seen = seen
        /\ \A d \in Slots \ {c} : calls'[d] = calls[d]
    BY <2>4 DEF Answer
  <2>. QED  BY <1>0, <1>1, <2>3, <2>4, <2>5
<1>4. CASE Frees
  <2>1. PICK c \in Slots : /\ calls' \in {Freed(c), [calls EXCEPT ![c] = Asking(ReadSession)]}
                           /\ UNCHANGED state
    BY <1>4 DEF Frees
  <2>2. PICK call \in {NoCall, Asking(ReadSession)} : calls' = [calls EXCEPT ![c] = call]
    BY <2>1 DEF Freed
  <2>3. call \in Call /\ call.status # "ok"
    BY DEF NoCall, Asking, Statuses, Moves
  <2>. QED  BY <1>0, <1>1, <2>1, <2>2, <2>3
<1>5. CASE MovedOn
  <2>1. PICK moves \in SUBSET (Moves \ {ReadSession}) : Moved(moves)
    BY <1>5 DEF MovedOn
  <2>2. state' \in SessionState
    <3>1. CASE state' \in TerminalStates
      BY <3>1 DEF SessionState
    <3>2. ASSUME NEW move \in moves, state \in move.from, state' = move.to
          PROVE  state' \in SessionState
      BY <3>2, MovesLead
    <3>. QED  BY <2>1, <3>1, <3>2 DEF Moved
  <2>. QED  BY <1>0, <1>1, <2>1, <2>2 DEF Moved
<1>6. CASE UNCHANGED <<state, calls>>
  BY <1>0, <1>1, <1>6
<1>. QED  BY <1>0, <1>2, <1>3, <1>4, <1>5, <1>6 DEF CallsChange

-----------------------------------------------------------------------------
(* Live updates of the page.                                               *)

PageEvent ==
  [kind : {"session"}, state : SessionState] \cup [kind : {"error"}, state : {"none"}]

Source == [id : Nat, held : BOOLEAN, events : Seq(PageEvent)]

EventToken == [id : Nat, status : {"sent", "ok", "failed"}]

(* What the page shows once it has taken the events that wait.             *)
Tells(source) ==
  source.held =>
    IF source.events = <<>> THEN shown = state
    ELSE source.events[Len(source.events)] = Event(state)

(* One request of a token for each subscription, and one source at most:   *)
(* that of the last subscription, whose token has been answered.           *)
OneSubscription ==
  /\ eventSubscriptionId \in Nat /\ eventSource \in Nat
  /\ \A token \in tokens : token.id \in 1 .. eventSubscriptionId
  /\ \A a, b \in tokens : a.id = b.id => a = b
  /\ \A a, b \in sources : a = b
  /\ IF eventSource = None THEN sources = {}
     ELSE /\ current
          /\ eventSource = eventSubscriptionId
          /\ sources # {} /\ \A source \in sources : source.id = eventSource
          /\ \A token \in tokens : token.id # eventSubscriptionId

UpdatesOK ==
  /\ current \in BOOLEAN /\ shown \in LiveStates \cup {"none"}
  /\ tokens \subseteq EventToken /\ sources \subseteq Source
  /\ scenario.client = "page" \/ sources = {}
  /\ OneSubscription
  /\ \A source \in sources : Tells(source)

LEMMA SubscribeKeeps ==
  ASSUME UpdatesOK, Subscribe, UNCHANGED <<current, scenario>>,
         shown' \in LiveStates \cup {"none"}
  PROVE  UpdatesOK'
<1>. USE DEF UpdatesOK, OneSubscription, Subscribe, StopEvents, None
<1>1. sources' = {} /\ eventSource' = 0 /\ eventSubscriptionId' = eventSubscriptionId + 1
  OBVIOUS
<1>2. tokens' = tokens \cup {[id |-> eventSubscriptionId', status |-> "sent"]}
  OBVIOUS
<1>3. [id |-> eventSubscriptionId', status |-> "sent"] \in EventToken
  BY <1>1 DEF EventToken
<1>4. \A token \in tokens : token.id # eventSubscriptionId'
  BY <1>1
<1>5. \A token \in tokens' : token.id \in 1 .. eventSubscriptionId'
  BY <1>1, <1>2
<1>6. \A a, b \in tokens' : a.id = b.id => a = b
  BY <1>2, <1>4
<1>. QED  BY <1>1, <1>2, <1>3, <1>5, <1>6

LEMMA HomeKeeps ==
  ASSUME UpdatesOK, Home, UNCHANGED scenario
  PROVE  UpdatesOK'
<1>. USE DEF UpdatesOK, OneSubscription, Home, StopEvents, None
<1>1. sources' = {} /\ eventSource' = 0 /\ eventSubscriptionId' = eventSubscriptionId + 1
  OBVIOUS
<1>2. tokens' = tokens /\ current' = FALSE /\ shown' = "none"
  OBVIOUS
<1>3. \A token \in tokens' : token.id \in 1 .. eventSubscriptionId'
  BY <1>1, <1>2
<1>4. \A a, b \in tokens' : a.id = b.id => a = b
  BY <1>2
<1>5. OneSubscription'
  BY <1>1, <1>2, <1>3, <1>4
<1>. HIDE DEF OneSubscription, Home
<1>. QED  BY <1>1, <1>2, <1>5

(* The source of the page takes another form.                              *)
LEMMA ReplacedKeeps ==
  ASSUME UpdatesOK, NEW source \in sources, NEW other \in Source, other.id = source.id,
         Replaced(source, other), Tells(other)',
         UNCHANGED <<current, eventSubscriptionId, eventSource, tokens, scenario>>,
         shown' \in LiveStates \cup {"none"}
  PROVE  UpdatesOK'
<1>1. sources' = {other}
  BY DEF UpdatesOK, OneSubscription, Replaced
<1>. QED  BY <1>1 DEF UpdatesOK, OneSubscription

LEMMA PublishKeeps ==
  ASSUME CallsOK, CallsOK', UpdatesOK, Publish, NotSources, UNCHANGED scenario
  PROVE  UpdatesOK'
<1>. USE DEF NotSources, shows, subscription
<1>1. CASE state' = state
  BY <1>1 DEF UpdatesOK, OneSubscription, Publish, Tells
<1>2. CASE state' # state
  <2>1. sources' = Written(state')
    BY <1>2 DEF Publish
  <2>2. ASSUME NEW source \in sources
        PROVE  \E told \in Source : /\ told.id = source.id /\ Tells(told)'
                                     /\ sources' = {told}
    <3>1. sources = {source} /\ source \in Source /\ source.events \in Seq(PageEvent)
      BY DEF UpdatesOK, OneSubscription, Source
    <3>2. state' \in SessionState
      BY DEF CallsOK
    <3>3. Event(state') \in PageEvent /\ Broken \in PageEvent
      BY <3>2 DEF Event, Broken, PageEvent
    <3>4. CASE ~source.held
      BY <2>1, <3>1, <3>4 DEF Written, Tells
    <3>5. CASE source.held
      <4>. DEFINE more == IF state' \in LiveStates THEN <<Event(state')>>
                                                  ELSE <<Event(state'), Broken>>
      <4>0. PICK live \in BOOLEAN : live = (state' \in LiveStates)
        BY (state' \in LiveStates) \in BOOLEAN, Zenon
      <4>1. PICK told : told = [source EXCEPT !.held = live, !.events = @ \o more]
        OBVIOUS
      <4>2. sources' = {told}
        BY <2>1, <3>1, <3>5, <4>0, <4>1 DEF Written
      <4>3. source.events \o more \in Seq(PageEvent)
        BY <3>1, <3>3
      <4>4. /\ told \in Source /\ told.id = source.id
            /\ told.events = source.events \o more /\ told.held = live
        <5>. HIDE DEF more
        <5>. QED  BY <3>1, <4>1, <4>3 DEF Source
      <4>5. CASE state' \in LiveStates
        <5>1. /\ told.events # <<>>
              /\ told.events[Len(told.events)] = Event(state')
          BY <3>1, <3>3, <4>4, <4>5
        <5>2. Tells(told)'
          BY <5>1 DEF Tells, Event
        <5>. QED  BY <4>2, <4>4, <5>2
      <4>6. CASE state' \notin LiveStates
        BY <4>0, <4>2, <4>4, <4>6 DEF Tells
      <4>. QED  BY <4>5, <4>6
    <3>. QED  BY <3>1, <3>4, <3>5 DEF Source
  <2>3. sources = {} => sources' = {}
    BY <2>1 DEF Written
  <2>. QED  BY <2>2, <2>3 DEF UpdatesOK, OneSubscription
<1>. QED  BY <1>1, <1>2

LEMMA TokenKeeps ==
  ASSUME UpdatesOK, UNCHANGED scenario, NEW token \in tokens,
         ServeToken(token) \/ TokenAnswered(token),
         scenario.client = "page"
  PROVE  UpdatesOK'
<1>. USE DEF UpdatesOK, OneSubscription
<1>1. token \in EventToken
  OBVIOUS
<1>2. CASE ServeToken(token)
  <2>1. PICK status \in {"ok", "failed"} :
          tokens' = (tokens \ {token}) \cup {[token EXCEPT !.status = status]}
    BY <1>2 DEF ServeToken
  <2>2. [token EXCEPT !.status = status] \in EventToken
        /\ [token EXCEPT !.status = status].id = token.id
    BY <1>1, <2>1 DEF EventToken
  <2>3. UNCHANGED <<state, current, shown, eventSubscriptionId, eventSource, sources>>
    BY <1>2 DEF ServeToken, shows, subscription
  <2>4. tokens' \subseteq EventToken
        /\ \A other \in tokens' : \E old \in tokens : other.id = old.id
    BY <2>1, <2>2
  <2>5. \A a, b \in tokens' : a.id = b.id => a = b
    BY <2>1, <2>2
  <2>6. OneSubscription'
    BY <2>3, <2>4, <2>5
  <2>7. \A source \in sources' : Tells(source)'
    BY <2>3 DEF Tells
  <2>. HIDE DEF OneSubscription
  <2>. QED  BY <2>3, <2>4, <2>6, <2>7
<1>3. CASE TokenAnswered(token)
  <2>1. /\ tokens' = tokens \ {token}
        /\ UNCHANGED <<state, current, shown, eventSubscriptionId>>
    BY <1>3 DEF TokenAnswered
  <2>2. CASE sources' = sources /\ eventSource' = eventSource
    BY <2>1, <2>2 DEF Tells
  <2>3. CASE /\ StillWanted(token)
             /\ sources' = sources \cup {[id |-> token.id, held |-> FALSE, events |-> <<>>]}
             /\ eventSource' = token.id
    <3>. DEFINE new == [id |-> token.id, held |-> FALSE, events |-> <<>>]
    <3>1. current /\ token.id = eventSubscriptionId /\ token.id \in Nat /\ token.id # 0
      BY <1>1, <2>3 DEF StillWanted, EventToken
    <3>2. eventSource = None
      BY <3>1
    <3>3. sources' = {new}
      BY <2>3, <3>2
    <3>4. new \in Source /\ new.id = token.id /\ ~new.held
      BY <3>1 DEF Source
    <3>5. \A other \in tokens' : other.id # eventSubscriptionId'
      BY <2>1, <3>1
    <3>. HIDE DEF new
    <3>6. OneSubscription'
      BY <2>1, <2>3, <3>1, <3>3, <3>4, <3>5 DEF None
    <3>7. Tells(new)'
      BY <3>4 DEF Tells
    <3>. HIDE DEF OneSubscription
    <3>. QED  BY <2>1, <3>3, <3>4, <3>6, <3>7
  <2>. QED  BY <1>3, <2>2, <2>3 DEF TokenAnswered
<1>. QED  BY <1>2, <1>3

(* A source that the portal holds no longer tells nothing of the session.  *)
LEMMA StreamKeeps ==
  ASSUME CallsOK, UpdatesOK, UNCHANGED scenario, NEW source \in sources,
         OpenStream(source) \/ BreakStream(source)
  PROVE  UpdatesOK'
<1>1. source \in Source /\ source.events \in Seq(PageEvent)
  BY DEF UpdatesOK, Source
<1>2. Event(state) \in PageEvent /\ Broken \in PageEvent
  BY DEF CallsOK, Event, Broken, PageEvent
<1>3. /\ UNCHANGED <<current, eventSubscriptionId, eventSource, tokens, scenario, shown, state>>
      /\ shown' \in LiveStates \cup {"none"}
  BY DEF OpenStream, BreakStream, NotSources, shows, subscription, UpdatesOK
<1>4. PICK other :
        /\ Replaced(source, other)
        /\ \/ other = [source EXCEPT !.events = <<Broken>>] /\ ~source.held
           \/ other = [source EXCEPT !.held = TRUE, !.events = <<Event(state)>>]
           \/ other = [source EXCEPT !.held = FALSE, !.events = Append(@, Broken)]
  BY DEF OpenStream, BreakStream
<1>5. other \in Source /\ other.id = source.id
  <2>1. /\ <<Broken>> \in Seq(PageEvent) /\ <<Event(state)>> \in Seq(PageEvent)
        /\ Append(source.events, Broken) \in Seq(PageEvent)
    BY <1>1, <1>2
  <2>. QED  BY <1>1, <1>4, <2>1 DEF Source
<1>6. Tells(other)'
  <2>1. CASE ~other.held
    BY <2>1 DEF Tells
  <2>2. CASE other.held
    <3>1. other.events = <<Event(state)>>
      BY <1>1, <1>4, <2>2 DEF Source
    <3>. QED  BY <1>3, <3>1 DEF Tells, Event
  <2>. QED  BY <2>1, <2>2
<1>. QED  BY <1>3, <1>4, <1>5, <1>6, ReplacedKeeps

LEMMA RenderKeepsSession ==
  ASSUME NEW s \in LiveStates, RenderSession(s)
  PROVE  shown' = s /\ UNCHANGED current
BY DEF RenderSession

LEMMA EventKeeps ==
  ASSUME UpdatesOK, UNCHANGED scenario, NEW source \in sources, StreamEvent(source)
  PROVE  UpdatesOK'
<1>1. /\ source \in Source /\ source.events \in Seq(PageEvent) /\ source.events # <<>>
      /\ sources = {source} /\ source.held \in BOOLEAN
  BY DEF UpdatesOK, OneSubscription, Source, StreamEvent
<1>. DEFINE event == Head(source.events)
            rest == Tail(source.events)
<1>2. event \in PageEvent /\ rest \in Seq(PageEvent) /\ event = source.events[1]
  BY <1>1
<1>3. UNCHANGED state
  BY DEF StreamEvent
<1>4. CASE Home
  BY <1>4, HomeKeeps
<1>5. CASE /\ event.kind = "session" /\ ~Unavailable(event.state)
           /\ RenderSession(event.state)
           /\ Replaced(source, [source EXCEPT !.events = Tail(@)])
           /\ UNCHANGED <<eventSubscriptionId, tokens, eventSource, reconnecting, refused>>
  <2>1. event.state \in LiveStates
    BY <1>2, <1>5 DEF PageEvent, Unavailable, SessionState
  <2>2. shown' = event.state /\ UNCHANGED current
    BY <1>5, <2>1, RenderKeepsSession
  <2>3. PICK other : other = [source EXCEPT !.events = Tail(@)]
    OBVIOUS
  <2>4. other \in Source /\ other.id = source.id /\ other.events = rest /\ other.held = source.held
    BY <1>1, <1>2, <2>3 DEF Source
  <2>5. ASSUME other.held
        PROVE  IF other.events = <<>> THEN shown' = state'
               ELSE other.events[Len(other.events)] = Event(state')
    <3>1. source.events[Len(source.events)] = Event(state)
      BY <1>1, <2>4, <2>5 DEF UpdatesOK, Tells
    <3>2. /\ Len(source.events) \in Nat /\ Len(rest) = Len(source.events) - 1
          /\ Len(rest) \in Nat
          /\ \A i \in 1 .. Len(rest) : rest[i] = source.events[i + 1]
      BY <1>1
    <3>3. CASE rest = <<>>
      <4>1. Len(source.events) = 1
        <5>. HIDE DEF rest
        <5>1. Len(rest) = 0
          BY <3>3
        <5>. QED  BY <3>2, <5>1
      <4>2. event = Event(state)
        BY <1>2, <3>1, <4>1
      <4>3. event.state = state
        BY <4>2 DEF Event
      <4>. HIDE DEF event, rest
      <4>. QED  BY <1>3, <2>2, <2>4, <3>3, <4>3
    <3>4. CASE rest # <<>>
      <4>1. Len(rest) \in 1 .. Len(rest)
        BY <1>2, <3>2, <3>4
      <4>. HIDE DEF event, rest
      <4>2. rest[Len(rest)] = source.events[Len(source.events)]
        BY <3>2, <4>1
      <4>. QED  BY <1>3, <2>4, <3>1, <3>4, <4>2
    <3>. QED  BY <3>3, <3>4
  <2>6. Event(state)' = Event(state')
    BY DEF Event
  <2>7. Tells(other)'
    BY <2>5, <2>6 DEF Tells
  <2>. HIDE DEF event, rest
  <2>. QED  BY <1>5, <2>1, <2>2, <2>3, <2>4, <2>7, ReplacedKeeps
<1>6. CASE /\ current
           /\ sources' = sources \ {source} /\ eventSource' = None
           /\ UNCHANGED <<current, shown, eventSubscriptionId, tokens>>
  <2>1. sources' = {}
    BY <1>1, <1>6
  <2>. HIDE DEF event, rest
  <2>. QED  BY <1>6, <2>1 DEF UpdatesOK, OneSubscription, None
<1>. QED  BY <1>4, <1>5, <1>6 DEF StreamEvent

(* The rest of the page leaves its subscription alone.                     *)
LEMMA OthersKeep ==
  ASSUME UpdatesOK, UNCHANGED <<state, current, shown, updates, scenario>>
  PROVE  UpdatesOK'
<1>. USE DEF updates
<1>1. OneSubscription'
  BY DEF UpdatesOK, OneSubscription
<1>2. \A source \in sources' : Tells(source)'
  BY DEF UpdatesOK, Tells, Event
<1>. QED  BY <1>1, <1>2 DEF UpdatesOK

LEMMA RenderSessionKeeps ==
  ASSUME CallsOK, NEW c \in Slots, Answered(c, ReadSession, "ok")
  PROVE  calls[c].seen \in LiveStates
BY DEF CallsOK, Answered

LEMMA AnswerKeeps ==
  ASSUME CallsOK, UpdatesOK, UNCHANGED scenario, NEW c \in Slots, PageGoesOn(c)
  PROVE  UpdatesOK'
<1>1. CASE UNCHANGED page
  <2>1. UNCHANGED state
    BY DEF PageGoesOn, ActionAnswered, SessionRead, EndAnswered
  <2>. QED  BY <1>1, <2>1, OthersKeep DEF page
<1>2. CASE Home
  BY <1>2, HomeKeeps
<1>3. CASE /\ Answered(c, ReadSession, "ok") /\ RenderSession(calls[c].seen) /\ Resubscribed
  <2>1. shown' \in LiveStates /\ UNCHANGED current
    BY <1>3, RenderSessionKeeps, RenderKeepsSession
  <2>. QED  BY <1>3, <2>1, SubscribeKeeps DEF Resubscribed
<1>. QED
  BY <1>1, <1>2, <1>3 DEF PageGoesOn, ActionAnswered, SessionRead, EndAnswered

LEMMA UpdatesStep ==
  ASSUME CallsOK, CallsOK', UpdatesOK, [Next]_vars
  PROVE  UpdatesOK'
<1>1. UNCHANGED scenario
  BY DEF Next, vars
<1>2. ASSUME PageNext, scenario.client = "page"
      PROVE  UpdatesOK'
  <2>1. ASSUME NEW move \in OperatorRequests \cup {EndSession}, Click(move)
        PROVE  UpdatesOK'
    BY <1>1, <2>1, OthersKeep DEF Click, page
  <2>2. ASSUME (\E c \in Slots : Serve(c)) \/ Others
        PROVE  UpdatesOK'
    BY <1>1, <2>2, PublishKeeps DEF Serve, Others
  <2>3. ASSUME NEW c \in Slots, PageGoesOn(c)
        PROVE  UpdatesOK'
    BY <1>1, <2>3, AnswerKeeps
  <2>4. ASSUME NEW token \in tokens, ServeToken(token) \/ TokenAnswered(token)
        PROVE  UpdatesOK'
    BY <1>1, <1>2, <2>4, TokenKeeps
  <2>5. ASSUME NEW source \in sources, OpenStream(source) \/ BreakStream(source)
        PROVE  UpdatesOK'
    BY <1>1, <2>5, StreamKeeps
  <2>6. ASSUME NEW source \in sources, StreamEvent(source)
        PROVE  UpdatesOK'
    BY <1>1, <2>6, EventKeeps
  <2>7. ASSUME Reconnected
        PROVE  UpdatesOK'
    BY <1>1, <2>7, SubscribeKeeps DEF Reconnected, UpdatesOK
  <2>8. ASSUME \/ QueueRemoteInput \/ FlushRemoteInput
               \/ \E t \in Task : StartViewer(t)
               \/ \E batch \in batches : ServeInput(batch) \/ InputAnswered(batch)
        PROVE  UpdatesOK'
    BY <1>1, <2>8, OthersKeep DEF QueueRemoteInput, FlushRemoteInput, StartViewer, ServeInput,
       InputAnswered, NotDelivery, shows
  <2>. QED  BY <1>2, <2>1, <2>2, <2>3, <2>4, <2>5, <2>6, <2>7, <2>8 DEF PageNext
<1>3. ASSUME UNCHANGED page, scenario.client # "page"
      PROVE  UpdatesOK'
  BY <1>1, <1>3 DEF UpdatesOK, OneSubscription, page, updates
<1>4. CASE UNCHANGED vars
  BY <1>4, OthersKeep DEF vars, page
<1>. QED
  BY <1>2, <1>3, <1>4, ScenariosAssumption DEF Next, Scenario

(* The window's own variables.                                             *)
WindowOK == displayed \in LiveStates \cup {"none"} /\ raised \subseteq Prompting

LEMMA WindowStep ==
  ASSUME CallsOK, WindowOK, [Next]_vars
  PROVE  WindowOK'
<1>. USE DEF WindowOK
<1>1. CASE UNCHANGED window
  BY <1>1 DEF window
<1>2. ASSUME NEW c \in Slots, WindowGoesOn(c)
      PROVE  WindowOK'
  <2>1. ASSUME NEW move \in HostActions \cup {ReadSession}, Answered(c, move, "ok"),
               ApplyState(calls[c].seen)
        PROVE  WindowOK'
    BY <2>1 DEF CallsOK, Answered, ApplyState
  <2>2. CASE ResetSessionUi
    BY <2>2 DEF ResetSessionUi
  <2>3. CASE UNCHANGED <<displayed, raised>>
    BY <2>3
  <2>. QED
    BY <1>2, <2>1, <2>2, <2>3 DEF WindowGoesOn, JoinAnswered, StatusAnswered, WindowEnds,
       SessionGone, window
<1>3. ASSUME JoinButton_Click \/ Poll \/ HostAction \/ EndButton_Click
      PROVE  WindowOK'
  BY <1>3 DEF JoinButton_Click, Poll, HostAction, EndButton_Click, window
<1>. QED  BY <1>1, <1>2, <1>3 DEF Next, WindowNext, vars, window

LEMMA Initially == Init => CallsOK /\ UpdatesOK /\ WindowOK
<1>. SUFFICES ASSUME Init  PROVE  CallsOK /\ UpdatesOK /\ WindowOK
  OBVIOUS
<1>1. scenario \in Scenarios /\ scenario \in Scenario
  BY ScenariosAssumption DEF Init
<1>2. /\ PageRests
      /\ \/ PageInit
         \/ ViewingInit /\ scenario.client = "page"
         \/ WindowInit /\ PageIdle
  BY <1>1 DEF Init, Scenario, PageInit, PageIdle, ViewingInit
<1>3. CallsOK
  <2>1. NoCall \in Call /\ Asking(ReadSession) \in Call
        /\ NoCall.status # "ok" /\ Asking(ReadSession).status # "ok"
    BY DEF NoCall, Asking, Call, Moves, Statuses
  <2>2. \A c \in Slots : calls[c] \in {NoCall, Asking(ReadSession)}
    BY <1>2 DEF PageInit, ViewingInit, WindowInit
  <2>3. calls \in [Slots -> Call]
    BY <1>2, <2>1 DEF PageInit, ViewingInit, WindowInit
  <2>4. state \in SessionState
    BY <1>2 DEF PageInit, ViewingInit, WindowInit, SessionState, LiveStates
  <2>. QED  BY <1>1, <2>1, <2>2, <2>3, <2>4 DEF CallsOK
<1>4. UpdatesOK
  <2>1. CASE PageIdle
    BY <1>2, <2>1 DEF PageIdle, PageRests, UpdatesOK, OneSubscription, None
  <2>2. CASE ViewingInit /\ scenario.client = "page"
    <3>. DEFINE source == [id |-> 1, held |-> TRUE, events |-> <<>>]
    <3>1. /\ sources = {source} /\ tokens = {} /\ eventSource = 1 /\ eventSubscriptionId = 1
          /\ current = TRUE /\ shown = "VIEW_ACTIVE" /\ state = "VIEW_ACTIVE"
      BY <2>2 DEF ViewingInit, PageRests
    <3>2. source \in Source /\ source.id = 1 /\ source.events = <<>>
      BY DEF Source
    <3>. HIDE DEF source
    <3>3. Tells(source)
      BY <3>1, <3>2 DEF Tells
    <3>4. OneSubscription
      BY <3>1, <3>2 DEF OneSubscription, None
    <3>. QED  BY <2>2, <3>1, <3>2, <3>3, <3>4 DEF UpdatesOK, LiveStates
  <2>. QED  BY <1>2, <2>1, <2>2 DEF PageInit
<1>5. WindowOK
  BY DEF Init, PageInit, WindowInit, WindowIdle, WindowOK
<1>. QED  BY <1>3, <1>4, <1>5

ClientsOK == CallsOK /\ UpdatesOK /\ WindowOK

LEMMA ClientsAlways == Spec => []ClientsOK
<1>1. Init => ClientsOK
  BY Initially DEF ClientsOK
<1>2. ClientsOK /\ [Next]_vars => ClientsOK'
  BY CallsStep, UpdatesStep, WindowStep DEF ClientsOK
<1>. QED  BY <1>1, <1>2, PTL DEF Spec

(* The page has one EventSource at most, the one that it listens to, in    *)
(* every instance: a subscription that is replaced before its token is     *)
(* answered opens none.                                                    *)
THEOREM ListensOnce == Spec => []OneOpenSource
<1>1. ClientsOK => OneOpenSource
  BY DEF ClientsOK, UpdatesOK, OneSubscription, OneOpenSource
<1>. QED  BY <1>1, ClientsAlways, PTL

(* Whatever readings and events overtook each other, what the page shows   *)
(* is the session's state once it listens and has taken every event.       *)
THEOREM ShowsCurrent == Spec => []ShowsTheCurrentState
<1>1. ClientsOK => ShowsTheCurrentState
  BY DEF ClientsOK, UpdatesOK, Tells, ShowsTheCurrentState, Listening
<1>. QED  BY <1>1, ClientsAlways, PTL

-----------------------------------------------------------------------------
(* The viewers of the page.                                                *)

Viewer == [stage : {"none", "ice", "offer", "signal"}, granted : BOOLEAN, closed : BOOLEAN]

(* The connection in viewerPeer is past its configuration and open; when   *)
(* the page has left, it is one whose viewer has yet to find that out.     *)
ViewersOK ==
  /\ viewers \in [Task -> Viewer]
  /\ viewerPeer \in {None} \cup Task
  /\ \A t \in Task : viewers[t].stage = "ice" => ~viewers[t].closed
  /\ viewerPeer # None => /\ viewers[viewerPeer].stage # "ice"
                          /\ ~viewers[viewerPeer].closed
  /\ ~current => /\ ~inputAbort /\ inputQueue = <<>>
                 /\ viewerPeer # None => viewers[viewerPeer].stage = "offer"

LEMMA TasksAreNumbered == CallsOK => None \notin Task
BY ScenariosAssumption DEF CallsOK, Scenario, Task, None

LEMMA NoTaskIsViewer == NoTask \in Viewer /\ NoTask.stage = "none" /\ ~NoTask.closed
BY DEF NoTask, Viewer

LEMMA PeerClosedKeeps ==
  ASSUME CallsOK, ViewersOK
  PROVE  /\ PeerClosed \in [Task -> Viewer]
         /\ \A t \in Task : /\ PeerClosed[t].stage = viewers[t].stage
                            /\ PeerClosed[t].stage = "ice" => ~PeerClosed[t].closed
<1>1. ASSUME NEW t \in Task
      PROVE  /\ PeerClosed[t] \in Viewer /\ PeerClosed[t].stage = viewers[t].stage
             /\ PeerClosed[t].stage = "ice" => ~PeerClosed[t].closed
  <2>1. CASE t = viewerPeer /\ viewers[t] # NoTask
    <3>1. PeerClosed[t] = [viewers[t] EXCEPT !.closed = TRUE]
      BY <2>1 DEF PeerClosed
    <3>2. viewers[t] \in Viewer /\ viewers[t].stage # "ice"
      BY <2>1, TasksAreNumbered DEF ViewersOK
    <3>. QED  BY <3>1, <3>2 DEF Viewer
  <2>2. CASE ~(t = viewerPeer /\ viewers[t] # NoTask)
    BY <2>2 DEF PeerClosed, ViewersOK
  <2>. QED  BY <2>1, <2>2
<1>. QED  BY <1>1 DEF PeerClosed

LEMMA ClearViewerKeeps ==
  ASSUME ViewersOK, ClearViewer, UNCHANGED scenario, CallsOK
  PROVE  ViewersOK'
<1>1. Task' = Task
  BY DEF Task
<1>2. viewerPeer' = None /\ viewers' = PeerClosed /\ ~inputAbort' /\ inputQueue' = <<>>
  BY DEF ClearViewer, ClearInputBindings
<1>. QED  BY <1>1, <1>2, PeerClosedKeeps DEF ViewersOK

LEMMA RenderKeeps ==
  ASSUME CallsOK, ViewersOK, UNCHANGED scenario, current, NEW s \in LiveStates,
         RenderSession(s)
  PROVE  ViewersOK'
<1>1. Task' = Task /\ current' = current
  BY DEF Task, RenderSession
<1>2. CASE s \notin SharingStates
  BY <1>2, ClearViewerKeeps DEF RenderSession
<1>3. CASE s \in SharingStates /\ viewerPeer # None
  BY <1>1, <1>3 DEF RenderSession, ViewersOK
<1>4. CASE s \in SharingStates /\ viewerPeer = None
  <2>. DEFINE new == [NoTask EXCEPT !.stage = "ice", !.granted = s = "CONTROL_ACTIVE"]
  <2>1. PICK t \in Task : viewers' = [viewers EXCEPT ![t] = new]
    BY <1>4 DEF RenderSession
  <2>2. new \in Viewer /\ ~new.closed
    BY DEF NoTask, Viewer
  <2>3. viewerPeer' = None
    BY <1>4 DEF RenderSession
  <2>. HIDE DEF new
  <2>. QED  BY <1>1, <2>1, <2>2, <2>3 DEF ViewersOK
<1>. QED  BY <1>2, <1>3, <1>4

LEMMA ViewerFailsKeeps ==
  ASSUME CallsOK, ViewersOK, UNCHANGED <<scenario, current>>, NEW t \in Task, ViewerFails(t)
  PROVE  ViewersOK'
<1>1. Task' = Task
  BY DEF Task
<1>2. /\ viewers' = [PeerClosed EXCEPT ![t] = NoTask] /\ viewerPeer' = None
      /\ ~inputAbort' /\ inputQueue' = <<>>
  BY DEF ViewerFails, ClearInputBindings
<1>3. viewers' \in [Task -> Viewer]
  BY <1>2, PeerClosedKeeps, NoTaskIsViewer
<1>4. ASSUME NEW u \in Task, viewers'[u].stage = "ice"
      PROVE  ~viewers'[u].closed
  BY <1>2, <1>4, PeerClosedKeeps, NoTaskIsViewer
<1>. QED  BY <1>1, <1>2, <1>3, <1>4 DEF ViewersOK

LEMMA StartViewerKeeps ==
  ASSUME CallsOK, ViewersOK, UNCHANGED scenario, NEW t \in Task, StartViewer(t)
  PROVE  ViewersOK'
<1>0. Task' = Task /\ UNCHANGED current /\ None \notin Task
  BY TasksAreNumbered DEF Task, StartViewer
<1>1. CASE IceConfigured(t)
  <2>1. /\ viewers[t] \in Viewer /\ viewers[t].stage = "ice" /\ ~viewers[t].closed
        /\ viewerPeer' = t /\ viewers' = [viewers EXCEPT ![t].stage = "offer"]
        /\ UNCHANGED <<inputAbort, inputQueue>>
    BY <1>1 DEF IceConfigured, ViewersOK, queue
  <2>2. /\ viewers' \in [Task -> Viewer]
        /\ viewers'[t].stage = "offer" /\ viewers'[t].closed = viewers[t].closed
        /\ \A u \in Task \ {t} : viewers'[u] = viewers[u]
    BY <2>1 DEF ViewersOK, Viewer
  <2>. QED  BY <1>0, <2>1, <2>2 DEF ViewersOK
<1>2. CASE OfferMade(t) /\ ~ViewerFails(t)
  <2>1. viewers[t] \in Viewer
    BY DEF ViewersOK
  <2>2. UNCHANGED <<viewerPeer, inputAbort, inputQueue>>
    BY <1>2 DEF OfferMade, queue
  <2>3. CASE current /\ viewers' = [viewers EXCEPT ![t].stage = "signal"]
    <3>1. /\ viewers' \in [Task -> Viewer] /\ viewers'[t].stage = "signal"
          /\ viewers[t].closed \/ ~viewers'[t].closed
          /\ \A u \in Task \ {t} : viewers'[u] = viewers[u]
      BY <2>1, <2>3 DEF ViewersOK, Viewer
    <3>. QED  BY <1>0, <2>2, <2>3, <3>1 DEF ViewersOK
  <2>4. CASE viewers[t].closed /\ viewers' = [viewers EXCEPT ![t] = NoTask]
    <3>1. /\ viewers' \in [Task -> Viewer] /\ viewers'[t] = NoTask /\ t # viewerPeer
          /\ \A u \in Task \ {t} : viewers'[u] = viewers[u]
      BY <1>0, <2>4, NoTaskIsViewer DEF ViewersOK
    <3>. QED  BY <1>0, <2>2, <2>4, <3>1, NoTaskIsViewer DEF ViewersOK
  <2>. QED  BY <1>2, <2>3, <2>4 DEF OfferMade
<1>3. CASE OfferSent(t) /\ ~ViewerFails(t)
  <2>1. /\ viewers[t].stage = "signal" /\ viewers' = [viewers EXCEPT ![t] = NoTask]
        /\ inputAbort' = Enabled(viewers[t].granted)
        /\ UNCHANGED <<viewerPeer, inputQueue>>
    BY <1>3 DEF OfferSent
  <2>2. ~current => (~inputAbort => ~inputAbort')
    BY <2>1 DEF Enabled
  <2>. QED  BY <1>0, <2>1, <2>2, NoTaskIsViewer DEF ViewersOK
<1>4. CASE ViewerFails(t)
  BY <1>0, <1>4, ViewerFailsKeeps
<1>. QED  BY <1>1, <1>2, <1>3, <1>4 DEF StartViewer

LEMMA ViewersRest ==
  ASSUME ViewersOK, UNCHANGED <<current, view, inputAbort, inputQueue, scenario>>
  PROVE  ViewersOK'
BY DEF ViewersOK, view, Task

LEMMA HomeClears ==
  ASSUME CallsOK, ViewersOK, Home, UNCHANGED scenario
  PROVE  ViewersOK'
BY ClearViewerKeeps DEF Home

LEMMA InputKeepsViewers ==
  ASSUME ViewersOK, UNCHANGED scenario, current \in BOOLEAN,
         \/ QueueRemoteInput \/ FlushRemoteInput
         \/ \E batch \in batches : ServeInput(batch) \/ InputAnswered(batch)
  PROVE  ViewersOK'
<1>1. CASE QueueRemoteInput
  BY <1>1 DEF QueueRemoteInput, ViewersOK, Task, shows, view
<1>2. CASE FlushRemoteInput
  <2>1. inputQueue = <<>> => inputQueue' = <<>>
    <3>1. Least(BATCH, Len(<<>>)) = 0
      BY BatchAssumption DEF Least
    <3>2. SubSeq(<<>>, 0 + 1, Len(<<>>)) = <<>>
      OBVIOUS
    <3>. QED  BY <1>2, <3>1, <3>2 DEF FlushRemoteInput
  <2>. QED  BY <1>2, <2>1 DEF FlushRemoteInput, ViewersOK, Task, shows, view
<1>3. CASE \E batch \in batches : ServeInput(batch) \/ InputAnswered(batch)
  <2>1. UNCHANGED <<shows, inputAbort, inputQueue>>
    BY <1>3 DEF ServeInput, InputAnswered, NotDelivery, queue
  <2>. QED  BY <2>1, ViewersRest DEF shows
<1>. QED  BY <1>1, <1>2, <1>3

LEMMA ViewersStep ==
  ASSUME CallsOK, UpdatesOK, ViewersOK, [Next]_vars
  PROVE  ViewersOK'
<1>1. UNCHANGED scenario /\ current \in BOOLEAN
  BY DEF Next, vars, UpdatesOK
<1>2. ASSUME PageNext
      PROVE  ViewersOK'
  <2>1. ASSUME \/ \E move \in OperatorRequests \cup {EndSession} : Click(move)
               \/ \E c \in Slots : Serve(c)
               \/ Others \/ Reconnected
               \/ \E token \in tokens : ServeToken(token) \/ TokenAnswered(token)
               \/ \E source \in sources : OpenStream(source) \/ BreakStream(source)
        PROVE  ViewersOK'
    BY <1>1, <2>1, ViewersRest DEF Click, Serve, Others, Reconnected, ServeToken, TokenAnswered,
       OpenStream, BreakStream, NotSources, page, shows, queue
  <2>2. ASSUME NEW c \in Slots, PageGoesOn(c)
        PROVE  ViewersOK'
    <3>1. CASE UNCHANGED page
      BY <1>1, <3>1, ViewersRest DEF page, queue
    <3>2. CASE Home
      BY <1>1, <3>2, HomeClears
    <3>3. CASE Answered(c, ReadSession, "ok") /\ current /\ RenderSession(calls[c].seen)
      BY <1>1, <3>3, RenderKeeps, RenderSessionKeeps
    <3>. QED
      BY <2>2, <3>1, <3>2, <3>3 DEF PageGoesOn, ActionAnswered, SessionRead, EndAnswered
  <2>3. ASSUME NEW source \in sources, StreamEvent(source)
        PROVE  ViewersOK'
    <3>1. current /\ source \in Source /\ source.events \in Seq(PageEvent)
      BY DEF UpdatesOK, OneSubscription, Source
    <3>2. Head(source.events) \in PageEvent
      BY <2>3, <3>1 DEF StreamEvent
    <3>3. CASE Home
      BY <1>1, <3>3, HomeClears
    <3>4. CASE /\ Head(source.events).kind = "session"
               /\ ~Unavailable(Head(source.events).state)
               /\ RenderSession(Head(source.events).state)
      <4>1. Head(source.events).state \in LiveStates
        BY <3>2, <3>4 DEF PageEvent, Unavailable, SessionState
      <4>. QED  BY <1>1, <3>1, <3>4, <4>1, RenderKeeps
    <3>5. CASE UNCHANGED <<current, view, queue>>
      BY <1>1, <3>5, ViewersRest DEF queue
    <3>. QED  BY <2>3, <3>3, <3>4, <3>5 DEF StreamEvent
  <2>. QED
    BY <1>1, <1>2, <2>1, <2>2, <2>3, StartViewerKeeps, InputKeepsViewers DEF PageNext
<1>3. CASE UNCHANGED page
  BY <1>1, <1>3, ViewersRest DEF page, queue
<1>. QED  BY <1>2, <1>3 DEF Next, vars

LEMMA ViewersInitially == Init => ViewersOK
<1>. SUFFICES ASSUME Init  PROVE  ViewersOK
  OBVIOUS
<1>1. PageRests /\ (PageIdle \/ ViewingInit)
  BY DEF Init, PageInit, PageIdle, ViewingInit
<1>2. [NoTask EXCEPT !.stage = "ice"] \in Viewer /\ ~[NoTask EXCEPT !.stage = "ice"].closed
  BY DEF NoTask, Viewer
<1>3. viewers \in [Task -> {NoTask, [NoTask EXCEPT !.stage = "ice"]}]
  BY <1>1 DEF PageIdle, ViewingInit
<1>. QED  BY <1>1, <1>2, <1>3, NoTaskIsViewer DEF PageRests, ViewersOK

-----------------------------------------------------------------------------
(* The input of the page.                                                  *)

InputBatch(sequence, status, events) ==
  [sequence |-> sequence, status |-> status, events |-> events]

(* At most one batch is on its way, and the timer does not run meanwhile.  *)
DeliveryOK ==
  /\ inputSequence \in Nat
  /\ lastInput \in Int /\ lastInput < inputSequence
  /\ ~inputDeliveryInFlight => batches = {}
  /\ inputFlushTimer => ~inputDeliveryInFlight
  /\ \A a, b \in batches : a = b
  /\ \A batch \in batches :
       /\ batch = InputBatch(batch.sequence, batch.status, batch.events)
       /\ batch.sequence \in Nat /\ batch.sequence < inputSequence
       /\ batch.status = "sent" => batch.sequence > lastInput

LEMMA DeliveryRests ==
  ASSUME DeliveryOK, UNCHANGED delivery, inputFlushTimer' => inputFlushTimer
  PROVE  DeliveryOK'
BY DEF DeliveryOK, delivery

LEMMA InputKeepsDelivery ==
  ASSUME DeliveryOK,
         \/ QueueRemoteInput \/ FlushRemoteInput
         \/ \E batch \in batches : ServeInput(batch) \/ InputAnswered(batch)
  PROVE  DeliveryOK'
<1>1. CASE QueueRemoteInput
  BY <1>1 DEF QueueRemoteInput, Scheduled, DeliveryOK, delivery
<1>2. CASE FlushRemoteInput
  <2>1. batches = {} /\ ~inputDeliveryInFlight /\ ~inputFlushTimer' /\ lastInput' = lastInput
    BY <1>2 DEF FlushRemoteInput, DeliveryOK
  <2>2. CASE UNCHANGED <<inputDeliveryInFlight, inputSequence, batches>>
    BY <2>1, <2>2 DEF DeliveryOK
  <2>3. CASE /\ inputDeliveryInFlight' = TRUE /\ inputSequence' = inputSequence + 1
             /\ \E n \in {Least(BATCH, Len(inputQueue))} :
                  batches' = batches \cup {[sequence |-> inputSequence, status |-> "sent",
                                            events |-> SubSeq(inputQueue, 1, n)]}
    <3>1. PICK events : batches' = {InputBatch(inputSequence, "sent", events)}
      BY <2>1, <2>3 DEF InputBatch
    <3>2. ASSUME NEW batch \in batches'
          PROVE  /\ batch = InputBatch(batch.sequence, batch.status, batch.events)
                 /\ batch.sequence = inputSequence
      BY <3>1 DEF InputBatch
    <3>. QED  BY <2>1, <2>3, <3>1, <3>2 DEF DeliveryOK
  <2>. QED  BY <1>2, <2>2, <2>3 DEF FlushRemoteInput
<1>3. ASSUME NEW batch \in batches, ServeInput(batch)
      PROVE  DeliveryOK'
  <2>1. batches = {batch}
    BY DEF DeliveryOK
  <2>2. batches' = {[batch EXCEPT !.status = "answered"]}
    BY <1>3, <2>1 DEF ServeInput
  <2>3. batch = InputBatch(batch.sequence, batch.status, batch.events) /\ batch.sequence \in Nat
        /\ batch.sequence < inputSequence
    BY DEF DeliveryOK
  <2>4. [batch EXCEPT !.status = "answered"] = InputBatch(batch.sequence, "answered", batch.events)
    BY <2>3 DEF InputBatch
  <2>5. ASSUME NEW other \in batches'
        PROVE  /\ other = InputBatch(other.sequence, other.status, other.events)
               /\ other.sequence = batch.sequence /\ other.status = "answered"
    BY <2>2, <2>4 DEF InputBatch
  <2>6. \A a, b \in batches' : a = b
    BY <2>2
  <2>7. lastInput' \in {lastInput, batch.sequence}
    BY <1>3 DEF ServeInput
  <2>8. UNCHANGED <<inputDeliveryInFlight, inputSequence, inputFlushTimer>>
    BY <1>3 DEF ServeInput, NotDelivery, queue
  <2>9. inputDeliveryInFlight
    BY DEF DeliveryOK
  <2>. QED  BY <2>3, <2>5, <2>6, <2>7, <2>8, <2>9 DEF DeliveryOK
<1>4. ASSUME NEW batch \in batches, InputAnswered(batch)
      PROVE  DeliveryOK'
  BY <1>4 DEF InputAnswered, DeliveryOK
<1>. QED  BY <1>1, <1>2, <1>3, <1>4

(* What leaves the delivery alone may stop the timer.                      *)
LEMMA RestsOrStops ==
  ASSUME DeliveryOK, UNCHANGED delivery,
         \/ UNCHANGED inputFlushTimer
         \/ ClearInputBindings
         \/ Home
         \/ \E s \in LiveStates : RenderSession(s)
         \/ \E t \in Task : ViewerFails(t)
  PROVE  DeliveryOK'
<1>1. inputFlushTimer' => inputFlushTimer
  BY DEF ClearInputBindings, Home, ClearViewer, RenderSession, ViewerFails
<1>. QED  BY <1>1, DeliveryRests

LEMMA DeliveryStep ==
  ASSUME CallsOK, UpdatesOK, DeliveryOK, [Next]_vars
  PROVE  DeliveryOK'
<1>1. ASSUME PageNext
      PROVE  DeliveryOK'
  <2>1. ASSUME \/ \E move \in OperatorRequests \cup {EndSession} : Click(move)
               \/ \E c \in Slots : Serve(c)
               \/ Others \/ Reconnected
               \/ \E token \in tokens : ServeToken(token) \/ TokenAnswered(token)
               \/ \E source \in sources : OpenStream(source) \/ BreakStream(source)
        PROVE  DeliveryOK'
    BY <2>1, RestsOrStops DEF Click, Serve, Others, Reconnected, ServeToken, TokenAnswered,
       OpenStream, BreakStream, NotSources, page, queue
  <2>2. ASSUME NEW c \in Slots, PageGoesOn(c)
        PROVE  DeliveryOK'
    <3>1. UNCHANGED delivery
      BY <2>2 DEF PageGoesOn, ActionAnswered, SessionRead, EndAnswered, page
    <3>2. CASE UNCHANGED page
      BY <3>1, <3>2, RestsOrStops DEF page, queue
    <3>3. CASE Home
      BY <3>1, <3>3, RestsOrStops
    <3>4. CASE Answered(c, ReadSession, "ok") /\ RenderSession(calls[c].seen)
      BY <3>1, <3>4, RestsOrStops, RenderSessionKeeps
    <3>. QED
      BY <2>2, <3>2, <3>3, <3>4 DEF PageGoesOn, ActionAnswered, SessionRead, EndAnswered
  <2>3. ASSUME NEW source \in sources, StreamEvent(source)
        PROVE  DeliveryOK'
    <3>1. Head(source.events) \in PageEvent /\ UNCHANGED delivery
      BY <2>3 DEF StreamEvent, UpdatesOK, Source
    <3>2. CASE Home
      BY <3>1, <3>2, RestsOrStops
    <3>3. CASE /\ Head(source.events).kind = "session"
               /\ ~Unavailable(Head(source.events).state)
               /\ RenderSession(Head(source.events).state)
      <4>1. Head(source.events).state \in LiveStates
        BY <3>1, <3>3 DEF PageEvent, Unavailable, SessionState
      <4>. QED  BY <3>1, <3>3, <4>1, RestsOrStops
    <3>4. CASE UNCHANGED queue
      BY <3>1, <3>4, RestsOrStops DEF queue
    <3>. QED  BY <2>3, <3>2, <3>3, <3>4 DEF StreamEvent
  <2>4. ASSUME NEW t \in Task, StartViewer(t)
        PROVE  DeliveryOK'
    <3>1. UNCHANGED delivery /\ (UNCHANGED inputFlushTimer \/ ViewerFails(t))
      BY <2>4 DEF StartViewer, IceConfigured, OfferMade, OfferSent, queue
    <3>. QED  BY <3>1, RestsOrStops
  <2>. QED  BY <1>1, <2>1, <2>2, <2>3, <2>4, InputKeepsDelivery DEF PageNext
<1>2. CASE UNCHANGED page
  BY <1>2, RestsOrStops DEF page, queue
<1>. QED  BY <1>1, <1>2 DEF Next, vars

PageOK == ViewersOK /\ DeliveryOK

LEMMA PageAlways == Spec => []PageOK
<1>1. Init => PageOK
  <2>1. Init => PageRests
    BY DEF Init, PageInit, PageIdle, ViewingInit
  <2>2. PageRests => DeliveryOK
    BY DEF PageRests, DeliveryOK
  <2>. QED  BY <2>1, <2>2, ViewersInitially DEF PageOK
<1>2. ClientsOK /\ PageOK /\ [Next]_vars => PageOK'
  BY ViewersStep, DeliveryStep DEF ClientsOK, PageOK
<1>. QED  BY <1>1, <1>2, ClientsAlways, PTL DEF Spec

(* Every variable of the page and the window keeps its type, in every      *)
(* scenario.                                                               *)
THEOREM ClientTypes == Spec => []ClientsTypeOK
<1>1. ClientsOK /\ PageOK => ClientsTypeOK
  <2>. SUFFICES ASSUME ClientsOK, PageOK  PROVE  ClientsTypeOK
    OBVIOUS
  <2>1. state \in LiveStates \cup TerminalStates /\ \A c \in Slots : calls[c].status \in Statuses
    BY DEF ClientsOK, CallsOK, SessionState, Call
  <2>2. /\ current \in BOOLEAN /\ shown \in LiveStates \cup {"none"}
        /\ eventSource \in {None} \cup 1 .. eventSubscriptionId
    BY DEF ClientsOK, UpdatesOK, OneSubscription, None
  <2>. QED  BY <2>1, <2>2 DEF ClientsOK, WindowOK, PageOK, ViewersOK, ClientsTypeOK
<1>. QED  BY <1>1, ClientsAlways, PageAlways, PTL

(* The portal never has to drop a batch of the page as one that it has     *)
(* seen: a timer that is cleared and set again while a batch is on its way *)
(* never sends another beside it.                                          *)
THEOREM BatchesInOrder == Spec => []BatchesArriveInOrder
<1>1. PageOK => BatchesArriveInOrder
  BY DEF PageOK, DeliveryOK, BatchesArriveInOrder
<1>. QED  BY <1>1, PageAlways, PTL

(* However many viewers were starting when the page left its session, none *)
(* of them leaves a connection, listeners or input behind.                 *)
THEOREM QuietHome == Spec => []HomeIsQuiet
<1>1. ClientsOK /\ PageOK => HomeIsQuiet
  BY NoTaskIsViewer DEF ClientsOK, PageOK, ViewersOK, HomeIsQuiet
<1>. QED  BY <1>1, ClientsAlways, PageAlways, PTL

-----------------------------------------------------------------------------
(* What the page owes: the safety that its liveness rests on.  Nothing is  *)
(* left to chance: what is to happen eventually has, at every moment,      *)
(* somebody who is about to do it.                                         *)

(* Input that waits has a timer that runs, or waits for the answer of a    *)
(* batch that has indeed been sent: queueRemoteInput, the two halves of    *)
(* flushRemoteInput and every rebinding of the listeners agree on who is   *)
(* to send next.                                                           *)
InputIsInHand ==
  /\ inputQueue # <<>> => inputFlushTimer \/ inputDeliveryInFlight
  /\ inputDeliveryInFlight => batches # {}

Rising(q) == \A i, j \in 1 .. Len(q) : i < j => q[i] < q[j]

Before(p, q) == \A i \in 1 .. Len(p), j \in 1 .. Len(q) : p[i] < q[j]

(* Input leaves in the order in which it happened, each event once: what a *)
(* batch took with it is older than all that still waits.                  *)
InputKeepsItsOrder ==
  /\ Rising(inputQueue)
  /\ \A batch \in batches : Rising(batch.events) /\ Before(batch.events, inputQueue)

Past(q) == q \in Seq(Nat) /\ \A i \in 1 .. Len(q) : q[i] <= happened

QueueOK ==
  /\ InputIsInHand /\ InputKeepsItsOrder
  /\ happened \in Nat
  /\ Past(inputQueue) /\ \A batch \in batches : Past(batch.events)

(* What a step may do to the queue and to the batches.                     *)
LEMMA InputSteps ==
  ASSUME ClientsOK, [Next]_vars
  PROVE  \/ UNCHANGED <<inputQueue, inputFlushTimer, delivery, happened>>
         \/ inputQueue' = <<>> /\ UNCHANGED <<delivery, happened>>
         \/ QueueRemoteInput \/ FlushRemoteInput
         \/ \E batch \in batches : ServeInput(batch) \/ InputAnswered(batch)
<1>. DEFINE Same == UNCHANGED <<inputQueue, inputFlushTimer, delivery, happened>>
            Cleared == inputQueue' = <<>> /\ UNCHANGED <<delivery, happened>>
<1>0. CallsOK /\ UpdatesOK
  BY DEF ClientsOK
<1>1. ASSUME \/ \E move \in OperatorRequests \cup {EndSession} : Click(move)
             \/ \E c \in Slots : Serve(c)
             \/ Others \/ Reconnected
             \/ \E token \in tokens : ServeToken(token) \/ TokenAnswered(token)
             \/ \E source \in sources : OpenStream(source) \/ BreakStream(source)
             \/ UNCHANGED page
      PROVE  Same
  BY <1>1 DEF Click, Serve, Others, Reconnected, ServeToken, TokenAnswered,
     OpenStream, BreakStream, NotSources, page, queue
<1>2. ASSUME Home \/ (\E s : RenderSession(s)) \/ (\E t \in Task : ViewerFails(t)),
             UNCHANGED <<delivery, happened>>
      PROVE  Cleared
  BY <1>2 DEF Home, RenderSession, ViewerFails, ClearViewer, ClearInputBindings
<1>3. ASSUME NEW c \in Slots, PageGoesOn(c)
      PROVE  Same \/ Cleared
  <2>1. UNCHANGED <<delivery, happened>>
    BY <1>3 DEF PageGoesOn, ActionAnswered, SessionRead, EndAnswered, page
  <2>2. UNCHANGED page \/ Home \/ \E s : RenderSession(s)
    BY <1>3 DEF PageGoesOn, ActionAnswered, SessionRead, EndAnswered
  <2>. HIDE DEF Cleared, Same
  <2>. QED  BY <1>1, <1>2, <2>1, <2>2
<1>4. ASSUME NEW source \in sources, StreamEvent(source)
      PROVE  Same \/ Cleared
  <2>1. UNCHANGED <<delivery, happened>>
    BY <1>4 DEF StreamEvent
  <2>2. UNCHANGED queue \/ Home \/ \E s : RenderSession(s)
    BY <1>4 DEF StreamEvent
  <2>. QED  BY <1>2, <2>1, <2>2 DEF queue
<1>5. ASSUME NEW t \in Task, StartViewer(t)
      PROVE  Same \/ Cleared
  <2>1. UNCHANGED <<delivery, happened>>
    BY <1>5 DEF StartViewer
  <2>2. UNCHANGED <<inputQueue, inputFlushTimer>> \/ ViewerFails(t)
    BY <1>5 DEF StartViewer, IceConfigured, OfferMade, OfferSent, queue
  <2>. QED  BY <1>2, <2>1, <2>2
<1>. HIDE DEF Same, Cleared
<1>. QED  BY <1>1, <1>3, <1>4, <1>5 DEF Next, PageNext, vars, Same, Cleared

(* Taking some events off the front.                                       *)
LEMMA SplitKeepsOrder ==
  ASSUME NEW q \in Seq(Nat), NEW n \in 0 .. Len(q), Rising(q), Past(q)
  PROVE  /\ Rising(SubSeq(q, 1, n)) /\ Past(SubSeq(q, 1, n))
         /\ Rising(SubSeq(q, n + 1, Len(q))) /\ Past(SubSeq(q, n + 1, Len(q)))
         /\ Before(SubSeq(q, 1, n), SubSeq(q, n + 1, Len(q)))
<1>. DEFINE taken == SubSeq(q, 1, n)
            left == SubSeq(q, n + 1, Len(q))
<1>1. /\ taken \in Seq(Nat) /\ Len(taken) = n
      /\ \A i \in 1 .. n : i \in 1 .. Len(q) /\ taken[i] = q[i]
  OBVIOUS
<1>2. /\ left \in Seq(Nat) /\ Len(left) = Len(q) - n
      /\ \A i \in 1 .. Len(q) - n : n + i \in 1 .. Len(q) /\ left[i] = q[n + i]
  OBVIOUS
<1>3. Len(q) \in Nat
  OBVIOUS
<1>. HIDE DEF taken, left
<1>4. Rising(taken) /\ Past(taken)
  BY <1>1 DEF Rising, Past
<1>5. Rising(left)
  <2>. SUFFICES ASSUME NEW i \in 1 .. Len(q) - n, NEW j \in 1 .. Len(q) - n, i < j
                PROVE  q[n + i] < q[n + j]
    BY <1>2 DEF Rising
  <2>1. n + i \in 1 .. Len(q) /\ n + j \in 1 .. Len(q) /\ n + i < n + j
    BY <1>3
  <2>. QED  BY <2>1 DEF Rising
<1>6. Past(left)
  BY <1>2 DEF Past
<1>7. Before(taken, left)
  <2>. SUFFICES ASSUME NEW i \in 1 .. n, NEW j \in 1 .. Len(q) - n
                PROVE  q[i] < q[n + j]
    BY <1>1, <1>2 DEF Before
  <2>1. i \in 1 .. Len(q) /\ n + j \in 1 .. Len(q) /\ i < n + j
    BY <1>3
  <2>. QED  BY <2>1 DEF Rising
<1>. QED  BY <1>4, <1>5, <1>6, <1>7 DEF taken, left

LEMMA QueueStep ==
  ASSUME ClientsOK, PageOK, QueueOK, [Next]_vars
  PROVE  QueueOK'
<1>. USE DEF QueueOK
<1>0. /\ DeliveryOK /\ ViewersOK
      /\ happened \in Nat /\ inputQueue \in Seq(Nat)
  BY DEF PageOK, Past
<1>1. CASE UNCHANGED <<inputQueue, inputFlushTimer, delivery, happened>>
  BY <1>1 DEF delivery, InputIsInHand, InputKeepsItsOrder, Past
<1>2. CASE inputQueue' = <<>> /\ UNCHANGED <<delivery, happened>>
  BY <1>2 DEF delivery, InputIsInHand, InputKeepsItsOrder, Past, Rising, Before
<1>3. CASE QueueRemoteInput
  <2>1. /\ happened' = happened + 1 /\ inputQueue' = Append(inputQueue, happened + 1)
        /\ inputFlushTimer' = Scheduled
        /\ UNCHANGED <<inputDeliveryInFlight, batches>>
    BY <1>3 DEF QueueRemoteInput, delivery
  <2>2. PICK n : n = Len(inputQueue')
    OBVIOUS
  <2>3. /\ inputQueue' \in Seq(Nat) /\ n = Len(inputQueue) + 1 /\ n \in Nat
        /\ inputQueue'[n] = happened + 1
        /\ \A i \in 1 .. n - 1 : i \in 1 .. Len(inputQueue) /\ inputQueue'[i] = inputQueue[i]
    BY <1>0, <2>1, <2>2
  <2>4. \A i \in 1 .. n - 1 : inputQueue'[i] \in Nat /\ inputQueue'[i] <= happened
    BY <1>0, <2>3 DEF Past
  <2>5. Rising(inputQueue')
    <3>. SUFFICES ASSUME NEW i \in 1 .. n, NEW j \in 1 .. n, i < j
                  PROVE  inputQueue'[i] < inputQueue'[j]
      BY <2>2 DEF Rising
    <3>0. i \in 1 .. n - 1 /\ (j = n \/ j \in 1 .. n - 1)
      BY <2>3
    <3>1. CASE j = n
      <4>1. inputQueue'[i] \in Nat /\ inputQueue'[i] <= happened
        BY <2>4, <3>0
      <4>. QED  BY <1>0, <2>3, <3>1, <4>1
    <3>2. CASE j # n
      <4>1. /\ i \in 1 .. Len(inputQueue) /\ inputQueue'[i] = inputQueue[i]
            /\ j \in 1 .. Len(inputQueue) /\ inputQueue'[j] = inputQueue[j]
        BY <2>3, <3>0, <3>2
      <4>. QED  BY <4>1 DEF InputKeepsItsOrder, Rising
    <3>. QED  BY <3>1, <3>2
  <2>6. Past(inputQueue)'
    BY <1>0, <2>1, <2>2, <2>3, <2>4 DEF Past
  <2>7. ASSUME NEW batch \in batches
        PROVE  Before(batch.events, inputQueue') /\ Past(batch.events)'
    <3>1. /\ batch.events \in Seq(Nat)
          /\ \A i \in 1 .. Len(batch.events) : batch.events[i] \in Nat /\ batch.events[i] <= happened
      BY DEF Past
    <3>2. Past(batch.events)'
      BY <1>0, <2>1, <3>1 DEF Past
    <3>. SUFFICES ASSUME NEW i \in 1 .. Len(batch.events), NEW j \in 1 .. n
                  PROVE  batch.events[i] < inputQueue'[j]
      BY <2>2, <3>2 DEF Before
    <3>3. CASE j = n
      BY <1>0, <2>3, <3>1, <3>3
    <3>4. CASE j # n
      BY <2>3, <3>4 DEF InputKeepsItsOrder, Before
    <3>. QED  BY <3>3, <3>4
  <2>8. InputIsInHand'
    BY <2>1 DEF Scheduled, InputIsInHand
  <2>9. InputKeepsItsOrder'
    BY <2>1, <2>5, <2>7 DEF InputKeepsItsOrder
  <2>. QED  BY <1>0, <2>1, <2>6, <2>7, <2>8, <2>9
<1>4. CASE FlushRemoteInput
  <2>1. /\ ~inputDeliveryInFlight /\ batches = {} /\ UNCHANGED happened
    BY <1>0, <1>4 DEF FlushRemoteInput, DeliveryOK
  <2>2. PICK n : n = Least(BATCH, Len(inputQueue))
    OBVIOUS
  <2>3. n \in 0 .. Len(inputQueue) /\ (n = 0 => inputQueue = <<>>)
    BY <1>0, <2>2, BatchAssumption DEF Least
  <2>4. inputQueue' = SubSeq(inputQueue, n + 1, Len(inputQueue))
    BY <1>4, <2>2 DEF FlushRemoteInput
  <2>5. /\ Rising(inputQueue') /\ Past(inputQueue') /\ Past(SubSeq(inputQueue, 1, n))
        /\ Rising(SubSeq(inputQueue, 1, n)) /\ Before(SubSeq(inputQueue, 1, n), inputQueue')
    BY <1>0, <2>3, <2>4, SplitKeepsOrder DEF InputKeepsItsOrder
  <2>6. Past(inputQueue)' /\ (\A q : Past(q) => Past(q)')
    BY <2>1, <2>5 DEF Past
  <2>7. CASE n = 0 \/ ~current
    <3>1. inputQueue = <<>>
      BY <1>0, <2>3, <2>7 DEF ViewersOK
    <3>2. inputQueue' = <<>>
      BY <2>3, <2>4, <3>1
    <3>3. UNCHANGED <<inputDeliveryInFlight, batches>>
      BY <1>4, <2>2, <2>7 DEF FlushRemoteInput
    <3>. QED
      BY <2>1, <2>5, <2>6, <3>2, <3>3 DEF InputIsInHand, InputKeepsItsOrder
  <2>8. CASE ~(n = 0 \/ ~current)
    <3>1. PICK batch : batch = [sequence |-> inputSequence, status |-> "sent",
                                events |-> SubSeq(inputQueue, 1, n)]
      OBVIOUS
    <3>2. inputDeliveryInFlight' = TRUE /\ batches' = {batch}
      BY <1>4, <2>1, <2>2, <2>8, <3>1 DEF FlushRemoteInput
    <3>3. batch.events = SubSeq(inputQueue, 1, n)
      BY <3>1
    <3>. QED
      BY <2>1, <2>5, <2>6, <3>2, <3>3 DEF InputIsInHand, InputKeepsItsOrder
  <2>. QED  BY <2>7, <2>8
<1>5. ASSUME NEW batch \in batches, ServeInput(batch)
      PROVE  QueueOK'
  <2>1. UNCHANGED <<inputQueue, inputFlushTimer, inputDeliveryInFlight, happened>>
    BY <1>5 DEF ServeInput, NotDelivery, queue
  <2>2. batch = InputBatch(batch.sequence, batch.status, batch.events)
    BY <1>0 DEF DeliveryOK
  <2>3. PICK other : other = [batch EXCEPT !.status = "answered"]
    OBVIOUS
  <2>4. other.events = batch.events
    BY <2>2, <2>3 DEF InputBatch
  <2>5. batches' = (batches \ {batch}) \cup {other}
    BY <1>5, <2>3 DEF ServeInput
  <2>6. \A b \in batches' : \E old \in batches : b.events = old.events
    BY <2>4, <2>5
  <2>7. InputIsInHand' /\ InputKeepsItsOrder'
    BY <2>1, <2>5, <2>6 DEF InputIsInHand, InputKeepsItsOrder
  <2>. QED  BY <2>1, <2>6, <2>7 DEF Past
<1>6. ASSUME NEW batch \in batches, InputAnswered(batch)
      PROVE  QueueOK'
  <2>1. /\ UNCHANGED <<inputQueue, happened>> /\ batches' \subseteq batches
        /\ inputDeliveryInFlight' = FALSE /\ (inputQueue' # <<>> => inputFlushTimer')
    BY <1>6 DEF InputAnswered, Rescheduled
  <2>. QED  BY <2>1 DEF InputIsInHand, InputKeepsItsOrder, Past
<1>. QED  BY <1>1, <1>2, <1>3, <1>4, <1>5, <1>6, InputSteps

LEMMA QueueAlways == Spec => []QueueOK
<1>1. Init => QueueOK
  <2>1. Init => PageRests
    BY DEF Init, PageInit, PageIdle, ViewingInit
  <2>. QED
    BY <2>1 DEF PageRests, QueueOK, InputIsInHand, InputKeepsItsOrder, Past, Rising, Before
<1>2. ClientsOK /\ PageOK /\ QueueOK /\ [Next]_vars => QueueOK'
  BY QueueStep
<1>. QED  BY <1>1, <1>2, ClientsAlways, PageAlways, PTL DEF Spec

(* No input of the operator is forgotten in the queue: behind the property *)
(* that it is flushed stands that, in every scenario, a timer or an answer *)
(* is due that will flush it.                                              *)
THEOREM InputStaysInHand == Spec => []InputIsInHand
<1>1. QueueOK => InputIsInHand
  BY DEF QueueOK
<1>. QED  BY <1>1, QueueAlways, PTL

(* What the host is told to inject comes in the order in which the         *)
(* operator did it, whatever the size of a batch and however often the     *)
(* queue is cleared.                                                       *)
THEOREM InputLeavesInOrder == Spec => []InputKeepsItsOrder
<1>1. QueueOK => InputKeepsItsOrder
  BY DEF QueueOK
<1>. QED  BY <1>1, QueueAlways, PTL

-----------------------------------------------------------------------------
(* The end of a session, and who is still to learn of it.                  *)

Reading == \E c \in Slots : calls[c].asks = ReadSession

(* The page listens, waits to listen again, has asked for the token with   *)
(* which it is to listen, or reads the session, after which it listens.    *)
Pursued ==
  \/ eventSource # None \/ reconnecting
  \/ \E token \in tokens : token.id = eventSubscriptionId
  \/ Reading

(* A stream that the portal no longer holds has not been opened yet, or    *)
(* ends in the error that makes the page subscribe again.                  *)
Breaks(source) ==
  /\ source.held => ~Over
  /\ source.held \/ source.events = <<>> \/ source.events[Len(source.events)] = Broken

(* However the replies of readings, tokens and streams cross, the end of   *)
(* the session overtakes no client: a page at a session always has         *)
(* something under way that will meet the end, no stream stays silent      *)
(* after it, and a window that has joined polls.                           *)
EndStaysInReach ==
  /\ scenario.client = "page" /\ current /\ ~refused => Pursued
  /\ \A source \in sources : Breaks(source)
  /\ joined => polling

LEMMA ReadingStays ==
  ASSUME CallsOK, Reading, UNCHANGED scenario,
         \/ UNCHANGED calls
         \/ \E move \in Moves : Send(move)
         \/ \E c \in Slots : Handled(c) \/ Lost(c)
         \/ \E c \in Slots : calls' = Freed(c) /\ calls[c].asks # ReadSession
  PROVE  Reading'
<1>0. Slots' = Slots /\ calls \in [Slots -> Call]
  BY DEF Slots, CallsOK
<1>1. PICK r \in Slots : calls[r].asks = ReadSession
  BY DEF Reading
<1>2. CASE UNCHANGED calls
  BY <1>0, <1>1, <1>2 DEF Reading
<1>3. ASSUME NEW move \in Moves, Send(move)
      PROVE  Reading'
  <2>1. PICK c \in Idle : calls' = [calls EXCEPT ![c] = Asking(move)]
    BY <1>3 DEF Send
  <2>2. calls[c].asks = Nothing
    BY <2>1 DEF Idle, NoCall
  <2>3. c # r
    BY <1>1, <2>2 DEF Nothing, ReadSession, Transition
  <2>. QED  BY <1>0, <1>1, <2>1, <2>3 DEF Reading
<1>4. ASSUME NEW c \in Slots, Handled(c) \/ Lost(c)
      PROVE  Reading'
  <2>1. PICK status, seen : calls' = [calls EXCEPT ![c].status = status, ![c].seen = seen]
    BY <1>4 DEF Handled, Lost, Answer
  <2>2. calls'[r].asks = calls[r].asks
    BY <1>0, <2>1 DEF Call
  <2>. QED  BY <1>0, <1>1, <2>2 DEF Reading
<1>5. ASSUME NEW c \in Slots, calls' = Freed(c), calls[c].asks # ReadSession
      PROVE  Reading'
  BY <1>0, <1>1, <1>5 DEF Reading, Freed
<1>. QED  BY <1>2, <1>3, <1>4, <1>5

(* No step of the page ends the last pursuit of its session.               *)
LEMMA PursuitStep ==
  ASSUME ClientsOK, PageNext, UNCHANGED scenario, current /\ ~refused => Pursued
  PROVE  (current /\ ~refused => Pursued)'
<1>. DEFINE Holds == current' /\ ~refused' => Pursued'
            Same == UNCHANGED <<current, refused, eventSource, reconnecting, eventSubscriptionId>>
<1>0. CallsOK /\ UpdatesOK /\ None = 0
  BY DEF ClientsOK, None
<1>1. ASSUME Same, \A token \in tokens : \E other \in tokens' : other.id = token.id,
             Reading => Reading'
      PROVE  Holds
  BY <1>1 DEF Pursued
<1>2. ASSUME Subscribe
      PROVE  Holds
  <2>1. PICK token : token = [id |-> eventSubscriptionId', status |-> "sent"]
    OBVIOUS
  <2>2. token \in tokens' /\ token.id = eventSubscriptionId'
    BY <1>2, <2>1 DEF Subscribe
  <2>. QED  BY <2>2 DEF Pursued
<1>3. ASSUME Home
      PROVE  Holds
  BY <1>3 DEF Home
<1>4. ASSUME NEW c \in Slots, PageGoesOn(c)
      PROVE  Holds
  <2>1. CASE UNCHANGED page /\ calls' = Freed(c) /\ calls[c].asks # ReadSession
    <3>1. Reading => Reading'
      BY <1>0, <2>1, ReadingStays
    <3>. QED  BY <1>1, <2>1, <3>1 DEF page, updates
  <2>2. CASE UNCHANGED page /\ calls' = [calls EXCEPT ![c] = Asking(ReadSession)]
    <3>1. Reading'
      BY <1>0, <2>2 DEF Reading, CallsOK, Asking, Slots
    <3>. QED  BY <3>1 DEF Pursued
  <2>3. CASE Home \/ Subscribe
    BY <1>2, <1>3, <2>3
  <2>4. \A move \in OperatorRequests \cup {EndSession} : move # ReadSession
    BY ReadingIsNoAction DEF EndSession, ReadSession, Transition
  <2>. QED
    BY <1>4, <2>1, <2>2, <2>3, <2>4 DEF PageGoesOn, ActionAnswered, SessionRead, EndAnswered,
       Resubscribed, Answered
<1>5. ASSUME NEW move \in OperatorRequests \cup {EndSession}, Click(move)
      PROVE  Holds
  <2>1. Reading => Reading'
    BY <1>0, <1>5, ReadingStays DEF Click, Moves
  <2>. QED  BY <1>1, <1>5, <2>1 DEF Click, page, updates
<1>6. ASSUME (\E c \in Slots : Serve(c)) \/ Others
      PROVE  Holds
  <2>1. Reading => Reading'
    BY <1>0, <1>6, ReadingStays DEF Serve, Others, Moved
  <2>2. Same /\ tokens' = tokens
    BY <1>6 DEF Serve, Others, NotSources, shows, subscription
  <2>. QED  BY <1>1, <2>1, <2>2
<1>7. ASSUME NEW token \in tokens, ServeToken(token)
      PROVE  Holds
  <2>1. token \in EventToken
    BY <1>0 DEF UpdatesOK
  <2>2. \E other \in tokens' : other.id = token.id
    <3>1. PICK status : tokens' = (tokens \ {token}) \cup {[token EXCEPT !.status = status]}
      BY <1>7 DEF ServeToken
    <3>2. [token EXCEPT !.status = status].id = token.id
      BY <2>1 DEF EventToken
    <3>. QED  BY <3>1, <3>2
  <2>3. \A old \in tokens : \E other \in tokens' : other.id = old.id
    BY <1>7, <2>2 DEF ServeToken
  <2>4. Reading => Reading'
    BY <1>0, <1>7, ReadingStays DEF ServeToken
  <2>5. Same
    BY <1>7 DEF ServeToken, shows, subscription
  <2>. QED  BY <1>1, <2>3, <2>4, <2>5
<1>8. ASSUME NEW token \in tokens, TokenAnswered(token)
      PROVE  Holds
  <2>1. /\ tokens' = tokens \ {token} /\ token.status \in {"ok", "failed"}
        /\ UNCHANGED <<calls, current, eventSubscriptionId, reconnecting>>
    BY <1>0, <1>8 DEF TokenAnswered, UpdatesOK, EventToken
  <2>2. CASE token.status = "ok" /\ StillWanted(token)
    <3>1. eventSource' = token.id /\ token.id # None
      BY <1>0, <1>8, <2>2 DEF TokenAnswered, UpdatesOK, OneSubscription
    <3>. QED  BY <1>0, <3>1 DEF Pursued
  <2>3. CASE ~(token.status = "ok" /\ StillWanted(token))
    <3>1. /\ refused' = (refused \/ (token.status = "failed" /\ token.id = eventSubscriptionId))
          /\ UNCHANGED eventSource
      BY <1>8, <2>3 DEF TokenAnswered
    <3>2. CASE token.id = eventSubscriptionId
      <4>1. current => refused'
        BY <2>1, <2>3, <3>1, <3>2 DEF StillWanted
      <4>. QED  BY <2>1, <4>1
    <3>3. CASE token.id # eventSubscriptionId
      <4>1. Reading => Reading'
        BY <1>0, <2>1, ReadingStays
      <4>2. ASSUME NEW other \in tokens, other.id = eventSubscriptionId
            PROVE  other \in tokens'
        BY <2>1, <3>3, <4>2
      <4>3. refused' => refused
        BY <3>1, <3>3
      <4>. QED  BY <1>0, <2>1, <3>1, <3>3, <4>1, <4>2 DEF Pursued
    <3>. QED  BY <3>2, <3>3
  <2>. QED  BY <2>2, <2>3
<1>9. ASSUME NEW source \in sources, OpenStream(source) \/ BreakStream(source)
      PROVE  Holds
  <2>1. Reading => Reading'
    BY <1>0, <1>9, ReadingStays DEF OpenStream, BreakStream
  <2>2. Same /\ tokens' = tokens
    BY <1>9 DEF OpenStream, BreakStream, NotSources, shows, subscription
  <2>. QED  BY <1>1, <2>1, <2>2
<1>10. ASSUME NEW source \in sources, StreamEvent(source)
       PROVE  Holds
  <2>1. CASE Home
    BY <1>3, <2>1
  <2>2. CASE UNCHANGED <<eventSubscriptionId, tokens, eventSource, reconnecting, refused>>
             /\ \E s : RenderSession(s)
    <3>1. eventSource # None
      BY <1>0 DEF UpdatesOK, OneSubscription
    <3>. QED  BY <1>0, <2>2, <3>1 DEF Pursued
  <2>3. CASE reconnecting' = Reconnection
    BY <2>3 DEF Reconnection, Pursued
  <2>. QED  BY <1>10, <2>1, <2>2, <2>3 DEF StreamEvent
<1>11. ASSUME Reconnected
       PROVE  Holds
  BY <1>2, <1>11 DEF Reconnected
<1>12. ASSUME \/ QueueRemoteInput \/ FlushRemoteInput
              \/ \E t \in Task : StartViewer(t)
              \/ \E batch \in batches : ServeInput(batch) \/ InputAnswered(batch)
       PROVE  Holds
  <2>1. UNCHANGED <<calls, current, updates>>
    BY <1>12 DEF QueueRemoteInput, FlushRemoteInput, StartViewer, ServeInput,
       InputAnswered, NotDelivery, shows
  <2>2. Reading => Reading'
    BY <1>0, <2>1, ReadingStays
  <2>. QED  BY <1>1, <2>1, <2>2 DEF updates
<1>. HIDE DEF Holds, Same
<1>13. Holds
  BY <1>4, <1>5, <1>6, <1>7, <1>8, <1>9, <1>10, <1>11, <1>12 DEF PageNext
<1>. QED  BY <1>13 DEF Holds

(* What happens to a stream leaves it one that breaks off.                 *)
LEMMA BreaksOff ==
  ASSUME NEW source \in Source, NEW more \in Seq(PageEvent)
  PROVE  source.events \o Append(more, Broken) \in Seq(PageEvent) \ {<<>>}
         /\ (source.events \o Append(more, Broken))[Len(source.events \o Append(more, Broken))]
              = Broken
<1>1. source.events \in Seq(PageEvent) /\ Broken \in PageEvent
  BY DEF Source, Broken, PageEvent
<1>2. PICK old, new : old = source.events /\ new = Append(more, Broken)
  OBVIOUS
<1>3. /\ old \in Seq(PageEvent) /\ new \in Seq(PageEvent)
      /\ Len(new) = Len(more) + 1 /\ Len(more) \in Nat /\ new[Len(new)] = Broken
  BY <1>1, <1>2
<1>4. /\ old \o new \in Seq(PageEvent) /\ Len(old \o new) = Len(old) + Len(new)
      /\ Len(old \o new) # 0 /\ (old \o new)[Len(old \o new)] = new[Len(new)]
  BY <1>3
<1>. QED  BY <1>2, <1>3, <1>4

LEMMA PublishBreaks ==
  ASSUME ClientsOK, CallsOK', \A source \in sources : Breaks(source), Publish
  PROVE  (\A source \in sources : Breaks(source))'
<1>0. /\ state' \in SessionState /\ sources \subseteq Source
      /\ (state' \in LiveStates <=> ~Over')
      /\ \A source \in sources : source.events \in Seq(PageEvent)
  BY DEF ClientsOK, CallsOK, UpdatesOK, SessionState, Over, LiveStates, TerminalStates, Source
<1>1. CASE state' = state
  BY <1>1 DEF Publish, Breaks, Over, Broken
<1>2. CASE state' # state
  <2>. SUFFICES ASSUME NEW source \in sources, NEW told \in Written(state'),
                       told \in Written(state'),
                       ~source.held => told = source,
                       source.held =>
                         told = [source EXCEPT !.held = state' \in LiveStates,
                            !.events = @ \o IF state' \in LiveStates THEN <<Event(state')>>
                                            ELSE <<Event(state'), Broken>>]
                PROVE  Breaks(told)'
    BY <1>2 DEF Publish, Written
  <2>1. CASE ~source.held
    BY <2>1 DEF Breaks, Broken
  <2>2. CASE source.held /\ state' \in LiveStates
    <3>1. PICK live \in BOOLEAN : live = (state' \in LiveStates)
      BY (state' \in LiveStates) \in BOOLEAN, Zenon
    <3>2. PICK events : told = [source EXCEPT !.held = live, !.events = events]
      BY <2>2, <3>1
    <3>3. told.held
      BY <1>0, <2>2, <3>1, <3>2 DEF Source
    <3>. QED  BY <1>0, <2>2, <3>3 DEF Breaks
  <2>3. CASE source.held /\ state' \notin LiveStates
    <3>1. PICK live \in BOOLEAN : live = (state' \in LiveStates)
      BY (state' \in LiveStates) \in BOOLEAN, Zenon
    <3>2. PICK events : events = source.events \o <<Event(state'), Broken>>
      OBVIOUS
    <3>3. told = [source EXCEPT !.held = live, !.events = events]
      BY <2>3, <3>1, <3>2
    <3>4. ~told.held /\ told.events = events
      BY <1>0, <2>3, <3>1, <3>3 DEF Source
    <3>5. <<Event(state')>> \in Seq(PageEvent)
          /\ <<Event(state'), Broken>> = Append(<<Event(state')>>, Broken)
      BY <1>0 DEF Event, PageEvent
    <3>6. events[Len(events)] = Broken
      BY <1>0, <3>2, <3>5, BreaksOff
    <3>. QED  BY <3>4, <3>6 DEF Breaks, Broken
  <2>. QED  BY <2>1, <2>2, <2>3
<1>. QED  BY <1>1, <1>2

LEMMA StreamsStep ==
  ASSUME ClientsOK, CallsOK', [Next]_vars, \A source \in sources : Breaks(source)
  PROVE  (\A source \in sources : Breaks(source))'
<1>. DEFINE Holds == \A source \in sources' : Breaks(source)'
<1>0. CallsOK /\ UpdatesOK /\ sources \subseteq Source
  BY DEF ClientsOK, UpdatesOK
<1>1. ASSUME UNCHANGED state, sources' \subseteq sources
      PROVE  Holds
  BY <1>1 DEF Breaks, Over, Broken
<1>2. ASSUME NEW source \in sources, NEW other, sources' \subseteq sources \cup {other},
             Breaks(other)', UNCHANGED state
      PROVE  Holds
  BY <1>2 DEF Breaks, Over, Broken
<1>3. ASSUME PageNext
      PROVE  Holds
  <2>1. ASSUME (\E c \in Slots : Serve(c)) \/ Others
        PROVE  Holds
    BY <2>1, PublishBreaks DEF Serve, Others
  <2>2. ASSUME \/ \E move \in OperatorRequests \cup {EndSession} : Click(move)
               \/ \E c \in Slots : PageGoesOn(c)
               \/ \E token \in tokens : ServeToken(token)
               \/ Reconnected \/ QueueRemoteInput \/ FlushRemoteInput
               \/ \E t \in Task : StartViewer(t)
               \/ \E batch \in batches : ServeInput(batch) \/ InputAnswered(batch)
        PROVE  Holds
    <3>1. UNCHANGED state
      BY <2>2 DEF Click, PageGoesOn, ActionAnswered, SessionRead, EndAnswered, ServeToken,
         Reconnected, QueueRemoteInput, FlushRemoteInput, StartViewer, ServeInput,
         InputAnswered, NotDelivery
    <3>2. UNCHANGED sources \/ Home \/ Subscribe
      BY <2>2 DEF Click, PageGoesOn, ActionAnswered, SessionRead, EndAnswered, ServeToken,
         Reconnected, QueueRemoteInput, FlushRemoteInput, StartViewer, ServeInput,
         InputAnswered, NotDelivery, page, updates, Resubscribed
    <3>3. sources' \subseteq sources
      BY <3>2 DEF Home, Subscribe, StopEvents
    <3>. QED  BY <1>1, <3>1, <3>3
  <2>3. ASSUME NEW token \in tokens, TokenAnswered(token)
        PROVE  Holds
    <3>1. PICK new : new = [id |-> token.id, held |-> FALSE, events |-> <<>>]
      OBVIOUS
    <3>2. UNCHANGED state /\ sources' \subseteq sources \cup {new}
      BY <2>3, <3>1 DEF TokenAnswered
    <3>3. Breaks(new)'
      BY <3>1 DEF Breaks
    <3>. QED  BY <3>2, <3>3 DEF Breaks, Over, Broken
  <2>4. ASSUME NEW source \in sources, OpenStream(source)
        PROVE  Holds
    <3>1. PICK other : /\ Replaced(source, other)
                       /\ IF Over THEN other = [source EXCEPT !.events = <<Broken>>]
                          ELSE other = [source EXCEPT !.held = TRUE, !.events = <<Event(state)>>]
      BY <2>4 DEF OpenStream
    <3>2. ~source.held /\ UNCHANGED state /\ source \in Source
      BY <1>0, <2>4 DEF OpenStream
    <3>3. Breaks(other)'
      <4>1. CASE Over
        BY <3>1, <3>2, <4>1 DEF Breaks, Over, Source, Broken
      <4>2. CASE ~Over
        <5>1. other.held
          BY <3>1, <3>2, <4>2 DEF Source
        <5>. QED  BY <3>2, <4>2, <5>1 DEF Breaks, Over, Broken
      <4>. QED  BY <4>1, <4>2
    <3>. QED  BY <1>2, <3>1, <3>2, <3>3 DEF Replaced
  <2>5. ASSUME NEW source \in sources, BreakStream(source)
        PROVE  Holds
    <3>1. PICK other : other = [source EXCEPT !.held = FALSE, !.events = Append(@, Broken)]
      OBVIOUS
    <3>2. Replaced(source, other) /\ UNCHANGED state /\ source \in Source
      BY <1>0, <2>5, <3>1 DEF BreakStream
    <3>3. ~other.held /\ other.events = Append(source.events, Broken)
      BY <3>1, <3>2 DEF Source
    <3>4. other.events[Len(other.events)] = Broken
      <4>1. source.events \in Seq(PageEvent)
        BY <3>2 DEF Source
      <4>. QED  BY <3>3, <4>1
    <3>5. Breaks(other)'
      BY <3>3, <3>4 DEF Breaks, Broken
    <3>. QED  BY <1>2, <3>2, <3>5 DEF Replaced
  <2>6. ASSUME NEW source \in sources, StreamEvent(source)
        PROVE  Holds
    <3>1. UNCHANGED state
      BY <2>6 DEF StreamEvent
    <3>2. CASE sources' \subseteq sources
      BY <1>1, <3>1, <3>2
    <3>3. CASE /\ Replaced(source, [source EXCEPT !.events = Tail(@)])
               /\ Head(source.events).kind = "session"
      <4>1. PICK other : other = [source EXCEPT !.events = Tail(@)]
        OBVIOUS
      <4>2. /\ source \in Source /\ source.events \in Seq(PageEvent) /\ source.events # <<>>
        BY <1>0, <2>6 DEF StreamEvent, Source
      <4>3. other.held = source.held /\ other.events = Tail(source.events)
        BY <4>1, <4>2 DEF Source
      <4>4. Breaks(other)'
        <5>1. CASE source.held
          BY <3>1, <4>3, <5>1 DEF Breaks, Over, Broken
        <5>2. CASE ~source.held
          <6>1. PICK n : n = Len(source.events)
            OBVIOUS
          <6>2. n \in Nat \ {0} /\ source.events[n] = Broken
            BY <4>2, <5>2, <6>1 DEF Breaks
          <6>3. source.events[1].kind = "session" /\ Broken.kind = "error"
            BY <3>3, <4>2 DEF Broken
          <6>4. n # 1
            BY <6>2, <6>3
          <6>5. /\ Len(other.events) = n - 1
                /\ \A i \in 1 .. n - 1 : other.events[i] = source.events[i + 1]
            BY <4>2, <4>3, <6>1
          <6>6. n - 1 \in 1 .. n - 1 /\ n - 1 + 1 = n
            BY <6>2, <6>4
          <6>7. other.events[Len(other.events)] = Broken
            BY <6>2, <6>5, <6>6
          <6>. QED  BY <4>3, <5>2, <6>7 DEF Breaks, Broken
        <5>. QED  BY <5>1, <5>2
      <4>. QED  BY <1>2, <3>1, <3>3, <4>1, <4>4 DEF Replaced
    <3>. QED  BY <2>6, <3>2, <3>3 DEF StreamEvent, Home, StopEvents
  <2>. HIDE DEF Holds
  <2>. QED  BY <1>3, <2>1, <2>2, <2>3, <2>4, <2>5, <2>6 DEF PageNext
<1>4. CASE UNCHANGED page /\ sources = {}
  BY <1>4 DEF page, updates
<1>5. CASE UNCHANGED vars
  BY <1>1, <1>5 DEF vars, page, updates
<1>6. sources = {} \/ scenario.client = "page"
  BY <1>0 DEF UpdatesOK
<1>. QED  BY <1>3, <1>4, <1>5, <1>6 DEF Next

LEMMA PollingStays ==
  ASSUME joined => polling, [Next]_vars
  PROVE  (joined => polling)'
<1>1. CASE UNCHANGED window
  BY <1>1 DEF window
<1>2. ASSUME NEW c \in Slots, WindowGoesOn(c)
      PROVE  joined' => polling'
  BY <1>2 DEF WindowGoesOn, JoinAnswered, StatusAnswered, WindowEnds, SessionGone, ApplyState,
     ResetSessionUi, window
<1>3. CASE JoinButton_Click \/ Poll \/ HostAction \/ EndButton_Click
  BY <1>3 DEF JoinButton_Click, Poll, HostAction, EndButton_Click, window
<1>. QED  BY <1>1, <1>2, <1>3 DEF Next, WindowNext, vars

(* Whatever a client has missed, a step that it still has before it tells  *)
(* it that its session is over, in every scenario: this is what lets the   *)
(* page and the window learn of the end under fair scheduling.             *)
THEOREM EndReachesAll == Spec => []EndStaysInReach
<1>1. Init => EndStaysInReach
  <2>. SUFFICES ASSUME Init  PROVE  EndStaysInReach
    OBVIOUS
  <2>1. scenario.calls \in Nat \ {0}
    BY ScenariosAssumption DEF Init, Scenario
  <2>2. 1 \in Slots
    BY <2>1 DEF Slots
  <2>3. CASE PageInit
    <3>1. calls[1].asks = ReadSession
      BY <2>2, <2>3 DEF PageInit, Asking
    <3>2. sources = {} /\ ~joined
      BY <2>3 DEF PageInit, PageIdle, Init, WindowInit, WindowIdle
    <3>. QED  BY <2>2, <3>1, <3>2 DEF EndStaysInReach, Pursued, Reading
  <2>4. CASE ViewingInit /\ WindowIdle
    <3>1. PICK source : source = [id |-> 1, held |-> TRUE, events |-> <<>>]
      OBVIOUS
    <3>2. sources = {source} /\ source.held /\ source.events = <<>> /\ ~Over /\ ~joined
          /\ eventSource # None
      BY <2>4, <3>1 DEF ViewingInit, WindowIdle, Over, TerminalStates, None
    <3>. QED  BY <3>2 DEF EndStaysInReach, Pursued, Breaks
  <2>5. CASE WindowInit /\ PageIdle /\ scenario.client = "window"
    BY <2>5 DEF WindowInit, WindowIdle, PageIdle, EndStaysInReach
  <2>. QED  BY <2>3, <2>4, <2>5 DEF Init
<1>2. ClientsOK /\ ClientsOK' /\ EndStaysInReach /\ [Next]_vars => EndStaysInReach'
  <2>. SUFFICES ASSUME ClientsOK, CallsOK', EndStaysInReach, [Next]_vars
                PROVE  EndStaysInReach'
    BY DEF ClientsOK
  <2>1. UNCHANGED scenario
    BY DEF Next, vars
  <2>2. (scenario.client = "page" /\ current /\ ~refused => Pursued)'
    <3>1. CASE scenario.client = "page" /\ PageNext
      BY <2>1, <3>1, PursuitStep DEF EndStaysInReach
    <3>2. CASE scenario.client # "page"
      BY <2>1, <3>2
    <3>3. CASE UNCHANGED vars
      BY <3>3 DEF vars, page, updates, EndStaysInReach, Pursued, Reading, Slots
    <3>. QED  BY <3>1, <3>2, <3>3 DEF Next
  <2>3. (\A source \in sources : Breaks(source))'
    BY StreamsStep DEF EndStaysInReach
  <2>4. (joined => polling)'
    BY PollingStays DEF EndStaysInReach
  <2>. QED  BY <2>2, <2>3, <2>4 DEF EndStaysInReach
<1>. QED  BY <1>1, <1>2, ClientsAlways, PTL DEF Spec
=============================================================================
