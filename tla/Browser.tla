------------------------------- MODULE Browser --------------------------------
(***************************************************************************)
(* The page of the operator, app.js, from the creation of a session on:    *)
(* its calls, its live updates (subscribeToSession), its viewer            *)
(* (startViewer) and its queue of input.  Each handler, timer callback and *)
(* continuation after an await is one step of the page, and they           *)
(* interleave in any order.  A promise that nothing awaits any more is     *)
(* left out.                                                               *)
(***************************************************************************)
EXTENDS ClientSession, Sequences, FiniteSets

CONSTANT BATCH   (* events that leave together: 64 in the code             *)

ASSUME BatchAssumption == BATCH \in Nat \ {0}

VARIABLES
  current,        (* a session is current; the page is at home otherwise   *)
  shown,          (* the state that was rendered last                      *)
  eventSubscriptionId,
  tokens,         (* requests of event-token: id and status                *)
  sources,        (* the EventSources that are not closed: id, whether the *)
                  (* portal holds them, events that wait                   *)
  eventSource,    (* the id of the one in the variable, or None            *)
  reconnecting,   (* eventReconnectTimer runs                              *)
  refused,        (* history: the last request of a token failed           *)
  viewers,        (* startViewer under way: its stage, its controlGranted, *)
                  (* whether its peer connection was closed                *)
  viewerPeer,     (* the one whose peer connection is viewerPeer, or None  *)
  inputAbort,     (* the listeners for input are there                     *)
  inputQueue,     (* events, numbered as they happen                       *)
  inputFlushTimer,
  inputDeliveryInFlight,
  inputSequence,
  batches,        (* batches on their way, and what became of them         *)
  happened,       (* input events so far                                   *)
  lastInput       (* the portal's lastInputSequence                        *)

updates == <<eventSubscriptionId, tokens, sources, eventSource, reconnecting, refused>>
view == <<viewers, viewerPeer>>
queue == <<inputAbort, inputQueue, inputFlushTimer>>
delivery == <<inputDeliveryInFlight, inputSequence, batches, lastInput>>
page == <<current, shown, updates, view, queue, delivery, happened>>

None == 0

Task == 1 .. scenario.viewers

NoTask == [stage |-> "none", granted |-> FALSE, closed |-> FALSE]

-----------------------------------------------------------------------------
(* What the portal writes to the streams that it holds.                    *)

Event(s) == [kind |-> "session", state |-> s]
Broken == [kind |-> "error", state |-> "none"]

(* The end closes them, after it has told of itself.                       *)
Written(s) ==
  {IF ~source.held THEN source
   ELSE [source EXCEPT !.held = s \in LiveStates,
                       !.events = @ \o IF s \in LiveStates THEN <<Event(s)>>
                                       ELSE <<Event(s), Broken>>] :
     source \in sources}

Publish ==
  sources' = IF state' # state THEN Written(state') ELSE sources

shows == <<current, shown, view>>
subscription == <<eventSubscriptionId, eventSource, reconnecting>>

NotSources == UNCHANGED <<shows, subscription, tokens, refused, queue, delivery, happened>>

Room == \A source \in sources : Len(source.events) < scenario.stream

(* The page may come to subscribe once more, beside what is under way.     *)
Budget ==
  eventSubscriptionId + Cardinality(Slots \ Idle)
    + (IF reconnecting THEN 1 ELSE 0) < scenario.subscriptions

-----------------------------------------------------------------------------
(* Parts of the handlers.                                                  *)

StopEvents ==
  /\ eventSubscriptionId' = eventSubscriptionId + 1
  /\ reconnecting' = FALSE
  /\ sources' = {source \in sources : source.id # eventSource}
  /\ eventSource' = None

(* subscribeToSession up to its first await.                               *)
Subscribe ==
  /\ StopEvents
  /\ tokens' = tokens \cup {[id |-> eventSubscriptionId', status |-> "sent"]}
  /\ refused' = FALSE

ClearInputBindings ==
  /\ inputAbort' = FALSE
  /\ inputQueue' = <<>>
  /\ inputFlushTimer' = FALSE

(* The tasks once viewerPeer, if there is one, has been closed; the task   *)
(* that made it may be over.                                               *)
PeerClosed ==
  [t \in Task |-> IF t = viewerPeer /\ viewers[t] # NoTask
                    THEN [viewers[t] EXCEPT !.closed = TRUE] ELSE viewers[t]]

ClearViewer ==
  /\ ClearInputBindings
  /\ viewerPeer' = None
  /\ viewers' = PeerClosed

(* saveCurrent(null) and home.                                             *)
Home ==
  /\ current' = FALSE
  /\ shown' = "none"
  /\ StopEvents
  /\ ClearViewer
  /\ UNCHANGED <<tokens, refused>>

(* renderSession.  With a viewer, the listeners are bound again if control *)
(* is granted; without, one is started.                                    *)
RenderSession(s) ==
  /\ shown' = s
  /\ UNCHANGED current
  /\ IF s \notin SharingStates THEN ClearViewer
     ELSE /\ inputAbort' = (viewerPeer # None /\ s = "CONTROL_ACTIVE")
          /\ inputQueue' = <<>>
          /\ inputFlushTimer' = FALSE
          /\ UNCHANGED viewerPeer
          /\ IF viewerPeer # None THEN UNCHANGED viewers
             ELSE \E t \in Task :
                    /\ viewers[t] = NoTask
                    /\ \A u \in Task : viewers[u] = NoTask => t <= u
                    /\ viewers' = [viewers EXCEPT ![t] =
                         [NoTask EXCEPT !.stage = "ice", !.granted = s = "CONTROL_ACTIVE"]]

-----------------------------------------------------------------------------
(* Calls: sessionView, action and endSession.                              *)

(* The operator clicks.  What the page offers is what was rendered.        *)
Click(move) ==
  /\ current /\ Budget
  /\ shown \in move.from
  /\ Send(move)
  /\ UNCHANGED <<state, page>>

(* The portal answers, and publishes what changed.                         *)
Serve(c) ==
  /\ Handled(c) \/ Lost(c)
  /\ Publish
  /\ NotSources

(* action: once the portal has accepted, the session is read again.        *)
ActionAnswered(c) ==
  /\ \E move \in OperatorRequests :
       \/ /\ Answered(c, move, "ok") /\ current
          /\ calls' = [calls EXCEPT ![c] = Asking(ReadSession)]
          /\ UNCHANGED page
       \/ /\ Answered(c, move, "ok") /\ ~current
          /\ calls' = Freed(c)
          /\ Home /\ UNCHANGED <<delivery, happened>>
       \/ /\ \E status \in {"gone", "refused", "failed"} : Answered(c, move, status)
          /\ calls' = Freed(c)
          /\ UNCHANGED page
  /\ UNCHANGED state

SubscribedOnce == IF eventSource = None THEN Subscribe ELSE UNCHANGED updates

Resubscribed == Subscribe

(* sessionView after its await.  Whatever failed, the session is dropped.  *)
SessionRead(c) ==
  /\ \/ /\ Answered(c, ReadSession, "ok") /\ current
        /\ RenderSession(calls[c].seen)
        /\ Resubscribed
     \/ /\ \E status \in {"ok", "gone", "failed"} : Answered(c, ReadSession, status)
        /\ Answered(c, ReadSession, "ok") => ~current
        /\ Home
  /\ calls' = Freed(c)
  /\ UNCHANGED <<state, delivery, happened>>

(* endSession and reportSecurityConcern.                                   *)
EndAnswered(c) ==
  /\ \/ Answered(c, EndSession, "ok") /\ Home /\ UNCHANGED <<delivery, happened>>
     \/ /\ \E status \in {"gone", "refused", "failed"} : Answered(c, EndSession, status)
        /\ UNCHANGED page
  /\ calls' = Freed(c)
  /\ UNCHANGED state

-----------------------------------------------------------------------------
(* Live updates.                                                           *)

(* The portal answers the request of an event token.                       *)
ServeToken(token) ==
  /\ token.status = "sent"
  /\ \E status \in {IF Over THEN "failed" ELSE "ok"}
                     \cup (IF scenario.faults \cap {"request", "reply"} # {} THEN {"failed"} ELSE {}) :
       tokens' = (tokens \ {token}) \cup {[token EXCEPT !.status = status]}
  /\ UNCHANGED <<state, calls, shows, subscription, sources, refused, queue, delivery, happened>>

AnySubscription(token) == current

(* Nothing has resubscribed since.                                         *)
StillWanted(token) == token.id = eventSubscriptionId /\ current

(* subscribeToSession after its await.                                     *)
TokenAnswered(token) ==
  /\ token.status # "sent"
  /\ tokens' = tokens \ {token}
  /\ IF token.status = "ok" /\ StillWanted(token)
     THEN /\ sources' = sources \cup {[id |-> token.id, held |-> FALSE, events |-> <<>>]}
          /\ eventSource' = token.id
          /\ UNCHANGED refused
     ELSE /\ refused' = (refused \/ (token.status = "failed" /\ token.id = eventSubscriptionId))
          /\ UNCHANGED <<sources, eventSource>>
  /\ UNCHANGED <<state, calls, current, shown, eventSubscriptionId, reconnecting,
                 view, queue, delivery, happened>>

Replaced(source, other) == sources' = (sources \ {source}) \cup {other}

(* GET events: a snapshot, or no stream because the token is void by now.  *)
OpenStream(source) ==
  /\ ~source.held /\ source.events = <<>>
  /\ Replaced(source, IF Over THEN [source EXCEPT !.events = <<Broken>>]
                      ELSE [source EXCEPT !.held = TRUE, !.events = <<Event(state)>>])
  /\ NotSources /\ UNCHANGED <<state, calls>>

BreakStream(source) ==
  /\ "stream" \in scenario.faults
  /\ source.held /\ Budget
  /\ Replaced(source, [source EXCEPT !.held = FALSE, !.events = Append(@, Broken)])
  /\ NotSources /\ UNCHANGED <<state, calls>>

NoReconnection == FALSE

Reconnection == TRUE

OnlyEnded(s) == s = "ENDED"

(* What renderSession takes for the end of the session.                    *)
Unavailable(s) == s \in TerminalStates

(* The listeners: a state is rendered, an error closes the source and      *)
(* plans a reconnection.                                                   *)
StreamEvent(source) ==
  /\ source.id = eventSource /\ source.id = eventSubscriptionId
  /\ source.events # <<>>
  /\ LET event == Head(source.events)
     IN \/ /\ event.kind = "session" /\ Unavailable(event.state)
           /\ Home
        \/ /\ event.kind = "session" /\ ~Unavailable(event.state)
           /\ RenderSession(event.state)
           /\ Replaced(source, [source EXCEPT !.events = Tail(@)])
           /\ UNCHANGED <<eventSubscriptionId, tokens, eventSource, reconnecting, refused>>
        \/ /\ event.kind = "error" /\ current
           /\ sources' = sources \ {source}
           /\ eventSource' = None
           /\ reconnecting' = Reconnection
           /\ UNCHANGED <<current, shown, eventSubscriptionId, tokens, refused, view, queue>>
  /\ UNCHANGED <<state, calls, delivery, happened>>

(* The timer of the reconnection.                                          *)
Reconnected ==
  /\ reconnecting /\ current
  /\ Subscribe
  /\ UNCHANGED <<state, calls, current, shown, view, queue, delivery, happened>>

-----------------------------------------------------------------------------
(* startViewer.                                                            *)

Enabled(granted) == inputAbort \/ (granted /\ current /\ shown \in SharingStates)

ViewerLeft(t) ==
  /\ viewers' = [viewers EXCEPT ![t] = NoTask]
  /\ UNCHANGED <<viewerPeer, queue>>

(* The viewer fails: clearViewer, whoever's viewer it is by now.           *)
ViewerFails(t) ==
  /\ ClearInputBindings
  /\ viewerPeer' = None
  /\ viewers' = [PeerClosed EXCEPT ![t] = NoTask]

(* The ICE configuration has been answered, or has not; either way a peer  *)
(* connection is made, and an offer asked of it.                           *)
IceConfigured(t) ==
  /\ viewers[t].stage = "ice"
  /\ viewerPeer' = t
  /\ viewers' = [viewers EXCEPT ![t].stage = "offer"]
  /\ UNCHANGED queue

(* The offer has been made and set, and is sent through the portal: not    *)
(* without a peer connection, nor without a session.  The promises of a    *)
(* connection that was closed meanwhile may never be settled.              *)
OfferMade(t) ==
  /\ viewers[t].stage = "offer"
  /\ \/ /\ viewerPeer # None /\ current
        /\ viewers' = [viewers EXCEPT ![t].stage = "signal"]
        /\ UNCHANGED <<viewerPeer, queue>>
     \/ ViewerFails(t)
     \/ /\ viewers[t].closed
        /\ viewers' = [viewers EXCEPT ![t] = NoTask]
        /\ UNCHANGED <<viewerPeer, queue>>

(* The offer was relayed, or refused.                                      *)
OfferSent(t) ==
  /\ viewers[t].stage = "signal"
  /\ \/ /\ viewers' = [viewers EXCEPT ![t] = NoTask]
        /\ inputAbort' = Enabled(viewers[t].granted)
        /\ UNCHANGED <<viewerPeer, inputQueue, inputFlushTimer>>
     \/ ViewerFails(t)

StartViewer(t) ==
  /\ IceConfigured(t) \/ OfferMade(t) \/ OfferSent(t)
  /\ UNCHANGED <<state, calls, current, shown, updates, delivery, happened>>

-----------------------------------------------------------------------------
(* Input.                                                                  *)

ScheduledAnyway == TRUE

(* scheduleRemoteInputFlush.                                               *)
Scheduled == inputFlushTimer \/ ~inputDeliveryInFlight

(* queueRemoteInput.                                                       *)
QueueRemoteInput ==
  /\ inputAbort
  /\ happened < scenario.events
  /\ happened' = happened + 1
  /\ inputQueue' = Append(inputQueue, happened')
  /\ inputFlushTimer' = Scheduled
  /\ UNCHANGED <<state, calls, shows, updates, inputAbort, delivery>>

Least(a, b) == IF a < b THEN a ELSE b

(* The callback of the timer, up to its await.                             *)
FlushRemoteInput ==
  /\ inputFlushTimer
  /\ inputFlushTimer' = FALSE
  /\ LET n == Least(BATCH, Len(inputQueue))
     IN /\ inputQueue' = SubSeq(inputQueue, n + 1, Len(inputQueue))
        /\ IF n = 0 \/ ~current THEN UNCHANGED <<inputDeliveryInFlight, inputSequence, batches>>
           ELSE /\ inputDeliveryInFlight' = TRUE
                /\ inputSequence' = inputSequence + 1
                /\ batches' = batches \cup {[sequence |-> inputSequence, status |-> "sent",
                                              events |-> SubSeq(inputQueue, 1, n)]}
  /\ UNCHANGED <<state, calls, shows, updates, inputAbort, lastInput, happened>>

NotDelivery == UNCHANGED <<state, calls, shows, updates, queue, happened>>

InputAccepted(batch) == state = "CONTROL_ACTIVE" /\ batch.sequence > lastInput

(* POST input: the portal takes a batch under an active grant, if it is    *)
(* later than the last.  The call may fail before.                         *)
ServeInput(batch) ==
  /\ batch.status = "sent"
  /\ batches' = (batches \ {batch}) \cup {[batch EXCEPT !.status = "answered"]}
  /\ \/ lastInput' = IF InputAccepted(batch) THEN batch.sequence ELSE lastInput
     \/ "request" \in scenario.faults /\ UNCHANGED lastInput
  /\ NotDelivery
  /\ UNCHANGED <<inputDeliveryInFlight, inputSequence>>

NotRescheduled == inputFlushTimer

Rescheduled == inputFlushTimer \/ inputQueue # <<>>

(* The callback after its await, whether or not the batch was delivered.   *)
InputAnswered(batch) ==
  /\ batch.status = "answered"
  /\ batches' = batches \ {batch}
  /\ inputDeliveryInFlight' = FALSE
  /\ inputFlushTimer' = Rescheduled
  /\ UNCHANGED <<state, calls, shows, updates, inputAbort, inputQueue, inputSequence, lastInput,
                 happened>>

-----------------------------------------------------------------------------

(* Nothing is under way but what the state says.                           *)
PageRests ==
  /\ current = TRUE
  /\ tokens = {} /\ reconnecting = FALSE /\ refused = FALSE
  /\ viewerPeer = None
  /\ inputAbort = FALSE /\ inputQueue = <<>> /\ inputFlushTimer = FALSE
  /\ inputDeliveryInFlight = FALSE /\ inputSequence = 0 /\ batches = {}
  /\ happened = 0 /\ lastInput = -1

PageIdle ==
  /\ shown = "none"
  /\ eventSubscriptionId = 0 /\ sources = {} /\ eventSource = None
  /\ viewers = [t \in Task |-> NoTask]
  /\ PageRests

(* The session has just been created, and sessionView reads it.            *)
PageInit ==
  /\ state = "CREATED"
  /\ calls = [c \in Slots |-> IF c = 1 THEN Asking(ReadSession) ELSE NoCall]
  /\ PageIdle

(* Or the host has just approved the view, and the page has rendered it.   *)
ViewingInit ==
  /\ state = "VIEW_ACTIVE" /\ shown = "VIEW_ACTIVE"
  /\ calls = [c \in Slots |-> NoCall]
  /\ eventSubscriptionId = 1 /\ eventSource = 1
  /\ sources = {[id |-> 1, held |-> TRUE, events |-> <<>>]}
  /\ viewers = [t \in Task |-> IF t = 1 THEN [NoTask EXCEPT !.stage = "ice"] ELSE NoTask]
  /\ PageRests

PageGoesOn(c) == ActionAnswered(c) \/ SessionRead(c) \/ EndAnswered(c)

Others ==
  /\ Room
  /\ Moved(scenario.moves)
  /\ Publish
  /\ NotSources

PageNext ==
  \/ \E move \in OperatorRequests \cup {EndSession} : Click(move)
  \/ \E c \in Slots : Serve(c) \/ PageGoesOn(c)
  \/ \E token \in tokens : ServeToken(token) \/ TokenAnswered(token)
  \/ \E source \in sources : OpenStream(source) \/ BreakStream(source) \/ StreamEvent(source)
  \/ Reconnected
  \/ \E t \in Task : StartViewer(t)
  \/ QueueRemoteInput \/ FlushRemoteInput
  \/ \E batch \in batches : ServeInput(batch) \/ InputAnswered(batch)
  \/ Others
=============================================================================
