-------------------------- MODULE HostStreamProofs ---------------------------
(***************************************************************************)
(* Proofs about what the portal writes to the Linux host and what the host *)
(* makes of it, for every value of the constants: that it overlooks        *)
(* neither the end of its session nor a request for control, as long as    *)
(* its stream does not end without an error.  They are                     *)
(* what HostStopsAfterEnd and ControlRequestsAreSettled rest on besides    *)
(* the fairness of the loop.                                               *)
(***************************************************************************)
EXTENDS LinuxHostProofs

Viewing == SessionEvent("VIEW_ACTIVE")
Asking == SessionEvent("CONTROL_PENDING")
Ending == {StreamError} \cup {SessionEvent(s) : s \in TerminalStates}

(* The end of the session, or of the stream, waits for the agent.          *)
EndQueued == \E i \in 1 .. Len(inbound) : inbound[i] \in Ending

(* A request for control waits for the agent.                              *)
RequestQueued == \E i \in 1 .. Len(inbound) : inbound[i] = Asking

(* From the subscription to the end.                                       *)
Listening == \/ at \in Serving \cup {"ice-config", "approve-view"}
             \/ at = "events" /\ call.status = "ok"

(* The agent is about to answer a request for control.                     *)
InHand == \/ at \in {"confirm", "dialog"}
          \/ at \in {"approve-control", "deny-control"} /\ call.status = "sent"

-----------------------------------------------------------------------------
(* Properties.                                                             *)

(* An agent whose session is over, whenever it ended, never waits in its   *)
(* loop for an event that will not come: the end, or the error of the      *)
(* stream that would have brought it, is still to be taken.  A stream that *)
(* ends without an error leaves neither, and such an agent does wait.      *)
NoEndOverlooked == (at = "loop" /\ state \in TerminalStates) => EndQueued

(* The agent leaves its loop without asking the portal to end the session  *)
(* only when the session is over, or when it is killed: what it takes for  *)
(* the end is never the end of something else, or one that was revoked.    *)
LeavesOnlyWhatEnded ==
  [][(at = "loop" /\ at' = "exited") => state \in TerminalStates \/ Killed]_vars

(* Every request for control that reaches the agent prompts its user: the  *)
(* flag that keeps one request from prompting twice never suppresses the   *)
(* next request, however they overlap.                                     *)
EveryRequestPrompts == Arrived("session") /\ Head(inbound) = Asking => ~prompted

(* A request that is pending is before the user, or about to be: an agent  *)
(* that has taken every event of an open stream leaves none pending.       *)
NoRequestForgotten ==
  (at = "loop" /\ subscribed /\ state = "CONTROL_PENDING") => RequestQueued

-----------------------------------------------------------------------------
(* What a step makes of the stream.                                        *)

Early == at \in {"start", "share"} \cup Preparing

(* Nothing is written and nothing is taken.                                *)
Silent ==
  /\ UNCHANGED <<state, inbound, subscribed, prompted>>
  /\ Early' => Early
  /\ Listening' => Listening
  /\ InHand /\ state = "CONTROL_PENDING" =>
       InHand' \/ at' = "end" \/ "request" \in Faults
  /\ at' # "exited" \/ at = "exited"
  /\ at = "end" => at' = "end"

(* The process is gone, on an end it was told of or in the middle.         *)
Gone ==
  /\ at' = "exited" /\ inbound' = <<>> /\ subscribed' = FALSE
  /\ UNCHANGED <<state, prompted>>
  /\ at = "loop" => Killed \/ (inbound # <<>> /\ Head(inbound) \in Ending \ {StreamError})

(* The session moves on, and the agent is told if it listens.              *)
Published(s) ==
  /\ Becomes(s)
  /\ state \in LiveStates
  /\ s = "CONTROL_PENDING" => state = "VIEW_ACTIVE"
  /\ Listening' => Listening
  /\ UNCHANGED <<at, prompted>>

(* The stream opens with the session as it is.                             *)
Snapshot ==
  /\ at = "events" /\ state \in LiveStates
  /\ subscribed' = TRUE /\ inbound' = <<SessionEvent(state)>>
  /\ UNCHANGED <<state, at, prompted>>

Broken ==
  /\ subscribed' = FALSE /\ inbound' = Append(inbound, StreamError)
  /\ UNCHANGED <<state, at, call, prompted>>

(* The stream is over, and nothing says so.                                *)
Closed ==
  /\ "closed" \in Faults
  /\ subscribed' = FALSE
  /\ UNCHANGED <<state, inbound, at, call, prompted>>

Relayed(e) ==
  /\ e.kind \in {"input", "signal"} /\ inbound' = Append(inbound, e)
  /\ UNCHANGED <<state, subscribed, at, call, prompted>>

(* The loop takes an event and goes on.                                    *)
Taken ==
  /\ at = "loop" /\ inbound # <<>> /\ inbound' = Tail(inbound)
  /\ UNCHANGED <<state, subscribed>>
  /\ Head(inbound) \notin Ending
  /\ \/ /\ Head(inbound) # Viewing /\ (Head(inbound) = Asking => prompted)
        /\ at' = "loop" /\ prompted' = prompted
     \/ Head(inbound) = Viewing /\ at' = "loop" /\ prompted' = FALSE
     \/ Head(inbound) = Asking /\ ~prompted /\ at' = "confirm" /\ prompted' = TRUE

StreamStep ==
  \/ Silent \/ Gone \/ Snapshot \/ Broken \/ Closed \/ Taken
  \/ \E s \in LiveStates \cup TerminalStates : Published(s)
  \/ \E e : Relayed(e)

LEMMA StreamAtPortal ==
  ASSUME TypeOK, AgentInv, Handle \/ Lose \/ FailStream \/ CloseStream
  PROVE  StreamStep
<1>1. CASE FailStream
  BY <1>1, Zenon DEF FailStream, local, Broken, StreamStep
<1>2. CASE CloseStream
  BY <1>2, Zenon DEF CloseStream, local, Closed, StreamStep
<1>3. CASE Lose
  <2>1. /\ call'.status = "failed"
        /\ UNCHANGED <<at, state, inbound, subscribed, prompted>>
        /\ "request" \in Faults /\ call.status = "sent"
    BY <1>3 DEF Lose, Answer, TypeOK, local
  <2>2. at # "exited"
    BY <2>1 DEF TypeOK, NoCall, Action
  <2>. QED  BY <2>1, <2>2 DEF Silent, Early, Listening, InHand, StreamStep
<1>4. CASE Handle
  <2>1. PICK status \in {"ok", "failed"} :
          /\ call' = [call EXCEPT !.status = status, !.grant = asks]
          /\ \/ /\ Accepted(call.action) /\ Effect(call.action)
             \/ /\ ~Accepted(call.action)
                /\ status = "failed" /\ UNCHANGED <<state, inbound, subscribed>>
    BY <1>4 DEF Handle, Answer
  <2>2. call'.status = status /\ UNCHANGED <<at, prompted>>
    BY <1>4, <2>1 DEF TypeOK, Handle, Answer, local
  <2>3. call.action \in Action /\ at = call.action /\ call.status = "sent"
    BY <1>4 DEF Handle, TypeOK, NoCall
  <2>4. at # "exited"
    BY <2>3 DEF Action
  <2>5. CASE at \in {"event-token", "ice-config", "signal"} \/ ~Accepted(call.action)
    <3>1. UNCHANGED <<state, inbound, subscribed>>
      BY <2>1, <2>3, <2>5 DEF Effect
    <3>2. Listening' => Listening
      BY <2>1, <2>2, <2>5, <2>3 DEF Listening
    <3>3. InHand => state # "CONTROL_PENDING"
      BY <2>3, <2>5 DEF InHand, Accepted, ApproveControl, DenyControl, Transition, Action
    <3>. QED  BY <2>2, <2>4, <3>1, <3>2, <3>3 DEF Silent, Early, StreamStep
  <2>6. CASE at = "events" /\ Accepted(call.action)
    BY <2>1, <2>2, <2>3, <2>6 DEF Effect, Accepted, Live, Snapshot, StreamStep
  <2>7. ASSUME NEW s \in (LiveStates \cup TerminalStates) \ {"CONTROL_PENDING"}, Becomes(s),
               state \in LiveStates, at # "events"
        PROVE  StreamStep
    BY <2>2, <2>7 DEF Published, Listening, StreamStep
  <2>8. CASE at \in {"approve-view", "approve-control", "deny-control", "end"}
             /\ Accepted(call.action)
    <3>1. state \in LiveStates
      BY <2>3, <2>8 DEF Accepted, Live, ApproveView, ApproveControl, DenyControl,
           Transition, LiveStates
    <3>2. \E s \in {"VIEW_ACTIVE", "CONTROL_ACTIVE", "ENDED"} : Becomes(s)
      BY <2>1, <2>3, <2>8 DEF Effect, ApproveView, ApproveControl, DenyControl, Transition
    <3>. QED  BY <2>7, <2>8, <3>1, <3>2 DEF LiveStates, TerminalStates
  <2>. QED  BY <2>3, <2>5, <2>6, <2>8 DEF Action
<1>. QED  BY <1>1, <1>2, <1>3, <1>4

LEMMA StreamAmongOthers ==
  ASSUME TypeOK,
         \/ AskView \/ AskControl
         \/ \E move \in BrowserMoves : BrowserHostActs(move)
         \/ \E events \in Batch : SendBatch(events)
         \/ \E signal \in Signals : SendSignal(signal)
         \/ SessionEnds
  PROVE  StreamStep
<1>1. UNCHANGED <<call, at, prompted>>
  BY DEF AskView, AskControl, BrowserHostActs, SendBatch, SendSignal, SessionEnds,
         Others, local
<1>2. ASSUME NEW s \in LiveStates \cup TerminalStates, Becomes(s), state \in LiveStates,
             s = "CONTROL_PENDING" => state = "VIEW_ACTIVE"
      PROVE  StreamStep
  BY <1>1, <1>2 DEF Published, Listening, StreamStep
<1>3. CASE AskView
  BY <1>2, <1>3 DEF AskView, ViewRequest, Transition, LiveStates
<1>4. CASE AskControl
  BY <1>2, <1>4 DEF AskControl, ControlRequest, Transition, LiveStates
<1>5. ASSUME NEW move \in BrowserMoves, BrowserHostActs(move)
      PROVE  StreamStep
  <2>1. move \in {ApproveView, DenyView, ApproveControl, DenyControl, RevokeControl}
    BY Constants DEF HostActions
  <2>2. Becomes(move.to) /\ state \in move.from
    BY <1>5 DEF BrowserHostActs
  <2>3. /\ move.to \in LiveStates /\ move.to # "CONTROL_PENDING"
        /\ move.from \subseteq LiveStates
    BY <2>1 DEF ApproveView, DenyView, ApproveControl, DenyControl, RevokeControl,
         Transition, LiveStates
  <2>. QED  BY <1>2, <2>2, <2>3
<1>6. CASE SessionEnds
  BY <1>2, <1>6 DEF SessionEnds, Live, TerminalStates
<1>7. CASE (\E events \in Batch : SendBatch(events)) \/ (\E signal \in Signals : SendSignal(signal))
  <2>1. PICK e : /\ e.kind \in {"input", "signal"} /\ inbound' = Written(inbound, e)
                 /\ UNCHANGED <<state, subscribed>>
    BY <1>7 DEF SendBatch, SendSignal, InputEnvelope, SignalEnvelope
  <2>2. CASE inbound' = Append(inbound, e)
    BY <1>1, <2>1, <2>2 DEF Relayed, StreamStep
  <2>3. CASE inbound' = inbound
    BY <1>1, <2>1, <2>3 DEF Silent, Early, Listening, InHand, StreamStep
  <2>. QED  BY <2>1, <2>2, <2>3 DEF Written
<1>. QED  BY <1>3, <1>4, <1>5, <1>6, <1>7

LEMMA StreamOfStop ==
  ASSUME TypeOK, NEW terminated \in BOOLEAN, Stop(terminated), prompted' = prompted,
         at \in {"loop", "signal"},
         at = "loop" /\ terminated => inbound # <<>> /\ Head(inbound) \in Ending \ {StreamError},
         at = "signal" => ~terminated
  PROVE  StreamStep
<1>1. state' = state
  BY DEF Stop, PortalRests
<1>2. CASE terminated
  BY <1>1, <1>2 DEF Stop, Exit, Gone, StreamStep
<1>3. CASE ~terminated
  <2>1. at' = "end" /\ UNCHANGED <<inbound, subscribed>>
    BY <1>3 DEF Stop, Calls, Request
  <2>. QED  BY <1>1, <2>1 DEF Silent, Early, Listening, Preparing, Serving, StreamStep
<1>. QED  BY <1>2, <1>3

LEMMA StreamOfPreparation ==
  ASSUME TypeOK, AgentInv,
         Start \/ Share \/ Capture \/ Subscribe \/ StartSender \/ ViewApproved \/ Ended
  PROVE  StreamStep
<1>1. state' = state /\ prompted' = prompted /\ at # "loop"
  BY DEF Start, Share, Capture, Subscribe, StartSender, ViewApproved, Ended, PortalRests,
     local, Answered
<1>2. CASE Exit
  BY <1>1, <1>2 DEF Exit, Gone, StreamStep
<1>3. CASE UNCHANGED <<inbound, subscribed>> /\ at' # "exited" /\ (Early' => Early)
           /\ (Listening' => Listening) /\ ~InHand /\ at # "end"
  BY <1>1, <1>3 DEF Silent, StreamStep
<1>4. CASE Start
  <2>1. CASE Goes("share")
    BY <1>3, <1>4, <2>1
    DEF Start, Goes, Early, Listening, InHand, Preparing, Serving
  <2>. QED  BY <1>2, <1>4, <2>1 DEF Start
<1>5. CASE Share
  <2>1. CASE Goes("capture")
    BY <1>3, <1>5, <2>1
    DEF Share, Goes, Early, Listening, InHand, Preparing, Serving
  <2>. QED  BY <1>2, <1>5, <2>1 DEF Share
<1>6. CASE Capture
  <2>1. CASE NextCall
    BY <1>3, <1>6, <2>1
    DEF Capture, NextCall, Early, Listening, InHand, Preparing, Serving
  <2>2. CASE Request("event-token") /\ UNCHANGED <<inbound, subscribed>>
    BY <1>3, <1>6, <2>2
    DEF Capture, Request, Early, Listening, InHand, Preparing, Serving
  <2>. QED  BY <1>2, <1>6, <2>1, <2>2 DEF Capture
<1>7. CASE Subscribe
  <2>1. CASE ~Exit
    <3>1. /\ Ok /\ UNCHANGED <<inbound, subscribed>> /\ at \in {"event-token", "events"}
          /\ \/ at' = "events" /\ call'.status = "sent"
             \/ at = "events" /\ at' = "ice-config"
      BY <1>7, <2>1 DEF Subscribe, Calls, Request, Answered
    <3>. QED  BY <1>3, <3>1 DEF Early, Listening, InHand, Preparing, Serving, Ok
  <2>. QED  BY <1>2, <2>1
<1>8. CASE StartSender
  <2>1. CASE Calls("approve-view")
    BY <1>3, <1>8, <2>1
    DEF StartSender, Answered, Calls, Request, Early, Listening, InHand, Preparing, Serving
  <2>. QED  BY <1>2, <1>8, <2>1 DEF StartSender
<1>9. CASE ViewApproved
  <2>1. CASE ~Exit
    <3>1. at = "approve-view" /\ at' = "loop" /\ UNCHANGED <<inbound, subscribed>>
      BY <1>9, <2>1 DEF ViewApproved, Answered
    <3>. QED  BY <1>3, <3>1 DEF Early, Listening, InHand, Preparing, Serving
  <2>. QED  BY <1>2, <2>1
<1>10. CASE Ended
  BY <1>2, <1>10 DEF Ended
<1>. QED  BY <1>4, <1>5, <1>6, <1>7, <1>8, <1>9, <1>10

LEMMA StreamOfControl ==
  ASSUME TypeOK, AgentInv,
         \/ Confirm \/ Dialog \/ ControlApproved \/ ControlDenied
         \/ RelaySignal \/ SignalRelayed \/ PipelineSignals \/ UNCHANGED vars
  PROVE  StreamStep
<1>1. UNCHANGED <<state, prompted>>
  BY DEF Confirm, Dialog, ControlApproved, ControlDenied, RelaySignal, SignalRelayed,
     PipelineSignals, vars, portal, local, PortalRests, Unchanged, Leave, Stop
<1>2. CASE Confirm \/ Dialog
  <2>1. /\ UNCHANGED <<inbound, subscribed>> /\ at \in {"confirm", "dialog"}
        /\ \/ at' = "dialog"
           \/ at' \in {"deny-control", "approve-control"} /\ call'.status = "sent"
    BY <1>2 DEF Confirm, Dialog, Unchanged, Request
  <2>. QED  BY <1>1, <2>1 DEF Silent, Early, Listening, InHand, Preparing, Serving, StreamStep
<1>3. CASE ControlApproved \/ ControlDenied
  <2>1. /\ UNCHANGED <<inbound, subscribed>> /\ at' = "loop"
        /\ at \in {"approve-control", "deny-control"} /\ call.status # "sent"
    BY <1>3 DEF ControlApproved, ControlDenied, Unchanged, Answered
  <2>. QED  BY <1>1, <2>1 DEF Silent, Early, Listening, InHand, Preparing, Serving, StreamStep
<1>4. CASE RelaySignal
  <2>1. UNCHANGED <<inbound, subscribed>> /\ at = "loop" /\ at' = "signal"
    BY <1>4 DEF RelaySignal, Calls, Request
  <2>. QED  BY <1>1, <2>1 DEF Silent, Early, Listening, InHand, Preparing, Serving, StreamStep
<1>5. CASE SignalRelayed
  <2>1. CASE Ok
    <3>1. UNCHANGED <<inbound, subscribed>> /\ at = "signal" /\ at' = "loop"
      BY <1>5, <2>1 DEF SignalRelayed, Answered
    <3>. QED  BY <1>1, <3>1 DEF Silent, Early, Listening, InHand, Preparing, Serving, StreamStep
  <2>2. CASE ~Ok
    BY <1>1, <1>5, <2>2, StreamOfStop DEF SignalRelayed, Answered, Leave
  <2>. QED  BY <2>1, <2>2
<1>6. CASE PipelineSignals \/ UNCHANGED vars
  <2>1. UNCHANGED <<inbound, subscribed, at, call>>
    BY <1>6 DEF PipelineSignals, vars, portal
  <2>. QED  BY <1>1, <2>1 DEF Silent, Early, Listening, InHand, StreamStep
<1>. QED  BY <1>2, <1>3, <1>4, <1>5, <1>6

LEMMA StreamOfLoop ==
  ASSUME TypeOK, AgentInv, Loop
  PROVE  StreamStep
<1>1. /\ at = "loop" /\ inbound # <<>>
      /\ state' = state
  BY DEF Loop, Arrived, HandleSignal, HandleSession, HandleError, IgnoreInput, Inject,
     RejectInput, LoseDisplay, PortalRests, Leave, Stop
<1>2. /\ Viewing.kind = "session" /\ Asking.kind = "session"
      /\ Viewing.state = "VIEW_ACTIVE" /\ Asking.state = "CONTROL_PENDING"
      /\ \A e \in Ending : e.kind \in {"error", "session"}
  BY DEF Viewing, Asking, Ending, SessionEvent, StreamError
<1>3. CASE Stop(FALSE) /\ prompted' = prompted
  BY <1>1, <1>3, StreamOfStop
<1>4. CASE /\ Take /\ prompted' = prompted /\ Head(inbound) \notin Ending
           /\ Head(inbound) # Viewing /\ (Head(inbound) = Asking => prompted)
  BY <1>1, <1>4 DEF Take, Taken, StreamStep
<1>5. CASE HandleSignal \/ IgnoreInput \/ Inject
  <2>1. \/ Stop(FALSE) /\ prompted' = prompted
        \/ /\ Take /\ prompted' = prompted
           /\ Head(inbound).kind \in {"signal", "input"}
    BY <1>5 DEF HandleSignal, IgnoreInput, Inject, Arrived, Leave, Stop, local
  <2>. QED  BY <1>2, <1>3, <1>4, <2>1
<1>6. CASE RejectInput \/ LoseDisplay \/ HandleError
  <2>1. Stop(FALSE) /\ prompted' = prompted
    BY <1>6 DEF RejectInput, LoseDisplay, HandleError, Leave, Stop
  <2>. QED  BY <1>3, <2>1
<1>7. CASE HandleSession
  <2>. DEFINE s == Head(inbound).state
  <2>1. Head(inbound).kind = "session" /\ Head(inbound) = SessionEvent(s)
    <3>1. Head(inbound) \in Event /\ Head(inbound).kind = "session"
      BY <1>1, <1>7 DEF TypeOK, HandleSession, Arrived
    <3>. QED  BY <3>1 DEF Event, StreamError, SessionEvent
  <2>2. CASE s \in EndOfSession /\ Leave(TRUE)
    <3>1. Head(inbound) \in Ending \ {StreamError}
      BY <2>1, <2>2 DEF Ending, EndOfSession, TerminalStates, StreamError, SessionEvent
    <3>. QED  BY <1>1, <2>2, <3>1, StreamOfStop DEF Leave, Stop
  <2>3. CASE s = "VIEW_ACTIVE" /\ Take /\ prompted' = NoLongerPrompted
    <3>1. Head(inbound) = Viewing /\ Head(inbound) \notin Ending
      BY <2>1, <2>3 DEF Viewing, Ending, SessionEvent, StreamError, TerminalStates
    <3>. QED  BY <1>1, <2>3, <3>1 DEF Take, Taken, NoLongerPrompted, StreamStep
  <2>4. CASE /\ s = "CONTROL_PENDING" /\ ~prompted /\ inbound' = Tail(inbound)
             /\ prompted' = TRUE /\ at' = "confirm" /\ subscribed' = subscribed
    <3>1. Head(inbound) = Asking /\ Head(inbound) \notin Ending
      BY <2>1, <2>4 DEF Asking, Ending, SessionEvent, StreamError, TerminalStates
    <3>. QED  BY <1>1, <2>4, <3>1 DEF Taken, StreamStep
  <2>5. CASE /\ s \notin EndOfSession \cup {"VIEW_ACTIVE"}
             /\ s = "CONTROL_PENDING" => prompted
             /\ Take /\ UNCHANGED local
    <3>1. Head(inbound) # Viewing /\ Head(inbound) \notin Ending
      BY <2>1, <2>5 DEF Viewing, Ending, SessionEvent, StreamError, TerminalStates, EndOfSession
    <3>2. Head(inbound) = Asking => prompted
      BY <1>2, <2>5
    <3>. QED  BY <1>4, <2>5, <3>1, <3>2 DEF local
  <2>. QED  BY <1>7, <2>2, <2>3, <2>4, <2>5, Zenon DEF HandleSession
<1>. QED  BY <1>5, <1>6, <1>7 DEF Loop

LEMMA EveryStreamSteps ==
  ASSUME TypeOK, AgentInv, [Next]_vars
  PROVE  StreamStep
<1>1. CASE Killed
  BY <1>1 DEF Killed, Exit, PortalRests, Gone, StreamStep
<1>2. \/ Handle \/ Lose \/ FailStream \/ CloseStream
      \/ \/ AskView \/ AskControl
         \/ \E move \in BrowserMoves : BrowserHostActs(move)
         \/ \E events \in Batch : SendBatch(events)
         \/ \E signal \in Signals : SendSignal(signal)
         \/ SessionEnds
      \/ Start \/ Share \/ Capture \/ Subscribe \/ StartSender \/ ViewApproved \/ Ended
      \/ \/ Confirm \/ Dialog \/ ControlApproved \/ ControlDenied
         \/ RelaySignal \/ SignalRelayed \/ PipelineSignals \/ UNCHANGED vars
      \/ Loop \/ Killed
  BY DEF Next, LocalUser, Agent
<1>. QED  BY <1>1, <1>2, StreamAtPortal, StreamAmongOthers, StreamOfPreparation,
             StreamOfControl, StreamOfLoop

-----------------------------------------------------------------------------
(* The stream as a sequence.                                               *)

LEMMA Stream ==
  ASSUME TypeOK
  PROVE  inbound \in Seq(Event) /\ Len(inbound) \in Nat
BY DEF TypeOK

LEMMA AppendedTo ==
  ASSUME TypeOK, NEW e, inbound' = Append(inbound, e)
  PROVE  /\ Len(inbound') = Len(inbound) + 1
         /\ \A i \in 1 .. Len(inbound) : inbound'[i] = inbound[i]
         /\ inbound'[Len(inbound) + 1] = e
BY Stream

LEMMA TakenFrom ==
  ASSUME TypeOK, inbound # <<>>, inbound' = Tail(inbound)
  PROVE  /\ Len(inbound) \in Nat \ {0}
         /\ Head(inbound) = inbound[1]
         /\ Len(inbound') = Len(inbound) - 1
         /\ \A i \in 1 .. Len(inbound') : inbound'[i] = inbound[i + 1]
BY Stream

LEMMA Notices ==
  /\ Viewing' = Viewing /\ Asking' = Asking /\ Ending' = Ending
  /\ Viewing # Asking /\ Viewing \notin Ending /\ Asking \notin Ending
  /\ Asking.kind = "session" /\ Viewing.kind = "session"
  /\ \A e \in Ending : e.kind \in {"session", "error"}
  /\ \A s : SessionEvent(s).kind = "session" /\ SessionEvent(s).state = s
  /\ \A s : SessionEvent(s) \in Ending <=> s \in TerminalStates
  /\ \A s : SessionEvent(s) = Asking <=> s = "CONTROL_PENDING"
  /\ \A s : SessionEvent(s) = Viewing <=> s = "VIEW_ACTIVE"
  /\ StreamError \in Ending /\ StreamError.kind = "error"
BY DEF Viewing, Asking, Ending, SessionEvent, StreamError, TerminalStates

-----------------------------------------------------------------------------
(* The end of the session.                                                 *)

(* The agent that still listens is subscribed to a live session, or has    *)
(* the end in its stream, if no stream ends without an error; and no end   *)
(* is in the stream of a live session.                                     *)
EndInv ==
  /\ subscribed => state \in LiveStates
  /\ "closed" \notin Faults /\ Listening => subscribed \/ EndQueued
  /\ \A i \in 1 .. Len(inbound) :
       inbound[i] \in Ending \ {StreamError} => state \in TerminalStates

LEMMA EndInitially == Init => EndInv
BY DEF Init, EndInv, Listening, Serving

LEMMA EndIsKept ==
  ASSUME TypeOK, EndInv, StreamStep
  PROVE  EndInv'
<1>1. LiveStates \cap TerminalStates = {} /\ StreamError' = StreamError
  BY States DEF StreamError
<1>2. CASE Silent
  BY <1>1, <1>2, Notices DEF Silent, EndInv, EndQueued
<1>3. CASE Gone
  <2>1. ~Listening' /\ Len(inbound') = 0
    BY <1>3 DEF Gone, Listening, Serving
  <2>. QED  BY <1>3, <2>1 DEF Gone, EndInv
<1>4. CASE Snapshot
  <2>1. Len(inbound') = 1 /\ inbound'[1] = SessionEvent(state)
    BY <1>4 DEF Snapshot
  <2>2. ~(inbound'[1] \in Ending)
    BY <1>1, <1>4, <2>1, Notices DEF Snapshot
  <2>. QED  BY <1>4, <2>1, <2>2, Notices DEF Snapshot, EndInv
<1>5. CASE Broken
  <2>1. EndQueued'
    BY <1>5, AppendedTo, Stream, Notices DEF Broken, EndQueued
  <2>2. \A i \in 1 .. Len(inbound') :
          inbound'[i] = StreamError \/ (i \in 1 .. Len(inbound) /\ inbound'[i] = inbound[i])
    BY <1>5, AppendedTo, Stream DEF Broken
  <2>. QED  BY <1>1, <1>5, <2>1, <2>2, Notices DEF Broken, EndInv
<1>6. CASE Taken
  <2>1. /\ inbound # <<>> /\ inbound' = Tail(inbound) /\ Head(inbound) \notin Ending
        /\ UNCHANGED <<state, subscribed>> /\ at = "loop"
    BY <1>6 DEF Taken
  <2>2. EndQueued => EndQueued'
    <3>1. SUFFICES ASSUME NEW i \in 1 .. Len(inbound), inbound[i] \in Ending
                   PROVE  EndQueued'
      BY DEF EndQueued
    <3>2. i # 1
      BY <2>1, <3>1, TakenFrom
    <3>3. i - 1 \in 1 .. Len(inbound') /\ inbound'[i - 1] = inbound[i]
      BY <2>1, <3>2, TakenFrom
    <3>. QED  BY <3>1, <3>3, Notices DEF EndQueued
  <2>3. \A i \in 1 .. Len(inbound') : i + 1 \in 1 .. Len(inbound) /\ inbound'[i] = inbound[i + 1]
    BY <2>1, TakenFrom
  <2>4. Listening
    BY <2>1 DEF Listening, Serving
  <2>. QED  BY <1>1, <2>1, <2>2, <2>3, <2>4, Notices DEF EndInv
<1>7. ASSUME NEW s \in LiveStates \cup TerminalStates, Published(s)
      PROVE  EndInv'
  <2>1. /\ state' = s /\ state \in LiveStates /\ (Listening' => Listening)
        /\ subscribed' <=> subscribed /\ s \in LiveStates
    BY <1>7 DEF Published, Becomes
  <2>2. \A i \in 1 .. Len(inbound) : ~(inbound[i] \in Ending \ {StreamError})
    BY <1>1, <2>1 DEF EndInv
  <2>3. CASE subscribed
    <3>1. inbound' = Append(inbound, SessionEvent(s))
      BY <1>7, <2>3 DEF Published, Becomes, Written
    <3>2. \A i \in 1 .. Len(inbound') :
            inbound'[i] = SessionEvent(s) \/ (i \in 1 .. Len(inbound) /\ inbound'[i] = inbound[i])
      BY <3>1, AppendedTo, Stream
    <3>3. Len(inbound) + 1 \in 1 .. Len(inbound') /\ inbound'[Len(inbound) + 1] = SessionEvent(s)
      BY <3>1, AppendedTo, Stream
    <3>4. subscribed' \/ EndQueued'
      BY <2>1, <2>3, <3>3, Notices DEF EndQueued
    <3>. QED  BY <1>1, <2>1, <2>2, <3>2, <3>4, Notices DEF EndInv
  <2>4. CASE ~subscribed
    <3>1. inbound' = inbound
      BY <1>7, <2>4 DEF Published, Becomes, Written
    <3>. QED  BY <1>1, <2>1, <2>2, <2>4, <3>1, Notices DEF EndInv, EndQueued
  <2>. QED  BY <2>3, <2>4
<1>8. CASE Closed
  BY <1>8, Notices DEF Closed, EndInv
<1>9. ASSUME NEW e, Relayed(e)
      PROVE  EndInv'
  <2>1. /\ inbound' = Append(inbound, e) /\ e \notin Ending
        /\ UNCHANGED <<state, subscribed>> /\ (Listening' => Listening)
    BY <1>9, Notices DEF Relayed, Listening
  <2>2. \A i \in 1 .. Len(inbound') :
          inbound'[i] = e \/ (i \in 1 .. Len(inbound) /\ inbound'[i] = inbound[i])
    BY <2>1, AppendedTo, Stream
  <2>3. EndQueued => EndQueued'
    BY <2>1, AppendedTo, Stream, Notices DEF EndQueued
  <2>. QED  BY <1>1, <2>1, <2>2, <2>3, Notices DEF EndInv
<1>. QED  BY <1>2, <1>3, <1>4, <1>5, <1>6, <1>7, <1>8, <1>9 DEF StreamStep

LEMMA EndAlways == Spec => []EndInv
<1>1. TypeOK /\ AgentInv /\ EndInv /\ [Next]_vars => EndInv'
  BY EveryStreamSteps, EndIsKept
<1>. QED  BY <1>1, EndInitially, AgentTypes, AgentAlways, PTL DEF Spec

(* Where a stream that breaks off is an error to the agent, the end of the *)
(* session or that error reaches it, whatever it was doing when it came:   *)
(* preparing the capture, waiting for its user, in a call, or behind other *)
(* events.  It is not so of a stream that ends without an error before the *)
(* session does: the agent takes no notice, and shares for as long as its  *)
(* process lives.                                                          *)
THEOREM EndsAreHeard ==
  ASSUME "closed" \notin Faults
  PROVE  Spec => []NoEndOverlooked
<1>1. EndInv => NoEndOverlooked
  BY States DEF EndInv, NoEndOverlooked, Listening, Serving
<1>. QED  BY <1>1, EndAlways, PTL

(* An agent that was not killed leaves no live session behind without      *)
(* having asked the portal to end it.                                      *)
THEOREM LeavesNothingLive == Spec => LeavesOnlyWhatEnded
<1>1. TypeOK /\ AgentInv /\ EndInv /\ [Next]_vars =>
        [(at = "loop" /\ at' = "exited") => state \in TerminalStates \/ Killed]_vars
  <2>. SUFFICES ASSUME TypeOK, AgentInv, EndInv, [Next]_vars, at = "loop", at' = "exited"
                PROVE  state \in TerminalStates \/ Killed
    OBVIOUS
  <2>1. CASE Gone
    <3>1. CASE inbound # <<>> /\ Head(inbound) \in Ending \ {StreamError}
      <4>1. 1 \in 1 .. Len(inbound) /\ Head(inbound) = inbound[1]
        BY <3>1, Stream
      <4>. QED  BY <3>1, <4>1 DEF EndInv
    <3>. QED  BY <2>1, <3>1 DEF Gone
  <2>2. CASE ~Gone
    BY <2>2, EveryStreamSteps
    DEF StreamStep, Silent, Snapshot, Broken, Closed, Taken, Published, Relayed
  <2>. QED  BY <2>1, <2>2
<1>. QED  BY <1>1, EndAlways, AgentTypes, AgentAlways, PTL DEF Spec, LeavesOnlyWhatEnded

-----------------------------------------------------------------------------
(* The requests for control.                                               *)

(* The prompts: the last one, at 0, that no withdrawal has followed yet,   *)
(* and those to come.                                                      *)
Prompt(i) == IF i = 0 THEN prompted ELSE inbound[i] = Asking

ViewingIn(i, k) == \E j \in i + 1 .. k : inbound[j] = Viewing

(* Between a request and the next one the control was withdrawn, and the   *)
(* agent is told of that first.                                            *)
PromptInv ==
  /\ \A i \in 0 .. Len(inbound), k \in 1 .. Len(inbound) :
       i < k /\ Prompt(i) /\ Prompt(k) => ViewingIn(i, k)
  /\ subscribed /\ state = "VIEW_ACTIVE" =>
       \A i \in 0 .. Len(inbound) : Prompt(i) => ViewingIn(i, Len(inbound))
  /\ Early => ~prompted

LEMMA PromptInitially == Init => PromptInv
BY DEF Init, PromptInv, Prompt

(* An event is written behind the others.                                  *)
LEMMA PromptOfWritten ==
  ASSUME TypeOK, PromptInv, NEW e, inbound' = Append(inbound, e),
         UNCHANGED <<at, prompted>>,
         e = Asking => subscribed /\ state = "VIEW_ACTIVE",
         subscribed' /\ state' = "VIEW_ACTIVE" =>
           e = Viewing \/ (subscribed /\ state = "VIEW_ACTIVE" /\ e # Asking)
  PROVE  PromptInv'
<1>1. /\ Len(inbound) \in Nat /\ Len(inbound') = Len(inbound) + 1
      /\ \A i \in 1 .. Len(inbound) : inbound'[i] = inbound[i]
      /\ inbound'[Len(inbound) + 1] = e
  BY AppendedTo, Stream
<1>2. ASSUME NEW i \in 0 .. Len(inbound)
      PROVE  Prompt(i)' <=> Prompt(i)
  BY <1>1, <1>2, Notices DEF Prompt
<1>3. ASSUME NEW i \in 0 .. Len(inbound), NEW k \in 0 .. Len(inbound), ViewingIn(i, k),
             NEW m \in k .. Len(inbound')
      PROVE  ViewingIn(i, m)'
  <2>1. PICK j \in i + 1 .. k : inbound[j] = Viewing
    BY <1>3 DEF ViewingIn
  <2>2. j \in 1 .. Len(inbound) /\ j \in i + 1 .. m
    BY <1>1, <1>3
  <2>. QED  BY <1>1, <2>1, <2>2, Notices DEF ViewingIn
<1>4. ASSUME NEW i \in 0 .. Len(inbound'), NEW k \in 1 .. Len(inbound'),
             i < k, Prompt(i)', Prompt(k)'
      PROVE  ViewingIn(i, k)'
  <2>1. i \in 0 .. Len(inbound) /\ Prompt(i)
    BY <1>1, <1>2, <1>4
  <2>2. CASE k \in 1 .. Len(inbound)
    <3>1. Prompt(k) /\ k \in 0 .. Len(inbound)
      BY <1>1, <1>2, <1>4, <2>2
    <3>2. ViewingIn(i, k)
      BY <1>4, <2>1, <2>2, <3>1 DEF PromptInv
    <3>. QED  BY <1>1, <1>3, <1>4, <2>1, <3>1, <3>2
  <2>3. CASE k = Len(inbound) + 1
    <3>1. e = Asking
      BY <1>1, <1>4, <2>3, Notices DEF Prompt
    <3>2. ViewingIn(i, Len(inbound))
      BY <2>1, <3>1 DEF PromptInv
    <3>3. Len(inbound) \in 0 .. Len(inbound) /\ k \in Len(inbound) .. Len(inbound')
      BY <1>1, <2>3
    <3>. QED  BY <1>3, <2>1, <3>2, <3>3
  <2>. QED  BY <1>1, <2>2, <2>3
<1>5. ASSUME subscribed', state' = "VIEW_ACTIVE", NEW i \in 0 .. Len(inbound'), Prompt(i)'
      PROVE  ViewingIn(i, Len(inbound))'
  <2>1. CASE e = Viewing
    <3>1. i # Len(inbound) + 1
      BY <1>1, <1>5, <2>1, Notices DEF Prompt
    <3>2. Len(inbound) + 1 \in i + 1 .. Len(inbound')
      BY <1>1, <3>1
    <3>. QED  BY <1>1, <2>1, <3>2, Notices DEF ViewingIn
  <2>2. CASE subscribed /\ state = "VIEW_ACTIVE" /\ e # Asking
    <3>1. i \in 0 .. Len(inbound)
      BY <1>1, <1>5, <2>2, Notices DEF Prompt
    <3>2. ViewingIn(i, Len(inbound))
      BY <1>2, <1>5, <2>2, <3>1 DEF PromptInv
    <3>3. PICK n \in Nat : n = Len(inbound')
      BY <1>1
    <3>4. Len(inbound) \in 0 .. Len(inbound) /\ n \in Len(inbound) .. Len(inbound')
      BY <1>1, <3>3
    <3>5. ViewingIn(i, n)'
      BY <1>3, <3>1, <3>2, <3>4
    <3>. QED  BY <3>3, <3>5 DEF ViewingIn
  <2>. QED  BY <1>5, <2>1, <2>2
<1>6. Early' => ~prompted'
  BY DEF PromptInv, Early
<1>. QED  BY <1>4, <1>5, <1>6 DEF PromptInv

(* The first event is taken.  What was prompted for since stays so, unless *)
(* what is taken is the withdrawal.                                        *)
LEMMA PromptOfTaken ==
  ASSUME TypeOK, PromptInv, Taken
  PROVE  PromptInv'
<1>1. /\ Len(inbound) \in Nat \ {0} /\ Len(inbound') = Len(inbound) - 1
      /\ Head(inbound) = inbound[1]
      /\ \A i \in 1 .. Len(inbound') : inbound'[i] = inbound[i + 1]
      /\ UNCHANGED <<state, subscribed>>
  BY TakenFrom DEF Taken
<1>2. ~Early'
  BY DEF Taken, Early, Preparing
<1>3. ASSUME NEW i \in 0 .. Len(inbound'), NEW m \in 0 .. Len(inbound'),
             \/ ViewingIn(i + 1, m + 1)
             \/ i = 0 /\ ViewingIn(0, m + 1) /\ Head(inbound) # Viewing
      PROVE  ViewingIn(i, m)'
  <2>1. PICK j \in 1 .. m + 1 : inbound[j] = Viewing /\ j - 1 \in i + 1 .. m
    <3>1. CASE ViewingIn(i + 1, m + 1)
      BY <1>1, <3>1 DEF ViewingIn
    <3>2. CASE i = 0 /\ ViewingIn(0, m + 1) /\ Head(inbound) # Viewing
      <4>1. PICK j \in 1 .. m + 1 : inbound[j] = Viewing
        BY <3>2 DEF ViewingIn
      <4>2. j # 1
        BY <1>1, <3>2, <4>1
      <4>. QED  BY <3>2, <4>1, <4>2
    <3>. QED  BY <1>3, <3>1, <3>2
  <2>2. inbound'[j - 1] = Viewing
    BY <1>1, <2>1
  <2>. QED  BY <2>1, <2>2, Notices DEF ViewingIn
<1>4. ASSUME NEW i \in 0 .. Len(inbound'), Prompt(i)'
      PROVE  Prompt(i + 1) \/ (i = 0 /\ Prompt(0) /\ Head(inbound) # Viewing)
  <2>1. CASE i = 0
    <3>1. prompted'
      BY <1>4, <2>1 DEF Prompt
    <3>2. (prompted /\ Head(inbound) # Viewing) \/ Head(inbound) = Asking
      BY <3>1 DEF Taken
    <3>. QED  BY <1>1, <2>1, <3>2 DEF Prompt
  <2>2. CASE i # 0
    BY <1>1, <1>4, <2>2, Notices DEF Prompt
  <2>. QED  BY <2>1, <2>2
<1>5. ASSUME NEW i \in 0 .. Len(inbound'), NEW k \in 1 .. Len(inbound'),
             i < k, Prompt(i)', Prompt(k)'
      PROVE  ViewingIn(i, k)'
  <2>1. /\ k \in 0 .. Len(inbound') /\ k + 1 \in 1 .. Len(inbound) /\ i + 1 < k + 1 /\ k # 0
        /\ i + 1 \in 0 .. Len(inbound) /\ 0 \in 0 .. Len(inbound) /\ 0 < k + 1
    BY <1>1, <1>5
  <2>2. Prompt(k + 1)
    BY <1>4, <1>5, <2>1
  <2>3. CASE Prompt(i + 1)
    <3>1. ViewingIn(i + 1, k + 1)
      BY <2>1, <2>2, <2>3 DEF PromptInv
    <3>. QED  BY <1>3, <2>1, <3>1
  <2>4. CASE i = 0 /\ Prompt(0) /\ Head(inbound) # Viewing
    <3>1. ViewingIn(0, k + 1)
      BY <2>1, <2>2, <2>4 DEF PromptInv
    <3>. QED  BY <1>3, <2>1, <2>4, <3>1
  <2>. QED  BY <1>4, <1>5, <2>3, <2>4
<1>6. ASSUME subscribed, state = "VIEW_ACTIVE", NEW i \in 0 .. Len(inbound'), Prompt(i)'
      PROVE  ViewingIn(i, Len(inbound))'
  <2>1. PICK n \in 0 .. Len(inbound') : n = Len(inbound') /\ n + 1 = Len(inbound)
    BY <1>1
  <2>2. i + 1 \in 0 .. Len(inbound) /\ 0 \in 0 .. Len(inbound)
    BY <1>1
  <2>3. CASE Prompt(i + 1)
    <3>1. ViewingIn(i + 1, n + 1)
      BY <1>6, <2>1, <2>2, <2>3 DEF PromptInv
    <3>2. ViewingIn(i, n)'
      BY <1>3, <3>1
    <3>. QED  BY <2>1, <3>2 DEF ViewingIn
  <2>4. CASE i = 0 /\ Prompt(0) /\ Head(inbound) # Viewing
    <3>1. ViewingIn(0, n + 1)
      BY <1>6, <2>1, <2>2, <2>4 DEF PromptInv
    <3>2. ViewingIn(i, n)'
      BY <1>3, <2>4, <3>1
    <3>. QED  BY <2>1, <3>2 DEF ViewingIn
  <2>. QED  BY <1>4, <1>6, <2>3, <2>4
<1>. QED  BY <1>1, <1>2, <1>5, <1>6 DEF PromptInv

LEMMA PromptIsKept ==
  ASSUME TypeOK, PromptInv, StreamStep
  PROVE  PromptInv'
<1>1. CASE Silent
  <2>1. UNCHANGED <<state, inbound, subscribed, prompted>> /\ (Early' => Early)
    BY <1>1 DEF Silent
  <2>. QED  BY <2>1, Notices DEF PromptInv, Prompt, ViewingIn
<1>2. CASE Gone
  <2>1. Len(inbound') = 0 /\ ~subscribed' /\ ~Early'
    BY <1>2 DEF Gone, Early, Preparing
  <2>. QED  BY <2>1 DEF PromptInv
<1>3. CASE Snapshot
  <2>1. /\ Len(inbound') = 1 /\ inbound'[1] = SessionEvent(state)
        /\ state' = state /\ ~prompted'
    <3>1. Early /\ prompted' = prompted
      BY <1>3 DEF Snapshot, Early, Preparing
    <3>. QED  BY <1>3, <3>1 DEF Snapshot, PromptInv
  <2>2. ~Prompt(0)'
    BY <2>1 DEF Prompt
  <2>3. state = "VIEW_ACTIVE" => ~Prompt(1)'
    BY <2>1, Notices DEF Prompt
  <2>. QED  BY <2>1, <2>2, <2>3 DEF PromptInv
<1>4. CASE Broken
  BY <1>4, PromptOfWritten, Notices DEF Broken
<1>5. CASE Taken
  BY <1>5, PromptOfTaken
<1>6. ASSUME NEW s \in LiveStates \cup TerminalStates, Published(s)
      PROVE  PromptInv'
  <2>1. /\ state' = s /\ (s = "CONTROL_PENDING" => state = "VIEW_ACTIVE")
        /\ subscribed' <=> subscribed /\ s \in LiveStates
        /\ UNCHANGED <<at, prompted>>
    BY <1>6 DEF Published, Becomes
  <2>2. CASE subscribed
    <3>1. inbound' = Append(inbound, SessionEvent(s))
      BY <1>6, <2>2 DEF Published, Becomes, Written
    <3>. QED  BY <2>1, <2>2, <3>1, PromptOfWritten, Notices
  <2>3. CASE ~subscribed
    <3>1. inbound' = inbound
      BY <1>6, <2>3 DEF Published, Becomes, Written
    <3>. QED  BY <2>1, <2>3, <3>1, Notices DEF PromptInv, Prompt, ViewingIn, Early
  <2>. QED  BY <2>2, <2>3
<1>7. ASSUME NEW e, Relayed(e)
      PROVE  PromptInv'
  <2>1. e # Asking
    BY <1>7, Notices DEF Relayed
  <2>. QED  BY <1>7, <2>1, PromptOfWritten DEF Relayed
<1>8. CASE Closed
  BY <1>8, Notices DEF Closed, PromptInv, Prompt, ViewingIn, Early
<1>. QED  BY <1>1, <1>2, <1>3, <1>4, <1>5, <1>6, <1>7, <1>8 DEF StreamStep

LEMMA PromptAlways == Spec => []PromptInv
<1>1. TypeOK /\ AgentInv /\ PromptInv /\ [Next]_vars => PromptInv'
  BY EveryStreamSteps, PromptIsKept
<1>. QED  BY <1>1, PromptInitially, AgentTypes, AgentAlways, PTL DEF Spec

(* No request for control is taken for the one before it: the user is      *)
(* prompted again for each, among any number of requests, refusals,        *)
(* revocations and answers that were lost.                                 *)
THEOREM RequestsPrompt == Spec => []EveryRequestPrompts
<1>1. TypeOK /\ PromptInv => EveryRequestPrompts
  <2>. SUFFICES ASSUME TypeOK, PromptInv, inbound # <<>>, Head(inbound) = Asking, prompted
                PROVE  FALSE
    BY DEF EveryRequestPrompts, Arrived
  <2>1. 1 \in 1 .. Len(inbound) /\ 0 \in 0 .. Len(inbound) /\ Head(inbound) = inbound[1]
    BY Stream
  <2>2. Prompt(0) /\ Prompt(1)
    BY <2>1 DEF Prompt
  <2>3. ViewingIn(0, 1)
    BY <2>1, <2>2 DEF PromptInv
  <2>. QED  BY <2>1, <2>3, Notices DEF ViewingIn
<1>. QED  BY <1>1, PromptAlways, AgentTypes, PTL

(* A pending request is in the stream or in hand.                          *)
PendingInv ==
  (subscribed /\ state = "CONTROL_PENDING" /\ at # "end") => RequestQueued \/ InHand

LEMMA PendingInitially == Init => PendingInv
BY DEF Init, PendingInv

LEMMA PendingIsKept ==
  ASSUME "request" \notin Faults, TypeOK, AgentInv, PromptInv, PendingInv, [Next]_vars
  PROVE  PendingInv'
<1>. SUFFICES ASSUME subscribed', state' = "CONTROL_PENDING", at' # "end"
              PROVE  RequestQueued' \/ InHand'
  BY DEF PendingInv
<1>1. StreamStep
  BY EveryStreamSteps
<1>2. CASE Silent
  <2>1. /\ UNCHANGED <<state, inbound, subscribed>>
        /\ InHand /\ state = "CONTROL_PENDING" => InHand'
    BY <1>2 DEF Silent
  <2>2. at # "end"
    BY <1>2 DEF Silent
  <2>. QED  BY <2>1, <2>2, Notices DEF PendingInv, RequestQueued
<1>3. ~Gone /\ ~Broken /\ ~Closed
  BY DEF Gone, Broken, Closed
<1>4. CASE Snapshot
  <2>1. 1 \in 1 .. Len(inbound') /\ inbound'[1] = Asking
    BY <1>4, Notices DEF Snapshot
  <2>. QED  BY <2>1, Notices DEF RequestQueued
<1>5. CASE Taken
  <2>1. /\ UNCHANGED <<state, subscribed>> /\ at = "loop"
        /\ inbound # <<>> /\ inbound' = Tail(inbound)
    BY <1>5 DEF Taken
  <2>2. CASE at' = "confirm"
    BY <2>2 DEF InHand
  <2>3. CASE at' # "confirm"
    <3>1. PICK i \in 1 .. Len(inbound) : inbound[i] = Asking
      BY <2>1 DEF PendingInv, RequestQueued, InHand
    <3>2. Head(inbound) # Asking
      <4>1. Head(inbound) = Asking => prompted
        BY <1>5, <2>3, Notices DEF Taken
      <4>2. 1 \in 1 .. Len(inbound) /\ 0 \in 0 .. Len(inbound) /\ Head(inbound) = inbound[1]
        BY <2>1, TakenFrom
      <4>3. ASSUME Prompt(0), Prompt(1) PROVE FALSE
        <5>1. ViewingIn(0, 1)
          BY <4>2, <4>3 DEF PromptInv
        <5>. QED  BY <4>2, <4>3, <5>1, Notices DEF ViewingIn, Prompt
      <4>. QED  BY <4>1, <4>2, <4>3 DEF Prompt
    <3>3. i # 1
      BY <2>1, <3>1, <3>2, TakenFrom
    <3>4. i - 1 \in 1 .. Len(inbound') /\ inbound'[i - 1] = inbound[i]
      BY <2>1, <3>3, TakenFrom
    <3>. QED  BY <3>1, <3>4, Notices DEF RequestQueued
  <2>. QED  BY <2>2, <2>3
<1>6. ASSUME NEW s \in LiveStates \cup TerminalStates, Published(s)
      PROVE  RequestQueued'
  <2>1. s = "CONTROL_PENDING" /\ subscribed
    BY <1>6 DEF Published, Becomes
  <2>2. inbound' = Append(inbound, SessionEvent(s))
    BY <1>6, <2>1 DEF Published, Becomes, Written
  <2>3. Len(inbound) + 1 \in 1 .. Len(inbound') /\ inbound'[Len(inbound) + 1] = Asking
    BY <2>1, <2>2, AppendedTo, Stream, Notices
  <2>. QED  BY <2>3, Notices DEF RequestQueued
<1>7. ASSUME NEW e, Relayed(e)
      PROVE  RequestQueued' \/ InHand'
  <2>1. RequestQueued \/ InHand
    BY <1>7 DEF Relayed, PendingInv
  <2>2. InHand' <=> InHand
    BY <1>7 DEF Relayed, InHand
  <2>3. RequestQueued => RequestQueued'
    BY <1>7, AppendedTo, Stream, Notices DEF Relayed, RequestQueued
  <2>. QED  BY <2>1, <2>2, <2>3
<1>. QED  BY <1>1, <1>2, <1>3, <1>4, <1>5, <1>6, <1>7 DEF StreamStep

(* Where no call of the agent is lost on its way, no request for control   *)
(* is left pending by an agent that has taken every event of a stream that *)
(* is still open.  The answers may be lost and the process may be killed.  *)
THEOREM RequestsAreInHand ==
  ASSUME "request" \notin Faults
  PROVE  Spec => []NoRequestForgotten
<1>1. TypeOK /\ AgentInv /\ PromptInv /\ PendingInv /\ [Next]_vars => PendingInv'
  BY PendingIsKept
<1>2. PendingInv => NoRequestForgotten
  BY DEF PendingInv, NoRequestForgotten, InHand
<1>. QED  BY <1>1, <1>2, PendingInitially, PromptAlways, AgentTypes, AgentAlways, PTL DEF Spec
=============================================================================
