------------------------------ MODULE LinuxHost ------------------------------
(***************************************************************************)
(* The Linux host agent, main.rs, and one session of the portal as the     *)
(* agent meets it: the HTTP calls that it awaits one at a time and the     *)
(* event stream, which queues while it does.  The session's other          *)
(* participants are the operator and the browser page that joined the code *)
(* and passed its credentials on to the agent.                             *)
(*                                                                         *)
(* The agent is one task.  "at" is where it waits: at a prompt, for the    *)
(* desktop, for the answer of a call, or in its select loop.  A call is    *)
(* sent, answered or failed; its handler at the portal is one step, as in  *)
(* Portal.  Only the media pipeline runs beside the task.                  *)
(***************************************************************************)
EXTENDS SessionStates, LinuxDesktop, InputController

CONSTANTS
  Environments,   (* environments that the agent may be started in         *)
  Batch,          (* sequences of input events that the operator may send  *)
  Signals,        (* kinds of signals that the operator may send           *)
  BrowserMoves,   (* host actions that the browser page takes              *)
  Faults,         (* what may go wrong, see FaultsAssumption               *)
  TurnUrls,       (* the TURN URLs that the portal is configured with      *)
  MAX_ASKS,       (* bound of the model: control requests in the session   *)
  MAX_BATCHES,    (* bound of the model: input batches in the session      *)
  MAX_INBOUND,    (* bound of the model: events waiting for the agent      *)
  MAX_OUTBOUND    (* bound of the model: local signals waiting to be sent  *)

(* What native_turn_uri looks at; a URL with another scheme, or without a  *)
(* host, is refused.                                                       *)
TurnUrl == [scheme : {"turn", "turns", "other"}, host : BOOLEAN]

(* handle_signal tells these apart: an answer is ignored, an offer or a    *)
(* candidate without its fields is an error.                               *)
SignalKind == {"offer", "candidate", "answer", "malformed"}

ASSUME FaultsAssumption ==
  Faults \subseteq {"request",   \* a call does not reach the portal in time
                    "reply",     \* its answer does not reach the agent in time
                    "stream",    \* the event stream fails
                    "closed",    \* the event stream ends as if it were complete
                    "display",   \* the connection that injects input fails
                    "clock",     \* the clock of the host is ahead of the portal's
                    "killed"}    \* a signal ends the process
ASSUME ParticipantsAssumption ==
  /\ Environments \subseteq Environment
  /\ BrowserMoves \subseteq HostActions
  /\ Batch \subseteq Seq(InputEvent)
  /\ Signals \subseteq SignalKind
  /\ TurnUrls \subseteq TurnUrl
ASSUME BoundsAssumption ==
  /\ MAX_ASKS \in Nat /\ MAX_BATCHES \in Nat
  /\ MAX_INBOUND \in Nat /\ MAX_OUTBOUND \in Nat

VARIABLES
  state,        (* the session's state at the portal                       *)
  asks,         (* control requests so far: numbers the grants of control  *)
  batches,      (* input batches so far: the operator's next sequence      *)
  subscribed,   (* the portal holds the agent's event stream               *)
  inbound,      (* events on that stream that the agent has not taken      *)
  call,         (* the call that the agent awaits                          *)
  at,           (* where the agent is                                      *)
  env,          (* the environment that it was started in                  *)
  step,         (* calls of the desktop portal answered so far             *)
  picked,       (* a PortalCapture is held                                 *)
  approval,     (* LocalApprovalState                                      *)
  prompted,     (* control_prompted                                        *)
  controller,   (* an input controller is held                             *)
  lastSequence, (* the controller's last_sequence                          *)
  held,         (* external: keys and buttons that it holds down           *)
  heldGrant,    (* history: the grant of control the controller is for     *)
  lost,         (* the controller's connection to an X server has failed   *)
  sender,       (* the media pipeline                                      *)
  relay,        (* TURN servers were given to it                           *)
  negotiated,   (* it has been given an offer                              *)
  outbound      (* signals of the pipeline waiting to be sent              *)

portal == <<state, asks, batches, subscribed>>
desktop == <<env, step, picked>>
input == <<controller, lastSequence, held, heldGrant, lost>>
local == <<approval, prompted, input>>
media == <<sender, relay, negotiated, outbound>>
vars == <<portal, inbound, call, at, desktop, local, media>>

Path == DisplayPath(env)

-----------------------------------------------------------------------------
(* Events and calls.                                                       *)

SessionEvent(s) == [kind |-> "session", state |-> s]
InputEnvelope(sequence, events, grant) ==
  [kind |-> "input", sequence |-> sequence, events |-> events, grant |-> grant]
SignalEnvelope(signal) == [kind |-> "signal", signal |-> signal]
StreamError == [kind |-> "error"]

NoCall == [action |-> "none", status |-> "none", grant |-> 0]

Action == {"event-token", "events", "ice-config", "approve-view", "signal",
           "approve-control", "deny-control", "end"}

(* The agent sends a request and waits for its answer.                     *)
Request(action) ==
  /\ call' = [action |-> action, status |-> "sent", grant |-> 0]
  /\ at' = action

Answered(action) == at = action /\ call.status \in {"ok", "failed"}

Ok == call.status = "ok"

Live == state \in LiveStates
Over == state \in TerminalStates

-----------------------------------------------------------------------------
(* The portal's side, as in Portal.                                        *)

Written(queue, event) == IF subscribed THEN Append(queue, event) ELSE queue

(* A transition, published to the agent.  The end closes the stream.       *)
Becomes(s) ==
  /\ state' = s
  /\ inbound' = Written(inbound, SessionEvent(s))
  /\ subscribed' = (subscribed /\ s \in LiveStates)

Accepted(action) ==
  CASE action = "event-token" -> Live
    [] action = "events" -> Live
    [] action = "ice-config" -> TurnUrls # {} /\ state \in SharingStates
    [] action = "approve-view" -> state \in ApproveView.from
    [] action = "approve-control" -> state \in ApproveControl.from
    [] action = "deny-control" -> state \in DenyControl.from
    [] action = "signal" -> state \in SharingStates
    [] action = "end" -> Live

Effect(action) ==
  CASE action = "approve-view" -> Becomes(ApproveView.to)
    [] action = "approve-control" -> Becomes(ApproveControl.to)
    [] action = "deny-control" -> Becomes(DenyControl.to)
    [] action = "end" -> Becomes("ENDED")
    [] action = "events" ->
         /\ subscribed' = TRUE
         /\ inbound' = <<SessionEvent(state)>>
         /\ UNCHANGED state
    [] OTHER -> UNCHANGED <<state, inbound, subscribed>>

Answer(status) ==
  /\ call' = [call EXCEPT !.status = status, !.grant = asks]
  /\ UNCHANGED <<asks, batches, at, desktop, local, media>>

(* The portal handles the call.  The answer may be lost on its way back.   *)
Handle ==
  /\ call.status = "sent"
  /\ IF Accepted(call.action)
     THEN /\ Effect(call.action)
          /\ \/ Answer("ok")
             \/ "reply" \in Faults /\ Answer("failed")
     ELSE Answer("failed") /\ UNCHANGED <<state, inbound, subscribed>>

(* The call does not reach the portal within the timeout of the client.    *)
Lose ==
  /\ "request" \in Faults
  /\ call.status = "sent"
  /\ Answer("failed")
  /\ UNCHANGED <<state, inbound, subscribed>>

(* The stream fails: the request that opened it is subject to the 15 s     *)
(* timeout of the client until its body ends, whatever the portal writes.  *)
FailStream ==
  /\ "stream" \in Faults
  /\ subscribed
  /\ subscribed' = FALSE
  /\ inbound' = Append(inbound, StreamError)
  /\ UNCHANGED <<state, asks, batches, call, at, desktop, local, media>>

(* The stream ends without an error, closed by something between the two:  *)
(* the branch of select! that would take its events is never ready again,  *)
(* and the loop goes on, for its clock keeps another branch ready.         *)
CloseStream ==
  /\ "closed" \in Faults
  /\ subscribed
  /\ subscribed' = FALSE
  /\ UNCHANGED <<state, asks, batches, inbound, call, at, desktop, local, media>>

-----------------------------------------------------------------------------
(* The other participants, and time.                                       *)

Others == UNCHANGED <<call, at, desktop, local, media>>

Room == Len(inbound) < MAX_INBOUND

AskView ==
  /\ state \in ViewRequest.from
  /\ Becomes(ViewRequest.to)
  /\ UNCHANGED <<asks, batches>>
  /\ Others

AskControl ==
  /\ Room
  /\ asks < MAX_ASKS
  /\ state \in ControlRequest.from
  /\ Becomes(ControlRequest.to)
  /\ asks' = asks + 1
  /\ UNCHANGED batches
  /\ Others

BrowserHostActs(move) ==
  /\ Room
  /\ state \in move.from
  /\ Becomes(move.to)
  /\ UNCHANGED <<asks, batches>>
  /\ Others

RepeatedSequence == 0

NewSequence == batches

SendBatch(events) ==
  /\ Room
  /\ batches < MAX_BATCHES
  /\ state = "CONTROL_ACTIVE"
  /\ batches' = batches + 1
  /\ inbound' = Written(inbound, InputEnvelope(NewSequence, events, asks))
  /\ UNCHANGED <<state, asks, subscribed>>
  /\ Others

(* The browser's offer and candidates; one that lacks what handle_signal   *)
(* needs is relayed all the same.                                          *)
SendSignal(signal) ==
  /\ Room
  /\ state \in SharingStates
  /\ inbound' = Written(inbound, SignalEnvelope(signal))
  /\ UNCHANGED <<state, asks, batches, subscribed>>
  /\ Others

(* Either of the two ends the session, or reports it, or it expires.       *)
SessionEnds ==
  /\ Live
  /\ \E s \in TerminalStates : Becomes(s)
  /\ UNCHANGED <<asks, batches>>
  /\ Others

-----------------------------------------------------------------------------
(* The agent, up to its loop.                                              *)

PortalRests == UNCHANGED <<state, asks, batches>>

ExitMidCall ==
  /\ at' = "exited"
  /\ inbound' = <<>>
  /\ subscribed' = FALSE
  /\ step' = 0
  /\ picked' = FALSE
  /\ UNCHANGED call

(* The process ends, and with it its connections and the capture session.  *)
Exit ==
  /\ at' = "exited"
  /\ call' = NoCall
  /\ inbound' = <<>>
  /\ subscribed' = FALSE
  /\ step' = 0
  /\ picked' = FALSE

Goes(place) == at' = place /\ UNCHANGED <<call, inbound, subscribed, step, picked>>

Calls(action) == Request(action) /\ UNCHANGED <<inbound, subscribed, step, picked>>

(* Before any prompt: the display path and the configuration.              *)
Start ==
  /\ at = "start"
  /\ approval' = HostJoined
  /\ IF Path # "Unsupported" /\ env.configured THEN Goes("share") ELSE Exit
  /\ PortalRests
  /\ UNCHANGED <<env, prompted, input, media>>

(* The local user types SHARE, or anything else.                           *)
Share ==
  /\ at = "share"
  /\ \/ /\ CanApproveView(approval)
        /\ approval' = ViewApproval(approval)
        /\ IF env.secure THEN Goes("capture") ELSE Exit
     \/ Exit /\ UNCHANGED approval
  /\ PortalRests
  /\ UNCHANGED <<env, prompted, input, media>>

(* The calls of the desktop portal that are awaited one by one: a new      *)
(* proxy, create_session, select_sources or select_devices, start, whose   *)
(* dialog the local user answers, and open_pipe_wire_remote for a capture. *)
CaptureCalls == IF Path = "WaylandPortal" THEN 5 ELSE 0

DialogCalls == IF Path = "WaylandPortal" THEN 4 ELSE 0

NextCall ==
  /\ step' = step + 1
  /\ UNCHANGED <<at, call, inbound, subscribed, picked>>

(* request_wayland_capture, or the check of the local X11 display.  Any of *)
(* its calls may fail, or the picker be left without a stream.             *)
Capture ==
  /\ at = "capture"
  /\ \/ /\ step < CaptureCalls
        /\ CanStartCapture(approval)
        /\ NextCall
     \/ /\ step = CaptureCalls
        /\ Path = "X11Compatibility" => LocalDisplay(env)
        /\ Request("event-token")
        /\ step' = 0
        /\ picked' = (Path = "WaylandPortal")
        /\ UNCHANGED <<inbound, subscribed>>
     \/ Exit
  /\ PortalRests
  /\ UNCHANGED <<env, local, media>>

Subscribe ==
  /\ Answered("event-token") \/ Answered("events")
  /\ IF Ok
     THEN Calls(IF at = "events" THEN "ice-config" ELSE "events")
     ELSE Exit
  /\ PortalRests
  /\ UNCHANGED <<env, local, media>>

NativeTurnUri(url) == url.scheme # "other" /\ url.host

(* turn_servers: all URLs of an answer that has not expired, or none.      *)
RelayServers(expired) ==
  IF Ok /\ ~expired /\ \A url \in TurnUrls : NativeTurnUri(url)
  THEN TurnUrls ELSE {}

StartingLater(playing) == sender' = "none"

Starting(playing) == sender' = IF playing THEN "playing" ELSE "none"

(* Whatever the answer about TURN, the pipeline is built and started, or   *)
(* cannot be: an element is missing, the display is not local, a TURN      *)
(* server is refused, or the state cannot be set.                          *)
StartSender ==
  /\ Answered("ice-config")
  /\ \E expired \in {FALSE} \cup {"clock" \in Faults} :
       relay' = (RelayServers(expired) # {})
  /\ \/ /\ Path = "X11Compatibility" => LocalDisplay(env)
        /\ Starting(TRUE)
        /\ Calls("approve-view")
     \/ Starting(FALSE) /\ Exit
  /\ PortalRests
  /\ UNCHANGED <<env, local, negotiated, outbound>>

ViewApproved ==
  /\ Answered("approve-view")
  /\ IF Ok
     THEN /\ at' = "loop"
          /\ call' = NoCall
          /\ UNCHANGED <<inbound, subscribed, step, picked, sender>>
     ELSE sender' = "null" /\ Exit
  /\ PortalRests
  /\ UNCHANGED <<env, local, relay, negotiated, outbound>>

-----------------------------------------------------------------------------
(* The loop and what follows it.                                           *)

(* The controller is dropped, if there is one, holding "down".             *)
DroppedHolding(down) ==
  /\ controller' = FALSE
  /\ lastSequence' = NoSequence
  /\ held' = IF controller THEN Released(Path, down) ELSE down
  /\ heldGrant' = 0
  /\ UNCHANGED lost

Dropped == DroppedHolding(held)

(* After the loop: stop the sender, then end the session unless the portal *)
(* has.                                                                    *)
Stop(terminatedByPortal) ==
  /\ sender' = "null"
  /\ IF terminatedByPortal THEN Exit ELSE Calls("end")
  /\ PortalRests
  /\ UNCHANGED <<env, approval, prompted, relay, negotiated, outbound>>

(* The controller is dropped between the two.                              *)
Leave(terminatedByPortal) == Stop(terminatedByPortal) /\ Dropped

(* The event that the loop takes next.                                     *)
Arrived(kind) == at = "loop" /\ inbound # <<>> /\ Head(inbound).kind = kind

Take == inbound' = Tail(inbound) /\ UNCHANGED <<at, call, subscribed, desktop>>

(* handle_signal.  A malformed signal ends the loop; the answer to an      *)
(* offer comes from a promise, later or never.                             *)
HandleSignal ==
  /\ Arrived("signal")
  /\ LET signal == Head(inbound).signal
     IN \/ /\ signal # "malformed"
           /\ Take
           /\ negotiated' = (negotiated \/ signal = "offer")
           /\ UNCHANGED <<local, sender, relay, outbound>>
           /\ PortalRests
        \/ signal = "malformed" /\ Leave(FALSE)

(* The pipeline's own threads: an answer or a candidate.                   *)
PipelineSignals ==
  /\ sender = "playing" /\ negotiated
  /\ outbound < MAX_OUTBOUND
  /\ outbound' = outbound + 1
  /\ PortalRests
  /\ UNCHANGED <<subscribed, inbound, call, at, desktop, local, sender, relay,
                 negotiated>>

IgnoreInput ==
  /\ Arrived("input") /\ ~controller
  /\ Take
  /\ UNCHANGED <<local, media>>
  /\ PortalRests

Fresh == ~Stale(Head(inbound).sequence, lastSequence)

Inject ==
  /\ Arrived("input") /\ controller
  /\ Fresh /\ Complete(Path, Head(inbound).events)
  /\ Take
  /\ held' = Pressed(Path, held, Head(inbound).events)
  /\ lastSequence' = Head(inbound).sequence
  /\ UNCHANGED <<approval, prompted, controller, heldGrant, lost, media>>
  /\ PortalRests

(* An envelope that is stale, or that the controller does not know all of, *)
(* ends the loop: the first untouched, the second once the events before   *)
(* the unknown one have been injected.                                     *)
RejectInput ==
  /\ Arrived("input") /\ controller
  /\ \/ ~Fresh /\ Dropped
     \/ /\ Fresh /\ ~Complete(Path, Head(inbound).events)
        /\ DroppedHolding(Pressed(Path, held, Head(inbound).events))
  /\ Stop(FALSE)

(* The connection fails after a part of the batch.  The release that       *)
(* follows fails with it at an X server.                                   *)
LoseDisplay ==
  /\ "display" \in Faults
  /\ Arrived("input") /\ controller /\ Fresh
  /\ Stop(FALSE)
  /\ controller' = FALSE /\ lastSequence' = NoSequence /\ heldGrant' = 0
  /\ lost' = (Path = "X11Compatibility")
  /\ \E n \in 0 .. Len(Head(inbound).events) :
       held' = IF Path = "X11Compatibility"
               THEN Pressed(Path, held, SubSeq(Head(inbound).events, 1, n))
               ELSE Released(Path, held)

OnlyEnded == {"ENDED"}

EndOfSession == {"ENDED", "EXPIRED"}

StillPrompted == prompted

NoLongerPrompted == FALSE

(* A session event.  Only the first CONTROL_PENDING after a VIEW_ACTIVE    *)
(* prompts, and the loop waits for the answer.                             *)
HandleSession ==
  /\ Arrived("session")
  /\ LET s == Head(inbound).state
     IN \/ s \in EndOfSession /\ Leave(TRUE)
        \/ /\ s = "VIEW_ACTIVE"
           /\ Take
           /\ Dropped
           /\ approval' = ControlRevoked(approval)
           /\ prompted' = NoLongerPrompted
           /\ UNCHANGED media
           /\ PortalRests
        \/ /\ s = "CONTROL_PENDING" /\ ~prompted
           /\ inbound' = Tail(inbound)
           /\ prompted' = TRUE
           /\ at' = "confirm"
           /\ UNCHANGED <<call, subscribed, desktop, approval, input, media>>
           /\ PortalRests
        \/ /\ s \notin EndOfSession \cup {"VIEW_ACTIVE"}
           /\ s = "CONTROL_PENDING" => prompted
           /\ Take
           /\ UNCHANGED <<local, media>>
           /\ PortalRests

HandleError == Arrived("error") /\ Leave(FALSE)

(* The loop relays a signal of the pipeline, and waits for the answer.     *)
RelaySignal ==
  /\ at = "loop" /\ outbound > 0
  /\ outbound' = outbound - 1
  /\ Calls("signal")
  /\ PortalRests
  /\ UNCHANGED <<env, local, sender, relay, negotiated>>

SignalRelayed ==
  /\ Answered("signal")
  /\ \/ /\ Ok
        /\ at' = "loop"
        /\ call' = NoCall
        /\ PortalRests
        /\ UNCHANGED <<subscribed, inbound, desktop, local, media>>
     \/ ~Ok /\ Leave(FALSE)

Unchanged ==
  UNCHANGED <<subscribed, inbound, env, picked, prompted, held, lost, media>>

(* The local user types CONTROL, or anything else.                         *)
Confirm ==
  /\ at = "confirm"
  /\ \/ /\ CanApproveControl(approval)
        /\ approval' = ControlApproval(approval)
        /\ at' = "dialog"
        /\ UNCHANGED call
     \/ Request("deny-control") /\ UNCHANGED approval
  /\ UNCHANGED <<step, controller, lastSequence, heldGrant>>
  /\ Unchanged /\ PortalRests

(* PortalInputController::request, or X11InputController::connect: granted *)
(* after all its calls, or refused or failed at any of them.               *)
Dialog ==
  /\ at = "dialog"
  /\ \/ /\ step < DialogCalls
        /\ CanInjectInput(approval)
        /\ step' = step + 1
        /\ UNCHANGED <<at, call, approval>>
     \/ /\ step = DialogCalls
        /\ CanInjectInput(approval)
        /\ Path = "X11Compatibility" => LocalDisplay(env)
        /\ Request("approve-control")
        /\ step' = 0
        /\ UNCHANGED approval
     \/ /\ Request("deny-control")
        /\ step' = 0
        /\ approval' = ControlRevoked(approval)
  /\ UNCHANGED <<controller, lastSequence, heldGrant>>
  /\ Unchanged /\ PortalRests

GrantedLocally == TRUE

(* The portal has taken over the grant of the local user.                  *)
Granted == Ok

ControlApproved ==
  /\ Answered("approve-control")
  /\ at' = "loop"
  /\ call' = NoCall
  /\ IF Granted
     THEN /\ controller' = TRUE
          /\ lastSequence' = NoSequence
          /\ heldGrant' = call.grant
          /\ UNCHANGED approval
     ELSE /\ approval' = ControlRevoked(approval)
          /\ UNCHANGED <<controller, lastSequence, heldGrant>>
  /\ UNCHANGED step
  /\ Unchanged /\ PortalRests

(* Whether or not the portal accepted the refusal.                         *)
ControlDenied ==
  /\ Answered("deny-control")
  /\ at' = "loop"
  /\ call' = NoCall
  /\ UNCHANGED <<step, approval, controller, lastSequence, heldGrant>>
  /\ Unchanged /\ PortalRests

Ended ==
  /\ Answered("end")
  /\ Exit
  /\ PortalRests
  /\ UNCHANGED <<env, local, media>>

(* Nothing handles signals: the process is gone, and nothing is dropped.   *)
(* What was held down at an X11 display stays down.                        *)
Killed ==
  /\ "killed" \in Faults
  /\ at # "exited"
  /\ Exit
  /\ controller' = FALSE
  /\ sender' = "null"
  /\ held' = IF Path = "X11Compatibility" THEN held ELSE Released(Path, held)
  /\ PortalRests
  /\ UNCHANGED <<env, approval, prompted, lastSequence, heldGrant, lost, relay,
                 negotiated, outbound>>

-----------------------------------------------------------------------------
(* The agent is started with the credentials of a session that was joined. *)
Init ==
  /\ state = "HOST_JOINED" /\ asks = 0 /\ batches = 0 /\ subscribed = FALSE
  /\ inbound = <<>> /\ call = NoCall /\ at = "start"
  /\ env \in Environments /\ step = 0 /\ picked = FALSE
  /\ approval = NotJoined /\ prompted = FALSE /\ controller = FALSE
  /\ lastSequence = NoSequence /\ held = {} /\ heldGrant = 0 /\ lost = FALSE
  /\ sender = "none" /\ relay = FALSE /\ negotiated = FALSE /\ outbound = 0

LocalUser == Share \/ Capture \/ Confirm \/ Dialog

Agent == Start \/ Subscribe \/ StartSender \/ ViewApproved \/ SignalRelayed
           \/ ControlApproved \/ ControlDenied \/ Ended

Loop == \/ HandleSignal \/ HandleSession \/ HandleError
        \/ IgnoreInput \/ Inject \/ RejectInput \/ LoseDisplay

Next ==
  \/ Handle \/ Lose \/ FailStream \/ CloseStream
  \/ AskView \/ AskControl
  \/ \E move \in BrowserMoves : BrowserHostActs(move)
  \/ \E events \in Batch : SendBatch(events)
  \/ \E signal \in Signals : SendSignal(signal)
  \/ SessionEnds \/ PipelineSignals
  \/ LocalUser \/ Agent \/ Loop \/ RelaySignal \/ Killed

Spec == Init /\ [][Next]_vars

(* The portal answers, and the agent goes on: select! takes its ready      *)
(* branches at random, so neither of the two queues starves the other.     *)
(* Nothing makes the local user answer a prompt.                           *)
Fairness ==
  /\ WF_vars(Handle) /\ WF_vars(Agent)
  /\ SF_vars(Loop) /\ SF_vars(RelaySignal)

FairSpec == Spec /\ Fairness

(* The local user answers every prompt in the end.                         *)
AttendedSpec == FairSpec /\ WF_vars(LocalUser)

-----------------------------------------------------------------------------
(* Properties.                                                             *)

Place == Action \cup {"start", "share", "capture", "loop", "confirm", "dialog",
                      "exited"}

Event ==
  [kind : {"session"}, state : LiveStates \cup TerminalStates]
  \cup [kind : {"input"}, sequence : 0 .. MAX_BATCHES, events : Batch, grant : 0 .. MAX_ASKS]
  \cup [kind : {"signal"}, signal : Signals]
  \cup {StreamError}

(* Every variable has its type, and the agent awaits an answer exactly     *)
(* when it is in a call.                                                   *)
TypeOK ==
  /\ state \in LiveStates \cup TerminalStates
  /\ asks \in 0 .. MAX_ASKS /\ batches \in 0 .. MAX_BATCHES
  /\ subscribed \in BOOLEAN
  /\ inbound \in Seq(Event)
  /\ call \in [action : Action \cup {"none"},
               status : {"none", "sent", "ok", "failed"}, grant : 0 .. MAX_ASKS]
  /\ at \in Place
  /\ IF at \in Action THEN call.action = at /\ call.status # "none"
                      ELSE call = NoCall
  /\ env \in Environments /\ step \in 0 .. 5 /\ picked \in BOOLEAN
  /\ approval \in Approval
  /\ prompted \in BOOLEAN /\ controller \in BOOLEAN /\ lost \in BOOLEAN
  /\ lastSequence \in {NoSequence} \cup 0 .. MAX_BATCHES
  /\ held \subseteq Details(Path) /\ heldGrant \in 0 .. MAX_ASKS
  /\ sender \in {"none", "playing", "null"} /\ relay \in BOOLEAN
  /\ negotiated \in BOOLEAN /\ outbound \in 0 .. MAX_OUTBOUND

(* The screen is taken only with the approval of the local user, on        *)
(* Wayland only through a session that the desktop portal granted, never   *)
(* through the X server that may run beside the compositor, and on X11     *)
(* only from a display of this machine.                                    *)
SharesTheLocalDisplay ==
  sender = "playing" =>
    /\ CanStartCapture(approval)
    /\ IF env.wayland THEN env.portal /\ picked ELSE env.display = "local"

(* Whenever the agent serves its loop, the local boundary says "control"   *)
(* exactly when a controller is held, whatever was declined, refused by    *)
(* the portal or lost before; so a new prompt always finds the boundary    *)
(* ready to approve.                                                       *)
LocalGrantMatchesController ==
  /\ at \in {"loop", "signal", "confirm", "deny-control"} =>
       (controller <=> approval.permission = "Control")
  /\ at = "confirm" => CanApproveControl(approval)

(* No key or button stays down at the display once the controller is gone, *)
(* unless its connection was lost before.                                  *)
ReleasedWhenDropped == ~controller /\ ~lost => held = {}

Injecting == /\ inbound # <<>> /\ Head(inbound).kind = "input"
             /\ controller /\ lastSequence' = Head(inbound).sequence
             /\ lastSequence' # lastSequence

(* Input is injected under the grant of control it was sent under: none is *)
(* left in the stream from before a revocation and injected after the next *)
(* local approval.                                                         *)
InjectedUnderItsGrant ==
  [][Injecting => Head(inbound).grant = heldGrant]_vars

(* The loop never meets an envelope that it would have to refuse as stale, *)
(* which would end the session: the sequence goes on across grants, and    *)
(* every new controller starts without one.                                *)
NoStaleEnvelope ==
  (Arrived("input") /\ controller) => ~Stale(Head(inbound).sequence, lastSequence)

(* If the view is approved by the agent alone, the portal holds it active  *)
(* only while the agent captures, or after it captured and has left: it    *)
(* was killed, or waits to end the session, or could not.                  *)
ViewFollowsCapture ==
  state \in SharingStates =>
    \/ sender = "playing"
    \/ sender = "null" /\ at \in {"end", "exited"}

(* Once the agent has taken every event of a stream that is still open, a  *)
(* controller that it holds has an active grant of control at the portal   *)
(* behind it: no withdrawal is overlooked, whichever prompt or call it     *)
(* overlapped.                                                             *)
ControllerNeedsGrant ==
  (at = "loop" /\ inbound = <<>> /\ subscribed /\ controller) =>
    state = "CONTROL_ACTIVE"

(* Whichever controller is held, a key or button of the browser is the     *)
(* same on both displays, and no two share what is held down for them:     *)
(* letting go of one never lets go of another.                             *)
KeyTablesAgree == controller => TablesAgree

(* While a controller is held, a turn of the wheel scrolls the same bounded *)
(* way through either.                                                     *)
BothPathsScrollAlike ==
  controller => \A delta \in Distances : ScrollsAlike(delta)

(* While a controller is held, the pointer falls behind the browser's by   *)
(* no more than what the limit cuts off a motion, wherever it is when the  *)
(* motion comes (Wayland), or is put on a pixel of the screen, whatever    *)
(* its size (X11).                                                         *)
PointerKeepsPace ==
  controller =>
    IF Path = "X11Compatibility"
    THEN \A part \in Coordinates, width \in Widths :
           PixelOnScreen(part, WHOLE, width)
    ELSE \A pointer, position \in Coordinates, span \in {POINTER_X_SPAN, POINTER_Y_SPAN} :
           \A last \in Coordinates \cap 0 .. span :
             KeepsPace(pointer, last, position, span)

(* A host whose user answers prompts stops once its session is over, if    *)
(* its stream never ends without an error before the end reaches it.       *)
HostStopsAfterEnd == Over ~> (at = "exited" /\ sender # "playing" /\ ~controller)

(* No request for control stays pending while the agent runs: the host is  *)
(* prompted for it, however it overlapped the one before it, and its       *)
(* answer settles it; if its calls reach the portal and its stream never   *)
(* ends without an error.                                                  *)
ControlRequestsAreSettled ==
  state = "CONTROL_PENDING" ~> (state # "CONTROL_PENDING" \/ at = "exited")

(* What compatibility-matrix.md asks of the end of a session: that media   *)
(* stop, whatever the local user is doing.                                 *)
EndStopsSharing == Over ~> sender # "playing"

(* What linux-host-agent/README.md says of keys and buttons when the       *)
(* process exits.                                                          *)
KeysAreReleased == at = "exited" => held = {}

(* What turn-reliability-notes.md says: that the Linux host gives the TURN *)
(* credentials of the portal to its pipeline.                              *)
SharingHostHasRelay == (at = "loop" /\ state \in SharingStates) => relay
-----------------------------------------------------------------------------
(* What the local user is asked and has granted at this machine, whatever  *)
(* the portal holds: the two prompts, and the local boundary until the     *)
(* agent exits.                                                            *)

Visit == {"visit"}

LocallyAttended == [s \in Visit |-> at # "exited"]

LocallyAsked == [s \in Visit |->
                   CASE at = "share" -> "view"
                     [] at = "confirm" -> "control"
                     [] OTHER -> "nothing"]

GrantedBy(permission) ==
  CASE permission = "None" -> {}
    [] permission = "ViewOnly" -> {"view"}
    [] permission = "Control" -> {"view", "control"}

LocalGrants ==
  [s \in Visit |-> IF at = "exited" THEN {} ELSE GrantedBy(approval.permission)]

LocalPromise == INSTANCE Consent WITH Session <- Visit,
                  attended <- LocallyAttended, asked <- LocallyAsked,
                  grants <- LocalGrants

(* The agent keeps the promise of attended support towards its local user  *)
(* too: the boundary that capture and input are bound to opens only by the *)
(* answer to a prompt, for what the prompt named, and control after view.  *)
(* A local user is there from the start, where Consent waits for one.      *)
LocalConsentIsKept == [][LocalPromise!Next]_(LocalPromise!vars)
=============================================================================
