------------------------------- MODULE Clients --------------------------------
(***************************************************************************)
(* The clients that talk to the portal beside the Linux host: the page of  *)
(* the operator and the window of the Windows host, each with the session  *)
(* that it serves.  What the other participant does is what the portal     *)
(* lets it do, in any order; so each is looked at alone, in the scenarios  *)
(* that bound a behaviour.                                                 *)
(***************************************************************************)
EXTENDS Browser, WindowsHost

CONSTANT Scenarios

(* Which client, where it starts, how much may be under way at once, what  *)
(* may go wrong and what the other participant may do.                     *)
Scenario ==
  [client : {"page", "window"}, start : {"created", "viewing"},
   calls : Nat \ {0}, subscriptions : Nat, viewers : Nat, events : Nat, stream : Nat,
   faults : SUBSET Fault, moves : SUBSET (HostActions \cup {JoinSession})]

ASSUME ScenariosAssumption == \A s \in Scenarios : s \in Scenario

vars == <<state, calls, scenario, page, window>>

Init ==
  /\ scenario \in Scenarios
  /\ IF scenario.client = "window" THEN WindowInit /\ PageIdle
     ELSE IF scenario.start = "created" THEN PageInit /\ WindowIdle
     ELSE ViewingInit /\ WindowIdle

Next ==
  /\ \/ scenario.client = "page" /\ PageNext /\ UNCHANGED window
     \/ scenario.client = "window" /\ WindowNext /\ UNCHANGED page
  /\ UNCHANGED scenario

Spec == Init /\ [][Next]_vars

(* What else the page sends or has a timer for: never without end, within  *)
(* the bounds of a scenario.                                               *)
Underway ==
  \/ \E token \in tokens : ServeToken(token) \/ TokenAnswered(token)
  \/ \E batch \in batches : ServeInput(batch) \/ InputAnswered(batch)
  \/ Reconnected \/ FlushRemoteInput

(* The page goes on after whatever has been answered, written or timed,    *)
(* and what it sends is answered, or fails.  The window goes on likewise.  *)
(* Its timer ticks on: the bound on its calls must not keep a poll out for *)
(* ever, and of the polls that it sends not all fail.                      *)
PageRuns(A) == scenario.client = "page" /\ A /\ UNCHANGED <<window, scenario>>

WindowRuns(A) == scenario.client = "window" /\ A /\ UNCHANGED <<page, scenario>>

CallSlot == UNION {1 .. s.calls : s \in Scenarios}

Fairness ==
  /\ \A c \in CallSlot :
       /\ WF_vars(c \in Slots /\ PageRuns(Serve(c) \/ PageGoesOn(c)))
       /\ WF_vars(c \in Slots /\ WindowRuns((Handled(c) \/ Lost(c)) /\ UNCHANGED window))
       /\ WF_vars(c \in Slots /\ WindowRuns(WindowGoesOn(c)))
       /\ SF_vars(c \in Slots /\ calls[c].asks = ReadSession
                    /\ WindowRuns(Handled(c) /\ UNCHANGED window))
  /\ SF_vars(WindowRuns(Poll))
  /\ WF_vars(PageRuns(\E source \in sources : OpenStream(source) \/ StreamEvent(source)))
  /\ WF_vars(PageRuns(\E t \in Task : StartViewer(t)))
  /\ WF_vars(PageRuns(Underway))

FairSpec == Spec /\ Fairness

-----------------------------------------------------------------------------
(* Properties.                                                             *)

Statuses == {"none", "sent", "ok", "refused", "gone", "failed"}

(* Every variable has its type.                                            *)
ClientsTypeOK ==
  /\ state \in LiveStates \cup TerminalStates
  /\ \A c \in Slots : calls[c].status \in Statuses
  /\ current \in BOOLEAN /\ shown \in LiveStates \cup {"none"}
  /\ eventSource \in {None} \cup 1 .. eventSubscriptionId
  /\ viewerPeer \in {None} \cup Task
  /\ displayed \in LiveStates \cup {"none"} /\ raised \subseteq Prompting

(* However often the page subscribes again before an earlier request for a *)
(* token is answered, the one EventSource that is open is the one that it  *)
(* listens to: subscribeToSession opens none for a subscription that has   *)
(* been replaced, or left.                                                 *)
OneOpenSource == {source.id : source \in sources} = {eventSource} \ {None}

Listening ==
  \E source \in sources :
    source.id = eventSource /\ source.held /\ source.events = <<>>

(* A page that listens and has taken every event shows the session's state: *)
(* a reading that was answered before an event and is rendered after it    *)
(* does not stay.                                                          *)
ShowsTheCurrentState == Listening => shown = state

(* Batches of input reach the portal in the order of their sequence,       *)
(* though the listeners, their queue and its timer are cleared and bound   *)
(* again while one is on its way: the portal never drops one as repeated.  *)
BatchesArriveInOrder ==
  \A batch \in batches : batch.status = "sent" => batch.sequence > lastInput

(* A page that has left its session keeps no viewer, no listeners and no   *)
(* input, even when a viewer was starting as it left.                      *)
HomeIsQuiet ==
  (~current /\ \A t \in Task : viewers[t] = NoTask) =>
    viewerPeer = None /\ ~inputAbort /\ inputQueue = <<>>

(* Input that is queued is sent or discarded, also what is queued while a  *)
(* batch is on its way or comes to nothing.                                *)
InputIsFlushed == inputQueue # <<>> ~> inputQueue = <<>>

(* The page learns of the end of the session, whichever of its stream, its *)
(* reading or its reconnection meets it, unless a token was refused to it. *)
PageLearnsOfTheEnd ==
  (scenario.client = "page" /\ Over) ~> (~current \/ refused)

(* The window of a host that has joined leaves the session once it is over.*)
WindowLearnsOfTheEnd == (Over /\ joined) ~> ~joined

(* What the window shows catches up with a session that does not change    *)
(* any more, however late the answers to its polls and actions come.       *)
WindowCatchesUp ==
  \A s \in LiveStates : <>[](state = s /\ joined) => <>[](displayed = s)
=============================================================================
