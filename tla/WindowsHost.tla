----------------------------- MODULE WindowsHost ------------------------------
(***************************************************************************)
(* The window of the Windows host, MainWindow.xaml.cs with PortalClient.cs *)
(* and WindowsHostCompatibility.cs.  It has no event stream: a timer polls *)
(* the session, and a poll, an action and the end of the session may all   *)
(* be on their way together.  Their answers are dealt with on the thread   *)
(* of the window, one at a time, in whatever order they come.              *)
(***************************************************************************)
EXTENDS ClientSession

VARIABLES
  joined,       (* _session is set                                         *)
  joining,      (* the JoinButton is disabled                              *)
  polling,      (* _pollTimer runs                                         *)
  displayed,    (* the state that the prompts, the banner and the pause    *)
                (* button tell of; "none" when all are hidden              *)
  raised        (* prompts shown: _viewPromptShown, _controlPromptShown    *)

window == <<joined, joining, polling, displayed, raised>>

(* Evaluate, without the native adapters that this build does not have.    *)
NativeAdapters == FALSE
CanStart(move) == move \in {ApproveView, ApproveControl} => NativeAdapters

Prompting == {"VIEW_PENDING", "CONTROL_PENDING"}

-----------------------------------------------------------------------------
(* What the answers do to the window.                                      *)

(* ApplyState, also when the window has left the session meanwhile.        *)
ApplyState(s) ==
  /\ displayed' = s
  /\ raised' = IF s \in Prompting THEN raised \cup {s} ELSE {}
  /\ UNCHANGED <<joined, joining, polling>>

ResetSessionUi ==
  /\ joined' = FALSE
  /\ joining' = FALSE
  /\ polling' = FALSE
  /\ displayed' = "none"
  /\ raised' = {}

-----------------------------------------------------------------------------
(* The user and the timer.                                                 *)

JoinButton_Click ==
  /\ ~joining
  /\ joining' = TRUE
  /\ Send(JoinSession)
  /\ UNCHANGED <<state, joined, polling, displayed, raised>>

(* The refresh after a join that succeeded is the first poll.              *)
JoinAnswered(c) ==
  \/ /\ Answered(c, JoinSession, "ok")
     /\ joined' = TRUE
     /\ polling' = TRUE
     /\ calls' = [calls EXCEPT ![c] = Asking(ReadSession)]
     /\ UNCHANGED <<state, joining, displayed, raised>>
  \/ /\ \E status \in {"refused", "gone", "failed"} : Answered(c, JoinSession, status)
     /\ joining' = FALSE
     /\ calls' = Freed(c)
     /\ UNCHANGED <<state, joined, polling, displayed, raised>>

PollSkippedOnPrompt ==
  /\ polling /\ joined /\ displayed \notin Prompting
  /\ Send(ReadSession)
  /\ UNCHANGED <<state, window>>

(* The timer ticks on while earlier polls wait.                            *)
Poll ==
  /\ polling /\ joined
  /\ Send(ReadSession)
  /\ UNCHANGED <<state, window>>

(* The buttons that the window shows for the state it displays.            *)
Buttons ==
  CASE displayed = "VIEW_PENDING" -> {ApproveView, DenyView}
    [] displayed = "CONTROL_PENDING" -> {ApproveControl, DenyControl}
    [] displayed = "CONTROL_ACTIVE" -> {RevokeControl}
    [] OTHER -> {}

HostAction ==
  /\ joined
  /\ \E move \in Buttons : CanStart(move) /\ Send(move)
  /\ UNCHANGED <<state, window>>

EndButton_Click ==
  /\ joined
  /\ Send(EndSession)
  /\ UNCHANGED <<state, window>>

ConnectionUnavailable == UNCHANGED window

(* A 404 or a 410.                                                         *)
SessionGone == ResetSessionUi

(* RefreshAsync and HostActionAsync after their answer.                    *)
StatusAnswered(c) ==
  /\ \E move \in HostActions \cup {ReadSession} :
       \/ Answered(c, move, "ok") /\ ApplyState(calls[c].seen)
       \/ Answered(c, move, "gone") /\ SessionGone
       \/ /\ Answered(c, move, "refused") \/ Answered(c, move, "failed")
          /\ UNCHANGED window
  /\ calls' = Freed(c)
  /\ UNCHANGED state

(* Whatever the answer is.                                                 *)
WindowEnds(c) ==
  /\ calls[c].asks = EndSession /\ ~Sent(c)
  /\ ResetSessionUi
  /\ calls' = Freed(c)
  /\ UNCHANGED state

-----------------------------------------------------------------------------

WindowIdle ==
  /\ joined = FALSE /\ joining = FALSE /\ polling = FALSE
  /\ displayed = "none" /\ raised = {}

(* A session has been created, and nobody has joined it.                   *)
WindowInit ==
  /\ state = "CREATED" /\ calls = [c \in Slots |-> NoCall]
  /\ WindowIdle

WindowGoesOn(c) == JoinAnswered(c) \/ StatusAnswered(c) \/ WindowEnds(c)

(* The operator asks, and the page of the host may act beside the window.  *)
WindowNext ==
  \/ JoinButton_Click \/ Poll \/ HostAction \/ EndButton_Click
  \/ \E c \in Slots :
       \/ Handled(c) /\ UNCHANGED window
       \/ Lost(c) /\ UNCHANGED window
       \/ WindowGoesOn(c)
  \/ Moved(OperatorRequests \cup HostActions) /\ UNCHANGED window
=============================================================================
