---------------------------- MODULE ClientSession -----------------------------
(***************************************************************************)
(* One session of the portal as a client meets it, and the calls that the  *)
(* client has on their way.  Unlike the Linux host, the page and the       *)
(* Windows host do not await one call before they make the next, and the   *)
(* answers come in any order.  The handler of a call at the portal is one  *)
(* step, as in Portal.                                                     *)
(***************************************************************************)
EXTENDS SessionStates, Integers

VARIABLES
  state,        (* the session's state at the portal                       *)
  calls,        (* the client's calls, by slot                             *)
  scenario      (* the bounds of this behaviour: what may go wrong, and    *)
                (* how many calls may be on their way                      *)

(* What may go wrong: a call fails on its way to the portal, its answer is *)
(* lost, an event stream breaks.                                           *)
Fault == {"request", "reply", "stream"}

Slots == 1 .. scenario.calls

Over == state \in TerminalStates

(* What calls ask for, beside the moves of SessionStates.                  *)
JoinSession == Transition({"CREATED"}, "HOST_JOINED", "HOST_JOINED")
EndSession == Transition(LiveStates, "ENDED", "HOST_ENDED")
ReadSession == Transition(LiveStates, "unchanged", "READ")

Nothing == Transition({}, "none", "NOTHING")

NoCall == [asks |-> Nothing, status |-> "none", seen |-> "none"]

Asking(move) == [asks |-> move, status |-> "sent", seen |-> "none"]

Idle == {c \in Slots : calls[c] = NoCall}

(* The slots are all alike.                                                *)
Send(move) ==
  /\ Idle # {}
  /\ calls' = [calls EXCEPT ![CHOOSE c \in Idle : TRUE] = Asking(move)]

(* The slot of a call whose answer is dealt with.                          *)
Freed(c) == [calls EXCEPT ![c] = NoCall]

Answered(c, move, status) == calls[c].asks = move /\ calls[c].status = status

Sent(c) == calls[c].status = "sent"

After(move) == IF move = ReadSession THEN state ELSE move.to

Answer(c, status, seen) ==
  calls' = [calls EXCEPT ![c].status = status, ![c].seen = seen]

(* The portal handles a call: the answer holds the state that it leaves,   *)
(* or says that the session is not there any more, or refuses.             *)
Handled(c) ==
  /\ Sent(c)
  /\ LET move == calls[c].asks
     IN IF state \in move.from
        THEN state' = After(move) /\ Answer(c, "ok", After(move))
        ELSE /\ UNCHANGED state
             /\ Answer(c, IF Over THEN "gone" ELSE "refused", "none")

(* The call fails before the portal has handled it, or after.              *)
Lost(c) ==
  /\ Sent(c)
  /\ Answer(c, "failed", "none")
  /\ \/ "request" \in scenario.faults /\ UNCHANGED state
     \/ /\ "reply" \in scenario.faults
        /\ state \in calls[c].asks.from
        /\ state' = After(calls[c].asks)

(* The other participant, or the end of the session in any way.            *)
Moved(moves) ==
  /\ \/ \E move \in moves : state \in move.from /\ state' = move.to
     \/ state \in LiveStates /\ state' \in TerminalStates
  /\ UNCHANGED calls
=============================================================================
