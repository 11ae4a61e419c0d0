------------------------------ MODULE Consent --------------------------------
(***************************************************************************)
(* What the portal promises about attended support, without its states,    *)
(* tokens, timers or records: a session has a host or it has not, the host *)
(* is asked for one thing at a time, and what it has not granted since it  *)
(* joined is not granted.  Portal implements this specification.           *)
(***************************************************************************)
CONSTANT Session

VARIABLES
  attended,   (* a host has joined and the session is not over             *)
  asked,      (* what the operator is waiting for                          *)
  grants      (* what the host has granted                                 *)

vars == <<attended, asked, grants>>

Thing == {"view", "control"}

TypeOK ==
  /\ attended \in [Session -> BOOLEAN]
  /\ asked \in [Session -> Thing \cup {"nothing"}]
  /\ grants \in [Session -> SUBSET Thing]

Init ==
  /\ attended = [s \in Session |-> FALSE]
  /\ asked = [s \in Session |-> "nothing"]
  /\ grants = [s \in Session |-> {}]

Attend(s) ==
  /\ ~attended[s]
  /\ attended' = [attended EXCEPT ![s] = TRUE]
  /\ UNCHANGED <<asked, grants>>

AskableUnseen(s, thing) == thing \notin grants[s]

(* The screen is asked for first, control of what is seen after it.        *)
Askable(s, thing) ==
  /\ thing \notin grants[s]
  /\ thing = "control" => "view" \in grants[s]

Ask(s, thing) ==
  /\ attended[s]
  /\ asked[s] = "nothing"
  /\ Askable(s, thing)
  /\ asked' = [asked EXCEPT ![s] = thing]
  /\ UNCHANGED <<attended, grants>>

GrantedAll(s) == Thing

Granted(s) == grants[s] \cup {asked[s]}

Grant(s) ==
  /\ asked[s] # "nothing"
  /\ grants' = [grants EXCEPT ![s] = Granted(s)]
  /\ asked' = [asked EXCEPT ![s] = "nothing"]
  /\ UNCHANGED attended

Refuse(s) ==
  /\ asked[s] # "nothing"
  /\ asked' = [asked EXCEPT ![s] = "nothing"]
  /\ UNCHANGED <<attended, grants>>

Revoke(s) ==
  /\ grants' = [grants EXCEPT ![s] = @ \ {"control"}]
  /\ asked' = [asked EXCEPT ![s] = "nothing"]
  /\ UNCHANGED attended

(* Several sessions may be found expired at once.                          *)
Close(S) ==
  /\ attended' = [s \in Session |-> IF s \in S THEN FALSE ELSE attended[s]]
  /\ asked' = [s \in Session |-> IF s \in S THEN "nothing" ELSE asked[s]]
  /\ grants' = [s \in Session |-> IF s \in S THEN {} ELSE grants[s]]

Next ==
  \/ \E s \in Session : \/ Attend(s)
                        \/ \E thing \in Thing : Ask(s, thing)
                        \/ Grant(s)
                        \/ Refuse(s)
                        \/ Revoke(s)
  \/ \E S \in SUBSET Session : Close(S)

Spec == Init /\ [][Next]_vars

-----------------------------------------------------------------------------
(* Control is never held, nor asked for, without the view that it acts on; *)
(* nothing is held or asked for without a host.                            *)
ControlNeedsView ==
  \A s \in Session :
    /\ "control" \in grants[s] \/ asked[s] = "control" => "view" \in grants[s]
    /\ ~attended[s] => grants[s] = {} /\ asked[s] = "nothing"

(* Each thing that is granted was being asked for, and by then the host    *)
(* had joined: no request ever brings more than it named.                  *)
GrantsWereAsked ==
  [][\A s \in Session : \A thing \in grants'[s] \ grants[s] :
       attended[s] /\ asked[s] = thing]_vars
=============================================================================
