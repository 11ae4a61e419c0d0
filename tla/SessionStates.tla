---------------------------- MODULE SessionStates ----------------------------
(***************************************************************************)
(* The states of a support session and the transitions that its two        *)
(* participants may ask the portal for.  The portal, the native hosts and  *)
(* the browser all name these states, so the table is stated once.         *)
(***************************************************************************)

Role == {"operator", "host"}

Other(role) == IF role = "operator" THEN "host" ELSE "operator"

TerminalStates == {"ENDED", "EXPIRED"}

LiveStates == {"CREATED", "HOST_JOINED", "VIEW_PENDING", "VIEW_ACTIVE",
               "CONTROL_PENDING", "CONTROL_ACTIVE"}

(* The states in which the screen is shared: signals are relayed and TURN  *)
(* credentials are minted.                                                 *)
SharingStates == {"VIEW_ACTIVE", "CONTROL_PENDING", "CONTROL_ACTIVE"}

Transition(from, to, event) == [from |-> from, to |-> to, event |-> event]

ViewRequest == Transition({"HOST_JOINED"}, "VIEW_PENDING", "VIEW_REQUESTED")

ControlRequestUnseen ==
  Transition({"HOST_JOINED", "VIEW_ACTIVE"}, "CONTROL_PENDING",
             "CONTROL_REQUESTED")

ControlRequest ==
  Transition({"VIEW_ACTIVE"}, "CONTROL_PENDING", "CONTROL_REQUESTED")

ApproveView == Transition({"VIEW_PENDING"}, "VIEW_ACTIVE", "APPROVE_VIEW")

DenyView == Transition({"VIEW_PENDING"}, "HOST_JOINED", "DENY_VIEW")

ApproveControl ==
  Transition({"CONTROL_PENDING"}, "CONTROL_ACTIVE", "APPROVE_CONTROL")

DenyControl == Transition({"CONTROL_PENDING"}, "VIEW_ACTIVE", "DENY_CONTROL")

RevokeControl ==
  Transition({"CONTROL_ACTIVE", "CONTROL_PENDING"}, "VIEW_ACTIVE",
             "REVOKE_CONTROL")

OperatorRequests == {ViewRequest, ControlRequest}

HostActions == {ApproveView, DenyView, ApproveControl, DenyControl,
                RevokeControl}
=============================================================================
