----------------------------- MODULE LinuxDesktop -----------------------------
(***************************************************************************)
(* What the Linux host decides on its own, before and beside the portal:   *)
(* the display path of its environment, whether it may talk to the portal  *)
(* at all, and the local approvals that capture and input are bound to     *)
(* (lib.rs, and the checks of main.rs, x11.rs and portal.rs that use it).  *)
(***************************************************************************)

(* The variables of the environment, as far as the agent tells their       *)
(* values apart: DISPLAY may be set to nothing, to a socket of this        *)
(* machine or to a host name, the portal's URL may be refused.             *)
Environment ==
  [wayland : BOOLEAN, portal : BOOLEAN,
   display : {"unset", "empty", "local", "remote"},
   configured : BOOLEAN, secure : BOOLEAN]

X11Fallback(env) ==
  IF env.wayland /\ env.portal
  THEN "WaylandPortal"
  ELSE IF env.display # "unset" THEN "X11Compatibility" ELSE "Unsupported"

(* detect_capabilities.                                                    *)
DisplayPath(env) ==
  IF env.wayland
  THEN IF env.portal THEN "WaylandPortal" ELSE "Unsupported"
  ELSE IF env.display # "unset" THEN "X11Compatibility" ELSE "Unsupported"

(* is_local_display_name, and main's check that there is a name.           *)
LocalDisplay(env) == env.display = "local"

-----------------------------------------------------------------------------
(* LocalApprovalState.                                                     *)

Permission == {"None", "ViewOnly", "Control"}

Approval == [joined : BOOLEAN, permission : Permission]

NotJoined == [joined |-> FALSE, permission |-> "None"]

HostJoined == [joined |-> TRUE, permission |-> "None"]

CanApproveView(approval) == approval.joined

FullApproval(approval) == [approval EXCEPT !.permission = "Control"]

ViewApproval(approval) == [approval EXCEPT !.permission = "ViewOnly"]

CanApproveControl(approval) == approval.permission = "ViewOnly"

ControlApproval(approval) == [approval EXCEPT !.permission = "Control"]

ControlKept(approval) == approval

(* revoke_control.                                                         *)
ControlRevoked(approval) ==
  IF approval.permission = "Control" THEN ViewApproval(approval) ELSE approval

CanStartCapture(approval) ==
  approval.joined /\ approval.permission \in {"ViewOnly", "Control"}

CanInjectInput(approval) == approval.joined /\ approval.permission = "Control"
=============================================================================
