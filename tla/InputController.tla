--------------------------- MODULE InputController ---------------------------
(***************************************************************************)
(* How a controller of the Linux host injects a batch of input that the    *)
(* portal relays: PortalInputController of input.rs on Wayland,            *)
(* X11InputController of x11.rs on X11.  A batch is injected event by      *)
(* event up to the first that the controller does not know: the portal     *)
(* lets any alphanumeric name pass, the controller only its own table.     *)
(***************************************************************************)
EXTENDS NativeInput, Sequences

(* Pointer and wheel hold nothing down, and are told apart in NativeInput. *)
Motion == [kind |-> "motion"]

InputEvent ==
  {Motion} \cup [kind : {"key", "button"}, name : STRING, down : BOOLEAN]

(* Before any batch.                                                       *)
NoSequence == -1

Stale(sequence, last) == last # NoSequence /\ sequence <= last

Codes(path, kind) ==
  IF path = "X11Compatibility"
  THEN IF kind = "key" THEN X11Keycode ELSE X11Button
  ELSE IF kind = "key" THEN LinuxKeycode ELSE LinuxButton

Supported(path, event) ==
  event # Motion => event.name \in DOMAIN Codes(path, event.kind)

(* The key or button of the display that an event is about.                *)
Detail(path, event) == <<event.kind, Codes(path, event.kind)[event.name]>>

Details(path) ==
  UNION {{<<kind, Codes(path, kind)[name]>> : name \in DOMAIN Codes(path, kind)} :
           kind \in {"key", "button"}}

(* The events of a batch that are injected.                                *)
Injected(path, events) ==
  {i \in DOMAIN events : \A j \in 1 .. i : Supported(path, events[j])}

Complete(path, events) == Injected(path, events) = DOMAIN events

(* The injected events that no later one about the same key overrides.     *)
Deciding(path, events) ==
  {i \in Injected(path, events) :
     /\ events[i] # Motion
     /\ \A j \in Injected(path, events) :
          j > i => \/ events[j] = Motion
                   \/ Detail(path, events[j]) # Detail(path, events[i])}

(* What is held down once they have been injected.                         *)
Pressed(path, held, events) ==
  {d \in held : \A i \in Deciding(path, events) : Detail(path, events[i]) # d}
  \cup {Detail(path, events[i]) :
          i \in {k \in Deciding(path, events) : events[k].down}}

KeysLeftDown(path, held) == held

(* release_all of the X11 controller, on drop.  Dropping the controller of *)
(* Wayland closes its session with the desktop portal, and the devices     *)
(* that held the keys with it.                                             *)
Released(path, held) == {}
=============================================================================
