----------------------------- MODULE MCLinuxHost -----------------------------
(* Values of the constants of LinuxHost for model checking.                *)
EXTENDS LinuxHost

Press == [kind |-> "key", name |-> "KeyA", down |-> TRUE]

LetGo == [kind |-> "key", name |-> "KeyA", down |-> FALSE]

(* The portal lets it pass, no controller knows it.                        *)
Unknown == [kind |-> "key", name |-> "F13", down |-> TRUE]

(* A key goes down and stays down, or goes down before something that the  *)
(* controller does not know.                                               *)
PressBatches == {<<Press>>, <<Motion, LetGo>>, <<Press, Unknown>>}

OnePress == {<<Press>>}

NoBatches == {}

Withdrawals == {DenyControl, RevokeControl}

(* The page may also approve the view before the agent has.                *)
AnyWithdrawal == Withdrawals \cup {ApproveView}

Wayland == [wayland |-> TRUE, portal |-> TRUE, display |-> "local",
            configured |-> TRUE, secure |-> TRUE]

X11 == [wayland |-> FALSE, portal |-> FALSE, display |-> "local",
        configured |-> TRUE, secure |-> TRUE]

X11Only == {X11}

WaylandOnly == {Wayland}

Usable == {Wayland, X11}

(* One that is usable, and every way for one not to be.                    *)
Desktops ==
  Usable \cup
    {[Wayland EXCEPT !.portal = FALSE], [X11 EXCEPT !.display = "remote"],
     [X11 EXCEPT !.display = "empty"], [X11 EXCEPT !.display = "unset"],
     [X11 EXCEPT !.configured = FALSE], [Wayland EXCEPT !.secure = FALSE]}

Relays == {[scheme |-> "turn", host |-> TRUE], [scheme |-> "turns", host |-> TRUE]}

NoRelays == {}

(* Inputs at, below and above each of the limits.                          *)
SomeDistances == -200 .. 200

SomeCoordinates == {-50, 0, 1, 319, 320, 321, 1000, 1080, 1919, 1920, 2000}

SomeWidths == {0, 1, 2, 1920, 32768, 40000, 65535}
=============================================================================
