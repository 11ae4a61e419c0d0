----------------------------- MODULE RateWindow ------------------------------
(***************************************************************************)
(* The fixed-window rate counters of the portal.  A window holds the time  *)
(* since its first request and the number of requests counted in it; an    *)
(* entry that is not in its map is NoWindow.  Ages and counts stop at the  *)
(* first value that no comparison of the code tells apart from a larger    *)
(* one.                                                                    *)
(***************************************************************************)
EXTENDS Integers

NoWindow == [age |-> 0, count |-> 0]

Window(maxAge, limit) == [age : 0 .. maxAge, count : 0 .. limit + 1]

(* One more request: the counter restarts when the window is absent or     *)
(* over, and counts the request even when it is going to be refused.       *)
Counted(w, over, limit) ==
  IF w = NoWindow \/ over
  THEN [age |-> 0, count |-> 1]
  ELSE [w EXCEPT !.count = IF @ > limit THEN @ ELSE @ + 1]

Refused(w, limit) == w.count > limit

Pruned(w, retention) == IF w.age > retention THEN NoWindow ELSE w

Older(w, maxAge) ==
  IF w = NoWindow \/ w.age = maxAge THEN w ELSE [w EXCEPT !.age = @ + 1]
=============================================================================
