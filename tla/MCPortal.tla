------------------------------ MODULE MCPortal -------------------------------
(* Values of the constants of Portal for model checking.                   *)
EXTENDS Portal

(* One tick is the unit of every length.                                   *)
OneTick == [k \in Kind |-> 1]

OnePerRole == [k \in Kind |-> IF k = "request" THEN 2 ELSE 1]

TwoRequests == [k \in Kind |-> 2]
=============================================================================
