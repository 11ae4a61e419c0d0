----------------------------- MODULE BoundedLog ------------------------------
(***************************************************************************)
(* A list that keeps its latest max entries: push, then splice from the    *)
(* front.  The portal keeps its audit trail and its chat transcript so.    *)
(***************************************************************************)
EXTENDS Integers, Sequences

PushUntrimmed(log, entry, max) == Append(log, entry)

PushKeepingOldest(log, entry, max) ==
  IF Len(log) = max THEN log ELSE Append(log, entry)

Push(log, entry, max) ==
  IF Len(log) < max
  THEN Append(log, entry)
  ELSE Append(SubSeq(log, Len(log) - max + 2, Len(log)), entry)
=============================================================================
