----------------------------- MODULE MCEvictionSet -----------------------------
(* Caches of one or two sets and up to three ways; the last target has one neighbour. *)
EXTENDS EvictionSet

SmallMachines == [sets : {1, 2}, ways : 1 .. 3, hash : {"lin", "lin_shift"}]
OneMachine == {[sets |-> 2, ways |-> 3, hash |-> "lin"]}
TwoTargets == {0, 1}
ThreeTargets == {0, 1, 4}
Structures == [hash : {"lin", "lin_shift", "null"}, setBits : {0, 1}, ways : 1 .. 3]
================================================================================
