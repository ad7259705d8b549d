------------------------- MODULE MCStructureDiscovery --------------------------
(* Caches of up to four sets and four ways, and the fully mapped starts; and  *)
(* the measurements of an erratic machine, where any subset of twelve         *)
(* candidates passes and the others fail by one iteration.                    *)
EXTENDS StructureDiscovery

AllMachines == [sets : {1, 2, 4}, ways : 1 .. 4, hash : {"lin", "lin_shift"}]
FirstStarts == 0 .. 3

Unsteady == (0 .. 1) \X (1 .. 3) \X (1 .. 2)
Scattered == {[c \in Candidate |-> IF c \in passing THEN 4 ELSE 3] : passing \in SUBSET Unsteady}
AllAnswers == {Measurements(m) : m \in AllMachines} \cup Scattered
================================================================================
