------------------------- MODULE MeasurementRefinement -------------------------
(* The experiments implement the abstract oracle. *)
EXTENDS Measurement

Promised == INSTANCE Oracle WITH next <- k, answers <- report

\* Whatever the machine, the noise and the scheduler do, device_read returns
\* what an oracle may answer, question after question, and nothing it has
\* returned is changed later (experiments.c).
ImplementsOracle == Promised!Spec
================================================================================
