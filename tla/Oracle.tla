--------------------------------- MODULE Oracle ---------------------------------
(***************************************************************************)
(* What the experiments of Measurement promise, without memory, chains,    *)
(* caches or a CPU: the machine has some translation caches, and answers   *)
(* the questions of Program one after the other.  An answer counts the     *)
(* iterations in which the probe missed; it is exact up to the iterations  *)
(* that were disturbed and those whose chain could not evict.              *)
(***************************************************************************)
EXTENDS Naturals, Sequences

CONSTANTS
  Program,    \* the questions: what is primed, walked over and probed
  Iterations, \* ITERATIONS
  Nothing     \* no answer yet; no walk

VARIABLES
  present,  \* the translation caches this machine has
  next,     \* the next question
  answers   \* what was answered

oracleVars == <<present, next, answers>>

\* A cache that the prime fills, the probe asks and the walk leaves alone.
Remembers(e) ==
  \E s \in present :
    /\ s \in {e.prime, "shared"} /\ s \in {e.probe, "shared"}
    /\ e.walk = Nothing \/ s \notin {e.walk, "shared"}

Counted == 0 .. Iterations

Honest(e) ==
  {a \in [misses : Counted, spoiled : Counted, short : Counted] :
     IF Remembers(e) THEN a.misses <= a.spoiled
                     ELSE Iterations <= a.misses + a.spoiled + a.short}

Init ==
  /\ present \in SUBSET {"instruction", "data", "shared"}
  /\ next = 1
  /\ answers = [n \in 1 .. Len(Program) |-> Nothing]

Answer ==
  /\ next <= Len(Program)
  /\ \E a \in Honest(Program[next]) : answers' = [answers EXCEPT ![next] = a]
  /\ next' = next + 1
  /\ UNCHANGED present

Spec == Init /\ [][Answer]_oracleVars
================================================================================
