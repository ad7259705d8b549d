------------------------------- MODULE MCTrigger -------------------------------
(* Two runs of one tool and one of another, and one run of each. *)
EXTENDS Trigger

CONSTANTS r1, r2, r3

Three == {r1, r2, r3}
Mix(one, two, three) ==
  [r \in Three |-> CASE r = r1 -> one [] r = r2 -> two [] r = r3 -> three]
SomeMixes ==
  {Mix("Talbot", "Talbot", "CacheQuery"), Mix("Talbot", "CacheQuery", "CrossHyperthread")}
================================================================================
