----------------------------- MODULE PolicyScripts -----------------------------
(***************************************************************************)
(* The queries of CacheQuery's scripts with the states they expect, and    *)
(* the policies that the scripts say they recognise.  Letters are counted  *)
(* from A = 1.                                                             *)
(***************************************************************************)
EXTENDS PolicyCache

\* evaluate_mrh.py: two ways, the line hit last goes first.
Mrh == Permutation([hit \in {0, 1} |-> [w \in {0, 1} |-> IF hit = 0 THEN 1 - w ELSE w]])

MrhScript == {
  [query |-> <<1,1,2,2,3,4,1,2>>, result |-> <<1,2>>],
  [query |-> <<1,1,2,2,3,4,1,2,3>>, result |-> <<2,3>>],
  [query |-> <<1,1,2,2,3,4,1,2,1,3>>, result |-> <<2,3>>],
  [query |-> <<1,1,2,2,3,4,1,2,2,3>>, result |-> <<1,3>>],
  [query |-> <<1,1,2,2,3,4,1,2,2,1,3>>, result |-> <<2,3>>],
  [query |-> <<1,1,2,2,3,4,1,2,1,2,3>>, result |-> <<1,3>>],
  [query |-> <<1,1,2,2,3,4,1,2,2,2,3>>, result |-> <<1,3>>],
  [query |-> <<1,1,2,2,3,4,1,2,2,2,1,3>>, result |-> <<2,3>>]}

\* evaluate_huplru.py: a tree of four ways updated by hits only.
HuplruScript == {
  [query |-> <<1,1,2,2,3,3,4,4,5>>, result |-> <<2,3,4,5>>],
  [query |-> <<1,1,2,2,3,3,4,4,1,5>>, result |-> <<1,3,4,5>>],
  [query |-> <<1,1,2,2,3,3,4,4,1,5,6>>, result |-> <<1,3,4,6>>],
  [query |-> <<1,1,2,2,3,3,4,4,5,3>>, result |-> <<2,3,4,5>>],
  [query |-> <<1,1,2,2,3,3,4,4,5,3,3,6>>, result |-> <<3,4,5,6>>],
  [query |-> <<1,1,2,3,3,4,4,5>>, result |-> <<1,3,4,5>>],
  [query |-> <<1,1,2,3,3,4,4,5,6>>, result |-> <<1,3,4,6>>],
  [query |-> <<1,1,2,2,3,3,4,4,1,5,4,6>>, result |-> <<1,4,5,6>>],
  [query |-> <<1,1,2,2,3,3,4,4,1,5,4,3,4,6>>, result |-> <<3,4,5,6>>]}
================================================================================
