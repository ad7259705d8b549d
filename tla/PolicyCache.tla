------------------------------ MODULE PolicyCache ------------------------------
(***************************************************************************)
(* One set of a translation cache and how it replaces: the object that     *)
(* replacement.c measures and that CacheQuery's scripts have in mind.      *)
(* A line stands for the page-table entry of one region.                   *)
(*                                                                         *)
(* A permutation policy keeps its lines ordered, the next victim last.  A  *)
(* hit on position i reorders them by vectors[i]; a miss drops the last    *)
(* line and puts the new one first.  LRU, FIFO and MRH (the line hit last  *)
(* goes first) are of this kind.  HUPLRU is a tree pseudo-LRU of four ways *)
(* whose bits are updated by hits only.                                    *)
(***************************************************************************)
EXTENDS Integers, Sequences, SequencesExt

Positions(policy) == 0 .. policy.ways - 1

Permutation(vectors) ==
  [kind |-> "permutation", ways |-> Cardinality(DOMAIN vectors), vectors |-> vectors]

Huplru == [kind |-> "huplru", ways |-> 4]

\* What the noise reads of an iteration leave: lines nobody asks for, and tree
\* bits of any value.
NoiseStates(policy) ==
  [line : {[w \in Positions(policy) |-> 0 - w - 1]},
   root : IF policy.kind = "huplru" THEN {0, 1} ELSE {0},
   leaf : IF policy.kind = "huplru" THEN [{0, 1} -> {0, 1}] ELSE {[side \in {0, 1} |-> 0]}]

Holds(set, x) == \E w \in DOMAIN set.line : set.line[w] = x

WayOf(set, x) == CHOOSE w \in DOMAIN set.line : set.line[w] = x

\* A line is looked up, and filled in if it is not there.
Touch(policy, set, x) ==
  CASE policy.kind = "permutation" /\ Holds(set, x) ->
         [set EXCEPT !.line = [w \in DOMAIN @ |-> @[policy.vectors[WayOf(set, x)][w]]]]
    [] policy.kind = "permutation" /\ ~ Holds(set, x) ->
         [set EXCEPT !.line = [w \in DOMAIN @ |-> IF w = 0 THEN x ELSE @[w - 1]]]
    [] policy.kind = "huplru" /\ Holds(set, x) ->
         LET way == WayOf(set, x)
         IN  [set EXCEPT !.root = 1 - (way \div 2), !.leaf[way \div 2] = 1 - (way % 2)]
    [] policy.kind = "huplru" /\ ~ Holds(set, x) ->
         [set EXCEPT !.line[2 * set.root + set.leaf[set.root]] = x]

\* A walk is a sequence of pages <<member, sub entry>> of regions of one set.
\* A page the TLB has does not reach the translation cache any more.
AfterWalk(policy, set, walk) ==
  FoldLeft(LAMBDA at, pg : IF pg \in at.tlb THEN at
                           ELSE [tlb |-> at.tlb \cup {pg}, set |-> Touch(policy, at.set, pg[1])],
           [tlb |-> {}, set |-> set], walk).set

\* Does the entry of member x survive the walk in a set full of noise?
Survives(policy, noise, walk, x) == Holds(AfterWalk(policy, noise, walk), x)
================================================================================
