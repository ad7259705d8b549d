--------------------------- MODULE ReplacementOrder ---------------------------
(***************************************************************************)
(* calculate_permutation_vectors and determine_replacement_order: fill the *)
(* set of a random start with the other members, hit one of them, and find *)
(* out in which order the members are evicted afterwards.                  *)
(*                                                                         *)
(* A member of the set is its offset from the start, as the hash counts    *)
(* them: hash(start, o) is member o and hash(next_address, j) is member    *)
(* ways + j.  The iterations of one target are those of Measurement; its   *)
(* count passes THRESHOLD exactly if the walk evicts it.                   *)
(***************************************************************************)
EXTENDS PolicyCache

CONSTANTS
  Garbage,  \* what kmalloc'ed memory may hold besides 0 and addresses of the set
  MaxDirty  \* bound: blocks of one call that hold anything but 0

ASSUME ReplacementAssumption == Garbage \cap Int = {} /\ MaxDirty \in Nat

VARIABLES
  step,        \* the next step of calculate_permutation_vectors
  cache,       \* translation_caches[level], with the machine's policy
  chain,       \* the pages of the pointer chain from set_start to last_address
  order,       \* replacement_order, by position
  position,    \* position
  initial,     \* initial_order
  vector,      \* i, the permutation triggered; -1 before the first
  vectors,     \* permutation_vectors
  dirty,       \* history: kmalloc'ed blocks that held anything but 0
  leftover     \* history: one of them held a member's address

NoAddress == -1  \* 0x0

replacementVars ==
  <<step, cache, chain, order, position, initial, vector, vectors, dirty, leftover>>

Ways == cache.policy.ways
Members == 0 .. Ways - 1
NextAddress == Ways
Mapped(member) == member < cache.reach

\* Before the first call.
NoCache == [policy |-> Permutation([w \in {0} |-> [v \in {0} |-> 0]]),
            known |-> FALSE, reach |-> 0]

ReplacementInit ==
  /\ step = "idle" /\ cache = NoCache /\ chain = <<>>
  /\ order = [w \in Members |-> NoAddress] /\ initial = order
  /\ position = -1 /\ vector = -1
  /\ vectors = [w \in Members |-> [v \in Members |-> -1]]
  /\ dirty = 0 /\ leftover = FALSE

\* build_pointer_chain_from_hash_single: the start twice, then the links, cut
\* at the first that is not mapped.
ChainFromHashSingle(start, length) ==
  <<<<start, 0>>, <<start, 1>>>>
    \o [n \in 1 .. Cardinality({o \in 1 .. length : Mapped(start + o)}) |-> <<start + n, 0>>]

\* What kmalloc may return: zeros, or whatever the memory was used for before.
Clean == [w \in Members |-> NoAddress]
Words == [Members -> Members \cup Garbage \cup {NoAddress}]
Blocks == IF dirty < MaxDirty THEN Words ELSE {Clean}

\* Faulty variant: the positions are determined from the last but one.
BeginOrderOneLow ==
  /\ order' \in Blocks
  /\ dirty' = IF order' = Clean THEN dirty ELSE dirty + 1
  /\ leftover' = (leftover \/ \E w \in Members : order'[w] \in Members)
  /\ position' = Ways - 2
  /\ step' = "order"

BeginOrder ==
  /\ order' \in Blocks
  /\ dirty' = IF order' = Clean THEN dirty ELSE dirty + 1
  /\ leftover' = (leftover \/ \E w \in Members : order'[w] \in Members)
  /\ position' = Ways - 1
  /\ step' = "order"

\* The level's structure is read and the set chain written; without a structure
\* the hash pointer is NULL, and it is called.
CalculatePermutationVectors(level) ==
  /\ step = "idle"
  /\ cache' = level
  /\ dirty' = 0 /\ leftover' = FALSE /\ vector' = -1
  /\ LET positions == Positions(level.policy) IN
     /\ vectors' = [i \in positions |-> [j \in positions |-> -1]]
     /\ initial' = [w \in positions |-> NoAddress]
  /\ step' = IF level.known THEN "allocate" ELSE "crashed"
  /\ UNCHANGED <<chain, order, position>>

BuildSetChain ==
  /\ step = "allocate"
  /\ chain' = ChainFromHashSingle(0, Ways - 1)
  /\ BeginOrder
  /\ UNCHANGED <<cache, initial, vector, vectors>>

\* next_address and what follows it, up to the prefix-aligned page.
EvictionChain == ChainFromHashSingle(NextAddress, Ways - position - 1)

\* The members that the chains evict, depending on what the noise has left; the
\* count is on either side of THRESHOLD if that differs.
EvictedAfter(noise) ==
  {t \in Members : ~ Survives(cache.policy, noise, chain \o EvictionChain, t)}

Outcomes ==
  LET all == {EvictedAfter(noise) : noise \in NoiseStates(cache.policy)}
      always == {t \in Members : \A e \in all : t \in e}
  IN  {always \cup sometimes : sometimes \in SUBSET ((UNION all) \ always)}

Unplaced(evicted) == {t \in evicted : \A w \in Members : order[w] # t}

\* The first write after the set chain is to next_address, mapped or not.
OrderFaults ==
  /\ step = "order"
  /\ ~ Mapped(NextAddress)
  /\ step' = "crashed"
  /\ UNCHANGED <<cache, chain, order, position, initial, vector, vectors, dirty, leftover>>

\* One position: the first member not placed yet that is evicted takes it; if
\* there is none, the entry stays what it was.
DeterminePosition ==
  /\ step = "order" /\ position >= 0 /\ Mapped(NextAddress)
  /\ \E evicted \in Outcomes :
       order' = IF Unplaced(evicted) = {} THEN order
                ELSE [order EXCEPT ![position] = Min(Unplaced(evicted))]
  /\ position' = position - 1
  /\ UNCHANGED <<step, cache, chain, initial, vector, vectors, dirty, leftover>>

\* The first order found is the initial one ...
TakeInitialOrder ==
  /\ step = "order" /\ position = -1 /\ vector = -1
  /\ initial' = order
  /\ vector' = 0
  /\ step' = "trigger"
  /\ UNCHANGED <<cache, chain, order, position, vectors, dirty, leftover>>

\* ... and every later one is compared with it.
CompareOrder ==
  /\ step = "order" /\ position = -1 /\ vector >= 0
  /\ vectors' = [vectors EXCEPT ![vector] =
       [j \in Members |->
          LET same == {k \in Members : initial[k] = order[j]}
          IN  IF same = {} THEN -1 ELSE Min(same)]]
  /\ vector' = vector + 1
  /\ step' = "trigger"
  /\ UNCHANGED <<cache, chain, order, position, initial, dirty, leftover>>

\* "[*] Skipping permutation vector"
SkipVector ==
  /\ step = "trigger" /\ vector \in Members
  /\ initial[vector] = NoAddress
  /\ vector' = vector + 1
  /\ UNCHANGED <<step, cache, chain, order, position, initial, vectors, dirty, leftover>>

\* Faulty variant: the hit is on a page that the chain has been through.
TriggerPageAlreadyTouched == <<initial[vector], 0>>

\* A page of the member that neither chain has touched.
TriggerPage == <<initial[vector], 2>>

TriggerPermutation ==
  /\ step = "trigger" /\ vector \in Members
  /\ initial[vector] \in Members
  /\ chain' = ChainFromHashSingle(0, Ways - 1) \o <<TriggerPage>>
  /\ BeginOrder
  /\ UNCHANGED <<cache, initial, vector, vectors>>

\* What no member took the place of is accessed as well, though it is no address
\* of the set: the write faults, or reaches a page of another set or of a member
\* beyond the ways.  What it destroys there is not looked at.
TriggerGarbage ==
  /\ step = "trigger" /\ vector \in Members
  /\ initial[vector] \in Garbage
  /\ \/ /\ step' = "crashed"
        /\ UNCHANGED <<chain, order, position, dirty, leftover>>
     \/ /\ \E touched \in {<<>>} \cup {<<<<o, 2>>>> : o \in {x \in Ways .. 2 * Ways : Mapped(x)}} :
             chain' = ChainFromHashSingle(0, Ways - 1) \o touched
        /\ BeginOrder
  /\ UNCHANGED <<cache, initial, vector, vectors>>

PermutationVectors ==
  /\ step = "trigger" /\ vector = Ways
  /\ step' = "done"
  /\ UNCHANGED <<cache, chain, order, position, initial, vector, vectors, dirty, leftover>>

ReplacementStep ==
  \/ BuildSetChain \/ OrderFaults \/ DeterminePosition \/ TakeInitialOrder
  \/ CompareOrder \/ SkipVector \/ TriggerPermutation \/ TriggerGarbage
  \/ PermutationVectors
================================================================================
