------------------------------ MODULE EvictionSet ------------------------------
(***************************************************************************)
(* find_minimal_eviction_set and eviction_set_aligns_with_hash_function:   *)
(* write a chain of neighbouring regions that evicts the target's entry    *)
(* from the level's translation cache, then try to leave its links out one *)
(* by one.  The chain lives in the mapped pages themselves and is never    *)
(* erased, so that a call starts on what earlier calls left behind.        *)
(***************************************************************************)
EXTENDS TranslationCache, Integers

CONSTANTS
  Machines,   \* the caches the level may have
  LengthEnd,  \* length < 512
  Arguments,  \* the structures eviction_set_aligns... is called with
  MaxCalls,   \* bound: calls of the two functions
  End,        \* prefix_aligned_address, where a chain ends
  Nothing     \* no result yet

\* Sub entries 0 and 1 of every mapped region.
Page == (0 .. Entries - 1) \X {0, 1}
LinkPage(r) == <<r, 0>>

ASSUME EvictionSetAssumption ==
  /\ LengthEnd \in Nat /\ LengthEnd > 2
  /\ MaxCalls \in Nat
  /\ End \notin Nat \X {0, 1}
  /\ \A m \in Machines : m.ways \in Nat \ {0}
  /\ \A a \in Arguments : a.ways \in Nat /\ 2^a.setBits * a.ways \in Nat

VARIABLES
  machine,  \* the cache of the level
  memory,   \* memory[pg]: the pointer in a page
  pc,       \* the next step
  call,     \* the function called and its arguments
  length,   \* length
  n,        \* i, the link tried next
  last,     \* last_mandatory_address
  size,     \* size
  result,   \* the value returned
  calls     \* calls made so far

vars == <<machine, memory, pc, call, length, n, last, size, result, calls>>

Target == call.target

TypeOK ==
  /\ machine \in Machines
  /\ memory \in [Page -> (Nat \X {0}) \cup {End, Nothing}]
  /\ pc \in {"idle", "grow", "recheck", "skip", "crashed"}
  /\ length \in Nat
  /\ n \in Nat
  /\ last \in Page
  /\ size \in Nat
  /\ result \in {-1, Nothing} \cup Nat
  /\ calls \in 0 .. MaxCalls

Init ==
  /\ machine \in Machines
  /\ memory = [pg \in Page |-> Nothing]
  /\ pc = "idle"
  /\ call = [name |-> "none", target |-> 0]
  /\ length = 0
  /\ n = 0
  /\ last = LinkPage(0)
  /\ size = 0
  /\ result = Nothing
  /\ calls = 0

--------------------------------------------------------------------------------
(* Chains in memory *)

\* build_pointer_chain: up to len neighbouring regions, cut at the end of the
\* mapped area.
BuildPointerChain(target, len) ==
  LET end == CHOOSE e \in target .. target + len :
               /\ Mapped(e)
               /\ e = target + len \/ ~ Mapped(e + 1)
  IN  [pg \in Page |->
         CASE pg[2] = 0 /\ pg[1] \in target .. end - 1 -> LinkPage(pg[1] + 1)
           [] pg = LinkPage(end) -> End
           [] OTHER -> memory[pg]]

\* The pages a chase through mem touches, one after the other; it stays where
\* it is once it has reached the end or a page that is not mapped.
Chase(mem, target) ==
  LET at[q \in 0 .. Cardinality(Page) + 1] ==
        IF q = 0 THEN LinkPage(target)
        ELSE LET pg == at[q - 1] IN IF pg \in Page THEN mem[pg] ELSE pg
  IN  at

Arrives(mem, target) == Chase(mem, target)[Cardinality(Page) + 1] = End

Walk(mem, target) ==
  LET at == Chase(mem, target)
      links == {q \in DOMAIN at : at[q] \in Page}
  IN  [q \in 1 .. Cardinality(links) |-> at[q - 1][1]]

\* chain_evicts, when the chase arrives.
Evicts(mem, target) == ~ Remembers(machine, Walk(mem, target), target)

--------------------------------------------------------------------------------
(* The functions *)

Return(value) == pc' = "idle" /\ result' = value

CallFind(target) ==
  /\ pc = "idle"
  /\ calls < MaxCalls
  /\ calls' = calls + 1
  /\ call' = [name |-> "find", target |-> target]
  /\ length' = 2
  /\ pc' = "grow"
  /\ result' = Nothing
  /\ UNCHANGED <<machine, memory, n, last, size>>

\* Faulty variant: the longest chain is not tried.
GrowOneShort ==
  /\ pc = "grow"
  /\ IF length < LengthEnd - 1
     THEN /\ memory' = BuildPointerChain(Target, length)
          /\ IF Evicts(memory', Target)
             THEN pc' = "recheck" /\ UNCHANGED length
             ELSE UNCHANGED pc /\ length' = length + 1
     ELSE pc' = "recheck" /\ UNCHANGED <<memory, length>>
  /\ UNCHANGED <<machine, call, n, last, size, result, calls>>

\* Lines 70 to 75: the shortest chain of neighbours that evicts.
Grow ==
  /\ pc = "grow"
  /\ IF length < LengthEnd
     THEN /\ memory' = BuildPointerChain(Target, length)
          /\ IF Evicts(memory', Target)
             THEN pc' = "recheck" /\ UNCHANGED length
             ELSE UNCHANGED pc /\ length' = length + 1
     ELSE pc' = "recheck" /\ UNCHANGED <<memory, length>>
  /\ UNCHANGED <<machine, call, n, last, size, result, calls>>

\* Lines 77 to 83.
Recheck ==
  /\ pc = "recheck"
  /\ IF Evicts(memory, Target)
     THEN /\ pc' = "skip"
          /\ n' = 1
          /\ size' = 2
          /\ last' = LinkPage(Target)
          /\ UNCHANGED result
     ELSE Return(-1) /\ UNCHANGED <<n, size, last>>
  /\ UNCHANGED <<machine, memory, call, length, calls>>

\* Lines 99 to 114 of the second function; a null hash expects no eviction.
CallAlign(target, structure) ==
  /\ pc = "idle"
  /\ calls < MaxCalls
  /\ calls' = calls + 1
  /\ call' = [name |-> "align", target |-> target, structure |-> structure]
  /\ length' = 2^structure.setBits * structure.ways
  /\ memory' = BuildPointerChain(target, length')
  /\ IF Evicts(memory', target)
     THEN pc' = "skip" /\ n' = 1 /\ size' = 2 /\ last' = LinkPage(target) /\ result' = Nothing
     ELSE /\ Return(IF structure.hash = "null" THEN 1 ELSE 0)
          /\ UNCHANGED <<n, size, last>>
  /\ UNCHANGED machine

\* Faulty variant: the last link is tried too.
SkippingTheLast == pc = "skip" /\ n <= length

Skipping == pc = "skip" /\ n < length
Skipped == [memory EXCEPT ![last] = LinkPage(Target + n + 1)]
IsMandatory == ~ Evicts(Skipped, Target)

\* The link leads out of the mapped area: the chase faults.
SkipFaults ==
  /\ Skipping
  /\ ~ Arrives(Skipped, Target)
  /\ pc' = "crashed"
  /\ memory' = Skipped
  /\ UNCHANGED <<machine, call, length, n, last, size, result, calls>>

\* Faulty variant: links left out are counted as members of the set.
LeaveOutCounted ==
  /\ Skipping
  /\ Arrives(Skipped, Target)
  /\ ~ IsMandatory
  /\ memory' = Skipped
  /\ n' = n + 1
  /\ size' = size + 1
  /\ UNCHANGED <<machine, pc, call, length, last, result, calls>>

\* The chain evicts without link n: it stays out.
LeaveOut ==
  /\ Skipping
  /\ Arrives(Skipped, Target)
  /\ ~ IsMandatory
  /\ memory' = Skipped
  /\ n' = n + 1
  /\ UNCHANGED <<machine, pc, call, length, last, size, result, calls>>

\* Faulty variant: the link is counted but not put back.
PutBackForgotten ==
  /\ memory' = Skipped
  /\ last' = <<Target + n, 1>>
  /\ size' = size + 1
  /\ n' = n + 1
  /\ UNCHANGED <<pc, result>>

\* Faulty variant: the next link is written to the sub entry after.
PutBackNextSub ==
  /\ memory' = [memory EXCEPT ![last] = LinkPage(Target + n)]
  /\ last' = <<Target + n, 2>>
  /\ size' = size + 1
  /\ n' = n + 1
  /\ UNCHANGED <<pc, result>>

\* Link n is put back, and the next links are tried after its sub entry 1.
PutBack ==
  /\ memory' = [memory EXCEPT ![last] = LinkPage(Target + n)]
  /\ last' = <<Target + n, 1>>
  /\ size' = size + 1
  /\ n' = n + 1
  /\ UNCHANGED <<pc, result>>

KeepFound ==
  /\ Skipping
  /\ call.name = "find"
  /\ Arrives(Skipped, Target)
  /\ IsMandatory
  /\ PutBack
  /\ UNCHANGED <<machine, call, length, calls>>

\* What the hash says the next member of the set is.
Predicted ==
  Hash(call.structure.hash, Target, size - 1, call.structure.setBits)

\* Faulty variant: a mandatory link the hash does not predict is no objection.
KeepAlignedUnchecked ==
  /\ Skipping
  /\ call.name = "align"
  /\ call.structure.hash # "null"
  /\ Arrives(Skipped, Target)
  /\ IsMandatory
  /\ PutBack
  /\ UNCHANGED <<machine, call, length, calls>>

KeepAligned ==
  /\ Skipping
  /\ call.name = "align"
  /\ call.structure.hash # "null"
  /\ Arrives(Skipped, Target)
  /\ IsMandatory
  /\ IF Predicted = Target + n
     THEN PutBack
     ELSE Return(0) /\ memory' = Skipped /\ UNCHANGED <<last, size, n>>
  /\ UNCHANGED <<machine, call, length, calls>>

\* hash is called without a look at it.
CallNull ==
  /\ Skipping
  /\ call.name = "align"
  /\ call.structure.hash = "null"
  /\ Arrives(Skipped, Target)
  /\ IsMandatory
  /\ pc' = "crashed"
  /\ memory' = Skipped
  /\ UNCHANGED <<machine, call, length, n, last, size, result, calls>>

ReturnFound ==
  /\ pc = "skip"
  /\ n >= length
  /\ call.name = "find"
  /\ Return(size)
  /\ UNCHANGED <<machine, memory, call, length, n, last, size, calls>>

ReturnAligned ==
  /\ pc = "skip"
  /\ n >= length
  /\ call.name = "align"
  /\ Return(IF size = call.structure.ways + 1 THEN 1 ELSE 0)
  /\ UNCHANGED <<machine, memory, call, length, n, last, size, calls>>

Next ==
  \/ \E target \in Starts :
       CallFind(target) \/ \E structure \in Arguments : CallAlign(target, structure)
  \/ Grow \/ Recheck \/ SkipFaults \/ LeaveOut
  \/ KeepFound \/ KeepAligned \/ CallNull \/ ReturnFound \/ ReturnAligned

Spec == Init /\ [][Next]_vars

--------------------------------------------------------------------------------
(* Properties *)

FindReturned == pc = "idle" /\ call.name = "find"
AlignReturned == pc = "idle" /\ call.name = "align"

\* Whatever an earlier call left in the pages and although the links are
\* rewritten while they are tried, the chain a successful search leaves in
\* memory ends at the prefix-aligned address and still evicts the target
\* (eviction_sets.c:85-95).
FoundSetEvicts ==
  FindReturned /\ result # -1 =>
    Arrives(memory, Target) /\ Evicts(memory, Target)

\* evaluate_cache_structure follows "size" pages of the chain to print the set
\* (evaluation.c:163-173): it never runs past the end of the chain, where it
\* would go on from the word in the prefix-aligned page.
PrintingStaysOnChain ==
  FindReturned /\ result # -1 => result <= Len(Walk(memory, Target))

\* The search gives up only when no chain of neighbours it may try, within the
\* mapped area, evicts (eviction_sets.c:70-81).
GivesUpRightly ==
  FindReturned /\ result = -1 =>
    \A len \in 2 .. LengthEnd - 1 : ~ Evicts(BuildPointerChain(Target, len), Target)

\* A structure of two or more ways that is said to align is one whose first
\* predicted member really is in the target's set (eviction_sets.c:107-130); of
\* a structure of one way the last link, which is never left out, is the only
\* member, and nothing compares it with the hash.
AlignSound ==
  AlignReturned /\ result = 1 /\ call.structure.hash # "null" /\ call.structure.ways > 1 =>
    SetOf(machine, Hash(call.structure.hash, Target, 1, call.structure.setBits))
      = SetOf(machine, Target)

\* The links written while skipping (eviction_sets.c:87, 118) have no bound of
\* their own, and hash is called unchecked.  A search runs out of the mapped
\* area only with its shortest chain, where the mapped area ends right after
\* the target's neighbour; an alignment check only with a structure whose
\* neighbours are not all mapped; and only a null hash is called in vain.
FaultsOnlyOutside ==
  pc = "crashed" =>
    \/ call.name = "find" /\ length = 2 /\ ~ Mapped(Target + 2)
    \/ call.name = "align" /\ ~ Mapped(Target + length)
    \/ call.name = "align" /\ call.structure.hash = "null"

\* What the function's name, the switch PRINT_MINIMAL_EVICTION_SET and the line
\* "Minimal eviction set for 0x%lx" (evaluation.c:160) say: no member of the
\* set that was found can be left out.
FoundSetIsMinimal ==
  FindReturned /\ result # -1 =>
    LET walk == Walk(memory, Target)
        Without(q) == [m \in 1 .. Len(walk) - 1 |-> IF m < q THEN walk[m] ELSE walk[m + 1]]
    IN  \A q \in 2 .. Len(walk) : Remembers(machine, Without(q), Target)

--------------------------------------------------------------------------------
(* Why it is correct: the chains that are in memory between two steps *)

\* The chain leads from region t over all regions first .. end to its end.
Chained(mem, t, first, end) ==
  /\ mem[LinkPage(t)] = IF first <= end THEN LinkPage(first) ELSE End
  /\ \A r \in first .. end : mem[LinkPage(r)] = IF r < end THEN LinkPage(r + 1) ELSE End

\* The last region of the chain that build_pointer_chain writes.
ChainEnd(t, len) == IF Mapped(t + len) THEN t + len ELSE Entries - 1

Rivals(t, first, end) == {s \in first .. end : SetOf(machine, s) = SetOf(machine, t)}

\* Walking such a chain evicts t.
Fills(t, first, end) == Cardinality(Rivals(t, first, end)) >= machine.ways

\* No chain that is shorter than len evicts.
NoneBelow(len) == \A l \in 2 .. len - 1 : ~ Fills(Target, Target + 1, ChainEnd(Target, l))

WrittenTo(len) == Chained(memory, Target, Target + 1, ChainEnd(Target, len))

CallInv ==
  /\ Target \in 0 .. Entries - 1
  /\ pc \in {"grow", "recheck"} => call.name = "find"
  /\ pc \in {"skip", "crashed"} => call.name \in {"find", "align"}
  /\ call.name = "align" => call.structure \in Arguments

\* The chains are tried from the shortest on.
SearchInv ==
  /\ pc \in {"grow", "recheck"} => length \in 2 .. LengthEnd /\ NoneBelow(length)
  /\ pc = "grow" /\ length > 2 => WrittenTo(length - 1)
  /\ pc = "recheck" =>
       IF length < LengthEnd
       THEN WrittenTo(length) /\ Fills(Target, Target + 1, ChainEnd(Target, length))
       ELSE WrittenTo(length - 1)

\* Up to the first mandatory link the links tried are left out; every later link
\* is written to a page the chain does not use, and nothing changes any more.
SkipInv ==
  pc = "skip" =>
    /\ n \in Nat \ {0}
    /\ call.name = "find" => length = 2 \/ Mapped(Target + length)
    /\ \E first \in Target + 1 .. ChainEnd(Target, length) :
         /\ Chained(memory, Target, first, ChainEnd(Target, length))
         /\ Fills(Target, first, ChainEnd(Target, length))
         /\ \/ last = LinkPage(Target) /\ size = 2 /\ first = Target + n
            \/ /\ last = <<first, 1>> /\ size = 3
               /\ first < ChainEnd(Target, length)
               /\ ~ Fills(Target, first + 1, ChainEnd(Target, length))
               /\ call.name = "align" =>
                    Hash(call.structure.hash, Target, 1, call.structure.setBits) = first

\* What a search returns.
FoundInv ==
  FindReturned =>
    \/ result = -1 /\ NoneBelow(LengthEnd)
    \/ \E first \in Target + 1 .. ChainEnd(Target, length) :
         /\ Chained(memory, Target, first, ChainEnd(Target, length))
         /\ Fills(Target, first, ChainEnd(Target, length))
         /\ result \in 2 .. ChainEnd(Target, length) - first + 2

EvictionIInv ==
  /\ TypeOK
  /\ CallInv
  /\ SearchInv
  /\ SkipInv
  /\ FoundInv
  /\ AlignSound
  /\ FaultsOnlyOutside
================================================================================
