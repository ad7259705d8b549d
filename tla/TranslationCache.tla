--------------------------- MODULE TranslationCache ----------------------------
(***************************************************************************)
(* A set-associative translation cache with least-recently-used            *)
(* replacement, and what test_hash_function measures on it.  A walk is the *)
(* sequence of the regions a pointer chain touches.                        *)
(***************************************************************************)
EXTENDS HashFunctions, FiniteSets

CONSTANTS
  Entries,  \* PAGE_TABLE_ENTRIES[level]
  Starts    \* the regions a random start address can fall into

ASSUME TranslationCacheAssumption ==
  /\ Entries \in Nat \ {0}
  /\ Starts \subseteq 0 .. Entries - 1

\* Regions on both sides of a set: lin indexes by the low bits of the region
\* number, lin_shift by the bits above its lowest.
SetOf(machine, r) ==
  (IF machine.hash = "lin" THEN r ELSE r \div 2) % machine.sets

\* Does the cache still hold r after the walk?  It does when fewer than ways
\* other regions of its set were touched since.
Remembers(machine, walk, r) ==
  \E n \in DOMAIN walk :
    /\ walk[n] = r
    /\ Cardinality({s \in {walk[q] : q \in n + 1 .. Len(walk)} \ {r} :
                      SetOf(machine, s) = SetOf(machine, r)}) < machine.ways

Mapped(r) == r < Entries

\* Faulty variant: the chain has one link too many.
ChainFromHashOneLong(start, length, function, setBits) ==
  LET links == {o \in 1 .. length + 1 :
                  \A q \in 1 .. o : Mapped(Hash(function, start, q, setBits))}
  IN  [n \in 1 .. Cardinality(links) + 1 |-> Hash(function, start, n - 1, setBits)]

\* build_pointer_chain_from_hash: the start and up to length links, cut at the
\* first one that is not mapped.
ChainFromHash(start, length, function, setBits) ==
  LET links == {o \in 1 .. length :
                  \A q \in 1 .. o : Mapped(Hash(function, start, q, setBits))}
  IN  [n \in 1 .. Cardinality(links) + 1 |-> Hash(function, start, n - 1, setBits)]

\* One iteration of test_hash_function: some link of the chain but the last is
\* forgotten once the chain has been walked; unmapped links are not probed.
ChainForgets(machine, ways, setBits, function, start) ==
  \E j \in 0 .. ways - 1 :
    LET target == Hash(function, start, j, setBits)
    IN  /\ Mapped(target)
        /\ ~ Remembers(machine, ChainFromHash(start, ways, function, setBits), target)

\* test_hash_function, with each possible start drawn once.
TestHashFunction(machine, ways, setBits, function) ==
  Cardinality({s \in Starts : ChainForgets(machine, ways, setBits, function, s)})
================================================================================
