---------------------------------- MODULE Mmu ----------------------------------
(***************************************************************************)
(* The translation hardware of one logical CPU and the memory the trigger  *)
(* program maps, as the experiments see them for ONE page-table level.     *)
(*                                                                         *)
(* A Region is what one entry of that level covers; entry r of the base    *)
(* area has a twin, entry r of the complementary area, and                 *)
(* switch_page_table_entries swaps the two.  A page <<r, sub>> is sub      *)
(* entry "sub" of region r: sub 0 holds the chain link, sub 511 (0x1ff) is *)
(* the prefix-aligned probe address.  Only base addresses are accessed.    *)
(*                                                                         *)
(* A translation cache (paging-structure cache) holds page-table entries   *)
(* of the level, a TLB whole translations.  Both come in an instruction, a *)
(* data and a shared flavour (struct tlb has i_tlb, d_tlb and s_tlb); an   *)
(* access looks its own kind up first and then the shared one.  The caches *)
(* hold Capacity entries and evict the least recently used one; the TLBs   *)
(* are large enough for the pages of an experiment.  What the machine has  *)
(* (present) is what the program sets out to discover.                     *)
(***************************************************************************)
EXTENDS Naturals, FiniteSets

CONSTANTS
  Entries,   \* PAGE_TABLE_ENTRIES[level]: entries mapped in each area
  Capacity,  \* entries of a translation cache of the level
  Nothing,   \* no entry cached
  Zero,      \* the word 0 a base page is initialised with
  Signal     \* SIGNAL, the word a complementary page is initialised with

Region == 0 .. Entries - 1
Sub == {0, 511}
Page == Region \X Sub
Word == Page \cup {Zero, Signal}

Area == {"base", "complementary"}
Kind == {"instruction", "data"}
Structure == Kind \cup {"shared"}

ASSUME MmuAssumption ==
  /\ Entries \in Nat \ {0}
  /\ Capacity \in Nat \ {0}
  /\ Nothing \notin Area \cup Kind
  /\ Zero # Signal
  /\ Zero \notin Page
  /\ Signal \notin Page

VARIABLES
  pageTable,  \* pageTable[a][r]: the area whose memory entry r of area a maps
  memory,     \* memory[a][pg]: the word at offset 4 of a page
  tlb,        \* tlb[s][pg]: the area a cached translation leads to
  cache,      \* cache[s][r]: the area a cached page-table entry leads to
  newer,      \* newer[s][r]: entries of s used since r was last used
  present     \* the translation caches this machine has

mmuVars == <<pageTable, memory, tlb, cache, newer, present>>

MmuTypeOK ==
  /\ pageTable \in [Area -> [Region -> Area]]
  /\ memory \in [Area -> [Page -> Word]]
  /\ tlb \in [Structure -> [Page -> Area \cup {Nothing}]]
  /\ cache \in [Structure -> [Region -> Area \cup {Nothing}]]
  /\ newer \in [Structure -> [Region -> SUBSET Region]]
  /\ present \subseteq Structure

\* setup_levels has mapped and initialised both areas; nothing is cached yet.
MmuInit ==
  /\ pageTable = [a \in Area |-> [r \in Region |-> a]]
  /\ memory = [a \in Area |-> [pg \in Page |-> IF a = "base" THEN Zero ELSE Signal]]
  /\ tlb = [s \in Structure |-> [pg \in Page |-> Nothing]]
  /\ cache = [s \in Structure |-> [r \in Region |-> Nothing]]
  /\ newer = [s \in Structure |-> [r \in Region |-> {}]]
  /\ present \in SUBSET Structure

--------------------------------------------------------------------------------
(* Address translation *)

Serving(kind) == {kind, "shared"}

TlbHit(kind, pg) == \E s \in Serving(kind) : tlb[s][pg] # Nothing

\* Where an access goes: TLB first, then the translation caches, then memory.
Translate(kind, pg) ==
  LET r == pg[1] IN
  IF tlb[kind][pg] # Nothing THEN tlb[kind][pg]
  ELSE IF tlb["shared"][pg] # Nothing THEN tlb["shared"][pg]
  ELSE IF cache[kind][r] # Nothing THEN cache[kind][r]
  ELSE IF cache["shared"][r] # Nothing THEN cache["shared"][r]
  ELSE pageTable["base"][r]

\* The word an access of this kind returns (read_data, fetch_instruction).
Load(kind, pg) == memory[Translate(kind, pg)][pg]

\* Entries of s used more recently than q once r has been used as well.
NewerAfter(s, r, q) == IF q = r THEN {} ELSE newer[s][q] \cup {r}

\* Using entry r, which leads to area a, in s: the least recently used goes.
Used(s, r, a) ==
  [q \in Region |-> IF q = r THEN a
                    ELSE IF Cardinality(NewerAfter(s, r, q)) >= Capacity THEN Nothing
                    ELSE cache[s][q]]

\* An access fills the TLBs that serve it, and, when it had to walk the page
\* table, the translation caches that serve it.
Access(kind, pg) ==
  LET a == Translate(kind, pg)
      filled == IF TlbHit(kind, pg) THEN {} ELSE Serving(kind) \cap present
  IN  /\ tlb' = [s \in Structure |-> IF s \in Serving(kind)
                                     THEN [tlb[s] EXCEPT ![pg] = a] ELSE tlb[s]]
      /\ cache' = [s \in Structure |-> IF s \in filled
                                       THEN Used(s, pg[1], a) ELSE cache[s]]
      /\ newer' = [s \in Structure |->
                     IF s \in filled THEN [q \in Region |-> NewerAfter(s, pg[1], q)]
                     ELSE newer[s]]

--------------------------------------------------------------------------------
(* Operations of the program on the hardware *)

ReadOnly(kind, pg) == Access(kind, pg) /\ UNCHANGED <<pageTable, memory, present>>

WriteData(pg, word) ==
  /\ memory' = [memory EXCEPT ![Translate("data", pg)][pg] = word]
  /\ Access("data", pg)
  /\ UNCHANGED <<pageTable, present>>

EmptyCaches ==
  /\ tlb' = [s \in Structure |-> [pg \in Page |-> Nothing]]
  /\ cache' = [s \in Structure |-> [r \in Region |-> Nothing]]
  /\ newer' = [s \in Structure |-> [r \in Region |-> {}]]

FlushMmuCaches == EmptyCaches /\ UNCHANGED <<pageTable, memory, present>>

SwitchPageTableEntries(r) ==
  /\ pageTable' = [a \in Area |->
                     [pageTable[a] EXCEPT ![r] =
                        pageTable[IF a = "base" THEN "complementary" ELSE "base"][r]]]
  /\ UNCHANGED <<memory, tlb, cache, newer, present>>

\* The hardware may drop what it caches at any time; a sibling hyperthread
\* competing for the caches makes it do so.
DropTranslation(s, pg) ==
  /\ tlb[s][pg] # Nothing
  /\ tlb' = [tlb EXCEPT ![s][pg] = Nothing]
  /\ UNCHANGED <<pageTable, memory, cache, newer, present>>

DropEntry(s, r) ==
  /\ cache[s][r] # Nothing
  /\ cache' = [cache EXCEPT ![s][r] = Nothing]
  /\ newer' = [newer EXCEPT ![s] = [q \in Region |-> IF q = r THEN {} ELSE @[q] \ {r}]]
  /\ UNCHANGED <<pageTable, memory, tlb, present>>

--------------------------------------------------------------------------------
(* What it means for the address space to be undisturbed *)

\* Every entry maps its own area.
PageTableIntact == pageTable = [a \in Area |-> [r \in Region |-> a]]

\* No cached translation contradicts the page table.
CachesCoherent ==
  \A s \in Structure : \A pg \in Page :
    /\ tlb[s][pg] \in {Nothing, pageTable["base"][pg[1]]}
    /\ cache[s][pg[1]] \in {Nothing, pageTable["base"][pg[1]]}

================================================================================
