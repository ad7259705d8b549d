------------------------------ MODULE CacheQuery ------------------------------
(***************************************************************************)
(* query_cache and the device_read of the CacheQuery module: touch the     *)
(* members of one set in the order a query spells, and report the letters  *)
(* whose entries the translation cache then holds.                         *)
(*                                                                         *)
(* The chain is written to the base pages through translations that an     *)
(* earlier iteration may have left: query.c flushes before an iteration,   *)
(* not after it.  A region in "stale" is one whose cached entry still      *)
(* leads to the complementary area.  Regions are members of one set, as in *)
(* ReplacementOrder; a query starts at a random one.                       *)
(***************************************************************************)
EXTENDS PolicyCache

CONSTANTS
  SubEntries,  \* pages mapped per region from its first sub entry (7)
  MaxQueries   \* bound: queries given to one trigger

ASSUME QueryAssumption == SubEntries \in 1 .. 510

VARIABLES
  machine,   \* the level's cache: policy and reach
  asking,    \* the next step: "idle", "letters" or "lost"
  query,     \* query
  map,       \* map: the letters and the pages they are given
  letter,    \* i, position in unique_letters
  state,     \* final_state
  memory,    \* memory[pg]: the pointer in a base page, where one was written
  tlb,       \* pages with a cached base translation
  stale,     \* regions with a cached complementary entry
  asked      \* queries begun

queryVars == <<machine, asking, query, map, letter, state, memory, tlb, stale, asked>>

IsMapped(pg) == pg[1] < machine.reach /\ (pg[2] < SubEntries \/ pg[2] = 511)

QueryInit(caches) ==
  /\ machine \in caches
  /\ asking = "idle"
  /\ query = <<>> /\ map = <<>> /\ letter = 0 /\ state = <<>>
  /\ memory = <<>>
  /\ tlb = {} /\ stale = {} /\ asked = 0

UniqueLetters(letters) ==
  FoldLeft(LAMBDA seen, x : IF Contains(seen, x) THEN seen ELSE Append(seen, x), <<>>, letters)

Uses(entries, x) == {n \in DOMAIN entries : entries[n].letter = x}

\* Faulty variant: the new letter itself is not counted.
NewMemberOneShort(entries, start) ==
  <<start + Len(UniqueLetters([n \in DOMAIN entries |-> entries[n].letter])) - 1, 0>>

NewMember(entries, start) ==
  <<start + Len(UniqueLetters([n \in DOMAIN entries |-> entries[n].letter])), 0>>
NextSub(pg) == <<pg[1], pg[2] + 1>>

\* Faulty variant: the search for the letter starts at the front.
NextAddressFromFront(x, entries, start) ==
  CASE entries = <<>> -> <<start, 0>>
    [] Uses(entries, x) # {} -> NextSub(entries[Min(Uses(entries, x))].page)
    [] OTHER -> NewMember(entries, start)

\* get_next_address: the start, the sub entry after the letter's last one, or
\* the next member of the set.
NextAddressOf(x, entries, start) ==
  CASE entries = <<>> -> <<start, 0>>
    [] Uses(entries, x) # {} -> NextSub(entries[Max(Uses(entries, x))].page)
    [] OTHER -> NewMember(entries, start)

AddressMap(letters, start) ==
  FoldLeft(LAMBDA entries, x :
             Append(entries, [letter |-> x, page |-> NextAddressOf(x, entries, start)]),
           <<>>, letters)

Pages == [n \in DOMAIN map |-> map[n].page]
TargetPage == map[Min(Uses(map, UniqueLetters(query)[letter]))].page
PrefixPage == <<TargetPage[1], 511>>

\* Does a write reach the base page?  Not through a stale entry, unless the TLB
\* still has the page.
Lands(pg, cached, stales) == pg \in cached \/ pg[1] \notin stales

LastUse(pg) == Max({n \in DOMAIN Pages : Pages[n] = pg})

\* build_chain_from_address_map: each page is made to point to the next, the
\* last one to the prefix-aligned page.
ChainWritten(cached, stales) ==
  LET written == {q \in ToSet(Pages) : Lands(q, cached, stales)}
  IN  [pg \in written \cup DOMAIN memory |->
         IF pg \notin written THEN memory[pg]
         ELSE IF LastUse(pg) = Len(Pages) THEN PrefixPage ELSE Pages[LastUse(pg) + 1]]

\* A chase through mem, which ends at end or where nothing was written.
Chase(mem, pg, end) ==
  FoldLeft(LAMBDA walk, n : IF Last(walk) = end \/ Last(walk) \notin DOMAIN mem
                            THEN walk ELSE Append(walk, mem[Last(walk)]),
           <<pg>>, [n \in 1 .. Cardinality(DOMAIN mem) |-> n])

\* The pages it reads before it is at end; <<>> if it never is.
ChaseTo(mem, pg, end) ==
  LET chase == Chase(mem, pg, end) IN IF Last(chase) = end THEN Front(chase) ELSE <<>>

--------------------------------------------------------------------------------
(* The device *)

\* The device is read: the letters get their pages.
ReadQuery(text, start) ==
  /\ asking = "idle" /\ asked < MaxQueries
  /\ query' = text
  /\ map' = AddressMap(text, start)
  /\ letter' = 1
  /\ state' = <<>>
  /\ asking' = "letters"
  /\ asked' = asked + 1
  /\ UNCHANGED <<machine, memory, tlb, stale>>

\* A letter was given a page that is not mapped: writing the chain faults.
QueryFaults ==
  /\ asking = "letters"
  /\ \E n \in DOMAIN Pages : ~ IsMapped(Pages[n])
  /\ asking' = "lost"
  /\ UNCHANGED <<machine, query, map, letter, state, memory, tlb, stale, asked>>

\* One letter: its chain is written, through whatever the machine still has
\* cached; walked on a set full of noise; and its region probed.
MeasureLetter ==
  /\ asking = "letters" /\ letter <= Len(UniqueLetters(query))
  /\ \A n \in DOMAIN Pages : IsMapped(Pages[n])
  /\ \E kept \in {<<tlb, stale>>, <<{}, stale>>, <<tlb, {}>>} :
     \E noise \in NoiseStates(machine.policy) :
       LET written == ChainWritten(kept[1], kept[2])
           walk == ChaseTo(written, Pages[1], PrefixPage)
           member == TargetPage[1]
           missed == ~ Survives(machine.policy, noise, walk, member)
       IN  IF walk = <<>>
           THEN /\ asking' = "lost"
                /\ UNCHANGED <<letter, state, memory, tlb, stale>>
           ELSE /\ memory' = written
                /\ state' = IF missed THEN state
                            ELSE Append(state, UniqueLetters(query)[letter])
                /\ tlb' = ToSet(walk)
                /\ stale' = IF missed THEN {member} ELSE {}
                /\ letter' = letter + 1
                /\ UNCHANGED asking
  /\ UNCHANGED <<machine, query, map, asked>>

\* The final state is copied to the trigger, which prints it.
ReturnState ==
  /\ asking = "letters" /\ letter > Len(UniqueLetters(query))
  /\ asking' = "idle"
  /\ UNCHANGED <<machine, query, map, letter, state, memory, tlb, stale, asked>>

QueryStep == QueryFaults \/ MeasureLetter \/ ReturnState
================================================================================
