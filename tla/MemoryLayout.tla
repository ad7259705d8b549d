----------------------------- MODULE MemoryLayout -----------------------------
(***************************************************************************)
(* setup_levels and setup_level_entry of a trigger: for every entry of the *)
(* levels 2, 3 and 4 map the pages at its first sub entries and at its     *)
(* last one, without the pages that lower levels have mapped already.      *)
(*                                                                         *)
(* A page is its number from the base address: a level 2 entry is          *)
(* TableEntries pages, a level 3 entry TableEntries times as many.  Both   *)
(* areas are laid out alike, the base area and the complementary one.      *)
(***************************************************************************)
EXTENDS Integers

CONSTANTS
  TableEntries,   \* entries of a page table (512)
  FirstSubs,      \* first sub entries mapped (3; CacheQuery: 7)
  Layouts         \* values of PAGE_TABLE_ENTRIES, as [2 .. 4 -> Nat]

ASSUME LayoutAssumption ==
  /\ FirstSubs \in Nat \ {0} /\ TableEntries \in Nat /\ TableEntries > FirstSubs
  /\ Layouts \subseteq [2 .. 4 -> Nat]

VARIABLES
  entries,               \* PAGE_TABLE_ENTRIES
  layoutLevel,           \* the loop of setup_levels that runs; 5 after the last
  layoutIndex,           \* page_table_2_index, index_page_table_3, index_page_table_4
  mapped_address_count,  \* mapped_address_count, pages of the file used up
  mappedPages            \* pages with a mapping

layoutVars == <<entries, layoutLevel, layoutIndex, mapped_address_count, mappedPages>>

LastSub == TableEntries - 1

\* PAGE_TABLE_INDEX_SHIFT, in pages.
Span(level) ==
  CASE level = 1 -> 1
    [] level = 2 -> TableEntries
    [] level = 3 -> TableEntries * TableEntries
    [] level = 4 -> TableEntries * TableEntries * TableEntries

PageOf(level, index, sub) == index * Span(level) + sub * Span(level - 1)

\* PAGE_TABLE_ENTRIES[2]/512, and is it more than level 3 has on its own?
Covered == entries[2] \div TableEntries
CoveredIsMore == Covered > entries[3]

FirstIndex(level) ==
  CASE level = 2 -> 0
    [] level = 3 -> Covered
    [] level = 4 -> (IF CoveredIsMore THEN Covered ELSE entries[3]) \div TableEntries
    [] OTHER -> 0

\* Faulty variant: the partly mapped entry is taken for an entirely mapped one.
StartIndexPastMapped(level, index) ==
  IF level = 3 /\ index = Covered /\ entries[2] % TableEntries > 0
  THEN (entries[2] % TableEntries) + 1
  ELSE 0

\* start_index: the first sub entry that is not mapped yet.  On level 4, == binds
\* tighter than ?:, so that the condition is the quotient chosen.
StartIndex(level, index) ==
  CASE level = 3 /\ index = Covered -> entries[2] % TableEntries
    [] level = 4 /\ (IF index = (IF CoveredIsMore THEN 1 ELSE 0)
                     THEN Covered \div TableEntries
                     ELSE entries[3] \div TableEntries) # 0 ->
         (IF CoveredIsMore THEN Covered ELSE entries[3]) % TableEntries
    [] OTHER -> 0

LayoutInit ==
  /\ entries \in Layouts
  /\ layoutLevel = 2 /\ layoutIndex = 0
  /\ mapped_address_count = 0 /\ mappedPages = {}

\* Faulty variant: <= for <.
SetupLevelEntryPastEnd ==
  /\ layoutLevel <= 4 /\ layoutIndex <= entries[layoutLevel]
  /\ LET start == StartIndex(layoutLevel, layoutIndex)
         subs == start .. FirstSubs - 1
     IN  /\ mapped_address_count' =
              mapped_address_count + (IF start < FirstSubs THEN FirstSubs - start ELSE 0) + 1
         /\ mappedPages' = mappedPages \cup
              {PageOf(layoutLevel, layoutIndex, sub) : sub \in subs \cup {LastSub}}
  /\ layoutIndex' = layoutIndex + 1
  /\ UNCHANGED <<entries, layoutLevel>>

\* One entry: its first sub entries from start_index on, and the last one.
SetupLevelEntry ==
  /\ layoutLevel <= 4 /\ layoutIndex < entries[layoutLevel]
  /\ LET start == StartIndex(layoutLevel, layoutIndex)
         subs == start .. FirstSubs - 1
     IN  /\ mapped_address_count' =
              mapped_address_count + (IF start < FirstSubs THEN FirstSubs - start ELSE 0) + 1
         /\ mappedPages' = mappedPages \cup
              {PageOf(layoutLevel, layoutIndex, sub) : sub \in subs \cup {LastSub}}
  /\ layoutIndex' = layoutIndex + 1
  /\ UNCHANGED <<entries, layoutLevel>>

SetupNextLevel ==
  /\ layoutLevel <= 4 /\ layoutIndex >= entries[layoutLevel]
  /\ layoutLevel' = layoutLevel + 1
  /\ layoutIndex' = FirstIndex(layoutLevel + 1)
  /\ UNCHANGED <<entries, mapped_address_count, mappedPages>>

LayoutNext == SetupLevelEntry \/ SetupNextLevel

LayoutSpec == LayoutInit /\ [][LayoutNext]_layoutVars

--------------------------------------------------------------------------------

\* The file is truncated to this many pages before they are mapped
\* (amount_4KB_pages: times 4, in CacheQuery times 8).
Amount4KbPages == (FirstSubs + 1) * (entries[2] + entries[3] + entries[4])

\* No page is mapped that the truncated file does not have: its first access
\* would be a bus error (trigger.c: "the true formular is too complex").
FileHoldsPages == mapped_address_count <= Amount4KbPages

\* The sizes for which the start of the partly mapped level 4 entry, which the
\* loop takes for every entry, is 0 or the only one.
EvenLayout ==
  LET level3 == IF CoveredIsMore THEN Covered ELSE entries[3]
  IN  \/ level3 % TableEntries = 0
      \/ entries[3] < TableEntries /\ Covered < TableEntries
      \/ entries[4] <= (level3 \div TableEntries) + 1

\* Every page an experiment uses is mapped afterwards: chain links at the first
\* sub entries of each entry of each level, the prefix-aligned page at the last.
PagesMapped ==
  layoutLevel = 5 /\ EvenLayout =>
    \A level \in 2 .. 4 : \A index \in 0 .. entries[level] - 1 :
      \A sub \in 0 .. FirstSubs - 1 \cup {LastSub} :
        PageOf(level, index, sub) \in mappedPages
================================================================================
