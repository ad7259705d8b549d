--------------------------- MODULE MemoryLayoutProofs ---------------------------
(***************************************************************************)
(* For every PAGE_TABLE_ENTRIES and every page-table geometry: the file    *)
(* has a page for every mapping, and every page that an experiment uses    *)
(* has a mapping.                                                          *)
(***************************************************************************)
EXTENDS MemoryLayout, TLAPS

--------------------------------------------------------------------------------
(* Quotients and remainders *)

LEMMA Quotient ==
  ASSUME NEW a \in Nat, NEW b \in Nat \ {0}
  PROVE  /\ a \div b \in Nat /\ a % b \in Nat
         /\ a % b < b /\ a = b * (a \div b) + (a % b)
  OBVIOUS

LEMMA TimesMonotone ==
  ASSUME NEW a \in Nat, NEW b \in Nat, NEW c \in Nat, a <= b
  PROVE  a * c <= b * c
  OBVIOUS

LEMMA TimesSuccessor ==
  ASSUME NEW a \in Nat, NEW b \in Nat
  PROVE  a * (b + 1) = a * b + a /\ a * b \in Nat
  OBVIOUS

\* The entries below the quotient, and the first ones of the entry at it, are
\* below the dividend.
LEMMA BelowDividend ==
  ASSUME NEW a \in Nat, NEW b \in Nat \ {0}, NEW n \in Nat, NEW m \in Nat, m < b,
         n < a \div b \/ (n = a \div b /\ m < a % b)
  PROVE  n * b + m \in Nat /\ n * b + m < a
  <1> DEFINE q == a \div b
  <1>1. q \in Nat /\ a % b \in Nat /\ a = b * q + (a % b)
    BY Quotient
  <1>2. b * q = q * b /\ n * b \in Nat /\ q * b \in Nat
    BY <1>1
  <1>3. CASE n < q
    <2>1. (n + 1) * b <= q * b
      BY <1>1, <1>3, TimesMonotone
    <2>2. (n + 1) * b = n * b + b
      OBVIOUS
    <2> QED
      BY <1>1, <1>2, <2>1, <2>2
  <1>4. CASE n = q /\ m < a % b
    BY <1>1, <1>2, <1>4
  <1> QED
    BY <1>3, <1>4

--------------------------------------------------------------------------------
(* The pages of the file *)

TypeInv ==
  /\ entries \in [2 .. 4 -> Nat]
  /\ layoutLevel \in 2 .. 5
  /\ layoutIndex \in Nat
  /\ mapped_address_count \in Nat

\* Entries of the levels up to "level" that the loops have gone through.
Before(level, sizes) ==
  CASE level = 2 -> 0
    [] level = 3 -> sizes[2]
    [] level = 4 -> sizes[2] + sizes[3]
    [] OTHER -> sizes[2] + sizes[3] + sizes[4]

\* Each entry takes at most FirstSubs + 1 pages.  A loop that starts beyond its
\* last entry takes none.
CountInv ==
  /\ mapped_address_count <= (FirstSubs + 1) * (entries[2] + entries[3] + entries[4])
  /\ mapped_address_count <= (FirstSubs + 1) * (Before(layoutLevel, entries) + layoutIndex)
  /\ layoutLevel <= 4 =>
       mapped_address_count <= (FirstSubs + 1) * Before(layoutLevel + 1, entries)
  /\ layoutLevel = 2 => layoutIndex <= entries[2]

LEMMA FirstIndexType ==
  ASSUME TypeInv, NEW level \in 2 .. 5
  PROVE  FirstIndex(level) \in Nat
  <1>1. entries[2] \in Nat /\ entries[3] \in Nat /\ TableEntries \in Nat \ {0}
    BY LayoutAssumption DEF TypeInv
  <1>2. Covered \in Nat
    BY <1>1, Quotient DEF Covered
  <1> QED
    BY <1>1, <1>2, Quotient DEF FirstIndex

LEMMA StartIndexType ==
  ASSUME TypeInv, NEW level \in 2 .. 4, NEW index \in Nat
  PROVE  StartIndex(level, index) \in Nat
  <1>1. entries[2] \in Nat /\ entries[3] \in Nat /\ TableEntries \in Nat \ {0}
    BY LayoutAssumption DEF TypeInv
  <1>2. Covered \in Nat
    BY <1>1, Quotient DEF Covered
  <1> DEFINE most == IF CoveredIsMore THEN Covered ELSE entries[3]
  <1>3. entries[2] % TableEntries \in Nat /\ most % TableEntries \in Nat
    BY <1>1, <1>2, Quotient
  <1> QED
    BY <1>3 DEF StartIndex

LEMMA BeforeType ==
  ASSUME TypeInv
  PROVE  /\ \A level \in 2 .. 5 : Before(level, entries) \in Nat
         /\ \A level \in 2 .. 4 : Before(level + 1, entries) = Before(level, entries) + entries[level]
         /\ \A level \in 2 .. 5 : Before(level, entries) <= entries[2] + entries[3] + entries[4]
  <1>1. entries[2] \in Nat /\ entries[3] \in Nat /\ entries[4] \in Nat
    BY DEF TypeInv
  <1> QED
    BY <1>1 DEF Before

LEMMA InitType == LayoutInit => TypeInv
  BY LayoutAssumption DEF LayoutInit, TypeInv

LEMMA StepType == TypeInv /\ [LayoutNext]_layoutVars => TypeInv'
  <1> SUFFICES ASSUME TypeInv, [LayoutNext]_layoutVars PROVE TypeInv'
    OBVIOUS
  <1>1. CASE SetupLevelEntry
    <2>1. layoutLevel \in 2 .. 4 /\ layoutIndex \in Nat
      BY <1>1 DEF TypeInv, SetupLevelEntry
    <2>2. StartIndex(layoutLevel, layoutIndex) \in Nat
      BY <2>1, StartIndexType
    <2>3. mapped_address_count' \in Nat
      BY <1>1, <2>2, LayoutAssumption DEF TypeInv, SetupLevelEntry
    <2> QED
      BY <1>1, <2>3 DEF TypeInv, SetupLevelEntry
  <1>2. CASE SetupNextLevel
    <2>1. layoutLevel + 1 \in 2 .. 5
      BY <1>2 DEF TypeInv, SetupNextLevel
    <2> QED
      BY <1>2, <2>1, FirstIndexType DEF TypeInv, SetupNextLevel
  <1>3. CASE UNCHANGED layoutVars
    BY <1>3 DEF TypeInv, layoutVars
  <1> QED
    BY <1>1, <1>2, <1>3 DEF LayoutNext

LEMMA InitCount == LayoutInit => CountInv
  <1> SUFFICES ASSUME LayoutInit PROVE CountInv
    OBVIOUS
  <1>1. TypeInv
    BY InitType
  <1>2. \A n \in Nat : 0 <= (FirstSubs + 1) * n
    BY LayoutAssumption
  <1>3. /\ entries[2] + entries[3] + entries[4] \in Nat
        /\ Before(2, entries) \in Nat /\ Before(3, entries) \in Nat /\ layoutIndex \in Nat
        /\ entries[2] \in Nat
    BY <1>1, BeforeType DEF TypeInv
  <1> QED
    BY <1>2, <1>3 DEF LayoutInit, CountInv

LEMMA EntryCount ==
  ASSUME TypeInv, CountInv, SetupLevelEntry
  PROVE  CountInv'
  <1> DEFINE P == FirstSubs + 1
             at == Before(layoutLevel, entries) + layoutIndex
             total == entries[2] + entries[3] + entries[4]
             start == StartIndex(layoutLevel, layoutIndex)
  <1>1. layoutLevel \in 2 .. 4 /\ layoutIndex \in Nat /\ layoutIndex < entries[layoutLevel]
    BY DEF TypeInv, SetupLevelEntry
  <1>2. entries[2] \in Nat /\ entries[3] \in Nat /\ entries[4] \in Nat /\ P \in Nat
    BY LayoutAssumption DEF TypeInv
  <1>3. /\ at \in Nat /\ Before(layoutLevel + 1, entries) \in Nat
        /\ at + 1 <= Before(layoutLevel + 1, entries) /\ Before(layoutLevel + 1, entries) <= total
    <2>1. layoutLevel + 1 \in 2 .. 5 /\ entries[layoutLevel] \in Nat
      BY <1>1, <1>2
    <2> QED
      BY <1>1, <2>1, BeforeType
  <1>4. mapped_address_count' <= mapped_address_count + P
    <2>1. start \in Nat
      BY <1>1, StartIndexType
    <2> QED
      BY <2>1, LayoutAssumption DEF SetupLevelEntry, TypeInv
  <1>5. mapped_address_count' <= P * (at + 1)
    <2>1. P * (at + 1) = P * at + P /\ P * at \in Nat
      BY <1>2, <1>3, TimesSuccessor
    <2>2. mapped_address_count' \in Nat
      BY StepType DEF LayoutNext, TypeInv
    <2>3. mapped_address_count <= P * at /\ mapped_address_count \in Nat
      BY DEF CountInv, TypeInv
    <2> HIDE DEF at, P
    <2> QED
      BY <1>2, <1>4, <2>1, <2>2, <2>3
  <1>6. P * (at + 1) <= P * Before(layoutLevel + 1, entries) /\ P * Before(layoutLevel + 1, entries) <= P * total
    BY <1>2, <1>3, TimesMonotone
  <1>7. mapped_address_count' <= P * Before(layoutLevel + 1, entries) /\ mapped_address_count' <= P * total
    <2>1. mapped_address_count' \in Nat
      BY StepType DEF LayoutNext, TypeInv
    <2>2. P * (at + 1) \in Nat /\ P * Before(layoutLevel + 1, entries) \in Nat /\ P * total \in Nat
      BY <1>2, <1>3, TimesSuccessor
    <2> HIDE DEF at, P, total
    <2> QED
      BY <1>5, <1>6, <2>1, <2>2
  <1>8. UNCHANGED <<entries, layoutLevel>> /\ layoutIndex' = layoutIndex + 1
    BY DEF SetupLevelEntry
  <1>9. Before(layoutLevel', entries') + layoutIndex' = at + 1
    <2>1. Before(layoutLevel, entries) \in Nat
      BY <1>1, BeforeType
    <2> QED
      BY <1>1, <1>8, <2>1
  <1> QED
    BY <1>1, <1>2, <1>5, <1>7, <1>8, <1>9 DEF CountInv

LEMMA LevelCount ==
  ASSUME TypeInv, CountInv, SetupNextLevel
  PROVE  CountInv'
  <1> DEFINE P == FirstSubs + 1
             next == layoutLevel + 1
             total == entries[2] + entries[3] + entries[4]
  <1>1. layoutLevel \in 2 .. 4 /\ next \in 2 .. 5 /\ next # 2
    BY DEF TypeInv, SetupNextLevel
  <1>2. entries[2] \in Nat /\ entries[3] \in Nat /\ entries[4] \in Nat /\ P \in Nat
    BY LayoutAssumption DEF TypeInv
  <1>3. /\ UNCHANGED <<entries, mapped_address_count>>
        /\ layoutLevel' = next /\ layoutIndex' = FirstIndex(next) /\ layoutIndex' \in Nat
    BY <1>1, FirstIndexType DEF SetupNextLevel
  <1>4. Before(next, entries) \in Nat
    BY <1>1, BeforeType
  <1>5. mapped_address_count <= P * Before(next, entries) /\ mapped_address_count \in Nat
    BY <1>1 DEF CountInv, TypeInv
  <1>6. P * Before(next, entries) <= P * (Before(next, entries) + layoutIndex')
    BY <1>2, <1>3, <1>4, TimesMonotone
  <1>7. next <= 4 => P * Before(next, entries) <= P * Before(next + 1, entries)
    <2>1. next <= 4 => Before(next + 1, entries) = Before(next, entries) + entries[next] /\ entries[next] \in Nat
      BY <1>1, <1>2, BeforeType
    <2> QED
      BY <1>2, <1>4, <2>1, TimesMonotone
  <1>8. next <= 4 => Before(next + 1, entries) \in Nat
    BY <1>1, BeforeType
  <1> QED
    <2>1. P * Before(next, entries) \in Nat /\ P * (Before(next, entries) + layoutIndex') \in Nat
      BY <1>2, <1>3, <1>4, TimesSuccessor
    <2>2. next <= 4 => P * Before(next + 1, entries) \in Nat
      BY <1>2, <1>8, TimesSuccessor
    <2>3. mapped_address_count' <= (FirstSubs + 1) * (Before(next, entries) + layoutIndex')
      BY <1>3, <1>4, <1>5, <1>6, <2>1
    <2>4. next <= 4 => mapped_address_count' <= (FirstSubs + 1) * Before(next + 1, entries)
      BY <1>3, <1>5, <1>7, <1>8, <2>1, <2>2
    <2>5. mapped_address_count' <= (FirstSubs + 1) * (entries[2] + entries[3] + entries[4])
      BY <1>3 DEF CountInv
    <2> QED
      BY <1>1, <1>3, <2>3, <2>4, <2>5 DEF CountInv

\* The file never has too few pages, whatever the sizes: the code takes the sum
\* over the levels, though levels share pages (main's ftruncate).
THEOREM FileSuffices == LayoutSpec => []FileHoldsPages
  <1>1. LayoutInit => TypeInv /\ CountInv
    BY InitType, InitCount
  <1>2. TypeInv /\ CountInv /\ [LayoutNext]_layoutVars => TypeInv' /\ CountInv'
    <2> SUFFICES ASSUME TypeInv, CountInv, [LayoutNext]_layoutVars PROVE TypeInv' /\ CountInv'
      OBVIOUS
    <2>1. TypeInv'
      BY StepType
    <2>2. CASE UNCHANGED layoutVars
      BY <2>1, <2>2 DEF CountInv, Before, layoutVars
    <2>3. CASE LayoutNext
      BY <2>1, <2>3, EntryCount, LevelCount DEF LayoutNext
    <2> QED
      BY <2>1, <2>2, <2>3
  <1>3. CountInv => FileHoldsPages
    BY DEF CountInv, FileHoldsPages, Amount4KbPages
  <1> QED
    BY <1>1, <1>2, <1>3, PTL DEF LayoutSpec

--------------------------------------------------------------------------------
(* The pages that are mapped *)

Subs == 0 .. FirstSubs - 1 \cup {LastSub}

EntryMapped(level, index) == \A sub \in Subs : PageOf(level, index, sub) \in mappedPages

\* Entries of a level that its loop has gone through.
Done(level, index) ==
  index < entries[level] /\ (layoutLevel = level => index < layoutIndex)

\* Whatever a loop skips at its start or in an entry, the loop below has mapped.
CoverInv ==
  /\ \A n \in Nat : Done(2, n) => EntryMapped(2, n)
  /\ layoutLevel >= 3 => \A n \in Nat : Done(3, n) => EntryMapped(3, n)
  /\ layoutLevel >= 4 /\ EvenLayout => \A n \in Nat : Done(4, n) => EntryMapped(4, n)
  /\ layoutLevel = 4 => layoutIndex >= FirstIndex(4)

LEMMA SubType ==
  ASSUME NEW sub \in Subs
  PROVE  sub \in Nat /\ sub < TableEntries /\ TableEntries \in Nat \ {0}
  BY LayoutAssumption DEF Subs, LastSub

LEMMA ZeroSub == 0 \in Subs
  BY LayoutAssumption DEF Subs

\* The first page of entry n * TableEntries + sub is the page at sub of entry n
\* of the level above.
LEMMA PageOfAbove ==
  ASSUME NEW n \in Nat, NEW sub \in Nat
  PROVE  /\ PageOf(3, n, sub) = PageOf(2, n * TableEntries + sub, 0)
         /\ PageOf(4, n, sub) = PageOf(3, n * TableEntries + sub, 0)
  <1> DEFINE T == TableEntries
  <1>1. T \in Nat
    BY LayoutAssumption
  <1>2. Span(1) = 1 /\ Span(2) = T /\ Span(3) = T * T /\ Span(4) = T * T * T
    BY DEF Span
  <1>3. n * (T * T) + sub * T = (n * T + sub) * T
    BY <1>1
  <1>4. n * (T * T * T) + sub * (T * T) = (n * T + sub) * (T * T)
    BY <1>1
  <1>5. /\ PageOf(3, n, sub) = n * Span(3) + sub * Span(2)
        /\ PageOf(4, n, sub) = n * Span(4) + sub * Span(3)
        /\ PageOf(2, n * T + sub, 0) = (n * T + sub) * Span(2) + 0 * Span(1)
        /\ PageOf(3, n * T + sub, 0) = (n * T + sub) * Span(3) + 0 * Span(2)
    BY DEF PageOf
  <1>6. (n * T + sub) * T \in Nat /\ (n * T + sub) * (T * T) \in Nat
    BY <1>1
  <1> QED
    BY <1>1, <1>2, <1>3, <1>4, <1>5, <1>6

Most == IF CoveredIsMore THEN Covered ELSE entries[3]

LEMMA CoveredType ==
  ASSUME TypeInv
  PROVE  Covered \in Nat /\ Most \in Nat /\ entries[2] \in Nat /\ entries[3] \in Nat
  <1>1. entries[2] \in Nat /\ entries[3] \in Nat /\ TableEntries \in Nat \ {0}
    BY LayoutAssumption DEF TypeInv
  <1> QED
    BY <1>1, Quotient DEF Covered, Most

\* The loop over level 2 has mapped this part of level 3.
LEMMA LevelTwoMapsThree ==
  ASSUME TypeInv, CoverInv, layoutLevel >= 3, NEW n \in Nat, NEW sub \in Nat,
         sub < TableEntries, n < Covered \/ (n = Covered /\ sub < entries[2] % TableEntries)
  PROVE  PageOf(3, n, sub) \in mappedPages
  <1> DEFINE m == n * TableEntries + sub
  <1>1. m \in Nat /\ m < entries[2]
    <2>1. TableEntries \in Nat \ {0} /\ Covered = entries[2] \div TableEntries
      BY LayoutAssumption DEF Covered
    <2> QED
      BY <2>1, CoveredType, BelowDividend
  <1> HIDE DEF m
  <1>2. Done(2, m)
    BY <1>1 DEF Done
  <1>3. PageOf(2, m, 0) \in mappedPages
    BY <1>1, <1>2, ZeroSub DEF CoverInv, EntryMapped
  <1> QED
    BY <1>3, PageOfAbove DEF m

\* The loops over levels 2 and 3 have mapped this part of level 4.
LEMMA LevelThreeMapsFour ==
  ASSUME TypeInv, CoverInv, layoutLevel >= 4, NEW n \in Nat, NEW sub \in Nat,
         sub < TableEntries,
         n < Most \div TableEntries \/ (n = Most \div TableEntries /\ sub < Most % TableEntries)
  PROVE  PageOf(4, n, sub) \in mappedPages
  <1> DEFINE m == n * TableEntries + sub
  <1>1. m \in Nat /\ m < Most
    <2>1. TableEntries \in Nat \ {0}
      BY LayoutAssumption
    <2> QED
      BY <2>1, CoveredType, BelowDividend
  <1> HIDE DEF m
  <1>2. PageOf(3, m, 0) \in mappedPages
    <2>1. CASE m < entries[3]
      <3>1. Done(3, m)
        BY <2>1 DEF Done
      <3>2. \A q \in Nat : Done(3, q) => EntryMapped(3, q)
        BY DEF CoverInv, TypeInv
      <3> QED
        BY <1>1, <3>1, <3>2, ZeroSub DEF EntryMapped
    <2>2. CASE ~ (m < entries[3])
      <3>1. m < Covered
        BY <1>1, <2>2, CoveredType DEF Most
      <3> QED
        <4>1. layoutLevel >= 3 /\ 0 \in Nat /\ 0 < TableEntries
          BY LayoutAssumption DEF TypeInv
        <4> QED
          BY <1>1, <3>1, <4>1, LevelTwoMapsThree
    <2> QED
      BY <2>1, <2>2
  <1> QED
    BY <1>2, PageOfAbove DEF m

LEMMA InitCover == LayoutInit => CoverInv
  <1> SUFFICES ASSUME LayoutInit PROVE CoverInv
    OBVIOUS
  <1>1. \A n \in Nat : ~ Done(2, n)
    BY DEF LayoutInit, Done
  <1> QED
    BY <1>1 DEF LayoutInit, CoverInv

\* After its turn in the loop the entry is mapped, the sub entries that were
\* skipped included.
LEMMA EntryBecomesMapped ==
  ASSUME TypeInv, CoverInv, SetupLevelEntry, layoutLevel = 4 => EvenLayout, NEW sub \in Subs
  PROVE  PageOf(layoutLevel, layoutIndex, sub) \in mappedPages'
  <1> DEFINE start == StartIndex(layoutLevel, layoutIndex)
             new == {PageOf(layoutLevel, layoutIndex, q) : q \in start .. FirstSubs - 1 \cup {LastSub}}
  <1>1. layoutLevel \in 2 .. 4 /\ layoutIndex \in Nat /\ layoutIndex < entries[layoutLevel]
    BY DEF TypeInv, SetupLevelEntry
  <1>2. start \in Nat /\ sub \in Nat /\ sub < TableEntries /\ TableEntries \in Nat \ {0}
    BY <1>1, StartIndexType, SubType
  <1>3. mappedPages' = mappedPages \cup new
    BY DEF SetupLevelEntry
  <1>4. CASE sub >= start \/ sub = LastSub
    <2>1. sub \in start .. FirstSubs - 1 \cup {LastSub}
      BY <1>2, <1>4, LayoutAssumption DEF Subs
    <2> QED
      BY <1>3, <2>1
  <1>5. CASE sub < start /\ layoutLevel = 2
    BY <1>2, <1>5 DEF StartIndex
  <1>6. CASE sub < start /\ layoutLevel = 3
    <2>1. layoutIndex = Covered /\ start = entries[2] % TableEntries
      BY <1>2, <1>6 DEF StartIndex
    <2> QED
      BY <1>1, <1>2, <1>3, <1>6, <2>1, LevelTwoMapsThree
  <1>7. CASE sub < start /\ layoutLevel = 4
    <2>1. start = Most % TableEntries
      BY <1>2, <1>7 DEF StartIndex, Most
    <2>2. layoutIndex = Most \div TableEntries
      <3>1. Most % TableEntries # 0
        BY <1>2, <1>7, <2>1
      <3>2. ~ (entries[3] < TableEntries /\ Covered < TableEntries)
        <4>1. SUFFICES ASSUME entries[3] < TableEntries, Covered < TableEntries PROVE start = 0
          BY <1>2, <1>7
        <4>2. entries[3] \div TableEntries = 0 /\ Covered \div TableEntries = 0
          BY <1>2, <4>1, CoveredType
        <4> QED
          BY <1>7, <4>2 DEF StartIndex
      <3>3. entries[4] <= (Most \div TableEntries) + 1
        BY <1>7, <3>1, <3>2 DEF EvenLayout, Most
      <3>4. FirstIndex(4) = Most \div TableEntries
        BY DEF FirstIndex, Most
      <3>5. Most \div TableEntries \in Nat
        BY <1>2, CoveredType, Quotient
      <3> QED
        BY <1>1, <1>7, <3>3, <3>4, <3>5 DEF CoverInv, TypeInv
    <2> QED
      BY <1>1, <1>2, <1>3, <1>7, <2>1, <2>2, LevelThreeMapsFour
  <1> QED
    BY <1>1, <1>2, <1>4, <1>5, <1>6, <1>7

LEMMA EntryCover ==
  ASSUME TypeInv, CoverInv, SetupLevelEntry
  PROVE  CoverInv'
  <1>1. /\ layoutLevel \in 2 .. 4 /\ layoutIndex \in Nat
        /\ UNCHANGED <<entries, layoutLevel>> /\ layoutIndex' = layoutIndex + 1
    BY DEF TypeInv, SetupLevelEntry
  <1>2. mappedPages \subseteq mappedPages'
    BY DEF SetupLevelEntry
  <1>3. \A level \in 2 .. 4 : \A n \in Nat : EntryMapped(level, n) => EntryMapped(level, n)'
    BY <1>2 DEF EntryMapped
  <1>4. \A level \in 2 .. 4 : \A n \in Nat :
          Done(level, n)' => Done(level, n) \/ (level = layoutLevel /\ n = layoutIndex)
    BY <1>1 DEF Done
  <1>5. ASSUME layoutLevel = 4 => EvenLayout,
               NEW level \in 2 .. 4, level = layoutLevel, NEW n \in Nat, n = layoutIndex
        PROVE  EntryMapped(level, n)'
    <2>1. \A sub \in Subs : PageOf(level, n, sub) \in mappedPages'
      BY <1>5, EntryBecomesMapped
    <2> QED
      BY <2>1 DEF EntryMapped
  <1>6. EvenLayout' <=> EvenLayout
    BY <1>1 DEF EvenLayout, CoveredIsMore, Covered
  <1>7. FirstIndex(4)' = FirstIndex(4) /\ FirstIndex(4) \in Nat
    BY <1>1, FirstIndexType DEF FirstIndex, CoveredIsMore, Covered
  <1> QED
    <2>1. \A n \in Nat : Done(2, n)' => EntryMapped(2, n)'
      BY <1>3, <1>4, <1>5 DEF CoverInv
    <2>2. layoutLevel' >= 3 => \A n \in Nat : Done(3, n)' => EntryMapped(3, n)'
      BY <1>1, <1>3, <1>4, <1>5 DEF CoverInv
    <2>3. layoutLevel' >= 4 /\ EvenLayout' => \A n \in Nat : Done(4, n)' => EntryMapped(4, n)'
      BY <1>1, <1>3, <1>4, <1>5, <1>6 DEF CoverInv
    <2>4. layoutLevel' = 4 => layoutIndex' >= FirstIndex(4)'
      BY <1>1, <1>7 DEF CoverInv
    <2> QED
      BY <2>1, <2>2, <2>3, <2>4 DEF CoverInv

\* A loop that starts beyond its first entry starts behind what is mapped.
LEMMA LevelCover ==
  ASSUME TypeInv, CoverInv, SetupNextLevel
  PROVE  CoverInv'
  <1>1. /\ layoutLevel \in 2 .. 4 /\ layoutLevel' = layoutLevel + 1
        /\ layoutIndex >= entries[layoutLevel] /\ layoutIndex \in Nat
        /\ layoutIndex' = FirstIndex(layoutLevel + 1)
        /\ UNCHANGED <<entries, mappedPages>>
    BY DEF TypeInv, SetupNextLevel
  <1>2. entries[2] \in Nat /\ entries[3] \in Nat /\ entries[4] \in Nat
    BY DEF TypeInv
  <1>3. TypeInv'
    BY StepType DEF LayoutNext
  <1>4. \A level \in 2 .. 4 : \A n \in Nat : EntryMapped(level, n)' <=> EntryMapped(level, n)
    BY <1>1 DEF EntryMapped
  <1>5. \A level \in 2 .. 4 : \A n \in Nat :
          level <= layoutLevel /\ Done(level, n)' => Done(level, n)
    BY <1>1, <1>2 DEF Done
  <1>6. EvenLayout' <=> EvenLayout
    BY <1>1 DEF EvenLayout, CoveredIsMore, Covered
  <1>7. FirstIndex(4)' = FirstIndex(4)
    BY <1>1 DEF FirstIndex, CoveredIsMore, Covered
  <1>8. ASSUME layoutLevel = 2, NEW n \in Nat, Done(3, n)' PROVE EntryMapped(3, n)
    <2>1. n < Covered
      BY <1>1, <1>8 DEF Done, FirstIndex
    <2>2. \A m \in Nat : m < entries[2] => PageOf(2, m, 0) \in mappedPages
      BY <1>1, <1>2, <1>8, ZeroSub DEF CoverInv, Done, EntryMapped
    <2> SUFFICES ASSUME NEW sub \in Subs PROVE PageOf(3, n, sub) \in mappedPages
      BY DEF EntryMapped
    <2> DEFINE m == n * TableEntries + sub
    <2>3. m \in Nat /\ m < entries[2]
      BY <1>2, <2>1, SubType, BelowDividend DEF Covered
    <2>4. PageOf(2, m, 0) \in mappedPages
      BY <2>2, <2>3
    <2> QED
      BY <2>4, SubType, PageOfAbove
  <1>9. ASSUME layoutLevel = 3, NEW n \in Nat, Done(4, n)' PROVE EntryMapped(4, n)
    <2>1. n < Most \div TableEntries
      BY <1>1, <1>9 DEF Done, FirstIndex, Most
    <2>2. \A m \in Nat : m < Most => PageOf(3, m, 0) \in mappedPages
      <3>1. TAKE m \in Nat
      <3>2. HAVE m < Most
      <3>3. CASE m < entries[3]
        BY <1>1, <1>2, <1>9, <3>3, ZeroSub DEF CoverInv, Done, EntryMapped
      <3>4. CASE m >= entries[3]
        <4>1. m < Covered
          BY <1>2, <3>2, <3>4, CoveredType DEF Most
        <4>2. 0 \in Nat /\ 0 < TableEntries
          BY LayoutAssumption
        <4> QED
          BY <1>9, <4>1, <4>2, LevelTwoMapsThree
      <3> QED
        BY <1>2, <3>3, <3>4
    <2> SUFFICES ASSUME NEW sub \in Subs PROVE PageOf(4, n, sub) \in mappedPages
      BY DEF EntryMapped
    <2> DEFINE m == n * TableEntries + sub
    <2>3. m \in Nat /\ m < Most
      BY <2>1, SubType, CoveredType, BelowDividend
    <2>4. PageOf(3, m, 0) \in mappedPages
      BY <2>2, <2>3
    <2> QED
      BY <2>4, SubType, PageOfAbove
  <1> QED
    <2>1. \A n \in Nat : Done(2, n)' => EntryMapped(2, n)'
      BY <1>1, <1>4, <1>5 DEF CoverInv
    <2>2. layoutLevel' >= 3 => \A n \in Nat : Done(3, n)' => EntryMapped(3, n)'
      BY <1>1, <1>4, <1>5, <1>8 DEF CoverInv
    <2>3. layoutLevel' >= 4 /\ EvenLayout' => \A n \in Nat : Done(4, n)' => EntryMapped(4, n)'
      BY <1>1, <1>4, <1>5, <1>6, <1>9 DEF CoverInv
    <2>4. layoutLevel' = 4 => layoutIndex' >= FirstIndex(4)'
      BY <1>1, <1>3, <1>7, FirstIndexType DEF TypeInv
    <2> QED
      BY <2>1, <2>2, <2>3, <2>4 DEF CoverInv

\* Once the loops have ended every page is mapped that an experiment uses, for
\* every size that the precedence of == and ?: in the last loop does no harm to
\* (setup_levels).
THEOREM AllPagesMapped == LayoutSpec => []PagesMapped
  <1>1. LayoutInit => TypeInv /\ CoverInv
    BY InitType, InitCover
  <1>2. TypeInv /\ CoverInv /\ [LayoutNext]_layoutVars => TypeInv' /\ CoverInv'
    <2> SUFFICES ASSUME TypeInv, CoverInv, [LayoutNext]_layoutVars PROVE TypeInv' /\ CoverInv'
      OBVIOUS
    <2>1. TypeInv'
      BY StepType
    <2>2. CASE UNCHANGED layoutVars
      <3>1. \A level \in 2 .. 4 : \A n \in Nat :
              /\ EntryMapped(level, n)' <=> EntryMapped(level, n)
              /\ Done(level, n)' <=> Done(level, n)
        BY <2>2 DEF EntryMapped, Done, layoutVars
      <3>2. (EvenLayout' <=> EvenLayout) /\ FirstIndex(4)' = FirstIndex(4)
        BY <2>2 DEF EvenLayout, FirstIndex, CoveredIsMore, Covered, layoutVars
      <3>3. UNCHANGED <<layoutLevel, layoutIndex>>
        BY <2>2 DEF layoutVars
      <3>4. \A n \in Nat : Done(2, n)' => EntryMapped(2, n)'
        BY <3>1 DEF CoverInv
      <3>5. layoutLevel' >= 3 => \A n \in Nat : Done(3, n)' => EntryMapped(3, n)'
        BY <3>1, <3>3 DEF CoverInv
      <3>6. layoutLevel' >= 4 /\ EvenLayout' => \A n \in Nat : Done(4, n)' => EntryMapped(4, n)'
        BY <3>1, <3>2, <3>3 DEF CoverInv
      <3>7. layoutLevel' = 4 => layoutIndex' >= FirstIndex(4)'
        BY <3>2, <3>3 DEF CoverInv
      <3> QED
        BY <2>1, <3>4, <3>5, <3>6, <3>7 DEF CoverInv
    <2>3. CASE SetupLevelEntry
      BY <2>1, <2>3, EntryCover
    <2>4. CASE SetupNextLevel
      BY <2>1, <2>4, LevelCover
    <2> QED
      BY <2>2, <2>3, <2>4, <2>1 DEF LayoutNext
  <1>3. TypeInv /\ CoverInv => PagesMapped
    <2> SUFFICES ASSUME TypeInv, CoverInv, layoutLevel = 5, EvenLayout,
                        NEW level \in 2 .. 4, NEW index \in 0 .. entries[level] - 1
                 PROVE  EntryMapped(level, index)
      BY DEF PagesMapped, EntryMapped, Subs
    <2>1. entries[2] \in Nat /\ entries[3] \in Nat /\ entries[4] \in Nat
      BY DEF TypeInv
    <2>2. index \in Nat /\ Done(level, index)
      BY <2>1 DEF Done
    <2> QED
      BY <2>2 DEF CoverInv
  <1> QED
    BY <1>1, <1>2, <1>3, PTL DEF LayoutSpec
================================================================================
