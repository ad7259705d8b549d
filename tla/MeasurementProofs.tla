--------------------------- MODULE MeasurementProofs ---------------------------
(***************************************************************************)
(* Proofs that the measurement experiments are sound for every number of   *)
(* entries, iterations, noise reads and CPUs, every cache capacity, every  *)
(* machine and every sequence of experiments of their shape.               *)
(*                                                                         *)
(* IInv is inductive.  The lemmas first say what the operations of the     *)
(* translation hardware do to what is cached; each step of the program     *)
(* then preserves each part of IInv it can disturb.                        *)
(***************************************************************************)
EXTENDS MeasurementRefinement, FiniteSetTheorems, TLAPS

--------------------------------------------------------------------------------
(* The operations of Mmu *)

\* A page is a region and a sub entry.
LEMMA PageShape ==
  /\ \A pg \in Page : pg[1] \in Region /\ pg[2] \in Sub /\ pg = <<pg[1], pg[2]>>
  /\ \A r \in Region : \A x \in Sub : <<r, x>> \in Page /\ <<r, x>>[1] = r
  BY DEF Page

\* An access goes to one of the two areas.
LEMMA TranslateType ==
  ASSUME MmuTypeOK, NEW kind \in Kind, NEW pg \in Page
  PROVE  Translate(kind, pg) \in Area
  <1>1. kind \in Structure /\ "shared" \in Structure /\ "base" \in Area
    BY DEF Kind, Structure, Area
  <1>2. pg[1] \in Region
    BY PageShape
  <1> QED
    BY <1>1, <1>2 DEF MmuTypeOK, Translate

\* With nothing but base translations cached and in the table, it goes to base.
LEMMA TranslateBase ==
  ASSUME MmuTypeOK, NEW kind \in Kind, NEW pg \in Page,
         pageTable["base"][pg[1]] = "base",
         \A s \in Structure : tlb[s][pg] \in {Nothing, "base"}
                              /\ cache[s][pg[1]] \in {Nothing, "base"}
  PROVE  Translate(kind, pg) = "base"
  <1>1. kind \in Structure /\ "shared" \in Structure
    BY DEF Kind, Structure
  <1> QED
    BY <1>1 DEF Translate

\* What an access may leave in the caches, and what it does leave.
LEMMA AccessEffect ==
  ASSUME MmuTypeOK, NEW kind \in Kind, NEW pg \in Page, Access(kind, pg)
  PROVE  /\ tlb' \in [Structure -> [Page -> Area \cup {Nothing}]]
         /\ cache' \in [Structure -> [Region -> Area \cup {Nothing}]]
         /\ newer' \in [Structure -> [Region -> SUBSET Region]]
         /\ \A s \in Structure : \A q \in Page :
              tlb'[s][q] = tlb[s][q] \/ (q = pg /\ tlb'[s][q] = Translate(kind, pg))
         /\ \A s \in Structure : \A r \in Region :
              \/ cache'[s][r] \in {cache[s][r], Nothing}
              \/ r = pg[1] /\ cache'[s][r] = Translate(kind, pg)
         /\ \A s \in Structure : s \notin Serving(kind) => cache'[s] = cache[s]
         /\ ~TlbHit(kind, pg) =>
              \A s \in Serving(kind) \cap present : cache'[s][pg[1]] = Translate(kind, pg)
  <1> DEFINE a == Translate(kind, pg)
             filled == IF TlbHit(kind, pg) THEN {} ELSE Serving(kind) \cap present
  <1>1. a \in Area
    BY TranslateType
  <1>2. pg[1] \in Region
    BY PageShape
  <1>3. /\ tlb' = [s \in Structure |-> IF s \in Serving(kind)
                                       THEN [tlb[s] EXCEPT ![pg] = a] ELSE tlb[s]]
        /\ cache' = [s \in Structure |-> IF s \in filled THEN Used(s, pg[1], a) ELSE cache[s]]
        /\ newer' = [s \in Structure |->
                       IF s \in filled THEN [q \in Region |-> NewerAfter(s, pg[1], q)]
                       ELSE newer[s]]
    BY DEF Access
  <1> HIDE DEF a, filled
  <1>4. ASSUME NEW s \in Structure
        PROVE  /\ Used(s, pg[1], a) \in [Region -> Area \cup {Nothing}]
               /\ Used(s, pg[1], a)[pg[1]] = a
               /\ \A r \in Region : r # pg[1] => Used(s, pg[1], a)[r] \in {cache[s][r], Nothing}
    BY <1>1, <1>2, <1>4 DEF Used, MmuTypeOK
  <1>5. ASSUME NEW s \in Structure, NEW q \in Region
        PROVE  NewerAfter(s, pg[1], q) \in SUBSET Region
    BY <1>2, <1>5 DEF NewerAfter, MmuTypeOK
  <1>6. tlb' \in [Structure -> [Page -> Area \cup {Nothing}]]
    BY <1>1, <1>3 DEF MmuTypeOK
  <1>7. cache' \in [Structure -> [Region -> Area \cup {Nothing}]]
    BY <1>3, <1>4 DEF MmuTypeOK
  <1>8. newer' \in [Structure -> [Region -> SUBSET Region]]
    BY <1>3, <1>5 DEF MmuTypeOK
  <1>9. \A s \in Structure : \A q \in Page :
          tlb'[s][q] = tlb[s][q] \/ (q = pg /\ tlb'[s][q] = a)
    BY <1>3 DEF MmuTypeOK
  <1>10. \A s \in Structure : \A r \in Region :
           cache'[s][r] \in {cache[s][r], Nothing} \/ (r = pg[1] /\ cache'[s][r] = a)
    BY <1>3, <1>4
  <1>11. \A s \in Structure : s \notin Serving(kind) => cache'[s] = cache[s]
    BY <1>3 DEF filled
  <1>12. ~TlbHit(kind, pg) => \A s \in Serving(kind) \cap present : cache'[s][pg[1]] = a
    BY <1>3, <1>4 DEF filled, MmuTypeOK
  <1> QED
    BY <1>6, <1>7, <1>8, <1>9, <1>10, <1>11, <1>12 DEF a


\* Memory accesses other than writes keep the types of the hardware.
LEMMA ReadOnlyType ==
  ASSUME MmuTypeOK, NEW kind \in Kind, NEW pg \in Page, ReadOnly(kind, pg)
  PROVE  MmuTypeOK'
  <1>1. Access(kind, pg) /\ UNCHANGED <<pageTable, memory, present>>
    BY DEF ReadOnly
  <1> QED
    BY <1>1, AccessEffect DEF MmuTypeOK

\* A write through an undisturbed translation changes one word of the base area.
LEMMA WriteBase ==
  ASSUME MmuTypeOK, NEW pg \in Page, NEW word \in Word, WriteData(pg, word),
         Translate("data", pg) = "base"
  PROVE  /\ MmuTypeOK'
         /\ memory'["complementary"] = memory["complementary"]
         /\ memory'["base"] = [memory["base"] EXCEPT ![pg] = word]
         /\ pageTable' = pageTable
  <1>1. /\ memory' = [memory EXCEPT !["base"][pg] = word]
        /\ Access("data", pg)
        /\ UNCHANGED <<pageTable, present>>
    BY DEF WriteData
  <1>2. "data" \in Kind
    BY DEF Kind
  <1>3. memory' \in [Area -> [Page -> Word]]
    BY <1>1 DEF MmuTypeOK, Area
  <1>4. MmuTypeOK'
    BY <1>1, <1>2, <1>3, AccessEffect DEF MmuTypeOK
  <1> QED
    BY <1>1, <1>4 DEF MmuTypeOK, Area

\* Emptied caches hold nothing.
LEMMA FlushEffect ==
  ASSUME MmuTypeOK, FlushMmuCaches
  PROVE  /\ MmuTypeOK'
         /\ UNCHANGED <<pageTable, memory, present>>
         /\ \A s \in Structure : \A pg \in Page : tlb'[s][pg] = Nothing
         /\ \A s \in Structure : \A r \in Region : cache'[s][r] = Nothing
  BY DEF FlushMmuCaches, EmptyCaches, MmuTypeOK

\* Switching exchanges the entries of one region.
LEMMA SwitchEffect ==
  ASSUME MmuTypeOK, NEW t \in Region, SwitchPageTableEntries(t)
  PROVE  /\ MmuTypeOK'
         /\ UNCHANGED <<memory, tlb, cache, newer, present>>
         /\ \A a \in Area : \A r \in Region :
              pageTable'[a][r] = IF r = t
                THEN pageTable[IF a = "base" THEN "complementary" ELSE "base"][r]
                ELSE pageTable[a][r]
  BY DEF SwitchPageTableEntries, MmuTypeOK, Area

\* A dropped translation or entry leaves the others alone.
LEMMA DropEffect ==
  ASSUME MmuTypeOK,
         \/ \E s \in Structure : \E pg \in Page : DropTranslation(s, pg)
         \/ \E s \in Structure : \E r \in Region : DropEntry(s, r)
  PROVE  /\ MmuTypeOK'
         /\ UNCHANGED <<pageTable, memory, present>>
         /\ \A s \in Structure : \A pg \in Page : tlb'[s][pg] \in {tlb[s][pg], Nothing}
         /\ \A s \in Structure : \A r \in Region : cache'[s][r] \in {cache[s][r], Nothing}
  <1>1. CASE \E s \in Structure : \E pg \in Page : DropTranslation(s, pg)
    BY <1>1 DEF DropTranslation, MmuTypeOK
  <1>2. CASE \E s \in Structure : \E r \in Region : DropEntry(s, r)
    BY <1>2 DEF DropEntry, MmuTypeOK
  <1> QED
    BY <1>1, <1>2

--------------------------------------------------------------------------------
(* The experiments *)

LEMMA ProgramShape ==
  ASSUME TypeOK, k <= Len(Program)
  PROVE  Current \in Experiment
  BY MeasurementAssumption DEF TypeOK, Current

LEMMA InitInv == Init => IInv
  <1> SUFFICES ASSUME Init PROVE IInv
    OBVIOUS
  <1> USE MmuAssumption, MeasurementAssumption
  <1>1. MmuTypeOK
    BY DEF Init, MmuInit, MmuTypeOK, Area, Word
  <1>2. TypeOK
    <2>1. Len(Program) \in Nat /\ 1 \in 1 .. Len(Program) + 1 /\ 0 \in Region
      BY DEF Region
    <2>2. noExecute \subseteq TopEntries
      BY DEF Init
    <2>3. smep \in [CPUs -> BOOLEAN] /\ affinity \in SUBSET CPUs
      BY DEF Init
    <2>4. report \in [1 .. Len(Program) -> Returned \cup {Nothing}]
      BY DEF Init
    <2>5. claimed \in BOOLEAN /\ tainted \in BOOLEAN
      BY DEF Init
    <2>6. /\ pc = "start" /\ k = 1 /\ i = 0 /\ target = 0 /\ link = 0 /\ p = Zero
          /\ noise = 0 /\ misses = 0 /\ cpu \in CPUs
          /\ disturbances = 0 /\ spoiled = 0 /\ short = 0
      BY DEF Init
    <2> QED
      BY <1>1, <2>1, <2>2, <2>3, <2>4, <2>5, <2>6 DEF TypeOK, Word
  <1>3. ControlInv
    BY DEF Init, ControlInv, Inside, Count
  <1>4. TableInv
    BY DEF Init, MmuInit, TableInv
  <1>5. CacheInv
    BY PageShape DEF Init, MmuInit, CacheInv
  <1>6. SignalIntact
    BY DEF Init, MmuInit, SignalIntact, Area
  <1>7. ChainInv /\ SurvivalInv /\ MissSound
    BY DEF Init, ChainInv, SurvivalInv, MissSound
  <1> QED
    BY <1>2, <1>3, <1>4, <1>5, <1>6, <1>7 DEF IInv


\* While no iteration is under way the hardware parts hold whatever is flushed.
LEMMA IdleHardware ==
  ASSUME IInv, ~Inside, ~Inside', UNCHANGED mmuVars \/ FlushMmuCaches
  PROVE  MmuTypeOK' /\ TableInv' /\ CacheInv' /\ SignalIntact' /\ ChainInv' /\ SurvivalInv'
  <1> USE DEF IInv, Inside
  <1>1. MmuTypeOK' /\ UNCHANGED <<pageTable, memory>>
    BY FlushEffect DEF TypeOK, mmuVars, MmuTypeOK
  <1>2. TableInv'
    BY <1>1 DEF TableInv
  <1>3. CacheInv'
    <2>1. CASE UNCHANGED mmuVars
      BY <2>1 DEF CacheInv, mmuVars
    <2>2. CASE FlushMmuCaches
      BY <2>2, FlushEffect, PageShape DEF CacheInv, TypeOK
    <2> QED
      BY <2>1, <2>2
  <1>4. SignalIntact'
    BY <1>1 DEF SignalIntact
  <1>5. ChainInv' /\ SurvivalInv'
    BY DEF ChainInv, SurvivalInv
  <1> QED
    BY <1>1, <1>2, <1>3, <1>4, <1>5

\* The steps of the trigger process and of the scheduler.
LEMMA SetAffinityInv == IInv /\ SetAffinity => IInv'
  <1> SUFFICES ASSUME IInv, SetAffinity PROVE IInv'
    OBVIOUS
  <1> USE MeasurementAssumption
  <1>1. MmuTypeOK' /\ TableInv' /\ CacheInv' /\ SignalIntact' /\ ChainInv' /\ SurvivalInv'
    BY IdleHardware DEF SetAffinity, Inside
  <1>2. TypeOK'
    BY <1>1 DEF IInv, TypeOK, SetAffinity, historyVars
  <1>3. ControlInv' /\ MissSound'
    BY DEF IInv, TypeOK, ControlInv, MissSound, Inside, Count, SetAffinity, historyVars
  <1> QED
    BY <1>1, <1>2, <1>3 DEF IInv

LEMMA SetAffinityFailsInv == IInv /\ SetAffinityFails => IInv'
  <1> SUFFICES ASSUME IInv, SetAffinityFails PROVE IInv'
    OBVIOUS
  <1>1. MmuTypeOK' /\ TableInv' /\ CacheInv' /\ SignalIntact' /\ ChainInv' /\ SurvivalInv'
    BY IdleHardware DEF SetAffinityFails, Inside
  <1>2. TypeOK'
    BY <1>1 DEF IInv, TypeOK, SetAffinityFails, cpuVars, historyVars
  <1>3. ControlInv' /\ MissSound'
    BY DEF IInv, TypeOK, ControlInv, MissSound, Survivors, Current, Inside, Count,
           SetAffinityFails, cpuVars, historyVars, mmuVars
  <1> QED
    BY <1>1, <1>2, <1>3 DEF IInv

LEMMA BeginExperimentInv == IInv /\ BeginExperiment => IInv'
  <1> SUFFICES ASSUME IInv, BeginExperiment PROVE IInv'
    OBVIOUS
  <1> USE MeasurementAssumption
  <1>1. MmuTypeOK' /\ TableInv' /\ CacheInv' /\ SignalIntact' /\ ChainInv' /\ SurvivalInv'
    BY IdleHardware DEF BeginExperiment, Inside
  <1>2. TypeOK'
    BY <1>1 DEF IInv, TypeOK, BeginExperiment
  <1>3. ControlInv' /\ MissSound'
    BY DEF IInv, TypeOK, ControlInv, MissSound, Inside, Count, BeginExperiment
  <1> QED
    BY <1>1, <1>2, <1>3 DEF IInv

LEMMA ClaimCpuInv == IInv /\ ClaimCpu => IInv'
  <1> SUFFICES ASSUME IInv, ClaimCpu PROVE IInv'
    OBVIOUS
  <1>1. MmuTypeOK' /\ TableInv' /\ CacheInv' /\ SignalIntact' /\ ChainInv' /\ SurvivalInv'
    BY IdleHardware DEF ClaimCpu, Inside
  <1>2. TypeOK'
    BY <1>1 DEF IInv, TypeOK, ClaimCpu, historyVars
  <1>3. ControlInv' /\ MissSound'
    BY DEF IInv, TypeOK, ControlInv, MissSound, Survivors, Current, Inside, Count,
           ClaimCpu, historyVars, mmuVars
  <1> QED
    BY <1>1, <1>2, <1>3 DEF IInv

LEMMA ReleaseCpuInv == IInv /\ ReleaseCpu => IInv'
  <1> SUFFICES ASSUME IInv, ReleaseCpu PROVE IInv'
    OBVIOUS
  <1>1. MmuTypeOK' /\ TableInv' /\ CacheInv' /\ SignalIntact' /\ ChainInv' /\ SurvivalInv'
    BY IdleHardware DEF ReleaseCpu, Inside
  <1>2. TypeOK'
    BY <1>1 DEF IInv, TypeOK, ReleaseCpu, historyVars
  <1>3. ControlInv' /\ MissSound'
    BY DEF IInv, TypeOK, ControlInv, MissSound, Survivors, Current, Inside, Count,
           ReleaseCpu, historyVars, mmuVars
  <1> QED
    BY <1>1, <1>2, <1>3 DEF IInv

LEMMA ReturnMissesInv == IInv /\ ReturnMisses => IInv'
  <1> SUFFICES ASSUME IInv, ReturnMisses PROVE IInv'
    OBVIOUS
  <1>1. MmuTypeOK' /\ TableInv' /\ CacheInv' /\ SignalIntact' /\ ChainInv' /\ SurvivalInv'
    BY IdleHardware DEF ReturnMisses, Inside
  <1>2. k \in 1 .. Len(Program) /\ Len(Program) \in Nat
    BY MeasurementAssumption DEF IInv, TypeOK, ControlInv, ReturnMisses
  <1>3. report' \in [1 .. Len(Program) -> Returned \cup {Nothing}]
    BY <1>2 DEF IInv, TypeOK, ReturnMisses, Returned
  <1>4. TypeOK'
    BY <1>1, <1>2, <1>3 DEF IInv, TypeOK, ReturnMisses, cpuVars, historyVars
  <1>5. ControlInv' /\ MissSound'
    BY DEF IInv, TypeOK, ControlInv, MissSound, Inside, Count,
           ReturnMisses, cpuVars, historyVars
  <1> QED
    BY <1>1, <1>4, <1>5 DEF IInv

LEMMA FinishInv == IInv /\ Finish => IInv'
  <1> SUFFICES ASSUME IInv, Finish PROVE IInv'
    OBVIOUS
  <1>1. MmuTypeOK' /\ TableInv' /\ CacheInv' /\ SignalIntact' /\ ChainInv' /\ SurvivalInv'
    BY IdleHardware DEF Finish, Inside
  <1>2. TypeOK'
    BY <1>1 DEF IInv, TypeOK, Finish, cpuVars, historyVars
  <1>3. Len(Program) \in Nat
    BY MeasurementAssumption
  <1>4. ControlInv' /\ MissSound'
    BY <1>3 DEF IInv, TypeOK, ControlInv, MissSound, Inside, Count,
                Finish, cpuVars, historyVars
  <1> QED
    BY <1>1, <1>2, <1>4 DEF IInv

LEMMA MigrateInv == IInv /\ Migrate => IInv'
  <1> SUFFICES ASSUME IInv, Migrate PROVE IInv'
    OBVIOUS
  <1>1. ~Inside /\ ~Inside'
    BY DEF IInv, ControlInv, Migrate, Inside, programVars
  <1>2. MmuTypeOK' /\ TableInv' /\ CacheInv' /\ SignalIntact' /\ ChainInv' /\ SurvivalInv'
    BY <1>1, IdleHardware DEF Migrate
  <1>3. cpu' \in CPUs
    BY DEF IInv, TypeOK, Migrate
  <1>4. TypeOK'
    BY <1>2, <1>3 DEF IInv, TypeOK, Migrate, programVars, historyVars
  <1>5. ControlInv' /\ MissSound'
    BY FlushEffect DEF IInv, TypeOK, ControlInv, MissSound, Survivors, Current, Inside, Count,
                       Migrate, programVars, historyVars
  <1> QED
    BY <1>2, <1>4, <1>5 DEF IInv

--------------------------------------------------------------------------------
(* The steps of an iteration *)

LEMMA IterateInv == IInv /\ Iterate => IInv'
  <1> SUFFICES ASSUME IInv, Iterate PROVE IInv'
    OBVIOUS
  <1>1. PICK r \in Region : target' = r /\ noExecute' = noExecute \ (Area \X {Top(r)})
    BY DEF Iterate
  <1>2. noExecute' \subseteq TopEntries
    BY <1>1 DEF IInv, TypeOK
  <1>3. TypeOK'
    BY <1>1, <1>2 DEF IInv, TypeOK, MmuTypeOK, Iterate, mmuVars
  <1>4. ControlInv' /\ MissSound'
    BY DEF IInv, TypeOK, ControlInv, MissSound, Survivors, Current, Inside, Count,
           Iterate, mmuVars
  <1>5. TableInv' /\ SignalIntact' /\ SurvivalInv'
    BY DEF IInv, TableInv, SignalIntact, SurvivalInv, Iterate, mmuVars
  <1>6. CacheInv'
    BY DEF IInv, CacheInv, Iterate, mmuVars
  <1>7. ChainInv'
    BY <1>1, MmuAssumption DEF ChainInv, Iterate, Region
  <1> QED
    BY <1>3, <1>4, <1>5, <1>6, <1>7 DEF IInv

\* Before the entries are switched, and on other regions than the target's
\* until the probe, every access goes to the base area.
LEMMA AccessesGoToBase ==
  ASSUME IInv, NEW kind \in Kind, NEW pg \in Page,
         pc \notin {"restore", "reflush"}, pc # "walk" \/ pg[1] # target
  PROVE  Translate(kind, pg) = "base"
  <1>1. pg[1] \in Region /\ "base" \in Area
    BY PageShape DEF Area
  <1>2. pageTable["base"][pg[1]] = "base"
    BY <1>1 DEF IInv, TableInv
  <1>3. \A s \in Structure : tlb[s][pg] \in {Nothing, "base"}
                             /\ cache[s][pg[1]] \in {Nothing, "base"}
    BY DEF IInv, CacheInv
  <1> QED
    BY <1>2, <1>3, TranslateBase DEF IInv, TypeOK

\* Such an access leaves base translations only.
LEMMA BaseAccessCaches ==
  ASSUME IInv, NEW kind \in Kind, NEW pg \in Page, Access(kind, pg),
         pc \notin {"restore", "reflush"}, pc # "walk" \/ pg[1] # target
  PROVE  \A s \in Structure : \A q \in Page :
           tlb'[s][q] \in {Nothing, "base"} /\ cache'[s][q[1]] \in {Nothing, "base"}
  <1>1. Translate(kind, pg) = "base"
    BY AccessesGoToBase
  <1>2. \A s \in Structure : \A q \in Page :
          tlb[s][q] \in {Nothing, "base"} /\ cache[s][q[1]] \in {Nothing, "base"}
    BY DEF IInv, CacheInv
  <1>3. \A q \in Page : q[1] \in Region
    BY PageShape
  <1> QED
    BY SMTT(20), <1>1, <1>2, <1>3, AccessEffect DEF IInv, TypeOK

LEMMA BuildLinkInv == IInv /\ BuildLink => IInv'
  <1> SUFFICES ASSUME IInv, BuildLink PROVE IInv'
    OBVIOUS
  <1> DEFINE here == <<target + link, 0>>
             next == <<target + link + 1, 0>>
  <1>1. target \in Nat /\ link \in Nat /\ target + link + 1 < Entries /\ Entries \in Nat
    BY MmuAssumption DEF IInv, TypeOK, BuildLink, ChainGoesOn, Region
  <1>2. here \in Page /\ next \in Page /\ next \in Word /\ "data" \in Kind /\ next # Signal
    BY <1>1, MmuAssumption DEF Page, Region, Sub, Word, Kind
  <1>3. WriteData(here, next) /\ Access("data", here) /\ present' = present
    BY DEF BuildLink, WriteData
  <1>4. Translate("data", here) = "base"
    BY <1>2, AccessesGoToBase DEF BuildLink
  <1>5. /\ MmuTypeOK'
        /\ memory'["complementary"] = memory["complementary"]
        /\ memory'["base"] = [memory["base"] EXCEPT ![here] = next]
        /\ pageTable' = pageTable
    BY <1>2, <1>3, <1>4, WriteBase DEF IInv, TypeOK
  <1> HIDE DEF here, next
  <1>6. TypeOK'
    BY <1>5 DEF IInv, TypeOK, BuildLink, cpuVars, historyVars
  <1>7. ControlInv' /\ MissSound' /\ SurvivalInv'
    BY <1>3 DEF IInv, TypeOK, ControlInv, MissSound, SurvivalInv, Survivors, Current, Inside,
                Count, BuildLink, cpuVars, historyVars
  <1>8. TableInv'
    BY <1>5 DEF IInv, TableInv, BuildLink
  <1>9. CacheInv'
    BY <1>2, <1>3, BaseAccessCaches DEF CacheInv, BuildLink
  <1>10. SignalIntact'
    BY <1>2, <1>5 DEF IInv, TypeOK, MmuTypeOK, SignalIntact, Area
  <1>11. ChainInv'
    <2>1. pc' = "build" /\ target' = target /\ link' = link + 1
      BY DEF BuildLink
    <2>2. \A j \in 0 .. link : memory'["base"][<<target + j, 0>>] = <<target + j + 1, 0>>
      <3> SUFFICES ASSUME NEW j \in 0 .. link
                   PROVE  memory'["base"][<<target + j, 0>>] = <<target + j + 1, 0>>
        OBVIOUS
      <3>1. memory["base"] \in [Page -> Word] /\ <<target + j, 0>> \in Page
        BY <1>1 DEF IInv, TypeOK, MmuTypeOK, Area, Page, Region, Sub
      <3>2. CASE j = link
        BY <3>1, <3>2, <1>1, <1>5 DEF here, next
      <3>3. CASE j # link
        <4>1. j \in 0 .. link - 1 /\ <<target + j, 0>> # here
          BY <1>1, <3>3 DEF here
        <4>2. memory["base"][<<target + j, 0>>] = <<target + j + 1, 0>>
          BY <4>1 DEF IInv, ChainInv, BuildLink
        <4> QED
          BY <3>1, <4>1, <4>2, <1>5
      <3> QED
        BY <3>2, <3>3
    <2> QED
      BY <1>1, <2>1, <2>2 DEF ChainInv
  <1> QED
    BY <1>6, <1>7, <1>8, <1>9, <1>10, <1>11 DEF IInv

LEMMA CloseChainInv == IInv /\ CloseChain => IInv'
  <1> SUFFICES ASSUME IInv, CloseChain PROVE IInv'
    OBVIOUS
  <1> DEFINE here == <<target + link, 0>>
  <1>1. target \in Nat /\ link \in Nat /\ target + link < Entries /\ Entries \in Nat
    BY MmuAssumption DEF IInv, TypeOK, ChainInv, CloseChain, Region
  <1>2. /\ here \in Page /\ Prefix \in Page /\ Prefix \in Word
        /\ "data" \in Kind /\ Prefix # Signal
    BY <1>1, MmuAssumption DEF IInv, TypeOK, Page, Region, Sub, Word, Kind, Prefix
  <1>3. WriteData(here, Prefix) /\ Access("data", here) /\ present' = present
    BY DEF CloseChain, WriteData
  <1>4. Translate("data", here) = "base"
    BY <1>2, AccessesGoToBase DEF CloseChain
  <1>5. /\ MmuTypeOK'
        /\ memory'["complementary"] = memory["complementary"]
        /\ memory'["base"] = [memory["base"] EXCEPT ![here] = Prefix]
        /\ pageTable' = pageTable
    BY <1>2, <1>3, <1>4, WriteBase DEF IInv, TypeOK
  <1> HIDE DEF here
  <1>6. TypeOK'
    BY <1>5 DEF IInv, TypeOK, CloseChain, cpuVars, historyVars
  <1>7. ControlInv' /\ MissSound' /\ SurvivalInv'
    BY <1>3 DEF IInv, TypeOK, ControlInv, MissSound, SurvivalInv, Survivors, Current, Inside,
                Count, CloseChain, cpuVars, historyVars
  <1>8. TableInv'
    BY <1>5 DEF IInv, TableInv, CloseChain
  <1>9. CacheInv'
    BY <1>2, <1>3, BaseAccessCaches DEF CacheInv, CloseChain
  <1>10. SignalIntact'
    BY <1>2, <1>5 DEF IInv, TypeOK, MmuTypeOK, SignalIntact, Area
  <1>11. ChainInv'
    <2>1. pc' = "flush" /\ target' = target /\ link' = link /\ Prefix' = Prefix
      BY DEF CloseChain, Prefix
    <2>2. memory["base"] \in [Page -> Word]
      BY DEF IInv, TypeOK, MmuTypeOK, Area
    <2>3. memory'["base"][here] = Prefix
      BY <1>2, <1>5, <2>2
    <2>4. ASSUME NEW j \in 0 .. link - 1
          PROVE  memory'["base"][<<target + j, 0>>] = <<target + j + 1, 0>>
      <3>1. <<target + j, 0>> \in Page /\ <<target + j, 0>> # here
        BY <1>1 DEF here, Page, Region, Sub
      <3>2. memory["base"][<<target + j, 0>>] = <<target + j + 1, 0>>
        BY DEF IInv, ChainInv, CloseChain
      <3> QED
        BY <1>5, <2>2, <3>1, <3>2
    <2> QED
      BY <1>1, <2>1, <2>3, <2>4 DEF ChainInv, here
  <1> QED
    BY <1>6, <1>7, <1>8, <1>9, <1>10, <1>11 DEF IInv

LEMMA FlushInv == IInv /\ Flush => IInv'
  <1> SUFFICES ASSUME IInv, Flush PROVE IInv'
    OBVIOUS
  <1>1. /\ MmuTypeOK'
        /\ UNCHANGED <<pageTable, memory, present>>
        /\ \A s \in Structure : \A pg \in Page : tlb'[s][pg] = Nothing
        /\ \A s \in Structure : \A r \in Region : cache'[s][r] = Nothing
    BY FlushEffect DEF IInv, TypeOK, Flush
  <1>2. TypeOK'
    BY <1>1 DEF IInv, TypeOK, Flush, cpuVars, historyVars
  <1>3. ControlInv' /\ MissSound'
    BY <1>1 DEF IInv, TypeOK, ControlInv, MissSound, Survivors, Current, Inside, Count,
                Flush, cpuVars, historyVars
  <1>4. TableInv' /\ SignalIntact'
    BY <1>1 DEF IInv, TableInv, SignalIntact, Flush
  <1>5. CacheInv'
    BY <1>1, PageShape DEF CacheInv
  <1>6. ChainInv'
    BY <1>1 DEF IInv, ChainInv, Flush, Prefix
  <1>7. SurvivalInv'
    <2>1. pc' = "noise" /\ target' = target /\ <<target, 0>> \in Page
      BY DEF IInv, TypeOK, Flush, Page, Sub
    <2> QED
      BY <1>1, <2>1 DEF SurvivalInv
  <1> QED
    BY <1>2, <1>3, <1>4, <1>5, <1>6, <1>7 DEF IInv

LEMMA ReadNoiseInv == IInv /\ ReadNoise => IInv'
  <1> SUFFICES ASSUME IInv, ReadNoise PROVE IInv'
    OBVIOUS
  <1>1. PICK r \in Region : ReadOnly("data", <<r, 0>>) /\ tainted' = (tainted \/ r = target)
    BY DEF ReadNoise
  <1>2. <<r, 0>> \in Page /\ "data" \in Kind /\ Access("data", <<r, 0>>)
    BY <1>1 DEF ReadOnly, Page, Sub, Kind
  <1>3. MmuTypeOK' /\ UNCHANGED <<pageTable, memory, present>>
    BY <1>1, <1>2, ReadOnlyType DEF IInv, TypeOK, ReadOnly
  <1>4. TypeOK'
    <2>1. tainted' \in BOOLEAN
      BY <1>1
    <2> QED
      BY <1>3, <2>1 DEF IInv, TypeOK, ReadNoise, cpuVars
  <1>5. ControlInv' /\ MissSound'
    BY <1>3 DEF IInv, TypeOK, ControlInv, MissSound, Survivors, Current, Inside, Count,
                ReadNoise, cpuVars
  <1>6. TableInv' /\ SignalIntact'
    BY <1>3 DEF IInv, TableInv, SignalIntact, ReadNoise
  <1>7. CacheInv'
    BY <1>2, BaseAccessCaches DEF CacheInv, ReadNoise
  <1>8. ChainInv'
    BY <1>3 DEF IInv, ChainInv, ReadNoise, Prefix
  <1>9. SurvivalInv'
    <2> SUFFICES ASSUME ~tainted', NEW s \in Structure
                 PROVE  tlb'[s][<<target, 0>>] = Nothing
      BY DEF SurvivalInv, ReadNoise
    <2>1. ~tainted /\ r # target
      BY <1>1
    <2>2. <<target, 0>> \in Page /\ <<target, 0>> # <<r, 0>>
      BY <2>1 DEF IInv, TypeOK, Page, Sub
    <2>3. tlb[s][<<target, 0>>] = Nothing
      BY <2>1 DEF IInv, SurvivalInv, ReadNoise
    <2> QED
      BY <1>2, <2>2, <2>3, AccessEffect DEF IInv, TypeOK
  <1> QED
    BY <1>4, <1>5, <1>6, <1>7, <1>8, <1>9 DEF IInv

\* The prime: what it reads is the first word of the chain, and unless noise
\* got there first it fills every cache that serves it.
LEMMA PrimeInv == IInv /\ Prime => IInv'
  <1> SUFFICES ASSUME IInv, Prime PROVE IInv'
    OBVIOUS
  <1> DEFINE here == <<target, 0>>
             kind == Current.prime
  <1>1. k <= Len(Program) /\ Current \in Experiment
    BY ProgramShape DEF IInv, ControlInv, Inside, Prime
  <1>2. kind \in Kind /\ here \in Page /\ here[1] = target /\ target \in Nat
    BY <1>1 DEF Experiment, IInv, TypeOK, Page, Sub, Region
  <1>3. ReadOnly(kind, here) /\ Access(kind, here) /\ UNCHANGED <<pageTable, memory, present>>
    BY DEF Prime, ReadOnly
  <1>4. Translate(kind, here) = "base"
    BY <1>2, AccessesGoToBase DEF Prime
  <1>5. MmuTypeOK'
    BY <1>2, <1>3, ReadOnlyType DEF IInv, TypeOK
  <1>6. p' = memory["base"][here] /\ p' \in Word
    BY <1>2, <1>4 DEF Prime, Load, IInv, TypeOK, MmuTypeOK, Area
  <1> HIDE DEF here
  <1>7. TypeOK'
    BY <1>5, <1>6 DEF IInv, TypeOK, Prime, cpuVars, historyVars
  <1>8. ControlInv' /\ MissSound'
    BY <1>3 DEF IInv, TypeOK, ControlInv, MissSound, Survivors, Current, Inside, Count,
                Prime, cpuVars, historyVars
  <1>9. TableInv' /\ SignalIntact'
    BY <1>3 DEF IInv, TableInv, SignalIntact, Prime
  <1>10. CacheInv'
    BY <1>2, <1>3, BaseAccessCaches DEF CacheInv, Prime
  <1>11. ChainInv'
    <2>1. pc' = "switch" /\ UNCHANGED <<target, link, memory, Prefix>>
      BY <1>3 DEF Prime, Prefix
    <2>2. link \in Nat
      BY DEF IInv, TypeOK
    <2>3. /\ target + link < Entries
          /\ \A j \in 0 .. link - 1 : memory["base"][<<target + j, 0>>] = <<target + j + 1, 0>>
          /\ memory["base"][<<target + link, 0>>] = Prefix
      BY DEF IInv, ChainInv, Prime
    <2>4. p' = Prefix \/ \E j \in 1 .. link : p' = <<target + j, 0>>
      <3>1. CASE link = 0
        BY <1>2, <1>6, <2>3, <3>1 DEF here
      <3>2. CASE link > 0
        <4>1. memory["base"][<<target + 0, 0>>] = <<target + 0 + 1, 0>> /\ 1 \in 1 .. link
          BY <2>2, <2>3, <3>2
        <4>2. p' = <<target + 1, 0>>
          BY <1>2, <1>6, <4>1 DEF here
        <4> QED
          BY <4>1, <4>2
      <3> QED
        BY <2>2, <3>1, <3>2
    <2> QED
      BY <2>1, <2>3, <2>4 DEF ChainInv
  <1>12. SurvivalInv'
    <2> SUFFICES ASSUME ~tainted, NEW s \in Survivors(Current)
                 PROVE  cache'[s][target] = "base"
      BY <1>3 DEF SurvivalInv, Survivors, Current, Prime, historyVars
    <2>1. s \in Serving(kind) \cap present
      BY DEF Survivors
    <2>2. Serving(kind) \subseteq Structure
      BY <1>2 DEF Serving, Kind, Structure
    <2>3. ~TlbHit(kind, here)
      BY <2>2 DEF TlbHit, IInv, SurvivalInv, Prime, here
    <2> QED
      BY <1>2, <1>3, <1>4, <2>1, <2>3, AccessEffect DEF IInv, TypeOK
  <1> QED
    BY <1>7, <1>8, <1>9, <1>10, <1>11, <1>12 DEF IInv

LEMMA SwitchInv == IInv /\ Switch => IInv'
  <1> SUFFICES ASSUME IInv, Switch PROVE IInv'
    OBVIOUS
  <1>1. /\ MmuTypeOK'
        /\ UNCHANGED <<memory, tlb, cache, newer, present>>
        /\ \A a \in Area : \A r \in Region :
             pageTable'[a][r] = IF r = target
               THEN pageTable[IF a = "base" THEN "complementary" ELSE "base"][r]
               ELSE pageTable[a][r]
    BY SwitchEffect DEF IInv, TypeOK, Switch
  <1>2. TypeOK'
    BY <1>1 DEF IInv, TypeOK, Switch, cpuVars, historyVars
  <1>3. ControlInv' /\ MissSound'
    BY <1>1 DEF IInv, TypeOK, ControlInv, MissSound, Survivors, Current, Inside, Count,
                Switch, cpuVars, historyVars
  <1>4. TableInv'
    BY <1>1 DEF IInv, TableInv, Switch, Area
  <1>5. CacheInv'
    BY <1>1 DEF IInv, CacheInv, Switch
  <1>6. SignalIntact' /\ ChainInv'
    BY <1>1 DEF IInv, SignalIntact, ChainInv, Switch, Prefix
  <1>7. SurvivalInv'
    BY <1>1 DEF IInv, SurvivalInv, Survivors, Current, Switch, historyVars
  <1> QED
    BY <1>2, <1>3, <1>4, <1>5, <1>6, <1>7 DEF IInv

\* A step of the walk reads a link beyond the target, through base
\* translations, and leaves the surviving caches alone.
LEMMA WalkInv == IInv /\ Walk => IInv'
  <1> SUFFICES ASSUME IInv, Walk PROVE IInv'
    OBVIOUS
  <1> DEFINE kind == Current.walk
  <1>1. k <= Len(Program) /\ Current \in Experiment
    BY ProgramShape DEF IInv, ControlInv, Inside, Walk
  <1>2. kind \in Kind
    BY <1>1 DEF Experiment, Walk, Walking
  <1>3. p \in Page /\ ReadOnly(kind, p) /\ Access(kind, p) /\ UNCHANGED <<pageTable, memory, present>>
    BY DEF Walk, ReadOnly
  <1>4. PICK j \in 1 .. link : p = <<target + j, 0>>
    BY DEF IInv, ChainInv, Walk, Walking
  <1>5. target \in Nat /\ link \in Nat /\ target + link < Entries /\ Entries \in Nat
    BY MmuAssumption DEF IInv, TypeOK, ChainInv, Walk, Region
  <1>6. p[1] # target
    BY <1>4, <1>5
  <1>7. Translate(kind, p) = "base"
    BY <1>2, <1>3, <1>6, AccessesGoToBase DEF Walk
  <1>8. MmuTypeOK'
    BY <1>2, <1>3, ReadOnlyType DEF IInv, TypeOK
  <1>9. p' = memory["base"][p] /\ p' \in Word
    BY <1>3, <1>7 DEF Walk, Load, IInv, TypeOK, MmuTypeOK, Area
  <1>10. TypeOK'
    BY <1>8, <1>9 DEF IInv, TypeOK, Walk, cpuVars, historyVars
  <1>11. ControlInv' /\ MissSound'
    BY <1>3 DEF IInv, TypeOK, ControlInv, MissSound, Survivors, Current, Inside, Count,
                Walk, cpuVars, historyVars
  <1>12. TableInv' /\ SignalIntact'
    BY <1>3 DEF IInv, TableInv, SignalIntact, Walk
  <1>13. CacheInv'
    BY <1>2, <1>3, <1>6, BaseAccessCaches DEF CacheInv, Walk
  <1>14. ChainInv'
    <2>1. pc = "walk" /\ pc' = "walk" /\ UNCHANGED <<target, link, memory, Prefix>>
      BY <1>3 DEF Walk, Prefix
    <2>2. /\ \A n \in 0 .. link - 1 : memory["base"][<<target + n, 0>>] = <<target + n + 1, 0>>
          /\ memory["base"][<<target + link, 0>>] = Prefix
      BY <2>1 DEF IInv, ChainInv
    <2>3. p' = Prefix \/ \E n \in 1 .. link : p' = <<target + n, 0>>
      <3>1. CASE j = link
        BY <1>4, <1>9, <2>2, <3>1
      <3>2. CASE j # link
        <4>1. j \in 0 .. link - 1 /\ j + 1 \in 1 .. link /\ target + j + 1 = target + (j + 1)
          BY <1>5, <3>2
        <4>2. p' = <<target + (j + 1), 0>>
          BY <1>4, <1>9, <2>2, <4>1
        <4> QED
          BY <4>1, <4>2
      <3> QED
        BY <3>1, <3>2
    <2> QED
      BY <1>5, <2>1, <2>2, <2>3 DEF ChainInv
  <1>15. SurvivalInv'
    <2> SUFFICES ASSUME ~tainted, NEW s \in Survivors(Current)
                 PROVE  cache'[s][target] = "base"
      BY <1>3 DEF SurvivalInv, Survivors, Current, Walk, historyVars
    <2>1. s \in Structure /\ s \notin Serving(kind)
      BY DEF Survivors, Walk, Walking, IInv, TypeOK, MmuTypeOK
    <2>2. cache[s][target] = "base"
      BY DEF IInv, SurvivalInv, Walk
    <2> QED
      BY <1>2, <1>3, <2>1, <2>2, AccessEffect DEF IInv, TypeOK
  <1> QED
    BY <1>10, <1>11, <1>12, <1>13, <1>14, <1>15 DEF IInv

\* The probe: an undisturbed surviving cache answers it with the old entry.
LEMMA ProbeInv == IInv /\ Probe => IInv'
  <1> SUFFICES ASSUME IInv, Probe PROVE IInv'
    OBVIOUS
  <1> DEFINE kind == Current.probe
             area == Translate(kind, p)
  <1>1. k <= Len(Program) /\ Current \in Experiment
    BY ProgramShape DEF IInv, ControlInv, Inside, Probe
  <1>2. kind \in Kind /\ p \in Page /\ p[1] \in Region
    BY <1>1, PageShape DEF Experiment, Probe
  <1>3. ReadOnly(kind, p) /\ Access(kind, p) /\ UNCHANGED <<pageTable, memory, present>>
    BY DEF Probe, ReadOnly
  <1>4. MmuTypeOK' /\ area \in Area
    BY <1>2, <1>3, ReadOnlyType, TranslateType DEF IInv, TypeOK
  <1>5. p[1] # target => area = "base"
    BY <1>2, AccessesGoToBase DEF Probe
  <1>6. \A s \in Structure : \A q \in Page :
          tlb[s][q] \in {Nothing, "base"} /\ cache[s][q[1]] \in {Nothing, "base"}
    BY DEF IInv, CacheInv, Probe
  <1>7. misses' = misses + Count(memory[area][p] = Signal) /\ spoiled' = spoiled + Count(tainted)
        /\ short' = short + Count(CutShort)
    BY DEF Probe, Load
  <1> HIDE DEF area
  <1>8. ControlInv'
    <2>1. /\ pc' = "restore" /\ i' = i /\ k' = k /\ claimed' = claimed
          /\ misses \in Nat /\ spoiled \in Nat /\ short \in Nat /\ i \in Nat
          /\ misses <= i /\ spoiled <= i /\ short <= i /\ i < Iterations /\ claimed
      BY MeasurementAssumption DEF IInv, TypeOK, ControlInv, Inside, Count, Probe, cpuVars
    <2>2. misses' <= i + 1 /\ spoiled' <= i + 1 /\ short' <= i + 1
      BY <1>7, <2>1 DEF Count
    <2> QED
      BY <1>1, <2>1, <2>2 DEF ControlInv, Inside, Count
  <1>9. TypeOK'
    <2>1. /\ misses \in Nat /\ spoiled \in Nat /\ short \in Nat /\ i \in Nat
          /\ misses <= i /\ spoiled <= i /\ short <= i /\ i < Iterations /\ Iterations \in Nat
      BY MeasurementAssumption DEF IInv, TypeOK, ControlInv, Inside, Count, Probe
    <2>2. misses' \in 0 .. Iterations /\ spoiled' \in 0 .. Iterations /\ short' \in 0 .. Iterations
      BY <1>7, <2>1 DEF Count
    <2> QED
      BY <1>4, <2>2 DEF IInv, TypeOK, Probe, cpuVars
  <1>10. TableInv' /\ SignalIntact'
    BY <1>3 DEF IInv, TableInv, SignalIntact, Probe
  <1>11. CacheInv'
    <2> SUFFICES ASSUME NEW s \in Structure, NEW q \in Page, q[1] # target
                 PROVE  tlb'[s][q] \in {Nothing, "base"} /\ cache'[s][q[1]] \in {Nothing, "base"}
      BY DEF CacheInv, Probe
    <2>1. q[1] \in Region
      BY PageShape
    <2>2. tlb'[s][q] = tlb[s][q] \/ (q = p /\ tlb'[s][q] = area)
      BY <1>2, <1>3, AccessEffect DEF IInv, TypeOK, area
    <2>3. \/ cache'[s][q[1]] \in {cache[s][q[1]], Nothing}
          \/ q[1] = p[1] /\ cache'[s][q[1]] = area
      BY <1>2, <1>3, <2>1, AccessEffect DEF IInv, TypeOK, area
    <2> QED
      BY <1>5, <1>6, <2>2, <2>3
  <1>12. ChainInv' /\ SurvivalInv'
    BY DEF ChainInv, SurvivalInv, Probe
  <1>13. MissSound'
    <2> SUFFICES ASSUME Survivors(Current) # {} PROVE misses' <= spoiled'
      BY <1>3 DEF MissSound, Survivors, Current, Probe
    <2>1. misses \in Nat /\ spoiled \in Nat /\ misses <= spoiled
      BY <1>1 DEF IInv, TypeOK, MissSound, Probe
    <2>2. CASE tainted
      BY <1>7, <2>1, <2>2 DEF Count
    <2>3. CASE ~tainted
      <3>1. area = "base"
        <4>1. CASE p[1] # target
          BY <1>5, <4>1
        <4>2. CASE p[1] = target
          <5>1. PICK s \in Survivors(Current) : cache[s][target] = "base"
            BY <2>3 DEF IInv, SurvivalInv, Probe
          <5>2. s \in {kind, "shared"}
            BY DEF Survivors, Serving
          <5>3. Nothing # "base"
            BY MmuAssumption DEF Area
          <5>4. kind \in Structure /\ "shared" \in Structure
            BY <1>2 DEF Kind, Structure
          <5> QED
            BY <1>2, <1>6, <4>2, <5>1, <5>2, <5>3, <5>4 DEF area, Translate
        <4> QED
          BY <4>1, <4>2
      <3>2. memory[area][p] # Signal
        BY <1>2, <3>1 DEF IInv, SignalIntact
      <3> QED
        BY <1>7, <2>1, <2>3, <3>2 DEF Count
    <2> QED
      BY <2>2, <2>3
  <1> QED
    BY <1>8, <1>9, <1>10, <1>11, <1>12, <1>13 DEF IInv

LEMMA RestoreInv == IInv /\ Restore => IInv'
  <1> SUFFICES ASSUME IInv, Restore PROVE IInv'
    OBVIOUS
  <1>1. /\ MmuTypeOK'
        /\ UNCHANGED <<memory, tlb, cache, newer, present>>
        /\ \A a \in Area : \A r \in Region :
             pageTable'[a][r] = IF r = target
               THEN pageTable[IF a = "base" THEN "complementary" ELSE "base"][r]
               ELSE pageTable[a][r]
    BY SwitchEffect DEF IInv, TypeOK, Restore
  <1>2. TypeOK'
    BY <1>1 DEF IInv, TypeOK, Restore, cpuVars, historyVars
  <1>3. ControlInv' /\ MissSound'
    BY <1>1 DEF IInv, TypeOK, ControlInv, MissSound, Survivors, Current, Inside, Count,
                Restore, cpuVars, historyVars
  <1>4. TableInv'
    BY <1>1 DEF IInv, TableInv, Restore, Area
  <1>5. CacheInv'
    BY <1>1 DEF IInv, CacheInv, Restore
  <1>6. SignalIntact' /\ ChainInv' /\ SurvivalInv'
    BY <1>1 DEF IInv, SignalIntact, ChainInv, SurvivalInv, Restore
  <1> QED
    BY <1>2, <1>3, <1>4, <1>5, <1>6 DEF IInv

LEMMA ReflushInv == IInv /\ Reflush => IInv'
  <1> SUFFICES ASSUME IInv, Reflush PROVE IInv'
    OBVIOUS
  <1>1. /\ MmuTypeOK'
        /\ UNCHANGED <<pageTable, memory, present>>
        /\ \A s \in Structure : \A pg \in Page : tlb'[s][pg] = Nothing
        /\ \A s \in Structure : \A r \in Region : cache'[s][r] = Nothing
    BY FlushEffect DEF IInv, TypeOK, Reflush
  <1>2. i \in Nat /\ i < Iterations /\ i' = i + 1 /\ Iterations \in Nat
    BY MeasurementAssumption DEF IInv, TypeOK, ControlInv, Inside, Reflush
  <1>3. TypeOK'
    BY <1>1, <1>2 DEF IInv, TypeOK, Reflush, cpuVars, historyVars
  <1>4. ControlInv' /\ MissSound'
    BY <1>1, <1>2 DEF IInv, TypeOK, ControlInv, MissSound, Survivors, Current, Inside, Count,
                      Reflush, cpuVars, historyVars
  <1>5. TableInv' /\ SignalIntact'
    BY <1>1 DEF IInv, TableInv, SignalIntact, Reflush
  <1>6. CacheInv'
    BY <1>1, PageShape DEF CacheInv
  <1>7. ChainInv' /\ SurvivalInv'
    BY DEF ChainInv, SurvivalInv, Reflush
  <1> QED
    BY <1>3, <1>4, <1>5, <1>6, <1>7 DEF IInv

LEMMA DisturbInv == IInv /\ Disturb => IInv'
  <1> SUFFICES ASSUME IInv, Disturb PROVE IInv'
    OBVIOUS
  <1>1. /\ MmuTypeOK'
        /\ UNCHANGED <<pageTable, memory, present>>
        /\ \A s \in Structure : \A pg \in Page : tlb'[s][pg] \in {tlb[s][pg], Nothing}
        /\ \A s \in Structure : \A r \in Region : cache'[s][r] \in {cache[s][r], Nothing}
    BY DropEffect DEF IInv, TypeOK, Disturb
  <1>2. disturbances' \in 0 .. MaxDisturb /\ tainted' = TRUE
    BY MeasurementAssumption DEF IInv, TypeOK, Disturb
  <1>3. TypeOK'
    <2>1. tainted' \in BOOLEAN
      BY <1>2
    <2> QED
      BY <1>1, <1>2, <2>1 DEF IInv, TypeOK, Disturb, programVars, cpuVars
  <1>4. ControlInv' /\ MissSound'
    BY <1>1 DEF IInv, TypeOK, ControlInv, MissSound, Survivors, Current, Inside, Count,
                Disturb, programVars, cpuVars
  <1>5. TableInv' /\ SignalIntact'
    BY <1>1 DEF IInv, TableInv, SignalIntact, Disturb, programVars
  <1>6. CacheInv'
    BY <1>1, PageShape DEF IInv, CacheInv, Disturb, programVars
  <1>7. ChainInv' /\ SurvivalInv'
    BY <1>1, <1>2 DEF IInv, ChainInv, SurvivalInv, Disturb, programVars, Prefix
  <1> QED
    BY <1>3, <1>4, <1>5, <1>6, <1>7 DEF IInv

LEMMA StutterInv == IInv /\ UNCHANGED vars => IInv'
  <1> SUFFICES ASSUME IInv, UNCHANGED vars PROVE IInv'
    OBVIOUS
  <1> USE DEF IInv, vars, mmuVars, programVars, cpuVars, historyVars
  <1>1. TypeOK'
    BY DEF TypeOK, MmuTypeOK
  <1>2. ControlInv'
    BY DEF ControlInv, Inside
  <1>3. TableInv' /\ CacheInv' /\ SignalIntact'
    BY DEF TableInv, CacheInv, SignalIntact
  <1>4. ChainInv'
    BY DEF ChainInv, Prefix
  <1>5. SurvivalInv' /\ MissSound'
    BY DEF SurvivalInv, MissSound, Survivors, Current
  <1> QED
    BY <1>1, <1>2, <1>3, <1>4, <1>5

--------------------------------------------------------------------------------
(* The theorems *)

\* IInv holds in every reachable state.
THEOREM Invariance == Spec => []IInv
  <1>1. IInv /\ [Next]_vars => IInv'
    BY SetAffinityInv, SetAffinityFailsInv, BeginExperimentInv, ClaimCpuInv, ReleaseCpuInv,
       ReturnMissesInv, FinishInv, MigrateInv, IterateInv, BuildLinkInv, CloseChainInv, FlushInv,
       ReadNoiseInv, PrimeInv, SwitchInv, WalkInv, ProbeInv, RestoreInv, ReflushInv, DisturbInv,
       StutterInv
       DEF Next, Step, Terminating
  <1> QED
    BY InitInv, <1>1, PTL DEF Spec

\* The types of all variables, in particular that no chain write leaves the
\* mapped pages (build_pointer_chain's bound).
THEOREM TypeCorrect == Spec => []TypeOK
  <1>1. IInv => TypeOK
    BY DEF IInv
  <1> QED
    BY Invariance, <1>1, PTL

\* Whenever the CPU is not claimed, and outside the window between the two switches and
\* the last flush, page table and caches are as the trigger left them.
THEOREM WindowIsClosed == Spec => []WindowClosed
  <1>1. IInv => WindowClosed
    <2> SUFFICES ASSUME IInv, ~claimed \/ pc \notin {"walk", "restore", "reflush"}
                 PROVE  PageTableIntact /\ CachesCoherent
      BY DEF WindowClosed
    <2>1. pc \notin {"walk", "restore", "reflush"}
      BY DEF IInv, ControlInv, Inside
    <2>2. \A a \in Area : \A r \in Region : pageTable[a][r] = a
      BY <2>1 DEF IInv, TableInv
    <2>3. PageTableIntact
      BY <2>2 DEF PageTableIntact, IInv, TypeOK, MmuTypeOK
    <2>4. CachesCoherent
      BY <2>1, <2>2, PageShape DEF CachesCoherent, IInv, CacheInv, Area
    <2> QED
      BY <2>3, <2>4
  <1> QED
    BY Invariance, <1>1, PTL

\* SIGNAL is where the trigger put it and nowhere else.
THEOREM SignalStaysIntact == Spec => []SignalIntact
  <1>1. IInv => SignalIntact
    BY DEF IInv
  <1> QED
    BY Invariance, <1>1, PTL

\* The walk only ever follows mapped links of its own chain.
THEOREM WalkIsMapped == Spec => []WalkStaysMapped
  <1>1. IInv => WalkStaysMapped
    <2> SUFFICES ASSUME IInv, pc = "walk"
                 PROVE  p \in Page /\ (p[1] = target => p = Prefix)
      BY DEF WalkStaysMapped
    <2>1. target \in Nat /\ link \in Nat /\ target + link < Entries /\ Entries \in Nat
      BY MmuAssumption DEF IInv, TypeOK, ChainInv, Region
    <2>2. CASE p = Prefix
      BY <2>2 DEF IInv, TypeOK, Prefix, Page, Sub
    <2>3. ASSUME NEW j \in 1 .. link, p = <<target + j, 0>>
          PROVE  p \in Page /\ p[1] # target
      BY <2>1, <2>3 DEF Page, Region, Sub
    <2> QED
      BY <2>2, <2>3 DEF IInv, ChainInv
  <1> QED
    BY Invariance, <1>1, PTL

\* On a machine with a cache that should answer the probe, every miss is
\* accounted for by noise on the target or by a dropped entry.
THEOREM MissesAreSound == Spec => []MissSound
  <1>1. IInv => MissSound
    BY DEF IInv
  <1> QED
    BY Invariance, <1>1, PTL

--------------------------------------------------------------------------------
(* Fetches: with one top-level entry for the regions of the level, and with    *)
(* disable_smep before every experiment that fetches, no fetch faults.          *)

OneTopEntry == RegionsPerTop >= Entries

FetchesWithoutSmep ==
  \A n \in 1 .. Len(Program) :
    "instruction" \in {Program[n].prime, Program[n].walk, Program[n].probe} => Program[n].smepOff

\* disable_smep changes CR4 of one CPU: it counts only because the process cannot leave
\* that CPU, although it can be preempted until claim_cpu.
PermitInv ==
  /\ pc \notin {"start", "exited"} => affinity = {PinnedCore} /\ cpu = PinnedCore
  /\ pc \notin {"start", "exited", "experiment", "done"} =>
       k \in 1 .. Len(Program) /\ (Current.smepOff => ~smep[PinnedCore])
  /\ pc \in {"build", "flush", "noise", "switch", "walk", "restore", "reflush"} =>
       \A a \in Area : <<a, 0>> \notin noExecute

LEMMA TopIsZero ==
  ASSUME OneTopEntry, NEW r \in Region
  PROVE  Top(r) = 0
  <1>1. r \in Nat /\ RegionsPerTop \in Nat \ {0} /\ r < RegionsPerTop
    BY MmuAssumption, MeasurementAssumption DEF Region, OneTopEntry
  <1>2. \A a \in Nat, b \in Nat \ {0} : a < b => a \div b = 0
    OBVIOUS
  <1> QED
    BY <1>1, <1>2 DEF Top

LEMMA PermitStep ==
  ASSUME OneTopEntry, TypeOK, PermitInv, Next
  PROVE  PermitInv'
  <1>1. PinnedCore \in CPUs
    BY MeasurementAssumption
  <1>2. CASE SetAffinity
    BY <1>2 DEF SetAffinity, PermitInv
  <1>3. CASE SetAffinityFails
    BY <1>3 DEF SetAffinityFails, PermitInv
  <1>4. CASE BeginExperiment
    <2>1. /\ pc = "experiment" /\ pc' = "claim" /\ k <= Len(Program)
          /\ smep' = IF Current.smepOff THEN [smep EXCEPT ![cpu] = FALSE] ELSE smep
          /\ UNCHANGED <<k, cpu, affinity, noExecute>>
      BY <1>4 DEF BeginExperiment
    <2>2. cpu = PinnedCore /\ affinity = {PinnedCore}
      BY <2>1 DEF PermitInv
    <2>3. k \in 1 .. Len(Program)
      BY <2>1, ProgramShape DEF TypeOK
    <2>4. Current' = Current
      BY <2>1 DEF Current
    <2>5. Current.smepOff => smep'[PinnedCore] = FALSE
      BY <1>1, <2>1, <2>2 DEF TypeOK
    <2> QED
      BY <2>1, <2>2, <2>3, <2>4, <2>5 DEF PermitInv
  <1>5. CASE ReturnMisses \/ Finish
    BY <1>5 DEF ReturnMisses, Finish, PermitInv, cpuVars
  <1>6. CASE Iterate
    <2>1. PICK r \in Region : noExecute' = noExecute \ (Area \X {Top(r)})
      BY <1>6 DEF Iterate
    <2>2. \A a \in Area : <<a, 0>> \notin noExecute'
      BY <2>1, TopIsZero
    <2>3. pc = "iterate" /\ UNCHANGED <<k, cpu, affinity, smep>> /\ Current' = Current
      BY <1>6 DEF Iterate, Current
    <2> QED
      BY <2>2, <2>3 DEF PermitInv
  <1>7. CASE \/ ClaimCpu \/ ReleaseCpu \/ BuildLink \/ CloseChain \/ Flush \/ ReadNoise \/ Prime
             \/ Switch \/ Walk \/ Probe \/ Restore \/ Reflush
    <2>1. UNCHANGED <<k, cpu, affinity, smep, noExecute>>
      BY <1>7
      DEF ClaimCpu, ReleaseCpu, BuildLink, CloseChain, Flush, ReadNoise, Prime, Switch, Walk,
          Probe, Restore, Reflush, cpuVars
    <2>2. /\ pc \notin {"start", "exited", "experiment", "done"}
          /\ pc' \in {"build", "flush", "noise", "switch", "walk", "restore", "reflush"} =>
               pc \in {"build", "flush", "noise", "switch", "walk", "restore", "reflush"}
      BY <1>7
      DEF ClaimCpu, ReleaseCpu, BuildLink, CloseChain, Flush, ReadNoise, Prime, Switch, Walk,
          Probe, Restore, Reflush
    <2>3. Current' = Current
      BY <2>1 DEF Current
    <2> QED
      BY <2>1, <2>2, <2>3 DEF PermitInv
  <1>8. CASE Migrate
    <2>1. /\ \E c \in affinity \ {cpu} : cpu' = c
          /\ pc \notin {"exited", "done"} /\ UNCHANGED <<pc, k, affinity, smep, noExecute>>
      BY <1>8 DEF Migrate, programVars
    <2>2. pc = "start"
      BY <2>1 DEF PermitInv
    <2> QED
      BY <2>1, <2>2 DEF PermitInv
  <1>9. CASE Disturb
    BY <1>9 DEF Disturb, programVars, cpuVars, PermitInv, Current
  <1>10. CASE Terminating
    BY <1>10 DEF Terminating, vars, programVars, cpuVars, PermitInv, Current
  <1> QED
    BY <1>2, <1>3, <1>4, <1>5, <1>6, <1>7, <1>8, <1>9, <1>10 DEF Next, Step

LEMMA PermitInvariant ==
  ASSUME OneTopEntry
  PROVE  Spec => []PermitInv
  <1>1. Init => PermitInv
    BY DEF Init, PermitInv
  <1>2. TypeOK /\ PermitInv /\ [Next]_vars => PermitInv'
    <2>1. ASSUME PermitInv, UNCHANGED vars PROVE PermitInv'
      BY <2>1 DEF vars, programVars, cpuVars, PermitInv, Current
    <2> QED
      BY <2>1, PermitStep
  <1> QED
    BY <1>1, <1>2, TypeCorrect, PTL DEF Spec

\* A fetch in kernel mode from a page of the trigger faults neither for SMEP, which is
\* off on one CPU only, nor for NX, which clear_nx has cleared in one walk only: not
\* when priming, not in the walk through other regions' pages, and not when probing.
THEOREM FetchesPermitted ==
  ASSUME OneTopEntry, FetchesWithoutSmep
  PROVE  Spec => []FetchPermitted
  <1>1. IInv /\ WalkStaysMapped /\ PermitInv => FetchPermitted
    <2> SUFFICES ASSUME IInv, WalkStaysMapped, PermitInv PROVE FetchPermitted
      OBVIOUS
    <2>1. ASSUME NEW r \in Region PROVE \E a \in Area : TopEntry(r) = <<a, 0>>
      <3>1. pageTable["base"][r] \in Area /\ "base" \in Area
        BY <2>1 DEF IInv, TypeOK, MmuTypeOK, Area
      <3> QED
        BY <2>1, <3>1, TopIsZero DEF TopEntry
    <2>2. target \in Region
      BY DEF IInv, TypeOK
    <2>3. pc \in {"noise", "walk"} =>
            /\ cpu = PinnedCore /\ k \in 1 .. Len(Program)
            /\ Current.smepOff => ~smep[cpu]
            /\ \A r \in Region : TopEntry(r) \notin noExecute
      BY <2>1 DEF PermitInv
    <2>4. pc = "walk" => p \in Page
      BY DEF WalkStaysMapped
    <2>5. pc \in {"noise", "walk"} /\ "instruction" \in {Current.prime, Current.walk, Current.probe}
            => ~smep[cpu]
      BY <2>3 DEF FetchesWithoutSmep, Current
    <2>6. <<target, 0>>[1] = target /\ \A pg \in Page : pg[1] \in Region
      BY PageShape
    <2> QED
      BY <2>2, <2>3, <2>4, <2>5, <2>6 DEF FetchPermitted
  <1> QED
    BY <1>1, Invariance, WalkIsMapped, PermitInvariant, PTL

--------------------------------------------------------------------------------
(* The experiments implement the abstract oracle                           *)
(*                                                                         *)
(* MissSound, a part of IInv, is one half: where a cache remembers the     *)
(* entry, misses are explained.  The other half is proved here: where none *)
(* does, hits are.  Its heart is EvictInv: the links of the chain that no  *)
(* TLB answers push the target's entry out of every cache they use, and    *)
(* there are Capacity of them, as noise takes away at most one per read.   *)
(* The walk is one step per link, so that the count is an invariant.       *)

\* The experiments of device_read, in any number and order.
FourExperiments ==
  \A n \in 1 .. Len(Program) :
    Program[n] \in {TestCacheExistence, TestSplitLayerInstructions,
                    TestSplitLayerData, TestSharedLayer}

\* What they have in common: either nothing happens between prime and probe, or
\* a chain that can evict is walked by accesses of the other kind.
Evicting(e) ==
  e.walk # Nothing /\ e.length >= Capacity + e.noise /\ e.probe = e.prime /\ e.walk # e.prime

Direct(e) == e.walk = Nothing /\ e.length = 0 /\ e.noise = 0

LEMMA CurrentShape ==
  ASSUME FourExperiments, TypeOK, k <= Len(Program)
  PROVE  Current \in Experiment /\ (Evicting(Current) \/ Direct(Current))
  <1>1. Current \in Experiment
    BY ProgramShape
  <1>2. Current \in {TestCacheExistence, TestSplitLayerInstructions,
                     TestSplitLayerData, TestSharedLayer}
    BY MeasurementAssumption DEF FourExperiments, TypeOK, Current
  <1>3. MaximumEntries >= Capacity + NoiseReads /\ Nothing \notin {"data", "instruction"}
    BY EvictingAssumption, MmuAssumption DEF Kind
  <1> QED
    BY <1>1, <1>2, <1>3
       DEF Evicting, Direct, TestCacheExistence, TestSplitLayerInstructions,
           TestSplitLayerData, TestSharedLayer

--------------------------------------------------------------------------------
(* Finite sets of regions *)

LEMMA RegionsFinite ==
  ASSUME NEW S \in SUBSET Region
  PROVE  IsFiniteSet(S) /\ Cardinality(S) \in Nat
  <1>1. IsFiniteSet(Region)
    BY MmuAssumption, FS_Interval DEF Region
  <1> QED
    BY <1>1, FS_Subset, FS_CardinalityType

LEMMA FewerRegions ==
  ASSUME NEW S \in SUBSET Region, NEW T \in SUBSET S
  PROVE  Cardinality(T) <= Cardinality(S)
  BY RegionsFinite, FS_Subset

LEMMA OneRegionMore ==
  ASSUME NEW S \in SUBSET Region, NEW r \in Region, NEW T \in SUBSET (S \cup {r})
  PROVE  Cardinality(T) <= Cardinality(S) + 1
  <1>1. S \cup {r} \in SUBSET Region
    OBVIOUS
  <1>2. Cardinality(S \cup {r}) <= Cardinality(S) + 1
    BY RegionsFinite, FS_AddElement
  <1>3. Cardinality(T) <= Cardinality(S \cup {r})
    BY <1>1, FewerRegions
  <1> QED
    BY <1>1, <1>2, <1>3, RegionsFinite

\* Taking a few regions out of an interval leaves the others.
LEMMA MostRemain ==
  ASSUME NEW a \in Nat, NEW n \in Nat, a + n < Entries,
         NEW S \in SUBSET Region, NEW T \in SUBSET Region,
         (a + 1 .. a + n) \ S \subseteq T
  PROVE  Cardinality(T) + Cardinality(S) >= n
  <1> DEFINE links == a + 1 .. a + n
  <1>1. links \subseteq Region /\ Entries \in Nat
    BY MmuAssumption DEF Region
  <1>2. IsFiniteSet(links) /\ Cardinality(links) = n
    BY FS_Interval
  <1>3. Cardinality(links \ S) = n - Cardinality(links \cap S)
    BY <1>2, FS_Difference
  <1>4. Cardinality(links \cap S) <= Cardinality(S)
    BY FewerRegions
  <1>5. links \ S \in SUBSET T
    OBVIOUS
  <1> HIDE DEF links
  <1>6. Cardinality(links \ S) <= Cardinality(T)
    BY <1>5, FewerRegions
  <1>7. links \cap S \in SUBSET Region
    BY <1>1
  <1> QED
    BY <1>3, <1>4, <1>6, <1>7, RegionsFinite

--------------------------------------------------------------------------------
(* What an access does to the order of use *)

\* An access to a first sub entry: the prefix-aligned page stays out of the TLBs,
\* and only the region that is accessed is new to a cache that serves the access.
LEMMA PrefixPage ==
  ASSUME TypeOK
  PROVE  /\ target \in Region /\ Prefix \in Page /\ Prefix[1] = target
         /\ \A r \in Region : <<r, 0>> \in Page /\ <<r, 0>> # Prefix
  BY DEF TypeOK, Page, Sub, Prefix

LEMMA AccessQuiet ==
  ASSUME TypeOK, NEW kind \in Kind, NEW r \in Region, Access(kind, <<r, 0>>)
  PROVE  /\ \A s \in Structure : tlb'[s][Prefix] = tlb[s][Prefix]
         /\ \A s \in Structure : r # target => cache'[s][target] \in {cache[s][target], Nothing}
         /\ \A s \in Structure : s \notin Serving(kind) \cap present => cache'[s] = cache[s]
         /\ \A x \in Region : x # r => \A s \in Structure : tlb'[s][<<x, 0>>] = tlb[s][<<x, 0>>]
  <1>1. <<r, 0>> \in Page /\ <<r, 0>> # Prefix /\ Prefix \in Page /\ target \in Region
    BY PrefixPage
  <1>2. <<r, 0>>[1] = r /\ \A x \in Region : <<x, 0>> \in Page /\ (x # r => <<x, 0>> # <<r, 0>>)
    BY PrefixPage
  <1>3. \A s \in Structure : \A q \in Page : q # <<r, 0>> => tlb'[s][q] = tlb[s][q]
    BY <1>1, AccessEffect DEF TypeOK
  <1>4. \A s \in Structure : cache'[s][target] \in {cache[s][target], Nothing} \/ target = r
    BY <1>1, <1>2, AccessEffect DEF TypeOK
  <1>5. \A s \in Structure : s \notin Serving(kind) \cap present => cache'[s] = cache[s]
    BY DEF Access
  <1> QED
    BY <1>1, <1>2, <1>3, <1>4, <1>5

\* What was used since another region was used still is, and so is the region
\* that is accessed, if no TLB answers.
LEMMA AccessOrder ==
  ASSUME MmuTypeOK, NEW kind \in Kind, NEW pg \in Page, Access(kind, pg),
         NEW s \in Structure, NEW q \in Region, q # pg[1]
  PROVE  /\ newer[s][q] \subseteq newer'[s][q]
         /\ ~ TlbHit(kind, pg) /\ s \in Serving(kind) \cap present => pg[1] \in newer'[s][q]
  BY DEF Access, NewerAfter, MmuTypeOK

\* A cache keeps an entry only while fewer than Capacity others were used later.
LEMMA AccessCapacity ==
  ASSUME MmuTypeOK, CapacityInv, NEW kind \in Kind, NEW pg \in Page, Access(kind, pg),
         present' = present
  PROVE  CapacityInv'
  <1> SUFFICES ASSUME NEW s \in Structure, NEW r \in Region, cache'[s][r] # Nothing
               PROVE  s \in present /\ Cardinality(newer'[s][r]) < Capacity
    BY DEF CapacityInv
  <1> DEFINE filled == IF TlbHit(kind, pg) THEN {} ELSE Serving(kind) \cap present
  <1>1. CASE s \notin filled
    <2>1. cache'[s] = cache[s] /\ newer'[s] = newer[s]
      BY <1>1 DEF Access
    <2> QED
      BY <2>1 DEF CapacityInv
  <1>2. CASE s \in filled
    <2>1. /\ cache'[s] = Used(s, pg[1], Translate(kind, pg))
          /\ newer'[s][r] = NewerAfter(s, pg[1], r)
      BY <1>2 DEF Access
    <2>2. r = pg[1] \/ ~ (Cardinality(NewerAfter(s, pg[1], r)) >= Capacity)
      BY <2>1 DEF Used
    <2>3. NewerAfter(s, pg[1], r) \in SUBSET Region /\ (r = pg[1] => NewerAfter(s, pg[1], r) = {})
      BY PageShape DEF NewerAfter, MmuTypeOK
    <2>4. Cardinality(NewerAfter(s, pg[1], r)) \in Nat /\ Cardinality({}) = 0 /\ Capacity \in Nat \ {0}
      BY <2>3, RegionsFinite, FS_EmptySet, MmuAssumption
    <2> QED
      BY <1>2, <2>1, <2>2, <2>3, <2>4
  <1> QED
    BY <1>1, <1>2

--------------------------------------------------------------------------------
(* The parts of HitIInv, step by step *)

LEMMA CapacityStep ==
  ASSUME IInv, CapacityInv, [Next]_vars
  PROVE  CapacityInv'
  <1> USE DEF IInv, TypeOK
  <1>1. ASSUME UNCHANGED <<cache, newer, present>> PROVE CapacityInv'
    BY <1>1 DEF CapacityInv
  <1>2. ASSUME FlushMmuCaches PROVE CapacityInv'
    BY <1>2, FlushEffect DEF CapacityInv
  <1>3. ASSUME NEW kind \in Kind, NEW pg \in Page, Access(kind, pg), present' = present
        PROVE CapacityInv'
    BY <1>3, AccessCapacity
  <1>4. CASE SetAffinity \/ Flush \/ Reflush \/ Migrate
    BY <1>1, <1>2, <1>4 DEF SetAffinity, Flush, Reflush, Migrate, mmuVars
  <1>5. CASE SetAffinityFails \/ BeginExperiment \/ ClaimCpu \/ ReleaseCpu \/ ReturnMisses
    BY <1>1, <1>5 DEF SetAffinityFails, BeginExperiment, ClaimCpu, ReleaseCpu, ReturnMisses, mmuVars
  <1>6. CASE Finish \/ Iterate \/ Switch \/ Restore \/ UNCHANGED vars
    BY <1>1, <1>6 DEF Finish, Iterate, Switch, Restore, SwitchPageTableEntries, mmuVars, vars
  <1>7. CASE BuildLink \/ CloseChain
    <2>1. <<target + link, 0>> \in Page /\ "data" \in Kind
      BY SMTT(20), <1>7, MmuAssumption
         DEF BuildLink, CloseChain, ChainInv, ChainGoesOn, Page, Sub, Region, Kind
    <2>2. Access("data", <<target + link, 0>>) /\ present' = present
      BY <1>7 DEF BuildLink, CloseChain, WriteData
    <2> QED
      BY <1>3, <2>1, <2>2
  <1>8. CASE ReadNoise
    <2>1. PICK r \in Region : ReadOnly("data", <<r, 0>>)
      BY <1>8 DEF ReadNoise
    <2>2. <<r, 0>> \in Page /\ "data" \in Kind
      BY PrefixPage DEF Kind
    <2> QED
      BY <1>3, <2>1, <2>2 DEF ReadOnly
  <1>9. CASE Prime \/ Walk \/ Probe
    <2>1. Current \in Experiment
      BY <1>9, ProgramShape DEF ControlInv, Inside, Prime, Walk, Probe
    <2>2. Current.prime \in Kind /\ Current.probe \in Kind /\ (Walk => Current.walk \in Kind)
      BY <2>1 DEF Experiment, Walk, Walking
    <2>3. <<target, 0>> \in Page
      BY PrefixPage
    <2>4. \E kind \in Kind, pg \in Page : Access(kind, pg) /\ present' = present
      BY <1>9, <2>2, <2>3 DEF Prime, Walk, Probe, ReadOnly
    <2> QED
      BY <1>3, <2>4
  <1>10. CASE Disturb
    <2>1. CASE \E s \in Structure : \E pg \in Page : DropTranslation(s, pg)
      BY <1>1, <2>1 DEF DropTranslation
    <2>2. ASSUME NEW s \in Structure, NEW r \in Region, DropEntry(s, r) PROVE CapacityInv'
      <3> SUFFICES ASSUME NEW t \in Structure, NEW q \in Region, cache'[t][q] # Nothing
                   PROVE  t \in present /\ Cardinality(newer'[t][q]) < Capacity
        BY <2>2 DEF CapacityInv, DropEntry
      <3>1. cache[t][q] # Nothing /\ newer'[t][q] \subseteq newer[t][q] /\ newer[t][q] \in SUBSET Region
        BY <2>2 DEF DropEntry, MmuTypeOK
      <3>2. Cardinality(newer'[t][q]) <= Cardinality(newer[t][q])
        BY <3>1, FewerRegions
      <3>3. Cardinality(newer'[t][q]) \in Nat /\ Cardinality(newer[t][q]) \in Nat /\ Capacity \in Nat
        BY <3>1, RegionsFinite, MmuAssumption
      <3>4. t \in present /\ Cardinality(newer[t][q]) < Capacity
        BY <3>1 DEF CapacityInv
      <3> QED
        BY <3>2, <3>3, <3>4
    <2> QED
      BY <1>10, <2>1, <2>2 DEF Disturb
  <1> QED
    BY <1>4, <1>5, <1>6, <1>7, <1>8, <1>9, <1>10 DEF Next, Step, Terminating

LEMMA LengthStep ==
  ASSUME IInv, LengthInv, [Next]_vars
  PROVE  LengthInv'
  <1>1. CASE SetAffinity \/ SetAffinityFails \/ BeginExperiment \/ ClaimCpu \/ ReleaseCpu
    BY <1>1 DEF LengthInv, SetAffinity, SetAffinityFails, BeginExperiment, ClaimCpu, ReleaseCpu
  <1>2. CASE ReturnMisses \/ Finish \/ Probe \/ Restore \/ Reflush
    BY <1>2 DEF LengthInv, ReturnMisses, Finish, Probe, Restore, Reflush
  <1>3. CASE Iterate
    <2>1. Current \in Experiment
      BY <1>3, ProgramShape DEF IInv, ControlInv, Iterate
    <2> QED
      BY <1>3, <2>1 DEF LengthInv, Iterate, Current, Experiment
  <1>4. CASE BuildLink \/ CloseChain
    <2>1. Current \in Experiment /\ link \in Nat /\ target \in Nat /\ Entries \in Nat
      BY <1>4, ProgramShape, MmuAssumption
         DEF IInv, TypeOK, ControlInv, Inside, BuildLink, CloseChain, Region
    <2> QED
      BY <1>4, <2>1 DEF LengthInv, BuildLink, CloseChain, ChainGoesOn, Current, Experiment
  <1>5. CASE Flush \/ ReadNoise \/ Prime \/ Switch \/ Walk
    BY <1>5 DEF LengthInv, Flush, ReadNoise, Prime, Switch, Walk, Current
  <1>6. CASE Migrate \/ Disturb \/ UNCHANGED vars
    BY <1>6 DEF LengthInv, Migrate, Disturb, vars, programVars, Current
  <1> QED
    BY <1>1, <1>2, <1>3, <1>4, <1>5, <1>6 DEF Next, Step, Terminating

LEMMA TranslatedRegions == Translated \in SUBSET Region /\ Translated' \in SUBSET Region
  BY DEF Translated

LEMMA NoiseStep ==
  ASSUME IInv, NoiseInv, [Next]_vars
  PROVE  NoiseInv'
  <1>1. CASE SetAffinity \/ SetAffinityFails \/ BeginExperiment \/ ClaimCpu \/ ReleaseCpu
    BY <1>1 DEF NoiseInv, SetAffinity, SetAffinityFails, BeginExperiment, ClaimCpu, ReleaseCpu
  <1>2. CASE ReturnMisses \/ Finish \/ Prime \/ Switch \/ Walk \/ Probe \/ Restore \/ Reflush
    BY <1>2 DEF NoiseInv, ReturnMisses, Finish, Prime, Switch, Walk, Probe, Restore, Reflush
  <1>3. CASE Iterate \/ BuildLink \/ CloseChain
    BY <1>3 DEF NoiseInv, Iterate, BuildLink, CloseChain
  <1>4. CASE Flush
    <2>1. Translated' = {}
      BY <1>4, FlushEffect, PrefixPage DEF IInv, TypeOK, Flush, Translated
    <2>2. Current \in Experiment /\ noise = 0 /\ noise' = 0 /\ Current' = Current
      BY <1>4, ProgramShape DEF IInv, ControlInv, Inside, NoiseInv, Flush, Current
    <2> QED
      BY <1>4, <2>1, <2>2, FS_EmptySet DEF NoiseInv, Flush, Experiment
  <1>5. CASE ReadNoise
    <2>1. PICK r \in Region : ReadOnly("data", <<r, 0>>)
      BY <1>5 DEF ReadNoise
    <2>2. Translated' \subseteq Translated \cup {r}
      BY <2>1, AccessQuiet DEF ReadOnly, IInv, Translated, Kind
    <2>3. Cardinality(Translated') <= Cardinality(Translated) + 1
      BY <2>2, OneRegionMore, TranslatedRegions
    <2>4. Cardinality(Translated') \in Nat /\ Cardinality(Translated) \in Nat
      BY RegionsFinite, TranslatedRegions
    <2>5. /\ noise \in Nat /\ noise < Current.noise /\ noise' = noise + 1 /\ pc = "noise"
          /\ pc' = "noise" /\ Current' = Current
      BY <1>5 DEF IInv, TypeOK, ReadNoise, Current
    <2>6. Current.noise \in Nat
      BY <2>5, ProgramShape DEF IInv, ControlInv, Inside, Experiment
    <2> QED
      BY <2>3, <2>4, <2>5, <2>6 DEF NoiseInv
  <1>6. CASE Disturb
    <2>1. \A s \in Structure : \A pg \in Page : tlb'[s][pg] \in {tlb[s][pg], Nothing}
      BY <1>6, DropEffect DEF IInv, TypeOK, Disturb
    <2>2. Translated' \in SUBSET Translated
      BY <2>1, PrefixPage DEF IInv, Translated
    <2>3. Cardinality(Translated') <= Cardinality(Translated)
      BY <2>2, FewerRegions, TranslatedRegions
    <2>4. Cardinality(Translated') \in Nat /\ Cardinality(Translated) \in Nat
      BY RegionsFinite, TranslatedRegions
    <2>5. UNCHANGED <<pc, noise, k>> /\ Current' = Current /\ noise \in Nat
      BY <1>6 DEF Disturb, programVars, Current, IInv, TypeOK
    <2> QED
      BY <2>3, <2>4, <2>5 DEF NoiseInv
  <1>7. CASE Migrate
    BY <1>7 DEF Migrate, programVars, NoiseInv, IInv, ControlInv, Inside
  <1>8. CASE UNCHANGED vars
    BY <1>8 DEF vars, mmuVars, programVars, NoiseInv, Translated, Current
  <1> QED
    BY <1>1, <1>2, <1>3, <1>4, <1>5, <1>6, <1>7, <1>8 DEF Next, Step, Terminating

LEMMA QuietSame ==
  ASSUME QuietInv, UNCHANGED <<tlb, cache, target, k>>,
         pc' = pc \/ (pc = "switch" /\ pc' = "walk")
  PROVE  QuietInv'
  BY DEF QuietInv, Current, Prefix

LEMMA QuietVacuous ==
  ASSUME pc' \notin {"noise", "switch", "walk"}
  PROVE  QuietInv'
  BY DEF QuietInv

LEMMA NoiseQuiet ==
  ASSUME IInv, QuietInv, ReadNoise
  PROVE  QuietInv'
  <1>1. PICK r \in Region : ReadOnly("data", <<r, 0>>)
    BY DEF ReadNoise
  <1>2. "data" \in Kind /\ Access("data", <<r, 0>>)
    BY <1>1 DEF Kind, ReadOnly
  <1>3. pc = "noise" /\ pc' = "noise" /\ target' = target /\ Prefix' = Prefix /\ Current' = Current
    BY DEF ReadNoise, Prefix, Current
  <1>4. Current.noise # 0
    BY DEF ReadNoise, IInv, TypeOK
  <1> QED
    BY <1>2, <1>3, <1>4, AccessQuiet DEF IInv, QuietInv

LEMMA PrimeQuiet ==
  ASSUME IInv, QuietInv, Prime
  PROVE  QuietInv'
  <1>1. Current.prime \in Kind
    BY ProgramShape DEF IInv, ControlInv, Inside, Prime, Experiment
  <1>2. Access(Current.prime, <<target, 0>>) /\ target \in Region
    BY PrefixPage DEF Prime, ReadOnly, IInv
  <1>3. pc = "noise" /\ pc' = "switch" /\ UNCHANGED <<target, k>>
    BY DEF Prime
  <1>4. Prefix' = Prefix /\ Current' = Current
    BY <1>3 DEF Prefix, Current
  <1>5. /\ \A s \in Structure : tlb'[s][Prefix] = Nothing
        /\ \A s \in Structure : s \notin Serving(Current.prime) => cache'[s] = cache[s]
    BY <1>1, <1>2, <1>3, AccessQuiet DEF IInv, QuietInv
  <1> QED
    BY <1>3, <1>4, <1>5 DEF QuietInv

LEMMA WalkStep ==
  ASSUME IInv, Walk
  PROVE  /\ Current.walk # Nothing /\ Current.walk \in Kind
         /\ UNCHANGED <<pc, k, i, target, link, noise, misses, short, disturbances, tainted, present>>
         /\ Prefix' = Prefix /\ Current' = Current /\ p # Prefix
         /\ \E j \in 1 .. link : /\ p = <<target + j, 0>>
                                 /\ target + j \in Region
                                 /\ Access(Current.walk, <<target + j, 0>>)
                                 /\ p' = IF j = link THEN Prefix ELSE <<target + j + 1, 0>>
  <1>1. Current.walk # Nothing /\ Current.walk \in Kind
    BY ProgramShape DEF IInv, ControlInv, Inside, Walk, Walking, Experiment
  <1>2. UNCHANGED <<pc, k, i, target, link, noise, misses, short, disturbances, tainted, present>>
    BY DEF Walk, ReadOnly, historyVars
  <1>3. Prefix' = Prefix /\ Current' = Current /\ p # Prefix /\ p \in Page /\ pc = "walk"
    BY <1>2 DEF Prefix, Current, Walk, Walking
  <1>4. PICK j \in 1 .. link : p = <<target + j, 0>>
    BY <1>3 DEF IInv, ChainInv
  <1>5. /\ target \in Nat /\ link \in Nat /\ target + link < Entries /\ Entries \in Nat
        /\ \A x \in 0 .. link - 1 : memory["base"][<<target + x, 0>>] = <<target + x + 1, 0>>
        /\ memory["base"][<<target + link, 0>>] = Prefix
    <2>1. target \in Nat /\ link \in Nat /\ Entries \in Nat
      BY MmuAssumption DEF IInv, TypeOK, Region
    <2> QED
      BY <1>3, <2>1 DEF IInv, ChainInv
  <1>6. target + j \in Region /\ Access(Current.walk, <<target + j, 0>>)
    BY <1>4, <1>5, MmuAssumption DEF Region, Walk, ReadOnly
  <1>7. p' = memory["base"][p]
    <2>1. p[1] # target
      BY <1>4, <1>5
    <2>2. Translate(Current.walk, p) = "base"
      BY <1>1, <1>3, <2>1, AccessesGoToBase
    <2> QED
      BY <2>2 DEF Walk, Load
  <1>8. p' = IF j = link THEN Prefix ELSE <<target + j + 1, 0>>
    BY <1>4, <1>5, <1>7
  <1> QED
    BY <1>1, <1>2, <1>3, <1>4, <1>6, <1>8

LEMMA WalkQuiet ==
  ASSUME IInv, QuietInv, Walk
  PROVE  QuietInv'
  <1>1. pc = "walk" /\ pc' = "walk" /\ Current'.walk # Nothing /\ Prefix' = Prefix
    BY WalkStep DEF Walk
  <1>2. PICK r \in Region, kind \in Kind : Access(kind, <<r, 0>>)
    BY WalkStep
  <1>3. \A s \in Structure : tlb'[s][Prefix] = Nothing
    BY <1>1, <1>2, AccessQuiet DEF IInv, QuietInv
  <1> QED
    BY <1>1, <1>3 DEF QuietInv

LEMMA DisturbQuiet ==
  ASSUME IInv, QuietInv, Disturb
  PROVE  QuietInv'
  <1>1. /\ \A s \in Structure : \A pg \in Page : tlb'[s][pg] \in {tlb[s][pg], Nothing}
        /\ \A s \in Structure : \A r \in Region : cache'[s][r] \in {cache[s][r], Nothing}
    BY DropEffect DEF IInv, TypeOK, Disturb
  <1>2. UNCHANGED <<pc, target, k>> /\ Current' = Current
    BY DEF Disturb, programVars, Current
  <1>3. Prefix \in Page /\ Prefix' = Prefix /\ target \in Region
    BY <1>2, PrefixPage DEF IInv, Prefix
  <1> QED
    BY <1>1, <1>2, <1>3 DEF QuietInv

LEMMA QuietStep ==
  ASSUME IInv, QuietInv, [Next]_vars
  PROVE  QuietInv'
  <1>1. CASE SetAffinity \/ SetAffinityFails \/ BeginExperiment \/ ClaimCpu \/ ReleaseCpu
    BY <1>1, QuietVacuous
       DEF SetAffinity, SetAffinityFails, BeginExperiment, ClaimCpu, ReleaseCpu
  <1>2. CASE ReturnMisses \/ Finish \/ Iterate \/ CloseChain \/ Probe \/ Restore \/ Reflush
    BY <1>2, QuietVacuous
       DEF ReturnMisses, Finish, Iterate, CloseChain, Probe, Restore, Reflush
  <1>3. CASE BuildLink
    BY <1>3, QuietVacuous DEF BuildLink
  <1>4. CASE Flush
    <2>1. /\ \A s \in Structure : \A pg \in Page : tlb'[s][pg] = Nothing
          /\ \A s \in Structure : \A r \in Region : cache'[s][r] = Nothing
          /\ pc' = "noise" /\ target' = target
      BY <1>4, FlushEffect DEF IInv, TypeOK, Flush
    <2>2. Prefix \in Page /\ target \in Region /\ Prefix' = Prefix
      BY <2>1, PrefixPage DEF IInv, Prefix
    <2> QED
      BY <2>1, <2>2 DEF QuietInv
  <1>5. CASE Switch
    BY <1>5, QuietSame DEF Switch, SwitchPageTableEntries
  <1>6. CASE Migrate
    BY <1>6, QuietVacuous DEF Migrate, programVars, IInv, ControlInv, Inside
  <1>7. CASE UNCHANGED vars
    BY <1>7, QuietSame DEF vars, mmuVars, programVars
  <1> QED
    BY <1>1, <1>2, <1>3, <1>4, <1>5, <1>6, <1>7, NoiseQuiet, PrimeQuiet, WalkQuiet, DisturbQuiet
       DEF Next, Step, Terminating

--------------------------------------------------------------------------------
(* The walk pushes the target's entry out *)

LEMMA PushingRegions ==
  ASSUME IInv, pc \in {"switch", "walk"}, NEW s \in Structure
  PROVE  Pushing(s) \in SUBSET Region /\ Pushing(s) \in SUBSET (target + 1 .. target + link)
  <1>1. target \in Nat /\ link \in Nat /\ target + link < Entries /\ Entries \in Nat
    BY MmuAssumption DEF IInv, TypeOK, ChainInv, Region
  <1> QED
    BY <1>1 DEF Pushing, Region

\* The prime and the noise before it leave all links but the noise to push.
LEMMA PrimeEvicts ==
  ASSUME IInv, NoiseInv, Prime
  PROVE  \A s \in Structure : Cardinality(Pushing(s)') + Current.noise >= link
  <1> SUFFICES ASSUME NEW s \in Structure
               PROVE  Cardinality(Pushing(s)') + Current.noise >= link
    OBVIOUS
  <1>1. /\ pc = "noise" /\ pc' = "switch" /\ UNCHANGED <<k, target, link>>
        /\ p' = Load(Current.prime, <<target, 0>>)
        /\ Access(Current.prime, <<target, 0>>)
    BY DEF Prime, ReadOnly
  <1>2. Current.prime \in Kind /\ Current.noise \in Nat /\ noise = Current.noise
    BY <1>1, ProgramShape DEF IInv, ControlInv, Inside, Prime, Experiment
  <1>3. /\ target \in Nat /\ link \in Nat /\ target + link < Entries /\ Entries \in Nat
        /\ link > 0 => memory["base"][<<target, 0>>] = <<target + 1, 0>>
    <2>1. target \in Nat /\ link \in Nat /\ target + link < Entries /\ Entries \in Nat
      BY <1>1, MmuAssumption DEF IInv, TypeOK, ChainInv, Region
    <2>2. ASSUME link > 0 PROVE memory["base"][<<target, 0>>] = <<target + 1, 0>>
      <3>1. 0 \in 0 .. link - 1 /\ target + 0 = target
        BY <2>1, <2>2
      <3>2. memory["base"][<<target + 0, 0>>] = <<target + 0 + 1, 0>>
        BY <1>1, <3>1 DEF IInv, ChainInv
      <3> QED
        BY <3>1, <3>2
    <2> QED
      BY <2>1, <2>2
  <1>4. link > 0 => p' = <<target + 1, 0>> /\ p' # Prefix'
    <2>1. <<target, 0>> \in Page /\ target \in Region
      BY PrefixPage DEF IInv
    <2>2. Translate(Current.prime, <<target, 0>>) = "base"
      BY <1>1, <1>2, <2>1, AccessesGoToBase
    <2> QED
      BY <1>1, <1>3, <2>2 DEF Load, Prefix
  <1>5. Translated' \subseteq Translated \cup {target}
    BY <1>1, <1>2, AccessQuiet DEF IInv, TypeOK, Translated
  <1>6. (target + 1 .. target + link) \ Translated \subseteq Pushing(s)'
    <2> SUFFICES ASSUME NEW r \in target + 1 .. target + link, r \notin Translated
                 PROVE  r \in Pushing(s)'
      OBVIOUS
    <2>1. link > 0 /\ r >= target + 1 /\ r # target
      BY <1>3
    <2>2. p'[1] = target + 1 /\ p' # Prefix' /\ r \notin Translated'
      BY <1>4, <1>5, <2>1
    <2> QED
      BY <1>1, <2>1, <2>2 DEF Pushing
  <1>7. Pushing(s)' \in SUBSET Region
    BY <1>1, <1>3 DEF Pushing, Region
  <1>8. Cardinality(Pushing(s)') + Cardinality(Translated) >= link
    BY <1>3, <1>6, <1>7, TranslatedRegions, MostRemain
  <1>9. Cardinality(Translated) <= Current.noise
    BY <1>1, <1>2 DEF NoiseInv
  <1> QED
    BY <1>2, <1>3, <1>7, <1>8, <1>9, RegionsFinite, TranslatedRegions

\* A link that is walked was going to push, and has pushed after.
LEMMA WalkEvicts ==
  ASSUME IInv, CapacityInv, EvictInv, Walk
  PROVE  EvictInv'
  <1>1. PICK j \in 1 .. link : /\ p = <<target + j, 0>>
                               /\ target + j \in Region
                               /\ Access(Current.walk, <<target + j, 0>>)
                               /\ p' = IF j = link THEN Prefix ELSE <<target + j + 1, 0>>
    BY WalkStep
  <1> DEFINE r == target + j
  <1>2. /\ Current.walk # Nothing /\ Current.walk \in Kind /\ pc = "walk" /\ p # Prefix
        /\ UNCHANGED <<pc, k, i, target, link, misses, short, disturbances, tainted, present>>
        /\ Prefix' = Prefix /\ Current' = Current
    BY WalkStep DEF Walk
  <1>3. Disturbed' <=> Disturbed
    BY <1>2 DEF Disturbed, Survivors
  <1>4. target \in Nat /\ link \in Nat /\ r # target /\ target \in Region
    BY <1>1 DEF IInv, TypeOK, Region
  <1> SUFFICES ASSUME ~ Disturbed, NEW s \in Serving(Current.walk),
                      cache'[s][target] # Nothing
               PROVE  Cardinality(Pushing(s)') + Current.noise >= link
    BY <1>2, <1>3 DEF EvictInv
  <1>5. s \in Structure /\ cache[s][target] # Nothing
    <2>1. s \in Structure
      BY <1>2 DEF Serving, Structure, Kind
    <2> QED
      BY <1>1, <1>2, <1>4, <2>1, AccessQuiet DEF IInv
  <1>6. Cardinality(Pushing(s)) + Current.noise >= link
    BY <1>2, <1>5 DEF EvictInv
  <1>7. s \in present
    BY <1>4, <1>5 DEF CapacityInv
  <1>8. <<r, 0>> \in Page /\ <<r, 0>>[1] = r
    BY <1>1, PrefixPage DEF IInv
  <1>9. /\ newer[s][target] \subseteq newer'[s][target]
        /\ ~ TlbHit(Current.walk, <<r, 0>>) => r \in newer'[s][target]
    BY <1>1, <1>2, <1>4, <1>5, <1>7, <1>8, AccessOrder DEF IInv, TypeOK
  <1>10. Pushing(s) \subseteq Pushing(s)'
    <2> SUFFICES ASSUME NEW x \in Pushing(s) PROVE x \in Pushing(s)'
      OBVIOUS
    <2>1. x \in target + 1 .. target + link /\ x \in Region
      BY <1>2, <1>5, PushingRegions
    <2>2. CASE x \in newer[s][target]
      BY <1>2, <1>9, <2>1, <2>2 DEF Pushing
    <2>3. CASE x \notin newer[s][target]
      <3>1. x >= r /\ x \notin Translated
        BY <1>1, <2>3 DEF Pushing
      <3>2. CASE x = r
        <4>1. ~ TlbHit(Current.walk, <<r, 0>>)
          BY <1>2, <2>1, <3>1, <3>2 DEF Translated, TlbHit, Serving, Structure, Kind
        <4> QED
          BY <1>2, <1>9, <2>1, <3>2, <4>1 DEF Pushing
      <3>3. CASE x # r
        <4>1. j # link /\ x >= r + 1
          BY <1>1, <1>4, <2>1, <3>1, <3>3
        <4>2. p' = <<r + 1, 0>> /\ p' # Prefix' /\ p'[1] = r + 1
          BY <1>1, <1>2, <4>1 DEF Prefix
        <4>3. x \notin Translated'
          BY <1>1, <1>2, <2>1, <3>1, <3>3, AccessQuiet DEF IInv, Translated
        <4> QED
          BY <1>2, <2>1, <4>1, <4>2, <4>3 DEF Pushing
      <3> QED
        BY <3>2, <3>3
    <2> QED
      BY <2>2, <2>3
  <1>11. Pushing(s) \in SUBSET Region /\ Pushing(s)' \in SUBSET Region
    <2>1. Pushing(s)' \subseteq target + 1 .. target + link
      BY <1>2 DEF Pushing
    <2>2. target + link < Entries /\ Entries \in Nat
      BY <1>2, MmuAssumption DEF IInv, ChainInv
    <2> QED
      BY <1>2, <1>4, <1>5, <2>1, <2>2, PushingRegions DEF Region
  <1>12. Cardinality(Pushing(s)) <= Cardinality(Pushing(s)')
    BY <1>10, <1>11, FewerRegions
  <1>13. Current.noise \in Nat
    BY <1>2, ProgramShape DEF IInv, ControlInv, Inside, Experiment
  <1> QED
    BY <1>4, <1>6, <1>11, <1>12, <1>13, RegionsFinite

LEMMA EvictStep ==
  ASSUME IInv, HitIInv, [Next]_vars
  PROVE  EvictInv'
  <1>1. CASE SetAffinity \/ SetAffinityFails \/ BeginExperiment \/ ClaimCpu \/ ReleaseCpu
    BY <1>1 DEF EvictInv, SetAffinity, SetAffinityFails, BeginExperiment, ClaimCpu, ReleaseCpu
  <1>2. CASE ReturnMisses \/ Finish \/ Iterate \/ CloseChain \/ Flush \/ Probe \/ Restore \/ Reflush
    BY <1>2 DEF EvictInv, ReturnMisses, Finish, Iterate, CloseChain, Flush, Probe, Restore, Reflush
  <1>3. CASE BuildLink \/ ReadNoise
    BY <1>3 DEF EvictInv, BuildLink, ReadNoise
  <1>4. CASE Prime
    <2>1. UNCHANGED <<k, link>> /\ Current' = Current
      BY <1>4 DEF Prime, Current
    <2>2. ASSUME Current.walk # Nothing PROVE Serving(Current.walk) \subseteq Structure
      <3>1. Current.walk \in Kind
        BY <1>4, <2>2, ProgramShape DEF IInv, ControlInv, Inside, Prime, Experiment
      <3> QED
        BY <3>1 DEF Serving, Structure
    <2>3. \A s \in Structure : Cardinality(Pushing(s)') + Current.noise >= link
      BY <1>4, PrimeEvicts DEF HitIInv
    <2> QED
      BY <2>1, <2>2, <2>3 DEF EvictInv
  <1>5. CASE Switch
    <2>1. /\ pc = "switch" /\ pc' = "walk"
          /\ UNCHANGED <<tlb, cache, newer, present, k, i, target, link, p, misses>>
          /\ UNCHANGED <<short, disturbances, tainted>>
      BY <1>5 DEF Switch, SwitchPageTableEntries, historyVars
    <2> QED
      BY ZenonT(30), <2>1 DEF HitIInv, EvictInv, Disturbed, Survivors, Current, Pushing, Translated, Prefix
  <1>6. CASE Walk
    BY <1>6, WalkEvicts DEF HitIInv
  <1>7. CASE Migrate
    BY <1>7 DEF Migrate, programVars, IInv, ControlInv, Inside, EvictInv
  <1>8. CASE Disturb
    <2>1. /\ UNCHANGED <<pc, k, i, misses, short, present>>
          /\ tainted' /\ disturbances' = disturbances + 1
      BY <1>8 DEF Disturb, programVars, DropTranslation, DropEntry
    <2>2. Current' = Current /\ Survivors(Current)' = Survivors(Current)
      BY <2>1 DEF Current, Survivors
    <2>3. ASSUME pc \in {"switch", "walk"}, Survivors(Current) = {}
          PROVE  i + 1 <= misses' + short' + disturbances'
      <3>1. k <= Len(Program) /\ Probed = i
        BY <2>3 DEF IInv, TypeOK, ControlInv, Inside, Probed, Count
      <3>2. i <= misses + short + disturbances
        BY <2>3, <3>1 DEF HitIInv, HitSound
      <3> QED
        BY <2>1, <3>2 DEF IInv, TypeOK
    <2> QED
      BY <2>1, <2>2, <2>3 DEF EvictInv, Disturbed
  <1>9. CASE UNCHANGED vars
    <2>1. /\ UNCHANGED <<tlb, cache, newer, present, pc, k, i, target, link, p, misses>>
          /\ UNCHANGED <<short, disturbances, tainted>>
      BY <1>9 DEF vars, mmuVars, programVars, historyVars
    <2>2. EvictInv
      BY DEF HitIInv
    <2> QED
      BY <2>1, <2>2 DEF EvictInv, Disturbed, Survivors, Current, Pushing, Translated, Prefix
  <1> QED
    BY <1>1, <1>2, <1>3, <1>4, <1>5, <1>6, <1>7, <1>8, <1>9 DEF Next, Step, Terminating

--------------------------------------------------------------------------------
(* The probe *)

\* A probe that no cache can answer and no drop excuses reads SIGNAL, unless the
\* mapped entries cut the chain short.
LEMMA ProbeMisses ==
  ASSUME FourExperiments, IInv, HitIInv, Probe, Survivors(Current) = {},
         Current.walk = Nothing \/ ~ Disturbed
  PROVE  CutShort \/ Load(Current.probe, p) = Signal
  <1> SUFFICES ASSUME ~ CutShort PROVE Load(Current.probe, p) = Signal
    OBVIOUS
  <1>1. /\ pc = "walk" /\ ~ Walking
        /\ Current \in Experiment /\ (Evicting(Current) \/ Direct(Current))
    BY CurrentShape DEF Probe, IInv, ControlInv, Inside
  <1>2. /\ target \in Region /\ Prefix \in Page /\ Prefix[1] = target
        /\ target \in Nat /\ link \in Nat /\ Entries \in Nat /\ Capacity \in Nat \ {0}
        /\ Current.length \in Nat /\ Current.noise \in Nat
    BY <1>1, PrefixPage, MmuAssumption DEF IInv, TypeOK, Region, Experiment
  <1>3. p = Prefix
    <2>1. CASE Evicting(Current)
      BY <1>1, <2>1 DEF Walking, Evicting
    <2>2. CASE Direct(Current)
      <3>1. link = 0
        BY <1>1, <1>2, <2>2 DEF HitIInv, LengthInv, Direct
      <3> QED
        BY <1>1, <3>1 DEF IInv, ChainInv
    <2> QED
      BY <1>1, <2>1, <2>2
  <1>4. Current.probe \in Kind /\ Current.prime \in Kind /\ Serving(Current.probe) \subseteq Structure
    BY <1>1 DEF Experiment, Serving, Structure
  <1>5. \A s \in Structure : s \notin present => cache[s][target] = Nothing
    BY <1>2 DEF HitIInv, CapacityInv
  <1>6. ASSUME NEW s \in Serving(Current.probe) PROVE cache[s][target] = Nothing
    <2>1. CASE Direct(Current)
      <3>1. CASE s \in Serving(Current.prime)
        BY <1>4, <1>5, <2>1, <3>1 DEF Direct, Survivors
      <3>2. CASE s \notin Serving(Current.prime)
        BY <1>1, <1>4, <2>1, <3>2 DEF Direct, HitIInv, QuietInv
      <3> QED
        BY <3>1, <3>2
    <2>2. CASE Evicting(Current) /\ s \notin Serving(Current.walk)
      BY <1>4, <1>5, <2>2 DEF Evicting, Survivors
    <2>3. CASE Evicting(Current) /\ s \in Serving(Current.walk)
      <3> SUFFICES ASSUME cache[s][target] # Nothing PROVE FALSE
        OBVIOUS
      <3>1. link >= Capacity + Current.noise
        <4>1. Current.length >= Capacity + Current.noise /\ Current.length > 0
          BY <1>2, <2>3 DEF Evicting
        <4>2. link = Current.length \/ target + link + 1 >= Entries
          BY <1>1 DEF HitIInv, LengthInv
        <4> QED
          BY <1>2, <4>1, <4>2 DEF CutShort
      <3>2. Cardinality(Pushing(s)) + Current.noise >= link
        BY <1>1, <2>3 DEF HitIInv, EvictInv, Evicting
      <3>3. s \in Structure /\ Cardinality(newer[s][target]) < Capacity
        BY <1>2, <1>4 DEF HitIInv, CapacityInv
      <3>4. Pushing(s) \in SUBSET newer[s][target] /\ newer[s][target] \in SUBSET Region
        BY <1>2, <1>3, <3>3 DEF Pushing, IInv, TypeOK, MmuTypeOK
      <3>5. /\ Cardinality(Pushing(s)) <= Cardinality(newer[s][target])
            /\ Cardinality(Pushing(s)) \in Nat /\ Cardinality(newer[s][target]) \in Nat
        BY <3>4, FewerRegions, RegionsFinite
      <3> QED
        BY <1>2, <3>1, <3>2, <3>3, <3>5
    <2> QED
      BY <1>1, <2>1, <2>2, <2>3
  <1>7. \A s \in Serving(Current.probe) : tlb[s][Prefix] = Nothing
    BY <1>1, <1>4 DEF HitIInv, QuietInv
  <1>8. pageTable["base"][target] = "complementary"
    BY <1>1, <1>2 DEF IInv, TableInv, Area
  <1>9. Translate(Current.probe, Prefix) = "complementary"
    BY <1>2, <1>6, <1>7, <1>8 DEF Translate, Serving
  <1> QED
    BY <1>2, <1>3, <1>9 DEF Load, IInv, SignalIntact

--------------------------------------------------------------------------------
(* The counters *)

\* What most steps keep: the machine, the program counter of the questions and
\* the answers.
LEMMA QuestionsKept ==
  ASSUME [Next]_vars, ~ ReturnMisses
  PROVE  UNCHANGED <<present, k, report>>
  <1>1. CASE SetAffinity \/ SetAffinityFails \/ BeginExperiment \/ ClaimCpu \/ ReleaseCpu
    BY <1>1 DEF SetAffinity, SetAffinityFails, BeginExperiment, ClaimCpu, ReleaseCpu, mmuVars,
                FlushMmuCaches
  <1>2. CASE Finish \/ Iterate \/ BuildLink \/ CloseChain \/ Flush
    BY <1>2 DEF Finish, Iterate, BuildLink, CloseChain, Flush, mmuVars, WriteData, FlushMmuCaches
  <1>3. CASE ReadNoise \/ Prime \/ Switch \/ Walk \/ Probe
    BY <1>3 DEF ReadNoise, Prime, Switch, Walk, Probe, ReadOnly, SwitchPageTableEntries
  <1>4. CASE Restore \/ Reflush \/ Migrate \/ Disturb \/ UNCHANGED vars
    BY <1>4 DEF Restore, Reflush, Migrate, Disturb, vars, mmuVars, programVars,
                SwitchPageTableEntries, FlushMmuCaches, DropTranslation, DropEntry
  <1> QED
    BY <1>1, <1>2, <1>3, <1>4 DEF Next, Step, Terminating

LEMMA DisturbancesGrow ==
  ASSUME TypeOK, [Next]_vars
  PROVE  disturbances \in Nat /\ disturbances' \in Nat /\ disturbances' >= disturbances
  <1>1. disturbances \in Nat
    BY DEF TypeOK
  <1>2. CASE SetAffinity \/ SetAffinityFails \/ BeginExperiment \/ ClaimCpu \/ ReleaseCpu
    BY <1>1, <1>2 DEF SetAffinity, SetAffinityFails, BeginExperiment, ClaimCpu, ReleaseCpu,
                      historyVars
  <1>3. CASE ReturnMisses \/ Finish \/ Iterate \/ BuildLink \/ CloseChain \/ Flush
    BY <1>1, <1>3 DEF ReturnMisses, Finish, Iterate, BuildLink, CloseChain, Flush, historyVars
  <1>4. CASE ReadNoise \/ Prime \/ Switch \/ Walk \/ Probe
    BY <1>1, <1>4 DEF ReadNoise, Prime, Switch, Walk, Probe, historyVars
  <1>5. CASE Restore \/ Reflush \/ Migrate \/ Disturb \/ UNCHANGED vars
    BY <1>1, <1>5 DEF Restore, Reflush, Migrate, Disturb, vars, historyVars
  <1> QED
    BY <1>2, <1>3, <1>4, <1>5 DEF Next, Step, Terminating

\* A step that counts nothing and neither begins nor ends an iteration.
LEMMA CountsSame ==
  ASSUME HitSound, HeardInv, UNCHANGED <<k, i, misses, short, spoiled, disturbances, present>>,
         \/ pc' = "experiment"
         \/ pc # "experiment" /\ Count(pc \in {"restore", "reflush"})'
                                   = Count(pc \in {"restore", "reflush"})
  PROVE  HitSound' /\ HeardInv'
  BY DEF HitSound, HeardInv, Probed, Survivors, Current

LEMMA ProbeCounts ==
  ASSUME FourExperiments, IInv, HitIInv, Probe
  PROVE  HitSound' /\ HeardInv'
  <1>1. /\ pc = "walk" /\ pc' = "restore" /\ UNCHANGED <<k, i, disturbances, tainted, present>>
        /\ misses' = misses + Count(Load(Current.probe, p) = Signal)
        /\ spoiled' = spoiled + Count(tainted)
        /\ short' = short + Count(CutShort)
    BY DEF Probe, ReadOnly
  <1>2. Current' = Current /\ Survivors(Current)' = Survivors(Current)
    BY <1>1 DEF Current, Survivors
  <1>3. /\ misses \in Nat /\ spoiled \in Nat /\ short \in Nat /\ i \in Nat /\ disturbances \in Nat
        /\ k <= Len(Program) /\ tainted \in BOOLEAN
    BY <1>1 DEF IInv, TypeOK, ControlInv, Inside
  <1> SUFFICES ASSUME Survivors(Current) = {}
               PROVE  /\ i + 1 <= misses' + short' + disturbances'
                      /\ i + 1 <= misses' + short' + spoiled'
                      /\ Current.walk = Nothing => i + 1 <= misses'
    <2>1. Probed' = i + 1
      BY <1>1 DEF Probed, Count
    <2> QED
      BY <1>2, <2>1 DEF HitSound, HeardInv
  <1>4. Probed = i
    BY <1>1, <1>3 DEF Probed, Count
  <1>5. /\ i <= misses + short + disturbances /\ i <= misses + short + spoiled
        /\ Current.walk = Nothing => i <= misses
    BY <1>1, <1>3, <1>4 DEF HitIInv, HitSound, HeardInv
  <1>6. Current.walk = Nothing => ~CutShort
    BY <1>1, <1>3, CurrentShape DEF IInv, Evicting, Direct, CutShort
  <1>7. CASE Current.walk = Nothing \/ ~ Disturbed
    <2>1. CutShort \/ Load(Current.probe, p) = Signal
      BY <1>7, ProbeMisses
    <2>2. CASE CutShort
      BY <1>1, <1>3, <1>5, <1>6, <2>2 DEF Count
    <2>3. CASE Load(Current.probe, p) = Signal
      BY <1>1, <1>3, <1>5, <2>3 DEF Count
    <2> QED
      BY <2>1, <2>2, <2>3
  <1>8. CASE Disturbed /\ Current.walk # Nothing
    BY <1>1, <1>3, <1>5, <1>8 DEF Disturbed, Count
  <1> QED
    BY <1>7, <1>8

LEMMA CountsStep ==
  ASSUME FourExperiments, IInv, HitIInv, [Next]_vars
  PROVE  HitSound' /\ HeardInv'
  <1> USE DEF HitIInv
  <1>1. ~ ReturnMisses => UNCHANGED <<present, k>>
    BY QuestionsKept
  <1>2. CASE SetAffinity \/ SetAffinityFails \/ ReturnMisses
    BY <1>1, <1>2, CountsSame
       DEF SetAffinity, SetAffinityFails, ReturnMisses, HitSound, HeardInv, historyVars, Count
  <1>3. CASE BeginExperiment
    <2>1. i' = 0 /\ misses' = 0 /\ short' = 0 /\ spoiled' = 0 /\ pc' = "claim"
      BY <1>3 DEF BeginExperiment
    <2>2. disturbances' \in Nat
      BY DisturbancesGrow DEF IInv
    <2>3. Probed' = 0
      BY <2>1 DEF Probed, Count
    <2>4. \A d \in Nat : 0 <= 0 + 0 + d
      OBVIOUS
    <2>5. 0 <= misses' + short' + disturbances' /\ 0 <= misses' + short' + spoiled'
      BY <2>1, <2>2, <2>4
    <2>6. 0 <= misses'
      BY <2>1
    <2> QED
      BY <2>3, <2>5, <2>6 DEF HitSound, HeardInv
  <1>4. CASE ClaimCpu \/ ReleaseCpu \/ Iterate \/ BuildLink \/ CloseChain \/ Flush
    BY <1>1, <1>4, CountsSame
       DEF ClaimCpu, ReleaseCpu, Iterate, BuildLink, CloseChain, Flush, historyVars, Count,
           ReturnMisses
  <1>5. CASE ReadNoise \/ Prime \/ Switch \/ Walk \/ Restore
    BY <1>1, <1>5, CountsSame
       DEF ReadNoise, Prime, Switch, Walk, Restore, historyVars, Count, ReturnMisses
  <1>6. CASE Finish
    <2>1. k' = k /\ k > Len(Program) /\ k \in Nat /\ Len(Program) \in Nat
      BY <1>6, MeasurementAssumption DEF Finish, IInv, TypeOK
    <2>2. ~ (k' <= Len(Program))
      BY <2>1
    <2> QED
      BY <2>2 DEF HitSound, HeardInv
  <1>7. CASE Probe
    BY <1>7, ProbeCounts
  <1>8. CASE Reflush
    <2>1. /\ pc = "reflush" /\ pc' = "iterate" /\ i' = i + 1
          /\ UNCHANGED <<k, misses, short, spoiled, disturbances, present>>
      BY <1>8 DEF Reflush, FlushMmuCaches, historyVars
    <2>2. Probed' = Probed
      BY <2>1 DEF Probed, Count, IInv, TypeOK
    <2> QED
      BY <2>1, <2>2 DEF HitSound, HeardInv, Survivors, Current
  <1>9. CASE Disturb
    <2>1. /\ UNCHANGED <<pc, k, i, misses, short, spoiled, present>>
          /\ disturbances' = disturbances + 1
      BY <1>9 DEF Disturb, programVars, DropTranslation, DropEntry
    <2>2. /\ Probed' = Probed /\ Probed \in Nat /\ misses \in Nat /\ short \in Nat
          /\ disturbances \in Nat /\ Survivors(Current)' = Survivors(Current) /\ Current' = Current
      BY <2>1 DEF Probed, Count, IInv, TypeOK, Survivors, Current
    <2> QED
      BY <2>1, <2>2 DEF HitSound, HeardInv
  <1>10. CASE Migrate \/ UNCHANGED vars
    <2>1. UNCHANGED <<pc, k, i, misses, short, spoiled, disturbances, present>>
      BY <1>10 DEF Migrate, vars, mmuVars, programVars, historyVars, FlushMmuCaches
    <2> QED
      BY <2>1 DEF HitSound, HeardInv, Probed, Survivors, Current
  <1> QED
    BY <1>2, <1>3, <1>4, <1>5, <1>6, <1>7, <1>8, <1>9, <1>10 DEF Next, Step, Terminating

\* What is returned, and what was returned before.
LEMMA ReportStep ==
  ASSUME IInv, HitIInv, [Next]_vars
  PROVE  ReportInv'
  <1>1. disturbances \in Nat /\ disturbances' \in Nat /\ disturbances' >= disturbances
    BY DisturbancesGrow DEF IInv
  <1>2. \A n \in 1 .. Len(Program) : report[n] \in Returned \cup {Nothing}
    BY DEF IInv, TypeOK
  <1>3. ASSUME NEW n \in 1 .. Len(Program), report'[n] = report[n], report'[n] # Nothing,
               present' = present
        PROVE  IF Survivors(Program[n])' # {}
               THEN report'[n].misses <= report'[n].spoiled
               ELSE /\ Iterations <= report'[n].misses + report'[n].short + disturbances'
                    /\ Program[n].walk = Nothing => Iterations <= report'[n].misses
    <2>1. Survivors(Program[n])' = Survivors(Program[n])
      BY <1>3 DEF Survivors
    <2>2. report[n].misses \in Nat /\ report[n].short \in Nat /\ Iterations \in Nat
      BY <1>2, <1>3, MeasurementAssumption DEF Returned
    <2>3. IF Survivors(Program[n]) # {}
          THEN report[n].misses <= report[n].spoiled
          ELSE /\ Iterations <= report[n].misses + report[n].short + disturbances
               /\ Program[n].walk = Nothing => Iterations <= report[n].misses
      BY <1>3 DEF HitIInv, ReportInv
    <2>4. Iterations <= report[n].misses + report[n].short + disturbances
            => Iterations <= report[n].misses + report[n].short + disturbances'
      BY <1>1, <2>2
    <2> QED
      BY <1>3, <2>1, <2>3, <2>4
  <1>4. CASE ~ ReturnMisses
    <2>1. UNCHANGED <<present, report>>
      BY <1>4, QuestionsKept
    <2> QED
      BY <1>3, <2>1 DEF ReportInv
  <1>5. CASE ReturnMisses
    <2>1. /\ pc = "report" /\ present' = present /\ disturbances' = disturbances
          /\ report' = [report EXCEPT ![k] =
                          [misses |-> misses, spoiled |-> spoiled, short |-> short]]
      BY <1>5 DEF ReturnMisses, mmuVars, historyVars
    <2>2. k \in 1 .. Len(Program) /\ i = Iterations /\ Probed = i
      BY <2>1, MeasurementAssumption
         DEF IInv, TypeOK, ControlInv, HitIInv, LengthInv, Probed, Count
    <2>3. /\ Survivors(Current) # {} => misses <= spoiled
          /\ Survivors(Current) = {} => /\ Iterations <= misses + short + disturbances
                                        /\ Current.walk = Nothing => Iterations <= misses
      BY <2>1, <2>2 DEF IInv, MissSound, HitIInv, HitSound
    <2>4. \A n \in 1 .. Len(Program) : report'[n] =
            IF n = k THEN [misses |-> misses, spoiled |-> spoiled, short |-> short] ELSE report[n]
      BY <2>1 DEF IInv, TypeOK
    <2> SUFFICES ASSUME NEW n \in 1 .. Len(Program), report'[n] # Nothing
                 PROVE  IF Survivors(Program[n])' # {}
                        THEN report'[n].misses <= report'[n].spoiled
                        ELSE /\ Iterations <= report'[n].misses + report'[n].short + disturbances'
                             /\ Program[n].walk = Nothing => Iterations <= report'[n].misses
      BY DEF ReportInv
    <2>5. CASE n = k
      <3>1. Survivors(Program[n])' = Survivors(Current) /\ Current = Program[n]
        BY <2>1, <2>5 DEF Current, Survivors
      <3> QED
        BY <2>1, <2>3, <2>4, <2>5, <3>1
    <2>6. CASE n # k
      BY <1>3, <2>1, <2>4, <2>6
    <2> QED
      BY <2>5, <2>6
  <1> QED
    BY <1>4, <1>5

--------------------------------------------------------------------------------
(* The theorems *)

LEMMA HitInit == Init => HitIInv
  <1> SUFFICES ASSUME Init PROVE HitIInv
    OBVIOUS
  <1>1. /\ pc = "start" /\ i = 0 /\ misses = 0 /\ short = 0 /\ spoiled = 0 /\ disturbances = 0
        /\ \A n \in 1 .. Len(Program) : report[n] = Nothing
        /\ \A s \in Structure : \A r \in Region : cache[s][r] = Nothing
    BY DEF Init, MmuInit
  <1>2. CapacityInv /\ LengthInv /\ NoiseInv /\ QuietInv /\ EvictInv /\ ReportInv
    BY <1>1 DEF CapacityInv, LengthInv, NoiseInv, QuietInv, EvictInv, ReportInv
  <1>3. Probed = 0
    BY <1>1 DEF Probed, Count
  <1>4. HitSound /\ HeardInv
    BY <1>1, <1>3 DEF HitSound, HeardInv
  <1> QED
    BY <1>2, <1>4 DEF HitIInv

LEMMA HitStep ==
  ASSUME FourExperiments, IInv, HitIInv, [Next]_vars
  PROVE  HitIInv'
  <1>1. CapacityInv' /\ LengthInv' /\ NoiseInv' /\ QuietInv'
    BY CapacityStep, LengthStep, NoiseStep, QuietStep DEF HitIInv
  <1> QED
    BY <1>1, EvictStep, CountsStep, ReportStep DEF HitIInv

\* The chain evicts: the second inductive invariant holds in every reachable state
\* of every program of the four experiments.
LEMMA HitInvariance ==
  ASSUME FourExperiments
  PROVE  Spec => []HitIInv
  <1>1. IInv /\ HitIInv /\ [Next]_vars => HitIInv'
    BY HitStep
  <1> QED
    BY HitInit, Invariance, <1>1, PTL DEF Spec

\* Both inductive invariants together, for the four experiments.
THEOREM FullInvariance ==
  ASSUME FourExperiments
  PROVE  Spec => []FullIInv
  <1>1. IInv /\ HitIInv => FullIInv
    BY DEF FullIInv
  <1> QED
    BY Invariance, HitInvariance, <1>1, PTL

\* On a machine without a cache that could answer the probe, every hit is
\* accounted for by a chain cut short or by a dropped entry.
THEOREM HitsAreSound ==
  ASSUME FourExperiments
  PROVE  Spec => []HitSound
  <1>1. HitIInv => HitSound
    BY DEF HitIInv
  <1> QED
    BY HitInvariance, <1>1, PTL

\* The verdict evaluate_cache_existence prints is the truth, unless THRESHOLD of the
\* iterations met interference; and a level without a cache is never said to have one.
THEOREM VerdictsAreSound ==
  ASSUME FourExperiments
  PROVE  Spec => []VerdictSound
  <1>1. IInv /\ HitIInv => VerdictSound
    <2> SUFFICES ASSUME IInv, HitIInv, NEW n \in 1 .. Len(Program), report[n] # Nothing,
                        Program[n] = TestCacheExistence
                 PROVE  IF Survivors(Program[n]) # {}
                        THEN DoesNotExist(report[n].misses) => 10 * report[n].spoiled >= 8 * Iterations
                        ELSE DoesNotExist(report[n].misses)
      BY DEF VerdictSound
    <2>1. report[n] \in Returned /\ Iterations \in Nat
      BY MeasurementAssumption DEF IInv, TypeOK
    <2>2. report[n].misses \in Nat /\ report[n].spoiled \in Nat
      BY <2>1 DEF Returned
    <2>3. Program[n].walk = Nothing
      BY DEF TestCacheExistence
    <2>4. IF Survivors(Program[n]) # {}
          THEN report[n].misses <= report[n].spoiled
          ELSE Iterations <= report[n].misses
      BY <2>3 DEF HitIInv, ReportInv
    <2>5. ASSUME report[n].misses <= report[n].spoiled, 10 * report[n].misses >= 8 * Iterations
          PROVE  10 * report[n].spoiled >= 8 * Iterations
      BY <2>1, <2>2, <2>5
    <2>6. ASSUME Iterations <= report[n].misses
          PROVE  10 * report[n].misses >= 8 * Iterations
      BY <2>1, <2>2, <2>6
    <2> QED
      BY <2>4, <2>5, <2>6 DEF DoesNotExist
  <1> QED
    BY Invariance, HitInvariance, <1>1, PTL

--------------------------------------------------------------------------------
(* The refinement *)

LEMMA SurvivorsRemember ==
  ASSUME TypeOK, NEW e \in Experiment
  PROVE  Promised!Remembers(e) <=> Survivors(e) # {}
  BY DEF Promised!Remembers, Survivors, Serving, TypeOK, MmuTypeOK, Structure, Kind, Experiment

LEMMA RefinesInit == Init => Promised!Init
  BY DEF Init, MmuInit, Structure, Kind, Promised!Init

\* device_read returns an honest answer to the question that is next.
LEMMA RefinesReturn ==
  ASSUME IInv, HitIInv, ReturnMisses
  PROVE  Promised!Answer
  <1> DEFINE a == [misses |-> misses, spoiled |-> spoiled, short |-> short]
  <1>1. pc = "report" /\ present' = present /\ k' = k + 1 /\ report' = [report EXCEPT ![k] = a]
    BY DEF ReturnMisses, mmuVars
  <1>2. k <= Len(Program) /\ i = Iterations /\ Probed = i /\ Current \in Experiment
    BY <1>1, ProgramShape, MeasurementAssumption
       DEF IInv, TypeOK, ControlInv, HitIInv, LengthInv, Probed, Count
  <1>3. misses \in 0 .. Iterations /\ spoiled \in 0 .. Iterations /\ short \in 0 .. Iterations
    BY DEF IInv, TypeOK
  <1>4. IF Survivors(Current) # {} THEN misses <= spoiled
                                   ELSE Iterations <= misses + spoiled + short
    BY <1>1, <1>2, <1>3, MeasurementAssumption DEF IInv, MissSound, HitIInv, HeardInv
  <1>5. IF Promised!Remembers(Current) THEN misses <= spoiled
                                       ELSE Iterations <= misses + spoiled + short
    BY <1>2, <1>4, SurvivorsRemember DEF IInv
  <1>6. a \in Promised!Honest(Program[k])
    BY <1>3, <1>5 DEF Promised!Honest, Promised!Counted, Current
  <1> QED
    BY <1>1, <1>2, <1>6 DEF Promised!Answer

\* Every other step is a step of the oracle that changes nothing.
LEMMA RefinesStep ==
  ASSUME IInv, HitIInv, [Next]_vars
  PROVE  [Promised!Answer]_(Promised!oracleVars)
  <1>1. CASE ReturnMisses
    BY <1>1, RefinesReturn
  <1>2. CASE ~ ReturnMisses
    BY <1>2, QuestionsKept DEF Promised!oracleVars
  <1> QED
    BY <1>1, <1>2

\* Every behaviour of every program of the four experiments is one of the oracle.
THEOREM ExperimentsRefine ==
  ASSUME FourExperiments
  PROVE  Spec => ImplementsOracle
  <1>1. IInv /\ HitIInv /\ [Next]_vars => [Promised!Answer]_(Promised!oracleVars)
    BY RefinesStep
  <1> QED
    BY RefinesInit, Invariance, HitInvariance, <1>1, PTL DEF Spec, ImplementsOracle, Promised!Spec
================================================================================
