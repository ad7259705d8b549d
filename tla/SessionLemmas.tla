------------------------------ MODULE SessionLemmas ------------------------------
(***************************************************************************)
(* What a session's folds, sets, caches and steps do, on any machine.      *)
(*                                                                         *)
(* Walks, loads of CR3, the pages of a query and the chase through memory  *)
(* are folds.  A fold goes from value to value (FoldRuns); what each step  *)
(* keeps, the fold keeps, by the least step that would not.                *)
(***************************************************************************)
EXTENDS Session, FiniteSetTheorems, WellFoundedInduction, TLAPS

--------------------------------------------------------------------------------
(* Folds *)

\* Every set of natural numbers that is not empty has a least element.
LEMMA Minimum ==
  ASSUME NEW T \in SUBSET Nat, T # {}
  PROVE  \E x \in T : \A y \in T : x <= y
  <1> DEFINE R == OpToRel(<, Nat)
  <1>1. IsWellFoundedOn(R, Nat)
    BY NatLessThanWellFounded
  <1>2. \A x, y \in Nat : y < x => <<y, x>> \in R
    BY DEF OpToRel
  <1>3. \E x \in T : \A y \in T : ~ (<<y, x>> \in R)
    <2> HIDE DEF R
    <2> QED
      BY <1>1, WFMin
  <1>4. PICK x \in T : \A y \in T : ~ (<<y, x>> \in R)
    BY <1>3
  <1> HIDE DEF R
  <1>5. ASSUME NEW y \in T PROVE x <= y
    <2>1. x \in Nat /\ y \in Nat /\ ~ (y < x)
      BY <1>2, <1>4
    <2> QED
      BY <2>1
  <1> QED
    BY <1>5

\* The steps of the folds.
Step(fold, at, x) ==
  CASE fold.of = "access"  -> AccessPage(at, x)
    [] fold.of = "cr3"     -> SetCr3(at, x, fold.noflush)
    [] fold.of = "letters" -> IF Contains(at, x) THEN at ELSE Append(at, x)
    [] fold.of = "map"     -> Append(at, [letter |-> x, page |-> NextAddressOf(x, at, fold.start)])
    [] fold.of = "chase"   -> IF Last(at) = fold.end \/ Last(at) \notin DOMAIN fold.mem
                              THEN at ELSE Append(at, fold.mem[Last(at)])
    [] fold.of = "walk"    -> IF x \in at.tlb THEN at
                              ELSE [tlb |-> at.tlb \cup {x},
                                    set |-> Touch(fold.policy, at.set, x[1])]
    [] fold.of = "touch"   -> Touch(fold.policy, at, x)
    [] fold.of = "found"   -> IF Holds(fold.set, fold.letters[x])
                              THEN Append(at, fold.letters[x]) ELSE at

\* How the library folds: over sets of positions, the greatest last.
Iterates(fold, base, seq, n, f) ==
  f = [s \in SUBSET (1 .. n) |->
         IF s = {} THEN base ELSE Step(fold, f[s \ {Max(s)}], seq[Max(s)])]

LEMMA GreatestIs ==
  ASSUME NEW n \in Nat, NEW s \in SUBSET (1 .. n), n \in s
  PROVE  Max(s) = n
  <1>1. \A x \in s : (\A y \in s : x >= y) <=> x = n
    <2> TAKE x \in s
    <2>1. \A y \in s : y \in 1 .. n
      OBVIOUS
    <2> QED
      BY <2>1
  <1> QED
    BY <1>1 DEF Max

LEMMA IterationExists ==
  ASSUME NEW fold, NEW base, NEW seq, NEW n \in Nat
  PROVE  \E f : Iterates(fold, base, seq, n, f)
  <1> DEFINE T == {k \in Nat : ~ \E f : Iterates(fold, base, seq, k, f)}
  <1> SUFFICES ASSUME T # {} PROVE FALSE
    OBVIOUS
  <1>1. PICK k \in T : \A j \in T : k <= j
    <2>1. T \in SUBSET Nat
      OBVIOUS
    <2> HIDE DEF T
    <2> QED
      BY <2>1, Minimum
  <1>2. k \in Nat /\ ~ \E f : Iterates(fold, base, seq, k, f)
    BY <1>1
  <1>3. k # 0
    <2> SUFFICES ASSUME k = 0 PROVE FALSE
      OBVIOUS
    <2> DEFINE f == [s \in SUBSET (1 .. 0) |-> base]
    <2>1. \A s \in SUBSET (1 .. 0) : s = {}
      OBVIOUS
    <2>2. Iterates(fold, base, seq, 0, f)
      BY <2>1 DEF Iterates
    <2> QED
      BY <1>2, <2>2
  <1>4. k - 1 \in Nat /\ ~ (k <= k - 1)
    BY <1>2, <1>3
  <1>5. PICK f : Iterates(fold, base, seq, k - 1, f)
    BY <1>1, <1>4
  <1> DEFINE g == [s \in SUBSET (1 .. k) |->
                     IF k \in s THEN Step(fold, f[s \ {k}], seq[k]) ELSE f[s]]
  <1>6. Iterates(fold, base, seq, k, g)
    <2>1. ASSUME NEW s \in SUBSET (1 .. k)
          PROVE  g[s] = IF s = {} THEN base ELSE Step(fold, g[s \ {Max(s)}], seq[Max(s)])
      <3>1. CASE k \in s
        <4>1. Max(s) = k /\ s # {}
          BY <1>2, <3>1, GreatestIs
        <4>2. s \ {k} \in SUBSET (1 .. k) /\ k \notin s \ {k}
          OBVIOUS
        <4>3. g[s \ {k}] = f[s \ {k}]
          BY <4>2
        <4>4. g[s] = Step(fold, f[s \ {k}], seq[k])
          BY <3>1
        <4> HIDE DEF g
        <4> QED
          BY <4>1, <4>3, <4>4
      <3>2. CASE k \notin s
        <4>1. s \in SUBSET (1 .. k - 1)
          BY <1>2, <3>2
        <4>2. g[s] = f[s]
          BY <3>2
        <4>3. f[s] = IF s = {} THEN base ELSE Step(fold, f[s \ {Max(s)}], seq[Max(s)])
          BY <1>5, <4>1 DEF Iterates
        <4>4. s \ {Max(s)} \in SUBSET (1 .. k) /\ k \notin s \ {Max(s)}
          BY <3>2
        <4>5. g[s \ {Max(s)}] = f[s \ {Max(s)}]
          BY <4>4
        <4> HIDE DEF g
        <4> QED
          BY <4>2, <4>3, <4>5
      <3> QED
        BY <3>1, <3>2
    <2>2. g = [s \in SUBSET (1 .. k) |-> g[s]]
      OBVIOUS
    <2> HIDE DEF g
    <2> QED
      BY <2>1, <2>2 DEF Iterates
  <1> QED
    BY <1>2, <1>6

\* at[k] is the value of the fold after k elements.
Runs(fold, base, seq, n, at) ==
  /\ at[0] = base
  /\ \A k \in 1 .. n : at[k] = Step(fold, at[k - 1], seq[k])

LEMMA FoldRuns ==
  ASSUME NEW fold, NEW base, NEW seq, NEW n \in Nat, NEW f, Iterates(fold, base, seq, n, f)
  PROVE  \E at : Runs(fold, base, seq, n, at) /\ f[1 .. n] = at[n]
  <1> DEFINE at == [k \in 0 .. n |-> f[1 .. k]]
  <1>1. 1 .. 0 = {} /\ 1 .. 0 \in SUBSET (1 .. n)
    OBVIOUS
  <1>2. at[0] = base
    BY <1>1 DEF Iterates
  <1>3. ASSUME NEW k \in 1 .. n PROVE at[k] = Step(fold, at[k - 1], seq[k])
    <2>1. /\ 1 .. k \in SUBSET (1 .. n) /\ k \in 1 .. k /\ k \in Nat /\ 1 .. k # {}
          /\ (1 .. k) \ {k} = 1 .. k - 1
      OBVIOUS
    <2>2. Max(1 .. k) = k
      BY <2>1, GreatestIs
    <2>3. f[1 .. k] = Step(fold, f[1 .. k - 1], seq[k])
      BY <2>1, <2>2 DEF Iterates
    <2>4. k \in 0 .. n /\ k - 1 \in 0 .. n
      OBVIOUS
    <2> QED
      BY <2>3, <2>4
  <1>4. at[n] = f[1 .. n]
    OBVIOUS
  <1> HIDE DEF at
  <1> QED
    BY <1>2, <1>3, <1>4 DEF Runs

LEMMA AccessFold ==
  ASSUME NEW m, NEW pages, NEW n \in Nat, DOMAIN pages = 1 .. n
  PROVE  \E at : /\ Runs([of |-> "access"], m, pages, n, at)
                 /\ ReadPages(m, pages) = at[n]
  <1> DEFINE fold == [of |-> "access"]
             P(f) == f = [s \in SUBSET (1 .. n) |->
                            IF s = {} THEN m
                            ELSE AccessPage(f[s \ {Max(s)}], pages[Max(s)])]
             F == CHOOSE f : P(f)
  <1>1. ReadPages(m, pages) = F[1 .. n]
    BY Zenon DEF ReadPages, FoldLeft, MapThenFoldSet
  <1>2. \A at, x : Step(fold, at, x) = AccessPage(at, x)
    BY DEF Step
  <1> HIDE DEF fold
  <1>3. \A f : Iterates(fold, m, pages, n, f) <=> P(f)
    BY <1>2 DEF Iterates
  <1>4. P(F)
    <2> HIDE DEF P
    <2> QED
      BY <1>3, IterationExists
  <1> HIDE DEF P, F
  <1> QED
    BY <1>1, <1>3, <1>4, FoldRuns DEF fold

LEMMA Cr3Fold ==
  ASSUME NEW m, NEW noflush, NEW n \in Nat
  PROVE  \E at : /\ Runs([of |-> "cr3", noflush |-> noflush], m, [q \in 1 .. n |-> q], n, at)
                 /\ LoadPcids(m, n, noflush) = at[n]
  <1> DEFINE fold == [of |-> "cr3", noflush |-> noflush]
             pcids == [q \in 1 .. n |-> q]
             P(f) == f = [s \in SUBSET (1 .. n) |->
                            IF s = {} THEN m
                            ELSE SetCr3(f[s \ {Max(s)}], pcids[Max(s)], noflush)]
             F == CHOOSE f : P(f)
  <1>1. LoadPcids(m, n, noflush) = F[1 .. n]
    BY Zenon DEF LoadPcids, FoldLeft, MapThenFoldSet
  <1>2. \A at, x : Step(fold, at, x) = SetCr3(at, x, noflush)
    BY DEF Step
  <1> HIDE DEF fold, pcids
  <1>3. \A f : Iterates(fold, m, pcids, n, f) <=> P(f)
    BY <1>2 DEF Iterates
  <1>4. P(F)
    <2> HIDE DEF P
    <2> QED
      BY <1>3, IterationExists
  <1> HIDE DEF P, F
  <1> QED
    BY <1>1, <1>3, <1>4, FoldRuns DEF fold, pcids

--------------------------------------------------------------------------------
(* What the machine does to CR3 *)

LEMMA EmptyIsMmu ==
  ASSUME NEW machine_, NEW pcid
  PROVE  /\ IsMmu(EmptyMmu(machine_, pcid)) /\ EmptyMmu(machine_, pcid).pcid = pcid
         /\ EmptyMmu(machine_, pcid).wrong = {} /\ EmptyMmu(machine_, pcid).tlb = {}
  BY DEF EmptyMmu, IsMmu

\* An access leaves CR3 alone.
LEMMA AccessKeepsPcid ==
  ASSUME NEW m, NEW pg, IsMmu(m)
  PROVE  IsMmu(AccessPage(m, pg)) /\ AccessPage(m, pg).pcid = m.pcid
  <1>1. IsMmu(UseUpper(m, pg[1])) /\ UseUpper(m, pg[1]).pcid = m.pcid
    BY DEF UseUpper, IsMmu
  <1>2. ASSUME NEW x, IsMmu(x), x.pcid = m.pcid
        PROVE  IsMmu(Enter(x, pg[1])) /\ Enter(x, pg[1]).pcid = m.pcid
    BY <1>2 DEF Enter, IsMmu
  <1> DEFINE answered == Holds(SetAt(m, pg[1]), Key(m, pg[1]))
             filled == Enter(IF answered THEN m ELSE UseUpper(m, pg[1]), pg[1])
  <1>3. IsMmu(filled) /\ filled.pcid = m.pcid
    BY <1>1, <1>2
  <1> HIDE DEF filled
  <1> DEFINE wrong == IF Swapped(m, pg) THEN m.wrong \cup {Key(m, pg[1])}
                      ELSE m.wrong \ {Key(m, pg[1])}
             cached == filled.tlb \cup {[pcid |-> m.pcid, page |-> pg, swapped |-> Swapped(m, pg)]}
             once == [filled EXCEPT !.wrong = wrong]
             twice == [filled EXCEPT !.wrong = wrong, !.tlb = cached]
  <1>5. AccessPage(m, pg) = m \/ AccessPage(m, pg) = once \/ AccessPage(m, pg) = twice
    BY DEF AccessPage, filled
  <1> HIDE DEF wrong, cached
  <1>6. IsMmu(once) /\ once.pcid = m.pcid /\ IsMmu(twice) /\ twice.pcid = m.pcid
    BY <1>3 DEF IsMmu
  <1> HIDE DEF once, twice
  <1> QED
    BY <1>5, <1>6

LEMMA DroppedGone ==
  ASSUME NEW m, NEW pcids, IsMmu(m)
  PROVE  /\ IsMmu(DropPcids(m, pcids))
         /\ DropPcids(m, pcids).wrong = {key \in m.wrong : key[1] \notin {Tag(q) : q \in pcids}}
         /\ DropPcids(m, pcids).tlb = {t \in m.tlb : t.pcid \notin pcids}
  BY DEF DropPcids, IsMmu

\* A load of CR3 sets it; without NOFLUSH nothing stays under the new PCID.
LEMMA Cr3IsSet ==
  ASSUME NEW m, NEW pcid, NEW noflush, IsMmu(m)
  PROVE  IsMmu(SetCr3(m, pcid, noflush)) /\ SetCr3(m, pcid, noflush).pcid = pcid
  <1> DEFINE recent == Recent(m.recent, pcid)
             forgotten == IF host.respects THEN ToSet(m.recent) \ ToSet(recent) ELSE {}
             dropped == DropPcids(m, forgotten \cup IF noflush THEN {} ELSE {pcid})
  <1>1. SetCr3(m, pcid, noflush) = [dropped EXCEPT !.pcid = pcid, !.recent = recent]
    BY DEF SetCr3
  <1>2. IsMmu(dropped)
    BY DroppedGone
  <1> HIDE DEF dropped, recent
  <1> QED
    BY <1>1, <1>2 DEF IsMmu

LEMMA FlushForgets ==
  ASSUME NEW m, NEW pcid, IsMmu(m)
  PROVE  /\ IsMmu(SetCr3(m, pcid, FALSE)) /\ SetCr3(m, pcid, FALSE).pcid = pcid
         /\ \A key \in SetCr3(m, pcid, FALSE).wrong : key[1] # Tag(pcid)
         /\ \A t \in SetCr3(m, pcid, FALSE).tlb : t.pcid # pcid
  <1> DEFINE recent == Recent(m.recent, pcid)
             forgotten == IF host.respects THEN ToSet(m.recent) \ ToSet(recent) ELSE {}
             dropped == DropPcids(m, forgotten \cup {pcid})
  <1>1. SetCr3(m, pcid, FALSE) = [dropped EXCEPT !.pcid = pcid, !.recent = recent]
    BY DEF SetCr3
  <1> HIDE DEF recent, forgotten
  <1>2. /\ IsMmu(dropped)
        /\ \A key \in dropped.wrong : key[1] # Tag(pcid)
        /\ \A t \in dropped.tlb : t.pcid # pcid
    BY DroppedGone
  <1> HIDE DEF dropped
  <1> QED
    BY <1>1, <1>2 DEF IsMmu

LEMMA WalkKeepsPcid ==
  ASSUME NEW m, NEW pages, NEW n \in Nat, DOMAIN pages = 1 .. n, IsMmu(m)
  PROVE  IsMmu(ReadPages(m, pages)) /\ ReadPages(m, pages).pcid = m.pcid
  <1>1. PICK at : Runs([of |-> "access"], m, pages, n, at) /\ ReadPages(m, pages) = at[n]
    BY AccessFold
  <1>2. at[0] = m /\ \A k \in 1 .. n : at[k] = AccessPage(at[k - 1], pages[k])
    BY <1>1 DEF Runs, Step
  <1> DEFINE T == {k \in 0 .. n : ~ (IsMmu(at[k]) /\ at[k].pcid = m.pcid)}
  <1>3. T = {}
    <2> SUFFICES ASSUME T # {} PROVE FALSE
      OBVIOUS
    <2>1. PICK k \in T : \A j \in T : k <= j
      <3>1. T \in SUBSET Nat
        OBVIOUS
      <3> HIDE DEF T
      <3> QED
        BY <3>1, Minimum
    <2>2. k \in 1 .. n
      BY <1>2, <2>1
    <2>3. k - 1 \in 0 .. n /\ ~ (k <= k - 1)
      BY <2>2
    <2>4. IsMmu(at[k - 1]) /\ at[k - 1].pcid = m.pcid
      BY <2>1, <2>3
    <2> QED
      BY <1>2, <2>1, <2>2, <2>4, AccessKeepsPcid
  <1> QED
    BY <1>1, <1>3

LEMMA LoadsKeepMmu ==
  ASSUME NEW m, NEW noflush, NEW n \in Nat, IsMmu(m)
  PROVE  IsMmu(LoadPcids(m, n, noflush))
  <1> DEFINE pcids == [q \in 1 .. n |-> q]
  <1>1. PICK at : /\ Runs([of |-> "cr3", noflush |-> noflush], m, pcids, n, at)
                  /\ LoadPcids(m, n, noflush) = at[n]
    BY Cr3Fold
  <1> HIDE DEF pcids
  <1>2. at[0] = m /\ \A k \in 1 .. n : at[k] = SetCr3(at[k - 1], pcids[k], noflush)
    BY <1>1 DEF Runs, Step
  <1> DEFINE T == {k \in 0 .. n : ~ IsMmu(at[k])}
  <1>3. T = {}
    <2> SUFFICES ASSUME T # {} PROVE FALSE
      OBVIOUS
    <2>1. PICK k \in T : \A j \in T : k <= j
      <3>1. T \in SUBSET Nat
        OBVIOUS
      <3> HIDE DEF T
      <3> QED
        BY <3>1, Minimum
    <2>2. k \in 1 .. n
      BY <1>2, <2>1
    <2>3. k - 1 \in 0 .. n /\ ~ (k <= k - 1)
      BY <2>2
    <2>4. IsMmu(at[k - 1])
      BY <2>1, <2>3
    <2> QED
      BY <1>2, <2>1, <2>2, <2>4, Cr3IsSet
  <1> QED
    BY <1>1, <1>3

--------------------------------------------------------------------------------
(* The late experiments *)

\* What is walked between the switch and the probe is a sequence.
LEMMA ChasedIsFinite ==
  ASSUME host \in Hosts
  PROVE  \E n \in Nat : DOMAIN Chased = 1 .. n
  <1>1. host.upper.policy.ways \in Nat
    BY SessionAssumption DEF IsPolicy
  <1>2. \E n \in Nat : DOMAIN NestingChain = 1 .. n
    <2> DEFINE links == {o \in 1 .. host.upper.policy.ways : o * host.upper.sets < TopEntries}
    <2>1. IsFiniteSet(1 .. host.upper.policy.ways)
      BY <1>1, FS_Interval
    <2>2. IsFiniteSet(links)
      <3>1. links \subseteq 1 .. host.upper.policy.ways
        OBVIOUS
      <3> HIDE DEF links
      <3> QED
        BY <2>1, <3>1, FS_Subset
    <2>3. Cardinality(links) \in Nat
      <3> HIDE DEF links
      <3> QED
        BY <2>2, FS_CardinalityType
    <2> QED
      BY <2>3 DEF NestingChain
  <1>3. HugePages \in Nat \ {0, 1}
    BY LateAssumption
  <1>4. \E n \in Nat : DOMAIN HugeChain = 1 .. n
    BY <1>3 DEF HugeChain
  <1>5. \E n \in Nat : DOMAIN Tail(HugeChain) = 1 .. n
    <2> DEFINE page(n) == <<HugeBase + (IF n = 1 THEN 0 ELSE n), 0>>
               S == {page(n) : n \in 1 .. HugePages - 1}
    <2>1. HugeChain \in Seq(S) /\ Len(HugeChain) = HugePages - 1
      <3>1. HugePages - 1 \in Nat
        BY <1>3
      <3>2. HugeChain = [n \in 1 .. HugePages - 1 |-> page(n)]
        BY DEF HugeChain
      <3> QED
        BY <3>1, <3>2
    <2>2. HugeChain # << >>
      BY <1>3, <2>1
    <2>3. Tail(HugeChain) \in Seq(S) /\ Len(Tail(HugeChain)) = HugePages - 2
      <3> HIDE DEF S
      <3> QED
        BY <2>1, <2>2, <1>3
    <2> HIDE DEF S
    <2> QED
      BY <2>3, <1>3
  <1> QED
    BY <1>2, <1>4, <1>5 DEF Chased

\* Each step of an experiment leaves what the next one counts on.
LEMMA LateInvariance ==
  ASSUME LateInv, LateStep
  PROVE  LateInv'
  <1> USE DEF LateInv, NoStaleTranslation
  <1>1. CASE BeginLate
    BY <1>1 DEF BeginLate, Tag, IsMmu
  <1>2. CASE PrimeTarget
    <2>1. IsMmu(mmu) /\ mmu.pcid \in {0, OwnPcid}
      BY <1>2 DEF PrimeTarget
    <2> DEFINE home == IF UsesPcids THEN SetCr3(mmu, 0, FALSE) ELSE mmu
               clean == FlushAll(home)
    <2>2. IsMmu(home) /\ home.pcid \in {0, OwnPcid}
      BY <2>1, FlushForgets
    <2> HIDE DEF home
    <2>3. IsMmu(clean) /\ clean.pcid \in {0, OwnPcid}
      BY <2>2, FlushForgets DEF FlushAll
    <2>4. PICK target :
            mmu' = [AccessPage(clean, PrimePage(target)) EXCEPT !.swapped = GoalEntry(target)]
      BY <1>2 DEF PrimeTarget, home
    <2> HIDE DEF clean
    <2> DEFINE primed == AccessPage(clean, PrimePage(target))
    <2>5. IsMmu(primed) /\ primed.pcid \in {0, OwnPcid}
      BY <2>3, AccessKeepsPcid
    <2> HIDE DEF primed
    <2>6. IsMmu(mmu') /\ mmu'.pcid \in {0, OwnPcid}
      BY <2>4, <2>5 DEF IsMmu, primed
    <2> QED
      BY <1>2, <2>6 DEF PrimeTarget, IsMmu
  <1>3. CASE ChaseOrSwitchPcids
    <2>1. IsMmu(mmu')
      <3>1. CASE Experiment.pcids = "count"
        <4> DEFINE loaded == LoadPcids(mmu, count, Experiment.noflush)
        <4>1. IsMmu(loaded)
          BY LoadsKeepMmu
        <4>2. mmu' = SetCr3(loaded, 0, Experiment.noflush)
          BY <1>3, <3>1 DEF ChaseOrSwitchPcids
        <4> HIDE DEF loaded
        <4> QED
          BY <4>1, <4>2, Cr3IsSet
      <3>2. CASE Experiment.pcids = "any"
        <4>1. PICK q \in 1 .. PcidEnd - 1 : mmu' = SetCr3(mmu, q, Experiment.noflush)
          BY <1>3, <3>2 DEF ChaseOrSwitchPcids
        <4> QED
          BY <4>1, Cr3IsSet
      <3>3. CASE Experiment.pcids \notin {"count", "any"}
        <4>1. mmu' = ReadPages(mmu, Chased)
          BY <1>3, <3>3 DEF ChaseOrSwitchPcids
        <4>2. PICK n \in Nat : DOMAIN Chased = 1 .. n
          BY ChasedIsFinite
        <4> QED
          BY <4>1, <4>2, WalkKeepsPcid
      <3> QED
        BY <3>1, <3>2, <3>3
    <2>2. ~ UsesPcids => mmu'.pcid \in {0, OwnPcid}
      <3> SUFFICES ASSUME ~ UsesPcids PROVE mmu'.pcid \in {0, OwnPcid}
        OBVIOUS
      <3>1. mmu' = ReadPages(mmu, Chased)
        BY <1>3 DEF ChaseOrSwitchPcids, UsesPcids
      <3>2. PICK n \in Nat : DOMAIN Chased = 1 .. n
        BY ChasedIsFinite
      <3> QED
        BY <1>3, <3>1, <3>2, WalkKeepsPcid DEF ChaseOrSwitchPcids
    <2>3. UsesPcids' = UsesPcids
      BY <1>3 DEF ChaseOrSwitchPcids, UsesPcids, Experiment
    <2> QED
      BY <1>3, <2>1, <2>2, <2>3 DEF ChaseOrSwitchPcids, IsMmu
  <1>4. CASE ProbeTarget
    <2>1. IsMmu(mmu)
      OBVIOUS
    <2> DEFINE probed == AccessPage(mmu, ProbePage(goal))
               back == [probed EXCEPT !.swapped = -1]
               home == IF UsesPcids THEN SetCr3(back, 0, FALSE) ELSE back
    <2>2. IsMmu(probed) /\ probed.pcid = mmu.pcid
      BY <2>1, AccessKeepsPcid
    <2>3. mmu' = FlushAll(home)
      BY <1>4 DEF ProbeTarget
    <2> HIDE DEF probed
    <2>4. IsMmu(back) /\ back.pcid = mmu.pcid
      BY <2>2 DEF IsMmu
    <2> HIDE DEF back
    <2>5. IsMmu(home) /\ home.pcid \in {0, OwnPcid}
      BY <1>4, <2>4, FlushForgets DEF ProbeTarget
    <2> HIDE DEF home
    <2>6. /\ IsMmu(mmu') /\ mmu'.pcid \in {0, OwnPcid}
          /\ \A key \in mmu'.wrong : key[1] # Tag(mmu'.pcid)
          /\ \A t \in mmu'.tlb : t.pcid # mmu'.pcid
      <3>1. PICK pcid : pcid = home.pcid
        OBVIOUS
      <3>2. mmu' = SetCr3(home, pcid, FALSE)
        BY <2>3, <3>1 DEF FlushAll
      <3>3. /\ IsMmu(mmu') /\ mmu'.pcid = pcid
            /\ \A key \in mmu'.wrong : key[1] # Tag(pcid)
            /\ \A t \in mmu'.tlb : t.pcid # pcid
        BY <2>5, <3>2, FlushForgets
      <3>4. pcid \in {0, OwnPcid}
        BY <2>5, <3>1
      <3> QED
        BY <3>3, <3>4
    <2>7. host' = host /\ count' = count /\ lateStep' = "prime"
      BY <1>4 DEF ProbeTarget
    <2> QED
      BY <2>6, <2>7 DEF Tag, IsMmu
  <1>5. CASE OneMorePcid
    BY <1>5 DEF OneMorePcid, Tag, IsMmu
  <1>6. CASE ReturnVerdict
    BY <1>6 DEF ReturnVerdict, Tag, IsMmu
  <1> QED
    BY <1>1, <1>2, <1>3, <1>4, <1>5, <1>6 DEF LateStep

--------------------------------------------------------------------------------
(* The session up to the queries *)

\* A crash has a level to blame.
Blamed(level) ==
  \/ ~ level.known
  \/ level.reach <= level.policy.ways
  \/ dirty > 0 /\ (leftover \/ ~ FirstHitKeeps(level.policy) \/ level.reach < 2 * level.policy.ways)

CrashExplained == stage = "crashed" => \E level \in {host.lower, host.upper} : Blamed(level)

LEMMA LateStart ==
  ASSUME Init
  PROVE  LateInv /\ CrashInv /\ CrashExplained
  <1>1. host \in Hosts /\ mmu = EmptyMmu(host, OwnPcid) /\ lateStep = "idle" /\ count = 0
    BY DEF Init, LateInit
  <1>2. LateInv
    BY <1>1, EmptyIsMmu DEF LateInv, NoStaleTranslation
  <1>3. /\ stage = "layout" /\ step = "idle" /\ dirty = 0 /\ leftover = FALSE
        /\ initial = [w \in Members |-> NoAddress]
    BY DEF Init, ReplacementInit
  <1>4. initial \in Words /\ \A w \in Members : initial[w] \notin Garbage
    BY <1>3, ReplacementAssumption DEF Words, NoAddress
  <1> QED
    BY <1>2, <1>3, <1>4 DEF CrashInv, CrashExplained

\* What the late experiments do not touch.
LEMMA LateKept ==
  ASSUME LateInv, UNCHANGED lateVars
  PROVE  LateInv'
  BY DEF LateInv, NoStaleTranslation, lateVars, IsMmu, UsesPcids, Experiment, Tag

LEMMA LateIsInvariant ==
  ASSUME LateInv, [Next]_sessionVars
  PROVE  LateInv'
  <1>1. CASE LateEvaluations
    BY <1>1, LateInvariance DEF LateEvaluations
  <1>2. CASE StartCacheQuery
    <2>1. mmu' = EmptyMmu(host, OwnPcid) /\ host' = host /\ lateStep = "idle" /\ lateStep' = "idle"
      BY <1>2 DEF StartCacheQuery
    <2>2. count' = 0 /\ host \in Hosts
      BY <1>2 DEF StartCacheQuery, LateInv
    <2> QED
      BY <2>1, <2>2, EmptyIsMmu DEF LateInv, NoStaleTranslation, IsMmu
  <1>3. CASE SetupLevels \/ EvaluateReplacementPolicy \/ Query \/ UNCHANGED sessionVars
    <2>1. UNCHANGED lateVars
      BY <1>3 DEF SetupLevels, EvaluateReplacementPolicy, Query, sessionVars
    <2> QED
      BY <2>1, LateKept
  <1> QED
    BY <1>1, <1>2, <1>3 DEF Next

\* A finite order picks its next member among the set's.
LEMMA NextIsMember ==
  ASSUME NEW evicted \in Outcomes, Unplaced(evicted) # {}
  PROVE  Min(Unplaced(evicted)) \in Members
  <1>1. PICK all : all = {EvictedAfter(noise) : noise \in NoiseStates(cache.policy)}
    OBVIOUS
  <1>2. PICK always : always = {t \in Members : \A e \in all : t \in e}
    OBVIOUS
  <1>3. Outcomes = {always \cup sometimes : sometimes \in SUBSET ((UNION all) \ always)}
    BY <1>1, <1>2, Zenon DEF Outcomes
  <1>4. \A e \in all : e \subseteq Members
    BY <1>1 DEF EvictedAfter
  <1>5. evicted \subseteq Members
    BY <1>2, <1>3, <1>4
  <1>6. PICK T : T = Unplaced(evicted)
    OBVIOUS
  <1>7. T \subseteq Members /\ T \in SUBSET Nat /\ T # {}
    <2>1. T \subseteq evicted /\ T # {}
      BY <1>6 DEF Unplaced
    <2>2. Members \subseteq Nat
      BY DEF Members
    <2> QED
      BY <1>5, <2>1, <2>2
  <1>8. PICK x \in T : \A y \in T : x <= y
    BY <1>7, Minimum
  <1>9. Min(T) \in T
    BY <1>8 DEF Min
  <1> QED
    BY <1>6, <1>7, <1>9

\* What kmalloc returns is the only source of a word that is no address.
WordsInv ==
  /\ dirty \in Nat /\ (leftover => dirty > 0)
  /\ initial \in Words /\ (step = "order" => order \in Words)
  /\ dirty = 0 => \A w \in Members :
       initial[w] \notin Garbage /\ (step = "order" => order[w] \notin Garbage)

LEMMA BlockKeepsWords ==
  ASSUME WordsInv, BeginOrder, cache' = cache, initial' = initial
  PROVE  WordsInv'
  <1>1. Members' = Members /\ Words' = Words
    BY DEF Members, Words, Ways
  <1>2. order' \in Words
    BY ReplacementAssumption DEF BeginOrder, Blocks, Clean, Words
  <1>3. /\ dirty' = (IF order' = Clean THEN dirty ELSE dirty + 1)
        /\ leftover' = (leftover \/ \E w \in Members : order'[w] \in Members)
        /\ step' = "order" /\ dirty \in Nat /\ (leftover => dirty > 0)
    BY DEF BeginOrder, WordsInv
  <1>4. order' = Clean => \A w \in Members : order'[w] = -1
    BY DEF Clean, NoAddress
  <1>5. -1 \notin Members /\ -1 \notin Garbage
    BY ReplacementAssumption DEF Members
  <1>6. dirty' \in Nat /\ (leftover' => dirty' > 0)
    <2>1. CASE order' = Clean
      <3>1. dirty' = dirty /\ \A w \in Members : order'[w] \notin Members
        BY <1>3, <1>4, <1>5, <2>1
      <3>2. leftover' => leftover
        BY <1>3, <3>1
      <3> QED
        BY <1>3, <3>1, <3>2
    <2>2. CASE order' # Clean
      <3>1. dirty' = dirty + 1
        BY <1>3, <2>2
      <3> QED
        BY <1>3, <3>1
    <2> QED
      BY <2>1, <2>2
  <1>7. dirty' = 0 => dirty = 0 /\ order' = Clean
    BY <1>3
  <1>8. dirty' = 0 => \A w \in Members : initial'[w] \notin Garbage /\ order'[w] \notin Garbage
    BY <1>4, <1>5, <1>7 DEF WordsInv
  <1>9. initial' \in Words
    BY DEF WordsInv
  <1> QED
    BY <1>1, <1>2, <1>3, <1>6, <1>8, <1>9 DEF WordsInv

LEMMA StepKeepsWords ==
  ASSUME WordsInv, ReplacementStep
  PROVE  WordsInv'
  <1>1. cache' = cache
    BY DEF ReplacementStep, BuildSetChain, OrderFaults, DeterminePosition, TakeInitialOrder,
           CompareOrder, SkipVector, TriggerPermutation, TriggerGarbage, PermutationVectors
  <1>2. Members' = Members /\ Words' = Words
    BY <1>1 DEF Members, Words, Ways
  <1>3. CASE BuildSetChain
    BY <1>1, <1>3, BlockKeepsWords DEF BuildSetChain
  <1>4. CASE TriggerPermutation
    BY <1>1, <1>4, BlockKeepsWords DEF TriggerPermutation
  <1>5. CASE TriggerGarbage
    <2>1. initial' = initial
      BY <1>5 DEF TriggerGarbage
    <2>2. CASE BeginOrder
      BY <1>1, <2>1, <2>2, BlockKeepsWords
    <2>3. CASE step' = "crashed" /\ UNCHANGED <<chain, order, position, dirty, leftover>>
      BY <1>2, <2>1, <2>3 DEF WordsInv
    <2> QED
      BY <1>5, <2>2, <2>3 DEF TriggerGarbage
  <1>6. CASE DeterminePosition
    <2>1. /\ step = "order" /\ step' = "order" /\ initial' = initial /\ dirty' = dirty
          /\ leftover' = leftover
      BY <1>6 DEF DeterminePosition
    <2>2. PICK evicted \in Outcomes :
            order' = IF Unplaced(evicted) = {} THEN order
                     ELSE [order EXCEPT ![position] = Min(Unplaced(evicted))]
      BY <1>6 DEF DeterminePosition
    <2>3. CASE Unplaced(evicted) = {}
      BY <1>2, <2>1, <2>2, <2>3 DEF WordsInv
    <2>4. CASE Unplaced(evicted) # {}
      <3>1. PICK x : x = Min(Unplaced(evicted))
        OBVIOUS
      <3>2. x \in Members /\ x \notin Garbage
        BY <2>4, <3>1, NextIsMember, ReplacementAssumption DEF Members
      <3>3. order' = [order EXCEPT ![position] = x] /\ order \in Words
        BY <2>1, <2>2, <2>4, <3>1 DEF WordsInv
      <3>4. order' \in Words
        BY <3>2, <3>3 DEF Words
      <3>5. \A w \in Members : order'[w] = order[w] \/ order'[w] = x
        BY <3>3 DEF Words
      <3> QED
        BY <1>2, <2>1, <3>2, <3>4, <3>5 DEF WordsInv
    <2> QED
      BY <2>3, <2>4
  <1>7. CASE TakeInitialOrder
    <2>1. step = "order" /\ step' = "trigger" /\ initial' = order /\ dirty' = dirty /\ leftover' = leftover
      BY <1>7 DEF TakeInitialOrder
    <2> QED
      BY <1>2, <2>1 DEF WordsInv
  <1>8. CASE OrderFaults \/ CompareOrder \/ SkipVector \/ PermutationVectors
    <2>1. /\ initial' = initial /\ dirty' = dirty /\ leftover' = leftover /\ order' = order
          /\ step' # "order"
      BY <1>8 DEF OrderFaults, CompareOrder, SkipVector, PermutationVectors
    <2> QED
      BY <1>2, <2>1 DEF WordsInv
  <1> QED
    BY <1>3, <1>4, <1>5, <1>6, <1>7, <1>8 DEF ReplacementStep

\* The word that is accessed in a member's place was not looked for in vain: the
\* vectors of the level cannot be found out, or memory held a member's address.
LEMMA GarbageIsBlamed ==
  ASSUME LateInv, CrashInv, OrderInv, stage \in {"lower", "upper"}, TriggerGarbage
  PROVE  dirty > 0 /\ ~ Predictable
  <1>1. /\ step = "trigger" /\ vector \in Members /\ initial[vector] \in Garbage
    BY DEF TriggerGarbage
  <1>2. dirty > 0
    BY <1>1 DEF CrashInv
  <1>3. ASSUME Predictable PROVE FALSE
    <2>1. initial = [w \in Members |-> Ways - 1 - w]
      BY <1>1, <1>3 DEF OrderInv, Members
    <2>2. Ways \in Int
      <3>1. host[stage] \in {host.lower, host.upper} /\ host \in Hosts /\ cache = host[stage]
        BY <1>1 DEF LateInv, CrashInv
      <3> QED
        BY <3>1, SessionAssumption DEF IsPolicy, Ways
    <2>3. initial[vector] \in Int
      BY <1>1, <2>1, <2>2 DEF Members
    <2> QED
      BY <1>1, <2>3, ReplacementAssumption
  <1> QED
    BY <1>2, <1>3

LEMMA CrashIsExplained ==
  ASSUME LateInv, CrashInv, CrashExplained, OrderInv, [Next]_sessionVars
  PROVE  CrashInv' /\ CrashExplained'
  <1> USE DEF Blamed
  <1>1. CASE SetupLevels
    <2>1. /\ stage = "layout" /\ stage' \in {"layout", "lower"} /\ UNCHANGED replacementVars
          /\ host' = host
      BY <1>1 DEF SetupLevels, lateVars
    <2>2. WordsInv' /\ step' = "idle"
      BY <2>1 DEF replacementVars, CrashInv, WordsInv, Words, Members, Ways
    <2> QED
      BY <2>1, <2>2 DEF CrashInv, WordsInv, CrashExplained
  <1>2. CASE EvaluateReplacementPolicy
    <2>1. stage \in {"lower", "upper"} /\ host' = host
      BY <1>2 DEF EvaluateReplacementPolicy, lateVars
    <2>2. CASE step = "done"
      <3>1. /\ step' = "idle" /\ stage' \in {"printed", "upper", "late"}
            /\ UNCHANGED <<cache, chain, order, position, initial, vector, vectors, dirty, leftover>>
        BY <1>2, <2>1, <2>2 DEF EvaluateReplacementPolicy
      <3>2. WordsInv'
        BY <3>1 DEF CrashInv, WordsInv, Words, Members, Ways
      <3> QED
        BY <3>1, <3>2 DEF CrashInv, WordsInv, CrashExplained
    <2>3. CASE step # "done" /\ CalculatePermutationVectors(host[stage])
      <3>1. /\ cache' = host[stage] /\ stage' = (IF step' = "crashed" THEN "crashed" ELSE stage)
            /\ step' = (IF host[stage].known THEN "allocate" ELSE "crashed")
            /\ dirty' = 0 /\ leftover' = FALSE
            /\ initial' = [w \in Positions(host[stage].policy) |-> NoAddress]
        BY <1>2, <2>3 DEF EvaluateReplacementPolicy, CalculatePermutationVectors
      <3>2. Members' = Positions(host[stage].policy)
        BY <3>1 DEF Members, Ways, Positions
      <3>3. initial' \in Words' /\ \A w \in Members' : initial'[w] \notin Garbage
        BY <3>1, <3>2, ReplacementAssumption DEF Words, NoAddress
      <3>4. CrashInv'
        BY <2>1, <3>1, <3>3 DEF CrashInv
      <3> QED
        BY <2>1, <3>1, <3>4 DEF CrashExplained
    <2>4. CASE step # "done" /\ ReplacementStep
      <3>1. /\ cache' = cache /\ step # "idle"
            /\ step' = "crashed" => ~ Mapped(NextAddress) \/ TriggerGarbage
        BY <2>4 DEF ReplacementStep, BuildSetChain, OrderFaults, DeterminePosition,
                    TakeInitialOrder, CompareOrder, SkipVector, TriggerPermutation,
                    TriggerGarbage, PermutationVectors, BeginOrder
      <3>2. cache = host[stage] /\ stage' = (IF step' = "crashed" THEN "crashed" ELSE stage)
        BY <1>2, <2>1, <2>4, <3>1 DEF EvaluateReplacementPolicy, CrashInv
      <3>3. WordsInv'
        BY <2>4, StepKeepsWords DEF CrashInv, WordsInv
      <3>4. CrashInv'
        BY <2>1, <3>1, <3>2, <3>3 DEF CrashInv, WordsInv
      <3>5. ASSUME step' = "crashed", ~ Mapped(NextAddress)
            PROVE  host[stage].reach <= host[stage].policy.ways
        <4>1. /\ host[stage].reach \in Nat /\ host[stage].policy.ways \in Nat
          <5>1. host[stage] \in {host.lower, host.upper} /\ host \in Hosts
            BY <2>1 DEF LateInv
          <5> QED
            BY <5>1, SessionAssumption DEF IsPolicy
        <4>2. ~ (host[stage].policy.ways < host[stage].reach)
          BY <3>1, <3>2, <3>5 DEF Mapped, NextAddress, Ways
        <4> QED
          BY <4>1, <4>2
      <3>6. ASSUME step' = "crashed", TriggerGarbage
            PROVE  /\ dirty' > 0
                   /\ \/ leftover' \/ ~ FirstHitKeeps(host[stage].policy)
                      \/ host[stage].reach < 2 * host[stage].policy.ways
        <4>1. dirty > 0 /\ ~ Predictable
          BY <2>1, <3>6, GarbageIsBlamed
        <4>2. dirty' = dirty /\ leftover' = leftover
          BY <3>6 DEF TriggerGarbage, BeginOrder
        <4>3. /\ host[stage].reach \in Nat /\ host[stage].policy.ways \in Nat
          <5>1. host[stage] \in {host.lower, host.upper} /\ host \in Hosts
            BY <2>1 DEF LateInv
          <5> QED
            BY <5>1, SessionAssumption DEF IsPolicy
        <4> QED
          BY <3>2, <4>1, <4>2, <4>3 DEF Predictable, Ways
      <3>7. PICK level : level = host[stage]
        OBVIOUS
      <3>8. step' = "crashed" => Blamed(level)'
        BY <3>1, <3>5, <3>6, <3>7
      <3>9. level \in {host'.lower, host'.upper} /\ (stage' = "crashed" => step' = "crashed")
        BY <2>1, <3>2, <3>7
      <3>10. CrashExplained'
        BY <3>8, <3>9, Zenon DEF CrashExplained
      <3> QED
        BY <3>4, <3>10
    <2> QED
      BY <1>2, <2>2, <2>3, <2>4 DEF EvaluateReplacementPolicy
  <1>3. CASE LateEvaluations \/ Query \/ UNCHANGED sessionVars
    <2>1. stage' = stage /\ UNCHANGED replacementVars
      BY <1>3 DEF LateEvaluations, Query, sessionVars
    <2>2. stage \in {"late", "query"} \/ host' = host
      BY <1>3 DEF LateEvaluations, Query, sessionVars, lateVars
    <2>3. WordsInv'
      BY <2>1 DEF replacementVars, CrashInv, WordsInv, Words, Members, Ways
    <2>4. CrashInv'
      BY <2>1, <2>2, <2>3 DEF replacementVars, CrashInv, WordsInv
    <2>5. CrashExplained'
      BY <2>1, <2>2 DEF replacementVars, CrashExplained
    <2> QED
      BY <2>4, <2>5
  <1>4. CASE StartCacheQuery
    <2>1. /\ stage' = "query"
          /\ UNCHANGED <<step, cache, order, position, initial, vector, vectors, dirty, leftover>>
      BY <1>4 DEF StartCacheQuery
    <2>2. WordsInv'
      BY <2>1 DEF CrashInv, WordsInv, Words, Members, Ways
    <2> QED
      BY <2>1, <2>2 DEF CrashInv, WordsInv, CrashExplained
  <1> QED
    BY <1>1, <1>2, <1>3, <1>4 DEF Next

--------------------------------------------------------------------------------
(* The folds of a query *)

LEMMA LettersFold ==
  ASSUME NEW letters, NEW n \in Nat, DOMAIN letters = 1 .. n
  PROVE  \E at : /\ Runs([of |-> "letters"], <<>>, letters, n, at)
                 /\ UniqueLetters(letters) = at[n]
  <1> DEFINE fold == [of |-> "letters"]
             Plus(seen, x) == IF Contains(seen, x) THEN seen ELSE Append(seen, x)
             P(f) == f = [s \in SUBSET (1 .. n) |->
                            IF s = {} THEN <<>> ELSE Plus(f[s \ {Max(s)}], letters[Max(s)])]
             F == CHOOSE f : P(f)
  <1>1. UniqueLetters(letters) = F[1 .. n]
    BY Zenon DEF UniqueLetters, FoldLeft, MapThenFoldSet
  <1>2. \A at, x : Step(fold, at, x) = Plus(at, x)
    BY DEF Step
  <1> HIDE DEF fold, Plus
  <1>3. \A f : Iterates(fold, <<>>, letters, n, f) <=> P(f)
    BY <1>2 DEF Iterates
  <1>4. P(F)
    <2> HIDE DEF P
    <2> QED
      BY <1>3, IterationExists
  <1> HIDE DEF P, F
  <1> QED
    BY <1>1, <1>3, <1>4, FoldRuns DEF fold

LEMMA MapFold ==
  ASSUME NEW letters, NEW start, NEW n \in Nat, DOMAIN letters = 1 .. n
  PROVE  \E at : /\ Runs([of |-> "map", start |-> start], <<>>, letters, n, at)
                 /\ AddressMap(letters, start) = at[n]
  <1> DEFINE fold == [of |-> "map", start |-> start]
             Plus(entries_, x) ==
               Append(entries_, [letter |-> x, page |-> NextAddressOf(x, entries_, start)])
             P(f) == f = [s \in SUBSET (1 .. n) |->
                            IF s = {} THEN <<>> ELSE Plus(f[s \ {Max(s)}], letters[Max(s)])]
             F == CHOOSE f : P(f)
  <1>1. AddressMap(letters, start) = F[1 .. n]
    BY Zenon DEF AddressMap, FoldLeft, MapThenFoldSet
  <1>2. \A at, x : Step(fold, at, x) = Plus(at, x)
    BY DEF Step
  <1> HIDE DEF fold, Plus
  <1>3. \A f : Iterates(fold, <<>>, letters, n, f) <=> P(f)
    BY <1>2 DEF Iterates
  <1>4. P(F)
    <2> HIDE DEF P
    <2> QED
      BY <1>3, IterationExists
  <1> HIDE DEF P, F
  <1> QED
    BY <1>1, <1>3, <1>4, FoldRuns DEF fold

LEMMA ChaseFold ==
  ASSUME NEW mem, NEW pg, NEW end, Cardinality(DOMAIN mem) \in Nat
  PROVE  \E at : /\ Runs([of |-> "chase", mem |-> mem, end |-> end], <<pg>>,
                         [k \in 1 .. Cardinality(DOMAIN mem) |-> k], Cardinality(DOMAIN mem), at)
                 /\ Chase(mem, pg, end) = at[Cardinality(DOMAIN mem)]
  <1> DEFINE fold == [of |-> "chase", mem |-> mem, end |-> end]
             turns == [k \in 1 .. Cardinality(DOMAIN mem) |-> k]
             Plus(walk, k) == IF Last(walk) = end \/ Last(walk) \notin DOMAIN mem
                              THEN walk ELSE Append(walk, mem[Last(walk)])
             P(f) == f = [s \in SUBSET (1 .. Cardinality(DOMAIN mem)) |->
                            IF s = {} THEN <<pg>> ELSE Plus(f[s \ {Max(s)}], turns[Max(s)])]
             F == CHOOSE f : P(f)
  <1>1. Chase(mem, pg, end) = F[1 .. Cardinality(DOMAIN mem)]
    BY Zenon DEF Chase, FoldLeft, MapThenFoldSet
  <1>2. \A at, x : Step(fold, at, x) = Plus(at, x)
    BY DEF Step
  <1> HIDE DEF fold, Plus, turns
  <1>3. \A f : Iterates(fold, <<pg>>, turns, Cardinality(DOMAIN mem), f) <=> P(f)
    BY <1>2 DEF Iterates
  <1>4. P(F)
    <2> HIDE DEF P, turns
    <2> QED
      BY <1>3, IterationExists
  <1> HIDE DEF P, F
  <1>5. PICK at : /\ Runs(fold, <<pg>>, turns, Cardinality(DOMAIN mem), at)
                  /\ F[1 .. Cardinality(DOMAIN mem)] = at[Cardinality(DOMAIN mem)]
    BY <1>3, <1>4, FoldRuns
  <1> QED
    BY <1>1, <1>5 DEF fold, turns

LEMMA WalkFold ==
  ASSUME NEW policy, NEW set, NEW walk, NEW n \in Nat, DOMAIN walk = 1 .. n
  PROVE  \E at : /\ Runs([of |-> "walk", policy |-> policy], [tlb |-> {}, set |-> set], walk, n, at)
                 /\ AfterWalk(policy, set, walk) = at[n].set
  <1> DEFINE fold == [of |-> "walk", policy |-> policy]
             base == [tlb |-> {}, set |-> set]
             Plus(at, pg) == IF pg \in at.tlb THEN at
                             ELSE [tlb |-> at.tlb \cup {pg}, set |-> Touch(policy, at.set, pg[1])]
             P(f) == f = [s \in SUBSET (1 .. n) |->
                            IF s = {} THEN base ELSE Plus(f[s \ {Max(s)}], walk[Max(s)])]
             F == CHOOSE f : P(f)
  <1>1. AfterWalk(policy, set, walk) = F[1 .. n].set
    BY Zenon DEF AfterWalk, FoldLeft, MapThenFoldSet
  <1>2. \A at, x : Step(fold, at, x) = Plus(at, x)
    BY DEF Step
  <1> HIDE DEF fold, Plus, base
  <1>3. \A f : Iterates(fold, base, walk, n, f) <=> P(f)
    BY <1>2 DEF Iterates
  <1>4. P(F)
    <2> HIDE DEF P
    <2> QED
      BY <1>3, IterationExists
  <1> HIDE DEF P, F
  <1>5. PICK at : Runs(fold, base, walk, n, at) /\ F[1 .. n] = at[n]
    BY <1>3, <1>4, FoldRuns
  <1> QED
    BY <1>1, <1>5 DEF fold, base

--------------------------------------------------------------------------------
(* The pages of a query *)

LEMMA DistinctCount ==
  ASSUME NEW S, NEW s \in Seq(S), \A i, j \in 1 .. Len(s) : s[i] = s[j] => i = j
  PROVE  IsFiniteSet(ToSet(s)) /\ Cardinality(ToSet(s)) = Len(s)
  <1>1. IsFiniteSet(1 .. Len(s)) /\ Cardinality(1 .. Len(s)) = Len(s)
    <2>1. 1 \in Int /\ Len(s) \in Int /\ Len(s) \in Nat
      OBVIOUS
    <2>2. /\ IsFiniteSet(1 .. Len(s))
          /\ Cardinality(1 .. Len(s)) = IF 1 > Len(s) THEN 0 ELSE Len(s) - 1 + 1
      BY <2>1, FS_Interval
    <2> QED
      BY <2>1, <2>2
  <1>2. s \in Bijection(1 .. Len(s), ToSet(s))
    <2>1. s \in [1 .. Len(s) -> ToSet(s)]
      BY DEF ToSet
    <2>2. \A t \in ToSet(s) : \E i \in 1 .. Len(s) : s[i] = t
      BY DEF ToSet
    <2> QED
      BY <2>1, <2>2 DEF Bijection, Injection, Surjection, IsInjective
  <1>3. ExistsBijection(1 .. Len(s), ToSet(s))
    BY <1>2 DEF ExistsBijection
  <1> QED
    BY <1>1, <1>3, FS_Bijection

\* The unique letters are the letters, each once.
LEMMA UniqueLettersAre ==
  ASSUME NEW S, NEW s \in Seq(S)
  PROVE  /\ UniqueLetters(s) \in Seq(S)
         /\ \A i, j \in 1 .. Len(UniqueLetters(s)) :
              UniqueLetters(s)[i] = UniqueLetters(s)[j] => i = j
         /\ ToSet(UniqueLetters(s)) = ToSet(s)
  <1>1. Len(s) \in Nat /\ DOMAIN s = 1 .. Len(s)
    OBVIOUS
  <1>2. PICK at : /\ Runs([of |-> "letters"], <<>>, s, Len(s), at)
                  /\ UniqueLetters(s) = at[Len(s)]
    BY <1>1, LettersFold
  <1>3. /\ at[0] = <<>>
        /\ \A k \in 1 .. Len(s) :
             at[k] = IF Contains(at[k - 1], s[k]) THEN at[k - 1] ELSE Append(at[k - 1], s[k])
    BY <1>2 DEF Runs, Step
  <1> DEFINE Good(seen, k) == /\ seen \in Seq(S)
                              /\ \A i, j \in 1 .. Len(seen) : seen[i] = seen[j] => i = j
                              /\ \A i \in 1 .. Len(seen) : \E j \in 1 .. k : seen[i] = s[j]
                              /\ \A j \in 1 .. k : \E i \in 1 .. Len(seen) : seen[i] = s[j]
             T == {k \in 0 .. Len(s) : ~ Good(at[k], k)}
  <1>4. ASSUME NEW k \in 1 .. Len(s), NEW seen, Good(seen, k - 1)
        PROVE  Good(IF Contains(seen, s[k]) THEN seen ELSE Append(seen, s[k]), k)
    <2>1. s[k] \in S /\ k - 1 \in Nat /\ 1 .. k = (1 .. k - 1) \cup {k}
      BY <1>1
    <2>2. CASE Contains(seen, s[k])
      <3>1. PICK i \in 1 .. Len(seen) : seen[i] = s[k]
        BY <2>2 DEF Contains
      <3> QED
        BY <1>4, <2>1, <2>2, <3>1
    <2>3. CASE ~ Contains(seen, s[k])
      <3>1. \A i \in 1 .. Len(seen) : seen[i] # s[k]
        BY <2>3 DEF Contains
      <3>2. PICK more : more = Append(seen, s[k])
        OBVIOUS
      <3>3. /\ more \in Seq(S) /\ Len(more) = Len(seen) + 1 /\ more[Len(seen) + 1] = s[k]
            /\ \A i \in 1 .. Len(seen) : more[i] = seen[i]
            /\ Len(seen) \in Nat
        BY <1>4, <2>1, <3>2
      <3>4. \A i, j \in 1 .. Len(more) : more[i] = more[j] => i = j
        <4>1. \A i \in 1 .. Len(more) : i \in 1 .. Len(seen) \/ i = Len(seen) + 1
          BY <3>3
        <4>2. \A i, j \in 1 .. Len(seen) : seen[i] = seen[j] => i = j
          BY <1>4
        <4> QED
          BY <3>1, <3>3, <4>1, <4>2
      <3>5. \A i \in 1 .. Len(more) : \E j \in 1 .. k : more[i] = s[j]
        <4> TAKE i \in 1 .. Len(more)
        <4>1. CASE i = Len(seen) + 1
          BY <4>1, <3>3, <2>1
        <4>2. CASE i # Len(seen) + 1
          <5>1. i \in 1 .. Len(seen)
            BY <4>2, <3>3
          <5>2. PICK j \in 1 .. k - 1 : seen[i] = s[j]
            BY <5>1, <1>4
          <5> QED
            BY <5>1, <5>2, <3>3, <2>1
        <4> QED
          BY <4>1, <4>2
      <3>6. \A j \in 1 .. k : \E i \in 1 .. Len(more) : more[i] = s[j]
        <4> TAKE j \in 1 .. k
        <4>1. CASE j = k
          <5>1. Len(seen) + 1 \in 1 .. Len(more)
            BY <3>3
          <5> QED
            BY <4>1, <3>3, <5>1
        <4>2. CASE j # k
          <5>1. j \in 1 .. k - 1
            BY <4>2, <2>1
          <5>2. PICK i \in 1 .. Len(seen) : seen[i] = s[j]
            BY <5>1, <1>4
          <5>3. i \in 1 .. Len(more)
            BY <3>3
          <5> QED
            BY <5>2, <5>3, <3>3
        <4> QED
          BY <4>1, <4>2
      <3> QED
        BY <2>3, <3>2, <3>3, <3>4, <3>5, <3>6
    <2> QED
      BY <2>2, <2>3
  <1>5. Good(<<>>, 0)
    OBVIOUS
  <1> HIDE DEF Good
  <1>6. T = {}
    <2> SUFFICES ASSUME T # {} PROVE FALSE
      OBVIOUS
    <2>1. PICK k \in T : \A j \in T : k <= j
      <3>1. T \in SUBSET Nat
        BY <1>1
      <3> HIDE DEF T
      <3> QED
        BY <3>1, Minimum
    <2>2. k \in 1 .. Len(s)
      BY <1>3, <1>5, <2>1
    <2>3. k - 1 \in 0 .. Len(s) /\ ~ (k <= k - 1)
      BY <2>2
    <2>4. Good(at[k - 1], k - 1)
      BY <2>1, <2>3
    <2> QED
      BY <1>3, <1>4, <2>1, <2>2, <2>4
  <1>7. Good(UniqueLetters(s), Len(s))
    BY <1>1, <1>2, <1>6
  <1>8. ToSet(UniqueLetters(s)) = ToSet(s)
    <2>1. PICK u : u = UniqueLetters(s)
      OBVIOUS
    <2>2. Good(u, Len(s))
      BY <1>7, <2>1
    <2>3. /\ DOMAIN u = 1 .. Len(u) /\ DOMAIN s = 1 .. Len(s)
          /\ \A i \in 1 .. Len(u) : \E j \in 1 .. Len(s) : u[i] = s[j]
          /\ \A j \in 1 .. Len(s) : \E i \in 1 .. Len(u) : u[i] = s[j]
      BY <2>2 DEF Good
    <2>4. ToSet(u) \subseteq ToSet(s)
      <3> SUFFICES ASSUME NEW i \in 1 .. Len(u) PROVE u[i] \in ToSet(s)
        BY <2>3 DEF ToSet
      <3>1. PICK j \in 1 .. Len(s) : u[i] = s[j]
        BY <2>3
      <3>2. s[j] \in ToSet(s)
        BY <2>3, <3>1 DEF ToSet
      <3> QED
        BY <3>1, <3>2
    <2>5. ToSet(s) \subseteq ToSet(u)
      <3> SUFFICES ASSUME NEW j \in 1 .. Len(s) PROVE s[j] \in ToSet(u)
        BY <2>3 DEF ToSet
      <3>1. PICK i \in 1 .. Len(u) : u[i] = s[j]
        BY <2>3
      <3>2. u[i] \in ToSet(u)
        BY <2>3, <3>1 DEF ToSet
      <3> QED
        BY <3>1, <3>2
    <2> QED
      BY <2>1, <2>4, <2>5
  <1> QED
    BY <1>7, <1>8 DEF Good

\* How many letters the entries of a map have.
Letters(entries_) == [n \in DOMAIN entries_ |-> entries_[n].letter]
Known(entries_) == Len(UniqueLetters(Letters(entries_)))
Entry == [letter : Nat, page : Nat \X Nat]

LEMMA KnownIs ==
  ASSUME NEW entries_ \in Seq(Entry)
  PROVE  /\ Known(entries_) \in Nat /\ Letters(entries_) \in Seq(Nat)
         /\ IsFiniteSet(ToSet(Letters(entries_)))
         /\ Known(entries_) = Cardinality(ToSet(Letters(entries_)))
  <1>1. Letters(entries_) \in Seq(Nat)
    <2>1. DOMAIN entries_ = 1 .. Len(entries_) /\ Len(entries_) \in Nat
      OBVIOUS
    <2>2. \A n \in 1 .. Len(entries_) : entries_[n].letter \in Nat
      <3>1. \A n \in 1 .. Len(entries_) : entries_[n] \in Entry
        OBVIOUS
      <3> QED
        BY <3>1 DEF Entry
    <2> QED
      BY <2>1, <2>2 DEF Letters
  <1>2. PICK u : u = UniqueLetters(Letters(entries_))
    OBVIOUS
  <1>3. /\ u \in Seq(Nat) /\ \A i, j \in 1 .. Len(u) : u[i] = u[j] => i = j
        /\ ToSet(u) = ToSet(Letters(entries_))
    BY <1>1, <1>2, UniqueLettersAre
  <1>4. Len(u) \in Nat
    BY <1>3
  <1> QED
    BY <1>1, <1>2, <1>3, <1>4, DistinctCount DEF Known

LEMMA KnownGrows ==
  ASSUME NEW entries_ \in Seq(Entry), NEW e \in Entry
  PROVE  Known(Append(entries_, e)) =
           IF Uses(entries_, e.letter) # {} THEN Known(entries_) ELSE Known(entries_) + 1
  <1>1. PICK more : more = Append(entries_, e)
    OBVIOUS
  <1>2. /\ more \in Seq(Entry) /\ Len(more) = Len(entries_) + 1 /\ Len(entries_) \in Nat
        /\ DOMAIN more = 1 .. Len(entries_) + 1 /\ DOMAIN entries_ = 1 .. Len(entries_)
        /\ more[Len(entries_) + 1] = e /\ \A i \in 1 .. Len(entries_) : more[i] = entries_[i]
    BY <1>1
  <1>3. ToSet(Letters(more)) = ToSet(Letters(entries_)) \cup {e.letter}
    BY <1>2 DEF ToSet, Letters
  <1>4. e.letter \in ToSet(Letters(entries_)) <=> Uses(entries_, e.letter) # {}
    BY <1>2 DEF ToSet, Letters, Uses
  <1>5. /\ IsFiniteSet(ToSet(Letters(entries_)))
        /\ Known(entries_) = Cardinality(ToSet(Letters(entries_)))
        /\ Known(more) = Cardinality(ToSet(Letters(more)))
    BY <1>2, KnownIs
  <1>6. PICK x : x = e.letter
    OBVIOUS
  <1> QED
    BY <1>1, <1>3, <1>4, <1>5, <1>6, FS_AddElement

LEMMA GreatestExists ==
  ASSUME NEW n \in Nat, NEW T \in SUBSET (1 .. n), T # {}
  PROVE  Max(T) \in T /\ \A y \in T : y <= Max(T)
  <1> DEFINE B == {b \in Nat : \A y \in T : y <= b}
  <1>1. n \in B
    OBVIOUS
  <1>2. PICK b \in B : \A c \in B : b <= c
    <2>1. B \in SUBSET Nat /\ B # {}
      BY <1>1
    <2> HIDE DEF B
    <2> QED
      BY <2>1, Minimum
  <1>3. b \in T
    <2> SUFFICES ASSUME b \notin T PROVE FALSE
      OBVIOUS
    <2>1. PICK y \in T : TRUE
      OBVIOUS
    <2>2. b - 1 \in Nat
      BY <1>2, <2>1
    <2>3. ASSUME NEW z \in T PROVE z <= b - 1
      BY <1>2
    <2>4. b - 1 \in B
      BY <2>2, <2>3
    <2> QED
      BY <1>2, <2>2, <2>4
  <1>4. \E m \in T : \A y \in T : m >= y
    BY <1>2, <1>3
  <1>5. Max(T) \in T /\ \A y \in T : Max(T) >= y
    BY <1>4 DEF Max
  <1> QED
    BY <1>5

\* What a map keeps to while it is drawn up.
Apart(entries_, start) ==
  LET Positions_ == 1 .. Len(entries_) IN
  /\ entries_ \in Seq(Entry)
  /\ \A i \in Positions_ : /\ start <= entries_[i].page[1]
                           /\ entries_[i].page[1] < start + Known(entries_)
  /\ \A i, j \in Positions_ :
       entries_[i].letter = entries_[j].letter <=> entries_[i].page[1] = entries_[j].page[1]
  /\ \A i, j \in Positions_ :
       i < j /\ entries_[i].letter = entries_[j].letter => entries_[i].page[2] < entries_[j].page[2]
  /\ \A i \in Positions_ : entries_[i].page[2] > 0 =>
       \E j \in Positions_ : entries_[j].page = <<entries_[i].page[1], entries_[i].page[2] - 1>>

\* The next page is another one.
LEMMA NextApart ==
  ASSUME NEW start \in Nat, NEW entries_, Apart(entries_, start), NEW x \in Nat
  PROVE  Apart(Append(entries_, [letter |-> x, page |-> NextAddressOf(x, entries_, start)]), start)
  <1>1. PICK p : p = NextAddressOf(x, entries_, start)
    OBVIOUS
  <1>2. PICK n : n = Len(entries_)
    OBVIOUS
  <1>3. n \in Nat /\ DOMAIN entries_ = 1 .. n /\ entries_ \in Seq(Entry)
    BY <1>2 DEF Apart
  <1>4. /\ \A i \in 1 .. n : /\ entries_[i] \in Entry /\ entries_[i].letter \in Nat
                             /\ entries_[i].page \in Nat \X Nat
                             /\ entries_[i].page[1] \in Nat /\ entries_[i].page[2] \in Nat
                             /\ entries_[i].page = <<entries_[i].page[1], entries_[i].page[2]>>
    <2>1. \A i \in 1 .. n : entries_[i] \in Entry
      BY <1>2, <1>3
    <2> QED
      BY <2>1 DEF Entry
  <1>5. Known(entries_) \in Nat
    BY <1>3, KnownIs
  <1>7. PICK e : e = [letter |-> x, page |-> p]
    OBVIOUS
  <1>8. PICK more : more = Append(entries_, e)
    OBVIOUS
  <1>9. PICK many : many = Known(entries_)
    OBVIOUS
  <1>10. /\ many \in Nat
         /\ \A i \in 1 .. n : start <= entries_[i].page[1] /\ entries_[i].page[1] < start + many
         /\ \A i, j \in 1 .. n :
              entries_[i].letter = entries_[j].letter <=> entries_[i].page[1] = entries_[j].page[1]
         /\ \A i, j \in 1 .. n : i < j /\ entries_[i].letter = entries_[j].letter
                                   => entries_[i].page[2] < entries_[j].page[2]
         /\ \A i \in 1 .. n : entries_[i].page[2] > 0 =>
              \E j \in 1 .. n : entries_[j].page = <<entries_[i].page[1], entries_[i].page[2] - 1>>
    BY <1>2, <1>5, <1>9 DEF Apart
  <1>11. /\ p \in Nat \X Nat
         /\ \E more_ \in {many, many + 1} :
              /\ Known(more) = more_ /\ start <= p[1] /\ p[1] < start + more_
         /\ \A i \in 1 .. n : entries_[i].letter = x <=> entries_[i].page[1] = p[1]
         /\ \A i \in 1 .. n : entries_[i].letter = x => entries_[i].page[2] < p[2]
         /\ p[2] > 0 => \E j \in 1 .. n : entries_[j].page = <<p[1], p[2] - 1>>
    <2>1. CASE Uses(entries_, x) # {}
      <3>1. Uses(entries_, x) \in SUBSET (1 .. n)
        BY <1>3 DEF Uses
      <3>2. PICK u : u = Max(Uses(entries_, x))
        OBVIOUS
      <3>3. u \in 1 .. n /\ entries_[u].letter = x
        BY <1>3, <2>1, <3>1, <3>2, GreatestExists DEF Uses
      <3>4. \A y \in 1 .. n : entries_[y].letter = x => y <= u
        BY <1>3, <2>1, <3>1, <3>2, GreatestExists DEF Uses
      <3>5. p = <<entries_[u].page[1], entries_[u].page[2] + 1>>
        <4>1. entries_ # <<>>
          BY <1>2, <1>3, <3>3
        <4> QED
          BY <1>1, <2>1, <3>2, <4>1 DEF NextAddressOf, NextSub
      <3>6. /\ p \in Nat \X Nat /\ p[1] = entries_[u].page[1] /\ p[2] = entries_[u].page[2] + 1
            /\ p[2] - 1 = entries_[u].page[2]
        BY <1>4, <3>3, <3>5
      <3>7. Known(more) = many
        <4>1. e \in Entry /\ e.letter = x
          BY <1>7, <3>6 DEF Entry
        <4> QED
          BY <1>3, <1>8, <1>9, <2>1, <4>1, KnownGrows
      <3>8. ASSUME NEW i \in 1 .. n, entries_[i].letter = x PROVE entries_[i].page[2] < p[2]
        <4>1. i <= u
          BY <3>4, <3>8
        <4>2. CASE i = u
          BY <1>4, <3>3, <3>6, <4>2
        <4>3. CASE i # u
          <5>1. i < u /\ entries_[i].letter = entries_[u].letter
            BY <3>3, <3>8, <4>1, <4>3
          <5>2. entries_[i].page[2] < entries_[u].page[2]
            BY <1>10, <3>3, <5>1
          <5> QED
            BY <1>4, <3>3, <3>6, <5>2
        <4> QED
          BY <4>2, <4>3
      <3>9. \A i \in 1 .. n : entries_[i].letter = x <=> entries_[i].page[1] = p[1]
        BY <1>10, <3>3, <3>6
      <3>10. entries_[u].page = <<p[1], p[2] - 1>>
        BY <1>4, <3>3, <3>6
      <3>11. start <= p[1] /\ p[1] < start + many
        BY <1>10, <3>3, <3>6
      <3> QED
        BY <3>3, <3>6, <3>7, <3>8, <3>9, <3>10, <3>11
    <2>2. CASE Uses(entries_, x) = {}
      <3>1. \A i \in 1 .. n : entries_[i].letter # x
        BY <1>3, <2>2 DEF Uses
      <3>2. p = IF n = 0 THEN <<start, 0>> ELSE <<start + many, 0>>
        <4>1. entries_ = <<>> <=> n = 0
          BY <1>2, <1>3
        <4> QED
          BY <1>1, <1>9, <2>2, <4>1 DEF NextAddressOf, NewMember, Known, Letters
      <3>3. /\ p \in Nat \X Nat /\ p[2] = 0 /\ start <= p[1] /\ p[1] < start + (many + 1)
            /\ n # 0 => p[1] = start + many
        BY <1>10, <3>2
      <3>4. Known(more) = many + 1
        <4>1. e \in Entry /\ e.letter = x
          BY <1>7, <3>3 DEF Entry
        <4> QED
          BY <1>3, <1>8, <1>9, <2>2, <4>1, KnownGrows
      <3>5. \A i \in 1 .. n : entries_[i].page[1] # p[1]
        BY <1>4, <1>10, <3>3
      <3> QED
        BY <3>1, <3>3, <3>4, <3>5
    <2> QED
      BY <2>1, <2>2
  <1>12. e \in Entry /\ e.letter = x /\ e.page = p
    BY <1>7, <1>11 DEF Entry
  <1>13. /\ more \in Seq(Entry) /\ Len(more) = n + 1 /\ more[n + 1] = e
         /\ \A i \in 1 .. n : more[i] = entries_[i]
         /\ \A i \in 1 .. n + 1 : i \in 1 .. n \/ i = n + 1
    BY <1>2, <1>3, <1>8, <1>12
  <1>14. PICK grown : grown = Known(more)
    OBVIOUS
  <1>15. grown \in {many, many + 1} /\ start <= p[1] /\ p[1] < start + grown
    BY <1>11, <1>14
  <1>16. ASSUME NEW i \in 1 .. n + 1
         PROVE  start <= more[i].page[1] /\ more[i].page[1] < start + grown
    <2>1. CASE i = n + 1
      BY <1>12, <1>13, <1>15, <2>1
    <2>2. CASE i \in 1 .. n
      BY <1>4, <1>10, <1>13, <1>15, <2>2
    <2> QED
      BY <1>13, <2>1, <2>2
  <1>17. ASSUME NEW i \in 1 .. n + 1, NEW j \in 1 .. n + 1
         PROVE  more[i].letter = more[j].letter <=> more[i].page[1] = more[j].page[1]
    <2>1. CASE i \in 1 .. n /\ j \in 1 .. n
      BY <1>10, <1>13, <2>1
    <2>2. CASE i = n + 1 /\ j \in 1 .. n
      BY <1>11, <1>12, <1>13, <2>2
    <2>3. CASE i \in 1 .. n /\ j = n + 1
      BY <1>11, <1>12, <1>13, <2>3
    <2> QED
      BY <1>13, <2>1, <2>2, <2>3
  <1>18. ASSUME NEW i \in 1 .. n + 1, NEW j \in 1 .. n + 1, i < j, more[i].letter = more[j].letter
         PROVE  more[i].page[2] < more[j].page[2]
    <2>1. i \in 1 .. n
      BY <1>3, <1>18
    <2>2. CASE j \in 1 .. n
      BY <1>10, <1>13, <1>18, <2>1, <2>2
    <2>3. CASE j = n + 1
      BY <1>11, <1>12, <1>13, <1>18, <2>1, <2>3
    <2> QED
      BY <1>13, <2>2, <2>3
  <1>19. ASSUME NEW i \in 1 .. n + 1, more[i].page[2] > 0
         PROVE  \E j \in 1 .. n + 1 : more[j].page = <<more[i].page[1], more[i].page[2] - 1>>
    <2>1. \A j \in 1 .. n : j \in 1 .. n + 1
      BY <1>3
    <2>2. CASE i \in 1 .. n
      BY <1>10, <1>13, <1>19, <2>1, <2>2
    <2>3. CASE i = n + 1
      BY <1>11, <1>12, <1>13, <1>19, <2>1, <2>3
    <2> QED
      BY <1>13, <2>2, <2>3
  <1>20. Apart(more, start)
    BY ZenonT(60), <1>13, <1>14, <1>16, <1>17, <1>18, <1>19 DEF Apart
  <1> QED
    BY <1>1, <1>7, <1>8, <1>20

LEMMA MapIsApart ==
  ASSUME NEW text \in Seq(Nat), NEW start \in Nat
  PROVE  /\ Apart(AddressMap(text, start), start) /\ Len(AddressMap(text, start)) = Len(text)
         /\ \A i \in 1 .. Len(text) : AddressMap(text, start)[i].letter = text[i]
  <1>1. Len(text) \in Nat /\ DOMAIN text = 1 .. Len(text)
    OBVIOUS
  <1>2. PICK at : /\ Runs([of |-> "map", start |-> start], <<>>, text, Len(text), at)
                  /\ AddressMap(text, start) = at[Len(text)]
    BY <1>1, MapFold
  <1>3. /\ at[0] = <<>>
        /\ \A k \in 1 .. Len(text) :
             at[k] = Append(at[k - 1],
                            [letter |-> text[k], page |-> NextAddressOf(text[k], at[k - 1], start)])
    BY <1>2 DEF Runs, Step
  <1> DEFINE Good(entries_, k) == /\ Apart(entries_, start) /\ Len(entries_) = k
                                  /\ \A i \in 1 .. k : entries_[i].letter = text[i]
             T == {k \in 0 .. Len(text) : ~ Good(at[k], k)}
  <1>4. Good(<<>>, 0)
    BY DEF Apart
  <1>5. T = {}
    <2> SUFFICES ASSUME T # {} PROVE FALSE
      OBVIOUS
    <2>1. PICK k \in T : \A j \in T : k <= j
      <3>1. T \in SUBSET Nat
        BY <1>1
      <3> HIDE DEF T
      <3> QED
        BY <3>1, Minimum
    <2>2. k \in 1 .. Len(text)
      BY <1>3, <1>4, <2>1
    <2>3. k - 1 \in 0 .. Len(text) /\ ~ (k <= k - 1) /\ text[k] \in Nat
      BY <1>1, <2>2
    <2>4. Good(at[k - 1], k - 1)
      BY <2>1, <2>3
    <2>5. Apart(at[k], start)
      BY <1>3, <2>2, <2>3, <2>4, NextApart
    <2>6. Len(at[k]) = k /\ \A i \in 1 .. k : at[k][i].letter = text[i]
      <3>1. PICK entries_ : entries_ = at[k - 1]
        OBVIOUS
      <3>2. PICK e : e = [letter |-> text[k], page |-> NextAddressOf(text[k], at[k - 1], start)]
        OBVIOUS
      <3>3. at[k] = Append(entries_, e) /\ Len(entries_) = k - 1
        BY <1>3, <2>2, <2>4, <3>1, <3>2
      <3>4. entries_ \in Seq(Entry) /\ at[k] \in Seq(Entry)
        BY <2>4, <2>5, <3>1 DEF Apart
      <3>5. /\ Len(at[k]) = k /\ at[k][k] = e
            /\ \A i \in 1 .. k - 1 : at[k][i] = entries_[i]
        BY <3>3, <3>4, <2>2
      <3>6. e.letter = text[k]
        BY <3>2
      <3>7. \A i \in 1 .. k - 1 : entries_[i].letter = text[i]
        BY <2>4, <3>1
      <3>8. \A i \in 1 .. k : i \in 1 .. k - 1 \/ i = k
        BY <2>2
      <3> QED
        BY <3>5, <3>6, <3>7, <3>8
    <2> QED
      BY <2>1, <2>5, <2>6
  <1> QED
    BY <1>1, <1>2, <1>5

\* Pages that are apart, of a query that is no longer than they are.
LEMMA ApartPages ==
  ASSUME NEW entries_, NEW start \in Nat, Apart(entries_, start)
  PROVE  /\ DOMAIN entries_ = 1 .. Len(entries_)
         /\ \A n \in DOMAIN entries_ : entries_[n].page \in Nat \X Nat
         /\ \A m, n \in DOMAIN entries_ : entries_[m].page = entries_[n].page => m = n
         /\ \A n \in DOMAIN entries_ : entries_[n].page[2] > 0 =>
              \E m \in DOMAIN entries_ :
                entries_[m].page = <<entries_[n].page[1], entries_[n].page[2] - 1>>
  <1>1. entries_ \in Seq(Entry) /\ DOMAIN entries_ = 1 .. Len(entries_) /\ Len(entries_) \in Nat
    BY DEF Apart
  <1>2. \A n \in 1 .. Len(entries_) : entries_[n].page \in Nat \X Nat /\ entries_[n].page[2] \in Nat
    <2>1. \A n \in 1 .. Len(entries_) : entries_[n] \in Entry
      BY <1>1
    <2> QED
      BY <2>1 DEF Entry
  <1>3. ASSUME NEW m \in 1 .. Len(entries_), NEW n \in 1 .. Len(entries_),
               entries_[m].page = entries_[n].page, m < n
        PROVE  FALSE
    <2>1. entries_[m].letter = entries_[n].letter
      BY <1>3 DEF Apart
    <2>2. entries_[m].page[2] < entries_[n].page[2]
      BY <1>3, <2>1 DEF Apart
    <2> QED
      BY <1>2, <1>3, <2>2
  <1>4. \A m, n \in 1 .. Len(entries_) : m < n \/ n < m \/ m = n
    BY <1>1
  <1>5. \A m, n \in 1 .. Len(entries_) : entries_[m].page = entries_[n].page => m = n
    BY <1>3, <1>4
  <1> QED
    BY <1>1, <1>2, <1>5 DEF Apart

--------------------------------------------------------------------------------
(* The chase *)

\* A chase through a chain that ends reads the whole chain.
LEMMA ChaseFollows ==
  ASSUME NEW S, NEW pages \in Seq(S), pages # <<>>,
         \A i, j \in 1 .. Len(pages) : pages[i] = pages[j] => i = j,
         NEW end, end \notin ToSet(pages), NEW mem, DOMAIN mem = ToSet(pages),
         \A n \in 1 .. Len(pages) : mem[pages[n]] = IF n = Len(pages) THEN end ELSE pages[n + 1]
  PROVE  ChaseTo(mem, pages[1], end) = pages
  <1>1. PICK n : n = Len(pages)
    OBVIOUS
  <1>2. n \in Nat /\ n # 0 /\ DOMAIN pages = 1 .. n
    BY <1>1
  <1>3. Cardinality(DOMAIN mem) = n
    BY <1>1, DistinctCount
  <1>4. PICK at : /\ Runs([of |-> "chase", mem |-> mem, end |-> end], <<pages[1]>>,
                          [k \in 1 .. n |-> k], n, at)
                  /\ Chase(mem, pages[1], end) = at[n]
    BY SMTT(20), <1>2, <1>3, ChaseFold
  <1>5. /\ at[0] = <<pages[1]>>
        /\ \A k \in 1 .. n :
             at[k] = IF Last(at[k - 1]) = end \/ Last(at[k - 1]) \notin DOMAIN mem
                     THEN at[k - 1] ELSE Append(at[k - 1], mem[Last(at[k - 1])])
    BY <1>4 DEF Runs, Step
  <1> DEFINE Good(walk, k) ==
               /\ walk \in Seq(S \cup {end}) /\ Len(walk) = k + 1
               /\ \A i \in 1 .. k + 1 : walk[i] = IF i = n + 1 THEN end ELSE pages[i]
             T == {k \in 0 .. n : ~ Good(at[k], k)}
  <1>6. Good(<<pages[1]>>, 0)
    <2>1. pages[1] \in S
      BY <1>2
    <2> QED
      BY <1>2, <2>1
  <1>7. ASSUME NEW k \in 1 .. n, NEW walk, Good(walk, k - 1)
        PROVE  Good(IF Last(walk) = end \/ Last(walk) \notin DOMAIN mem
                    THEN walk ELSE Append(walk, mem[Last(walk)]), k)
    <2>1. k \in Nat /\ k - 1 \in Nat /\ k - 1 + 1 = k /\ k # n + 1 /\ k \in 1 .. k
      BY <1>2
    <2>2. Last(walk) = pages[k]
      BY <1>7, <2>1 DEF Last
    <2>3. pages[k] \in ToSet(pages) /\ pages[k] # end
      BY <1>2 DEF ToSet
    <2>4. mem[pages[k]] = IF k + 1 = n + 1 THEN end ELSE pages[k + 1]
      BY <1>1, <1>2
    <2>5. PICK next : next = mem[pages[k]]
      OBVIOUS
    <2>6. next \in S \cup {end}
      BY <1>1, <1>2, <2>4, <2>5
    <2>7. Good(Append(walk, next), k)
      BY <1>2, <1>7, <2>1, <2>4, <2>5, <2>6
    <2> HIDE DEF Good
    <2> QED
      BY <2>2, <2>3, <2>5, <2>7
  <1> HIDE DEF Good
  <1>8. T = {}
    <2> SUFFICES ASSUME T # {} PROVE FALSE
      OBVIOUS
    <2>1. PICK k \in T : \A j \in T : k <= j
      <3>1. T \in SUBSET Nat
        BY <1>2
      <3> HIDE DEF T
      <3> QED
        BY <3>1, Minimum
    <2>2. k \in 1 .. n
      BY <1>5, <1>6, <2>1
    <2>3. k - 1 \in 0 .. n /\ ~ (k <= k - 1)
      BY <1>2, <2>2
    <2>4. Good(at[k - 1], k - 1)
      BY <2>1, <2>3
    <2> QED
      BY <1>5, <1>7, <2>1, <2>2, <2>4
  <1>9. PICK chase : chase = Chase(mem, pages[1], end)
    OBVIOUS
  <1>10. Good(chase, n)
    BY <1>2, <1>4, <1>8, <1>9
  <1>11. Last(chase) = end
    BY <1>2, <1>10 DEF Good, Last
  <1>12. Front(chase) = pages
    <2>1. /\ chase \in Seq(S \cup {end}) /\ Len(chase) = n + 1
          /\ \A i \in 1 .. n : chase[i] = pages[i]
      BY <1>2, <1>10 DEF Good
    <2>2. Front(chase) = SubSeq(chase, 1, n)
      BY <1>2, <2>1 DEF Front
    <2>3. PICK front : front = SubSeq(chase, 1, n)
      OBVIOUS
    <2>4. /\ front \in Seq(S \cup {end}) /\ Len(front) = n
          /\ \A i \in 1 .. n : front[i] = chase[i]
      BY <1>2, <2>1, <2>3
    <2>5. pages \in Seq(S \cup {end})
      OBVIOUS
    <2> QED
      BY <1>1, <2>1, <2>2, <2>3, <2>4, <2>5
  <1> QED
    BY <1>9, <1>11, <1>12 DEF ChaseTo

--------------------------------------------------------------------------------
(* The walk *)

\* The line touched last is in the set.
LEMMA TouchHolds ==
  ASSUME NEW policy, IsPolicy(policy), NEW set, IsSet(policy, set), NEW x
  PROVE  IsSet(policy, Touch(policy, set, x)) /\ Holds(Touch(policy, set, x), x)
  <1>1. PICK after : after = Touch(policy, set, x)
    OBVIOUS
  <1>2. PICK way : way = WayOf(set, x)
    OBVIOUS
  <1>3. ASSUME Holds(set, x) PROVE way \in Positions(policy) /\ set.line[way] = x
    BY <1>2, <1>3 DEF WayOf, Holds, IsSet
  <1>4. CASE policy.kind = "permutation"
    <2>1. policy.ways \in Nat /\ policy.ways # 0 /\ 0 \in Positions(policy)
      BY DEF IsPolicy, Positions
    <2>2. \A hit, v \in Positions(policy) : \E w \in Positions(policy) : policy.vectors[hit][w] = v
      BY <1>4 DEF IsPolicy, Huplru
    <2>3. CASE Holds(set, x)
      <3> DEFINE line == [w \in Positions(policy) |-> set.line[policy.vectors[way][w]]]
      <3>1. after = [set EXCEPT !.line = line]
        BY <1>1, <1>2, <1>4, <2>3 DEF Touch, IsSet
      <3>2. PICK w \in Positions(policy) : policy.vectors[way][w] = way
        BY <1>3, <2>2, <2>3
      <3>3. line[w] = x /\ DOMAIN line = Positions(policy)
        BY <1>3, <2>3, <3>2
      <3> HIDE DEF line
      <3>4. after.line = line /\ IsSet(policy, after)
        BY <3>1, <3>3 DEF IsSet
      <3> QED
        BY <1>1, <3>2, <3>3, <3>4 DEF Holds
    <2>4. CASE ~ Holds(set, x)
      <3> DEFINE line == [w \in Positions(policy) |-> IF w = 0 THEN x ELSE set.line[w - 1]]
      <3>1. after = [set EXCEPT !.line = line]
        BY <1>1, <1>4, <2>4 DEF Touch, IsSet
      <3>2. line[0] = x /\ DOMAIN line = Positions(policy)
        BY <2>1
      <3> HIDE DEF line
      <3>3. after.line = line /\ IsSet(policy, after)
        BY <3>1, <3>2 DEF IsSet
      <3> QED
        BY <1>1, <2>1, <3>2, <3>3 DEF Holds
    <2> QED
      BY <2>3, <2>4
  <1>5. CASE policy.kind # "permutation"
    <2>1. policy.kind = "huplru" /\ policy.ways = 4 /\ Positions(policy) = 0 .. 3
      BY <1>5 DEF IsPolicy, Huplru, Positions
    <2>2. CASE Holds(set, x)
      <3>1. after = [set EXCEPT !.root = 1 - (way \div 2), !.leaf[way \div 2] = 1 - (way % 2)]
        BY <1>1, <1>2, <2>1, <2>2 DEF Touch
      <3>2. way \in {0, 1, 2, 3}
        BY <1>3, <2>1, <2>2
      <3>3. way \div 2 \in {0, 1} /\ way % 2 \in {0, 1}
        BY <3>2
      <3>4. PICK half, side : half = way \div 2 /\ side = way % 2
        OBVIOUS
      <3>5. half \in {0, 1} /\ side \in {0, 1} /\ 1 - half \in {0, 1} /\ 1 - side \in {0, 1}
        BY <3>3, <3>4
      <3>6. after = [set EXCEPT !.root = 1 - half, !.leaf[half] = 1 - side]
        BY <3>1, <3>4
      <3>7. IsSet(policy, after) /\ after.line = set.line
        BY <3>5, <3>6 DEF IsSet
      <3> QED
        BY <1>1, <2>2, <3>7 DEF Holds
    <2>3. CASE ~ Holds(set, x)
      <3>1. PICK way_ : way_ = 2 * set.root + set.leaf[set.root]
        OBVIOUS
      <3>2. way_ \in Positions(policy)
        <4>1. set.leaf[set.root] \in {0, 1} /\ set.root \in {0, 1}
          BY DEF IsSet
        <4> QED
          BY <2>1, <3>1, <4>1
      <3>3. after = [set EXCEPT !.line[way_] = x]
        BY <1>1, <2>1, <2>3, <3>1 DEF Touch
      <3>4. IsSet(policy, after) /\ after.line[way_] = x
        BY <3>2, <3>3 DEF IsSet
      <3>5. way_ \in DOMAIN after.line
        BY <3>2, <3>4 DEF IsSet
      <3> QED
        BY <1>1, <3>4, <3>5 DEF Holds
    <2> QED
      BY <2>2, <2>3
  <1> QED
    BY <1>4, <1>5

\* What the noise leaves is a set.
LEMMA NoiseIsSet ==
  ASSUME NEW policy, IsPolicy(policy), NEW noise \in NoiseStates(policy)
  PROVE  IsSet(policy, noise)
  <1> DEFINE lines == {[w \in Positions(policy) |-> 0 - w - 1]}
             roots == IF policy.kind = "huplru" THEN {0, 1} ELSE {0}
             leaves == IF policy.kind = "huplru" THEN [{0, 1} -> {0, 1}]
                       ELSE {[side \in {0, 1} |-> 0]}
  <1>1. noise \in [line : lines, root : roots, leaf : leaves]
    BY DEF NoiseStates
  <1>2. \A line \in lines : DOMAIN line = Positions(policy)
    OBVIOUS
  <1>3. roots \subseteq {0, 1}
    OBVIOUS
  <1>4. leaves \subseteq [{0, 1} -> {0, 1}]
    OBVIOUS
  <1> HIDE DEF lines, roots, leaves
  <1>5. DOMAIN noise = {"line", "root", "leaf"}
    BY <1>1
  <1>6. noise.line \in lines /\ noise.root \in roots /\ noise.leaf \in leaves
    BY <1>1
  <1> QED
    BY <1>2, <1>3, <1>4, <1>5, <1>6 DEF IsSet

Different(walk, n) == \A i, j \in 1 .. n : walk[i] = walk[j] => i = j

\* The states of a set whose lines are looked up one after the other.
Touching(policy, start, walk, n, at) ==
  at[0] = start /\ \A k \in 1 .. n : at[k] = Touch(policy, at[k - 1], walk[k][1])

\* The pages of a walk that are all different reach the set, one after the other.
LEMMA DistinctWalk ==
  ASSUME NEW policy, NEW start, NEW S, NEW walk \in Seq(S),
         NEW n, n = Len(walk), Different(walk, n)
  PROVE  \E at : Touching(policy, start, walk, n, at) /\ AfterWalk(policy, start, walk) = at[n]
  <1>1. n = Len(walk)
    OBVIOUS
  <1>2. n \in Nat /\ DOMAIN walk = 1 .. n
    BY <1>1
  <1>3. PICK at : /\ Runs([of |-> "walk", policy |-> policy], [tlb |-> {}, set |-> start], walk, n, at)
                  /\ AfterWalk(policy, start, walk) = at[n].set
    BY ONLY <1>2, WalkFold
  <1>4. /\ at[0] = [tlb |-> {}, set |-> start]
        /\ \A k \in 1 .. n :
             at[k] = IF walk[k] \in at[k - 1].tlb THEN at[k - 1]
                     ELSE [tlb |-> at[k - 1].tlb \cup {walk[k]},
                           set |-> Touch(policy, at[k - 1].set, walk[k][1])]
    BY <1>3 DEF Runs, Step
  <1> DEFINE Good(a, k) == a.tlb = {walk[i] : i \in 1 .. k}
             T == {k \in 0 .. n : ~ Good(at[k], k)}
  <1>5. Good(at[0], 0)
    BY <1>4
  <1>6. ASSUME NEW k \in 1 .. n, Good(at[k - 1], k - 1)
        PROVE  /\ Good(at[k], k)
               /\ at[k].set = Touch(policy, at[k - 1].set, walk[k][1])
    <2>1. walk[k] \notin at[k - 1].tlb
      <3>1. \A i \in 1 .. k - 1 : walk[i] # walk[k]
        BY <1>1, <1>2 DEF Different
      <3> QED
        BY <1>6, <3>1
    <2>2. /\ at[k].tlb = at[k - 1].tlb \cup {walk[k]}
          /\ at[k].set = Touch(policy, at[k - 1].set, walk[k][1])
      <3>1. PICK after, seen : /\ after = Touch(policy, at[k - 1].set, walk[k][1])
                               /\ seen = at[k - 1].tlb \cup {walk[k]}
        OBVIOUS
      <3>2. at[k] = [tlb |-> seen, set |-> after]
        BY <1>4, <2>1, <3>1
      <3> QED
        BY <3>1, <3>2
    <2>3. 1 .. k = (1 .. k - 1) \cup {k}
      BY <1>2
    <2> QED
      BY <1>6, <2>2, <2>3
  <1>7. T = {}
    <2> SUFFICES ASSUME T # {} PROVE FALSE
      OBVIOUS
    <2>1. PICK k \in T : \A j \in T : k <= j
      <3>1. T \in SUBSET Nat
        BY <1>2
      <3> HIDE DEF T
      <3> QED
        BY <3>1, Minimum
    <2>2. k \in 1 .. n
      BY <1>2, <1>5, <2>1
    <2>3. k - 1 \in 0 .. n /\ ~ (k <= k - 1)
      BY <1>2, <2>2
    <2>4. Good(at[k - 1], k - 1)
      BY <2>1, <2>3
    <2> QED
      BY <1>6, <2>1, <2>2, <2>4
  <1> DEFINE sets == [k \in 0 .. n |-> at[k].set]
  <1>8. ASSUME NEW k \in 1 .. n PROVE sets[k] = Touch(policy, sets[k - 1], walk[k][1])
    <2>1. k - 1 \in 0 .. n /\ k \in 0 .. n
      BY <1>2
    <2>2. Good(at[k - 1], k - 1)
      BY <1>7, <2>1
    <2> QED
      BY <1>6, <2>1, <2>2
  <1>9. sets[0] = start /\ sets[n] = at[n].set
    BY <1>2, <1>4
  <1> HIDE DEF sets
  <1>10. Touching(policy, start, walk, n, sets)
    BY <1>8, <1>9 DEF Touching
  <1> QED
    BY <1>3, <1>9, <1>10

\* The last of the pages a walk reads, all of them different, is held after it.
LEMMA LastSurvives ==
  ASSUME NEW policy, IsPolicy(policy), NEW noise \in NoiseStates(policy),
         NEW S, NEW walk \in Seq(S), walk # <<>>,
         \A i, j \in 1 .. Len(walk) : walk[i] = walk[j] => i = j
  PROVE  Survives(policy, noise, walk, walk[Len(walk)][1])
  <1>1. PICK n : n = Len(walk)
    OBVIOUS
  <1>2. n \in Nat /\ n # 0
    BY <1>1
  <1>3. PICK at : Touching(policy, noise, walk, n, at) /\ AfterWalk(policy, noise, walk) = at[n]
    <2>1. Different(walk, n)
      BY <1>1 DEF Different
    <2> QED
      BY <1>1, <2>1, DistinctWalk
  <1>4. \A k \in 0 .. n - 1 : IsSet(policy, at[k])
    <2> DEFINE T == {k \in 0 .. n - 1 : ~ IsSet(policy, at[k])}
    <2> SUFFICES ASSUME T # {} PROVE FALSE
      OBVIOUS
    <2>1. PICK k \in T : \A j \in T : k <= j
      <3>1. T \in SUBSET Nat
        BY <1>2
      <3> HIDE DEF T
      <3> QED
        BY <3>1, Minimum
    <2>2. k # 0
      BY <1>3, <2>1, NoiseIsSet DEF Touching
    <2>3. k \in 1 .. n /\ k - 1 \in 0 .. n - 1 /\ ~ (k <= k - 1)
      BY <1>2, <2>1, <2>2
    <2>4. IsSet(policy, at[k - 1])
      BY <2>1, <2>3
    <2> QED
      BY <1>3, <2>1, <2>3, <2>4, TouchHolds DEF Touching
  <1>5. n \in 1 .. n /\ n - 1 \in 0 .. n - 1
    BY <1>2
  <1>6. Holds(at[n], walk[n][1])
    BY <1>3, <1>4, <1>5, TouchHolds DEF Touching
  <1> QED
    BY <1>1, <1>3, <1>6 DEF Survives

--------------------------------------------------------------------------------
(* The first query of a trigger *)

\* A letter is measured only if there is one.
LEMMA SomeLetter ==
  ASSUME query \in Seq(Nat), letter \in Nat \ {0}, letter <= Len(UniqueLetters(query))
  PROVE  Len(query) # 0
  <1>1. PICK u : u = UniqueLetters(query)
    OBVIOUS
  <1>2. u \in Seq(Nat) /\ ToSet(u) = ToSet(query)
    BY <1>1, UniqueLettersAre
  <1>3. Len(u) \in Nat /\ 1 \in 1 .. Len(u)
    BY <1>1, <1>2
  <1>4. u[1] \in ToSet(query)
    <2>1. DOMAIN u = 1 .. Len(u)
      BY <1>2
    <2>2. u[1] \in ToSet(u)
      BY <1>3, <2>1 DEF ToSet
    <2> QED
      BY <1>2, <2>2
  <1> QED
    BY <1>4 DEF ToSet

\* The chain leads through all pages, and the letter's prefix-aligned page is
\* none of them.
LEMMA ChainIsWhole ==
  ASSUME PagesApart, ChainKept, Len(query) # 0,
         \A n \in DOMAIN Pages : IsMapped(Pages[n]),
         NEW kept \in {<<tlb, stale>>, <<{}, stale>>, <<tlb, {}>>}
  PROVE  LET written == ChainWritten(kept[1], kept[2])
         IN  /\ ChaseTo(written, Pages[1], PrefixPage) = Pages
             /\ Pages # <<>>
             /\ DOMAIN written = ToSet(Pages)
             /\ \A n \in DOMAIN Pages : n < Len(Pages) => written[Pages[n]] = Pages[n + 1]
  <1>1. PICK n : n = Len(query)
    OBVIOUS
  <1>2. n \in Nat /\ n # 0 /\ DOMAIN map = 1 .. n
    BY <1>1 DEF PagesApart
  <1>3. PICK pages : pages = Pages
    OBVIOUS
  <1>4. /\ pages \in Seq(Nat \X Nat) /\ Len(pages) = n /\ DOMAIN pages = 1 .. n
        /\ \A i \in 1 .. n : pages[i] = map[i].page
    BY <1>2, <1>3 DEF Pages, PagesApart
  <1>5. \A i, j \in 1 .. n : pages[i] = pages[j] => i = j
    BY ZenonT(30), <1>2, <1>4 DEF PagesApart
  <1>6. PICK end : end = PrefixPage
    OBVIOUS
  <1>7. end \notin ToSet(pages)
    <2> SUFFICES ASSUME NEW i \in 1 .. n, pages[i] = end PROVE FALSE
      BY <1>4 DEF ToSet
    <2>1. map[i].page = <<TargetPage[1], 511>>
      BY <1>4, <1>6 DEF PrefixPage
    <2>2. map[i].page[2] = 511
      BY <2>1
    <2>3. \E m \in DOMAIN map : map[m].page = <<map[i].page[1], map[i].page[2] - 1>>
      <3>1. i \in DOMAIN map /\ map[i].page[2] > 0
        BY <1>2, <2>2
      <3> QED
        BY <3>1 DEF PagesApart
    <2>4. PICK m \in 1 .. n : map[m].page = <<map[i].page[1], 510>>
      BY <1>2, <2>2, <2>3
    <2>5. pages[m][2] = 510
      BY <1>4, <2>4
    <2>6. IsMapped(pages[m])
      BY <1>3, <1>4
    <2> QED
      BY <2>5, <2>6, QueryAssumption DEF IsMapped
  <1>8. ASSUME NEW i \in 1 .. n PROVE LastUse(pages[i]) = i
    <2>1. {j \in DOMAIN Pages : Pages[j] = pages[i]} = {i}
      BY <1>3, <1>4, <1>5
    <2>2. \A x \in {i} : \A y \in {i} : x >= y
      BY <1>2
    <2>3. Max({i}) = i
      BY <2>2 DEF Max
    <2> QED
      BY <2>1, <2>3 DEF LastUse
  <1>9. PICK mem : mem = ChainWritten(kept[1], kept[2])
    OBVIOUS
  <1> DEFINE landed == {q \in ToSet(pages) : Lands(q, kept[1], kept[2])}
  <1>10. mem = [pg \in landed \cup DOMAIN memory |->
                  IF pg \notin landed THEN memory[pg]
                  ELSE IF LastUse(pg) = Len(pages) THEN end ELSE pages[LastUse(pg) + 1]]
    BY <1>3, <1>6, <1>9 DEF ChainWritten
  <1>11. ASSUME NEW i \in 1 .. n, pages[i] \notin landed
         PROVE  i < n /\ pages[i] \in DOMAIN memory /\ memory[pages[i]] = pages[i + 1]
    <2>1. pages[i] \in ToSet(pages)
      BY <1>4 DEF ToSet
    <2>2. pages[i][1] \in stale
      BY <1>11, <2>1 DEF Lands
    <2> QED
      BY <1>3, <1>4, <2>2 DEF ChainKept
  <1>12. DOMAIN memory \subseteq ToSet(pages)
    BY <1>3 DEF ChainKept
  <1>13. \A pg \in ToSet(pages) : \E i \in 1 .. n : pg = pages[i]
    BY <1>4 DEF ToSet
  <1>14. \A i \in 1 .. n : pages[i] \in ToSet(pages)
    BY <1>4 DEF ToSet
  <1>15. landed \subseteq ToSet(pages)
    OBVIOUS
  <1> HIDE DEF landed
  <1>16. DOMAIN mem = ToSet(pages)
    <2>1. DOMAIN mem = landed \cup DOMAIN memory
      BY <1>10
    <2>2. ToSet(pages) \subseteq landed \cup DOMAIN memory
      BY <1>11, <1>13
    <2> QED
      BY <1>12, <1>15, <2>1, <2>2
  <1>17. ASSUME NEW i \in 1 .. n
         PROVE  mem[pages[i]] = IF i = Len(pages) THEN end ELSE pages[i + 1]
    <2>1. pages[i] \in landed \cup DOMAIN memory
      BY <1>11
    <2>2. CASE pages[i] \in landed
      BY <1>8, <1>10, <2>1, <2>2
    <2>3. CASE pages[i] \notin landed
      <3>1. mem[pages[i]] = memory[pages[i]]
        BY <1>10, <2>1, <2>3
      <3> QED
        BY <1>4, <1>11, <2>3, <3>1
    <2> QED
      BY <2>2, <2>3
  <1>18. pages # <<>>
    BY <1>2, <1>4
  <1>19. ChaseTo(mem, pages[1], end) = pages
    <2>1. \A i, j \in 1 .. Len(pages) : pages[i] = pages[j] => i = j
      BY <1>4, <1>5
    <2>2. \A i \in 1 .. Len(pages) : mem[pages[i]] = IF i = Len(pages) THEN end ELSE pages[i + 1]
      BY <1>4, <1>17
    <2> QED
      BY <1>4, <1>7, <1>16, <1>18, <2>1, <2>2, ChaseFollows
  <1>20. ASSUME NEW i \in 1 .. n, i < Len(pages) PROVE mem[pages[i]] = pages[i + 1]
    <2>1. i # Len(pages)
      BY <1>2, <1>4, <1>20
    <2> QED
      BY <1>17, <2>1
  <1>21. /\ ChaseTo(mem, pages[1], end) = pages /\ pages # <<>> /\ DOMAIN mem = ToSet(pages)
         /\ \A i \in DOMAIN pages : i < Len(pages) => mem[pages[i]] = pages[i + 1]
    BY <1>4, <1>16, <1>18, <1>19, <1>20
  <1> QED
    BY Zenon, <1>3, <1>6, <1>9, <1>21

\* What a letter leaves stale is not the last page's region, whose entry the
\* walk used last.
LEMMA MeasuringKeepsChain ==
  ASSUME LateInv, machine = host.lower, letter \in Nat \ {0}, PagesApart, ChainKept, MeasureLetter
  PROVE  asking' = "letters" /\ letter' \in Nat \ {0} /\ PagesApart' /\ ChainKept'
  <1>1. IsPolicy(machine.policy)
    BY SessionAssumption DEF LateInv
  <1>2. Len(query) # 0
    BY SomeLetter DEF PagesApart, MeasureLetter
  <1>3. /\ UNCHANGED <<machine, query, map, asked>> /\ asking = "letters"
        /\ \A n \in DOMAIN Pages : IsMapped(Pages[n])
    BY DEF MeasureLetter
  <1>4. PICK kept \in {<<tlb, stale>>, <<{}, stale>>, <<tlb, {}>>},
             noise \in NoiseStates(machine.policy) :
          LET written == ChainWritten(kept[1], kept[2])
              walk == ChaseTo(written, Pages[1], PrefixPage)
          IN  walk # <<>> =>
                /\ memory' = written /\ letter' = letter + 1 /\ asking' = asking
                /\ stale' = IF ~ Survives(machine.policy, noise, walk, TargetPage[1])
                            THEN {TargetPage[1]} ELSE {}
    BY DEF MeasureLetter
  <1>5. PICK written : written = ChainWritten(kept[1], kept[2])
    OBVIOUS
  <1>6. /\ ChaseTo(written, Pages[1], PrefixPage) = Pages /\ Pages # <<>>
        /\ DOMAIN written = ToSet(Pages)
        /\ \A n \in DOMAIN Pages : n < Len(Pages) => written[Pages[n]] = Pages[n + 1]
    BY <1>2, <1>3, <1>5, ChainIsWhole
  <1>7. PICK target : target = TargetPage[1]
    OBVIOUS
  <1>8. /\ memory' = written /\ letter' = letter + 1 /\ asking' = asking
        /\ stale' = IF ~ Survives(machine.policy, noise, Pages, target) THEN {target} ELSE {}
    BY <1>4, <1>5, <1>6, <1>7
  <1>9. PICK pages : pages = Pages
    OBVIOUS
  <1>10. /\ pages \in Seq(Nat \X Nat) /\ DOMAIN pages = 1 .. Len(pages) /\ Len(pages) \in Nat
         /\ \A i, j \in 1 .. Len(pages) : pages[i] = pages[j] => i = j
    <2>1. PICK n : n = Len(query)
      OBVIOUS
    <2>2. n \in Nat /\ DOMAIN map = 1 .. n
      BY <2>1 DEF PagesApart
    <2>3. /\ pages \in Seq(Nat \X Nat) /\ Len(pages) = n /\ DOMAIN pages = 1 .. n
          /\ \A i \in 1 .. n : pages[i] = map[i].page
      BY <1>9, <2>2 DEF Pages, PagesApart
    <2>4. \A i, j \in 1 .. n : pages[i] = pages[j] => i = j
      BY ZenonT(30), <2>2, <2>3 DEF PagesApart
    <2> QED
      BY <2>2, <2>3, <2>4
  <1>11. Survives(machine.policy, noise, pages, pages[Len(pages)][1])
    BY <1>1, <1>6, <1>9, <1>10, LastSurvives
  <1>12. ASSUME NEW n \in DOMAIN pages, pages[n][1] \in stale' PROVE n < Len(pages)
    <2>1. pages[n][1] = target /\ ~ Survives(machine.policy, noise, pages, target)
      BY <1>8, <1>9, <1>12
    <2>2. n # Len(pages)
      BY <1>11, <2>1
    <2> QED
      BY <1>10, <2>2
  <1>13. Pages' = Pages
    BY <1>3 DEF Pages
  <1>14. ASSUME NEW n \in DOMAIN pages, n < Len(pages)
         PROVE  pages[n] \in DOMAIN written /\ written[pages[n]] = pages[n + 1]
    BY <1>6, <1>9, <1>14 DEF ToSet
  <1>15. ChainKept'
    <2>1. DOMAIN memory' = ToSet(pages)
      BY <1>6, <1>8, <1>9
    <2>2. ChainKept' = /\ DOMAIN memory' \subseteq ToSet(pages)
                       /\ \A n \in DOMAIN pages : pages[n][1] \in stale' =>
                            n < Len(pages) /\ pages[n] \in DOMAIN memory'
                              /\ memory'[pages[n]] = pages[n + 1]
      BY <1>9, <1>13 DEF ChainKept
    <2> QED
      BY <1>8, <1>12, <1>14, <2>1, <2>2
  <1>16. PagesApart'
    BY <1>3 DEF PagesApart
  <1> QED
    BY <1>3, <1>8, <1>15, <1>16

LEMMA QueryStart ==
  ASSUME Init
  PROVE  QueryInv /\ ~ (asking = "lost")
  BY DEF Init, QueryInit, QueryInv

\* The first query is lost only on a page that is not mapped.
LossExplained == asking = "lost" /\ asked = 1 => \E n \in DOMAIN Pages : ~ IsMapped(Pages[n])

LEMMA QueryIsInvariant ==
  ASSUME LateInv, QueryInv, LossExplained, [Next]_sessionVars
  PROVE  QueryInv' /\ LossExplained'
  <1> USE DEF QueryInv, LossExplained
  <1>1. CASE UNCHANGED queryVars /\ host' = host
    <2>1. /\ Pages' = Pages /\ PagesApart' = PagesApart /\ ChainKept' = ChainKept
          /\ \A pg : IsMapped(pg)' = IsMapped(pg)
      BY <1>1 DEF queryVars, Pages, PagesApart, ChainKept, IsMapped
    <2> QED
      BY <1>1, <2>1 DEF queryVars
  <1>2. CASE Query
    <2>1. host' = host /\ machine' = machine /\ machine = host.lower
      BY <1>2 DEF Query, lateVars, ReadQuery, QueryStep, QueryFaults, MeasureLetter, ReturnState
    <2>2. ASSUME NEW text \in Texts, NEW start \in QueryStarts, ReadQuery(text, start)
          PROVE  QueryInv' /\ LossExplained'
      <3>1. /\ query' = text /\ map' = AddressMap(text, start) /\ letter' = 1
            /\ asked' = asked + 1 /\ asking' = "letters" /\ asking = "idle"
            /\ memory' = memory /\ stale' = stale
        BY <2>2 DEF ReadQuery
      <3>2. text \in Seq(Nat) /\ start \in Nat
        BY SessionAssumption
      <3>3. PagesApart'
        <4>1. PICK entries_ : entries_ = AddressMap(text, start)
          OBVIOUS
        <4>2. Apart(entries_, start) /\ Len(entries_) = Len(text)
          BY <3>2, <4>1, MapIsApart
        <4>3. /\ DOMAIN entries_ = 1 .. Len(entries_)
              /\ \A n \in DOMAIN entries_ : entries_[n].page \in Nat \X Nat
              /\ \A m, n \in DOMAIN entries_ : entries_[m].page = entries_[n].page => m = n
              /\ \A n \in DOMAIN entries_ : entries_[n].page[2] > 0 =>
                   \E m \in DOMAIN entries_ :
                     entries_[m].page = <<entries_[n].page[1], entries_[n].page[2] - 1>>
          BY <3>2, <4>2, ApartPages
        <4> QED
          BY <3>1, <3>2, <4>1, <4>2, <4>3 DEF PagesApart
      <3>4. asked' = 1 => ChainKept'
        <4> SUFFICES ASSUME asked' = 1 PROVE ChainKept'
          OBVIOUS
        <4>1. asked = 0
          BY <3>1
        <4>2. DOMAIN memory' = {} /\ stale' = {}
          BY <3>1, <4>1
        <4> QED
          BY <4>2 DEF ChainKept
      <3> QED
        BY <2>1, <3>1, <3>3, <3>4
    <2>3. CASE QueryFaults
      <3>1. PICK n \in DOMAIN Pages : ~ IsMapped(Pages[n])
        BY <2>3 DEF QueryFaults
      <3>2. Pages' = Pages /\ asked' = asked /\ asking' = "lost" /\ asking = "letters"
        BY <2>3 DEF QueryFaults, Pages
      <3>3. n \in DOMAIN Pages' /\ ~ IsMapped(Pages[n])'
        BY <2>1, <3>1, <3>2 DEF IsMapped
      <3> QED
        BY <2>1, <3>2, <3>3
    <2>4. CASE MeasureLetter
      <3>1. asked' = asked /\ asking = "letters"
        BY <2>4 DEF MeasureLetter
      <3>2. asked # 0
        BY <3>1
      <3>3. asked = 1 => /\ asking' = "letters" /\ letter' \in Nat \ {0}
                         /\ PagesApart' /\ ChainKept'
        BY <2>1, <2>4, <3>1, MeasuringKeepsChain
      <3> QED
        BY <2>1, <3>1, <3>2, <3>3
    <2>5. CASE ReturnState
      <3>1. asked' = asked /\ asking' = "idle" /\ asking = "letters"
        BY <2>5 DEF ReturnState
      <3> QED
        BY <2>1, <3>1
    <2> QED
      BY <1>2, <2>2, <2>3, <2>4, <2>5 DEF Query, QueryStep
  <1>3. CASE SetupLevels \/ EvaluateReplacementPolicy \/ UNCHANGED sessionVars
    BY <1>1, <1>3 DEF SetupLevels, EvaluateReplacementPolicy, sessionVars, lateVars
  <1>4. CASE LateEvaluations
    <2>1. host' = host
      BY <1>4 DEF LateEvaluations, LateStep, BeginLate, PrimeTarget, ChaseOrSwitchPcids,
                  ProbeTarget, OneMorePcid, ReturnVerdict
    <2> QED
      BY <1>1, <1>4, <2>1 DEF LateEvaluations
  <1>5. CASE StartCacheQuery
    BY <1>1, <1>5 DEF StartCacheQuery
  <1> QED
    BY <1>2, <1>3, <1>4, <1>5 DEF Next

--------------------------------------------------------------------------------
(* The set of a permutation policy while it is measured *)

Permutes(policy) == IsPolicy(policy) /\ policy.kind = "permutation"

LEMMA TouchMiss ==
  ASSUME NEW policy, Permutes(policy), NEW set, IsSet(policy, set), NEW x, ~ Holds(set, x)
  PROVE  Touch(policy, set, x).line =
           [w \in Positions(policy) |-> IF w = 0 THEN x ELSE set.line[w - 1]]
  <1>1. PICK line : line = [w \in Positions(policy) |-> IF w = 0 THEN x ELSE set.line[w - 1]]
    OBVIOUS
  <1>2. Touch(policy, set, x) = [set EXCEPT !.line = line]
    BY <1>1 DEF Touch, Permutes, IsSet
  <1>3. "line" \in DOMAIN set
    BY DEF IsSet
  <1> QED
    BY <1>1, <1>2, <1>3

\* The line has x at this way only.
IsAt(policy, set, x, way) ==
  way \in Positions(policy) /\ \A w \in Positions(policy) : set.line[w] = x <=> w = way

LEMMA TouchHit ==
  ASSUME NEW policy, Permutes(policy), NEW set, IsSet(policy, set), NEW x,
         NEW way, IsAt(policy, set, x, way)
  PROVE  Touch(policy, set, x).line =
           [w \in Positions(policy) |-> set.line[policy.vectors[way][w]]]
  <1>1. PICK line : line = [w \in Positions(policy) |-> set.line[policy.vectors[way][w]]]
    OBVIOUS
  <1>2. WayOf(set, x) = way /\ Holds(set, x)
    BY DEF WayOf, Holds, IsSet, IsAt
  <1>3. Touch(policy, set, x) = [set EXCEPT !.line = line]
    BY <1>1, <1>2 DEF Touch, Permutes, IsSet
  <1>4. "line" \in DOMAIN set
    BY DEF IsSet
  <1> QED
    BY <1>1, <1>3, <1>4

\* The lines of a set after n + 1 new members, start first, have come into it.
Filled(policy, line, start, n) ==
  [w \in Positions(policy) |-> IF w <= n THEN start + n - w ELSE line[w - n - 1]]

\* All lines come before start; the pages read are start twice and its successors.
Before(policy, set, start) ==
  IsSet(policy, set) /\ \A w \in Positions(policy) : set.line[w] \in Int /\ set.line[w] < start
Ascending(member, start, n) == member[1] = start /\ \A k \in 0 .. n : member[k + 2] = start + k
Reads(policy, at, from, n, member) ==
  \A k \in 1 .. n + 2 : at[from + k] = Touch(policy, at[from + k - 1], member[k])

\* A start that is touched twice, and the members after it, push out the last lines.
LEMMA FillsUp ==
  ASSUME NEW policy, Permutes(policy), FirstHitKeeps(policy),
         NEW at, NEW from \in Nat, NEW start \in Nat, NEW n \in Positions(policy), NEW member,
         Before(policy, at[from], start), Ascending(member, start, n),
         Reads(policy, at, from, n, member)
  PROVE  /\ IsSet(policy, at[from + n + 2])
         /\ at[from + n + 2].line = Filled(policy, at[from].line, start, n)
  <1>1. PICK line, ways : line = at[from].line /\ ways = policy.ways
    OBVIOUS
  <1>2. ways \in Nat /\ ways # 0 /\ Positions(policy) = 0 .. ways - 1 /\ n \in 0 .. ways - 1
    BY <1>1 DEF Permutes, IsPolicy, Positions
  <1>3. \A w \in 0 .. ways - 1 : line[w] \in Int /\ line[w] < start
    BY <1>1, <1>2 DEF Before
  <1>0. /\ \A k \in 1 .. n + 2 : at[from + k] = Touch(policy, at[from + k - 1], member[k])
        /\ member[1] = start /\ \A k \in 0 .. n : member[k + 2] = start + k
        /\ IsSet(policy, at[from])
    BY DEF Before, Ascending, Reads
  <1> DEFINE Good(j) == /\ IsSet(policy, at[from + j + 2])
                        /\ at[from + j + 2].line = Filled(policy, line, start, j)
             T == {j \in 0 .. n : ~ Good(j)}
  <1>4. Good(0)
    <2>1. at[from + 1] = Touch(policy, at[from], start)
      <3>1. from + 1 - 1 = from /\ 1 \in 1 .. n + 2
        BY <1>2
      <3> QED
        BY <1>0, <3>1
    <2>2. ~ Holds(at[from], start)
      BY <1>1, <1>2, <1>3, <1>0 DEF Holds, IsSet
    <2>3. IsSet(policy, at[from + 1])
      BY <1>0, <2>1, TouchHolds DEF Permutes
    <2>4. at[from + 1].line = [w \in Positions(policy) |-> IF w = 0 THEN start ELSE line[w - 1]]
      BY <1>1, <1>0, <2>1, <2>2, TouchMiss
    <2>5. at[from + 1].line = Filled(policy, line, start, 0)
      <3>1. \A w \in Positions(policy) :
              (IF w <= 0 THEN start + 0 - w ELSE line[w - 0 - 1]) = IF w = 0 THEN start ELSE line[w - 1]
        BY <1>2
      <3> QED
        BY <2>4, <3>1 DEF Filled
    <2>6. at[from + 2] = Touch(policy, at[from + 1], start)
      <3>1. from + 2 - 1 = from + 1 /\ 2 \in 1 .. n + 2 /\ 0 \in 0 .. n /\ 0 + 2 = 2 /\ start + 0 = start
        BY <1>2
      <3> QED
        BY <1>0, <3>1
    <2>7. IsSet(policy, at[from + 2])
      BY <2>3, <2>6, TouchHolds DEF Permutes
    <2>8. \A w \in Positions(policy) : at[from + 1].line[w] = start <=> w = 0
      BY <1>2, <1>3, <2>4
    <2>9. IsAt(policy, at[from + 1], start, 0)
      BY <1>2, <2>8 DEF IsAt
    <2>10. at[from + 2].line = [w \in Positions(policy) |-> at[from + 1].line[policy.vectors[0][w]]]
      BY <2>3, <2>6, <2>9, TouchHit
    <2>11. at[from + 2].line = [w \in Positions(policy) |-> at[from + 1].line[w]]
      BY <2>10 DEF FirstHitKeeps
    <2>12. at[from + 2].line = Filled(policy, line, start, 0)
      BY <2>4, <2>5, <2>11
    <2> QED
      BY <2>7, <2>12
  <1>5. ASSUME NEW j \in 0 .. n, j # 0, Good(j - 1) PROVE Good(j)
    <2>1. PICK before, after : before = at[from + j + 1] /\ after = at[from + j + 2]
      OBVIOUS
    <2>2. after = Touch(policy, before, start + j)
      <3>1. j + 2 \in 1 .. n + 2 /\ from + (j + 2) = from + j + 2 /\ from + (j + 2) - 1 = from + j + 1
        BY <1>2
      <3> QED
        BY <1>0, <2>1, <3>1
    <2>3. IsSet(policy, before) /\ before.line = Filled(policy, line, start, j - 1)
      <3>1. from + (j - 1) + 2 = from + j + 1
        BY <1>2
      <3> QED
        BY <1>5, <2>1, <3>1
    <2>4. ASSUME NEW w \in Positions(policy) PROVE before.line[w] # start + j
      <3>1. w \in 0 .. ways - 1 /\ j \in 1 .. n /\ n \in 0 .. ways - 1 /\ ways \in Nat
        BY <1>2, <1>5
      <3>2. before.line[w] = IF w <= j - 1 THEN start + (j - 1) - w ELSE line[w - (j - 1) - 1]
        BY <2>3 DEF Filled
      <3>3. CASE w <= j - 1
        BY <3>1, <3>2, <3>3
      <3>4. CASE ~ (w <= j - 1)
        <4>1. w - (j - 1) - 1 \in 0 .. ways - 1
          BY <3>1, <3>4
        <4>2. line[w - (j - 1) - 1] \in Int /\ line[w - (j - 1) - 1] < start
          BY <1>3, <4>1
        <4> QED
          BY <3>1, <3>2, <3>4, <4>2
      <3> QED
        BY <3>3, <3>4
    <2>5. ~ Holds(before, start + j)
      BY <2>3, <2>4 DEF Holds, IsSet
    <2>6. IsSet(policy, after)
      BY <2>2, <2>3, TouchHolds DEF Permutes
    <2>7. after.line = [w \in Positions(policy) |-> IF w = 0 THEN start + j ELSE before.line[w - 1]]
      BY <2>2, <2>3, <2>5, TouchMiss
    <2>8. \A w \in Positions(policy) :
            after.line[w] = (IF w <= j THEN start + j - w ELSE line[w - j - 1])
      <3> TAKE w \in Positions(policy)
      <3>1. CASE w = 0
        BY <1>2, <2>7, <3>1
      <3>2. CASE w # 0
        <4>1. w - 1 \in Positions(policy) /\ after.line[w] = before.line[w - 1]
          BY <1>2, <2>7, <3>2
        <4>2. before.line[w - 1] =
                (IF w - 1 <= j - 1 THEN start + (j - 1) - (w - 1) ELSE line[(w - 1) - (j - 1) - 1])
          BY <2>3, <4>1 DEF Filled
        <4>3. (w - 1 <= j - 1 <=> w <= j) /\ start + (j - 1) - (w - 1) = start + j - w
              /\ (w - 1) - (j - 1) - 1 = w - j - 1
          BY <1>2
        <4> QED
          BY <4>1, <4>2, <4>3
      <3> QED
        BY <3>1, <3>2
    <2>9. after.line = Filled(policy, line, start, j)
      BY <2>7, <2>8 DEF Filled
    <2> QED
      BY <2>1, <2>6, <2>9
  <1>6. T = {}
    <2> SUFFICES ASSUME T # {} PROVE FALSE
      OBVIOUS
    <2>1. PICK j \in T : \A m \in T : j <= m
      <3>1. T \in SUBSET Nat
        BY <1>2
      <3> HIDE DEF T
      <3> QED
        BY <3>1, Minimum
    <2>2. j \in 0 .. n /\ j # 0 /\ ~ Good(j)
      BY <1>4, <2>1
    <2>3. j - 1 \in 0 .. n /\ ~ (j <= j - 1)
      BY <1>2, <2>2
    <2>4. Good(j - 1)
      BY <2>1, <2>3
    <2> QED
      BY <1>5, <2>2, <2>4
  <1>7. n \in 0 .. n /\ Good(n)
    BY <1>2, <1>6
  <1> QED
    BY <1>1, <1>7

Joins(a, m, b, n, both) ==
  /\ Len(both) = m + n
  /\ \A k \in 1 .. m : both[k] = a[k]
  /\ \A k \in 1 .. n : both[m + k] = b[k]

LEMMA Joined ==
  ASSUME NEW S, NEW a \in Seq(S), NEW b \in Seq(S)
  PROVE  a \o b \in Seq(S) /\ Joins(a, Len(a), b, Len(b), a \o b)
  BY DEF Joins

IsChain(start, length, pages) ==
  /\ pages \in Seq(Int \X Nat) /\ Len(pages) = length + 2
  /\ pages[1] = <<start, 0>> /\ pages[2] = <<start, 1>>
  /\ \A k \in 1 .. length : pages[k + 2] = <<start + k, 0>>

\* A chain of mapped members: the start twice, then its successors.
LEMMA ChainPages ==
  ASSUME NEW start \in Nat, NEW length \in Nat, cache.reach \in Nat, start + length < cache.reach,
         NEW pages, pages = ChainFromHashSingle(start, length)
  PROVE  IsChain(start, length, pages)
  <1>1. {o \in 1 .. length : Mapped(start + o)} = 1 .. length
    BY DEF Mapped
  <1>2. Cardinality(1 .. length) = length
    <2>1. Cardinality(1 .. length) = IF 1 > length THEN 0 ELSE length - 1 + 1
      BY FS_Interval
    <2> QED
      BY <2>1
  <1>3. PICK first, rest : /\ first = <<<<start, 0>>, <<start, 1>>>>
                           /\ rest = [n \in 1 .. length |-> <<start + n, 0>>]
    OBVIOUS
  <1>4. pages = first \o rest
    BY <1>1, <1>2, <1>3 DEF ChainFromHashSingle
  <1>5. first \in Seq(Int \X Nat) /\ Len(first) = 2 /\ first[1] = <<start, 0>> /\ first[2] = <<start, 1>>
    BY <1>3
  <1>6. rest \in Seq(Int \X Nat) /\ Len(rest) = length
    BY <1>3
  <1>7. \A k \in 1 .. length : rest[k] = <<start + k, 0>>
    BY <1>3
  <1>8. pages \in Seq(Int \X Nat) /\ Joins(first, 2, rest, length, pages)
    <2>1. Joins(first, Len(first), rest, Len(rest), pages) /\ pages \in Seq(Int \X Nat)
      BY ONLY <1>4, <1>5, <1>6, Joined
    <2> QED
      BY <1>5, <1>6, <2>1
  <1>9. /\ pages[1] = first[1] /\ pages[2] = first[2] /\ Len(pages) = length + 2
        /\ \A k \in 1 .. length : pages[k + 2] = rest[k]
    BY <1>8 DEF Joins
  <1> QED
    BY <1>5, <1>7, <1>8, <1>9 DEF IsChain

\* The set's chain, which ends with the trigger of a permutation if there is one.
Measuring ==
  /\ Permutes(cache.policy) /\ FirstHitKeeps(cache.policy)
  /\ cache.reach \in Nat /\ cache.reach >= 2 * Ways
  /\ \/ vector = -1 /\ chain = ChainFromHashSingle(0, Ways - 1)
     \/ /\ vector \in Members /\ initial = [w \in Members |-> Ways - 1 - w]
        /\ chain = ChainFromHashSingle(0, Ways - 1) \o <<TriggerPage>>

SetPages(pages) ==
  /\ pages \in Seq(Int \X Nat)
  /\ pages[1] = <<0, 0>> /\ pages[2] = <<0, 1>>
  /\ \A k \in 1 .. Ways - 1 : pages[k + 2] = <<k, 0>>
  /\ \/ vector = -1 /\ Len(pages) = Ways + 1
     \/ /\ vector \in Members /\ Len(pages) = Ways + 2
        /\ pages[Ways + 2] = <<Ways - 1 - vector, 2>>

LEMMA MeasuringChain ==
  ASSUME Measuring
  PROVE  /\ Ways \in Nat /\ Ways # 0 /\ Positions(cache.policy) = 0 .. Ways - 1
         /\ SetPages(chain)
  <1>1. PICK ways : ways = Ways
    OBVIOUS
  <1>2. ways \in Nat /\ ways # 0 /\ Positions(cache.policy) = 0 .. ways - 1
    BY <1>1 DEF Measuring, Permutes, IsPolicy, Ways, Positions
  <1>3. PICK pages : pages = ChainFromHashSingle(0, ways - 1)
    OBVIOUS
  <1>4. /\ pages \in Seq(Int \X Nat) /\ Len(pages) = ways + 1
        /\ pages[1] = <<0, 0>> /\ pages[2] = <<0, 1>>
        /\ \A k \in 1 .. ways - 1 : pages[k + 2] = <<k, 0>>
    <2>1. PICK length : length = ways - 1
      OBVIOUS
    <2>2. 0 \in Nat /\ length \in Nat /\ cache.reach \in Nat /\ 0 + length < cache.reach
      BY <1>1, <1>2, <2>1 DEF Measuring
    <2>3. IsChain(0, length, pages)
      BY <1>3, <2>1, <2>2, ChainPages
    <2>4. /\ pages \in Seq(Int \X Nat) /\ Len(pages) = length + 2
          /\ pages[1] = <<0, 0>> /\ pages[2] = <<0, 1>>
          /\ \A k \in 1 .. length : pages[k + 2] = <<0 + k, 0>>
      BY <2>3 DEF IsChain
    <2>5. length + 2 = ways + 1
      BY <1>2, <2>1
    <2>6. \A k \in 1 .. length : 0 + k = k
      OBVIOUS
    <2> QED
      BY <2>1, <2>4, <2>5, <2>6
  <1>5. CASE vector = -1 /\ chain = pages
    BY <1>1, <1>2, <1>4, <1>5 DEF SetPages
  <1>6. CASE vector \in Members /\ initial = [w \in Members |-> Ways - 1 - w]
             /\ chain = pages \o <<TriggerPage>>
    <2>1. PICK page : page = TriggerPage
      OBVIOUS
    <2>2. page = <<ways - 1 - vector, 2>> /\ page \in Int \X Nat /\ vector \in 0 .. ways - 1
      BY <1>1, <1>2, <1>6, <2>1 DEF TriggerPage, Members
    <2>3. chain = pages \o <<page>> /\ <<page>> \in Seq(Int \X Nat) /\ Len(<<page>>) = 1
      BY <1>6, <2>1, <2>2
    <2>4. chain \in Seq(Int \X Nat) /\ Len(chain) = ways + 2
      BY <1>2, <1>4, <2>3
    <2>5. \A k \in 1 .. ways + 1 : chain[k] = pages[k]
      BY <1>2, <1>4, <2>3
    <2>6. chain[ways + 2] = page
      BY <1>2, <1>4, <2>3
    <2>7. 1 \in 1 .. ways + 1 /\ 2 \in 1 .. ways + 1 /\ \A k \in 1 .. ways - 1 : k + 2 \in 1 .. ways + 1
      BY <1>2
    <2>8. \A k \in 1 .. ways - 1 : chain[k + 2] = <<k, 0>>
      BY <1>4, <2>5, <2>7
    <2> QED
      BY <1>1, <1>2, <1>4, <1>6, <2>2, <2>4, <2>5, <2>6, <2>7, <2>8 DEF SetPages
  <1> QED
    BY <1>1, <1>2, <1>3, <1>5, <1>6 DEF Measuring

LEMMA VectorsAre ==
  ASSUME NEW policy, Permutes(policy)
  PROVE  /\ policy.vectors \in [Positions(policy) -> [Positions(policy) -> Positions(policy)]]
         /\ \A hit, v \in Positions(policy) : \E w \in Positions(policy) : policy.vectors[hit][w] = v
  <1>1. policy # Huplru
    <2>1. Huplru.kind = "huplru" /\ policy.kind = "permutation"
      BY DEF Huplru, Permutes
    <2> QED
      BY <2>1
  <1> QED
    BY <1>1 DEF Permutes, IsPolicy

\* The line that the set's chain leaves, trigger included.
LEMMA SetIsFilled ==
  ASSUME Measuring, NEW noise \in NoiseStates(cache.policy), NEW walk, NEW n \in Nat, NEW at,
         Touching(cache.policy, noise, walk, n, at), Len(chain) <= n,
         \A k \in 1 .. Len(chain) : walk[k] = chain[k]
  PROVE  /\ IsSet(cache.policy, at[Len(chain)])
         /\ at[Len(chain)].line = [w \in Positions(cache.policy) |-> MemberAt(w)]
  <1>1. PICK policy, ways : policy = cache.policy /\ ways = Ways
    OBVIOUS
  <1>2. /\ ways \in Nat /\ ways # 0 /\ Positions(policy) = 0 .. ways - 1
        /\ SetPages(chain) /\ Permutes(policy) /\ FirstHitKeeps(policy)
    BY <1>1, MeasuringChain DEF Measuring
  <1>3. IsSet(policy, noise) /\ noise.line = [w \in Positions(policy) |-> 0 - w - 1]
    <2>1. IsSet(policy, noise)
      BY <1>1, <1>2, NoiseIsSet DEF Permutes
    <2>2. noise.line \in {[w \in Positions(policy) |-> 0 - w - 1]}
      <3> DEFINE lines == {[w \in Positions(policy) |-> 0 - w - 1]}
                 roots == IF policy.kind = "huplru" THEN {0, 1} ELSE {0}
                 leaves == IF policy.kind = "huplru" THEN [{0, 1} -> {0, 1}]
                           ELSE {[side \in {0, 1} |-> 0]}
      <3>1. noise \in [line : lines, root : roots, leaf : leaves]
        BY <1>1 DEF NoiseStates
      <3> HIDE DEF lines, roots, leaves
      <3>2. noise.line \in lines
        BY <3>1
      <3> QED
        BY <3>2 DEF lines
    <2> QED
      BY <2>1, <2>2
  <1>4. PICK member : member = [k \in 1 .. ways + 1 |-> walk[k][1]]
    OBVIOUS
  <1>5. Len(chain) \in Nat /\ ways + 1 <= Len(chain)
    BY <1>1, <1>2 DEF SetPages
  <1>6. Reads(policy, at, 0, ways - 1, member)
    <2> SUFFICES ASSUME NEW k \in 1 .. ways - 1 + 2
                 PROVE  at[0 + k] = Touch(policy, at[0 + k - 1], member[k])
      BY DEF Reads
    <2>1. k \in 1 .. ways + 1 /\ k \in 1 .. n /\ 0 + k = k /\ 0 + k - 1 = k - 1
      BY <1>2, <1>5
    <2> QED
      BY <1>1, <1>4, <2>1 DEF Touching
  <1>7. Ascending(member, 0, ways - 1)
    <2>1. member[1] = 0
      <3>1. 1 \in 1 .. ways + 1 /\ 1 \in 1 .. Len(chain)
        BY <1>2, <1>5
      <3>2. walk[1] = chain[1] /\ member[1] = walk[1][1]
        BY <1>4, <3>1
      <3>3. chain[1] = <<0, 0>>
        BY <1>2 DEF SetPages
      <3> QED
        BY <3>2, <3>3
    <2>2. ASSUME NEW k \in 0 .. ways - 1 PROVE member[k + 2] = 0 + k
      <3>1. k + 2 \in 1 .. ways + 1 /\ k + 2 \in 1 .. Len(chain) /\ 0 + k = k
        BY <1>2, <1>5
      <3>2. member[k + 2] = chain[k + 2][1]
        BY <1>4, <3>1
      <3>3. CASE k = 0
        BY <1>2, <3>1, <3>2, <3>3 DEF SetPages
      <3>4. CASE k # 0
        <4>1. k \in 1 .. Ways - 1
          BY <1>1, <1>2, <3>4
        <4> QED
          BY <1>2, <3>1, <3>2, <4>1 DEF SetPages
      <3> QED
        BY <3>3, <3>4
    <2> QED
      BY <2>1, <2>2 DEF Ascending
  <1>8. Before(policy, at[0], 0)
    <2>1. at[0] = noise
      BY DEF Touching
    <2> QED
      BY <1>2, <1>3, <2>1 DEF Before
  <1>9. /\ IsSet(policy, at[ways + 1])
        /\ at[ways + 1].line = Filled(policy, noise.line, 0, ways - 1)
    <2>1. 0 \in Nat /\ ways - 1 \in Positions(policy) /\ 0 + (ways - 1) + 2 = ways + 1
      BY <1>2
    <2>2. at[0] = noise
      BY DEF Touching
    <2>3. PICK last, end : last = ways - 1 /\ end = ways + 1
      OBVIOUS
    <2>4. last \in Positions(policy) /\ 0 + last + 2 = end
      BY <2>1, <2>3
    <2>5. Reads(policy, at, 0, last, member) /\ Ascending(member, 0, last)
      BY <1>6, <1>7, <2>3
    <2>6. /\ IsSet(policy, at[0 + last + 2])
          /\ at[0 + last + 2].line = Filled(policy, at[0].line, 0, last)
      BY ONLY <1>2, <1>8, <2>1, <2>4, <2>5, FillsUp
    <2> QED
      BY <2>2, <2>3, <2>4, <2>6
  <1>10. at[ways + 1].line = [w \in Positions(policy) |-> ways - 1 - w]
    <2>1. \A w \in Positions(policy) :
            (IF w <= ways - 1 THEN 0 + (ways - 1) - w ELSE noise.line[w - (ways - 1) - 1]) = ways - 1 - w
      BY <1>2
    <2> QED
      BY <1>9, <2>1 DEF Filled
  <1>11. CASE vector = -1 /\ Len(chain) = Ways + 1
    BY <1>1, <1>9, <1>10, <1>11 DEF MemberAt
  <1>12. CASE /\ vector \in Members /\ Len(chain) = Ways + 2
              /\ chain[Ways + 2] = <<Ways - 1 - vector, 2>>
    <2>1. at[ways + 2] = Touch(policy, at[ways + 1], ways - 1 - vector)
      <3>1. /\ ways + 2 \in 1 .. n /\ ways + 2 \in 1 .. Len(chain) /\ ways + 2 - 1 = ways + 1
        BY <1>1, <1>2, <1>5, <1>12
      <3>2. walk[ways + 2][1] = ways - 1 - vector
        BY <1>1, <1>12, <3>1
      <3>3. PICK k : k = ways + 2
        OBVIOUS
      <3>4. at[k] = Touch(policy, at[k - 1], walk[k][1])
        BY <1>1, <3>1, <3>3 DEF Touching
      <3>5. k - 1 = ways + 1
        BY <1>2, <3>3
      <3>6. walk[k][1] = ways - 1 - vector
        BY Zenon, <3>2, <3>3
      <3> QED
        BY Zenon, <3>3, <3>4, <3>5, <3>6
    <2>2. vector \in Positions(policy) /\ vector # -1
      BY <1>1, <1>2, <1>12 DEF Members
    <2>3. \A w \in Positions(policy) : at[ways + 1].line[w] = ways - 1 - vector <=> w = vector
      BY <1>2, <1>10, <2>2
    <2>4. at[ways + 2].line = [w \in Positions(policy) |-> at[ways + 1].line[policy.vectors[vector][w]]]
      <3>1. PICK before, x : before = at[ways + 1] /\ x = ways - 1 - vector
        OBVIOUS
      <3>2. /\ IsSet(policy, before) /\ IsAt(policy, before, x, vector)
            /\ at[ways + 2] = Touch(policy, before, x)
        BY <1>9, <2>1, <2>2, <2>3, <3>1 DEF IsAt
      <3>3. Touch(policy, before, x).line =
              [w \in Positions(policy) |-> before.line[policy.vectors[vector][w]]]
        BY <1>2, <3>2, TouchHit
      <3> QED
        BY <3>1, <3>2, <3>3
    <2>5. \A w \in Positions(policy) : policy.vectors[vector][w] \in Positions(policy)
      <3>1. policy.vectors \in [Positions(policy) -> [Positions(policy) -> Positions(policy)]]
        BY <1>2, VectorsAre
      <3> QED
        BY <2>2, <3>1
    <2>6. \A w \in Positions(policy) :
            at[ways + 1].line[policy.vectors[vector][w]] = ways - 1 - policy.vectors[vector][w]
      BY <1>10, <2>5
    <2>7. at[ways + 2].line = [w \in Positions(policy) |-> MemberAt(w)]
      BY <1>1, <2>2, <2>4, <2>6 DEF MemberAt
    <2>8. IsSet(policy, at[ways + 2])
      BY <1>2, <1>9, <2>1, TouchHolds DEF Permutes
    <2> QED
      BY <1>1, <1>12, <2>7, <2>8
  <1> QED
    BY <1>2, <1>11, <1>12 DEF SetPages

\* What a chain that touches k new members leaves of the set: the first lines.
LEMMA EvictedAre ==
  ASSUME Measuring, NEW noise \in NoiseStates(cache.policy), position \in Members
  PROVE  EvictedAfter(noise) = {t \in Members : \A v \in 0 .. position - 1 : MemberAt(v) # t}
  <1>1. PICK policy, ways, n : policy = cache.policy /\ ways = Ways /\ n = ways - position - 1
    OBVIOUS
  <1>2. /\ ways \in Nat /\ ways # 0 /\ Positions(policy) = 0 .. ways - 1
        /\ SetPages(chain) /\ Permutes(policy) /\ FirstHitKeeps(policy)
        /\ position \in 0 .. ways - 1 /\ n \in 0 .. ways - 1 /\ Members = 0 .. ways - 1
    <2>1. /\ ways \in Nat /\ ways # 0 /\ Positions(policy) = 0 .. ways - 1 /\ SetPages(chain)
          /\ Permutes(policy) /\ FirstHitKeeps(policy) /\ Members = 0 .. ways - 1
      BY <1>1, MeasuringChain DEF Measuring, Members
    <2> QED
      BY <1>1, <2>1
  <1>3. PICK set, rest, walk : set = chain /\ rest = EvictionChain /\ walk = set \o rest
    OBVIOUS
  <1>4. PICK m : m = Len(set)
    OBVIOUS
  <1>5. set \in Seq(Int \X Nat) /\ m \in Nat /\ m >= ways + 1 /\ m <= ways + 2
    <2>1. /\ set \in Seq(Int \X Nat) /\ m \in Nat
          /\ Len(chain) = Ways + 1 \/ Len(chain) = Ways + 2
      BY <1>2, <1>3, <1>4 DEF SetPages
    <2>2. m = ways + 1 \/ m = ways + 2
      BY Zenon, <1>1, <1>3, <1>4, <2>1
    <2> QED
      BY <1>2, <2>1, <2>2
  <1>6. IsChain(ways, n, rest)
    <2>1. ways + n < cache.reach /\ cache.reach \in Nat /\ n \in Nat
      BY <1>1, <1>2 DEF Measuring
    <2>2. rest = ChainFromHashSingle(ways, n)
      BY <1>1, <1>3 DEF EvictionChain, NextAddress
    <2> QED
      BY <1>2, <2>1, <2>2, ChainPages
  <1>7. walk \in Seq(Int \X Nat) /\ Joins(set, m, rest, n + 2, walk)
    <2>1. rest \in Seq(Int \X Nat) /\ Len(rest) = n + 2
      BY <1>6 DEF IsChain
    <2>2. walk \in Seq(Int \X Nat) /\ Joins(set, Len(set), rest, Len(rest), walk)
      BY ONLY <1>3, <1>5, <2>1, Joined
    <2> QED
      BY <1>4, <2>1, <2>2
  <1>8. Different(walk, m + n + 2)
    <2>1. ASSUME NEW i \in 1 .. m
          PROVE  \/ i = 1 /\ walk[i] = <<0, 0>>
                 \/ i = 2 /\ walk[i] = <<0, 1>>
                 \/ i \in 3 .. ways + 1 /\ walk[i] = <<i - 2, 0>>
                 \/ \E x \in 0 .. ways - 1 : i = ways + 2 /\ walk[i] = <<x, 2>>
      <3>1. walk[i] = set[i]
        BY <1>7 DEF Joins
      <3>2. CASE i = 1
        BY <1>2, <1>3, <3>1, <3>2 DEF SetPages
      <3>3. CASE i = 2
        BY <1>2, <1>3, <3>1, <3>3 DEF SetPages
      <3>4. CASE i \in 3 .. ways + 1
        <4>1. PICK k : k = i - 2
          OBVIOUS
        <4>2. k \in 1 .. Ways - 1 /\ k + 2 = i
          BY <1>1, <1>2, <3>4, <4>1
        <4>3. set[k + 2] = <<k, 0>>
          BY <1>2, <1>3, <4>2 DEF SetPages
        <4> QED
          BY <3>1, <3>4, <4>1, <4>2, <4>3
      <3>5. CASE i = ways + 2
        <4>1. PICK x : x = ways - 1 - vector
          OBVIOUS
        <4>2. x \in 0 .. ways - 1 /\ set[i] = <<x, 2>>
          BY <1>1, <1>2, <1>3, <1>4, <1>5, <3>5, <4>1 DEF SetPages
        <4> QED
          BY <3>1, <3>5, <4>2
      <3>6. i = 1 \/ i = 2 \/ i \in 3 .. ways + 1 \/ i = ways + 2
        <4>1. ways \in Nat /\ m \in Nat /\ m <= ways + 2 /\ i \in 1 .. m
          BY <1>2, <1>5
        <4> QED
          BY ONLY <4>1
      <3> QED
        BY Zenon, <3>2, <3>3, <3>4, <3>5, <3>6
    <2>2. ASSUME NEW i \in m + 1 .. m + n + 2
          PROVE  \/ i = m + 1 /\ walk[i] = <<ways, 0>>
                 \/ i = m + 2 /\ walk[i] = <<ways, 1>>
                 \/ i \in m + 3 .. m + n + 2 /\ walk[i] = <<ways + (i - m - 2), 0>>
      <3>1. PICK j : j = i - m
        OBVIOUS
      <3>2. j \in 1 .. n + 2 /\ i = m + j
        BY <1>2, <1>5, <3>1
      <3>3. walk[i] = rest[j]
        BY <1>7, <3>2 DEF Joins
      <3>4. CASE j = 1
        BY <1>5, <1>6, <3>2, <3>3, <3>4 DEF IsChain
      <3>5. CASE j = 2
        BY <1>5, <1>6, <3>2, <3>3, <3>5 DEF IsChain
      <3>6. CASE j > 2
        <4>1. PICK k : k = j - 2
          OBVIOUS
        <4>2. k \in 1 .. n /\ k + 2 = j /\ k = i - m - 2
          BY <1>2, <1>5, <3>2, <3>6, <4>1
        <4>3. rest[k + 2] = <<ways + k, 0>>
          BY <1>6, <4>2 DEF IsChain
        <4>4. walk[i] = <<ways + k, 0>> /\ i \in m + 3 .. m + n + 2
          BY <1>5, <3>2, <3>3, <3>6, <4>2, <4>3
        <4> QED
          BY <4>2, <4>4
      <3> QED
        BY <3>2, <3>4, <3>5, <3>6
    <2>8. \A i \in 1 .. m : walk[i][1] \in 0 .. ways - 1
      BY <1>2, <2>1
    <2>9. ASSUME NEW i \in m + 1 .. m + n + 2 PROVE walk[i][1] \notin 0 .. ways - 1
      <3>1. CASE walk[i] = <<ways, 0>> \/ walk[i] = <<ways, 1>>
        BY <1>2, <3>1
      <3>2. CASE i \in m + 3 .. m + n + 2 /\ walk[i] = <<ways + (i - m - 2), 0>>
        <4>1. PICK x : x = ways + (i - m - 2)
          OBVIOUS
        <4>2. x >= ways
          BY <1>2, <1>5, <3>2, <4>1
        <4>3. walk[i][1] = x
          BY <3>2, <4>1
        <4> QED
          BY <1>2, <4>2, <4>3
      <3> QED
        BY <2>2, <3>1, <3>2
    <2> SUFFICES ASSUME NEW i \in 1 .. m + n + 2, NEW j \in 1 .. m + n + 2, walk[i] = walk[j]
                 PROVE  i = j
      BY DEF Different
    <2>3. /\ i \in 1 .. m \/ i \in m + 1 .. m + n + 2
          /\ j \in 1 .. m \/ j \in m + 1 .. m + n + 2
      BY <1>2, <1>5
    <2>4. CASE i \in 1 .. m /\ j \in 1 .. m
      BY <1>2, <2>1, <2>4
    <2>5. CASE i \in m + 1 .. m + n + 2 /\ j \in m + 1 .. m + n + 2
      BY SMTT(20), <1>2, <1>5, <2>2, <2>5
    <2>6. CASE i \in 1 .. m /\ j \in m + 1 .. m + n + 2
      BY <2>8, <2>9, <2>6
    <2>7. CASE j \in 1 .. m /\ i \in m + 1 .. m + n + 2
      BY <2>8, <2>9, <2>7
    <2> QED
      BY <2>3, <2>4, <2>5, <2>6, <2>7
  <1>9. PICK at : /\ Touching(policy, noise, walk, m + n + 2, at)
                  /\ AfterWalk(policy, noise, walk) = at[m + n + 2]
    <2>1. PICK long : long = m + n + 2
      OBVIOUS
    <2>2. long = Len(walk) /\ Different(walk, long)
      BY <1>2, <1>5, <1>7, <1>8, <2>1 DEF Joins
    <2>3. \E at : Touching(policy, noise, walk, long, at) /\ AfterWalk(policy, noise, walk) = at[long]
      BY ONLY <1>7, <2>2, DistinctWalk
    <2> QED
      BY <2>1, <2>3
  <1>10. IsSet(policy, at[m]) /\ at[m].line = [w \in Positions(policy) |-> MemberAt(w)]
    <2>1. PICK long : long = m + n + 2
      OBVIOUS
    <2>2. long \in Nat /\ Len(chain) <= long /\ \A k \in 1 .. Len(chain) : walk[k] = chain[k]
      <3>1. Len(chain) = m
        BY <1>3, <1>4
      <3>2. long \in Nat /\ m <= long /\ \A k \in 1 .. m : walk[k] = set[k]
        BY <1>2, <1>5, <1>7, <2>1 DEF Joins
      <3> QED
        BY Zenon, <1>3, <3>1, <3>2
    <2>3. Touching(cache.policy, noise, walk, long, at)
      BY <1>1, <1>9, <2>1
    <2>4. /\ IsSet(cache.policy, at[Len(chain)])
          /\ at[Len(chain)].line = [w \in Positions(cache.policy) |-> MemberAt(w)]
      BY <2>2, <2>3, SetIsFilled
    <2> QED
      BY <1>1, <1>3, <1>4, <2>4
  <1>11. \A w \in Positions(policy) : MemberAt(w) \in 0 .. ways - 1
    <2> TAKE w \in Positions(policy)
    <2>1. CASE vector = -1
      BY <1>1, <1>2, <2>1 DEF MemberAt
    <2>2. CASE vector # -1
      <3>1. vector \in Positions(policy)
        BY <1>2, <2>2 DEF SetPages
      <3>2. policy.vectors \in [Positions(policy) -> [Positions(policy) -> Positions(policy)]]
        BY <1>2, VectorsAre
      <3>3. policy.vectors[vector][w] \in Positions(policy)
        BY <3>1, <3>2
      <3> QED
        BY <1>1, <1>2, <2>2, <3>3 DEF MemberAt
    <2> QED
      BY <2>1, <2>2
  <1>12. PICK member : member = [k \in 1 .. n + 2 |-> walk[m + k][1]]
    OBVIOUS
  <1>13. Reads(policy, at, m, n, member)
    <2> SUFFICES ASSUME NEW k \in 1 .. n + 2
                 PROVE  at[m + k] = Touch(policy, at[m + k - 1], member[k])
      BY DEF Reads
    <2>1. m + k \in 1 .. m + n + 2
      BY <1>2, <1>5
    <2>2. PICK j : j = m + k
      OBVIOUS
    <2>3. at[j] = Touch(policy, at[j - 1], walk[j][1]) /\ member[k] = walk[j][1]
      BY <1>9, <1>12, <2>1, <2>2 DEF Touching
    <2>4. at[j] = Touch(policy, at[j - 1], member[k])
      BY Zenon, <2>3
    <2>5. m + k - 1 = j - 1
      BY <1>2, <1>5, <2>2
    <2> QED
      BY Zenon, <2>2, <2>4, <2>5
  <1>14. Ascending(member, ways, n)
    <2>1. \A k \in 1 .. n + 2 : member[k] = rest[k][1]
      BY <1>7, <1>12 DEF Joins
    <2>2. member[1] = ways
      <3>1. 1 \in 1 .. n + 2 /\ rest[1] = <<ways, 0>>
        BY <1>2, <1>6 DEF IsChain
      <3> QED
        BY <2>1, <3>1
    <2>3. ASSUME NEW k \in 0 .. n PROVE member[k + 2] = ways + k
      <3>1. k + 2 \in 1 .. n + 2 /\ (k = 0 \/ k \in 1 .. n)
        BY <1>2
      <3>2. \E sub : rest[k + 2] = <<ways + k, sub>>
        <4>1. CASE k = 0
          BY <1>2, <1>6, <4>1 DEF IsChain
        <4>2. CASE k \in 1 .. n
          BY <1>6, <4>2 DEF IsChain
        <4> QED
          BY <3>1, <4>1, <4>2
      <3> QED
        BY <2>1, <3>1, <3>2
    <2> QED
      BY <2>2, <2>3 DEF Ascending
  <1>15. Before(policy, at[m], ways)
    <2>1. \A w \in Positions(policy) : at[m].line[w] = MemberAt(w)
      BY <1>10
    <2> QED
      BY <1>2, <1>10, <1>11, <2>1 DEF Before
  <1>16. PICK after : after = AfterWalk(policy, noise, walk)
    OBVIOUS
  <1>17. IsSet(policy, after) /\ after.line = Filled(policy, at[m].line, ways, n)
    <2>1. n \in Positions(policy)
      BY <1>2
    <2>2. /\ IsSet(policy, at[m + n + 2])
          /\ at[m + n + 2].line = Filled(policy, at[m].line, ways, n)
      BY ONLY <1>2, <1>5, <1>13, <1>14, <1>15, <2>1, FillsUp
    <2> QED
      BY <1>9, <1>16, <2>2
  <1>18. ASSUME NEW t \in Members
         PROVE  Holds(after, t) <=> \E v \in 0 .. position - 1 : MemberAt(v) = t
    <2>1. \A w \in 0 .. ways - 1 :
            after.line[w] = (IF w <= n THEN ways + n - w ELSE at[m].line[w - n - 1])
      BY <1>2, <1>17 DEF Filled
    <2>2. \A w \in 0 .. n : after.line[w] # t
      <3> TAKE w \in 0 .. n
      <3>1. w \in 0 .. ways - 1 /\ w <= n /\ ways + n - w >= ways
        BY <1>2
      <3>2. after.line[w] = ways + n - w
        BY <2>1, <3>1
      <3> QED
        BY <1>2, <3>1, <3>2
    <2>3. ASSUME NEW v \in 0 .. position - 1
          PROVE  v + n + 1 \in 0 .. ways - 1 /\ after.line[v + n + 1] = MemberAt(v)
      <3>1. PICK w : w = v + n + 1
        OBVIOUS
      <3>2. w \in 0 .. ways - 1 /\ ~ (w <= n) /\ w - n - 1 = v /\ v \in Positions(policy)
        BY <1>1, <1>2, <3>1
      <3>3. after.line[w] = at[m].line[v]
        BY <2>1, <3>2
      <3>4. at[m].line[v] = MemberAt(v)
        BY <1>10, <3>2
      <3> QED
        BY Zenon, <3>1, <3>2, <3>3, <3>4
    <2>4. ASSUME Holds(after, t) PROVE \E v \in 0 .. position - 1 : MemberAt(v) = t
      <3>1. PICK w \in 0 .. ways - 1 : after.line[w] = t
        BY <1>2, <1>17, <2>4 DEF Holds, IsSet
      <3>2. ~ (w <= n)
        BY <1>2, <2>2, <3>1
      <3>3. PICK v : v = w - n - 1
        OBVIOUS
      <3>4. v \in 0 .. position - 1 /\ v + n + 1 = w
        BY <1>1, <1>2, <3>2, <3>3
      <3> QED
        BY <2>3, <3>1, <3>4
    <2>5. ASSUME NEW v \in 0 .. position - 1, MemberAt(v) = t PROVE Holds(after, t)
      <3>1. PICK w : w = v + n + 1
        OBVIOUS
      <3>2. w \in 0 .. ways - 1 /\ after.line[w] = t
        BY <2>3, <2>5, <3>1
      <3> QED
        BY <1>2, <1>17, <3>2 DEF Holds, IsSet
    <2> QED
      BY <2>4, <2>5
  <1>19. \A t : Survives(cache.policy, noise, chain \o EvictionChain, t) <=> Holds(after, t)
    BY <1>1, <1>3, <1>16 DEF Survives
  <1> QED
    BY <1>18, <1>19 DEF EvictedAfter

\* Every member is at one position.
LEMMA MembersApart ==
  ASSUME Measuring
  PROVE  /\ \A w \in Members : MemberAt(w) \in Members
         /\ \A v, w \in Members : MemberAt(v) = MemberAt(w) => v = w
         /\ \A t \in Members : \E w \in Members : MemberAt(w) = t
  <1>1. PICK policy, ways : policy = cache.policy /\ ways = Ways
    OBVIOUS
  <1>2. /\ ways \in Nat /\ ways # 0 /\ Positions(policy) = 0 .. ways - 1 /\ Members = 0 .. ways - 1
        /\ Permutes(policy) /\ (vector = -1 \/ vector \in Members)
    BY <1>1, MeasuringChain DEF Measuring, Members
  <1>3. CASE vector = -1
    <2>1. \A w \in Members : MemberAt(w) = ways - 1 - w
      BY <1>1, <1>3 DEF MemberAt
    <2>2. \A w \in Members : MemberAt(w) \in Members
      BY <1>2, <2>1
    <2>3. \A v, w \in Members : MemberAt(v) = MemberAt(w) => v = w
      BY <1>2, <2>1
    <2>4. ASSUME NEW t \in Members PROVE \E w \in Members : MemberAt(w) = t
      <3>1. PICK w : w = ways - 1 - t
        OBVIOUS
      <3>2. w \in Members /\ ways - 1 - w = t
        BY <1>2, <3>1
      <3> QED
        BY <2>1, <3>2
    <2> QED
      BY <2>2, <2>3, <2>4
  <1>4. CASE vector # -1
    <2>1. PICK moves : moves = policy.vectors[vector]
      OBVIOUS
    <2>2. /\ moves \in [Members -> Members]
          /\ \A t \in Members : \E w \in Members : moves[w] = t
      <3>1. policy.vectors \in [Members -> [Members -> Members]] /\ vector \in Members
        BY <1>2, <1>4, VectorsAre
      <3>2. \A hit, v \in Members : \E w \in Members : policy.vectors[hit][w] = v
        <4>1. \A hit, v \in Positions(policy) : \E w \in Positions(policy) : policy.vectors[hit][w] = v
          BY <1>2, VectorsAre, Zenon
        <4>2. Members = Positions(policy)
          BY <1>2
        <4> QED
          BY <4>1, <4>2, Zenon
      <3> QED
        BY <2>1, <3>1, <3>2
    <2>3. \A v, w \in Members : moves[v] = moves[w] => v = w
      <3>1. IsFiniteSet(Members)
        BY <1>2, FS_Interval
      <3>2. moves \in Surjection(Members, Members)
        BY <2>2 DEF Surjection
      <3>3. moves \in Injection(Members, Members)
        BY <3>1, <3>2, FS_SurjSameCardinalityImpliesInj
      <3> QED
        BY <3>3 DEF Injection, IsInjective
    <2>4. ASSUME NEW w \in Members
          PROVE  MemberAt(w) = ways - 1 - moves[w] /\ moves[w] \in 0 .. ways - 1
      <3>1. MemberAt(w) = ways - 1 - moves[w]
        BY Zenon, <1>1, <1>4, <2>1 DEF MemberAt
      <3>2. moves[w] \in Members
        BY <2>2
      <3> QED
        BY <1>2, <3>1, <3>2
    <2>5. \A w \in Members : MemberAt(w) \in Members
      BY <1>2, <2>4
    <2>6. \A v, w \in Members : MemberAt(v) = MemberAt(w) => v = w
      <3> SUFFICES ASSUME NEW v \in Members, NEW w \in Members, MemberAt(v) = MemberAt(w)
                   PROVE  v = w
        OBVIOUS
      <3>1. PICK a, b : a = moves[v] /\ b = moves[w]
        OBVIOUS
      <3>2. ways - 1 - a = ways - 1 - b /\ a \in 0 .. ways - 1 /\ b \in 0 .. ways - 1
        BY <2>4, <3>1
      <3>3. a = b
        BY <1>2, <3>2
      <3> QED
        BY <2>3, <3>1, <3>3
    <2>7. ASSUME NEW t \in Members PROVE \E w \in Members : MemberAt(w) = t
      <3>1. PICK s : s = ways - 1 - t
        OBVIOUS
      <3>2. s \in Members /\ ways - 1 - s = t
        BY <1>2, <3>1
      <3>3. PICK w \in Members : moves[w] = s
        BY <2>2, <3>2
      <3> QED
        BY <2>4, <3>2, <3>3
    <2> QED
      BY <2>5, <2>6, <2>7
  <1> QED
    BY <1>3, <1>4

\* There is one outcome, as the noise leaves one state of the set.
LEMMA OneOutcome ==
  ASSUME Measuring, position \in Members, NEW evicted \in Outcomes
  PROVE  evicted = {t \in Members : \A v \in 0 .. position - 1 : MemberAt(v) # t}
  <1>1. PICK e : e = {t \in Members : \A v \in 0 .. position - 1 : MemberAt(v) # t}
    OBVIOUS
  <1>2. e \subseteq Members
    BY <1>1
  <1>3. \A noise \in NoiseStates(cache.policy) : EvictedAfter(noise) = e
    BY <1>1, EvictedAre
  <1>4. NoiseStates(cache.policy) # {}
    <2>1. PICK policy : policy = cache.policy
      OBVIOUS
    <2>2. policy.kind = "permutation"
      BY <2>1 DEF Measuring, Permutes
    <2>3. [line |-> [w \in Positions(policy) |-> 0 - w - 1], root |-> 0, leaf |-> [side \in {0, 1} |-> 0]]
            \in NoiseStates(policy)
      BY <2>2 DEF NoiseStates
    <2> QED
      BY <2>1, <2>3
  <1>5. {EvictedAfter(noise) : noise \in NoiseStates(cache.policy)} = {e}
    BY <1>3, <1>4
  <1>6. {t \in Members : \A x \in {e} : t \in x} = e
    BY <1>2
  <1>7. Outcomes = {e \cup sometimes : sometimes \in SUBSET ((UNION {e}) \ e)}
    <2>1. PICK all : all = {EvictedAfter(noise) : noise \in NoiseStates(cache.policy)}
      OBVIOUS
    <2>2. PICK always : always = {t \in Members : \A x \in all : t \in x}
      OBVIOUS
    <2>3. Outcomes = {always \cup sometimes : sometimes \in SUBSET ((UNION all) \ always)}
      BY <2>1, <2>2, Zenon DEF Outcomes
    <2>4. all = {e} /\ always = e
      BY <1>5, <1>6, <2>1, <2>2, Zenon
    <2> QED
      BY <2>3, <2>4, Zenon
  <1>8. (UNION {e}) \ e = {}
    OBVIOUS
  <1> QED
    BY <1>1, <1>7, <1>8

\* The member that comes next is the one at the position.
LEMMA Placed ==
  ASSUME Measuring, position \in Members, NEW evicted \in Outcomes,
         \A w \in Members : IF w > position THEN order[w] = MemberAt(w) ELSE order[w] \notin Members
  PROVE  Unplaced(evicted) # {} /\ Min(Unplaced(evicted)) = MemberAt(position)
  <1>1. PICK ways : ways = Ways
    OBVIOUS
  <1>2. ways \in Nat /\ ways # 0 /\ Members = 0 .. ways - 1 /\ position \in 0 .. ways - 1
    BY <1>1, MeasuringChain DEF Members
  <1>3. PICK x : x = MemberAt(position)
    OBVIOUS
  <1>4. x \in Members /\ x \in Int
    BY <1>2, <1>3, MembersApart
  <1>5. \A t : t \in evicted <=> t \in Members /\ \A v \in 0 .. position - 1 : MemberAt(v) # t
    BY OneOutcome
  <1>6. x \in Unplaced(evicted)
    <2>1. x \in evicted
      BY <1>2, <1>3, <1>4, <1>5, MembersApart
    <2>2. ASSUME NEW w \in Members PROVE order[w] # x
      <3>1. CASE w > position
        <4>1. order[w] = MemberAt(w)
          BY <3>1, Zenon
        <4>2. w # position
          BY <1>2, <3>1
        <4>3. MemberAt(w) # x
          BY <1>2, <1>3, <4>2, MembersApart
        <4> QED
          BY <4>1, <4>3
      <3>2. CASE ~ (w > position)
        <4>1. order[w] \notin Members
          BY <3>2, Zenon
        <4> QED
          BY <1>4, <4>1
      <3> QED
        BY <3>1, <3>2
    <2> QED
      BY <2>1, <2>2 DEF Unplaced
  <1>7. ASSUME NEW t \in Unplaced(evicted) PROVE t = x
    <2>1. /\ t \in Members /\ \A v \in 0 .. position - 1 : MemberAt(v) # t
          /\ \A w \in Members : order[w] # t
      BY <1>5, <1>7 DEF Unplaced
    <2>2. PICK w \in Members : MemberAt(w) = t
      BY <2>1, MembersApart
    <2>3. ~ (w > position)
      BY <2>1, <2>2
    <2>4. w \notin 0 .. position - 1
      BY <2>1, <2>2
    <2>5. w = position
      BY <1>2, <2>3, <2>4
    <2> QED
      BY <1>3, <2>2, <2>5
  <1>8. Unplaced(evicted) = {x}
    BY <1>6, <1>7
  <1>9. Min({x}) = x
    BY <1>4 DEF Min
  <1> QED
    BY <1>3, <1>8, <1>9

--------------------------------------------------------------------------------
(* The vectors that are printed *)

\* While the order is being found, its chain is the set's.
LEMMA IsMeasuring ==
  ASSUME LateInv, CrashInv, OrderInv, stage \in {"lower", "upper"}, step = "order", Predictable
  PROVE  Measuring
  <1>1. cache = host[stage] /\ host[stage] \in {host.lower, host.upper} /\ host \in Hosts
    BY DEF CrashInv, LateInv
  <1>2. IsPolicy(cache.policy) /\ cache.reach \in Nat
    BY <1>1, SessionAssumption
  <1>3. /\ vector \in -1 .. Ways /\ vector < Ways
        /\ vector >= 0 => initial = [w \in Members |-> Ways - 1 - w]
        /\ chain = IF vector = -1 THEN ChainFromHashSingle(0, Ways - 1)
                   ELSE ChainFromHashSingle(0, Ways - 1) \o <<TriggerPage>>
    BY DEF OrderInv
  <1>4. Ways \in Nat
    BY <1>2 DEF IsPolicy, Ways
  <1>5. vector # -1 => vector >= 0 /\ vector \in Members
    BY <1>3, <1>4 DEF Members
  <1> QED
    BY <1>2, <1>3, <1>5 DEF Measuring, Permutes, Predictable, FirstHitKeeps

\* What every step of a measurement leaves alone.
LEMMA SameCache ==
  ASSUME ReplacementStep
  PROVE  cache' = cache /\ step # "idle" /\ step # "done" /\ (Predictable' => Predictable)
  <1>1. cache' = cache /\ step # "idle" /\ step # "done"
    BY DEF ReplacementStep, BuildSetChain, OrderFaults, DeterminePosition, TakeInitialOrder,
           CompareOrder, SkipVector, TriggerPermutation, TriggerGarbage, PermutationVectors,
           BeginOrder
  <1>2. leftover => leftover'
    BY Zenon DEF ReplacementStep, BuildSetChain, OrderFaults, DeterminePosition, TakeInitialOrder,
           CompareOrder, SkipVector, TriggerPermutation, TriggerGarbage, PermutationVectors,
           BeginOrder
  <1> QED
    BY <1>1, <1>2 DEF Predictable, Ways

LEMMA NoMemberBlock ==
  ASSUME BeginOrder, ~ leftover'
  PROVE  \A w \in Members : order'[w] \notin Members
  BY DEF BeginOrder

\* One step of the measurement of a predictable level.
LEMMA MeasuringKeepsOrder ==
  ASSUME LateInv, CrashInv, OrderInv, stage \in {"lower", "upper"}, step # "done", stage' = stage,
         ReplacementStep, step' # "crashed"
  PROVE  OrderInv'
  <1>1. cache' = cache /\ step # "idle" /\ Ways' = Ways /\ Members' = Members
    BY SameCache DEF Ways, Members
  <1> SUFFICES ASSUME Predictable'
               PROVE  /\ vector' \in -1 .. Ways
                      /\ vectors' = [i \in Members |->
                           IF i < vector' THEN cache.policy.vectors[i] ELSE [j \in Members |-> -1]]
                      /\ vector' >= 0 => initial' = [w \in Members |-> Ways - 1 - w]
                      /\ step' \in {"allocate", "order", "trigger", "done"}
                      /\ step' = "allocate" => vector' = -1
                      /\ step' = "trigger" => vector' >= 0
                      /\ step' = "done" => vector' = Ways
                      /\ step' = "order" =>
                           /\ vector' < Ways /\ position' \in -1 .. Ways - 1
                           /\ chain' = IF vector' = -1 THEN ChainFromHashSingle(0, Ways - 1)
                                       ELSE ChainFromHashSingle(0, Ways - 1) \o <<TriggerPage'>>
                           /\ \A w \in Members : IF w > position' THEN order'[w] = MemberAt(w)'
                                                 ELSE order'[w] \notin Members
    <2>1. ChainFromHashSingle(0, Ways - 1)' = ChainFromHashSingle(0, Ways - 1)
      BY <1>1 DEF ChainFromHashSingle, Mapped
    <2> QED
      BY <1>1, <2>1 DEF OrderInv
  <1>2. /\ vector \in -1 .. Ways
        /\ vectors = [i \in Members |->
             IF i < vector THEN cache.policy.vectors[i] ELSE [j \in Members |-> -1]]
        /\ vector >= 0 => initial = [w \in Members |-> Ways - 1 - w]
        /\ step \in {"allocate", "order", "trigger", "done"}
        /\ step = "allocate" => vector = -1
        /\ step = "trigger" => vector >= 0
        /\ step = "order" =>
             /\ vector < Ways /\ position \in -1 .. Ways - 1
             /\ chain = IF vector = -1 THEN ChainFromHashSingle(0, Ways - 1)
                        ELSE ChainFromHashSingle(0, Ways - 1) \o <<TriggerPage>>
             /\ \A w \in Members : IF w > position THEN order[w] = MemberAt(w)
                                   ELSE order[w] \notin Members
    BY <1>1, SameCache DEF OrderInv
  <1>3. /\ Ways \in Nat /\ Ways # 0 /\ Members = 0 .. Ways - 1 /\ Permutes(cache.policy)
        /\ Positions(cache.policy) = Members /\ ~ leftover'
    <2>1. cache = host[stage] /\ host[stage] \in {host.lower, host.upper} /\ host \in Hosts
      BY <1>1 DEF CrashInv, LateInv
    <2>2. IsPolicy(cache.policy)
      BY <2>1, SessionAssumption
    <2>3. cache.policy.kind = "permutation" /\ ~ leftover'
      BY <1>1 DEF Predictable, FirstHitKeeps
    <2> QED
      BY <2>2, <2>3 DEF IsPolicy, Permutes, Ways, Members, Positions
  <1>4. step = "order" => Measuring
    BY IsMeasuring, SameCache
  <1>5. CASE BuildSetChain
    <2>1. /\ vector' = vector /\ vectors' = vectors /\ initial' = initial /\ step' = "order"
          /\ chain' = ChainFromHashSingle(0, Ways - 1) /\ position' = Ways - 1 /\ vector = -1
      BY <1>2, <1>5 DEF BuildSetChain, BeginOrder
    <2>2. \A w \in Members : order'[w] \notin Members
      BY <1>3, <1>5, NoMemberBlock DEF BuildSetChain
    <2>3. \A w \in Members : IF w > position' THEN order'[w] = MemberAt(w)' ELSE order'[w] \notin Members
      BY <1>3, <2>1, <2>2
    <2> QED
      BY <1>2, <1>3, <2>1, <2>3
  <1>6. CASE OrderFaults
    BY <1>6 DEF OrderFaults
  <1>7. CASE DeterminePosition
    <2>1. /\ vector' = vector /\ vectors' = vectors /\ initial' = initial /\ step' = "order"
          /\ step = "order" /\ chain' = chain /\ position' = position - 1 /\ position \in Members
          /\ TriggerPage' = TriggerPage
      BY <1>2, <1>3, <1>7 DEF DeterminePosition, TriggerPage
    <2>2. PICK evicted \in Outcomes :
            order' = IF Unplaced(evicted) = {} THEN order
                     ELSE [order EXCEPT ![position] = Min(Unplaced(evicted))]
      BY <1>7 DEF DeterminePosition
    <2>3. order' = [order EXCEPT ![position] = MemberAt(position)]
      BY <1>2, <1>4, <2>1, <2>2, Placed
    <2>4. \A w \in Members : MemberAt(w)' = MemberAt(w)
      BY <1>1, <2>1 DEF MemberAt
    <2>5. order \in Words
      BY <2>1 DEF CrashInv
    <2>6. ASSUME NEW w \in Members
          PROVE  IF w > position' THEN order'[w] = MemberAt(w)' ELSE order'[w] \notin Members
      <3>1. CASE w = position
        <4>1. order'[w] = MemberAt(w)
          BY <2>1, <2>3, <2>5, <3>1 DEF Words
        <4>2. w > position'
          BY <1>3, <2>1, <3>1
        <4> QED
          BY <2>4, <4>1, <4>2
      <3>2. CASE w # position
        <4>1. w > position <=> w > position'
          BY <1>3, <2>1, <3>2
        <4>2. order'[w] = order[w]
          BY <2>1, <2>3, <2>5, <3>2 DEF Words
        <4> QED
          BY <1>2, <2>1, <2>4, <4>1, <4>2
      <3> QED
        BY <3>1, <3>2
    <2>7. position' \in -1 .. Ways - 1
      BY <1>3, <2>1
    <2> QED
      BY <1>2, <2>1, <2>6, <2>7
  <1>8. CASE TakeInitialOrder
    <2>1. /\ vector = -1 /\ vector' = 0 /\ vectors' = vectors /\ initial' = order /\ step' = "trigger"
          /\ step = "order" /\ position = -1
      BY <1>8 DEF TakeInitialOrder
    <2>2. order = [w \in Members |-> Ways - 1 - w]
      <3>1. order \in Words
        BY <2>1 DEF CrashInv
      <3>2. \A w \in Members : order[w] = Ways - 1 - w
        BY <1>2, <1>3, <2>1 DEF MemberAt
      <3> QED
        BY <3>1, <3>2 DEF Words
    <2>3. vectors' = [i \in Members |->
            IF i < 0 THEN cache.policy.vectors[i] ELSE [j \in Members |-> -1]]
      BY <1>2, <1>3, <2>1
    <2> QED
      BY <1>3, <2>1, <2>2, <2>3
  <1>9. CASE CompareOrder
    <2> DEFINE found == [j \in Members |->
                          LET same == {k \in Members : initial[k] = order[j]}
                          IN  IF same = {} THEN -1 ELSE Min(same)]
    <2>1. /\ vector >= 0 /\ vector' = vector + 1 /\ vectors' = [vectors EXCEPT ![vector] = found]
          /\ initial' = initial /\ step' = "trigger" /\ step = "order" /\ position = -1
      BY <1>9 DEF CompareOrder
    <2>2. vector \in Members
      BY <1>2, <1>3, <2>1
    <2>3. PICK moves : moves = cache.policy.vectors[vector]
      OBVIOUS
    <2>4. moves \in [Members -> Members]
      <3>1. cache.policy.vectors \in [Positions(cache.policy) -> [Positions(cache.policy) -> Positions(cache.policy)]]
        BY <1>3, VectorsAre, Zenon
      <3> QED
        BY <1>3, <2>2, <2>3, <3>1
    <2>5. ASSUME NEW j \in Members PROVE found[j] = moves[j]
      <3>1. PICK v : v = moves[j]
        OBVIOUS
      <3>2. v \in Members
        BY <2>4, <3>1
      <3>3. order[j] = Ways - 1 - v
        BY <1>2, <1>3, <2>1, <2>2, <2>3, <3>1 DEF MemberAt
      <3>4. \A k \in Members : initial[k] = Ways - 1 - k
        BY <1>2, <2>1
      <3>5. \A k \in Members : initial[k] = order[j] <=> k = v
        BY <1>3, <3>2, <3>3, <3>4
      <3>6. {k \in Members : initial[k] = order[j]} = {v}
        BY <3>2, <3>5
      <3>7. Min({v}) = v
        BY <1>3, <3>2 DEF Min
      <3> QED
        BY <3>1, <3>6, <3>7
    <2>6. found = moves
      BY <2>4, <2>5
    <2> HIDE DEF found
    <2>7. vectors' = [i \in Members |->
            IF i < vector + 1 THEN cache.policy.vectors[i] ELSE [j \in Members |-> -1]]
      <3>1. PICK after : after = [i \in Members |->
              IF i < vector + 1 THEN cache.policy.vectors[i] ELSE [j \in Members |-> -1]]
        OBVIOUS
      <3>2. vectors' = [i \in Members |-> vectors'[i]]
        BY <1>2, <2>1
      <3>3. ASSUME NEW i \in Members PROVE vectors'[i] = after[i]
        <4>1. CASE i = vector
          BY <1>2, <1>3, <2>1, <2>2, <2>3, <2>6, <3>1, <4>1
        <4>2. CASE i # vector
          <5>1. i < vector <=> i < vector + 1
            BY <1>3, <2>2, <4>2
          <5>2. vectors'[i] = vectors[i]
            BY <1>2, <2>1, <4>2
          <5> QED
            BY <1>2, <3>1, <5>1, <5>2
        <4> QED
          BY <4>1, <4>2
      <3>4. after = [i \in Members |-> after[i]]
        BY <3>1
      <3> QED
        BY <3>1, <3>2, <3>3, <3>4
    <2>8. vector + 1 \in -1 .. Ways /\ vector + 1 >= 0
      BY <1>3, <2>2
    <2> QED
      BY <1>2, <2>1, <2>7, <2>8
  <1>10. CASE SkipVector
    <2>1. vector \in Members /\ initial[vector] = NoAddress /\ step = "trigger"
      BY <1>10 DEF SkipVector
    <2>2. initial[vector] = Ways - 1 - vector
      BY <1>2, <2>1
    <2> QED
      BY <1>3, <2>1, <2>2 DEF NoAddress
  <1>11. CASE TriggerPermutation
    <2>1. /\ vector' = vector /\ vectors' = vectors /\ initial' = initial /\ step' = "order"
          /\ chain' = ChainFromHashSingle(0, Ways - 1) \o <<TriggerPage>> /\ position' = Ways - 1
          /\ vector \in Members /\ TriggerPage' = TriggerPage
      BY <1>11 DEF TriggerPermutation, BeginOrder, TriggerPage
    <2>2. \A w \in Members : order'[w] \notin Members
      BY <1>3, <1>11, NoMemberBlock DEF TriggerPermutation
    <2>3. \A w \in Members : IF w > position' THEN order'[w] = MemberAt(w)' ELSE order'[w] \notin Members
      BY <1>3, <2>1, <2>2
    <2>4. vector # -1 /\ vector < Ways /\ Ways - 1 \in -1 .. Ways - 1
      BY <1>3, <2>1
    <2> QED
      BY <1>2, <2>1, <2>3, <2>4
  <1>12. CASE PermutationVectors
    BY <1>2, <1>12 DEF PermutationVectors
  <1>13. CASE TriggerGarbage
    BY <1>1, <1>13, GarbageIsBlamed, SameCache
  <1> QED
    BY <1>5, <1>6, <1>7, <1>8, <1>9, <1>10, <1>11, <1>12, <1>13 DEF ReplacementStep

LEMMA AppendOne ==
  ASSUME NEW first, NEW record
  PROVE  Append(<<first>>, record) = <<first, record>>
  <1>1. PICK S : S = {first, record}
    OBVIOUS
  <1>2. first \in S /\ record \in S
    BY <1>1
  <1>3. PICK one : one = <<first>>
    OBVIOUS
  <1>4. one \in Seq(S) /\ Len(one) = 1 /\ one[1] = first
    BY <1>2, <1>3
  <1>5. PICK two : two = Append(one, record)
    OBVIOUS
  <1>6. two \in Seq(S) /\ Len(two) = 2 /\ two[1] = first /\ two[2] = record
    <2>1. one \in Seq(S) /\ record \in S
      BY <1>2, <1>4
    <2>2. /\ two \in Seq(S) /\ Len(two) = Len(one) + 1 /\ two[Len(one) + 1] = record
          /\ \A i \in 1 .. Len(one) : two[i] = one[i]
      BY <1>5, <2>1
    <2>3. Len(one) + 1 = 2 /\ 1 \in 1 .. Len(one)
      BY <1>4
    <2> QED
      BY <1>4, <2>2, <2>3, Zenon
  <1>7. two = <<first, record>>
    BY <1>6
  <1> QED
    BY <1>3, <1>5, <1>7

\* Every step keeps what is known of the order and the vectors.
LEMMA VectorsAreInvariant ==
  ASSUME LateInv, CrashInv, OrderInv, PrintedInv, [Next]_sessionVars
  PROVE  OrderInv' /\ PrintedInv'
  <1>1. CASE SetupLevels
    <2>1. /\ stage = "layout" /\ stage' \in {"layout", "lower"} /\ step' = step /\ printed' = printed
          /\ host' = host
      BY <1>1 DEF SetupLevels, replacementVars, lateVars
    <2> QED
      BY <2>1 DEF CrashInv, OrderInv, PrintedInv, VectorsSound, Level
  <1>2. CASE EvaluateReplacementPolicy
    <2>1. stage \in {"lower", "upper"} /\ host' = host
      BY <1>2 DEF EvaluateReplacementPolicy, lateVars
    <2>2. CASE step = "done"
      <3>1. PICK record : record = [vectors |-> vectors, leftover |-> leftover]
        OBVIOUS
      <3>2. /\ step' = "idle" /\ printed' = Append(printed, record)
            /\ stage = "lower" => stage' \in {"printed", "upper"}
            /\ stage = "upper" => stage' \in {"printed", "late"}
        BY <1>2, <2>1, <2>2, <3>1 DEF EvaluateReplacementPolicy
      <3>3. cache = host[stage]
        BY <2>1, <2>2 DEF CrashInv
      <3>4. FirstHitKeeps(cache.policy) /\ cache.reach >= 2 * cache.policy.ways /\ ~ record.leftover
              => record.vectors = cache.policy.vectors
        <4> SUFFICES ASSUME FirstHitKeeps(cache.policy), cache.reach >= 2 * cache.policy.ways,
                            ~ record.leftover
                     PROVE  vectors = cache.policy.vectors
          BY <3>1
        <4>1. ~ leftover
          BY <3>1
        <4>2. vectors = [i \in Members |->
                IF i < Ways THEN cache.policy.vectors[i] ELSE [j \in Members |-> -1]]
          BY <2>1, <2>2, <4>1 DEF OrderInv, Predictable, Ways
        <4>3. IsPolicy(cache.policy)
          <5>1. host[stage] \in {host.lower, host.upper} /\ host \in Hosts
            BY <2>1 DEF LateInv
          <5> QED
            BY <3>3, <5>1, SessionAssumption
        <4>4. Permutes(cache.policy)
          BY <4>3 DEF Permutes, FirstHitKeeps
        <4>5. cache.policy.vectors \in [Positions(cache.policy) ->
                                         [Positions(cache.policy) -> Positions(cache.policy)]]
          BY <4>4, VectorsAre, Zenon
        <4>6. Members = Positions(cache.policy) /\ \A i \in Members : i < Ways
          BY <4>3 DEF IsPolicy, Members, Ways, Positions
        <4>7. vectors = [i \in Members |-> cache.policy.vectors[i]]
          BY <4>2, <4>6
        <4> QED
          BY <4>5, <4>6, <4>7
      <3>5. CASE stage = "lower"
        <4>1. printed' = <<record>>
          BY <3>2, <3>5 DEF PrintedInv
        <4>2. VectorsSound'
          <5> SUFFICES ASSUME NEW n \in DOMAIN printed', FirstHitKeeps(Level(n)'.policy),
                              Level(n)'.reach >= 2 * Level(n)'.policy.ways, ~ printed'[n].leftover
                       PROVE  printed'[n].vectors = Level(n)'.policy.vectors
            BY DEF VectorsSound, FirstHitKeeps, Positions
          <5>1. n = 1 /\ printed'[n] = record
            BY <4>1
          <5>2. Level(n)' = cache
            BY <2>1, <3>3, <3>5, <5>1 DEF Level
          <5> QED
            BY <3>4, <5>1, <5>2
        <4> QED
          BY <3>2, <3>5, <4>1, <4>2 DEF OrderInv, PrintedInv
      <3>6. CASE stage = "upper"
        <4>1. PICK first : first = printed[1]
          OBVIOUS
        <4>2. printed = <<first>>
          BY <3>6, <4>1 DEF PrintedInv
        <4>3. printed' = <<first, record>>
          BY <3>2, <4>2, AppendOne
        <4>4. VectorsSound'
          <5> SUFFICES ASSUME NEW n \in DOMAIN printed', FirstHitKeeps(Level(n)'.policy),
                              Level(n)'.reach >= 2 * Level(n)'.policy.ways, ~ printed'[n].leftover
                       PROVE  printed'[n].vectors = Level(n)'.policy.vectors
            BY DEF VectorsSound, FirstHitKeeps, Positions
          <5>1. n \in {1, 2}
            BY <4>3
          <5>2. CASE n = 1
            <6>1. 1 \in DOMAIN printed /\ printed'[n] = printed[1] /\ Level(n)' = Level(1)
              BY <2>1, <4>2, <4>3, <5>2 DEF Level
            <6> QED
              BY <5>2, <6>1 DEF PrintedInv, VectorsSound
          <5>3. CASE n = 2
            <6>1. printed'[n] = record /\ Level(n)' = cache
              BY <2>1, <3>3, <3>6, <4>3, <5>3 DEF Level
            <6> QED
              BY <3>4, <6>1
          <5> QED
            BY <5>1, <5>2, <5>3
        <4> QED
          BY <3>2, <3>6, <4>4 DEF OrderInv, PrintedInv
      <3> QED
        BY <2>1, <3>5, <3>6
    <2>3. CASE step # "done"
      <3>1. /\ CalculatePermutationVectors(host[stage]) \/ ReplacementStep
            /\ stage' = (IF step' = "crashed" THEN "crashed" ELSE stage) /\ printed' = printed
        BY <1>2, <2>3 DEF EvaluateReplacementPolicy
      <3>2. PrintedInv'
        BY <2>1, <3>1 DEF PrintedInv, VectorsSound, Level
      <3>3. CASE step' = "crashed"
        BY <3>1, <3>2, <3>3 DEF OrderInv
      <3>4. CASE step' # "crashed" /\ CalculatePermutationVectors(host[stage])
        <4>1. PICK level : level = host[stage]
          OBVIOUS
        <4>2. /\ cache' = level /\ vector' = -1 /\ step' = "allocate"
              /\ vectors' = [i \in Positions(level.policy) |-> [j \in Positions(level.policy) |-> -1]]
          BY <3>4, <4>1 DEF CalculatePermutationVectors
        <4>3. level.policy.ways \in Nat /\ level.policy.ways # 0
          <5>1. host[stage] \in {host.lower, host.upper} /\ host \in Hosts
            BY <2>1 DEF LateInv
          <5> QED
            BY <4>1, <5>1, SessionAssumption DEF IsPolicy
        <4>4. Ways' = level.policy.ways /\ Members' = 0 .. level.policy.ways - 1
          BY <4>2 DEF Ways, Members
        <4>5. vectors' = [i \in Members' |->
                IF i < vector' THEN cache'.policy.vectors[i] ELSE [j \in Members' |-> -1]]
          BY <4>2, <4>3, <4>4 DEF Positions
        <4>6. vector' \in -1 .. Ways'
          BY <4>2, <4>3, <4>4
        <4> QED
          BY <3>2, <4>2, <4>5, <4>6 DEF OrderInv
      <3>5. CASE step' # "crashed" /\ ReplacementStep
        <4>1. stage' = stage
          BY <3>1, <3>5
        <4> QED
          BY <2>1, <2>3, <3>2, <3>5, <4>1, MeasuringKeepsOrder
      <3> QED
        BY <3>1, <3>3, <3>4, <3>5
    <2> QED
      BY <2>2, <2>3
  <1>3. CASE LateEvaluations
    <2>1. host' = host /\ stage' = stage /\ stage = "late" /\ printed' = printed
      BY <1>3 DEF LateEvaluations, LateStep, BeginLate, PrimeTarget, ChaseOrSwitchPcids, ProbeTarget,
                  OneMorePcid, ReturnVerdict
    <2> QED
      BY <2>1 DEF OrderInv, PrintedInv, VectorsSound, Level
  <1>4. CASE StartCacheQuery
    <2>1. host' = host /\ stage' = "query" /\ printed' = printed
      BY <1>4 DEF StartCacheQuery
    <2> QED
      BY <2>1 DEF OrderInv, PrintedInv, VectorsSound, Level
  <1>5. CASE Query
    <2>1. host' = host /\ stage' = stage /\ stage = "query" /\ printed' = printed
      BY <1>5 DEF Query, lateVars
    <2> QED
      BY <2>1 DEF OrderInv, PrintedInv, VectorsSound, Level
  <1>6. CASE UNCHANGED sessionVars
    <2>1. /\ UNCHANGED <<step, cache, chain, order, position, initial, vector, vectors, dirty, leftover>>
          /\ UNCHANGED <<host, stage, printed>>
      BY <1>6 DEF sessionVars, replacementVars, lateVars
    <2>2. OrderInv' <=> OrderInv
      BY <2>1 DEF OrderInv, Predictable, MemberAt, Ways, Members, Mapped, ChainFromHashSingle, TriggerPage
    <2>3. PrintedInv' <=> PrintedInv
      BY <2>1 DEF PrintedInv, VectorsSound, Level
    <2> QED
      BY <2>2, <2>3
  <1> QED
    BY <1>1, <1>2, <1>3, <1>4, <1>5, <1>6 DEF Next

LEMMA VectorsStart ==
  ASSUME Init
  PROVE  OrderInv /\ PrintedInv
  BY DEF Init, OrderInv, PrintedInv, VectorsSound

--------------------------------------------------------------------------------
(* The experiments with PCIDs *)

LEMMA LeastIs ==
  ASSUME NEW T \in SUBSET Nat, T # {}
  PROVE  Min(T) \in T /\ \A y \in T : Min(T) <= y
  <1>1. \E x \in T : \A y \in T : x <= y
    BY Minimum
  <1> QED
    BY <1>1 DEF Min

\* A machine's set has the shape that the lemmas about sets ask for.
LEMMA HostIs ==
  ASSUME host \in Hosts
  PROVE  /\ IsPolicy(host.lower.policy)
         /\ host.lower.sets \in Nat /\ host.lower.sets > 0 /\ host.upper.sets \in Nat
         /\ host.pcids \in Nat /\ host.pcids > 0 /\ host.respects \in BOOLEAN
  BY SessionAssumption

\* After PCIDs 1 .. q the machine keeps the last ones of 0 .. q.
Counts(kept, q) ==
  /\ q < host.pcids => q < Len(kept)
  /\ \A i \in 1 .. Len(kept) : i <= q + 1 => kept[i] = q + 1 - i

LEMMA RecentIs ==
  ASSUME host \in Hosts, NEW kept, IsRecent(kept), NEW p \in Nat
  PROVE  /\ IsRecent(Recent(kept, p)) /\ Recent(kept, p)[1] = p
         /\ p > 0 /\ Counts(kept, p - 1) => Counts(Recent(kept, p), p)
  <1>1. PICK size, most : size = Len(kept) /\ most = host.pcids
    OBVIOUS
  <1>2. kept \in Seq(Nat) /\ size \in Nat /\ size >= 1 /\ size <= most /\ most \in Nat
    BY <1>1, HostIs DEF IsRecent
  <1> DEFINE S == {n \in 1 .. size : kept[n] = p} \cup {size + 1}
  <1>3. PICK at : at = Min(S)
    OBVIOUS
  <1>4. at \in 1 .. size + 1 /\ (at <= size => kept[at] = p) /\ \A n \in 1 .. at - 1 : kept[n] # p
    <2>1. S \in SUBSET Nat /\ size + 1 \in S
      BY <1>2
    <2>2. at \in S /\ \A y \in S : at <= y
      <3> HIDE DEF S
      <3> QED
        BY <1>3, <2>1, LeastIs
    <2>3. at \in 1 .. size + 1 /\ (at <= size => kept[at] = p)
      BY <1>2, <2>2
    <2>4. ASSUME NEW n \in 1 .. at - 1, kept[n] = p PROVE FALSE
      <3>1. n \in S /\ ~ (at <= n)
        BY <1>2, <2>3, <2>4
      <3> QED
        BY <2>2, <3>1
    <2> QED
      BY <2>3, <2>4
  <1>5. PICK grown : grown = IF at > size THEN size + 1 ELSE size
    OBVIOUS
  <1>6. PICK len : len = Min({most, grown})
    OBVIOUS
  <1>7. grown \in Nat /\ grown >= 1
    BY <1>2, <1>5
  <1>8. len \in {most, grown} /\ len <= most /\ len <= grown /\ len \in Nat /\ len >= 1
    <2>1. {most, grown} \in SUBSET Nat /\ {most, grown} # {}
      BY <1>2, <1>7
    <2>2. len \in {most, grown} /\ \A y \in {most, grown} : len <= y
      BY <1>6, <2>1, LeastIs
    <2> QED
      BY <1>2, <1>7, <2>2
  <1>9. PICK new : new = [n \in 1 .. len |-> IF n = 1 THEN p ELSE kept[IF n <= at THEN n - 1 ELSE n]]
    OBVIOUS
  <1>10. Recent(kept, p) = new
    BY Zenon, <1>1, <1>3, <1>5, <1>6, <1>9 DEF Recent
  <1>11. \A n \in 1 .. len : new[n] \in Nat
    <2> TAKE n \in 1 .. len
    <2>1. CASE n = 1
      BY <1>9, <2>1
    <2>2. CASE n # 1 /\ n <= at
      <3>1. n - 1 \in 1 .. size
        BY <1>2, <1>4, <1>8, <2>2
      <3> QED
        BY <1>2, <1>1, <1>9, <2>2, <3>1
    <2>3. CASE n # 1 /\ ~ (n <= at)
      <3>1. n \in 1 .. size
        BY <1>2, <1>4, <1>5, <1>8, <2>3
      <3> QED
        BY <1>2, <1>1, <1>9, <2>3, <3>1
    <2> QED
      BY <2>1, <2>2, <2>3
  <1>12. new \in Seq(Nat) /\ Len(new) = len /\ new[1] = p
    BY <1>8, <1>9, <1>11
  <1>13. IsRecent(new)
    BY <1>1, <1>8, <1>12 DEF IsRecent
  <1>14. ASSUME p > 0, Counts(kept, p - 1) PROVE Counts(new, p)
    <2>1. (p - 1 < most => p - 1 < size) /\ \A i \in 1 .. size : i <= p => kept[i] = p - i
      BY <1>1, <1>2, <1>14 DEF Counts
    <2>2. at > p \/ at > size
      <3>1. CASE at <= size /\ at <= p
        BY <1>2, <1>4, <2>1, <3>1
      <3> QED
        BY <1>2, <1>4, <3>1
    <2>3. p < most => p < len
      BY <1>2, <1>5, <1>8, <1>4, <2>1, <2>2
    <2>4. ASSUME NEW i \in 1 .. len, i <= p + 1 PROVE new[i] = p + 1 - i
      <3>1. CASE i = 1
        BY <1>12, <3>1
      <3>2. CASE i # 1
        <4>1. i <= at
          BY <1>2, <1>4, <1>5, <1>8, <2>2, <2>4
        <4>2. i - 1 \in 1 .. size /\ i - 1 <= p
          BY <1>2, <1>4, <2>4, <3>2, <4>1
        <4>3. new[i] = kept[i - 1]
          BY <1>9, <3>2, <4>1
        <4>4. kept[i - 1] = p - (i - 1)
          BY <2>1, <4>2
        <4> QED
          BY <4>3, <4>4
      <3> QED
        BY <3>1, <3>2
    <2> QED
      BY <1>1, <1>12, <2>3, <2>4 DEF Counts
  <1> QED
    BY <1>10, <1>12, <1>13, <1>14

Forgotten(m, pcid) ==
  IF host.respects THEN ToSet(m.recent) \ ToSet(Recent(m.recent, pcid)) ELSE {}

Tags(gone) == {Tag(q) : q \in gone}

\* x is what m is without the translations of some PCIDs.
Without(m, x, gone) ==
  /\ IsMmu(x) /\ IsLower(x) /\ x.swapped = m.swapped
  /\ \A s \in DOMAIN m.lower : \A w \in Positions(host.lower.policy) :
       x.lower[s].line[w] = IF m.lower[s].line[w][1] \in Tags(gone)
                            THEN NoLine(w) ELSE m.lower[s].line[w]
  /\ x.wrong = {key \in m.wrong : key[1] \notin Tags(gone)}
  /\ x.tlb = {t \in m.tlb : t.pcid \notin gone}

LEMMA DropEffect ==
  ASSUME NEW m, IsMmu(m), IsLower(m), NEW gone
  PROVE  Without(m, DropPcids(m, gone), gone)
  <1>1. PICK tags : tags = Tags(gone)
    OBVIOUS
  <1> DEFINE Bare(set) == [set EXCEPT !.line =
               [w \in DOMAIN @ |-> IF @[w][1] \in tags THEN NoLine(w) ELSE @[w]]]
             lower == [s \in DOMAIN m.lower |-> Bare(m.lower[s])]
             x == DropPcids(m, gone)
  <1>2. x = [m EXCEPT !.lower = lower,
                      !.upper = [s \in DOMAIN @ |-> Bare(@[s])],
                      !.huge = Bare(@),
                      !.wrong = {key \in @ : key[1] \notin tags},
                      !.tlb = {t \in @ : t.pcid \notin gone}]
    BY <1>1 DEF DropPcids, Tags
  <1>3. /\ IsMmu(x) /\ x.swapped = m.swapped /\ x.lower = lower
        /\ x.wrong = {key \in m.wrong : key[1] \notin tags}
        /\ x.tlb = {t \in m.tlb : t.pcid \notin gone}
    <2> HIDE DEF lower, Bare, x
    <2> QED
      BY <1>2 DEF IsMmu
  <1>4. ASSUME NEW s \in DOMAIN m.lower
        PROVE  /\ IsSet(host.lower.policy, lower[s])
               /\ \A w \in Positions(host.lower.policy) :
                    lower[s].line[w] = IF m.lower[s].line[w][1] \in tags
                                       THEN NoLine(w) ELSE m.lower[s].line[w]
    <2>1. PICK set : set = m.lower[s]
      OBVIOUS
    <2>2. IsSet(host.lower.policy, set)
      BY <2>1 DEF IsLower
    <2> DEFINE line == [w \in DOMAIN set.line |-> IF set.line[w][1] \in tags THEN NoLine(w)
                                                  ELSE set.line[w]]
    <2>3. lower[s] = [set EXCEPT !.line = line]
      BY <2>1
    <2>4. DOMAIN line = Positions(host.lower.policy)
      BY <2>2 DEF IsSet
    <2>5. \A w \in Positions(host.lower.policy) :
            line[w] = IF set.line[w][1] \in tags THEN NoLine(w) ELSE set.line[w]
      BY <2>4
    <2> HIDE DEF line, lower
    <2>6. lower[s].line = line /\ IsSet(host.lower.policy, lower[s])
      BY <2>2, <2>3, <2>4 DEF IsSet
    <2> QED
      BY <2>1, <2>5, <2>6
  <1>5. IsLower(x)
    <2>1. DOMAIN lower = DOMAIN m.lower
      OBVIOUS
    <2> HIDE DEF lower, x
    <2> QED
      BY <1>3, <1>4, <2>1 DEF IsLower
  <1> HIDE DEF lower, x
  <1> QED
    BY <1>1, <1>3, <1>4, <1>5 DEF Without, x

LEMMA Cr3Effect ==
  ASSUME host \in Hosts, NEW m, IsMmu(m), IsLower(m), IsRecent(m.recent),
         NEW p \in Nat, NEW noflush \in BOOLEAN
  PROVE  LET x == SetCr3(m, p, noflush)
         IN  /\ x.pcid = p /\ x.recent = Recent(m.recent, p) /\ IsRecent(x.recent)
             /\ x.recent[1] = p
             /\ Without(m, x, Forgotten(m, p) \cup IF noflush THEN {} ELSE {p})
  <1> DEFINE gone == Forgotten(m, p) \cup IF noflush THEN {} ELSE {p}
             dropped == DropPcids(m, gone)
             x == SetCr3(m, p, noflush)
  <1>1. x = [dropped EXCEPT !.pcid = p, !.recent = Recent(m.recent, p)]
    BY DEF SetCr3, Forgotten
  <1>2. Without(m, dropped, gone)
    BY DropEffect
  <1> HIDE DEF dropped, x, gone
  <1>3. /\ x.pcid = p /\ x.recent = Recent(m.recent, p)
        /\ x.lower = dropped.lower /\ x.swapped = dropped.swapped
        /\ x.wrong = dropped.wrong /\ x.tlb = dropped.tlb /\ IsMmu(x)
    BY <1>1, <1>2 DEF Without, IsMmu
  <1>4. Without(m, x, gone)
    BY <1>2, <1>3 DEF Without, IsLower
  <1>5. IsRecent(x.recent) /\ x.recent[1] = p
    BY <1>3, RecentIs
  <1> QED
    BY <1>3, <1>4, <1>5 DEF x, gone

LEMMA LineOf ==
  ASSUME NEW m, IsLower(m), NEW s \in DOMAIN m.lower, NEW w \in Positions(host.lower.policy)
  PROVE  m.lower[s].line[w] \in LinesOf(m)
  BY DEF LinesOf

LEMMA LinesWithout ==
  ASSUME NEW m, NEW x, NEW gone, IsLower(m), Without(m, x, gone), NEW key \in LinesOf(x)
  PROVE  key[1] = -1 \/ (key \in LinesOf(m) /\ key[1] \notin Tags(gone))
  <1>1. DOMAIN x.lower = DOMAIN m.lower
    BY DEF Without, IsLower
  <1>2. PICK s \in DOMAIN x.lower, w \in Positions(host.lower.policy) : key = x.lower[s].line[w]
    BY DEF LinesOf
  <1>3. PICK old : old = m.lower[s].line[w]
    OBVIOUS
  <1>4. key = IF old[1] \in Tags(gone) THEN NoLine(w) ELSE old
    BY <1>1, <1>2, <1>3 DEF Without
  <1>5. old \in LinesOf(m)
    BY <1>1, <1>2, <1>3, LineOf
  <1> QED
    BY <1>4, <1>5 DEF NoLine

\* What other PCIDs have left stays as it is, or goes as a whole.
LEMMA WithoutKeepsAbroad ==
  ASSUME NEW m, NEW x, NEW gone, NEW home, IsLower(m), Without(m, x, gone), Abroad(m, home)
  PROVE  Abroad(x, home)
  <1>1. \A t \in x.tlb : t \in m.tlb
    BY DEF Without
  <1>2. ASSUME host.respects, NEW key \in LinesOf(x)
        PROVE  key[1] \in {-1, home} \/ key \in x.wrong
    <2>1. key[1] = -1 \/ (key \in LinesOf(m) /\ key[1] \notin Tags(gone))
      BY LinesWithout
    <2>2. key \in LinesOf(m) => key[1] \in {-1, home} \/ key \in m.wrong
      BY <1>2 DEF Abroad
    <2>3. x.wrong = {k \in m.wrong : k[1] \notin Tags(gone)}
      BY DEF Without
    <2> QED
      BY <2>1, <2>2, <2>3
  <1> QED
    BY <1>1, <1>2 DEF Abroad

\* A load without NOFLUSH is clean.
LEMMA LoadIsClean ==
  ASSUME host \in Hosts, NEW m, IsMmu(m), IsLower(m), IsRecent(m.recent), NEW p \in Nat
  PROVE  IsClean(SetCr3(m, p, FALSE))
  <1>1. PICK x, gone : x = SetCr3(m, p, FALSE) /\ gone = Forgotten(m, p) \cup {p}
    OBVIOUS
  <1>2. x.pcid = p /\ Without(m, x, gone)
    BY <1>1, Cr3Effect
  <1>3. \A t \in x.tlb : t.pcid # p
    BY <1>1, <1>2 DEF Without
  <1>4. Tag(p) \in Tags(gone) /\ Tag(p) # -1
    BY <1>1 DEF Tags, Tag
  <1>5. \A key \in LinesOf(x) : key[1] # Tag(p)
    BY <1>2, <1>4, LinesWithout
  <1> QED
    BY <1>1, <1>2, <1>3, <1>5 DEF IsClean

LEMMA LoadKeeps ==
  ASSUME host \in Hosts, NEW m, IsMmu(m), IsLower(m), IsRecent(m.recent),
         NEW p \in Nat, NEW noflush \in BOOLEAN, NEW home, Abroad(m, home)
  PROVE  LET x == SetCr3(m, p, noflush)
         IN  /\ IsMmu(x) /\ IsLower(x) /\ IsRecent(x.recent) /\ x.recent[1] = p /\ x.pcid = p
             /\ Abroad(x, home) /\ x.swapped = m.swapped
  <1>1. PICK x, gone : /\ x = SetCr3(m, p, noflush)
                       /\ gone = Forgotten(m, p) \cup IF noflush THEN {} ELSE {p}
    OBVIOUS
  <1>2. IsRecent(x.recent) /\ x.recent[1] = p /\ x.pcid = p /\ Without(m, x, gone)
    BY <1>1, Cr3Effect
  <1>3. Abroad(x, home)
    BY <1>2, WithoutKeepsAbroad
  <1> QED
    BY <1>1, <1>2, <1>3 DEF Without

\* A touch brings in no other line.
LEMMA TouchLines ==
  ASSUME NEW policy, IsPolicy(policy), NEW set, IsSet(policy, set), NEW x,
         NEW w \in Positions(policy)
  PROVE  LET line == Touch(policy, set, x).line[w]
         IN  line = x \/ \E v \in Positions(policy) : line = set.line[v]
  <1>1. PICK after : after = Touch(policy, set, x)
    OBVIOUS
  <1>2. PICK way : way = WayOf(set, x)
    OBVIOUS
  <1>3. Holds(set, x) => way \in Positions(policy)
    BY <1>2 DEF WayOf, Holds, IsSet
  <1>4. CASE policy.kind = "permutation" /\ Holds(set, x)
    <2> DEFINE line == [v \in Positions(policy) |-> set.line[policy.vectors[way][v]]]
    <2>1. after = [set EXCEPT !.line = line]
      BY <1>1, <1>2, <1>4 DEF Touch, IsSet
    <2>2. policy.vectors[way][w] \in Positions(policy)
      <3>1. policy # Huplru
        BY <1>4 DEF Huplru
      <3>2. policy.vectors \in [Positions(policy) -> [Positions(policy) -> Positions(policy)]]
        BY Zenon, <3>1 DEF IsPolicy
      <3> QED
        BY <1>3, <1>4, <3>2
    <2>3. line[w] = set.line[policy.vectors[way][w]]
      OBVIOUS
    <2> HIDE DEF line
    <2>4. after.line = line
      BY <2>1 DEF IsSet
    <2> QED
      BY <1>1, <2>2, <2>3, <2>4
  <1>5. CASE policy.kind = "permutation" /\ ~ Holds(set, x)
    <2> DEFINE line == [v \in Positions(policy) |-> IF v = 0 THEN x ELSE set.line[v - 1]]
    <2>1. after = [set EXCEPT !.line = line]
      BY <1>1, <1>5 DEF Touch, IsSet
    <2>2. w # 0 => w - 1 \in Positions(policy)
      BY DEF IsPolicy, Positions
    <2>3. line[w] = IF w = 0 THEN x ELSE set.line[w - 1]
      OBVIOUS
    <2> HIDE DEF line
    <2>4. after.line = line
      BY <2>1 DEF IsSet
    <2> QED
      BY <1>1, <2>2, <2>3, <2>4
  <1>6. CASE policy.kind # "permutation"
    <2>1. policy.kind = "huplru"
      <3>1. policy = Huplru
        BY Zenon, <1>6 DEF IsPolicy
      <3> QED
        BY <3>1 DEF Huplru
    <2>2. CASE Holds(set, x)
      <3>1. PICK root, half, side : after = [set EXCEPT !.root = root, !.leaf[half] = side]
        BY <1>1, <2>1, <2>2 DEF Touch
      <3>2. after.line = set.line
        BY <3>1 DEF IsSet
      <3> QED
        BY <1>1, <3>2
    <2>3. CASE ~ Holds(set, x)
      <3>1. PICK way_ : after = [set EXCEPT !.line[way_] = x]
        BY <1>1, <2>1, <2>3 DEF Touch
      <3>2. after.line[w] = x \/ after.line[w] = set.line[w]
        BY <3>1 DEF IsSet
      <3> QED
        BY <1>1, <3>2
    <2> QED
      BY <2>2, <2>3
  <1> QED
    BY <1>4, <1>5, <1>6

\* What an entry above takes along is gone; nothing else changes below.
LEMMA UpperEffect ==
  ASSUME NEW m, IsMmu(m), IsLower(m), NEW entry
  PROVE  LET x == UseUpper(m, entry)
         IN  /\ IsMmu(x) /\ IsLower(x) /\ x.pcid = m.pcid /\ x.recent = m.recent
             /\ x.swapped = m.swapped /\ x.wrong = m.wrong /\ x.tlb = m.tlb
             /\ \A key \in LinesOf(x) : key[1] = -1 \/ key \in LinesOf(m)
  <1> DEFINE top == entry \div Fan
             s == top % host.upper.sets
             after == Touch(host.upper.policy, m.upper[s], <<Tag(m.pcid), top>>)
             gone == IF host.nested THEN ToSet(m.upper[s].line) \ ToSet(after.line) ELSE {}
             lower == [l \in DOMAIN m.lower |-> WithoutBelow(m.lower[l], gone)]
             x == UseUpper(m, entry)
  <1>1. /\ IsMmu(x) /\ x.pcid = m.pcid /\ x.recent = m.recent
        /\ x.swapped = m.swapped /\ x.wrong = m.wrong /\ x.tlb = m.tlb
    BY DEF UseUpper, IsMmu
  <1>7. x.lower = lower
    <2>1. x = [m EXCEPT !.lower = lower, !.upper[s] = after]
      BY DEF UseUpper
    <2> HIDE DEF after, lower, x
    <2> QED
      BY <2>1 DEF IsMmu
  <1>2. ASSUME NEW l \in DOMAIN m.lower
        PROVE  /\ IsSet(host.lower.policy, lower[l])
               /\ \A w \in Positions(host.lower.policy) :
                    lower[l].line[w] \in {NoLine(w), m.lower[l].line[w]}
    <2>1. PICK set : set = m.lower[l]
      OBVIOUS
    <2>2. IsSet(host.lower.policy, set)
      BY <2>1 DEF IsLower
    <2> DEFINE line == [w \in DOMAIN set.line |->
                 IF set.line[w][1] # -1 /\ <<set.line[w][1], set.line[w][2] \div Fan>> \in gone
                 THEN NoLine(w) ELSE set.line[w]]
    <2>3. lower[l] = [set EXCEPT !.line = line]
      BY <2>1 DEF WithoutBelow
    <2>4. DOMAIN line = Positions(host.lower.policy)
      BY <2>2 DEF IsSet
    <2>5. \A w \in Positions(host.lower.policy) : line[w] \in {NoLine(w), set.line[w]}
      BY <2>4
    <2> HIDE DEF line, lower
    <2>6. lower[l].line = line /\ IsSet(host.lower.policy, lower[l])
      BY <2>2, <2>3, <2>4 DEF IsSet
    <2> QED
      BY <2>1, <2>5, <2>6
  <1>3. DOMAIN lower = DOMAIN m.lower
    OBVIOUS
  <1> HIDE DEF lower, x
  <1>4. /\ IsMmu(x) /\ x.lower = lower /\ x.pcid = m.pcid /\ x.recent = m.recent
        /\ x.swapped = m.swapped /\ x.wrong = m.wrong /\ x.tlb = m.tlb
    BY <1>1, <1>7
  <1>5. IsLower(x)
    BY <1>2, <1>3, <1>4 DEF IsLower
  <1>6. ASSUME NEW key \in LinesOf(x) PROVE key[1] = -1 \/ key \in LinesOf(m)
    <2>1. PICK l \in DOMAIN lower, w \in Positions(host.lower.policy) : key = lower[l].line[w]
      BY <1>4 DEF LinesOf
    <2>2. key = NoLine(w) \/ key = m.lower[l].line[w]
      BY <1>2, <1>3, <2>1
    <2>3. m.lower[l].line[w] \in LinesOf(m)
      BY <1>3, <2>1, LineOf
    <2> QED
      BY <2>2, <2>3 DEF NoLine
  <1> QED
    BY <1>4, <1>5, <1>6 DEF x

LEMMA EnterEffect ==
  ASSUME host \in Hosts, NEW m, IsMmu(m), IsLower(m), NEW entry \in Nat
  PROVE  LET x == Enter(m, entry)
         IN  /\ IsMmu(x) /\ IsLower(x) /\ x.pcid = m.pcid /\ x.recent = m.recent
             /\ x.swapped = m.swapped /\ x.wrong = m.wrong /\ x.tlb = m.tlb
             /\ \A key \in LinesOf(x) : key = Key(m, entry) \/ key \in LinesOf(m)
             /\ ~ IsHuge(entry) => Holds(SetAt(x, entry), Key(m, entry))
  <1>1. PICK x, key : x = Enter(m, entry) /\ key = Key(m, entry)
    OBVIOUS
  <1>2. CASE InHugeTlb(entry)
    <2>1. PICK huge : x = [m EXCEPT !.huge = huge]
      BY <1>1, <1>2 DEF Enter
    <2>2. /\ IsMmu(x) /\ x.lower = m.lower /\ x.pcid = m.pcid /\ x.recent = m.recent
          /\ x.swapped = m.swapped /\ x.wrong = m.wrong /\ x.tlb = m.tlb
      BY <2>1 DEF IsMmu
    <2>3. IsHuge(entry)
      BY <1>2 DEF InHugeTlb
    <2>4. IsLower(x)
      BY <2>2 DEF IsLower
    <2>5. ASSUME NEW k \in LinesOf(x) PROVE k \in LinesOf(m)
      <3>1. PICK l \in DOMAIN x.lower, w \in Positions(host.lower.policy) : k = x.lower[l].line[w]
        BY DEF LinesOf
      <3> QED
        BY <2>2, <3>1, LineOf
    <2> QED
      BY <1>1, <2>2, <2>3, <2>4, <2>5
  <1>3. CASE ~ InHugeTlb(entry)
    <2>1. PICK s : s = entry % host.lower.sets
      OBVIOUS
    <2>2. s \in DOMAIN m.lower
      <3>1. host.lower.sets \in Nat /\ host.lower.sets > 0
        BY HostIs
      <3>2. s \in 0 .. host.lower.sets - 1
        BY <2>1, <3>1
      <3> QED
        BY <3>2 DEF IsLower
    <2>3. PICK after : after = Touch(host.lower.policy, m.lower[s], key)
      OBVIOUS
    <2>4. IsSet(host.lower.policy, m.lower[s]) /\ IsPolicy(host.lower.policy)
      BY <2>2, HostIs DEF IsLower
    <2>5. IsSet(host.lower.policy, after) /\ Holds(after, key)
      BY <2>3, <2>4, TouchHolds
    <2>6. \A w \in Positions(host.lower.policy) :
            after.line[w] = key \/ \E v \in Positions(host.lower.policy) : after.line[w] = m.lower[s].line[v]
      BY <2>3, <2>4, TouchLines
    <2>7. x = [m EXCEPT !.lower = [m.lower EXCEPT ![s] = after]]
      BY <1>1, <1>3, <2>1, <2>3 DEF Enter, IsMmu
    <2>8. /\ IsMmu(x) /\ x.lower = [m.lower EXCEPT ![s] = after]
          /\ x.pcid = m.pcid /\ x.recent = m.recent
          /\ x.swapped = m.swapped /\ x.wrong = m.wrong /\ x.tlb = m.tlb
      BY <2>7 DEF IsMmu
    <2>9. IsLower(x)
      BY <2>5, <2>8 DEF IsLower
    <2>10. ASSUME NEW k \in LinesOf(x) PROVE k = key \/ k \in LinesOf(m)
      <3>1. PICK l \in DOMAIN x.lower, w \in Positions(host.lower.policy) : k = x.lower[l].line[w]
        BY DEF LinesOf
      <3>2. l \in DOMAIN m.lower
        BY <2>8, <3>1
      <3>3. CASE l # s
        <4>1. k = m.lower[l].line[w]
          BY <2>8, <3>1, <3>2, <3>3
        <4> QED
          BY <3>1, <3>2, <4>1, LineOf
      <3>4. CASE l = s
        <4>1. k = after.line[w]
          BY <2>2, <2>8, <3>1, <3>4
        <4>2. k = key \/ \E v \in Positions(host.lower.policy) : k = m.lower[s].line[v]
          BY <2>6, <3>1, <4>1
        <4> QED
          BY <2>2, <4>2, LineOf
      <3> QED
        BY <3>3, <3>4
    <2>11. Holds(SetAt(x, entry), key)
      BY <1>3, <2>1, <2>2, <2>5, <2>8 DEF SetAt
    <2> QED
      BY <1>1, <2>8, <2>9, <2>10, <2>11
  <1> QED
    BY <1>2, <1>3

\* What a read of a page is.
LEMMA AccessIs ==
  ASSUME NEW m, IsMmu(m), NEW pg
  PROVE  LET key == Key(m, pg[1])
             filled == Enter(IF Holds(SetAt(m, pg[1]), key) THEN m ELSE UseUpper(m, pg[1]), pg[1])
             wrong == IF Swapped(m, pg) THEN m.wrong \cup {key} ELSE m.wrong \ {key}
             known == [pcid |-> m.pcid, page |-> pg, swapped |-> Swapped(m, pg)]
         IN  \/ AccessPage(m, pg) = m
             \/ AccessPage(m, pg) = [filled EXCEPT !.wrong = wrong]
             \/ AccessPage(m, pg) = [filled EXCEPT !.wrong = wrong, !.tlb = @ \cup {known}]
  BY DEF AccessPage

FirstRead(m, entry, pg, key) ==
  [Enter(UseUpper(m, entry), entry)
     EXCEPT !.wrong = m.wrong \ {key},
            !.tlb = @ \cup {[pcid |-> m.pcid, page |-> pg, swapped |-> FALSE]}]

\* A page that no cache knows, and whose entry has not been switched.
LEMMA FirstReadIs ==
  ASSUME NEW m, IsMmu(m), NEW entry, NEW pg, pg[1] = entry,
         ~ \E t \in m.tlb : t.pcid = m.pcid /\ t.page = pg, ~ IsHuge(entry),
         NEW key, Key(m, entry) = key, ~ Holds(SetAt(m, entry), key), ~ Swapped(m, pg)
  PROVE  AccessPage(m, pg) = FirstRead(m, entry, pg, key)
  <1>1. PICK swapped : swapped = Swapped(m, pg)
    OBVIOUS
  <1>2. PICK x : x = AccessPage(m, pg)
    OBVIOUS
  <1>3. x = [Enter(UseUpper(m, entry), entry)
               EXCEPT !.wrong = m.wrong \ {key},
                      !.tlb = @ \cup {[pcid |-> m.pcid, page |-> pg, swapped |-> swapped]}]
    BY <1>1, <1>2 DEF AccessPage
  <1>4. swapped = FALSE
    BY <1>1 DEF Swapped
  <1> QED
    BY <1>2, <1>3, <1>4 DEF FirstRead

LEMMA AccessEffect ==
  ASSUME host \in Hosts, NEW m, IsMmu(m), IsLower(m), m.pcid \in Nat,
         NEW pg, pg[1] \in Nat, NEW home, Abroad(m, home),
         m.pcid = home \/ Swapped(m, pg) = host.respects
  PROVE  LET x == AccessPage(m, pg)
         IN  /\ IsMmu(x) /\ IsLower(x) /\ x.pcid = m.pcid /\ x.recent = m.recent
             /\ x.swapped = m.swapped /\ Abroad(x, home)
  <1> DEFINE key == Key(m, pg[1])
             used == IF Holds(SetAt(m, pg[1]), key) THEN m ELSE UseUpper(m, pg[1])
             filled == Enter(used, pg[1])
             wrong == IF Swapped(m, pg) THEN m.wrong \cup {key} ELSE m.wrong \ {key}
             known == [pcid |-> m.pcid, page |-> pg, swapped |-> Swapped(m, pg)]
             x == AccessPage(m, pg)
  <1>1. /\ IsMmu(used) /\ IsLower(used) /\ used.pcid = m.pcid /\ used.recent = m.recent
        /\ used.swapped = m.swapped /\ used.wrong = m.wrong /\ used.tlb = m.tlb
        /\ \A k \in LinesOf(used) : k[1] = -1 \/ k \in LinesOf(m)
    <2>1. PICK upper : upper = UseUpper(m, pg[1])
      OBVIOUS
    <2>2. /\ IsMmu(upper) /\ IsLower(upper) /\ upper.pcid = m.pcid /\ upper.recent = m.recent
          /\ upper.swapped = m.swapped /\ upper.wrong = m.wrong /\ upper.tlb = m.tlb
          /\ \A k \in LinesOf(upper) : k[1] = -1 \/ k \in LinesOf(m)
      BY <2>1, UpperEffect
    <2>3. used = m \/ used = upper
      BY <2>1
    <2> HIDE DEF used
    <2> QED
      BY <2>2, <2>3
  <1>2. Key(used, pg[1]) = key
    BY <1>1 DEF Key
  <1> HIDE DEF used
  <1>3. /\ IsMmu(filled) /\ IsLower(filled) /\ filled.pcid = m.pcid /\ filled.recent = m.recent
        /\ filled.swapped = m.swapped /\ filled.wrong = m.wrong /\ filled.tlb = m.tlb
        /\ \A k \in LinesOf(filled) : k = key \/ k[1] = -1 \/ k \in LinesOf(m)
    <2>1. PICK y : y = Enter(used, pg[1])
      OBVIOUS
    <2>2. /\ IsMmu(y) /\ IsLower(y) /\ y.pcid = used.pcid /\ y.recent = used.recent
          /\ y.swapped = used.swapped /\ y.wrong = used.wrong /\ y.tlb = used.tlb
          /\ \A k \in LinesOf(y) : k = Key(used, pg[1]) \/ k \in LinesOf(used)
      BY <1>1, <2>1, EnterEffect
    <2> QED
      BY <1>1, <1>2, <2>1, <2>2
  <1>4. \/ x = m \/ x = [filled EXCEPT !.wrong = wrong]
        \/ x = [filled EXCEPT !.wrong = wrong, !.tlb = @ \cup {known}]
    BY AccessIs DEF used
  <1> HIDE DEF filled, x, wrong, known
  <1>5. CASE x = m
    BY <1>5 DEF x
  <1>6. CASE x # m
    <2>1. /\ IsMmu(x) /\ x.lower = filled.lower /\ x.pcid = m.pcid /\ x.recent = m.recent
          /\ x.swapped = m.swapped /\ x.wrong = wrong
          /\ \A t \in x.tlb : t \in m.tlb \/ t = known
      BY ZenonT(60), <1>3, <1>4, <1>6 DEF IsMmu
    <2>2. IsLower(x)
      BY <1>3, <2>1 DEF IsLower
    <2>3. ASSUME NEW k \in LinesOf(x) PROVE k = key \/ k[1] = -1 \/ k \in LinesOf(m)
      <3>1. PICK s \in DOMAIN filled.lower, w \in Positions(host.lower.policy) :
              k = filled.lower[s].line[w]
        BY <2>1 DEF LinesOf
      <3>2. k \in LinesOf(filled)
        BY <1>3, <3>1, LineOf
      <3> QED
        BY <1>3, <3>2
    <2>4. known.pcid = m.pcid /\ known.swapped = Swapped(m, pg)
      BY DEF known
    <2>5. \A t \in x.tlb : t.pcid # home => t.swapped = host.respects
      BY <2>1, <2>4 DEF Abroad
    <2>6. ASSUME host.respects, NEW k \in LinesOf(x), k[1] \notin {-1, home}
          PROVE  k \in x.wrong
      <3>1. key[1] = m.pcid
        BY <2>6 DEF Key, Tag
      <3>2. CASE k = key
        <4>1. Swapped(m, pg)
          BY <2>6, <3>1, <3>2
        <4> QED
          BY <2>1, <3>2, <4>1 DEF wrong
      <3>3. CASE k # key
        <4>1. k \in m.wrong
          BY <2>3, <2>6, <3>3 DEF Abroad
        <4> QED
          BY <2>1, <3>3, <4>1 DEF wrong
      <3> QED
        BY <3>2, <3>3
    <2> QED
      BY <2>1, <2>2, <2>5, <2>6 DEF Abroad, x
  <1> QED
    BY <1>5, <1>6

\* A walk by the experiment's own PCID.
LEMMA WalkKeepsAbroad ==
  ASSUME host \in Hosts, NEW m, IsMmu(m), IsLower(m), m.pcid \in Nat, Abroad(m, m.pcid),
         NEW pages, NEW n \in Nat, DOMAIN pages = 1 .. n, \A k \in 1 .. n : pages[k][1] \in Nat
  PROVE  LET x == ReadPages(m, pages)
         IN  /\ IsMmu(x) /\ IsLower(x) /\ x.pcid = m.pcid /\ x.recent = m.recent
             /\ x.swapped = m.swapped /\ Abroad(x, m.pcid)
  <1> DEFINE Good(x) == /\ IsMmu(x) /\ IsLower(x) /\ x.pcid = m.pcid /\ x.recent = m.recent
                        /\ x.swapped = m.swapped /\ Abroad(x, m.pcid)
  <1>1. PICK at : Runs([of |-> "access"], m, pages, n, at) /\ ReadPages(m, pages) = at[n]
    BY AccessFold
  <1>2. at[0] = m /\ \A k \in 1 .. n : at[k] = AccessPage(at[k - 1], pages[k])
    BY <1>1 DEF Runs, Step
  <1> DEFINE T == {k \in 0 .. n : ~ Good(at[k])}
  <1>3. T = {}
    <2> SUFFICES ASSUME T # {} PROVE FALSE
      OBVIOUS
    <2>1. PICK k \in T : \A j \in T : k <= j
      <3>1. T \in SUBSET Nat
        OBVIOUS
      <3> HIDE DEF T
      <3> QED
        BY <3>1, Minimum
    <2>2. k \in 1 .. n
      BY <1>2, <2>1
    <2>3. k - 1 \in 0 .. n /\ ~ (k <= k - 1)
      BY <2>2
    <2>4. Good(at[k - 1])
      BY <2>1, <2>3
    <2>5. PICK before, pg : before = at[k - 1] /\ pg = pages[k]
      OBVIOUS
    <2>6. Good(AccessPage(before, pg))
      BY <2>2, <2>4, <2>5, AccessEffect
    <2> QED
      BY <1>2, <2>1, <2>2, <2>5, <2>6
  <1> QED
    BY <1>1, <1>3

LEMMA TargetIs ==
  ASSUME NEW target \in Targets
  PROVE  target \in Nat /\ ~ IsHuge(target) /\ ~ InHugeTlb(target)
  <1>1. PICK all : all = TopEntries * Fan
    OBVIOUS
  <1>2. all \in Nat /\ HugeBase \in Nat /\ HugeBase >= all /\ target \in 0 .. all - 1
    BY <1>1, LateAssumption
  <1> QED
    BY <1>2 DEF IsHuge, InHugeTlb

\* A machine that has just been flushed has the target under PCID 0 once it has
\* read it.
LEMMA PrimingKeeps ==
  ASSUME host \in Hosts, NEW m, IsMmu(m), IsLower(m), m.pcid = 0,
         IsClean(m), m.swapped = -1, NEW target \in Targets
  PROVE  LET x == AccessPage(m, <<target, 0>>)
         IN  /\ IsKept(x, target)
             /\ \A t \in x.tlb : t.pcid = 0 => t.page # <<target, 511>>
  <1> DEFINE pg == <<target, 0>>
             key == <<0, target>>
             used == UseUpper(m, target)
             filled == Enter(used, target)
             known == [pcid |-> m.pcid, page |-> pg, swapped |-> FALSE]
             x == AccessPage(m, pg)
  <1>1. target \in Nat /\ ~ IsHuge(target) /\ ~ InHugeTlb(target)
    BY TargetIs
  <1>2. Key(m, target) = key /\ Tag(m.pcid) = 0
    BY DEF Key, Tag
  <1>3. ~ Holds(SetAt(m, target), key)
    <2>1. PICK s : s = target % host.lower.sets
      OBVIOUS
    <2>2. s \in DOMAIN m.lower
      <3>1. s \in 0 .. host.lower.sets - 1
        BY <1>1, <2>1, HostIs
      <3> QED
        BY <3>1 DEF IsLower
    <2>3. DOMAIN m.lower[s].line = Positions(host.lower.policy)
      BY <2>2 DEF IsLower, IsSet
    <2>4. ASSUME NEW w \in DOMAIN m.lower[s].line, m.lower[s].line[w] = key PROVE FALSE
      <3>1. key \in LinesOf(m)
        BY <2>2, <2>3, <2>4, LineOf
      <3> QED
        BY <1>2, <3>1 DEF IsClean
    <2> QED
      BY <1>1, <2>1, <2>4 DEF Holds, SetAt
  <1>4. \A t \in m.tlb : t.pcid # m.pcid
    BY DEF IsClean
  <1>5. ~ Swapped(m, pg)
    <2>1. {t \in m.tlb : t.pcid = m.pcid /\ t.page = pg} = {}
      BY <1>4
    <2>2. pg[1] = target /\ m.swapped # target
      BY <1>1
    <2> QED
      BY <1>2, <1>3, <2>1, <2>2 DEF Swapped
  <1>6. x = [filled EXCEPT !.wrong = m.wrong \ {key}, !.tlb = @ \cup {known}]
    <2>1. pg[1] = target /\ ~ \E t \in m.tlb : t.pcid = m.pcid /\ t.page = pg
      BY <1>4
    <2>2. x = FirstRead(m, target, pg, key)
      <3> HIDE DEF pg, key
      <3> QED
        BY <1>1, <1>2, <1>3, <1>5, <2>1, FirstReadIs
    <2> QED
      BY <2>2 DEF FirstRead
  <1>7. IsMmu(used) /\ IsLower(used) /\ used.pcid = m.pcid /\ used.tlb = m.tlb
    BY UpperEffect
  <1>8. Key(used, target) = key
    BY <1>2, <1>7 DEF Key
  <1> HIDE DEF used
  <1>9. /\ IsMmu(filled) /\ filled.tlb = m.tlb /\ Holds(SetAt(filled, target), key)
    BY <1>1, <1>7, <1>8, EnterEffect
  <1> HIDE DEF filled, known, x
  <1>10. /\ x.lower = filled.lower /\ x.wrong = m.wrong \ {key}
         /\ x.tlb = m.tlb \cup {known}
    BY <1>6, <1>9 DEF IsMmu
  <1>11. Holds(SetAt(x, target), key)
    BY <1>1, <1>9, <1>10 DEF SetAt
  <1>12. known.page = pg /\ pg[2] # 511
    BY DEF known
  <1>13. ASSUME NEW t \in x.tlb, t.pcid = 0 PROVE t.page # <<target, 511>>
    BY <1>4, <1>10, <1>12, <1>13
  <1> QED
    BY <1>10, <1>11, <1>13 DEF IsKept, x

\* What a load of CR3 drops under PCID 0.
LEMMA WithoutKept ==
  ASSUME host \in Hosts, NEW m, NEW x, NEW gone, IsLower(m), Without(m, x, gone),
         NEW target \in Targets
  PROVE  /\ IsKept(m, target) /\ 0 \notin Tags(gone) => IsKept(x, target)
         /\ ~ Holds(SetAt(m, target), <<0, target>>) \/ 0 \in Tags(gone)
              => ~ Holds(SetAt(x, target), <<0, target>>)
  <1>1. PICK s, key : s = target % host.lower.sets /\ key = <<0, target>>
    OBVIOUS
  <1>2. target \in Nat /\ ~ InHugeTlb(target)
    BY TargetIs
  <1>3. s \in DOMAIN m.lower
    <2>1. s \in 0 .. host.lower.sets - 1
      BY <1>1, <1>2, HostIs
    <2> QED
      BY <2>1 DEF IsLower
  <1>4. SetAt(m, target) = m.lower[s] /\ SetAt(x, target) = x.lower[s]
    BY <1>1, <1>2 DEF SetAt
  <1>5. PICK old, new : old = m.lower[s].line /\ new = x.lower[s].line
    OBVIOUS
  <1>6. /\ DOMAIN old = Positions(host.lower.policy) /\ DOMAIN new = Positions(host.lower.policy)
        /\ \A w \in Positions(host.lower.policy) :
             new[w] = IF old[w][1] \in Tags(gone) THEN NoLine(w) ELSE old[w]
    <2>1. s \in DOMAIN x.lower
      BY <1>3 DEF Without, IsLower
    <2> QED
      BY <1>3, <1>5, <2>1 DEF Without, IsLower, IsSet
  <1>7. \A w : NoLine(w) # key
    BY <1>1 DEF NoLine
  <1>8. key[1] = 0
    BY <1>1
  <1>9. ASSUME Holds(m.lower[s], key), 0 \notin Tags(gone) PROVE Holds(x.lower[s], key)
    BY <1>5, <1>6, <1>8, <1>9 DEF Holds
  <1>10. ASSUME Holds(x.lower[s], key) PROVE Holds(m.lower[s], key) /\ 0 \notin Tags(gone)
    BY <1>5, <1>6, <1>7, <1>8, <1>10 DEF Holds
  <1>11. x.wrong \subseteq m.wrong
    BY DEF Without
  <1> QED
    BY <1>1, <1>4, <1>9, <1>10, <1>11 DEF IsKept

\* The machine between loads of CR3, and the target under PCID 0.
IsLoaded(x, target, q) ==
  /\ IsMmu(x) /\ IsLower(x) /\ IsRecent(x.recent) /\ Abroad(x, 0) /\ IsSwitched(x, target)
  /\ Counts(x.recent, q)
  /\ IF host.respects /\ q >= host.pcids
     THEN ~ Holds(SetAt(x, target), <<0, target>>) ELSE IsKept(x, target)

LEMMA CountsHasZero ==
  ASSUME host \in Hosts, NEW kept, IsRecent(kept), NEW q \in Nat, Counts(kept, q)
  PROVE  IF q < host.pcids THEN 0 \in ToSet(kept) ELSE 0 \notin ToSet(kept)
  <1>1. PICK size, most : size = Len(kept) /\ most = host.pcids
    OBVIOUS
  <1>2. /\ kept \in Seq(Nat) /\ size \in Nat /\ size >= 1 /\ size <= most /\ most \in Nat
        /\ DOMAIN kept = 1 .. size
    BY <1>1, HostIs DEF IsRecent
  <1>3. (q < most => q < size) /\ \A i \in 1 .. size : i <= q + 1 => kept[i] = q + 1 - i
    BY <1>1 DEF Counts
  <1>4. CASE q < most
    <2>1. q + 1 \in 1 .. size
      BY <1>2, <1>3, <1>4
    <2>2. kept[q + 1] = 0
      BY <1>2, <1>3, <2>1
    <2> QED
      BY <1>1, <1>2, <1>4, <2>1, <2>2 DEF ToSet
  <1>5. CASE ~ (q < most)
    <2>1. ASSUME NEW i \in 1 .. size PROVE kept[i] # 0
      BY <1>2, <1>3, <1>5, <2>1
    <2> QED
      BY <1>1, <1>2, <1>5, <2>1 DEF ToSet
  <1> QED
    BY <1>4, <1>5

\* Zero is forgotten exactly when it leaves the PCIDs kept.
LEMMA ZeroIsForgotten ==
  ASSUME host \in Hosts, NEW m, NEW p \in Nat
  PROVE  0 \in Tags(Forgotten(m, p)) <=>
           host.respects /\ 0 \in ToSet(m.recent) /\ 0 \notin ToSet(Recent(m.recent, p))
  <1>1. CASE host.respects
    BY <1>1 DEF Tags, Tag, Forgotten
  <1>2. CASE ~ host.respects
    BY <1>2 DEF Tags, Tag, Forgotten
  <1> QED
    BY <1>1, <1>2

LEMMA LoadOneMore ==
  ASSUME host \in Hosts, NEW m, NEW target \in Targets, NEW q \in Nat, q > 0,
         IsLoaded(m, target, q - 1)
  PROVE  IsLoaded(SetCr3(m, q, TRUE), target, q)
  <1>1. PICK x, gone, most : /\ x = SetCr3(m, q, TRUE) /\ gone = Forgotten(m, q)
                             /\ most = host.pcids
    OBVIOUS
  <1>2. /\ IsMmu(m) /\ IsLower(m) /\ IsRecent(m.recent) /\ Abroad(m, 0) /\ IsSwitched(m, target)
        /\ Counts(m.recent, q - 1) /\ most \in Nat /\ q - 1 \in Nat
    BY <1>1, HostIs DEF IsLoaded
  <1>3. /\ x.recent = Recent(m.recent, q) /\ IsRecent(x.recent)
        /\ Without(m, x, gone \cup {}) /\ gone \cup {} = gone
    BY <1>1, <1>2, Cr3Effect
  <1>4. Without(m, x, gone)
    BY <1>3
  <1>5. Counts(x.recent, q)
    BY <1>2, <1>3, RecentIs
  <1>6. IsMmu(x) /\ IsLower(x) /\ Abroad(x, 0) /\ IsSwitched(x, target)
    <2>1. x.swapped = m.swapped /\ \A t \in x.tlb : t \in m.tlb
      BY <1>4 DEF Without
    <2>2. Abroad(x, 0)
      BY <1>2, <1>4, WithoutKeepsAbroad
    <2> QED
      BY <1>2, <1>4, <2>1, <2>2 DEF Without, IsSwitched
  <1>7. 0 \in Tags(gone) <=> host.respects /\ q - 1 < most /\ ~ (q < most)
    <2>1. IF q - 1 < most THEN 0 \in ToSet(m.recent) ELSE 0 \notin ToSet(m.recent)
      BY <1>1, <1>2, CountsHasZero
    <2>2. IF q < most THEN 0 \in ToSet(x.recent) ELSE 0 \notin ToSet(x.recent)
      BY <1>1, <1>3, <1>5, CountsHasZero
    <2> QED
      BY <1>1, <1>3, <2>1, <2>2, ZeroIsForgotten
  <1>8. CASE host.respects /\ q - 1 >= most
    <2>1. ~ Holds(SetAt(m, target), <<0, target>>)
      BY <1>1, <1>8 DEF IsLoaded
    <2>2. ~ Holds(SetAt(x, target), <<0, target>>)
      BY <1>2, <1>4, <2>1, WithoutKept
    <2>3. q >= most
      BY <1>2, <1>8
    <2> QED
      BY <1>1, <1>3, <1>5, <1>6, <1>8, <2>2, <2>3 DEF IsLoaded
  <1>9. CASE ~ (host.respects /\ q - 1 >= most)
    <2>1. IsKept(m, target)
      BY <1>1, <1>9 DEF IsLoaded
    <2>2. CASE host.respects /\ q >= most
      <3>1. 0 \in Tags(gone)
        BY <1>2, <1>7, <1>9, <2>2
      <3>2. ~ Holds(SetAt(x, target), <<0, target>>)
        BY <1>2, <1>4, <3>1, WithoutKept
      <3> QED
        BY <1>1, <1>3, <1>5, <1>6, <2>2, <3>2 DEF IsLoaded
    <2>3. CASE ~ (host.respects /\ q >= most)
      <3>1. 0 \notin Tags(gone)
        BY <1>2, <1>7, <2>3
      <3>2. IsKept(x, target)
        BY <1>2, <1>4, <2>1, <3>1, WithoutKept
      <3> QED
        BY <1>1, <1>3, <1>5, <1>6, <2>3, <3>2 DEF IsLoaded
    <2> QED
      BY <2>2, <2>3
  <1> QED
    BY <1>8, <1>9

LEMMA LoadsCount ==
  ASSUME host \in Hosts, NEW m, NEW target \in Targets, IsLoaded(m, target, 0), NEW n \in Nat
  PROVE  IsLoaded(LoadPcids(m, n, TRUE), target, n)
  <1> DEFINE pcids == [q \in 1 .. n |-> q]
  <1>1. PICK at : /\ Runs([of |-> "cr3", noflush |-> TRUE], m, pcids, n, at)
                  /\ LoadPcids(m, n, TRUE) = at[n]
    BY Cr3Fold
  <1>2. at[0] = m /\ \A k \in 1 .. n : at[k] = SetCr3(at[k - 1], pcids[k], TRUE)
    BY <1>1 DEF Runs, Step
  <1>3. \A k \in 1 .. n : at[k] = SetCr3(at[k - 1], k, TRUE)
    BY <1>2
  <1> HIDE DEF pcids
  <1> DEFINE T == {k \in 0 .. n : ~ IsLoaded(at[k], target, k)}
  <1>4. T = {}
    <2> SUFFICES ASSUME T # {} PROVE FALSE
      OBVIOUS
    <2>1. PICK k \in T : \A j \in T : k <= j
      <3>1. T \in SUBSET Nat
        OBVIOUS
      <3> HIDE DEF T
      <3> QED
        BY <3>1, Minimum
    <2>2. k \in 1 .. n /\ k \in Nat /\ k > 0
      BY <1>2, <2>1
    <2>3. k - 1 \in 0 .. n /\ ~ (k <= k - 1)
      BY <2>2
    <2>4. PICK before : before = at[k - 1]
      OBVIOUS
    <2>5. IsLoaded(before, target, k - 1)
      BY <2>1, <2>3, <2>4
    <2>6. IsLoaded(SetCr3(before, k, TRUE), target, k)
      BY <2>2, <2>5, LoadOneMore
    <2> QED
      BY <1>3, <2>1, <2>2, <2>4, <2>6
  <1>5. n \in 0 .. n
    OBVIOUS
  <1>6. IsLoaded(at[n], target, n)
    BY <1>4, <1>5
  <1> HIDE DEF T
  <1> QED
    BY <1>1, <1>6

\* What the probe sees, once CR3 is back at PCID 0 ...
LEMMA ProbeSees ==
  ASSUME host \in Hosts, NEW m, m.pcid = 0, NEW target \in Targets, IsSwitched(m, target),
         IsKept(m, target) \/ ~ Holds(SetAt(m, target), <<0, target>>)
  PROVE  Swapped(m, <<target, 511>>) <=> ~ IsKept(m, target)
  <1>1. PICK pg, key : pg = <<target, 511>> /\ key = <<0, target>>
    OBVIOUS
  <1>2. pg[1] = target /\ Key(m, target) = key
    BY <1>1 DEF Key, Tag
  <1>3. {t \in m.tlb : t.pcid = m.pcid /\ t.page = pg} = {}
    BY <1>1 DEF IsSwitched
  <1>4. m.swapped = target
    BY DEF IsSwitched
  <1>5. Swapped(m, pg) <=> IF Holds(SetAt(m, target), key) THEN key \in m.wrong ELSE TRUE
    BY <1>2, <1>3, <1>4 DEF Swapped
  <1> QED
    BY <1>1, <1>5 DEF IsKept

LEMMA CountedProbe ==
  ASSUME host \in Hosts, NEW m, NEW target \in Targets, NEW n \in Nat, IsLoaded(m, target, n)
  PROVE  Swapped(SetCr3(m, 0, TRUE), <<target, 511>>) <=> host.respects /\ n >= host.pcids
  <1>1. PICK x, gone : x = SetCr3(m, 0, TRUE) /\ gone = Forgotten(m, 0)
    OBVIOUS
  <1>2. IsMmu(m) /\ IsLower(m) /\ IsRecent(m.recent) /\ IsSwitched(m, target)
    BY DEF IsLoaded
  <1>3. /\ x.pcid = 0 /\ x.recent = Recent(m.recent, 0) /\ IsRecent(x.recent) /\ x.recent[1] = 0
        /\ Without(m, x, gone \cup {}) /\ gone \cup {} = gone
    BY <1>1, <1>2, Cr3Effect
  <1>4. Without(m, x, gone)
    BY <1>3
  <1>5. 0 \in ToSet(x.recent)
    <2>1. 1 \in DOMAIN x.recent
      BY <1>3, HostIs DEF IsRecent
    <2> QED
      BY <1>3, <2>1 DEF ToSet
  <1>6. 0 \notin Tags(gone)
    BY <1>1, <1>3, <1>5, ZeroIsForgotten
  <1>7. IsSwitched(x, target)
    BY <1>2, <1>4 DEF Without, IsSwitched
  <1>8. CASE host.respects /\ n >= host.pcids
    <2>1. ~ Holds(SetAt(x, target), <<0, target>>)
      BY <1>2, <1>4, <1>8, WithoutKept DEF IsLoaded
    <2> QED
      BY ZenonT(60), <1>1, <1>3, <1>7, <1>8, <2>1, ProbeSees DEF IsKept
  <1>9. CASE ~ (host.respects /\ n >= host.pcids)
    <2>1. IsKept(x, target)
      BY <1>2, <1>4, <1>6, <1>9, WithoutKept DEF IsLoaded
    <2> QED
      BY <1>1, <1>3, <1>7, <1>9, <2>1, ProbeSees
  <1> QED
    BY <1>8, <1>9

\* ... after a load without NOFLUSH ...
LEMMA FlushedProbe ==
  ASSUME host \in Hosts, NEW m, IsMmu(m), IsLower(m), IsRecent(m.recent),
         NEW target \in Targets, IsSwitched(m, target)
  PROVE  Swapped(SetCr3(m, 0, FALSE), <<target, 511>>)
  <1>1. PICK x, gone : x = SetCr3(m, 0, FALSE) /\ gone = Forgotten(m, 0) \cup {0}
    OBVIOUS
  <1>2. x.pcid = 0 /\ Without(m, x, gone)
    BY <1>1, Cr3Effect
  <1>3. 0 \in Tags(gone)
    BY <1>1 DEF Tags, Tag
  <1>4. ~ Holds(SetAt(x, target), <<0, target>>)
    BY <1>2, <1>3, WithoutKept
  <1>5. IsSwitched(x, target)
    BY <1>2 DEF Without, IsSwitched
  <1> QED
    BY <1>1, <1>2, <1>4, <1>5, ProbeSees DEF IsKept

\* ... and under another PCID.
LEMMA ForeignProbe ==
  ASSUME host \in Hosts, NEW m, IsMmu(m), IsLower(m), IsRecent(m.recent), Abroad(m, 0),
         NEW target \in Targets, IsKept(m, target), IsSwitched(m, target),
         NEW q \in Nat, q > 0
  PROVE  Swapped(SetCr3(m, q, TRUE), <<target, 511>>) = host.respects
  <1>1. PICK x, gone : x = SetCr3(m, q, TRUE) /\ gone = Forgotten(m, q)
    OBVIOUS
  <1>2. x.pcid = q /\ Without(m, x, gone \cup {}) /\ gone \cup {} = gone
    BY <1>1, Cr3Effect
  <1>3. Without(m, x, gone)
    BY <1>2
  <1>4. Abroad(x, 0) /\ IsLower(x) /\ x.swapped = target
    <2>1. Abroad(x, 0)
      BY <1>3, WithoutKeepsAbroad
    <2> QED
      BY <1>3, <2>1 DEF Without, IsSwitched
  <1>5. PICK pg, key, known : /\ pg = <<target, 511>> /\ key = Key(x, target)
                              /\ known = {t \in x.tlb : t.pcid = x.pcid /\ t.page = pg}
    OBVIOUS
  <1>6. pg[1] = target
    BY <1>5
  <1>7. Swapped(x, pg) = IF known # {} THEN \A t \in known : t.swapped
                         ELSE IF Holds(SetAt(x, target), key) THEN key \in x.wrong
                         ELSE x.swapped = target
    BY <1>5, <1>6 DEF Swapped
  <1>8. known # {} => \A t \in known : t.swapped = host.respects
    BY <1>2, <1>4, <1>5 DEF Abroad
  <1>9. CASE known # {}
    <2>1. Swapped(x, pg) = \A t \in known : t.swapped
      BY <1>7, <1>9
    <2>2. (\A t \in known : t.swapped) = host.respects
      BY <1>8, <1>9, HostIs
    <2> QED
      BY <1>1, <1>5, <2>1, <2>2
  <1>10. CASE known = {} /\ host.respects
    <2>1. key = <<q, target>>
      BY <1>2, <1>5, <1>10 DEF Key, Tag
    <2>2. ASSUME Holds(SetAt(x, target), key) PROVE key \in x.wrong
      <3>1. PICK s : s = target % host.lower.sets
        OBVIOUS
      <3>2. SetAt(x, target) = x.lower[s] /\ s \in 0 .. host.lower.sets - 1
        BY <3>1, TargetIs, HostIs DEF SetAt
      <3>3. s \in DOMAIN x.lower /\ DOMAIN x.lower[s].line = Positions(host.lower.policy)
        BY <1>4, <3>2 DEF IsLower, IsSet
      <3>4. key \in LinesOf(x)
        BY <1>4, <2>2, <3>2, <3>3, LineOf DEF Holds
      <3> QED
        BY <1>4, <1>10, <2>1, <3>4 DEF Abroad
    <2>3. Swapped(x, pg) = TRUE
      BY <1>4, <1>7, <1>10, <2>2
    <2> QED
      BY <1>1, <1>5, <1>10, <2>3, HostIs
  <1>11. CASE known = {} /\ ~ host.respects
    <2>1. key = <<0, target>> /\ gone = {}
      BY <1>1, <1>5, <1>11 DEF Key, Tag, Forgotten
    <2>2. IsKept(x, target)
      BY <1>3, <2>1, WithoutKept DEF Tags
    <2>3. Holds(SetAt(x, target), key) /\ key \notin x.wrong
      BY <2>1, <2>2 DEF IsKept
    <2>4. Swapped(x, pg) = (key \in x.wrong)
      BY <1>7, <1>11, <2>3
    <2>5. (key \in x.wrong) = FALSE /\ host.respects = FALSE
      BY <1>11, <2>3, HostIs
    <2> QED
      BY ONLY <1>1, <1>5, <2>4, <2>5
  <1> QED
    BY <1>9, <1>10, <1>11

LEMMA ForeignLoad ==
  ASSUME host \in Hosts, NEW m, IsMmu(m), IsLower(m), IsRecent(m.recent), Abroad(m, 0),
         NEW target \in Targets, IsKept(m, target), IsSwitched(m, target),
         NEW q \in Nat, q > 0, NEW x, x = SetCr3(m, q, TRUE)
  PROVE  Swapped(x, <<target, 511>>) <=> host.respects
  <1>1. Swapped(SetCr3(m, q, TRUE), <<target, 511>>) = host.respects
    BY ZenonT(60), ForeignProbe
  <1> QED
    BY ONLY <1>1, x = SetCr3(m, q, TRUE)

LEMMA ExperimentIs ==
  ASSUME running \in 1 .. 6
  PROVE  /\ UsesPcids <=> running > 3
         /\ running < 4 => Experiment.name \in {"nesting", "huge_tlb", "huge_eviction"}
         /\ running > 3 => ~ Experiment.huge
         /\ running = 4 => /\ Experiment.name = "pcids_flush"
                           /\ Experiment.pcids = "count" /\ ~ Experiment.noflush
         /\ running = 5 => /\ Experiment.name = "pcids_noflush"
                           /\ Experiment.pcids = "count" /\ Experiment.noflush = TRUE
         /\ running = 6 => /\ Experiment.name = "respect"
                           /\ Experiment.pcids = "any" /\ Experiment.noflush = TRUE
  <1>1. running \in {1, 2, 3, 4, 5, 6}
    OBVIOUS
  <1>2. CASE running = 1
    BY <1>2 DEF UsesPcids, Experiment, LateProgram, TestNesting
  <1>3. CASE running = 2
    BY <1>3 DEF UsesPcids, Experiment, LateProgram, TestHugeTlb
  <1>4. CASE running = 3
    BY <1>4 DEF UsesPcids, Experiment, LateProgram, TestHugePageEviction
  <1>5. CASE running = 4
    BY <1>5 DEF UsesPcids, Experiment, LateProgram, TestSupportedPcids
  <1>6. CASE running = 5
    BY <1>6 DEF UsesPcids, Experiment, LateProgram, TestSupportedPcids
  <1>7. CASE running = 6
    BY <1>7 DEF UsesPcids, Experiment, LateProgram, TestPcidRespect
  <1> QED
    BY Zenon, <1>1, <1>2, <1>3, <1>4, <1>5, <1>6, <1>7

LEMMA NamesAre ==
  /\ Len(LateProgram) = 6
  /\ {LateProgram[n].name : n \in DOMAIN LateProgram} =
       {"nesting", "huge_tlb", "huge_eviction", "pcids_flush", "pcids_noflush", "respect"}
  <1>1. Len(LateProgram) = 6 /\ DOMAIN LateProgram = 1 .. 6
    BY DEF LateProgram
  <1>2. /\ LateProgram[1].name = "nesting" /\ LateProgram[2].name = "huge_tlb"
        /\ LateProgram[3].name = "huge_eviction" /\ LateProgram[4].name = "pcids_flush"
        /\ LateProgram[5].name = "pcids_noflush" /\ LateProgram[6].name = "respect"
    BY DEF LateProgram, TestNesting, TestHugeTlb, TestHugePageEviction, TestSupportedPcids,
           TestPcidRespect
  <1>3. 1 .. 6 = {1, 2, 3, 4, 5, 6}
    OBVIOUS
  <1>4. {LateProgram[n].name : n \in DOMAIN LateProgram} =
          {LateProgram[1].name, LateProgram[2].name, LateProgram[3].name, LateProgram[4].name,
           LateProgram[5].name, LateProgram[6].name}
    BY <1>1, <1>3
  <1> QED
    BY <1>1, <1>2, <1>4

LEMMA SwappedIsBoolean ==
  ASSUME NEW m, NEW pg
  PROVE  Swapped(m, pg) \in BOOLEAN
  <1> DEFINE known == {t \in m.tlb : t.pcid = m.pcid /\ t.page = pg}
  <1>1. CASE known # {}
    <2>1. Swapped(m, pg) = \A t \in known : t.swapped
      BY Zenon, <1>1 DEF Swapped
    <2> QED
      BY <2>1
  <1>2. CASE known = {} /\ Holds(SetAt(m, pg[1]), Key(m, pg[1]))
    <2>1. Swapped(m, pg) = (Key(m, pg[1]) \in m.wrong)
      BY <1>2 DEF Swapped
    <2> QED
      BY <2>1
  <1>3. CASE known = {} /\ ~ Holds(SetAt(m, pg[1]), Key(m, pg[1]))
    <2>1. Swapped(m, pg) = (m.swapped = pg[1])
      BY <1>3 DEF Swapped
    <2> QED
      BY <2>1
  <1> QED
    BY <1>1, <1>2, <1>3

\* What has been flushed is abroad of any PCID.
LEMMA CleanIsAbroad ==
  ASSUME NEW m, IsClean(m), Abroad(m, m.pcid), NEW home
  PROVE  Abroad(m, home)
  <1>1. \A t \in m.tlb : t.swapped = host.respects
    BY DEF IsClean, Abroad
  <1>2. ASSUME host.respects, NEW key \in LinesOf(m) PROVE key[1] = -1 \/ key \in m.wrong
    BY <1>2 DEF IsClean, Abroad, Tag
  <1> QED
    BY <1>1, <1>2 DEF Abroad

\* What an operator says of the next state's machine.
LEMMA NextAre ==
  ASSUME host' = host
  PROVE  /\ IsLower(mmu)' <=> IsLower(mmu')
         /\ IsRecent(mmu.recent)' <=> IsRecent(mmu'.recent)
         /\ Abroad(mmu, Home)' <=> Abroad(mmu', Home')
         /\ IsClean(mmu)' <=> IsClean(mmu')
         /\ IsKept(mmu, goal)' <=> IsKept(mmu', goal')
         /\ IsSwitched(mmu, goal)' <=> IsSwitched(mmu', goal')
  <1>1. IsLower(mmu)' <=> IsLower(mmu')
    BY DEF IsLower
  <1>2. IsRecent(mmu.recent)' <=> IsRecent(mmu'.recent)
    BY DEF IsRecent
  <1>3. LinesOf(mmu)' = LinesOf(mmu')
    BY DEF LinesOf
  <1>4. Abroad(mmu, Home)' <=> Abroad(mmu', Home')
    BY <1>3 DEF Abroad
  <1>5. IsClean(mmu)' <=> IsClean(mmu')
    BY <1>3 DEF IsClean, Tag
  <1>6. IsKept(mmu, goal)' <=> IsKept(mmu', goal')
    BY DEF IsKept, SetAt, InHugeTlb, Holds
  <1>7. IsSwitched(mmu, goal)' <=> IsSwitched(mmu', goal')
    BY DEF IsSwitched
  <1> QED
    BY <1>1, <1>2, <1>4, <1>5, <1>6, <1>7

LEMMA NextSwapped ==
  ASSUME host' = host, NEW pg, (ProbePage(goal))' = pg
  PROVE  Swapped(mmu, ProbePage(goal))' <=> Swapped(mmu', pg)
  BY DEF Swapped, SetAt, InHugeTlb, Holds, Key, Tag

\* A machine with a shape.
IsShaped(m) == IsMmu(m) /\ IsLower(m) /\ IsRecent(m.recent)

LEMMA SwitchKeeps ==
  ASSUME NEW m, IsShaped(m), NEW home, Abroad(m, home), NEW entry
  PROVE  LET x == [m EXCEPT !.swapped = entry]
         IN  /\ IsShaped(x) /\ Abroad(x, home) /\ x.swapped = entry /\ x.pcid = m.pcid
             /\ x.tlb = m.tlb /\ x.wrong = m.wrong /\ x.lower = m.lower /\ x.recent = m.recent
  <1>1. PICK x : x = [m EXCEPT !.swapped = entry]
    OBVIOUS
  <1>2. /\ IsMmu(x) /\ x.swapped = entry /\ x.pcid = m.pcid
        /\ x.tlb = m.tlb /\ x.wrong = m.wrong /\ x.lower = m.lower /\ x.recent = m.recent
    BY <1>1 DEF IsShaped, IsMmu
  <1>3. IsLower(x) /\ IsRecent(x.recent)
    BY <1>2 DEF IsShaped, IsLower
  <1>4. \A key \in LinesOf(x) : key \in LinesOf(m)
    BY <1>2, LineOf DEF LinesOf, IsShaped
  <1>5. Abroad(x, home)
    BY <1>2, <1>4 DEF Abroad
  <1> QED
    BY <1>1, <1>2, <1>3, <1>5 DEF IsShaped

LEMMA LoadKeepsShape ==
  ASSUME host \in Hosts, NEW m, IsShaped(m), NEW p \in Nat, NEW noflush \in BOOLEAN,
         NEW home, Abroad(m, home)
  PROVE  LET x == SetCr3(m, p, noflush)
         IN  /\ IsShaped(x) /\ x.recent[1] = p /\ x.pcid = p
             /\ Abroad(x, home) /\ x.swapped = m.swapped
  BY LoadKeeps DEF IsShaped

LEMMA LoadOfZero ==
  ASSUME host \in Hosts, NEW m, IsShaped(m), NEW noflush \in BOOLEAN,
         NEW home, Abroad(m, home)
  PROVE  LET x == SetCr3(m, 0, noflush)
         IN  /\ IsShaped(x) /\ x.recent[1] = 0 /\ x.pcid = 0
             /\ Abroad(x, home) /\ x.swapped = m.swapped
  <1>1. PICK p \in Nat : p = 0
    OBVIOUS
  <1> QED
    BY <1>1, LoadKeepsShape

LEMMA PrimePcids ==
  ASSUME host \in Hosts, PcidInv, LateInv, PrimeTarget
  PROVE  /\ IsShaped(mmu') /\ Abroad(mmu', mmu'.pcid) /\ goal' \in Targets
         /\ UsesPcids => /\ mmu'.pcid = 0 /\ mmu'.recent[1] = 0
                         /\ IsKept(mmu', goal') /\ IsSwitched(mmu', goal')
  <1>1. /\ lateStep = "prime" /\ mmu.pcid \in {0, OwnPcid} /\ OwnPcid \in Nat
        /\ IsShaped(mmu) /\ Abroad(mmu, mmu.pcid) /\ IsClean(mmu) /\ mmu.swapped = -1
        /\ running \in 1 .. 6
    BY LateAssumption, NamesAre
       DEF PrimeTarget, PcidInv, MmuInv, ReturnedInv, LateInv, NoStaleTranslation, Home, IsShaped
  <1>2. PICK home : home = IF UsesPcids THEN SetCr3(mmu, 0, FALSE) ELSE mmu
    OBVIOUS
  <1>3. PICK p : p = home.pcid
    OBVIOUS
  <1>4. /\ IsShaped(home) /\ p \in Nat /\ Abroad(home, p) /\ home.swapped = -1
        /\ UsesPcids => p = 0
    <2>1. CASE UsesPcids
      <3>1. Abroad(mmu, 0)
        BY <1>1, CleanIsAbroad
      <3>2. home = SetCr3(mmu, 0, FALSE)
        BY <1>2, <2>1
      <3>3. IsShaped(home) /\ home.pcid = 0 /\ Abroad(home, 0) /\ home.swapped = mmu.swapped
        BY <1>1, <3>1, <3>2, LoadOfZero
      <3> QED
        BY <1>1, <1>3, <3>3
    <2>2. CASE ~ UsesPcids
      BY <1>1, <1>2, <1>3, <2>2
    <2> QED
      BY <2>1, <2>2
  <1>5. PICK clean : clean = SetCr3(home, p, FALSE)
    OBVIOUS
  <1>6. /\ IsShaped(clean) /\ clean.pcid = p /\ clean.recent[1] = p
        /\ Abroad(clean, p) /\ clean.swapped = -1
    BY <1>4, <1>5, LoadKeepsShape
  <1>7. IsClean(clean)
    BY <1>4, <1>5, LoadIsClean DEF IsShaped
  <1>8. PICK target \in Targets :
          /\ goal' = target
          /\ mmu' = [AccessPage(clean, PrimePage(target)) EXCEPT !.swapped = GoalEntry(target)]
    BY <1>2, <1>3, <1>5 DEF PrimeTarget, FlushAll
  <1>9. PICK pg : pg = PrimePage(target)
    OBVIOUS
  <1>10. pg[1] \in Nat /\ GoalEntry(target) = pg[1]
    BY <1>9, TargetIs, LateAssumption DEF PrimePage, GoalEntry
  <1>11. PICK x : x = AccessPage(clean, pg)
    OBVIOUS
  <1>12. /\ IsShaped(x) /\ x.pcid = p /\ x.recent = clean.recent /\ Abroad(x, p)
    BY <1>4, <1>6, <1>10, <1>11, AccessEffect DEF IsShaped
  <1>13. mmu' = [x EXCEPT !.swapped = pg[1]]
    BY <1>8, <1>9, <1>10, <1>11
  <1>14. /\ IsShaped(mmu') /\ Abroad(mmu', p) /\ mmu'.swapped = pg[1] /\ mmu'.pcid = p
         /\ mmu'.tlb = x.tlb /\ mmu'.wrong = x.wrong /\ mmu'.lower = x.lower
         /\ mmu'.recent = x.recent
    BY <1>12, <1>13, SwitchKeeps
  <1>15. ASSUME UsesPcids
         PROVE  /\ mmu'.pcid = 0 /\ mmu'.recent[1] = 0
                /\ IsKept(mmu', goal') /\ IsSwitched(mmu', goal')
    <2>1. pg = <<target, 0>> /\ p = 0 /\ pg[1] = target
      BY <1>1, <1>4, <1>9, <1>15, ExperimentIs DEF PrimePage
    <2>2. IsKept(x, target) /\ \A t \in x.tlb : t.pcid = 0 => t.page # <<target, 511>>
      BY <1>6, <1>7, <1>11, <2>1, PrimingKeeps DEF IsShaped
    <2>3. IsKept(mmu', target)
      <3>1. ~ InHugeTlb(target)
        BY TargetIs
      <3>2. SetAt(mmu', target) = SetAt(x, target)
        BY <1>14, <3>1 DEF SetAt
      <3> QED
        BY <1>14, <2>2, <3>2 DEF IsKept
    <2>4. IsSwitched(mmu', target)
      BY <1>14, <2>1, <2>2 DEF IsSwitched
    <2> QED
      BY <1>6, <1>8, <1>12, <1>14, <2>1, <2>3, <2>4
  <1> QED
    BY <1>8, <1>14, <1>15

LEMMA NoLoads ==
  ASSUME NEW m, NEW noflush
  PROVE  LoadPcids(m, 0, noflush) = m
  <1>1. PICK at : /\ Runs([of |-> "cr3", noflush |-> noflush], m, [q \in 1 .. 0 |-> q], 0, at)
                  /\ LoadPcids(m, 0, noflush) = at[0]
    BY Cr3Fold
  <1>2. at[0] = m
    BY <1>1 DEF Runs
  <1> QED
    BY <1>1, <1>2

\* The pages that are walked have entries.
LEMMA ChasedEntries ==
  ASSUME host \in Hosts, NEW n \in Nat, DOMAIN Chased = 1 .. n, NEW k \in 1 .. n
  PROVE  Chased[k][1] \in Nat
  <1>1. HugeBase \in Nat /\ HugePages \in Nat \ {0, 1} /\ Fan \in Nat
    BY LateAssumption
  <1>2. \A j \in DOMAIN NestingChain : NestingChain[j][1] \in Nat
    <2>1. PICK step_ \in Nat : step_ = host.upper.sets
      BY HostIs
    <2> TAKE j \in DOMAIN NestingChain
    <2>2. NestingChain[j] = <<j * step_ * Fan, 0>> /\ j \in Nat
      BY <2>1 DEF NestingChain
    <2>3. j * step_ \in Nat
      BY <2>1, <2>2
    <2>4. j * step_ * Fan \in Nat
      BY <1>1, <2>3
    <2> QED
      BY <2>2, <2>4
  <1> DEFINE page(j) == <<HugeBase + (IF j = 1 THEN 0 ELSE j), 0>>
  <1>3. \A j \in Nat : page(j)[1] \in Nat
    BY <1>1
  <1>4. HugeChain = [j \in 1 .. HugePages - 1 |-> page(j)]
    BY DEF HugeChain
  <1>5. PICK S : S = {page(j) : j \in 1 .. HugePages - 1}
    OBVIOUS
  <1>6. \A pg \in S : pg[1] \in Nat
    BY <1>3, <1>5
  <1>7. HugeChain \in Seq(S) /\ Len(HugeChain) = HugePages - 1
    <2>1. HugePages - 1 \in Nat
      BY <1>1
    <2> QED
      BY <1>4, <1>5, <2>1
  <1>8. Tail(HugeChain) \in Seq(S)
    BY <1>1, <1>7
  <1>9. Chased = NestingChain \/ Chased = Tail(HugeChain) \/ Chased = HugeChain
    BY DEF Chased
  <1>10. CASE Chased = NestingChain
    <2>1. k \in DOMAIN NestingChain
      BY <1>10
    <2> QED
      BY <1>2, <1>10, <2>1
  <1>11. CASE Chased \in Seq(S)
    <2>1. Chased[k] \in S
      BY <1>11
    <2> QED
      BY <1>6, <2>1
  <1> QED
    BY <1>7, <1>8, <1>9, <1>10, <1>11

LEMMA ChasePcids ==
  ASSUME host \in Hosts, PcidInv, LateInv, ChaseOrSwitchPcids, UsesPcids
  PROVE  /\ IsShaped(mmu') /\ Abroad(mmu', 0)
         /\ mmu'.pcid \in Nat /\ (Experiment.pcids = "count" => mmu'.pcid = 0)
         /\ Swapped(mmu', <<goal, 511>>) <=> Misses
  <1>1. /\ lateStep = "chase" /\ IsShaped(mmu) /\ Abroad(mmu, 0) /\ mmu.pcid = 0
        /\ mmu.recent[1] = 0 /\ IsKept(mmu, goal) /\ IsSwitched(mmu, goal)
        /\ goal \in Targets /\ count \in Nat /\ running \in 1 .. 6
        /\ Experiment.name = "pcids_flush" => count = 0
    <2>1. lateStep = "chase" /\ IsShaped(mmu)
      BY DEF ChaseOrSwitchPcids, PcidInv, MmuInv, LateInv, IsShaped
    <2>2. /\ mmu.pcid = 0 /\ mmu.recent[1] = 0 /\ IsKept(mmu, goal) /\ IsSwitched(mmu, goal)
          /\ goal \in Targets /\ (Experiment.name = "pcids_flush" => count = 0)
      BY <2>1 DEF PcidInv, MmuInv, CountInv
    <2>3. Abroad(mmu, 0)
      BY <2>1, <2>2 DEF PcidInv, MmuInv, Home
    <2>4. count \in Nat
      BY DEF LateInv
    <2>5. running \in 1 .. 6
      BY <2>1, NamesAre DEF PcidInv, ReturnedInv
    <2> QED
      BY <2>1, <2>2, <2>3, <2>4, <2>5
  <1>2. running \in {4, 5, 6}
    <2>1. running > 3 /\ running \in 1 .. 6
      BY <1>1, ExperimentIs
    <2> QED
      BY ONLY <2>1
  <1>3. CASE running = 4
    <2>1. /\ Experiment.pcids = "count" /\ ~ Experiment.noflush /\ count = 0
      BY <1>1, <1>3, ExperimentIs
    <2>2. mmu' = SetCr3(mmu, 0, FALSE)
      <3>1. LoadPcids(mmu, 0, Experiment.noflush) = mmu
        BY NoLoads
      <3>2. Experiment.noflush = FALSE
        BY <1>3 DEF Experiment, LateProgram, TestSupportedPcids
      <3> QED
        BY <2>1, <3>1, <3>2 DEF ChaseOrSwitchPcids
    <2>3. IsShaped(mmu') /\ mmu'.pcid = 0 /\ Abroad(mmu', 0)
      BY <1>1, <2>2, LoadOfZero
    <2>4. Swapped(mmu', <<goal, 511>>)
      BY ZenonT(60), <1>1, <2>2, FlushedProbe DEF IsShaped
    <2> QED
      BY <2>1, <2>3, <2>4 DEF Misses
  <1>4. CASE running = 5
    <2>1. /\ Experiment.pcids = "count" /\ Experiment.noflush = TRUE
      BY <1>1, <1>4, ExperimentIs
    <2>2. PICK loaded : loaded = LoadPcids(mmu, count, TRUE)
      OBVIOUS
    <2>3. mmu' = SetCr3(loaded, 0, TRUE)
      BY <2>1, <2>2 DEF ChaseOrSwitchPcids
    <2>4. IsLoaded(mmu, goal, 0)
      <3>1. Counts(mmu.recent, 0)
        BY <1>1 DEF Counts, IsShaped, IsRecent
      <3>2. ~ (0 >= host.pcids)
        BY HostIs
      <3> QED
        BY <1>1, <3>1, <3>2 DEF IsLoaded, IsShaped
    <2>5. IsLoaded(loaded, goal, count)
      BY <1>1, <2>2, <2>4, LoadsCount
    <2>6. IsShaped(mmu') /\ mmu'.pcid = 0 /\ Abroad(mmu', 0)
      BY <2>3, <2>5, LoadOfZero DEF IsShaped, IsLoaded
    <2>7. Swapped(mmu', <<goal, 511>>) <=> host.respects /\ count >= host.pcids
      BY ZenonT(60), <1>1, <2>3, <2>5, CountedProbe
    <2> QED
      BY <2>1, <2>6, <2>7 DEF Misses
  <1>5. CASE running = 6
    <2>1. Experiment.pcids = "any" /\ Experiment.noflush = TRUE
      BY <1>1, <1>5, ExperimentIs
    <2>2. PICK q \in 1 .. PcidEnd - 1 : mmu' = SetCr3(mmu, q, TRUE)
      BY <2>1 DEF ChaseOrSwitchPcids
    <2>3. q \in Nat /\ q > 0
      BY <2>2, LateAssumption
    <2>4. IsShaped(mmu') /\ mmu'.pcid = q /\ Abroad(mmu', 0)
      BY <1>1, <2>2, <2>3, LoadKeepsShape
    <2>5. IsMmu(mmu) /\ IsLower(mmu) /\ IsRecent(mmu.recent)
      BY <1>1 DEF IsShaped
    <2>6. Swapped(mmu', <<goal, 511>>) <=> host.respects
      <3>1. PICK m, target, p, x : m = mmu /\ target = goal /\ p = q /\ x = mmu'
        OBVIOUS
      <3>2. host \in Hosts /\ IsMmu(m) /\ IsLower(m) /\ IsRecent(m.recent) /\ Abroad(m, 0)
        BY <1>1, <2>5, <3>1
      <3>3. target \in Targets /\ IsKept(m, target) /\ IsSwitched(m, target)
        BY <1>1, <3>1
      <3>4. p \in Nat /\ p > 0 /\ x = SetCr3(m, p, TRUE)
        BY <2>2, <2>3, <3>1
      <3>5. Swapped(x, <<target, 511>>) <=> host.respects
        BY ONLY ZenonT(60), <3>2, <3>3, <3>4, ForeignLoad
      <3> QED
        BY <3>1, <3>5
    <2> QED
      BY <2>1, <2>3, <2>4, <2>5, <2>6 DEF Misses
  <1> QED
    BY <1>2, <1>3, <1>4, <1>5

\* An experiment without PCIDs walks pages.
LEMMA ChasePages ==
  ASSUME host \in Hosts, PcidInv, LateInv, ChaseOrSwitchPcids, ~ UsesPcids
  PROVE  IsShaped(mmu') /\ Abroad(mmu', mmu'.pcid) /\ goal \in Targets
  <1>1. /\ lateStep = "chase" /\ IsShaped(mmu) /\ goal \in Targets
        /\ mmu.pcid \in {0, OwnPcid} /\ mmu' = ReadPages(mmu, Chased)
    BY DEF ChaseOrSwitchPcids, PcidInv, MmuInv, LateInv, IsShaped, UsesPcids
  <1>2. PICK pcid : pcid = mmu.pcid
    OBVIOUS
  <1>3. Abroad(mmu, pcid) /\ pcid \in Nat
    <2>1. OwnPcid \in Nat
      BY LateAssumption
    <2> QED
      BY <1>1, <1>2, <2>1 DEF PcidInv, MmuInv, Home
  <1>4. PICK n \in Nat : DOMAIN Chased = 1 .. n
    BY ChasedIsFinite
  <1>5. \A k \in 1 .. n : Chased[k][1] \in Nat
    BY <1>4, ChasedEntries
  <1>6. PICK m, x, pages : m = mmu /\ x = mmu' /\ pages = Chased
    OBVIOUS
  <1>7. /\ IsMmu(m) /\ IsLower(m) /\ IsRecent(m.recent) /\ m.pcid = pcid /\ Abroad(m, m.pcid)
        /\ x = ReadPages(m, pages) /\ DOMAIN pages = 1 .. n /\ \A k \in 1 .. n : pages[k][1] \in Nat
    BY <1>1, <1>2, <1>3, <1>4, <1>5, <1>6 DEF IsShaped
  <1>8. /\ IsMmu(x) /\ IsLower(x) /\ x.pcid = m.pcid /\ x.recent = m.recent /\ Abroad(x, m.pcid)
    BY <1>3, <1>7, WalkKeepsAbroad
  <1> QED
    BY <1>1, <1>6, <1>7, <1>8 DEF IsShaped

LEMMA ProbePcids ==
  ASSUME host \in Hosts, PcidInv, LateInv, ProbeTarget
  PROVE  /\ IsShaped(mmu') /\ Abroad(mmu', mmu'.pcid) /\ IsClean(mmu') /\ mmu'.swapped = -1
         /\ UsesPcids => missed' = IF Misses THEN round + 1 ELSE 0
  <1>1. /\ lateStep = "probe" /\ IsShaped(mmu) /\ goal \in Targets /\ running \in 1 .. 6
        /\ UsesPcids \/ mmu.pcid \in {0, OwnPcid}
    BY NamesAre DEF ProbeTarget, PcidInv, MmuInv, ReturnedInv, LateInv, IsShaped
  <1>2. PICK home : home = IF UsesPcids THEN 0 ELSE mmu.pcid
    OBVIOUS
  <1>3. Abroad(mmu, home) /\ home \in Nat /\ mmu.pcid \in Nat
    <2>1. OwnPcid \in Nat
      BY LateAssumption
    <2>2. UsesPcids => mmu.pcid \in Nat
      BY <1>1 DEF PcidInv, CountInv
    <2> QED
      BY <1>1, <1>2, <2>1, <2>2 DEF PcidInv, MmuInv, Home
  <1>4. PICK pg : pg = ProbePage(goal)
    OBVIOUS
  <1>5. pg[1] \in Nat
    BY <1>1, <1>4, TargetIs, LateAssumption DEF ProbePage
  <1>6. ASSUME UsesPcids PROVE Swapped(mmu, pg) <=> Misses
    BY <1>1, <1>4, <1>6 DEF PcidInv, CountInv
  <1>7. mmu.pcid = home \/ Swapped(mmu, pg) = host.respects
    <2>1. CASE ~ UsesPcids
      BY <1>2, <2>1
    <2>2. CASE UsesPcids /\ Experiment.pcids = "count"
      BY <1>1, <1>2, <2>2 DEF PcidInv, CountInv
    <2>3. CASE UsesPcids /\ Experiment.pcids # "count"
      <3>1. running = 6
        <4>1. running > 3 /\ running # 4 /\ running # 5
          BY <1>1, <2>3, ExperimentIs
        <4> QED
          BY <1>1, <4>1
      <3>2. Misses <=> host.respects
        BY <1>1, <3>1, ExperimentIs DEF Misses
      <3>3. Swapped(mmu, pg) \in BOOLEAN /\ host.respects \in BOOLEAN
        BY SwappedIsBoolean, HostIs
      <3>4. Swapped(mmu, pg) <=> host.respects
        BY Zenon, <1>6, <2>3, <3>2
      <3> QED
        BY ONLY <3>3, <3>4
    <2> QED
      BY <2>1, <2>2, <2>3
  <1>8. PICK probed : probed = AccessPage(mmu, pg)
    OBVIOUS
  <1>9. IsShaped(probed) /\ probed.pcid = mmu.pcid /\ Abroad(probed, home)
    BY <1>1, <1>3, <1>5, <1>7, <1>8, AccessEffect DEF IsShaped
  <1>10. PICK back : back = [probed EXCEPT !.swapped = -1]
    OBVIOUS
  <1>11. IsShaped(back) /\ back.pcid = mmu.pcid /\ Abroad(back, home) /\ back.swapped = -1
    <2>1. PICK none : none = -1
      OBVIOUS
    <2> QED
      BY <1>9, <1>10, <2>1, SwitchKeeps
  <1>12. PICK set : set = IF UsesPcids THEN SetCr3(back, 0, FALSE) ELSE back
    OBVIOUS
  <1>13. IsShaped(set) /\ set.pcid = home /\ Abroad(set, home) /\ set.swapped = -1
    BY <1>2, <1>11, <1>12, LoadOfZero
  <1>14. mmu' = SetCr3(set, home, FALSE)
    <2>1. mmu' = FlushAll(set)
      BY <1>4, <1>8, <1>10, <1>12 DEF ProbeTarget
    <2> QED
      BY <1>13, <2>1 DEF FlushAll
  <1>15. IsShaped(mmu') /\ mmu'.pcid = home /\ Abroad(mmu', home) /\ mmu'.swapped = -1
    BY <1>3, <1>13, <1>14, LoadKeepsShape
  <1>16. IsClean(mmu')
    BY <1>3, <1>13, <1>14, LoadIsClean DEF IsShaped
  <1>17. ASSUME UsesPcids PROVE missed' = IF Misses THEN round + 1 ELSE 0
    <2>1. missed' = missed + (IF Swapped(mmu, pg) THEN 1 ELSE 0)
      BY <1>4 DEF ProbeTarget
    <2>2. missed = (IF Misses THEN round ELSE 0) /\ round \in Nat
      BY <1>1, <1>17 DEF PcidInv, CountInv
    <2> QED
      BY <1>6, <1>17, <2>1, <2>2
  <1> QED
    BY <1>15, <1>16, <1>17

\* What the machine's invariant comes to once a step's machine is known.
LEMMA MmuKept ==
  ASSUME host' = host, NEW home, home = Home', IsShaped(mmu'), Abroad(mmu', home),
         lateStep' \in {"idle", "prime"} => IsClean(mmu') /\ mmu'.swapped = -1,
         lateStep' \in {"chase", "probe"} => goal' \in Targets
  PROVE  MmuInv'
  <1>1. IsLower(mmu)' /\ IsRecent(mmu.recent)' /\ Abroad(mmu, Home)'
    BY NextAre DEF IsShaped
  <1>2. lateStep' \in {"idle", "prime"} => IsClean(mmu)' /\ mmu'.swapped = -1
    BY NextAre
  <1> QED
    BY <1>1, <1>2 DEF MmuInv

\* The experiment that runs stays the one that runs.
LEMMA SameExperiment ==
  ASSUME running' = running
  PROVE  /\ Experiment' = Experiment /\ (UsesPcids' <=> UsesPcids)
         /\ host' = host /\ count' = count => (Misses' <=> Misses)
         /\ Home' = IF lateStep' = "probe" /\ UsesPcids THEN 0 ELSE mmu'.pcid
  <1>1. Experiment' = Experiment
    BY DEF Experiment
  <1>2. UsesPcids' <=> UsesPcids
    BY <1>1 DEF UsesPcids
  <1>3. host' = host /\ count' = count => (Misses' <=> Misses)
    BY <1>1 DEF Misses
  <1> QED
    BY <1>1, <1>2, <1>3 DEF Home

LEMMA BeginKeepsPcidInv ==
  ASSUME PcidInv, LateInv, BeginLate, stage = "late", stage' = stage
  PROVE  PcidInv'
  <1>1. /\ lateStep = "idle" /\ running \in 1 .. 6 /\ host' = host /\ mmu' = mmu /\ goal' = goal
        /\ round' = 0 /\ missed' = 0 /\ host \in Hosts
    BY NamesAre DEF BeginLate, PcidInv, ReturnedInv, LateInv
  <1>2. IsShaped(mmu) /\ Abroad(mmu, mmu.pcid) /\ IsClean(mmu) /\ mmu.swapped = -1
    BY <1>1 DEF PcidInv, MmuInv, Home, IsShaped, LateInv
  <1>3. lateStep' \in {"idle", "prime"}
    BY <1>1 DEF BeginLate
  <1>4. MmuInv'
    <2>1. Home' = mmu'.pcid
      BY <1>3 DEF Home
    <2> QED
      BY <1>1, <1>2, <1>3, <2>1, MmuKept
  <1>5. CASE Experiment = TestNesting /\ ~ host.upper.known
    <2>1. verdict' = [verdict EXCEPT !["nesting"] = -1] /\ running' = running + 1 /\ lateStep' = lateStep
      BY <1>5 DEF BeginLate
    <2>2. running < 4
      <3>1. Experiment.name = "nesting"
        BY <1>5 DEF TestNesting
      <3> QED
        BY <1>1, <3>1, ExperimentIs
    <2>3. ReturnedInv'
      BY <1>1, <2>1, <2>2, NamesAre DEF PcidInv, ReturnedInv
    <2> QED
      BY <1>1, <1>4, <2>1, <2>3 DEF PcidInv, CountInv
  <1>6. CASE ~ (Experiment = TestNesting /\ ~ host.upper.known)
    <2>1. lateStep' = "prime" /\ count' = 0 /\ verdict' = verdict /\ running' = running
      BY <1>6 DEF BeginLate
    <2>2. ReturnedInv'
      BY <1>1, <2>1, NamesAre DEF PcidInv, ReturnedInv
    <2>3. CountInv'
      <3>1. host.respects => 0 <= host.pcids
        BY <1>1, HostIs
      <3>2. LateIterations \in Nat \ {0} /\ PcidEnd \in Nat \ {0, 1}
        BY LateAssumption
      <3> QED
        BY <1>1, <2>1, <3>1, <3>2 DEF CountInv
    <2> QED
      BY <1>4, <2>2, <2>3 DEF PcidInv
  <1> QED
    BY <1>5, <1>6

LEMMA PrimeKeepsPcidInv ==
  ASSUME PcidInv, LateInv, PrimeTarget, stage = "late", stage' = stage
  PROVE  PcidInv'
  <1>1. /\ lateStep = "prime" /\ lateStep' = "chase" /\ running' = running /\ host' = host
        /\ round < LateIterations /\ host \in Hosts
        /\ round' = round /\ count' = count /\ missed' = missed /\ verdict' = verdict
    BY DEF PrimeTarget, LateInv
  <1>2. /\ IsShaped(mmu') /\ Abroad(mmu', mmu'.pcid) /\ goal' \in Targets
        /\ UsesPcids => /\ mmu'.pcid = 0 /\ mmu'.recent[1] = 0
                        /\ IsKept(mmu', goal') /\ IsSwitched(mmu', goal')
    BY <1>1, PrimePcids
  <1>3. MmuInv'
    <2>1. Home' = mmu'.pcid
      BY <1>1 DEF Home
    <2> QED
      BY <1>1, <1>2, <2>1, MmuKept
  <1>4. ReturnedInv'
    BY <1>1 DEF PcidInv, ReturnedInv
  <1>5. CountInv'
    <2>1. ASSUME UsesPcids
          PROVE  mmu'.pcid = 0 /\ mmu'.recent[1] = 0 /\ IsKept(mmu, goal)' /\ IsSwitched(mmu, goal)'
      BY <1>1, <1>2, <2>1, NextAre
    <2> QED
      BY <1>1, <2>1, SameExperiment DEF PcidInv, CountInv
  <1> QED
    BY <1>3, <1>4, <1>5 DEF PcidInv

LEMMA ChaseKeepsPcidInv ==
  ASSUME PcidInv, LateInv, ChaseOrSwitchPcids, stage = "late", stage' = stage
  PROVE  PcidInv'
  <1>1. /\ lateStep = "chase" /\ lateStep' = "probe" /\ running' = running /\ host' = host
        /\ host \in Hosts /\ goal' = goal /\ running \in 1 .. 6
        /\ round' = round /\ count' = count /\ missed' = missed /\ verdict' = verdict
    BY NamesAre DEF ChaseOrSwitchPcids, LateInv, PcidInv, ReturnedInv
  <1>2. ReturnedInv'
    BY <1>1 DEF PcidInv, ReturnedInv
  <1>3. CASE UsesPcids
    <2>1. /\ IsShaped(mmu') /\ Abroad(mmu', 0)
          /\ mmu'.pcid \in Nat /\ (Experiment.pcids = "count" => mmu'.pcid = 0)
          /\ Swapped(mmu', <<goal, 511>>) <=> Misses
      BY <1>1, <1>3, ChasePcids
    <2>2. goal \in Targets
      BY <1>1 DEF PcidInv, MmuInv
    <2>3. MmuInv'
      <3>1. PICK home : home = 0
        OBVIOUS
      <3>2. home = Home' /\ Abroad(mmu', home)
        BY <1>1, <1>3, <2>1, <3>1, SameExperiment
      <3> QED
        BY <1>1, <2>1, <2>2, <3>2, MmuKept
    <2>4. Swapped(mmu, ProbePage(goal))' <=> Misses'
      <3>1. ~ Experiment.huge
        BY <1>1, <1>3, ExperimentIs
      <3>2. ProbePage(goal)' = <<goal, 511>>
        BY <1>1, <3>1, SameExperiment DEF ProbePage
      <3>3. PICK pg : pg = <<goal, 511>>
        OBVIOUS
      <3>4. Swapped(mmu, ProbePage(goal))' <=> Swapped(mmu', pg)
        BY <1>1, <3>2, <3>3, NextSwapped
      <3> QED
        BY <1>1, <2>1, <3>3, <3>4, SameExperiment
    <2>5. CountInv'
      BY <1>1, <2>1, <2>4, SameExperiment DEF PcidInv, CountInv
    <2> QED
      BY <1>2, <2>3, <2>5 DEF PcidInv
  <1>4. CASE ~ UsesPcids
    <2>1. IsShaped(mmu') /\ Abroad(mmu', mmu'.pcid) /\ goal \in Targets
      BY <1>1, <1>4, ChasePages
    <2>2. MmuInv'
      <3>1. Home' = mmu'.pcid
        BY <1>1, <1>4, SameExperiment
      <3> QED
        BY <1>1, <2>1, <3>1, MmuKept
    <2>3. CountInv'
      BY <1>1, <1>4, SameExperiment DEF CountInv
    <2> QED
      BY <1>2, <2>2, <2>3 DEF PcidInv
  <1> QED
    BY <1>3, <1>4

LEMMA ProbeKeepsPcidInv ==
  ASSUME PcidInv, LateInv, ProbeTarget, stage = "late", stage' = stage
  PROVE  PcidInv'
  <1>1. /\ lateStep = "probe" /\ lateStep' = "prime" /\ running' = running /\ host' = host
        /\ host \in Hosts /\ round' = round + 1 /\ count' = count /\ verdict' = verdict
    BY DEF ProbeTarget, LateInv
  <1>2. /\ IsShaped(mmu') /\ Abroad(mmu', mmu'.pcid) /\ IsClean(mmu') /\ mmu'.swapped = -1
        /\ UsesPcids => missed' = IF Misses THEN round + 1 ELSE 0
    BY <1>1, ProbePcids
  <1>3. MmuInv'
    <2>1. Home' = mmu'.pcid
      BY <1>1 DEF Home
    <2> QED
      BY <1>1, <1>2, <2>1, MmuKept
  <1>4. ReturnedInv'
    BY <1>1 DEF PcidInv, ReturnedInv
  <1>5. CountInv'
    <2>1. SUFFICES ASSUME UsesPcids PROVE CountInv'
      BY <1>1, SameExperiment DEF CountInv
    <2>2. /\ round \in 0 .. LateIterations /\ round < LateIterations
          /\ count \in 0 .. PcidEnd - 1 /\ (host.respects => count <= host.pcids)
          /\ Experiment.name = "pcids_flush" => count = 0
      BY <1>1, <2>1 DEF PcidInv, CountInv
    <2>3. round + 1 \in 0 .. LateIterations
      BY <2>2, LateAssumption
    <2>4. missed' = IF Misses' THEN round' ELSE 0
      BY <1>1, <1>2, <2>1, SameExperiment
    <2> QED
      BY <1>1, <2>2, <2>3, <2>4, SameExperiment DEF CountInv
  <1> QED
    BY <1>3, <1>4, <1>5 DEF PcidInv

\* An experiment whose iterations all miss passes, one without a miss does not.
LEMMA PassesIs ==
  ASSUME PcidInv, host \in Hosts, lateStep = "prime", round = LateIterations, UsesPcids
  PROVE  /\ Passes <=> Misses
         /\ running \in {4, 5, 6} /\ count \in 0 .. PcidEnd - 1
         /\ running = 4 => Misses /\ count = 0
         /\ running = 5 => (Misses <=> host.respects /\ count = host.pcids)
         /\ running = 6 => (Misses <=> host.respects)
         /\ host.respects => count <= host.pcids
  <1>1. /\ running \in 1 .. 6 /\ count \in 0 .. PcidEnd - 1
        /\ missed = (IF Misses THEN LateIterations ELSE 0)
        /\ Experiment.name = "pcids_flush" => count = 0
        /\ host.respects => count <= host.pcids
    BY NamesAre DEF PcidInv, CountInv, ReturnedInv
  <1>2. running \in {4, 5, 6}
    <2>1. running > 3
      BY <1>1, ExperimentIs
    <2> QED
      BY ONLY <1>1, <2>1
  <1>3. LateIterations \in Nat \ {0}
    BY LateAssumption
  <1>4. Passes <=> Misses
    BY <1>1, <1>3 DEF Passes
  <1>5. running = 4 => Misses /\ count = 0
    BY <1>1, ExperimentIs DEF Misses
  <1>6. running = 5 => (Misses <=> host.respects /\ count >= host.pcids)
    BY <1>1, ExperimentIs DEF Misses
  <1>7. host.respects => (count >= host.pcids <=> count = host.pcids)
    <2>1. host.pcids \in Nat /\ count \in Nat
      BY <1>1, HostIs, LateAssumption
    <2> QED
      BY <1>1, <2>1
  <1>8. running = 6 => (Misses <=> host.respects)
    BY <1>1, ExperimentIs DEF Misses
  <1> QED
    BY <1>1, <1>2, <1>4, <1>5, <1>6, <1>7, <1>8

LEMMA OneMoreKeepsPcidInv ==
  ASSUME PcidInv, LateInv, OneMorePcid, stage = "late", stage' = stage
  PROVE  PcidInv'
  <1>1. /\ lateStep = "prime" /\ lateStep' = lateStep /\ running' = running /\ host' = host
        /\ mmu' = mmu /\ goal' = goal /\ host \in Hosts /\ verdict' = verdict
        /\ round = LateIterations /\ Experiment.pcids = "count" /\ ~ Passes
        /\ count + 1 < PcidEnd /\ count' = count + 1 /\ round' = 0 /\ missed' = 0
    BY DEF OneMorePcid, LateInv
  <1>2. UsesPcids
    BY <1>1 DEF UsesPcids
  <1>3. MmuInv'
    <2>1. IsShaped(mmu) /\ Abroad(mmu, mmu.pcid) /\ IsClean(mmu) /\ mmu.swapped = -1
      BY <1>1 DEF PcidInv, MmuInv, Home, IsShaped, LateInv
    <2>2. Home' = mmu'.pcid
      BY <1>1 DEF Home
    <2> QED
      BY <1>1, <2>1, <2>2, MmuKept
  <1>4. ReturnedInv'
    BY <1>1 DEF PcidInv, ReturnedInv
  <1>5. /\ running = 5 /\ count \in 0 .. PcidEnd - 1
        /\ host.respects => count <= host.pcids /\ count # host.pcids
    <2>1. /\ Passes <=> Misses
          /\ running \in {4, 5, 6} /\ count \in 0 .. PcidEnd - 1
          /\ running = 4 => Misses
          /\ running = 5 => (Misses <=> host.respects /\ count = host.pcids)
          /\ host.respects => count <= host.pcids
      BY Zenon, <1>1, <1>2, PassesIs
    <2>2. running \in 1 .. 6
      BY <2>1
    <2>3. running # 6
      BY <1>1, <2>2, ExperimentIs
    <2> QED
      BY <1>1, <2>1, <2>3
  <1>6. CountInv'
    <2>1. host.respects => count + 1 <= host.pcids
      <3>1. host.pcids \in Nat /\ count \in Nat
        BY <1>1, <1>5, HostIs, LateAssumption
      <3> QED
        BY <1>5, <3>1
    <2>2. count + 1 \in 0 .. PcidEnd - 1 /\ 0 \in 0 .. LateIterations
      BY <1>1, <1>5, LateAssumption
    <2>3. Experiment.name # "pcids_flush"
      BY <1>5, ExperimentIs
    <2> QED
      BY <1>1, <2>1, <2>2, <2>3, SameExperiment DEF CountInv
  <1> QED
    BY <1>3, <1>4, <1>6 DEF PcidInv

LEMMA ReturnKeepsPcidInv ==
  ASSUME PcidInv, LateInv, ReturnVerdict, stage = "late", stage' = stage
  PROVE  PcidInv'
  <1>1. /\ lateStep = "prime" /\ lateStep' = "idle" /\ running' = running + 1 /\ host' = host
        /\ mmu' = mmu /\ goal' = goal /\ host \in Hosts /\ round = LateIterations
        /\ running \in 1 .. 6
    BY NamesAre DEF ReturnVerdict, LateInv, PcidInv, ReturnedInv
  <1>2. MmuInv'
    <2>1. IsShaped(mmu) /\ Abroad(mmu, mmu.pcid) /\ IsClean(mmu) /\ mmu.swapped = -1
      BY <1>1 DEF PcidInv, MmuInv, Home, IsShaped, LateInv
    <2>2. Home' = mmu'.pcid
      BY <1>1 DEF Home
    <2> QED
      BY <1>1, <2>1, <2>2, MmuKept
  <1>3. CountInv'
    BY <1>1 DEF CountInv
  <1>4. PICK name, value :
          /\ name = Experiment.name /\ verdict' = [verdict EXCEPT ![name] = value]
          /\ value = CASE Experiment.pcids = "count" -> (IF Passes THEN count ELSE PcidEnd)
                       [] Experiment.huge -> missed
                       [] OTHER -> (IF Passes THEN 1 ELSE 0)
    BY DEF ReturnVerdict
  <1>5. name \in DOMAIN verdict
    <2>1. DOMAIN verdict = {LateProgram[n].name : n \in DOMAIN LateProgram}
      BY DEF PcidInv, ReturnedInv
    <2>2. running \in DOMAIN LateProgram
      BY <1>1 DEF LateProgram
    <2> QED
      BY <1>4, <2>1, <2>2 DEF Experiment
  <1>6. /\ DOMAIN verdict' = DOMAIN verdict /\ verdict'[name] = value
        /\ \A other \in DOMAIN verdict : other # name => verdict'[other] = verdict[other]
    BY <1>4, <1>5
  <1>7. /\ running = 4 => name = "pcids_flush" /\ value = 0
        /\ running = 5 => /\ name = "pcids_noflush"
                          /\ value = IF host.respects /\ host.pcids < PcidEnd
                                     THEN host.pcids ELSE PcidEnd
        /\ running = 6 => name = "respect" /\ value = IF host.respects THEN 1 ELSE 0
    <2>1. CASE running = 4
      <3>1. UsesPcids /\ Experiment.pcids = "count" /\ ~ Experiment.huge
        BY <1>1, <2>1, ExperimentIs
      <3>2. Passes /\ count = 0
        BY <1>1, <2>1, <3>1, PassesIs
      <3>3. value = 0
        BY <1>4, <3>1, <3>2
      <3> QED
        BY <1>1, <1>4, <2>1, <3>3, ExperimentIs
    <2>2. CASE running = 5
      <3>1. UsesPcids /\ Experiment.pcids = "count" /\ ~ Experiment.huge
        BY <1>1, <2>2, ExperimentIs
      <3>2. /\ Passes <=> host.respects /\ count = host.pcids
            /\ count \in 0 .. PcidEnd - 1 /\ (host.respects => count <= host.pcids)
        BY <1>1, <2>2, <3>1, PassesIs
      <3>3. value = IF Passes THEN count ELSE PcidEnd
        BY <1>4, <3>1
      <3>4. Passes \/ count + 1 = PcidEnd
        BY <3>1 DEF ReturnVerdict
      <3>5. host.pcids \in Nat /\ PcidEnd \in Nat
        BY <1>1, HostIs, LateAssumption
      <3>6. value = IF host.respects /\ host.pcids < PcidEnd THEN host.pcids ELSE PcidEnd
        BY <3>2, <3>3, <3>4, <3>5
      <3> QED
        BY <1>1, <1>4, <2>2, <3>6, ExperimentIs
    <2>3. CASE running = 6
      <3>1. UsesPcids /\ Experiment.pcids = "any" /\ ~ Experiment.huge
        BY <1>1, <2>3, ExperimentIs
      <3>2. Passes <=> host.respects
        BY <1>1, <2>3, <3>1, PassesIs
      <3>3. value = IF Passes THEN 1 ELSE 0
        BY <1>4, <3>1
      <3>4. value = IF host.respects THEN 1 ELSE 0
        BY <3>2, <3>3
      <3> QED
        BY <1>1, <1>4, <2>3, <3>4, ExperimentIs
    <2> QED
      BY <2>1, <2>2, <2>3
  <1>8. running < 4 => name \in {"nesting", "huge_tlb", "huge_eviction"}
    BY <1>1, <1>4, ExperimentIs
  <1>9. ReturnedInv'
    <2>1. running' \in 1 .. Len(LateProgram) + 1 /\ lateStep' = "idle" /\ stage' # "query"
      BY <1>1, NamesAre
    <2>2. {"pcids_flush", "pcids_noflush", "respect"} \subseteq DOMAIN verdict
      BY NamesAre DEF PcidInv, ReturnedInv
    <2>3. running' > 4 => verdict'["pcids_flush"] = 0
      <3>1. CASE running = 4
        BY <1>6, <1>7, <3>1
      <3>2. CASE running > 4
        <4>1. name # "pcids_flush"
          BY <1>1, <1>7, <3>2
        <4> QED
          BY <1>6, <2>2, <3>2, <4>1 DEF PcidInv, ReturnedInv
      <3> QED
        BY <1>1, <3>1, <3>2
    <2>4. running' > 5 => verdict'["pcids_noflush"] =
            IF host.respects /\ host.pcids < PcidEnd THEN host.pcids ELSE PcidEnd
      <3>1. CASE running = 5
        BY <1>6, <1>7, <3>1
      <3>2. CASE running > 5
        <4>1. name # "pcids_noflush"
          BY <1>1, <1>7, <3>2
        <4> QED
          BY <1>6, <2>2, <3>2, <4>1 DEF PcidInv, ReturnedInv
      <3> QED
        BY <1>1, <3>1, <3>2
    <2>5. running' > 6 => verdict'["respect"] = IF host.respects THEN 1 ELSE 0
      BY <1>1, <1>6, <1>7
    <2>6. DOMAIN verdict = {LateProgram[n].name : n \in DOMAIN LateProgram}
      BY DEF PcidInv, ReturnedInv
    <2> QED
      BY <1>1, <1>6, <2>1, <2>3, <2>4, <2>5, <2>6 DEF ReturnedInv
  <1> QED
    BY <1>2, <1>3, <1>9 DEF PcidInv

LEMMA EmptyIsShaped ==
  ASSUME host \in Hosts, NEW m, m = EmptyMmu(host, OwnPcid)
  PROVE  IsShaped(m) /\ IsClean(m) /\ m.swapped = -1 /\ m.pcid = OwnPcid /\ \A home : Abroad(m, home)
  <1> DEFINE lower == [s \in 0 .. host.lower.sets - 1 |-> EmptySet(host.lower.policy)]
  <1>1. /\ IsMmu(m) /\ m.lower = lower /\ m.tlb = {} /\ m.swapped = -1
        /\ m.pcid = OwnPcid /\ m.recent = <<OwnPcid>>
    BY DEF EmptyMmu, IsMmu
  <1>2. OwnPcid \in Nat
    BY LateAssumption
  <1>3. IsLower(m)
    <2>1. IsSet(host.lower.policy, EmptySet(host.lower.policy))
      BY DEF IsSet, EmptySet
    <2> QED
      BY <1>1, <2>1 DEF IsLower
  <1>4. IsRecent(m.recent)
    BY <1>1, <1>2, HostIs DEF IsRecent
  <1>5. ASSUME NEW key \in LinesOf(m) PROVE key[1] = -1
    BY <1>1 DEF LinesOf, EmptySet, NoLine
  <1>6. IsClean(m)
    BY <1>1, <1>2, <1>5 DEF IsClean, Tag
  <1>7. \A home : Abroad(m, home)
    BY <1>1, <1>5 DEF Abroad
  <1> QED
    BY <1>1, <1>3, <1>4, <1>6, <1>7 DEF IsShaped

LEMMA PcidStart ==
  ASSUME Init
  PROVE  PcidInv
  <1>1. /\ host \in Hosts /\ mmu = EmptyMmu(host, OwnPcid) /\ lateStep = "idle" /\ running = 1
        /\ stage = "layout"
        /\ verdict = [e \in {LateProgram[n].name : n \in DOMAIN LateProgram} |-> -2]
    BY DEF Init, LateInit
  <1>2. MmuInv
    BY <1>1, EmptyIsShaped DEF MmuInv, IsShaped
  <1>3. CountInv
    BY <1>1 DEF CountInv
  <1>4. ReturnedInv
    BY <1>1, NamesAre DEF ReturnedInv
  <1> QED
    BY <1>2, <1>3, <1>4 DEF PcidInv

\* A step of something else.
LEMMA PcidKept ==
  ASSUME PcidInv, UNCHANGED lateVars, stage' = "query" => stage = "query"
  PROVE  PcidInv'
  <1>1. MmuInv'
    <2>1. /\ host' = host /\ mmu' = mmu /\ goal' = goal /\ lateStep' = lateStep
          /\ Home' = Home
      BY DEF lateVars, Home, UsesPcids, Experiment
    <2>2. /\ IsLower(mmu)' /\ IsRecent(mmu.recent)' /\ Abroad(mmu, Home)'
          /\ IsClean(mmu)' <=> IsClean(mmu)
      BY <2>1, NextAre DEF PcidInv, MmuInv
    <2> QED
      BY <2>1, <2>2 DEF PcidInv, MmuInv
  <1>2. CountInv'
    <2>1. Swapped(mmu, ProbePage(goal))' <=> Swapped(mmu, ProbePage(goal))
      BY DEF lateVars, Swapped, SetAt, InHugeTlb, Holds, Key, Tag, ProbePage, Experiment
    <2>2. (IsKept(mmu, goal)' <=> IsKept(mmu, goal)) /\ (IsSwitched(mmu, goal)' <=> IsSwitched(mmu, goal))
      BY DEF lateVars, IsKept, IsSwitched, SetAt, InHugeTlb, Holds
    <2> QED
      BY <2>1, <2>2, SameExperiment DEF PcidInv, CountInv, lateVars
  <1>3. ReturnedInv'
    BY DEF PcidInv, ReturnedInv, lateVars
  <1> QED
    BY <1>1, <1>2, <1>3 DEF PcidInv

\* What the experiments with PCIDs count on is kept by every step.
LEMMA PcidInvariance ==
  ASSUME LateInv, PcidInv, [Next]_sessionVars
  PROVE  PcidInv'
  <1>1. CASE LateEvaluations
    <2>1. LateStep /\ stage = "late" /\ stage' = stage
      BY <1>1 DEF LateEvaluations
    <2> QED
      BY <2>1, BeginKeepsPcidInv, PrimeKeepsPcidInv, ChaseKeepsPcidInv, ProbeKeepsPcidInv,
         OneMoreKeepsPcidInv, ReturnKeepsPcidInv DEF LateStep
  <1>2. CASE StartCacheQuery
    <2>1. /\ mmu' = EmptyMmu(host, OwnPcid) /\ host' = host /\ lateStep = "idle"
          /\ lateStep' = "idle" /\ running > 6 /\ running' = running /\ verdict' = verdict
          /\ host \in Hosts
      BY <1>2, NamesAre DEF StartCacheQuery, LateInv
    <2>2. MmuInv'
      <3>1. IsShaped(mmu') /\ IsClean(mmu') /\ mmu'.swapped = -1 /\ Abroad(mmu', Home')
        BY <2>1, EmptyIsShaped
      <3> QED
        BY <2>1, <3>1, MmuKept
    <2>3. CountInv'
      BY <2>1 DEF CountInv
    <2>4. ReturnedInv'
      BY <2>1 DEF PcidInv, ReturnedInv
    <2> QED
      BY <2>2, <2>3, <2>4 DEF PcidInv
  <1>3. CASE SetupLevels \/ EvaluateReplacementPolicy \/ Query \/ UNCHANGED sessionVars
    <2>1. UNCHANGED lateVars
      BY <1>3 DEF SetupLevels, EvaluateReplacementPolicy, Query, sessionVars
    <2>2. stage' = "query" => stage = "query"
      <3>1. CASE SetupLevels
        BY <3>1 DEF SetupLevels
      <3>2. CASE EvaluateReplacementPolicy
        BY <3>2 DEF EvaluateReplacementPolicy
      <3>3. CASE Query \/ UNCHANGED sessionVars
        BY <3>3 DEF Query, sessionVars
      <3> QED
        BY <1>3, <3>1, <3>2, <3>3
    <2> QED
      BY <2>1, <2>2, PcidKept
  <1> QED
    BY <1>1, <1>2, <1>3 DEF Next
==================================================================================
