---------------------------- MODULE LateExperiments ----------------------------
(***************************************************************************)
(* The experiments device_read ends with, on one level: test_nesting,      *)
(* test_huge_tlb, test_huge_page_eviction, test_supported_pcids and        *)
(* test_pcid_respect, with the verdicts evaluation.c draws from them.  Two *)
(* levels of caches, a TLB for small and one for huge pages, all tagged    *)
(* with the PCID in CR3.                                                   *)
(*                                                                         *)
(* A page is <<entry, sub entry>>.  Entries below HugeBase are the level's *)
(* regions, Fan of them under one entry of the level above; entry          *)
(* HugeBase + n is the n-th huge page.                                     *)
(***************************************************************************)
EXTENDS PolicyCache

CONSTANTS
  Fan,            \* regions under one upper-level entry (512)
  TopEntries,     \* PAGE_TABLE_ENTRIES[level + 1]
  Targets,        \* regions a random target falls into
  HugeBase,       \* HUGE_2MB_BASE_ADDRESS or HUGE_1GB_BASE_ADDRESS
  HugePages,      \* AMOUNT_2M_PAGES or AMOUNT_1G_PAGES
  PcidEnd,        \* 4096
  OwnPcid,        \* the PCID Linux gave the trigger
  LateIterations  \* ITERATIONS

ASSUME LateAssumption ==
  /\ Fan \in Nat \ {0} /\ TopEntries \in Nat \ {0}
  /\ Targets \subseteq 0 .. TopEntries * Fan - 1
  /\ HugeBase \in Nat /\ HugeBase % Fan = 0 /\ HugeBase >= TopEntries * Fan
  /\ HugePages \in Nat \ {0, 1}
  /\ PcidEnd \in Nat \ {0, 1} /\ OwnPcid \in 1 .. PcidEnd - 1
  /\ LateIterations \in Nat \ {0}

VARIABLES
  host,      \* the machine: its caches, and what the experiments are to find out
  mmu,       \* what the caches and TLBs hold, CR3 and the entry now swapped
  lateStep,  \* the next step of the experiment
  running,   \* position in LateProgram
  count,     \* amount_pcids
  round,     \* i, iterations begun
  goal,      \* target_address
  missed,    \* misses
  verdict    \* verdict[experiment]: what the printed line says

lateVars == <<host, mmu, lateStep, running, count, round, goal, missed, verdict>>

\* The experiments have one shape: a page of the target is primed, its entry is
\* switched, other pages are walked or other PCIDs loaded, and a page is probed.
TestNesting ==
  [name |-> "nesting", huge |-> FALSE, walk |-> "upper", pcids |-> "none", noflush |-> FALSE]
TestHugeTlb ==
  [name |-> "huge_tlb", huge |-> FALSE, walk |-> "huge", pcids |-> "none", noflush |-> FALSE]
TestHugePageEviction ==
  [name |-> "huge_eviction", huge |-> TRUE, walk |-> "huge", pcids |-> "none", noflush |-> FALSE]
TestSupportedPcids(name, noflush) ==
  [name |-> name, huge |-> FALSE, walk |-> "none", pcids |-> "count", noflush |-> noflush]
TestPcidRespect ==
  [name |-> "respect", huge |-> FALSE, walk |-> "none", pcids |-> "any", noflush |-> TRUE]

LateProgram ==
  <<TestNesting, TestHugeTlb, TestHugePageEviction, TestSupportedPcids("pcids_flush", FALSE),
    TestSupportedPcids("pcids_noflush", TRUE), TestPcidRespect>>
Experiment == LateProgram[running]

--------------------------------------------------------------------------------
(* The machine *)

NoLine(w) == <<-1, w>>
EmptySet(policy) ==
  [line |-> [w \in Positions(policy) |-> NoLine(w)], root |-> 0, leaf |-> [side \in {0, 1} |-> 0]]
Lru(ways) == Permutation([hit \in 0 .. ways - 1 |->
  [w \in 0 .. ways - 1 |-> IF w = 0 THEN hit ELSE IF w <= hit THEN w - 1 ELSE w]])

EmptyMmu(machine, pcid) ==
  [lower |-> [s \in 0 .. machine.lower.sets - 1 |-> EmptySet(machine.lower.policy)],
   upper |-> [s \in 0 .. machine.upper.sets - 1 |-> EmptySet(machine.upper.policy)],
   huge |-> EmptySet(Lru(machine.hugeEntries)),
   tlb |-> {}, swapped |-> -1, wrong |-> {}, pcid |-> pcid, recent |-> <<pcid>>]

IsHuge(entry) == entry >= HugeBase
Tag(pcid) == IF host.respects THEN pcid ELSE 0
Key(m, entry) == <<Tag(m.pcid), entry>>
InHugeTlb(entry) == IsHuge(entry) /\ ~ host.unified
SetAt(m, entry) == IF InHugeTlb(entry) THEN m.huge ELSE m.lower[entry % host.lower.sets]

\* Is the page translated through the swapped entry?  The TLB knows, else the
\* translation cache, else the page table.
Swapped(m, pg) ==
  LET known == {t \in m.tlb : t.pcid = m.pcid /\ t.page = pg}
  IN  IF known # {} THEN \A t \in known : t.swapped
      ELSE IF Holds(SetAt(m, pg[1]), Key(m, pg[1])) THEN Key(m, pg[1]) \in m.wrong
      ELSE m.swapped = pg[1]

\* What the entries above take along.
WithoutBelow(set, tops) ==
  [set EXCEPT !.line = [w \in DOMAIN @ |->
     IF @[w][1] # -1 /\ <<@[w][1], @[w][2] \div Fan>> \in tops THEN NoLine(w) ELSE @[w]]]

\* An entry above is used; if the levels are nested, what it replaces takes the
\* entries below along.
UseUpper(m, entry) ==
  LET top == entry \div Fan
      s == top % host.upper.sets
      after == Touch(host.upper.policy, m.upper[s], <<Tag(m.pcid), top>>)
      gone == IF host.nested THEN ToSet(m.upper[s].line) \ ToSet(after.line) ELSE {}
  IN  [m EXCEPT !.lower = [l \in DOMAIN @ |-> WithoutBelow(@[l], gone)], !.upper[s] = after]

Enter(m, entry) ==
  IF InHugeTlb(entry)
  THEN [m EXCEPT !.huge = Touch(Lru(host.hugeEntries), @, Key(m, entry))]
  ELSE [m EXCEPT !.lower[entry % host.lower.sets] =
          Touch(host.lower.policy, @, Key(m, entry))]

\* read_data on this machine.
AccessPage(m, pg) ==
  LET entry == pg[1]
      answered == Holds(SetAt(m, entry), Key(m, entry))
      swapped == Swapped(m, pg)
      filled == Enter(IF answered THEN m ELSE UseUpper(m, entry), entry)
      wrong == IF swapped THEN m.wrong \cup {Key(m, entry)} ELSE m.wrong \ {Key(m, entry)}
  IN  CASE \E t \in m.tlb : t.pcid = m.pcid /\ t.page = pg -> m
        [] IsHuge(entry) -> [filled EXCEPT !.wrong = wrong]
        [] OTHER -> [filled EXCEPT !.wrong = wrong,
                       !.tlb = @ \cup {[pcid |-> m.pcid, page |-> pg, swapped |-> swapped]}]

\* Every translation whose tag, or whose PCID in the TLB, is one of these goes.
DropPcids(m, pcids) ==
  LET tags == {Tag(q) : q \in pcids}
      Without(set) == [set EXCEPT !.line =
        [w \in DOMAIN @ |-> IF @[w][1] \in tags THEN NoLine(w) ELSE @[w]]]
  IN  [m EXCEPT !.lower = [s \in DOMAIN @ |-> Without(@[s])],
                !.upper = [s \in DOMAIN @ |-> Without(@[s])],
                !.huge = Without(@),
                !.wrong = {key \in @ : key[1] \notin tags},
                !.tlb = {t \in @ : t.pcid \notin pcids}]

\* The PCIDs whose translations the machine keeps, the one loaded last first.
Recent(kept, pcid) ==
  LET size == Len(kept)
      at == Min({n \in 1 .. size : kept[n] = pcid} \cup {size + 1})
  IN  [n \in 1 .. Min({host.pcids, IF at > size THEN size + 1 ELSE size}) |->
         IF n = 1 THEN pcid ELSE kept[IF n <= at THEN n - 1 ELSE n]]

\* set_cr3: without NOFLUSH the PCID's translations are dropped; a machine that
\* tags with PCIDs keeps the translations of host.pcids of them.
SetCr3(m, pcid, noflush) ==
  LET recent == Recent(m.recent, pcid)
      forgotten == IF host.respects THEN ToSet(m.recent) \ ToSet(recent) ELSE {}
  IN  [DropPcids(m, forgotten \cup IF noflush THEN {} ELSE {pcid})
         EXCEPT !.pcid = pcid, !.recent = recent]

FlushAll(m) == SetCr3(m, m.pcid, FALSE)

\* Pages are read, or PCIDs 1 .. amount loaded, one after the other.
ReadPages(m, pages) == FoldLeft(AccessPage, m, pages)
LoadPcids(m, amount, noflush) ==
  FoldLeft(LAMBDA x, q : SetCr3(x, q, noflush), m, [q \in 1 .. amount |-> q])

--------------------------------------------------------------------------------
(* The experiments *)

ProbePage(target) == IF Experiment.huge THEN <<HugeBase, 0>> ELSE <<target, 511>>
PrimePage(target) == IF Experiment.huge THEN <<HugeBase, 0>> ELSE <<target, 0>>
GoalEntry(target) == PrimePage(target)[1]

\* Faulty variant: the links of the lower level's set are walked.
NestingChainOfLevel ==
  [n \in 1 .. host.upper.policy.ways |-> <<n * host.upper.sets, 0>>]

\* build_pointer_chain_from_hash on the level above, from upper entry 0 and
\* without it: the target's page points to the first link.
NestingChain ==
  [n \in 1 .. Cardinality({o \in 1 .. host.upper.policy.ways :
                             o * host.upper.sets < TopEntries})
     |-> <<n * host.upper.sets * Fan, 0>>]

\* Faulty variant: the chain is one link shorter.
HugeChainOneShort ==
  [n \in 1 .. HugePages - 2 |-> <<HugeBase + (IF n = 1 THEN 0 ELSE n), 0>>]

\* build_huge_chain: all huge pages are one page of memory, and the first link's
\* word is the start's; the second link is written over the first.
HugeChain ==
  [n \in 1 .. HugePages - 1 |-> <<HugeBase + (IF n = 1 THEN 0 ELSE n), 0>>]

\* The pages read between the switch and the probe.
Chased ==
  CASE Experiment.walk = "upper" -> NestingChain
    [] Experiment.huge -> Tail(HugeChain)
    [] OTHER -> HugeChain

UsesPcids == Experiment.pcids # "none"

LateInit(machines) ==
  /\ host \in machines
  /\ mmu = EmptyMmu(host, OwnPcid)
  /\ lateStep = "idle"
  /\ running = 1 /\ count = 0 /\ round = 0 /\ goal = 0 /\ missed = 0
  /\ verdict = [e \in {LateProgram[n].name : n \in DOMAIN LateProgram} |-> -2]

\* The call of an experiment; nesting needs the structure of the level above.
BeginLate ==
  /\ lateStep = "idle" /\ running <= Len(LateProgram)
  /\ IF Experiment = TestNesting /\ ~ host.upper.known
     THEN /\ verdict' = [verdict EXCEPT !["nesting"] = -1]
          /\ running' = running + 1
          /\ UNCHANGED <<lateStep, count>>
     ELSE /\ lateStep' = "prime" /\ count' = 0
          /\ UNCHANGED <<verdict, running>>
  /\ round' = 0 /\ missed' = 0
  /\ UNCHANGED <<host, mmu, goal>>

\* A random target; the chain; set_cr3 and flush; prime; switch.
PrimeTarget ==
  /\ lateStep = "prime" /\ round < LateIterations
  /\ \E target \in IF Experiment = TestNesting THEN {t \in Targets : t < Fan} ELSE Targets :
       LET clean == FlushAll(IF UsesPcids THEN SetCr3(mmu, 0, FALSE) ELSE mmu) IN
       /\ goal' = target
       /\ mmu' = [AccessPage(clean, PrimePage(target)) EXCEPT !.swapped = GoalEntry(target)]
  /\ lateStep' = "chase"
  /\ UNCHANGED <<host, running, count, round, missed, verdict>>

\* Faulty variant: the last load of CR3, back to PCID 0, forgets NOFLUSH.
SwitchPcidsFlushingBack ==
  /\ lateStep = "chase"
  /\ CASE Experiment.pcids = "count" ->
            mmu' = SetCr3(LoadPcids(mmu, count, Experiment.noflush), 0, FALSE)
       [] Experiment.pcids = "any" ->
            \E q \in 1 .. PcidEnd - 1 : mmu' = SetCr3(mmu, q, Experiment.noflush)
       [] OTHER -> mmu' = ReadPages(mmu, Chased)
  /\ lateStep' = "probe"
  /\ UNCHANGED <<host, running, count, round, goal, missed, verdict>>

\* The walk, or the loads of CR3.
ChaseOrSwitchPcids ==
  /\ lateStep = "chase"
  /\ CASE Experiment.pcids = "count" ->
            mmu' = SetCr3(LoadPcids(mmu, count, Experiment.noflush), 0, Experiment.noflush)
       [] Experiment.pcids = "any" ->
            \E q \in 1 .. PcidEnd - 1 : mmu' = SetCr3(mmu, q, Experiment.noflush)
       [] OTHER -> mmu' = ReadPages(mmu, Chased)
  /\ lateStep' = "probe"
  /\ UNCHANGED <<host, running, count, round, goal, missed, verdict>>

\* Faulty variant: CR3 is not set back before the flush.
ProbeStayingOnPcid ==
  /\ lateStep = "probe"
  /\ missed' = missed + (IF Swapped(mmu, ProbePage(goal)) THEN 1 ELSE 0)
  /\ mmu' = FlushAll([AccessPage(mmu, ProbePage(goal)) EXCEPT !.swapped = -1])
  /\ round' = round + 1
  /\ lateStep' = "prime"
  /\ UNCHANGED <<host, running, count, goal, verdict>>

\* The probe, the switch back, set_cr3, and the flush.
ProbeTarget ==
  /\ lateStep = "probe"
  /\ missed' = missed + (IF Swapped(mmu, ProbePage(goal)) THEN 1 ELSE 0)
  /\ LET back == [AccessPage(mmu, ProbePage(goal)) EXCEPT !.swapped = -1]
     IN  mmu' = FlushAll(IF UsesPcids THEN SetCr3(back, 0, FALSE) ELSE back)
  /\ round' = round + 1
  /\ lateStep' = "prime"
  /\ UNCHANGED <<host, running, count, goal, verdict>>

\* misses >= ITERATIONS * THRESHOLD
Passes == 10 * missed >= 8 * LateIterations

\* evaluate_supported_pcids: try one more PCID ...
OneMorePcid ==
  /\ lateStep = "prime" /\ round = LateIterations
  /\ Experiment.pcids = "count"
  /\ ~ Passes /\ count + 1 < PcidEnd
  /\ count' = count + 1
  /\ round' = 0 /\ missed' = 0
  /\ UNCHANGED <<host, mmu, lateStep, running, goal, verdict>>

\* ... or, like every other experiment, print the verdict.
ReturnVerdict ==
  /\ lateStep = "prime" /\ round = LateIterations
  /\ Experiment.pcids = "count" => Passes \/ count + 1 = PcidEnd
  /\ verdict' = [verdict EXCEPT ![Experiment.name] =
       CASE Experiment.pcids = "count" -> (IF Passes THEN count ELSE PcidEnd)
         [] Experiment.huge -> missed
         [] OTHER -> (IF Passes THEN 1 ELSE 0)]
  /\ running' = running + 1
  /\ lateStep' = "idle"
  /\ UNCHANGED <<host, mmu, count, round, goal, missed>>

LateStep ==
  BeginLate \/ PrimeTarget \/ ChaseOrSwitchPcids \/ ProbeTarget \/ OneMorePcid \/ ReturnVerdict
================================================================================
