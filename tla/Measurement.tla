------------------------------ MODULE Measurement ------------------------------
(***************************************************************************)
(* The experiments that ask whether a level has a translation cache and    *)
(* how it is split (test_cache_existence, test_split_layer_instructions,   *)
(* test_split_layer_data, test_shared_layer), run one after the other on   *)
(* one level by a trigger process that first pins itself to a core.        *)
(*                                                                         *)
(* All four have one shape: write a chain that starts at a random target   *)
(* and ends at its prefix-aligned address, flush, read some random entries *)
(* (noise), prime the target, swap its page-table entry for the one of the *)
(* complementary area, walk the chain, and probe the prefix-aligned        *)
(* address: SIGNAL there means that no cache remembered the entry.         *)
(***************************************************************************)
EXTENDS Mmu, Sequences

CONSTANTS
  Iterations,      \* ITERATIONS
  MaximumEntries,  \* MAXIMUM_ENTRIES, the length of an evicting chain
  NoiseReads,      \* the 128 random reads before priming
  CPUs,            \* logical CPUs
  PinnedCore,      \* PINNED_CORE
  RegionsPerTop,   \* regions of the level under one top-level (level 5) entry
  Program,         \* the experiments, in the order they are run
  MaxDisturb       \* bound: cached translations the machine drops by itself

\* What tells the experiments apart.
Experiment ==
  [smepOff : BOOLEAN, length : Nat, noise : Nat,
   prime : Kind, walk : Kind \cup {Nothing}, probe : Kind]

TestCacheExistence ==
  [smepOff |-> FALSE, length |-> 0, noise |-> 0,
   prime |-> "data", walk |-> Nothing, probe |-> "data"]

TestSplitLayerInstructions ==
  [smepOff |-> TRUE, length |-> MaximumEntries, noise |-> NoiseReads,
   prime |-> "instruction", walk |-> "data", probe |-> "instruction"]

TestSplitLayerData ==
  [smepOff |-> TRUE, length |-> MaximumEntries, noise |-> NoiseReads,
   prime |-> "data", walk |-> "instruction", probe |-> "data"]

TestSharedLayer ==
  [smepOff |-> TRUE, length |-> 0, noise |-> 0,
   prime |-> "instruction", walk |-> Nothing, probe |-> "data"]

ASSUME MeasurementAssumption ==
  /\ Iterations \in Nat \ {0}
  /\ NoiseReads \in Nat
  /\ MaximumEntries \in Nat
  /\ PinnedCore \in CPUs
  /\ RegionsPerTop \in Nat \ {0}
  /\ Program \in Seq(Experiment)
  /\ MaxDisturb \in Nat

\* MAXIMUM_ENTRIES "defines many": a full chain evicts a cache even when the
\* noise has put some of its links into a TLB.
ASSUME EvictingAssumption == MaximumEntries >= Capacity + NoiseReads

VARIABLES
  pc,           \* the next step of the trigger process
  k,            \* position in Program
  i,            \* iterations of the current experiment begun
  target,       \* region of target_address
  link,         \* chain links written so far
  p,            \* p, the value last read
  noise,        \* random reads done so far
  misses,       \* misses
  report,       \* report[n]: what experiment n returned
  claimed,      \* preemption and interrupts are off
  cpu,          \* the CPU the process is on
  affinity,     \* the CPUs it may be scheduled on
  smep,         \* smep[c]: CR4.SMEP of CPU c
  noExecute,    \* top-level entries, by area, that still have the NX bit
  disturbances, \* translations dropped by the machine so far
  tainted,      \* history: this iteration met noise on its target or a drop
  spoiled,      \* history: iterations so tainted
  short         \* history: iterations whose chain was too short to evict

programVars == <<pc, k, i, target, link, p, noise, misses, report>>
cpuVars == <<claimed, cpu, affinity, smep, noExecute>>
historyVars == <<disturbances, tainted, spoiled, short>>
vars == <<mmuVars, programVars, cpuVars, historyVars>>

Current == Program[k]

\* Faulty variant: the offset 0x1ff << PAGE_TABLE_INDEX_SHIFT[level - 1] is lost.
UnalignedPrefix == <<target, 0>>
Prefix == <<target, 511>>

\* The top-level entry a fetch from region r goes through; on level 4 the
\* swapped entry is the top-level entry, and its NX bit moves with it.
Top(r) == r \div RegionsPerTop
TopEntries == Area \X {Top(r) : r \in Region}
TopEntry(r) ==
  <<IF RegionsPerTop = 1 THEN pageTable["base"][r] ELSE "base", Top(r)>>

Returned == [misses : 0 .. Iterations, spoiled : 0 .. Iterations, short : 0 .. Iterations]

TypeOK ==
  /\ MmuTypeOK
  /\ pc \in {"start", "exited", "experiment", "claim", "iterate", "build", "flush",
             "noise", "prime", "switch", "walk", "restore", "reflush", "report", "done"}
  /\ k \in 1 .. Len(Program) + 1
  /\ i \in 0 .. Iterations
  /\ target \in Region
  /\ link \in Nat
  /\ p \in Word
  /\ noise \in Nat
  /\ misses \in 0 .. Iterations
  /\ report \in [1 .. Len(Program) -> Returned \cup {Nothing}]
  /\ claimed \in BOOLEAN
  /\ cpu \in CPUs
  /\ affinity \in SUBSET CPUs
  /\ smep \in [CPUs -> BOOLEAN]
  /\ noExecute \subseteq TopEntries
  /\ disturbances \in 0 .. MaxDisturb
  /\ tainted \in BOOLEAN
  /\ spoiled \in 0 .. Iterations
  /\ short \in 0 .. Iterations

Init ==
  /\ MmuInit
  /\ pc = "start"
  /\ k = 1 /\ i = 0 /\ target = 0 /\ link = 0 /\ p = Zero /\ noise = 0 /\ misses = 0
  /\ report = [n \in 1 .. Len(Program) |-> Nothing]
  /\ claimed = FALSE
  /\ cpu \in CPUs
  /\ affinity = CPUs
  /\ smep = [c \in CPUs |-> TRUE]
  /\ noExecute = TopEntries
  /\ disturbances = 0 /\ tainted = FALSE /\ spoiled = 0 /\ short = 0

--------------------------------------------------------------------------------
(* The trigger process around the experiments *)

\* Faulty variant: the process is never pinned.
SetAffinityUnpinned ==
  /\ pc = "start"
  /\ pc' = "experiment"
  /\ UNCHANGED <<mmuVars, k, i, target, link, p, noise, misses, report, cpuVars, historyVars>>

\* sched_setaffinity moves the process to its core ...
SetAffinity ==
  /\ pc = "start"
  /\ affinity' = {PinnedCore} /\ cpu' = PinnedCore
  /\ pc' = "experiment"
  /\ IF cpu = PinnedCore THEN UNCHANGED mmuVars ELSE FlushMmuCaches
  /\ UNCHANGED <<k, i, target, link, p, noise, misses, report,
                 claimed, smep, noExecute, historyVars>>

\* ... or fails, and main returns 1.
SetAffinityFails ==
  /\ pc = "start"
  /\ pc' = "exited"
  /\ UNCHANGED <<mmuVars, k, i, target, link, p, noise, misses, report, cpuVars, historyVars>>

\* The scheduler moves the process between the CPUs it may run on.
Migrate ==
  /\ ~claimed
  /\ pc \notin {"exited", "done"}
  /\ \E c \in affinity \ {cpu} : cpu' = c
  /\ FlushMmuCaches
  /\ UNCHANGED <<programVars, claimed, affinity, smep, noExecute, historyVars>>

\* Faulty variant: misses is not reset between two experiments.
BeginExperimentKeepingMisses ==
  /\ pc = "experiment"
  /\ k <= Len(Program)
  /\ smep' = IF Current.smepOff THEN [smep EXCEPT ![cpu] = FALSE] ELSE smep
  /\ i' = 0 /\ spoiled' = 0 /\ short' = 0
  /\ pc' = "claim"
  /\ UNCHANGED <<mmuVars, k, target, link, p, noise, misses, report,
                 claimed, cpu, affinity, noExecute, disturbances, tainted>>

\* device_read calls the next experiment; the split and shared layer ones
\* begin with disable_smep, which clears CR4.SMEP of the CPU they are on.
BeginExperiment ==
  /\ pc = "experiment"
  /\ k <= Len(Program)
  /\ smep' = IF Current.smepOff THEN [smep EXCEPT ![cpu] = FALSE] ELSE smep
  /\ i' = 0 /\ misses' = 0 /\ spoiled' = 0 /\ short' = 0
  /\ pc' = "claim"
  /\ UNCHANGED <<mmuVars, k, target, link, p, noise, report,
                 claimed, cpu, affinity, noExecute, disturbances, tainted>>

\* Faulty variant: preemption and interrupts stay on.
ClaimForgotten ==
  /\ pc = "claim"
  /\ pc' = "iterate"
  /\ UNCHANGED <<mmuVars, k, i, target, link, p, noise, misses, report, cpuVars, historyVars>>

ClaimCpu ==
  /\ pc = "claim"
  /\ claimed' = TRUE
  /\ pc' = "iterate"
  /\ UNCHANGED <<mmuVars, k, i, target, link, p, noise, misses, report,
                 cpu, affinity, smep, noExecute, historyVars>>

ReleaseCpu ==
  /\ pc = "iterate"
  /\ i = Iterations
  /\ claimed' = FALSE
  /\ pc' = "report"
  /\ UNCHANGED <<mmuVars, k, i, target, link, p, noise, misses, report,
                 cpu, affinity, smep, noExecute, historyVars>>

ReturnMisses ==
  /\ pc = "report"
  /\ report' = [report EXCEPT ![k] = [misses |-> misses, spoiled |-> spoiled, short |-> short]]
  /\ k' = k + 1
  /\ pc' = "experiment"
  /\ UNCHANGED <<mmuVars, i, target, link, p, noise, misses, cpuVars, historyVars>>

Finish ==
  /\ pc = "experiment"
  /\ k > Len(Program)
  /\ pc' = "done"
  /\ UNCHANGED <<mmuVars, k, i, target, link, p, noise, misses, report, cpuVars, historyVars>>

--------------------------------------------------------------------------------
(* One iteration of an experiment *)

\* A random target; both walks find the entries, clear_nx clears both top-level NX bits.
Iterate ==
  /\ pc = "iterate"
  /\ i < Iterations
  /\ \E r \in Region :
       /\ target' = r
       /\ noExecute' = noExecute \ (Area \X {Top(r)})
  /\ link' = 0 /\ noise' = 0 /\ tainted' = FALSE
  /\ pc' = "build"
  /\ UNCHANGED <<mmuVars, k, i, p, misses, report, claimed, cpu, affinity, smep,
                 disturbances, spoiled, short>>

\* build_pointer_chain stops at its length or at the end of the mapped entries.
ChainGoesOn == link < Current.length /\ target + link + 1 < Entries

\* Faulty variant: the next link is not advanced, every link points to the start.
BuildLinkToStart ==
  /\ pc = "build"
  /\ ChainGoesOn
  /\ WriteData(<<target + link, 0>>, <<target, 0>>)
  /\ link' = link + 1
  /\ UNCHANGED <<pc, k, i, target, p, noise, misses, report, cpuVars, historyVars>>

BuildLink ==
  /\ pc = "build"
  /\ ChainGoesOn
  /\ WriteData(<<target + link, 0>>, <<target + link + 1, 0>>)
  /\ link' = link + 1
  /\ UNCHANGED <<pc, k, i, target, p, noise, misses, report, cpuVars, historyVars>>

\* Faulty variant: a chain cut off by the mapped end is left open (return for break).
CloseChainIfComplete ==
  /\ pc = "build"
  /\ ~ChainGoesOn
  /\ IF link = Current.length THEN WriteData(<<target + link, 0>>, Prefix)
                              ELSE UNCHANGED mmuVars
  /\ pc' = "flush"
  /\ UNCHANGED <<k, i, target, link, p, noise, misses, report, cpuVars, historyVars>>

CloseChain ==
  /\ pc = "build"
  /\ ~ChainGoesOn
  /\ WriteData(<<target + link, 0>>, Prefix)
  /\ pc' = "flush"
  /\ UNCHANGED <<k, i, target, link, p, noise, misses, report, cpuVars, historyVars>>

\* Faulty variant: what the chain writes cached is not flushed before priming.
FlushForgotten ==
  /\ pc = "flush"
  /\ pc' = "noise"
  /\ UNCHANGED <<mmuVars, k, i, target, link, p, noise, misses, report, cpuVars, historyVars>>

Flush ==
  /\ pc = "flush"
  /\ FlushMmuCaches
  /\ pc' = "noise"
  /\ UNCHANGED <<k, i, target, link, p, noise, misses, report, cpuVars, historyVars>>

ReadNoise ==
  /\ pc = "noise"
  /\ noise < Current.noise
  /\ \E r \in Region :
       /\ ReadOnly("data", <<r, 0>>)
       /\ tainted' = (tainted \/ r = target)
  /\ noise' = noise + 1
  /\ UNCHANGED <<pc, k, i, target, link, p, misses, report, cpuVars,
                 disturbances, spoiled, short>>

\* p = read_data(target_address) or fetch_instruction(target_address)
Prime ==
  /\ pc = "noise"
  /\ noise = Current.noise
  /\ p' = Load(Current.prime, <<target, 0>>)
  /\ ReadOnly(Current.prime, <<target, 0>>)
  /\ pc' = "switch"
  /\ UNCHANGED <<k, i, target, link, noise, misses, report, cpuVars, historyVars>>

Switch ==
  /\ pc = "switch"
  /\ SwitchPageTableEntries(target)
  /\ pc' = "walk"
  /\ UNCHANGED <<k, i, target, link, p, noise, misses, report, cpuVars, historyVars>>

\* while(p != prefix_aligned_address) p = ...(p), in the experiments that walk
Walking == Current.walk # Nothing /\ p # Prefix

Walk ==
  /\ pc = "walk"
  /\ Walking
  /\ p \in Page
  /\ p' = Load(Current.walk, p)
  /\ ReadOnly(Current.walk, p)
  /\ UNCHANGED <<pc, k, i, target, link, noise, misses, report, cpuVars, historyVars>>

\* The end of the mapped entries cut the chain off before it could evict:
\* too few links are left that a noise read has not put into a TLB.
CutShort ==
  /\ Current.length > 0
  /\ target + link + 1 >= Entries
  /\ link < Capacity + Current.noise

Count(flag) == IF flag THEN 1 ELSE 0

\* if(... (p) == SIGNAL) misses += 1
Probe ==
  /\ pc = "walk"
  /\ ~Walking
  /\ p \in Page
  /\ misses' = misses + Count(Load(Current.probe, p) = Signal)
  /\ ReadOnly(Current.probe, p)
  /\ spoiled' = spoiled + Count(tainted)
  /\ short' = short + Count(CutShort)
  /\ pc' = "restore"
  /\ UNCHANGED <<k, i, target, link, p, noise, report, cpuVars, disturbances, tainted>>

\* Faulty variant: the entries are not switched back.
RestoreForgotten ==
  /\ pc = "restore"
  /\ pc' = "reflush"
  /\ UNCHANGED <<mmuVars, k, i, target, link, p, noise, misses, report, cpuVars, historyVars>>

Restore ==
  /\ pc = "restore"
  /\ SwitchPageTableEntries(target)
  /\ pc' = "reflush"
  /\ UNCHANGED <<k, i, target, link, p, noise, misses, report, cpuVars, historyVars>>

\* Faulty variant: the caches are not flushed after the entries are back.
ReflushForgotten ==
  /\ pc = "reflush"
  /\ i' = i + 1
  /\ pc' = "iterate"
  /\ UNCHANGED <<mmuVars, k, target, link, p, noise, misses, report, cpuVars, historyVars>>

Reflush ==
  /\ pc = "reflush"
  /\ FlushMmuCaches
  /\ i' = i + 1
  /\ pc' = "iterate"
  /\ UNCHANGED <<k, target, link, p, noise, misses, report, cpuVars, historyVars>>

\* The machine drops something it cached (a sibling hyperthread is not disabled).
Disturb ==
  /\ pc \in {"noise", "switch", "walk"}
  /\ disturbances < MaxDisturb
  /\ \/ \E s \in Structure : \E pg \in Page : DropTranslation(s, pg)
     \/ \E s \in Structure : \E r \in Region : DropEntry(s, r)
  /\ disturbances' = disturbances + 1
  /\ tainted' = TRUE
  /\ UNCHANGED <<programVars, cpuVars, spoiled, short>>

Step ==
  \/ SetAffinity \/ SetAffinityFails
  \/ BeginExperiment \/ ClaimCpu \/ ReleaseCpu \/ ReturnMisses \/ Finish
  \/ Iterate \/ BuildLink \/ CloseChain \/ Flush \/ ReadNoise \/ Prime
  \/ Switch \/ Walk \/ Probe \/ Restore \/ Reflush

Terminating == pc \in {"exited", "done"} /\ UNCHANGED vars

Next == Step \/ Migrate \/ Disturb \/ Terminating

Spec == Init /\ [][Next]_vars

\* The CPU executes the process whenever it is runnable.
FairSpec == Spec /\ WF_vars(Step)

--------------------------------------------------------------------------------
(* Correctness *)

\* The caches that answer the probe correctly when nothing interferes: they
\* are filled by the prime, asked by the probe, and out of the walk's reach.
Survivors(e) ==
  ((Serving(e.prime) \cap Serving(e.probe)) \cap present)
    \ (IF e.walk = Nothing THEN {} ELSE Serving(e.walk))

\* Whoever may run because the program does not own the CPU finds every page-table
\* entry in its place and no stale translation, and so does the next iteration
\* before it writes its chain (experiments.c: claim_cpu, switch, switch back,
\* flush, release_cpu).
WindowClosed ==
  ~claimed \/ pc \notin {"walk", "restore", "reflush"} => PageTableIntact /\ CachesCoherent

\* No chain write ever lands in a complementary page, and no base page ever
\* holds SIGNAL: a read of SIGNAL at the probe does come from the swapped entry.
SignalIntact ==
  \A pg \in Page : memory["complementary"][pg] = Signal /\ memory["base"][pg] # Signal

\* The walk, with interrupts off, follows mapped pages of the chain only: it
\* never dereferences 0 or SIGNAL and never enters the swapped target region
\* except through the last link (experiments.c: while(p != prefix)).
WalkStaysMapped ==
  pc = "walk" => p \in Page /\ (p[1] = target => p = Prefix)

\* A fetch from user pages finds SMEP off on the CPU it runs on and no NX bit
\* in the top-level entry it goes through (disable_smep, clear_nx).
FetchPermitted ==
  LET allowed(kind, pg) ==
        kind = "instruction" => ~smep[cpu] /\ TopEntry(pg[1]) \notin noExecute
  IN  /\ pc = "noise" /\ noise = Current.noise => allowed(Current.prime, <<target, 0>>)
      /\ pc = "walk" => allowed(IF Walking THEN Current.walk ELSE Current.probe, p)

\* A cache that should have answered the probe is missed only in iterations
\* in which noise hit the target's own region or the machine dropped an entry.
MissSound ==
  pc # "experiment" /\ k <= Len(Program) /\ Survivors(Current) # {} => misses <= spoiled

\* Iterations of the current experiment whose probe is done.
Probed == i + Count(pc \in {"restore", "reflush"})

\* Where no such cache exists, every probe misses, except when the chain was
\* cut off by the end of the mapped entries and was too short to evict, or when
\* the machine dropped an entry, whose place the chain then fills in vain.
\* Where no chain is walked nothing excuses a hit.
HitSound ==
  pc # "experiment" /\ k <= Len(Program) /\ Survivors(Current) = {} =>
    /\ Probed <= misses + short + disturbances
    /\ Current.walk = Nothing => Probed <= misses

\* Faulty variant: a THRESHOLD of one half.
DoesNotExistByHalf(m) == 2 * m >= Iterations

\* evaluate_cache_existence: misses >= ITERATIONS * THRESHOLD
DoesNotExist(m) == 10 * m >= 8 * Iterations

\* "translation cache does not exist" is printed of a level whose cache serves
\* data only if THRESHOLD of the iterations met interference, and it is always
\* printed of a level without one.  (evaluate_cache_hierarchy draws no verdict:
\* it prints the counts of the other experiments.)
VerdictSound ==
  \A n \in 1 .. Len(Program) : report[n] # Nothing /\ Program[n] = TestCacheExistence =>
    IF Survivors(Program[n]) # {}
    THEN DoesNotExist(report[n].misses) => 10 * report[n].spoiled >= 8 * Iterations
    ELSE DoesNotExist(report[n].misses)

\* Every run of the program ends: no walk goes round in circles.
Termination == <>(pc \in {"exited", "done"})

--------------------------------------------------------------------------------
(* Why it is correct: what every step of the experiments keeps true *)

Inside == pc \in {"build", "flush", "noise", "switch", "walk", "restore", "reflush"}

\* Counters stay within the iterations begun.
ControlInv ==
  /\ Inside \/ pc \in {"claim", "iterate", "report"} => k <= Len(Program)
  /\ Inside => i < Iterations
  /\ claimed <=> (Inside \/ pc = "iterate")
  /\ \A n \in {misses, spoiled, short} : n <= i + Count(pc \in {"restore", "reflush"})

\* Between the two switches exactly the target's entries are exchanged.
TableInv ==
  \A a \in Area : \A r \in Region :
    pageTable[a][r] = IF r = target /\ pc \in {"walk", "restore"}
                      THEN (IF a = "base" THEN "complementary" ELSE "base") ELSE a

\* Only the probe can cache a translation into the complementary area, and
\* only for the target.
CacheInv ==
  \A s \in Structure : \A pg \in Page :
    pg[1] # target \/ pc \notin {"restore", "reflush"} =>
      tlb[s][pg] \in {Nothing, "base"} /\ cache[s][pg[1]] \in {Nothing, "base"}

\* The chain written so far, and where the walk stands on it.
ChainInv ==
  /\ pc \in {"build", "flush", "noise", "switch", "walk"} =>
       /\ target + link < Entries
       /\ \A j \in 0 .. link - 1 : memory["base"][<<target + j, 0>>] = <<target + j + 1, 0>>
  /\ pc \in {"flush", "noise", "switch", "walk"} => memory["base"][<<target + link, 0>>] = Prefix
  /\ pc \in {"switch", "walk"} => p = Prefix \/ \E j \in 1 .. link : p = <<target + j, 0>>

\* As long as nothing interfered, the surviving caches remember the target.
SurvivalInv ==
  ~tainted =>
    /\ pc = "noise" => \A s \in Structure : tlb[s][<<target, 0>>] = Nothing
    /\ pc \in {"switch", "walk"} => \A s \in Survivors(Current) : cache[s][target] = "base"

\* The inductive invariant: the parts above with what they imply about memory.
IInv ==
  /\ TypeOK
  /\ ControlInv
  /\ TableInv
  /\ CacheInv
  /\ SignalIntact
  /\ ChainInv
  /\ SurvivalInv
  /\ MissSound

--------------------------------------------------------------------------------
(* Why a cache that is walked over does not answer the probe *)

\* A machine caches entries only where it has a cache, and as many as fit.
CapacityInv ==
  \A s \in Structure : \A r \in Region :
    cache[s][r] # Nothing => s \in present /\ Cardinality(newer[s][r]) < Capacity

\* The chain is as long as asked for unless the mapped entries end.
LengthInv ==
  /\ pc \in {"build", "flush", "noise", "switch", "walk"} => link <= Current.length
  /\ pc \in {"flush", "noise", "switch", "walk"} =>
       link = Current.length \/ target + link + 1 >= Entries
  /\ pc = "report" => i = Iterations

\* Regions whose first page a TLB translates: walking them fills no cache.
Translated == {r \in Region : \E s \in Structure : tlb[s][<<r, 0>>] # Nothing}

NoiseInv ==
  /\ pc \in {"build", "flush"} => noise = 0
  /\ pc = "noise" => noise <= Current.noise /\ Cardinality(Translated) <= noise

\* Between flush and probe nothing but noise, prime and walk fills a cache with
\* the target's entry, and nothing the TLBs with the page that is probed.
QuietInv ==
  /\ pc \in {"noise", "switch", "walk"} => \A s \in Structure : tlb[s][Prefix] = Nothing
  /\ pc = "noise" /\ Current.noise = 0 => \A s \in Structure : cache[s][target] = Nothing
  /\ pc \in {"switch", "walk"} /\ Current.noise = 0 /\ Current.walk = Nothing =>
       \A s \in Structure \ Serving(Current.prime) : cache[s][target] = Nothing

\* The links that s has used since it last used the target, or will use.
Pushing(s) ==
  {r \in target + 1 .. target + link :
     r \in newer[s][target] \/ (p # Prefix /\ r >= p[1] /\ r \notin Translated)}

\* The machine has dropped something in this iteration, which is accounted for.
Disturbed ==
  tainted /\ (Survivors(Current) = {} => i + 1 <= misses + short + disturbances)

\* Enough links push the target's entry out of the caches that serve the walk.
EvictInv ==
  pc \in {"switch", "walk"} /\ Current.walk # Nothing =>
    \/ Disturbed
    \/ \A s \in Serving(Current.walk) :
         \/ cache[s][target] = Nothing
         \/ Cardinality(Pushing(s)) + Current.noise >= link

\* Whatever interfered taints the iteration.
HeardInv ==
  pc # "experiment" /\ k <= Len(Program) /\ Survivors(Current) = {}
    => Probed <= misses + short + spoiled

ReportInv ==
  \A n \in 1 .. Len(Program) : report[n] # Nothing =>
    IF Survivors(Program[n]) # {}
    THEN report[n].misses <= report[n].spoiled
    ELSE /\ Iterations <= report[n].misses + report[n].short + disturbances
         /\ Program[n].walk = Nothing => Iterations <= report[n].misses

HitIInv ==
  /\ CapacityInv
  /\ LengthInv
  /\ NoiseInv
  /\ QuietInv
  /\ EvictInv
  /\ HitSound
  /\ HeardInv
  /\ ReportInv

FullIInv == IInv /\ HitIInv

================================================================================
