# Talbot in TLA+

A verification project for the Talbot repository: TLA+ modules translated from
the C code under `src/`, TLC configurations that check them on small instances,
and TLAPS proofs for every value of the constants. Talbot is a set of Linux
kernel modules and user programs that discover the *translation caches*
(paging-structure caches) of an x86 processor: which page-table levels have one,
whether it is split for instructions and data, how many sets and ways it has, how
the set is chosen, how it replaces, and whether it honours PCIDs.

What makes this code hard is that its result is a conclusion drawn from what a
machine does *not* show. A forgotten flush, a chain that is one link short, a
page-table entry that is not switched back, a thread that runs late: none of it
crashes, the tool just reports another processor. The properties here therefore
relate what is *reported* to what the modelled machine *has*.

## 1. Inventory

Paths are relative to `src/`; `T/` stands for `Talbot/kernel_space/src/`.

| Component | Source | State | Operations | Who it talks to |
|---|---|---|---|---|
| Translation hardware and address space | `T/paging.c`, `T/cpu_instructions.c`, `paging.h`, `memory_access.h`, `cpu_instructions.h` in `Talbot/kernel_space/include` | page-table entries, pages, TLBs, paging-structure caches, CR4.SMEP, NX bits | read, write, fetch, walk, switch two entries, flush, claim and release the CPU | every experiment |
| Existence and hierarchy experiments | `T/experiments.c:16-254`, `T/pointer_chasing.c` | iteration, target, chain in memory, misses | one iteration: chain, flush, noise, prime, switch, walk, probe, switch back, flush | hardware; called by the evaluation |
| Set-index functions | `T/hash_functions.c` | none | `lin_hash`, `lin_shift_hash`, `xor_hash` | structure search, chains |
| Structure search | `T/evaluation.c:59-150`, `T/experiments.c:256-330` | the three loops, the best candidate so far, `translation_caches[level]` | try, accept, store, align, print | experiments, eviction sets |
| Eviction sets | `T/eviction_sets.c` | the chain in the mapped pages, `last_mandatory_address`, `size` | grow, recheck, skip, put back, compare with the hash | chains, structure search |
| Verdicts | `T/evaluation.c` | none | compare a count with `THRESHOLD` | output buffer |
| Replacement policy | `T/replacement.c` | permutation vectors, `replacement_order` | measure vectors, order evictions | structure (ways, hash) |
| Nesting, huge pages, PCIDs | `T/experiments.c:337-677`, `T/evaluation.c` | caches of two levels, CR3 with PCID | as above | structure |
| Talbot device | `T/module.c` | output buffer, `translation_caches` of one read | `device_read`, ioctl | evaluation; called by the trigger |
| Triggers | `user_space/trigger.c` of Talbot, CacheQuery, CrossHyperthread | mappings of levels 2 to 4, shared memory names, huge pages, affinity | unlink, open, map, pin, read, clean up | device; each other, through the names and the pinned core |
| cpuid decoding, result statistics | `Talbot/user_space/src`, `evaluation.py` of Talbot and CrossHyperthread | none | decode, count lines | none |
| CrossHyperthread module | `CrossHyperthread/kernel_space/src` | five completions, `thread_data`, two kernel threads | create, wake, wait with timeouts, the two thread bodies | hardware of two sibling hyperthreads |
| CacheQuery module and policies | `CacheQuery/` | the map of a query's letters to addresses | run a query, compare with a policy script | hardware |

The trigger maps memory, pins itself and reads the device; `device_read` runs the
evaluations of each level in a fixed order, every evaluation runs experiments and
appends verdict lines; later evaluations rely on the structure earlier ones stored.

**Hard behaviours.** (1) *Atomicity and order*: between the two switches of an
iteration the page table is wrong on purpose; nobody else may run, and every
cache must be emptied before the CPU is given back. (2) *Interference*: the
sibling hyperthread is not stopped, so a cached entry may vanish at any time.
(3) *Boundaries*: chains stop at the last mapped entry; chains that are one link
short turn a hit into a miss. (4) *State that outlives a call*: chains stay in
memory, completions stay completed, an automatic pointer keeps what the stack
held. (5) *Threads and timeouts* in the cross-hyperthread experiment.

**What makes each component correct.**

* Hardware and experiments: a miss is counted only if the cache that should
  answer did not remember the entry; a hit only if one did; the page table and the
  caches are whole again whenever others run; walks stay on mapped pages and end.
* Structure search: ends on the passing candidate with the fewest ways, then
  sets, and this *is* the structure of the cache; nothing unmeasured is stored.
* Eviction sets: what is left in memory after all the rewriting still evicts and
  still ends; an alignment verdict agrees with the cache.
* CrossHyperthread: the two threads stay in step, no more misses are counted than
  others took entries away unless the sibling evicts,
  `thread_data` outlives its users, every thread ends.
* Replacement: the vectors printed are those of the cache. Nesting, huge pages,
  PCIDs: every verdict is true of the machine, up to the conflicts the code accepts.
* CacheQuery: the state reported is what the set holds, which is what Talbot's
  vectors predict; every query whose pages are mapped is answered.
* Triggers: every page an experiment uses is mapped and the file has it; runs do
  not measure at once and do not share memory; every run ends; names are removed.

The hazards, each at its line, are listed in `PROJECT.json`.

## 2. Modules

```
Mmu ---- Measurement --- MeasurementRefinement --- MeasurementProofs
                  Oracle --/ (INSTANCE)       \--- MCMeasurement (2 cfgs)
HashFunctions -- TranslationCache -+-- StructureDiscovery -- MCStructureDiscovery
                  StructureSearch -/
                  StructureSearch ---- StructureSearchProofs
                                \----- MCStructureSearch
                StructureDiscovery ---/ (StructureSearchProofs extends both)
                 TranslationCache ---- EvictionSet -- MCEvictionSet (2 cfgs)
                                              \------ EvictionSetProofs
CrossHyperthread -- MCCrossHyperthread (2 cfgs)
                \---- CrossHyperthreadProofs
PolicyCache -+- ReplacementOrder -+
             +- LateExperiments --+- Session -- MCSession (3 cfgs)
             +- CacheQuery -------+
             +- PolicyScripts ----+
                MemoryLayout -----+
                           |      \------- SessionLemmas --- SessionProofs
                           \-------- MemoryLayoutProofs
Trigger -- MCTrigger
       \---- TriggerProofs
```

Every module names the code it stands for; definitions called `... Forgotten`,
`... OneShort` and the like, marked *Faulty variant*, are plausible bugs that the
properties are known to detect. They are no part of any specification.

### Mmu and Measurement

`Mmu` is one logical CPU and **one level** of the page table. A *region* is what
one entry of the level covers. Base entry `r` and its complementary twin are what
`switch_page_table_entries` exchanges, and a page is `<<region, sub entry>>` with
sub entries 0 (chain links) and 511 (the prefix-aligned probe). A
translation cache keeps page-table entries, a TLB whole translations; both come
in an instruction, a data and a shared flavour. An access looks up its own TLB,
the shared one, then the caches, then the table, and fills what serves it. The set
`present` of caches the machine has is chosen in `Init` and never changes: it is
what the program sets out to discover.

`Measurement` is the trigger process and the four experiments
`test_cache_existence`, `test_split_layer_instructions`,
`test_split_layer_data`, `test_shared_layer`. They have one shape; a record
(`TestCacheExistence` ...) says how they differ. One action per statement that
matters:

| Action | Code |
|---|---|
| `SetAffinity`, `SetAffinityFails`, `Migrate` | `trigger.c:240-247`; the scheduler (external) |
| `BeginExperiment` | `device_read` calls; `misses = 0`; `disable_smep()` |
| `ClaimCpu`, `ReleaseCpu` | `claim_cpu()`, `release_cpu()` |
| `Iterate` | random target, the two walks, `clear_nx` |
| `BuildLink`, `CloseChain` | `build_pointer_chain` and its early `break` |
| `Flush`, `ReadNoise`, `Prime`, `Switch`, `Walk`, `Probe`, `Restore`, `Reflush` | the statements of the loop body, in order |
| `Disturb` | the machine drops something it cached (external) |

The history variables `tainted`, `spoiled` and `short` record which iterations
were disturbed, or ran with a chain the mapped end had cut off; no guard reads
them.

### Oracle and MeasurementRefinement

`Oracle` is what the four experiments promise, without memory, chains, caches or a
CPU: the machine has some caches, and answers the questions of `Program` one after
the other; an answer is honest if it says "miss" where nothing remembers the entry
and "hit" where something does, up to the iterations that were disturbed or whose
chain could not evict. `MeasurementRefinement` instantiates it with `next <- k`
and `answers <- report`; `ImplementsOracle` says that `Measurement` is an
implementation: it also excludes that an answer is given twice, skipped, or
changed by a later experiment.

### StructureSearch, TranslationCache, StructureDiscovery

`StructureSearch` is `evaluate_cache_structure`: its loops with both `break`s,
the comparison with `THRESHOLD`, the conditional store, the alignment checks and
the printed line. What the measurements say is an arbitrary function `answer`, so
that the search can be checked, and proved, for any machine. The uninitialised
`hash_function` starts as any function name, `"null"` or `"wild"`; comparing it is
harmless, calling it may crash. `TranslationCache` is the pure part: a
set-associative LRU cache, `build_pointer_chain_from_hash` and the count that
`test_hash_function` returns. `StructureDiscovery` composes both: `answer` is what
an actual cache gives, or, on the machine `Erratic`, whatever noise makes of it.

### EvictionSet

`find_minimal_eviction_set` and `eviction_set_aligns_with_hash_function`, with
the chain kept **in the mapped pages**, because that is where the two functions
keep their state: links are left out by overwriting memory, never erased, and the
next call starts on what the last one left. `chain_evicts` is its verdict on a
noise-free cache (its iterations are those of `Measurement`).

### CrossHyperthread

The driver, a main and a sub thread per run, and the five completions with
`complete`, `complete_all`, `reinit_completion` and the two timed waits of the
driver and threads. Threads of an abandoned run may still be running when the
next run starts. The history variable `seen` is the set of PCIDs the sibling
switched to since the entry was cached. Unlike the experiments of `Measurement`,
neither thread claims its CPU (`hyperthreaded.c:43,97` are commented out), and main
sleeps at line 80 with its entry cached: `Disturb` is another task, the idle
task or an interrupt that evicts or flushes the entry between prime and probe, and the
history variable `disturbances` counts how often it did. `NoFalseMiss` is what remains true:
each disturbance costs at most one hit, and a run with more misses than that
has met PCID switches that evict. `NoFalseMiss` and `DataLive` are claims
for the case that the driver did not give up on a main thread: after it did, two
main threads may be running on one CPU, flush each other's caches, and use a
`thread_data` that is freed; nothing is claimed of that use after free.

### Session: MemoryLayout, ReplacementOrder, LateExperiments, CacheQuery

`Session` is one use of the tools once a structure is known: the trigger maps its
memory, `device_read` measures how two adjacent levels replace and runs the late
experiments on the lower one, then a CacheQuery trigger queries that level.

| Module | Code | State |
|---|---|---|
| `MemoryLayout` | `setup_levels`, `setup_level_entry` | the loop variables, `mapped_address_count`, the pages mapped. A page is its number from the base address |
| `ReplacementOrder` | `calculate_permutation_vectors`, `determine_replacement_order` | the chain, `replacement_order`, `initial_order`, `permutation_vectors`; one action per target position |
| `LateExperiments` | `test_nesting`, `test_huge_tlb`, `test_huge_page_eviction`, `test_supported_pcids`, `test_pcid_respect` and their verdicts | two levels of caches, a huge TLB, PCID tags, CR3, the swapped entry |
| `CacheQuery` | `query_cache`, `device_read` of CacheQuery | the address map, the chain in memory, what is cached of it from the iteration before |
| `PolicyScripts` | `evaluate_mrh.py`, `evaluate_huplru.py` | none: the queries and the states expected |

`PolicyCache` is one set of a cache and how it replaces: a *permutation policy*
reorders its lines by the vector of the position hit (LRU, FIFO and MRH are such
policies; these vectors are what `replacement.c` prints), HUPLRU is the tree
policy that the CacheQuery script looks for. A walk is a sequence of pages, of which
a page that the TLB has does not reach the cache again: that is why the chains use
a fresh sub entry for each touch, and the faulty variant that does not is detected.

`ReplacementOrder` counts a member of the set as its offset from the start.
`Outcomes` are the verdicts that THRESHOLD may give for each member, depending on
what the noise reads left in the set. `Blocks` is what `kmalloc` may return for
`replacement_order`: zeros, or at most `MaxDirty` times in a call any mixture of zeros, addresses of
the set and other words (`Garbage`). An address of the set makes
line 119 skip a member that has not been placed. A position that no member takes, as
on a cache whose newest line a second hit moves, keeps what the memory held, and line 51
writes through it (`TriggerGarbage`): that crashes, or touches a page of another set or of a
member beyond the ways, and the measurement goes on. `CacheQuery` keeps `stale`, the
region whose complementary entry the last iteration left cached, and
`memory`, the pointers in the base pages: a write through a stale entry does not
get there.

### Trigger

The three triggers as processes of one machine: `main` is a sequence of calls
(`TalbotMain`, `CacheQueryMain` with two queries, `CrossHyperthreadMain`), and a
run is a position in it. Objects of shared memory are known by the run that created
them; a run works on the one it has opened, whatever the name means by then. A
pinned run makes a step only while nobody else has claimed the core. A walk over a
chain that another run has overwritten may never end (`hung`). `raced` is a history
variable: runs that opened a name while another one was between its `shm_unlink` and
its `shm_open`. Any run may be killed outside the device, and `map_page`, `open`,
`read` and `sched_setaffinity` may fail; each failure takes the path of the code,
`exit`, `return 1` or `goto error`.

## 3. Runs

| Run | Question | Bounds | Result |
|---|---|---|---|
| `measurement` | Do all four experiments, in order, conclude rightly on every machine, leave no trace, and implement the oracle? | 4 entries, capacity 1, 1 iteration each, chains of 2 links, 1 noise read, 2 CPUs, 1 dropped translation, four regions under one top-level entry | holds |
| `split_layers` | Is what `evaluate_cache_existence` prints right over several iterations, up to as many disturbances as turn it, and are the invariants the proofs use true, with exactly evicting chains too? | existence, then split data; 4 entries, capacity 2, 2 iterations, 3 links, 2 dropped translations, each region its own top-level entry | holds |
| `structure_unknown` | What is printed if nothing passes? | 1 set count, 2 ways, 2 functions | violated: finding 2 |
| `structure_discovery` | Is the reported structure that of the cache, and do the loops, with everything they skip, end on the best candidate whatever is measured? | 18 entries; caches of 1, 2, 4 sets, 1 to 4 ways, both functions; and answers of which any subset of 12 candidates passes, the others failing by one iteration | holds |
| `eviction_set` | Does the set left in memory evict, does everything end, what can fault? | 6 entries, caches of 1 or 2 sets and 1 to 3 ways, 2 calls, 3 targets, right, wrong and null structures | holds |
| `eviction_set_minimal` | Is the set minimal? | 7 entries, 2 sets, 3 ways, one search | violated: finding 3 |
| `cross_hyperthread` | Are the threads in step, is memory safe, does everything end? | 2 runs, 2 iterations, 2 PCIDs, 1 disturbance, any wait may time out, any creation may fail | holds |
| `cross_hyperthread_reported` | Does a reported run measure anything? | as above, nothing times out or fails | violated: finding 1 |
| `session` | Is what the tools print what the machine has? | below; one query | holds |
| `huge_eviction` | Do as many huge pages as the huge TLB has entries evict it? | 4 huge pages, huge TLBs of 1 to 4 entries | violated: finding 5 |
| `query_sequence` | Does a CacheQuery trigger answer a second query? | the cache of `evaluate_mrh.py`, its 8 queries, 2 of them in a row | violated: finding 4 |
| `triggers` | What can overlapping runs of the triggers do to each other, and what do they leave behind? | 3 runs of two mixes of tools, 2 at a time, 2 kills or failures | holds |

**Why the bounds are enough.** *Entries*: with 4 regions there are targets
whose chain fits and targets whose chain the mapped end cuts off after 0, 1, ...
links. *Capacity and links*: `EvictingAssumption` (MAXIMUM_ENTRIES at least the
capacity plus the noise reads) is what the code means by "defines many";
`split_layers` checks it at equality, where a chain one link shorter fails.
*Iterations*: nothing carries over between iterations except memory and the
counters; two iterations give the states in which a chain is written over an
older one, three or more repeat them. In `measurement` the experiments follow each
other with the memory the earlier ones left. *Drops*: `MissSound` counts disturbed
iterations, and one is enough to make the count and the claim differ; in `split_layers` two
of two iterations may be disturbed, with which the verdict turns, and one, with which it must not.
*Answers* of the machine `Erratic` in `structure_discovery` are the two values around the threshold, the only
thing the loops distinguish. *Structure discovery* has every shape that 18
entries can hold and some that they cannot; the run's `Fits` draws the line.
*Two calls* are what it takes to start on a used page in `EvictionSet`. *Two runs*
are the quiet run and one reported run; a third starts from the same saturated
completions as the second. One disturbance per run makes misses and disturbances differ
in both directions. *Session*: `AllHosts` varies one feature at a time where
features do not interact and all together where they do: every policy of three ways
that keeps a line hit twice, all of two ways and HUPLRU; every reach of the mapped
entries from one member to more than the chains use; every combination of one or two
sets and ways on both levels, nested or not, unified or not, and one to three huge TLB
entries against four huge pages (so that eviction succeeds in some cases and
fails in others); one to five PCIDs out of four, respected or not. The layouts have 5
entries per table, of which 3 are mapped, with levels that are empty, even, partly
covered and entirely covered by the level below, the partly covered entry with fewer
or more than 3 pages; the theorems hold for every size. The queries
are all those of the two scripts and twelve short ones, one of which uses a letter
more often than there are sub entries. One block of a call may be dirty (`MaxDirty` = 1), the
initial order's or a later one, with one word that is no address; the theorems hold for any
number of blocks and words. *Triggers*: two runs at a time
are the overlap; the third finds what two others left. `MaxDisturb`, `MaxDirty`, `MaxCalls`,
`MaxQueries`, `MaxFaults`, `MaxAtOnce` and the numbers of `Runs` are the only
bounds that are not parameters of the code; `Iterations`, `MaximumEntries`,
`Pcids`, `LengthEnd`, `SetBitsEnd` and `MaxWays` are its numbers, made smaller.

`CHECK_DEADLOCK FALSE` is set for the search, the eviction sets and the session,
which return and then have nothing to do. The processes of the other modules end in an explicit `Terminating` step, so a deadlock there is an error.

**Fairness.** `FairSpec` of `Measurement` is `WF_vars(Step)`: the trigger is one
runnable process, and inside an iteration interrupts are off, so the CPU executes
its next instruction. `Migrate` and `Disturb` get none. `CrossHyperthread` has
weak fairness of the driver and of each kernel thread: they are woken, bound to
different logical CPUs and scheduled. A timed wait may be passed or elapse; only
when nothing ever completes it does fairness make it elapse, as a timer does.
(`ThreadsEnd` does not hang on the timeouts: it also holds with `SubLate` and
`MainLate` FALSE.)

`Trigger` has weak fairness of the start and of the next call of each run, as
the scheduler runs a process that can run; kills and failures get none. A pinned
run waits while another has interrupts off, and that one is never preempted, so
weak fairness is enough. `RunsEnd` is stated for behaviours without a race, as a lost walk
keeps the core for ever.

## 4. Findings

1. **Reported cross-hyperthread runs do not wait for the sibling.** `setup`,
   `desynchronization` and `pcid_switching` are initialised when the module is
   loaded; the quiet run ends with `complete_all` on each and nothing reinitialises
   them. From the second run on the waits pass at once, and the probe may come before
   the sibling has switched any PCID. The comment in `module.c:22` says that only
   the *first* run is inconsistent. (`cross_hyperthread_reported`)
2. **No structure found: the line printed is arbitrary.** `hash_function`
   (`evaluation.c:75`) is unassigned when no candidate passes; the comparisons in
   lines 126 to 136 read it anyway, so that the "unknown hash function" line comes
   only if the stack happens to hold neither function. (`structure_unknown`)
3. **"Minimal" eviction sets are not minimal.** After the first mandatory link
   the next skip is written to sub entry 1 of its region, where no chain passes any
   more (the second link per region in `pointer_chasing.c:29-32` is commented out).
   All later links count as superfluous and stay. The set still evicts
   (`FoundSetEvicts` holds). (`eviction_set_minimal`)
4. **A CacheQuery trigger may lose its second query.** `query.c:163` switches
   the entries back and no flush follows the last iteration. If the last letter of a
   query was found missed, its complementary entry is cached when the next
   query's chain is written; the pointer that belongs into that region lands in the
   complementary area, and the walk, which does begin with a flush, reads the old one and
   leaves the chain, with interrupts off. It takes that nothing flushes the caches in
   between, which the model leaves open. The first query is never lost
   (`FaultsExplained`): its chain changes from letter to letter in the last link only, and
   that one is in the region accessed last, which is never found missed. The scripts give all their queries to one trigger.
   (`query_sequence`) If the link that the page keeps leads further along the new chain, the walk
   even arrives, but it skips pages and the state reported is another one: on an LRU cache of
   two ways ABCAB, asked after ABCBA, is answered with B where its accesses leave AB. `ToolsAgree`
   is therefore stated for the first query of a trigger; for every query (`AnswersAgree`) it is false.

5. **As many huge pages as the TLB has entries do not evict it.** All huge pages map one page
   of memory, and the first two links of `build_huge_chain` (`pointer_chasing.c:44`) are
   written to the same offset of it: the chain leaves out huge page 1. Besides the target the walk
   touches `HugePages - 2` pages, so that `test_huge_page_eviction` reports no eviction for a
   huge TLB of `HugePages` or `HugePages - 1` entries (with the link in place, the latter would be
   evicted). `trigger.c:220` warns that too few pages are mapped only of TLBs with more entries
   than pages. (`huge_eviction`)

What the properties had to leave room for is worth knowing too. *VectorsSound*
excludes runs in which `kmalloc` returned an address of the set (any other word does no
harm where the vectors can be found out), and policies that a second hit on the
newest line changes, since the chains touch their start twice. *HugeSound* states the
eviction of the huge TLB as it is, of at most `HugePages - 2` entries (finding 5); and a cache is also
found unified if nesting evicts a target whose upper entry the huge pages' push out. *NestingSound*: if the chain for
the level above fills some target's set on the level below, levels are found
nested that are not: one target out of many is enough, as `test_nesting` adds up misses of
all. *PagesMapped* holds for the sizes called `EvenLayout`, the
defaults (16384, 512, 32) among them; for others the precedence in `trigger.c:119` makes
setup skip pages of every level 4 entry. *NoFalseMiss* says nothing of an
affected machine, where saturated completions (finding 1) or disturbances decide the count.
*FaultsExplained*: words that `kmalloc`'ed memory held are written through where the initial order
has a gap (`replacement.c:40` tells a gap by 0 only); without a structure the
replacement experiment calls a null pointer; the check in `test_nesting`
(`experiments.c:354`) is never reached, as `device_read` comes to it later. *NoStaleTranslation*: after `test_pcid_respect` stale translations
remain under the PCIDs probed, never under PCID 0; should one be the PCID that
Linux uses for the process, they are dropped only when Linux loads it without NOFLUSH.
*LostWalksExplained*: `shm_unlink` followed by `shm_open` without `O_EXCL` lets two
runs share memory; only that can lose a walk. The pool has one huge page of each size,
so that a second concurrent Talbot run exits in `map_page`, leaving its names.

## 5. Proofs

Eight modules hold proofs; all obligations are proved by tlapm from the
assumptions named in the modules, and no others.

**Measurement** (assumptions `MmuAssumption`, `MeasurementAssumption`,
`EvictingAssumption`). For any number of entries, any cache capacity, any
number of iterations and noise reads, any CPUs and any program of such experiments:
`Invariance` (Spec => []IInv), `TypeCorrect`, `WindowIsClosed`,
`SignalStaysIntact`, `WalkIsMapped`, `MissesAreSound`, `FetchesPermitted`.
`WindowIsClosed` is about the claim: in every state in which the CPU is not claimed, hence
another task may run, and between two iterations, no entry is swapped and nothing stale is cached.

None of the properties is inductive alone. `SignalIntact` (no write reaches a
complementary page) needs that no write is translated there, which needs
`TableInv` (exactly the target's entries are exchanged, exactly between the
switches) and `CacheInv` (only the probe can cache a complementary translation,
only of the target, and it is flushed before the next write). `WalkStaysMapped`
needs `ChainInv`: what the chain written so far looks like in memory and where
`p` stands on it. `MissSound` needs `SurvivalInv`: while nothing interfered, no
TLB answers the prime, so that the prime really fills each surviving cache, and
the walk, which uses the other kind of access, cannot push the entry out. The step
from there to the probe is that a surviving cache sends the probe to the
base page, which never holds SIGNAL. Type correctness carries the bounds of the
counters (`ControlInv`). `IInv` is the conjunction, and is checked by TLC as a
part of `FullIInv` in `split_layers`; one step per action, one lemma
per hardware operation.

`FetchesPermitted` holds for any CPUs and any schedule, where the
regions of the level share a top-level entry and every experiment that fetches begins
with `disable_smep`. `disable_smep` runs before `claim_cpu` and clears the bit of one CPU; it is
enough because the process was pinned before (`PermitInv`). `clear_nx` clears the bits of the
target's walk, which the other regions of the walk share.

**Refinement** (the last part of `MeasurementProofs`): `ExperimentsRefine`, that any program of
the four experiments implements the oracle, under every disturbance; on the way
`HitsAreSound` and `VerdictsAreSound`. `IInv` gives one half, that misses are
explained (`MissSound`). The other half, that hits are, is `HitIInv`. For an
experiment that walks no chain: between flush and probe, no TLB has the
prefix-aligned page and no cache but those the prime fills has the target's entry
(`QuietInv`). For one that does: a cache is LRU of any capacity, modelled by the set of
entries used later than each one; `EvictInv` says that at every point of the walk
the links used since the target, with those still to come and the noise, are as many as the
chain was to have, so that after the walk the target would have `Capacity` younger entries
(`EvictingAssumption`), which `CapacityInv` excludes. What a TLB already
translates fills no cache (`Translated`), and only the noise can have caused
that (`NoiseInv`). Every step but `ReturnMisses` is a stutter of the oracle. The
attempt corrected the model: a dropped entry of *another* region makes room, so that the
walk fills a hole instead of evicting, and the drop need not have touched
anything the probe uses; `HitSound` and `VerdictSound` now count `disturbances` too. The
run had not shown it, since its caches were never full when an entry was dropped. `VerdictsAreSound`
is about the one verdict drawn from these experiments, that of `evaluate_cache_existence`; the
others' counts are only printed.

**StructureSearch** (`StructureSearchAssumption`): `SearchInvariance`,
`SearchIsSound`, `StoredStructureIsMeasured`. The invariant says that everything
behind the loop's position is no better than the best candidate so far
(`SearchIInv`, with `BehindIsNoBetter`), in spite of the two `break`s: what is skipped has more ways than
the best, or shares its ways and sets. On the measurements of any cache
(`DiscoveryAssumption`, `PowersAssumption`), `WaysAreEnough`: the tool never reports
fewer ways than the cache has. A chain that makes the cache forget has at
least as many different members as the cache has ways (`ForgetsOnlyWhenFull`); that a chain's
members are different needs that both hash functions grow with the offset, also
where `lin_shift` goes pair by pair.

**EvictionSet** (assumptions of `TranslationCache` and `EvictionSet`):
`EvictionInvariance`, `EvictionTypes`, `FoundSetsEvict`, `PrintingIsSafe`,
`SearchGivesUpRightly`, `AlignmentSound`, `FaultsAreOutside`, for every machine, any number of
entries and calls, whatever earlier calls left in memory. `EvictionIInv`, an
invariant of the run, says which chain is in memory: link by link from the first region that has not
been left out to the end (`Chained`), and that it still evicts (`Fills`). `SkipInv`
is the point of it: up to the first mandatory link each skip shortens the chain
by one; afterwards every write goes to sub entry 1 of a region, where no chain
passes, so that nothing changes any more (finding 3). A chase through memory is a
recursive function; where memory holds a chain it has a closed form
(`ChaseChained`), and a walk evicts exactly if enough of its regions share the
target's set (`ChainEvicts`). The attempt corrected `FaultsOnlyOutside`, which was too
weak to be kept by a step: a search runs out of the mapped entries with its
shortest chain only.

**Session** (`LateAssumption`, `QueryAssumption`, `SessionAssumption`; `SessionLemmas`
says what sets, caches, folds and steps do, `SessionProofs` what follows for what is
printed): `SessionInvariance`, `VectorsAreSound`, `NothingStaysStale`, `PcidsAreCounted`,
`NestingIsSound`, `HugeIsSound`, `TheToolsAgree`, `EveryFaultIsExplained`, for any machines that have sets and keep at least one PCID, and for any
layouts, query texts and permutation policies (`IsPolicy`).
`VectorsAreSound`: what `replacement_order` prints is the cache's policy, if a second hit
on the newest line leaves it in the cache and the memory suffices (`Predictable`). `OrderInv` says how far a
measurement is: the vectors found so far are the cache's, and the members placed
so far are, from the end, the last ones in the order that the chain leaves the set
in (`MemberAt`). Three steps carry it. A walk of different pages
touches each once (`DistinctWalk`), and the start chain, gone through twice, has pushed
every other line out of the set (`FillsUp`, `SetIsFilled`). After the candidate's
members follow, those are missing whose line is not among the first `position`
(`EvictedAre`). Vectors are permutations, so one
member only can be the next (`Placed`, `OneOutcome`). What is printed stays as it was found
(`PrintedInv`). `NothingStaysStale` needs that an experiment which uses
no PCIDs stays on the one it found (`LateInv`).
`PcidsAreCounted` is about two levels of tagged caches. What an experiment leaves under
a PCID other than the one it comes back to is stale exactly if PCIDs are respected (`Abroad`:
otherwise the tags are all 0 and the flush of PCID 0 takes everything along), so that the
probe of `test_pcid_respect` misses whichever PCID is drawn and whatever earlier iterations
have left there. The PCIDs that the machine keeps after loads of 1 .. q are the last ones of
0 .. q, the newest first (`Counts`, `RecentIs`), so that PCID 0 and the target with it go
at exactly the `host.pcids`-th load (`LoadOneMore`, `LoadsCount`). Hence each iteration
of one experiment ends as the others do (`Misses`), and the count stops at the
first number that passes (`CountInv`).

`NestingIsSound` and `HugeIsSound` are about what a chain does to one entry on two
levels and the huge TLB at once; `EvictionInv` is their invariant. Each iteration begins
with a flush, so that the page primed is the only one there is under the PCID in CR3
(`FlushIsFresh`, `PrimingIs`). Each link of the chain is an entry that no cache knows
(`RouteIsNew`), and makes the primed entry one way older if it goes into the same set (`Ages`);
a permutation says nothing about misses, which shift the lines (`TouchIs`, `Older`). What lies
between are the entries *above*: a new one makes that of the target older if they share a
set, one that was just used changes nothing provided that the policy leaves the
newest line alone, and the link that fills the set above takes the
target along on a nested machine (`TopsAge`). So the probe misses if the target's own
set is filled, hits if neither set is, and misses if the last link fills the set above
(`WalkEnds`); the chain of `test_nesting` is built to do the last, and the huge pages
fill what `InSetOf` and `TopsInSetOf` count (`NestingProbe`, `HugeProbe`, `EvictionProbe`). Where
every target is lost, or none, each round counts alike (`WalkingInv`), and the verdict follows
(`WalkedInv`). Where some targets are lost and others not, nothing is
claimed: that is the case the two properties leave room for.

`EveryFaultIsExplained` has two parts. A crash
needs a level without a structure or with an unmapped next member, or an initial order that holds a word which
is no address. The latter comes from a dirty block (`CrashInv`), and where members are
mapped, a second hit keeps the newest line and no address of the set was left over, `OrderInv` puts a member
into every position of the initial order, so that nothing of the block is left. A lost walk of CacheQuery is
excluded for the first query by `ChainKept`: what the stale entry hides from the
writes is a link that was already there, because successive letters
change the last link only; and by `PagesApart`: each use of a letter gets the sub entry
after the last, so that the pages of a chain are different and its walk
arrives.

`TheToolsAgree` puts three results together. In the walk of a first query the n-th page
accessed is a page of the n-th letter's member and new (`PagesApart`), so that the accesses do to the
set of members what the query does to its letters (`LettersApart`: different letters
have different members). `AnswerInv` keeps what has been found so far equal to what is
predicted for the letters asked so far; each iteration of a letter finds the same, as every
one begins with a flush. And the prediction made from the printed vectors is that of the policy,
because `VectorsAreSound` says that they are the policy's. Stating it for all queries was
the first attempt; the proof stopped at the chain of a second query, and TLC then found
the wrong answers of finding 4. The parts of `IInv`, `PcidInv` among them, were checked on the instances of `session` and
`query_sequence` before they were proved.

**MemoryLayout** (`LayoutAssumption`): `FileSuffices` and `AllPagesMapped`, for
every size of every level. `CountInv` bounds the pages used so far by what the
loops have gone through, level by level. `CoverInv` says that the entries
behind the loop are mapped, and that those each loop starts behind are, because
they are covered by the level below (`LevelTwoMapsThree`, `LevelThreeMapsFour`,
where division and remainder come in).

**Trigger** (`TriggerAssumption`, `TriggerProofs`): `OneMeasurementTheorem`,
`LostWalksTheorem`, `LeftNamesTheorem`, for any number of runs of the three tools at
once and any number of kills and failing calls. `Programs` says once where in
each `main` which calls are; the rest of the proof is about positions. At most
one run has interrupts off because such a run is pinned (`PinInv`) and a pinned one
gets the core only from nobody else (`ClaimInv`). A lost walk needs a chain that
another run wrote over, hence one object open in two runs (`ChainInv`), which one of them
did not create (`SharedInv`); and a name that exists when a run comes to open it was made
by a run that opened it while both were about to (`RaceInv`). A name that is there
belongs to a run that still has its last `shm_unlink` to come, or that ended early (`TidyInv`).

**CrossHyperthread** (`CrossHyperthreadAssumption`, `CrossHyperthreadProofs`):
`TypesOfThreads`, `FirstRunTheorem`, `NoFalseMissTheorem`, `DataLiveTheorem`, for any
number of runs, iterations and PCIDs, with waits timing out and creations failing.
Memory safety and misses rest on `WaitInv`: unless the driver gave up, at most one main
thread is awake, that of the driver's run, and `main_done` is completed, after its
initialisation, by that thread only. The first run rests on `InStep`, which ties the
positions of both threads to the counts of `desynchronization` and `pcid_switching`
and to the PCIDs gone through since the prime; on `LoadedInv`, that nobody has touched these
completions before; and again on `WaitInv`, that nobody else does. A later run finds
the completions as the run before left them (`All`), and nothing of this is left: finding 1.

**How data is dealt with.** The library's induction theorems are out of reach,
not induction itself: a set of natural numbers has a least element (`Minimum`, from
`WellFoundedInduction`), and the least counterexample of a claim about lengths or positions has a
predecessor that satisfies it. Folds over sequences are unfolded once
into the step function they stand for (`FoldRuns`, `WalkFold`).

**Only model-checked.** `FindsStructure`, which depends on how the starts are
spread over the sets and on the arithmetic of powers of two; in `Session`, what the two policy scripts give (`ScriptsHold`), which is a
finite computation.
`Termination`, `ThreadsEnd` and `RunsEnd` stay so: liveness under
fairness and ENABLED are outside the prover's reach.

## 6. Abstractions and what is not modelled

* `Mmu` is one level of the page table: the caches of the other levels are flushed with
  it and, by the choice of sub entry 511, not hit by the probe. Its caches replace the
  least recently used entry; the chains touch each entry once, so FIFO gives the same
  verdicts. `LateExperiments` has a second, data-only model of the hardware with two
  levels and PCIDs; `PolicyCache` has any policy, on one set.
* `ReplacementOrder` and `CacheQuery` look at one set. The iterations of one member
  or letter are one step, as they are those of `Measurement`; noise is
  assumed to fill the set with other lines, and not to hit its members, which
  at 1000 iterations decides no verdict. Both continue only as far as they can be
  compared: after vectors printed from leftover addresses the session ends. What a write through a garbage
  word destroys (`replacement.c:51`) is not looked at: it may be a link, a page table or anything else.
  Only the block of `replacement_order` is looked at; the other blocks are written before they are read.
* `Disturb` of `CrossHyperthread` only takes entries away. Another task that runs on main's CPU while
  the entry is switched uses its own address space; what it would see of this one is not modelled.
* The chain of `test_nesting` steps by the number of sets, as `lin_hash` has it; `experiments.c:376` calls the
  hash function that was found, and with `lin_shift_hash` the members of a set lie apart
  differently.
* `ToolsAgree` and `TheToolsAgree` are about the first query of a trigger; of later ones finding 4 says
  why nothing is claimed.
* `LateExperiments` has no noise and no disturbance: `Measurement` shows what these do to
  an iteration. A mapped reach and the pages of a walk are taken from the chain
  functions; the walk itself ends because its chain is straight.
* `Session` runs the experiments on one pair of levels, not on all; a CacheQuery session
  follows whatever Talbot printed.
* `Trigger` does not look into an experiment: its chain, the claim, the walk and
  the release are one each. `enable_all_cores` and `get_co_resident` (`cores.c`) are left out, as no
  core is ever disabled.
* TLBs are never full in an iteration. `Disturb` may drop their entries.
* Random starts: `TestHashFunction` takes each possible start once, a balanced
  sample; how likely a sample is unbalanced is not a question for a model checker.
* `RegionsPerTop` says how many regions share a top-level entry, whose NX bit
  `clear_nx` clears. `FetchPermitted` is claimed, checked (`measurement`) and proved where
  all regions share one. On level 4 each region has its own; there the property is false of the model,
  as the walk fetches from regions whose NX bit nothing has cleared, and nothing is claimed.
* 128 noise reads are one read in the runs. On level 4, with 32 entries, the
  real number taints nearly every iteration; the properties hold but say little.
* `AlignSound` is stated for two or more ways; with one way no link of the chain
  is ever compared with the hash.
* `xor_hash`, which is switched off; which address space the threads of
  `CrossHyperthread` run in (`hyperthreaded.c:38`); the sizes of buffers.
* Formatting and the output buffer; the cpuid table; result statistics; the
  eviction-set printing that is switched off.

## 7. Plan

What is left, in this order:

1. The late experiments where a chain loses some targets and keeps others: the count is then
   that of the targets drawn, and the verdict depends on which they are.
2. One model of the hardware for `Measurement` and `LateExperiments`, so that noise
   and disturbance reach the late experiments too.
3. The address spaces of the kernel threads in `CrossHyperthread`.
4. `xor_hash`, and `CacheQuery` with sets chosen by each function.
