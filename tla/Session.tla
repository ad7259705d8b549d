-------------------------------- MODULE Session --------------------------------
(***************************************************************************)
(* What the user does with the tools once the structure of a translation   *)
(* cache is known: the trigger maps its memory; device_read measures how   *)
(* two adjacent levels replace, and runs the late experiments on the lower *)
(* one; then a CacheQuery trigger queries the lower level.                 *)
(***************************************************************************)
EXTENDS MemoryLayout, ReplacementOrder, LateExperiments, CacheQuery, PolicyScripts

CONSTANTS
  Hosts,      \* machines
  Sessions,   \* the layouts and machines that are looked at together
  Texts,      \* queries
  QueryStarts \* members that a query may start at

\* HUPLRU, or a policy whose vectors are permutations.
IsPolicy(policy) ==
  /\ policy.ways \in Nat \ {0}
  /\ \/ policy = Huplru
     \/ /\ policy.kind = "permutation"
        /\ policy.vectors \in [Positions(policy) -> [Positions(policy) -> Positions(policy)]]
        /\ \A hit, v \in Positions(policy) : \E w \in Positions(policy) : policy.vectors[hit][w] = v

ASSUME SessionAssumption ==
  /\ \A machine_ \in Hosts :
       /\ \A level \in {machine_.lower, machine_.upper} :
            IsPolicy(level.policy) /\ level.sets \in Nat \ {0} /\ level.reach \in Nat
       /\ machine_.pcids \in Nat \ {0} /\ machine_.respects \in BOOLEAN
       /\ machine_.hugeEntries \in Nat \ {0}
  /\ Texts \subseteq Seq(Nat)
  /\ QueryStarts \subseteq Nat

VARIABLES
  stage,      \* "layout", "lower", "upper", "late", "query", "crashed", "printed"
  printed     \* the permutation vectors printed for each level, so far

sessionVars == <<layoutVars, replacementVars, lateVars, queryVars, stage, printed>>

Init ==
  /\ LayoutInit /\ ReplacementInit
  /\ LateInit(Hosts)
  /\ <<entries, host>> \in Sessions
  /\ QueryInit({host.lower})
  /\ stage = "layout"
  /\ printed = <<>>

\* The trigger's setup_levels, and then its read of the device.
SetupLevels ==
  /\ stage = "layout"
  /\ LayoutNext
  /\ stage' = IF layoutLevel' = 5 THEN "lower" ELSE "layout"
  /\ UNCHANGED <<replacementVars, lateVars, queryVars, printed>>

\* The loop over the levels.  Calling a null pointer, or writing to a page that
\* is not mapped, is the end of the session; so, as a bound, are the vectors
\* printed after kmalloc'ed memory held anything but zeros.
EvaluateReplacementPolicy ==
  /\ stage \in {"lower", "upper"}
  /\ IF step = "done"
     THEN /\ step' = "idle"
          /\ printed' = Append(printed, [vectors |-> vectors, leftover |-> leftover])
          /\ stage' = IF dirty > 0 THEN "printed" ELSE IF stage = "lower" THEN "upper" ELSE "late"
          /\ UNCHANGED <<cache, chain, order, position, initial, vector, vectors, dirty, leftover>>
     ELSE /\ CalculatePermutationVectors(host[stage]) \/ ReplacementStep
          /\ stage' = IF step' = "crashed" THEN "crashed" ELSE stage
          /\ UNCHANGED printed
  /\ UNCHANGED <<layoutVars, lateVars, queryVars>>

LateEvaluations ==
  /\ stage = "late"
  /\ LateStep
  /\ UNCHANGED <<layoutVars, replacementVars, queryVars, stage, printed>>

\* device_read has returned, and a CacheQuery trigger starts: nothing is left of
\* the first one's locals and translations.
StartCacheQuery ==
  /\ stage = "late" /\ lateStep = "idle" /\ running > Len(LateProgram)
  /\ stage' = "query"
  /\ mmu' = EmptyMmu(host, OwnPcid)
  /\ goal' = 0 /\ missed' = 0 /\ count' = 0
  /\ chain' = <<>>
  /\ UNCHANGED <<layoutVars, step, cache, order, position, initial, vector, vectors, dirty, leftover,
                 host, lateStep, running, round, verdict, queryVars, printed>>

Query ==
  /\ stage = "query"
  /\ \/ \E text \in Texts : \E start \in QueryStarts : ReadQuery(text, start)
     \/ QueryStep
  /\ UNCHANGED <<layoutVars, replacementVars, lateVars, stage, printed>>

Next ==
  SetupLevels \/ EvaluateReplacementPolicy \/ LateEvaluations \/ StartCacheQuery \/ Query

Spec == Init /\ [][Next]_sessionVars

--------------------------------------------------------------------------------
(* Correctness *)

Level(n) == IF n = 1 THEN host.lower ELSE host.upper

\* A hit on the line that came last changes nothing.
FirstHitKeeps(policy) ==
  policy.kind = "permutation" /\ \A w \in Positions(policy) : policy.vectors[0][w] = w

\* The vectors printed are those of the cache, if hitting the newest line again
\* changes nothing (the chains touch their start twice), enough of the set is
\* mapped, and no member's address that kmalloc'ed memory held was taken for that
\* of a member already placed; whatever else it held does no harm (replacement.c).
VectorsSound ==
  \A n \in DOMAIN printed :
    LET level == Level(n)
    IN  FirstHitKeeps(level.policy) /\ level.reach >= 2 * level.policy.ways
          /\ ~ printed[n].leftover
        => printed[n].vectors = level.policy.vectors

\* The experiment has returned, on levels that replace by permutations.
Concluded(experiment) ==
  /\ \E n \in 1 .. running - 1 : LateProgram[n].name = experiment
  /\ host.lower.policy.kind = "permutation" /\ host.upper.policy.kind = "permutation"

\* Links of a chain that use the target's own set of the lower level.
InSetOf(target, chained) ==
  Cardinality({n \in DOMAIN chained : chained[n][1] % host.lower.sets = target % host.lower.sets})

\* Levels found nested are, unless the chain for the level above fills some
\* target's set of the level below as well; levels found not nested are not,
\* unless the mapped entries cut that chain off (test_nesting).
NestingSound ==
  Concluded("nesting") =>
    IF verdict["nesting"] = 1
    THEN host.nested \/ \E t \in Targets :
                          t < Fan /\ InSetOf(t, NestingChain) >= host.lower.policy.ways
    ELSE ~ host.nested \/ Len(NestingChain) < host.upper.policy.ways

\* What the huge pages' upper entries do to the target's, if levels are nested.
TopsInSetOf(target, chained) ==
  Cardinality({top \in {chained[n][1] \div Fan : n \in DOMAIN chained} :
                 top % host.upper.sets = (target \div Fan) % host.upper.sets})

\* A cache found unified with the huge TLB is, unless nesting evicts a target,
\* whose upper entry the huge pages' push out or, by hitting theirs again, move;
\* one found separate is, unless the huge pages do not fill a target's set; and a
\* separate huge TLB loses a page exactly if it has two entries less than there
\* are huge pages, one for the page itself and one that the chain, all of whose
\* links are in one page of memory, leaves out (build_huge_chain).
HugeSound ==
  /\ Concluded("huge_tlb") =>
       IF verdict["huge_tlb"] = 1
       THEN \/ host.unified
            \/ host.nested /\ ( \/ ~ FirstHitKeeps(host.upper.policy)
                                \/ \E t \in Targets :
                                     TopsInSetOf(t, HugeChain) >= host.upper.policy.ways)
       ELSE ~ host.unified \/ \E t \in Targets : InSetOf(t, HugeChain) < host.lower.policy.ways
  /\ Concluded("huge_eviction") /\ ~ host.unified =>
       verdict["huge_eviction"] = IF host.hugeEntries + 2 <= HugePages THEN LateIterations ELSE 0

\* The trigger's warning that too few huge pages are mapped to evict the huge TLB
\* comes only if it has more entries than there are pages (trigger.c): without it
\* the pages evict.
MappedPagesEvict ==
  Concluded("huge_eviction") /\ ~ host.unified /\ host.hugeEntries <= HugePages =>
    verdict["huge_eviction"] = LateIterations

\* The number of PCIDs printed is the number whose translations the machine
\* keeps; loading CR3 without NOFLUSH keeps none; and PCIDs are found respected
\* exactly if they are (evaluate_supported_pcids, evaluate_pcid_respect).
PcidsSound ==
  stage = "query" =>
    /\ verdict["pcids_flush"] = 0
    /\ verdict["pcids_noflush"] =
         IF host.respects /\ host.pcids < PcidEnd THEN host.pcids ELSE PcidEnd
    /\ verdict["respect"] = IF host.respects THEN 1 ELSE 0

\* Between two iterations nothing stale is left under the PCID in CR3, under
\* which the next chain is written, and CR3 is back at PCID 0 although other
\* PCIDs were probed (set_cr3(cr3) before flush_mmu_caches).
NoStaleTranslation ==
  lateStep \in {"idle", "prime"} =>
    /\ \A key \in mmu.wrong : key[1] # Tag(mmu.pcid)
    /\ \A t \in mmu.tlb : t.pcid = mmu.pcid => ~ t.swapped
    /\ mmu.pcid \in {0, OwnPcid}

Answered == asked > 0 /\ asking = "idle"

\* The set after these lines, and those of the first k letters that a set holds.
LinesTouched(policy, lines) ==
  FoldLeft(LAMBDA at, x : Touch(policy, at, x), CHOOSE n \in NoiseStates(policy) : TRUE, lines)
Found(set, letters, k) ==
  FoldLeft(LAMBDA kept, n : IF Holds(set, letters[n]) THEN Append(kept, letters[n]) ELSE kept,
           <<>>, [n \in 1 .. k |-> n])

\* What a set that replaces by these vectors holds of the query's first k letters.
Predicted(vectors_, k) ==
  Found(LinesTouched(Permutation(vectors_), query), UniqueLetters(query), k)

\* CacheQuery's README: a query's lines are accessed one after the other, each
\* time; what CacheQuery finds in the set is what the printed vectors predict.
AnswersAgree ==
  Answered /\ FirstHitKeeps(machine.policy) /\ machine.reach >= 2 * machine.policy.ways
  => state = Predicted(printed[1].vectors, Len(UniqueLetters(query)))

\* The two tools agree on the first query of a trigger.
ToolsAgree == asked = 1 => AnswersAgree

\* The states that evaluate_mrh.py and evaluate_huplru.py expect are those of a
\* cache with the policy they look for.
ScriptsHold ==
  \A script \in {[policy |-> Mrh, lines |-> MrhScript],
                 [policy |-> Huplru, lines |-> HuplruScript]} :
    Answered /\ machine.policy = script.policy =>
      \A line \in script.lines : query = line.query => state = line.result

\* Whatever goes wrong is explained: a read crashes only without a structure, if
\* the set's next member is not mapped, or if kmalloc'ed memory was not zero and a
\* member is missing from the initial order, so that what the memory held is
\* accessed in its place; and the first query of a trigger is lost only on a page
\* that is not mapped.
FaultsExplained ==
  /\ stage = "crashed" =>
       \E level \in {host.lower, host.upper} :
         \/ ~ level.known
         \/ level.reach <= level.policy.ways
         \/ dirty > 0 /\ (\/ leftover \/ ~ FirstHitKeeps(level.policy)
                         \/ level.reach < 2 * level.policy.ways)
  /\ asking = "lost" /\ asked = 1 => \E n \in DOMAIN Pages : ~ IsMapped(Pages[n])

\* CacheQuery's README: a query's lines are accessed one after the other; a
\* trigger answers every query whose pages are mapped.
QueriesAnswered == asking = "lost" => \E n \in DOMAIN Pages : ~ IsMapped(Pages[n])

--------------------------------------------------------------------------------
(* Why it is correct: what the proofs add to the properties *)

IsMmu(m) ==
  DOMAIN m = {"lower", "upper", "huge", "tlb", "swapped", "wrong", "pcid", "recent"}

\* An experiment that uses no PCIDs stays on the one it found.
LateInv ==
  /\ host \in Hosts
  /\ IsMmu(mmu)
  /\ count \in Nat
  /\ lateStep \in {"idle", "prime", "chase", "probe"}
  /\ lateStep \in {"chase", "probe"} /\ ~ UsesPcids => mmu.pcid \in {0, OwnPcid}
  /\ NoStaleTranslation

\* A set of the policy's shape.
IsSet(policy, set) ==
  /\ DOMAIN set = {"line", "root", "leaf"}
  /\ DOMAIN set.line = Positions(policy)
  /\ set.root \in {0, 1} /\ set.leaf \in [{0, 1} -> {0, 1}]

IsLower(m) ==
  /\ DOMAIN m.lower = 0 .. host.lower.sets - 1
  /\ \A s \in DOMAIN m.lower : IsSet(host.lower.policy, m.lower[s])

IsRecent(kept) == kept \in Seq(Nat) /\ Len(kept) \in 1 .. host.pcids

LinesOf(m) == {m.lower[s].line[w] : s \in DOMAIN m.lower, w \in Positions(host.lower.policy)}

\* What the experiments have left under other PCIDs is stale exactly if PCIDs
\* are respected, so that a probe under another PCID has loaded it.
Abroad(m, home) ==
  /\ \A t \in m.tlb : t.pcid # home => t.swapped = host.respects
  /\ host.respects => \A key \in LinesOf(m) : key[1] \in {-1, home} \/ key \in m.wrong

Home == IF lateStep = "probe" /\ UsesPcids THEN 0 ELSE mmu.pcid

\* A flush has left nothing under the PCID in CR3.
IsClean(m) ==
  /\ \A t \in m.tlb : t.pcid # m.pcid
  /\ \A key \in LinesOf(m) : key[1] # Tag(m.pcid)

\* The target is cached under PCID 0 as it was before its entry was switched.
IsKept(m, target) ==
  Holds(SetAt(m, target), <<0, target>>) /\ <<0, target>> \notin m.wrong

IsSwitched(m, target) ==
  m.swapped = target /\ \A t \in m.tlb : t.pcid = 0 => t.page # <<target, 511>>

\* Every iteration of an experiment with PCIDs misses, or none does.
Misses ==
  CASE Experiment.pcids = "any" -> host.respects
    [] Experiment.pcids = "count" /\ Experiment.noflush -> host.respects /\ count >= host.pcids
    [] OTHER -> TRUE

\* Between two steps nothing but what was found abroad is under another PCID,
\* and between two iterations nothing is under the one in CR3.
MmuInv ==
  /\ IsLower(mmu) /\ IsRecent(mmu.recent)
  /\ Abroad(mmu, Home)
  /\ lateStep \in {"idle", "prime"} => IsClean(mmu) /\ mmu.swapped = -1
  /\ lateStep \in {"chase", "probe"} => goal \in Targets

\* An experiment with PCIDs: what it has counted, and what the next step sees.
CountInv ==
  lateStep # "idle" /\ UsesPcids =>
    /\ round \in 0 .. LateIterations /\ count \in 0 .. PcidEnd - 1
    /\ missed = IF Misses THEN round ELSE 0
    /\ host.respects => count <= host.pcids
    /\ Experiment.name = "pcids_flush" => count = 0
    /\ lateStep \in {"chase", "probe"} => round < LateIterations
    /\ lateStep = "chase" => /\ mmu.pcid = 0 /\ mmu.recent[1] = 0
                             /\ IsKept(mmu, goal) /\ IsSwitched(mmu, goal)
    /\ lateStep = "probe" => /\ mmu.pcid \in Nat /\ (Experiment.pcids = "count" => mmu.pcid = 0)
                             /\ Swapped(mmu, ProbePage(goal)) <=> Misses

\* The experiments that have returned have printed what is true.
ReturnedInv ==
  /\ running \in 1 .. Len(LateProgram) + 1 /\ (lateStep # "idle" => running <= Len(LateProgram))
  /\ DOMAIN verdict = {LateProgram[n].name : n \in DOMAIN LateProgram}
  /\ running > 4 => verdict["pcids_flush"] = 0
  /\ running > 5 => verdict["pcids_noflush"] =
       IF host.respects /\ host.pcids < PcidEnd THEN host.pcids ELSE PcidEnd
  /\ running > 6 => verdict["respect"] = IF host.respects THEN 1 ELSE 0
  /\ stage = "query" => running > 6

PcidInv == MmuInv /\ CountInv /\ ReturnedInv

\* The cache that is measured is the one of the level; a word that is no address
\* comes from memory that was not zero.
CrashInv ==
  /\ stage = "layout" => step = "idle"
  /\ stage \in {"lower", "upper"} /\ step # "idle" => cache = host[stage]
  /\ dirty \in Nat /\ (leftover => dirty > 0)
  /\ initial \in Words /\ (step = "order" => order \in Words)
  /\ dirty = 0 => \A w \in Members :
       initial[w] \notin Garbage /\ (step = "order" => order[w] \notin Garbage)

\* A level whose vectors can be found out.
Predictable ==
  FirstHitKeeps(cache.policy) /\ cache.reach >= 2 * Ways /\ ~ leftover

\* The member that the chain leaves at a position of the set.
MemberAt(w) ==
  IF vector = -1 THEN Ways - 1 - w ELSE Ways - 1 - cache.policy.vectors[vector][w]

\* The vectors found so far are right; the order found so far is that of the set
\* which the chain leaves, from the end.
OrderInv ==
  stage \in {"lower", "upper"} /\ step # "idle" /\ Predictable =>
    /\ vector \in -1 .. Ways
    /\ vectors = [i \in Members |->
         IF i < vector THEN cache.policy.vectors[i] ELSE [j \in Members |-> -1]]
    /\ vector >= 0 => initial = [w \in Members |-> Ways - 1 - w]
    /\ step \in {"allocate", "order", "trigger", "done"}
    /\ step = "allocate" => vector = -1
    /\ step = "trigger" => vector >= 0
    /\ step = "done" => vector = Ways
    /\ step = "order" =>
         /\ vector < Ways /\ position \in -1 .. Ways - 1
         /\ chain = IF vector = -1 THEN ChainFromHashSingle(0, Ways - 1)
                    ELSE ChainFromHashSingle(0, Ways - 1) \o <<TriggerPage>>
         /\ \A w \in Members :
              IF w > position THEN order[w] = MemberAt(w) ELSE order[w] \notin Members

PrintedInv ==
  /\ stage \in {"layout", "lower"} => printed = <<>>
  /\ stage = "upper" => printed = <<printed[1]>>
  /\ VectorsSound

\* Every use of a letter has a page of its own, the one after the last.
PagesApart ==
  /\ DOMAIN map = 1 .. Len(query) /\ query \in Seq(Nat)
  /\ \A n \in DOMAIN map : map[n].page \in Nat \X Nat
  /\ \A m, n \in DOMAIN map : map[m].page = map[n].page => m = n
  /\ \A n \in DOMAIN map : map[n].page[2] > 0 =>
       \E m \in DOMAIN map : map[m].page = <<map[n].page[1], map[n].page[2] - 1>>

\* A page that cannot be written has its link from the letter before; the last
\* page, whose link changes from letter to letter, can be.
ChainKept ==
  /\ DOMAIN memory \subseteq ToSet(Pages)
  /\ \A n \in DOMAIN Pages : Pages[n][1] \in stale =>
       n < Len(Pages) /\ Pages[n] \in DOMAIN memory /\ memory[Pages[n]] = Pages[n + 1]

\* The first query of a trigger.
QueryInv ==
  /\ machine = host.lower /\ asked \in Nat
  /\ asked = 0 => asking = "idle" /\ DOMAIN memory = {} /\ stale = {}
  /\ asked = 1 /\ asking = "letters" => letter \in Nat \ {0} /\ PagesApart /\ ChainKept

\* Letters are the same exactly if their pages are of one member.
LettersApart ==
  /\ DOMAIN map = 1 .. Len(query)
  /\ \A m, n \in DOMAIN map : query[m] = query[n] <=> map[m].page[1] = map[n].page[1]
  /\ \A n \in DOMAIN map : map[n].letter = query[n]

\* What has been found so far is what the vectors of the cache predict, and these
\* are the ones that were printed.
AnswerInv ==
  /\ stage \in {"upper", "late", "query"} => 1 \in DOMAIN printed /\ ~ printed[1].leftover
  /\ asked # 0 => stage = "query"
  /\ asked = 1 /\ asking # "lost" =>
       /\ LettersApart
       /\ letter \in 1 .. Len(UniqueLetters(query)) + 1
       /\ asking = "idle" => letter = Len(UniqueLetters(query)) + 1
       /\ machine.policy.kind = "permutation" =>
            state = Predicted(machine.policy.vectors, letter - 1)

\* The sets of the level above, and the huge TLB.
IsUpper(m) ==
  /\ DOMAIN m.upper = 0 .. host.upper.sets - 1
  /\ \A s \in DOMAIN m.upper : IsSet(host.upper.policy, m.upper[s])
  /\ IsSet(Lru(host.hugeEntries), m.huge)

Tops(m) == UNION {ToSet(m.upper[s].line) : s \in DOMAIN m.upper}

\* Under the PCID in CR3 there is nothing but the page that was primed.
IsPrimed(m, entry) ==
  LET key == Key(m, entry)
      top == Key(m, entry \div Fan)
  IN  /\ m.swapped = entry /\ key \notin m.wrong
      /\ \A t \in m.tlb : t.pcid = m.pcid => t.page = <<entry, 0>> /\ ~ IsHuge(entry)
      /\ \A line \in LinesOf(m) \cup ToSet(m.huge.line) : line[1] = key[1] => line = key
      /\ \A w \in DOMAIN SetAt(m, entry).line : SetAt(m, entry).line[w] = key <=> w = 0
      /\ \A line \in Tops(m) : line[1] = key[1] => line = top
      /\ \A s \in DOMAIN m.upper : \A w \in Positions(host.upper.policy) :
           m.upper[s].line[w] = top <=> s = (entry \div Fan) % host.upper.sets /\ w = 0

TargetsOf(n) == IF n = 1 THEN {t \in Targets : t < Fan} ELSE Targets

\* The chain of the n-th experiment evicts the target's entry, or keeps it.
Evicts(n, target) ==
  CASE n = 1 -> host.nested /\ Len(NestingChain) = host.upper.policy.ways
    [] n = 2 -> host.unified /\ InSetOf(target, HugeChain) >= host.lower.policy.ways
    [] OTHER -> ~ host.unified /\ host.hugeEntries + 2 <= HugePages
Keeps(n, target) ==
  CASE n = 1 -> ~ host.nested /\ InSetOf(target, NestingChain) < host.lower.policy.ways
    [] n = 2 -> /\ ~ host.unified
                /\ host.nested => /\ FirstHitKeeps(host.upper.policy)
                                  /\ TopsInSetOf(target, HugeChain) < host.upper.policy.ways
    [] OTHER -> ~ host.unified /\ host.hugeEntries + 2 > HugePages

AllEvict(n) == \A t \in TargetsOf(n) : Evicts(n, t)
AllKeep(n) == \A t \in TargetsOf(n) : Keeps(n, t)

\* The experiments that walk a chain: what an iteration leaves for the next step,
\* and what has been counted.
WalkingInv ==
  running <= 3 =>
    /\ IsUpper(mmu)
    /\ lateStep # "idle" => /\ round \in 0 .. LateIterations /\ missed \in Nat
                            /\ AllEvict(running) => missed = round
                            /\ AllKeep(running) => missed = 0
    /\ lateStep \in {"chase", "probe"} => round < LateIterations /\ goal \in TargetsOf(running)
    /\ lateStep = "chase" => IsPrimed(mmu, GoalEntry(goal))
    /\ lateStep = "probe" => /\ Evicts(running, goal) => Swapped(mmu, ProbePage(goal))
                             /\ Keeps(running, goal) => ~ Swapped(mmu, ProbePage(goal))

\* What they have printed.
WalkedInv ==
  \A n \in 1 .. 3 : n < running =>
    /\ AllEvict(n) => verdict[LateProgram[n].name] = IF n = 3 THEN LateIterations ELSE 1
    /\ AllKeep(n) => verdict[LateProgram[n].name] = 0

\* A level whose structure is not known ends the session before the experiments.
EvictionInv ==
  /\ stage = "upper" /\ step # "idle" => host.upper.known
  /\ stage \in {"late", "query"} => host.upper.known
  /\ host.lower.policy.kind = "permutation" /\ host.upper.policy.kind = "permutation" =>
       WalkingInv /\ WalkedInv

IInv ==
  /\ LateInv
  /\ PcidInv
  /\ CrashInv
  /\ OrderInv
  /\ PrintedInv
  /\ QueryInv
  /\ AnswerInv
  /\ EvictionInv
  /\ FaultsExplained
================================================================================
