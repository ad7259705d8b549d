-------------------------------- MODULE Trigger --------------------------------
(***************************************************************************)
(* The triggers of Talbot, CacheQuery and CrossHyperthread as processes of *)
(* one machine.  All three take their memory from the same two names, pin  *)
(* themselves to the same core, and read a device; the experiments of two  *)
(* of them turn interrupts off.  Any of them may be killed, and any call   *)
(* that the code expects to fail may fail.                                 *)
(***************************************************************************)
EXTENDS Naturals, Sequences, FiniteSets

CONSTANTS
  Runs,       \* runs of triggers, in no order
  Mixes,      \* the tools they may be of, as [Runs -> Tool]
  Nobody,     \* no run
  MaxFaults,  \* bound: kills and failing calls
  MaxAtOnce   \* bound: runs at the same time

Tool == {"Talbot", "CacheQuery", "CrossHyperthread"}

ASSUME TriggerAssumption ==
  Nobody \notin Runs /\ Mixes \subseteq [Runs -> Tool] /\ {MaxFaults, MaxAtOnce} \subseteq Nat

Area == {"base", "complementary"}

VARIABLES
  tool,      \* tool[r]
  step,      \* step[r]: position in main; 0 before the start
  name,      \* name[a]: the run that created the object under the area's name
  opened,    \* opened[r][a]: the run that created the object r has open
  chain,     \* chain[c]: who wrote the chain in the base object that c created
  huge,      \* runs that hold the huge page of the pool
  pinned,    \* runs pinned to PINNED_CORE
  claimed,   \* runs between claim_cpu and release_cpu
  hung,      \* runs whose walk has left their chain, with interrupts off
  faults,    \* kills and failed calls so far
  raced,     \* history: runs that opened a name while others were about to
  untidy     \* history: runs that ended without removing their names

vars == <<tool, step, name, opened, chain, huge, pinned, claimed, hung, faults, raced, untidy>>

--------------------------------------------------------------------------------
(* The programs *)

\* main of the three triggers, call by call; the last two are those of cleanup and
\* error.
TalbotMain ==
  <<<<"unlink", "base">>, <<"unlink", "complementary">>,
    <<"open", "base">>, <<"open", "complementary">>,
    <<"layout">>, <<"huge">>, <<"device">>, <<"pin">>,
    <<"build">>, <<"claim">>, <<"walk">>, <<"release">>,
    <<"unlink", "base">>, <<"unlink", "complementary">>>>

\* Two queries.
CacheQueryMain ==
  <<<<"unlink", "base">>, <<"unlink", "complementary">>,
    <<"open", "base">>, <<"open", "complementary">>,
    <<"layout">>, <<"device">>, <<"pin">>,
    <<"build">>, <<"claim">>, <<"walk">>, <<"release">>,
    <<"build">>, <<"claim">>, <<"walk">>, <<"release">>,
    <<"unlink", "base">>, <<"unlink", "complementary">>>>

\* Its kernel threads write to the base area and follow one pointer; they leave
\* interrupts on (hyperthreaded.c: claim_cpu is commented out).
CrossHyperthreadMain ==
  <<<<"unlink", "base">>, <<"unlink", "complementary">>,
    <<"open", "base">>, <<"open", "complementary">>,
    <<"layout">>, <<"device">>, <<"pin">>, <<"build">>,
    <<"unlink", "base">>, <<"unlink", "complementary">>>>

MainOf(t) ==
  CASE t = "Talbot" -> TalbotMain
    [] t = "CacheQuery" -> CacheQueryMain
    [] t = "CrossHyperthread" -> CrossHyperthreadMain

Main(r) == MainOf(tool[r])

Running(r) == step[r] \in 1 .. Len(Main(r))
Ended(r) == step[r] > Len(Main(r))
Cleanup(r) == Len(Main(r)) - 1
CallOf(r) == IF Running(r) THEN Main(r)[step[r]] ELSE <<"none">>

Init ==
  /\ tool \in Mixes
  /\ step = [r \in Runs |-> 0]
  /\ name = [a \in Area |-> Nobody]
  /\ opened = [r \in Runs |-> [a \in Area |-> Nobody]]
  /\ chain = [r \in Runs |-> Nobody]
  /\ huge = {} /\ pinned = {} /\ claimed = {} /\ hung = {}
  /\ faults = 0 /\ raced = {} /\ untidy = {}

\* A pinned process runs while nobody on its core has interrupts off.
Scheduled(r) == r \in pinned => claimed \subseteq {r}

Calls(r, call) == CallOf(r)[1] = call /\ Scheduled(r) /\ r \notin hung
Go(r, s) == step' = [step EXCEPT ![r] = s]
Proceed(r) == Go(r, step[r] + 1)
Exit(r) == Go(r, Len(Main(r)) + 1)

\* What the kernel does when a process ends.
Released(r) == huge' = huge \ {r} /\ pinned' = pinned \ {r}

Fault == faults < MaxFaults /\ faults' = faults + 1

Start(r) ==
  /\ step[r] = 0 /\ Cardinality({q \in Runs : Running(q)}) < MaxAtOnce
  /\ Proceed(r)
  /\ UNCHANGED <<tool, name, opened, chain, huge, pinned, claimed, hung, faults, raced, untidy>>

\* Faulty variants: names are left, at the start or at the end.
UnlinkForgotten(r) ==
  /\ Calls(r, "unlink")
  /\ Proceed(r)
  /\ IF step[r] = Len(Main(r)) THEN Released(r) ELSE UNCHANGED <<huge, pinned>>
  /\ UNCHANGED <<tool, name, opened, chain, claimed, hung, faults, raced, untidy>>

UnlinkLastForgotten(r) ==
  /\ Calls(r, "unlink")
  /\ name' = IF step[r] = Len(Main(r)) THEN name ELSE [name EXCEPT ![CallOf(r)[2]] = Nobody]
  /\ Proceed(r)
  /\ IF step[r] = Len(Main(r)) THEN Released(r) ELSE UNCHANGED <<huge, pinned>>
  /\ UNCHANGED <<tool, opened, chain, claimed, hung, faults, raced, untidy>>

\* shm_unlink, at the start and in the cleanup.
Unlink(r) ==
  /\ Calls(r, "unlink")
  /\ name' = [name EXCEPT ![CallOf(r)[2]] = Nobody]
  /\ Proceed(r)
  /\ IF step[r] = Len(Main(r)) THEN Released(r) ELSE UNCHANGED <<huge, pinned>>
  /\ UNCHANGED <<tool, opened, chain, claimed, hung, faults, raced, untidy>>

\* Runs that have removed the area's name and not opened it yet.
AboutToOpen(a) ==
  {q \in Runs : Running(q) /\ opened[q][a] = Nobody
                  /\ step[q] > IF a = "base" THEN 1 ELSE 2}

\* shm_open: O_CREAT without O_EXCL opens what is there.
Open(r) ==
  /\ Calls(r, "open")
  /\ LET a == CallOf(r)[2]
         creator == IF name[a] = Nobody THEN r ELSE name[a]
     IN  /\ name' = [name EXCEPT ![a] = creator]
         /\ opened' = [opened EXCEPT ![r][a] = creator]
         /\ raced' = IF AboutToOpen(a) = {r} THEN raced ELSE raced \cup AboutToOpen(a)
  /\ Proceed(r)
  /\ UNCHANGED <<tool, chain, huge, pinned, claimed, hung, faults, untidy>>

\* setup_levels: initialize_page writes to every page.
SetupLevels(r) ==
  /\ Calls(r, "layout")
  /\ chain' = [chain EXCEPT ![opened[r]["base"]] = Nobody]
  /\ Proceed(r)
  /\ UNCHANGED <<tool, name, opened, huge, pinned, claimed, hung, faults, raced, untidy>>

\* map_page fails and exits: names stay.  The pool of huge pages has one page, and
\* the next to map it fails.
MapPageFails(r) ==
  /\ \/ (Calls(r, "layout") \/ Calls(r, "huge")) /\ Fault
     \/ Calls(r, "huge") /\ huge # {} /\ UNCHANGED faults
  /\ Exit(r)
  /\ Released(r)
  /\ untidy' = untidy \cup {r}
  /\ UNCHANGED <<tool, name, opened, chain, claimed, hung, raced>>

SetupHugePages(r) ==
  /\ Calls(r, "huge")
  /\ huge = {}
  /\ huge' = {r}
  /\ Proceed(r)
  /\ UNCHANGED <<tool, name, opened, chain, pinned, claimed, hung, faults, raced, untidy>>

OpenDevice(r) ==
  /\ Calls(r, "device")
  /\ Proceed(r)
  /\ UNCHANGED <<tool, name, opened, chain, huge, pinned, claimed, hung, faults, raced, untidy>>

\* The device cannot be opened, or read: goto error.
DeviceFails(r) ==
  /\ Calls(r, "device") \/ Calls(r, "build")
  /\ Fault
  /\ Go(r, Cleanup(r))
  /\ UNCHANGED <<tool, name, opened, chain, huge, pinned, claimed, hung, raced, untidy>>

\* Faulty variant: the process stays on any core.
SetAffinityForgotten(r) ==
  /\ Calls(r, "pin")
  /\ Proceed(r)
  /\ UNCHANGED <<tool, name, opened, chain, huge, pinned, claimed, hung, faults, raced, untidy>>

SetAffinity(r) ==
  /\ Calls(r, "pin")
  /\ claimed = {}
  /\ pinned' = pinned \cup {r}
  /\ Proceed(r)
  /\ UNCHANGED <<tool, name, opened, chain, huge, claimed, hung, faults, raced, untidy>>

\* sched_setaffinity fails: return 1, without the cleanup.
SetAffinityFails(r) ==
  /\ Calls(r, "pin")
  /\ Fault
  /\ Exit(r)
  /\ Released(r)
  /\ untidy' = untidy \cup {r}
  /\ UNCHANGED <<tool, name, opened, chain, claimed, hung, raced>>

\* An experiment of the device: its chain, written with interrupts on as in
\* find_minimal_eviction_set, determine_replacement_order and query_cache, ...
BuildChain(r) ==
  /\ Calls(r, "build")
  /\ chain' = [chain EXCEPT ![opened[r]["base"]] = r]
  /\ Proceed(r)
  /\ UNCHANGED <<tool, name, opened, huge, pinned, claimed, hung, faults, raced, untidy>>

ClaimCpu(r) ==
  /\ Calls(r, "claim")
  /\ claimed' = claimed \cup {r}
  /\ Proceed(r)
  /\ UNCHANGED <<tool, name, opened, chain, huge, pinned, hung, faults, raced, untidy>>

\* ... the walk, which ends if the chain is its own, ...
WalkChain(r) ==
  /\ Calls(r, "walk")
  /\ \/ Proceed(r) /\ UNCHANGED hung
     \/ /\ chain[opened[r]["base"]] # r
        /\ hung' = hung \cup {r}
        /\ UNCHANGED step
  /\ UNCHANGED <<tool, name, opened, chain, huge, pinned, claimed, faults, raced, untidy>>

\* Faulty variant: an early return of the experiment keeps the CPU.
ReleaseForgotten(r) ==
  /\ Calls(r, "release")
  /\ Proceed(r)
  /\ UNCHANGED <<tool, name, opened, chain, huge, pinned, claimed, hung, faults, raced, untidy>>

\* ... and interrupts back on.
ReleaseCpu(r) ==
  /\ Calls(r, "release")
  /\ claimed' = claimed \ {r}
  /\ Proceed(r)
  /\ UNCHANGED <<tool, name, opened, chain, huge, pinned, hung, faults, raced, untidy>>

\* A signal ends the process, outside of the device.
Kill(r) ==
  /\ Running(r) /\ CallOf(r)[1] \notin {"claim", "walk", "release"} /\ Scheduled(r)
  /\ Fault
  /\ Exit(r)
  /\ Released(r)
  /\ untidy' = untidy \cup {r}
  /\ UNCHANGED <<tool, name, opened, chain, claimed, hung, raced>>

Step(r) ==
  \/ Unlink(r) \/ Open(r) \/ SetupLevels(r) \/ MapPageFails(r) \/ SetupHugePages(r)
  \/ OpenDevice(r) \/ DeviceFails(r) \/ SetAffinity(r) \/ SetAffinityFails(r)
  \/ BuildChain(r) \/ ClaimCpu(r) \/ WalkChain(r) \/ ReleaseCpu(r)

\* Nothing is left to run, or a core with interrupts off is waited for.
Stopped == (\A r \in Runs : Ended(r)) \/ hung # {}
Terminating == Stopped /\ UNCHANGED vars

Next == (\E r \in Runs : Start(r) \/ Step(r) \/ Kill(r)) \/ Terminating

Spec == Init /\ [][Next]_vars

\* The scheduler runs every process that can run; nobody has to be killed.
FairSpec == Spec /\ \A r \in Runs : WF_vars(Start(r)) /\ WF_vars(Step(r))

--------------------------------------------------------------------------------
(* Correctness *)

\* A walk leaves its chain, with interrupts off and for ever, only if another run
\* opened the names between this one's shm_unlink and shm_open, or the other way
\* round: whatever else overlaps, is killed or fails, runs have memory of their own.
LostWalksExplained == hung \subseteq raced

\* At most one experiment of all the tools has interrupts off: the flags saved by
\* claim_cpu are one static variable, and the caches are those of one core.
OneMeasurement == Cardinality(claimed) <= 1

\* When all has ended, a name is left only by a run that was killed, could not map
\* its memory, or could not be pinned (main returns without its cleanup).
LeftNamesExplained ==
  (\A r \in Runs : Ended(r)) => \A a \in Area : name[a] \in untidy \cup {Nobody}

\* Without such a race every run ends: no run waits for a core for ever.
RunsEnd == <>((\A r \in Runs : Ended(r)) \/ raced # {})
================================================================================
