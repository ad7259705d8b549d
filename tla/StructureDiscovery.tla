-------------------------- MODULE StructureDiscovery ---------------------------
(***************************************************************************)
(* The search of StructureSearch on the measurements of an actual          *)
(* translation cache: test_hash_function applied to the cache "machine".   *)
(* Where noise decides, the measurements are any of Answers.               *)
(***************************************************************************)
EXTENDS StructureSearch, TranslationCache

CONSTANTS
  Machines,  \* the caches the level may have
  Erratic    \* a machine whose measurements follow no structure

ASSUME DiscoveryAssumption ==
  /\ Machines \subseteq [sets : Nat \ {0}, ways : Nat \ {0}, hash : {"lin", "lin_shift"}]
  /\ Erratic \notin Machines
  /\ \A n \in 1 .. Len(Functions) : Functions[n] \in {"lin", "lin_shift"}

\* 1 << set_bits; true of every natural set_bits, but the provers know no rule for ^.
ASSUME PowersAssumption == \A b \in SetBits : 2^b \in Nat \ {0}

VARIABLE machine

Measurements(m) ==
  [c \in Candidate |-> TestHashFunction(m, c[2], c[1], Functions[c[3]])]

DiscoveryInit ==
  /\ \/ machine \in Machines /\ answer = Measurements(machine)
     \/ machine = Erratic
  /\ Init
DiscoveryNext == Next /\ UNCHANGED machine
DiscoverySpec == DiscoveryInit /\ [][DiscoveryNext]_<<vars, machine>>

--------------------------------------------------------------------------------
(* Properties *)

\* The last region that probing the machine's own structure touches from the
\* furthest start is mapped, so no chain that decides is cut short.
Fits(m) ==
  \A s \in Starts :
    \A b \in SetBits : m.sets = 2^b => Mapped(Hash(m.hash, s, m.ways, b))

\* On every cache that the mapped entries can fill, the search reports exactly
\* its structure: its ways, its sets, and its function; the two functions are
\* the same one on a fully associative cache, where the first is reported.
FindsStructure ==
  pc = "done" /\ machine # Erratic /\ Fits(machine) =>
    /\ translationCache.ways = machine.ways
    /\ machine.sets = 2^translationCache.setBits
    /\ translationCache.hash = IF machine.sets = 1 THEN Functions[1] ELSE machine.hash
    /\ certainty = Cardinality(Starts)

\* Even when the mapped entries cannot fill the cache, or a start is out of the
\* reach of its chain, the tool never reports fewer ways than the cache has.
NeverTooFewWays ==
  pc = "done" /\ machine # Erratic /\ translationCache.hash # "null" =>
    translationCache.ways >= machine.ways
================================================================================
