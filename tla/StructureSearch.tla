---------------------------- MODULE StructureSearch ----------------------------
(***************************************************************************)
(* evaluate_cache_structure: the search for the number of sets, the number *)
(* of ways and the set-index function of a level's translation cache.  The *)
(* measurements themselves are an arbitrary function "answer", fixed for   *)
(* the search; StructureDiscovery takes them from a cache.                 *)
(***************************************************************************)
EXTENDS Integers, Sequences

CONSTANTS
  SetBitsEnd,   \* set_bits < 9
  MaxWays,      \* ways <= 32
  Default,      \* the 99 of DEFAULT_TRANSLATION_CACHE
  Iterations,   \* ITERATIONS
  Alignments,   \* ITERATIONS / 10 alignment checks
  Functions,    \* hash_functions[], a sequence of names
  Answers       \* the measurements a machine may give

SetBits == 0 .. SetBitsEnd - 1
Ways == 1 .. MaxWays
Candidate == SetBits \X Ways \X (1 .. Len(Functions))

ASSUME StructureSearchAssumption ==
  /\ SetBitsEnd \in Nat \ {0}
  /\ MaxWays \in Nat \ {0}
  /\ Default \in Nat
  /\ Default > MaxWays
  /\ Default > SetBitsEnd
  /\ Iterations \in Nat \ {0}
  /\ Alignments \in Nat
  /\ Len(Functions) \in Nat \ {0}
  /\ \A n \in 1 .. Len(Functions) : Functions[n] \notin {"null", "wild"}
  /\ Answers \subseteq [Candidate -> 0 .. Iterations]

\* What an automatic pointer nobody has assigned may hold: what an earlier call
\* left on the stack, nothing, or no function at all.
Names == {Functions[n] : n \in 1 .. Len(Functions)}
NoFunction == {"null", "wild"}
Garbage == Names \cup NoFunction

VARIABLES
  answer,          \* answer[c]: what test_hash_function returns for candidate c
  pc,              \* the next step
  setBits,         \* set_bits
  ways,            \* ways
  h,               \* the index in hash_functions
  minimumSetBits,  \* minimum_set_bits
  minimumWays,     \* minimum_ways
  hashFunction,    \* hash_function
  certainty,       \* certainty
  translationCache,\* translation_caches[level]
  aligning,        \* eviction_set_aligning
  report           \* the structure line of the output

vars == <<answer, pc, setBits, ways, h, minimumSetBits, minimumWays, hashFunction,
          certainty, translationCache, aligning, report>>

TypeOK ==
  /\ answer \in [Candidate -> 0 .. Iterations]
  /\ pc \in {"search", "store", "align", "print", "done", "crashed"}
  /\ setBits \in 0 .. SetBitsEnd
  /\ ways \in 1 .. MaxWays + 1
  /\ h \in 1 .. Len(Functions) + 1
  /\ minimumSetBits \in SetBits \cup {Default}
  /\ minimumWays \in Ways \cup {Default}
  /\ hashFunction \in Garbage
  /\ certainty \in 0 .. Iterations
  /\ translationCache \in [setBits : SetBits \cup {Default},
                           ways : Ways \cup {Default}, hash : Garbage]
  /\ aligning \in 0 .. Alignments
  /\ report \in Names \cup {"none", "unknown"}

\* hash_function and certainty are not initialised.
Init ==
  /\ answer \in Answers
  /\ pc = "search"
  /\ setBits = 0
  /\ ways = 1
  /\ h = 1
  /\ minimumSetBits = Default
  /\ minimumWays = Default
  /\ hashFunction \in Garbage
  /\ certainty \in {0, Iterations}
  /\ translationCache = [setBits |-> Default, ways |-> Default, hash |-> "null"]
  /\ aligning = 0
  /\ report = "none"

\* The THRESHOLD of 80%.
Passes(m) == 10 * m >= 8 * Iterations

Measured == answer[<<setBits, ways, h>>]

--------------------------------------------------------------------------------
(* The three nested loops *)

InTheLoops == pc = "search" /\ setBits < SetBitsEnd
WaysGoOn == ways <= MaxWays /\ ways <= minimumWays

\* Faulty variant: a tie is taken for an improvement.
ImprovesOrTies == ways <= minimumWays

\* Faulty variant: only fewer sets are an improvement.
ImprovesOnSetsOnly == setBits < minimumSetBits

Improves ==
  \/ ways < minimumWays
  \/ ways <= minimumWays /\ setBits < minimumSetBits

\* A candidate that passes and improves is taken, and the remaining hash
\* functions are not tried.
Accept ==
  /\ InTheLoops
  /\ WaysGoOn
  /\ h <= Len(Functions)
  /\ Passes(Measured)
  /\ Improves
  /\ certainty' = Measured
  /\ minimumWays' = ways
  /\ minimumSetBits' = setBits
  /\ hashFunction' = Functions[h]
  /\ h' = Len(Functions) + 1
  /\ UNCHANGED <<answer, pc, setBits, ways, translationCache, aligning, report>>

Reject ==
  /\ InTheLoops
  /\ WaysGoOn
  /\ h <= Len(Functions)
  /\ ~ (Passes(Measured) /\ Improves)
  /\ h' = h + 1
  /\ UNCHANGED <<answer, pc, setBits, ways, minimumSetBits, minimumWays, hashFunction,
                 certainty, translationCache, aligning, report>>

NextWays ==
  /\ InTheLoops
  /\ WaysGoOn
  /\ h > Len(Functions)
  /\ ways' = ways + 1
  /\ h' = 1
  /\ UNCHANGED <<answer, pc, setBits, minimumSetBits, minimumWays, hashFunction,
                 certainty, translationCache, aligning, report>>

\* The loop over the ways ends, by its bound or because more ways than the
\* smallest accepted number are of no interest.
NextSetBits ==
  /\ InTheLoops
  /\ ~ WaysGoOn
  /\ setBits' = setBits + 1
  /\ ways' = 1
  /\ h' = 1
  /\ UNCHANGED <<answer, pc, minimumSetBits, minimumWays, hashFunction, certainty,
                 translationCache, aligning, report>>

EndOfSearch ==
  /\ pc = "search"
  /\ setBits = SetBitsEnd
  /\ pc' = "store"
  /\ UNCHANGED <<answer, setBits, ways, h, minimumSetBits, minimumWays, hashFunction,
                 certainty, translationCache, aligning, report>>

--------------------------------------------------------------------------------
(* What is done with the result *)

\* Faulty variant: the hash function is stored whatever the search found.
StoreAlways ==
  /\ pc = "store"
  /\ pc' = "align"
  /\ translationCache' = [setBits |-> minimumSetBits, ways |-> minimumWays,
                          hash |-> hashFunction]
  /\ UNCHANGED <<answer, setBits, ways, h, minimumSetBits, minimumWays, hashFunction,
                 certainty, aligning, report>>

\* Lines 115 to 120: only a changed structure is stored.
Store ==
  /\ pc = "store"
  /\ pc' = "align"
  /\ translationCache' =
       IF minimumWays # translationCache.ways \/ minimumSetBits # translationCache.setBits
       THEN [setBits |-> minimumSetBits, ways |-> minimumWays, hash |-> hashFunction]
       ELSE translationCache
  /\ UNCHANGED <<answer, setBits, ways, h, minimumSetBits, minimumWays, hashFunction,
                 certainty, aligning, report>>

\* The alignment checks; their verdicts are those of EvictionSet.
Align ==
  /\ pc = "align"
  /\ pc' = "print"
  /\ aligning' \in 0 .. Alignments
  /\ UNCHANGED <<answer, setBits, ways, h, minimumSetBits, minimumWays, hashFunction,
                 certainty, translationCache, report>>

\* eviction_set_aligns_with_hash_function calls its hash unchecked once it has
\* found a mandatory link; a pointer to no function ends the process there.
CallGarbage ==
  /\ pc = "align"
  /\ hashFunction \in NoFunction
  /\ pc' = "crashed"
  /\ UNCHANGED <<answer, setBits, ways, h, minimumSetBits, minimumWays, hashFunction,
                 certainty, translationCache, aligning, report>>

PrintStructure ==
  /\ pc = "print"
  /\ pc' = "done"
  /\ report' = IF hashFunction \in NoFunction THEN "unknown" ELSE hashFunction
  /\ UNCHANGED <<answer, setBits, ways, h, minimumSetBits, minimumWays, hashFunction,
                 certainty, translationCache, aligning>>

Next == \/ Accept \/ Reject \/ NextWays \/ NextSetBits \/ EndOfSearch
        \/ Store \/ Align \/ CallGarbage \/ PrintStructure

Spec == Init /\ [][Next]_vars

--------------------------------------------------------------------------------
(* Properties *)

\* The order of preference: fewer ways, then fewer sets.
NoWorse(bits, w, c) == w < c[2] \/ (w = c[2] /\ bits <= c[1])

Passing == {c \in Candidate : Passes(answer[c])}

\* The structure in minimumSetBits, minimumWays and hashFunction was measured:
\* it passed with the certainty reported, and no hash function tried before it
\* passed for the same sets and ways.
Found ==
  \E n \in 1 .. Len(Functions) :
    LET c == <<minimumSetBits, minimumWays, n>>
    IN  /\ c \in Passing
        /\ hashFunction = Functions[n]
        /\ certainty = answer[c]
        /\ \A q \in 1 .. n - 1 : <<minimumSetBits, minimumWays, q>> \notin Passing

NothingFound == minimumSetBits = Default /\ minimumWays = Default

\* However the measurements come out and although most candidates are skipped
\* (break at ways > minimum_ways, and after an accepted hash), the search ends
\* on the passing candidate with the fewest ways and among those the fewest
\* sets (evaluation.c:78-113), and on the default when no candidate passes.
SearchSound ==
  pc # "search" =>
    IF Passing = {}
    THEN NothingFound
    ELSE Found /\ \A c \in Passing : NoWorse(minimumSetBits, minimumWays, c)

\* The garbage in an unassigned hash_function never gets into the structure
\* that the replacement and the nesting experiments use: the stored hash is
\* either null or one that passed with the stored sets and ways.
StoredIsMeasured ==
  \/ translationCache = [setBits |-> Default, ways |-> Default, hash |-> "null"]
  \/ \E n \in 1 .. Len(Functions) :
       /\ <<translationCache.setBits, translationCache.ways, n>> \in Passing
       /\ translationCache.hash = Functions[n]

\* What the line "[-] Level %d translation cache uses an unknown hash function!"
\* (evaluation.c:136) says: it is printed when no hash function passed.
UnknownIsReported == pc = "done" /\ Passing = {} => report = "unknown"

--------------------------------------------------------------------------------
(* The inductive invariant behind SearchSound and StoredIsMeasured *)

\* Candidates the loops have passed by, tested or skipped.
Behind(c) ==
  \/ c[1] < setBits
  \/ c[1] = setBits /\ c[2] < ways
  \/ c[1] = setBits /\ c[2] = ways /\ c[3] < h

\* No candidate the loops have passed by is better than the minimum so far.
BehindIsNoBetter ==
  \A c \in Passing : Behind(c) => NoWorse(minimumSetBits, minimumWays, c)

LoopsAreOver == pc # "search" => setBits = SetBitsEnd

SearchIInv ==
  /\ TypeOK
  /\ BehindIsNoBetter
  /\ NothingFound \/ Found
  /\ LoopsAreOver
  /\ StoredIsMeasured
================================================================================
