------------------------- MODULE StructureSearchProofs -------------------------
(***************************************************************************)
(* Whatever the measurements are, the structure search ends on the best    *)
(* passing candidate and stores nothing that was not measured.  When they  *)
(* are those of a translation cache, it never reports fewer ways than the  *)
(* cache has: a chain has too few links to push anything out of it.        *)
(***************************************************************************)
EXTENDS StructureDiscovery, FiniteSetTheorems, TLAPS

USE StructureSearchAssumption

\* The garbage a hash_function variable may hold includes every function.
LEMMA NamesAreGarbage ==
  ASSUME NEW n \in 1 .. Len(Functions)
  PROVE  Functions[n] \in Garbage /\ Functions[n] \in Names /\ Functions[n] \notin NoFunction
BY DEF Garbage, Names, NoFunction

\* Nothing is behind the loops at the start.
LEMMA InitInvariant == Init => SearchIInv
<1> SUFFICES ASSUME Init PROVE SearchIInv
  OBVIOUS
<1> USE DEF Init
<1>1. TypeOK
  <2>1. 0 \in 0 .. SetBitsEnd /\ 1 \in 1 .. MaxWays + 1 /\ 1 \in 1 .. Len(Functions) + 1
    OBVIOUS
  <2>2. certainty \in 0 .. Iterations /\ aligning \in 0 .. Alignments
    OBVIOUS
  <2>3. translationCache \in [setBits : SetBits \cup {Default},
                              ways : Ways \cup {Default}, hash : Garbage]
    BY DEF Garbage, NoFunction
  <2> QED BY <2>1, <2>2, <2>3 DEF TypeOK
<1>2. BehindIsNoBetter
  BY DEF BehindIsNoBetter, Behind, Passing, Candidate, SetBits, Ways
<1>3. NothingFound /\ LoopsAreOver /\ StoredIsMeasured
  BY DEF NothingFound, LoopsAreOver, StoredIsMeasured
<1> QED BY <1>1, <1>2, <1>3 DEF SearchIInv

\* In the loops the current candidate is a candidate.
LEMMA CurrentIsCandidate ==
  ASSUME TypeOK, InTheLoops, WaysGoOn, h <= Len(Functions)
  PROVE  /\ <<setBits, ways, h>> \in Candidate
         /\ setBits \in SetBits /\ ways \in Ways /\ h \in 1 .. Len(Functions)
         /\ Measured \in 0 .. Iterations
<1>1. setBits \in SetBits /\ ways \in Ways /\ h \in 1 .. Len(Functions)
  BY DEF TypeOK, InTheLoops, WaysGoOn, SetBits, Ways
<1>2. <<setBits, ways, h>> \in Candidate
  BY <1>1 DEF Candidate
<1> QED BY <1>1, <1>2 DEF TypeOK, Measured

\* Accepting a candidate leaves the others behind it no better.
LEMMA AcceptInvariant ==
  ASSUME SearchIInv, Accept
  PROVE  SearchIInv'
<1> USE DEF SearchIInv
<1>0. /\ <<setBits, ways, h>> \in Candidate
      /\ setBits \in SetBits /\ ways \in Ways /\ h \in 1 .. Len(Functions)
      /\ Measured \in 0 .. Iterations
  BY CurrentIsCandidate DEF Accept
<1>1. TypeOK'
  BY <1>0, NamesAreGarbage DEF TypeOK, Accept
<1>2. Passing' = Passing
  BY DEF Accept, Passing
<1>3. ASSUME NEW c \in Passing, Behind(c)'
      PROVE  NoWorse(minimumSetBits, minimumWays, c)'
  <2>1. c \in Candidate /\ c[1] \in SetBits /\ c[2] \in Ways /\ c[3] \in 1 .. Len(Functions)
    BY DEF Passing, Candidate
  <2>2. CASE Behind(c)
    <3>1. NoWorse(minimumSetBits, minimumWays, c)
      BY <2>2 DEF BehindIsNoBetter
    <3>2. /\ minimumSetBits \in Int /\ minimumWays \in Int
          /\ setBits \in Int /\ ways \in Int /\ c[1] \in Int /\ c[2] \in Int
      BY <2>1, <1>0 DEF TypeOK, SetBits, Ways
    <3>3. NoWorse(setBits, ways, c)
      BY <3>1, <3>2 DEF NoWorse, Accept, Improves
    <3> QED BY <3>3 DEF NoWorse, Accept
  <2>3. CASE ~ Behind(c)
    <3>1. c[1] = setBits /\ c[2] = ways
      BY <2>1, <2>3, <1>3, <1>0 DEF Behind, Accept, SetBits, Ways
    <3> QED BY <3>1, <1>0 DEF NoWorse, Accept, SetBits, Ways
  <2> QED BY <2>2, <2>3
<1>4. BehindIsNoBetter'
  BY <1>2, <1>3 DEF BehindIsNoBetter
<1>5. Found'
  <2>1. <<setBits, ways, h>> \in Passing
    BY <1>0 DEF Passing, Accept, Measured
  <2>2. ASSUME NEW q \in 1 .. h - 1, <<setBits, ways, q>> \in Passing
        PROVE  FALSE
    <3>1. Behind(<<setBits, ways, q>>)
      BY <1>0 DEF Behind
    <3>2. NoWorse(minimumSetBits, minimumWays, <<setBits, ways, q>>)
      BY <2>2, <3>1 DEF BehindIsNoBetter
    <3> QED BY <3>2, <1>0 DEF NoWorse, Accept, Improves, TypeOK, SetBits, Ways
  <2>3. minimumSetBits' = setBits /\ minimumWays' = ways /\ hashFunction' = Functions[h]
        /\ certainty' = answer[<<setBits, ways, h>>] /\ answer' = answer
    BY DEF Accept, Measured
  <2> QED BY <1>0, <1>2, <2>1, <2>2, <2>3 DEF Found
<1>6. LoopsAreOver' /\ StoredIsMeasured'
  BY <1>2 DEF LoopsAreOver, StoredIsMeasured, Accept, InTheLoops
<1> QED BY <1>1, <1>4, <1>5, <1>6

\* A step that keeps the minimum, the answers and the stored structure.
KeepsResult ==
  UNCHANGED <<answer, minimumSetBits, minimumWays, hashFunction, certainty, translationCache>>

LEMMA ResultIsKept ==
  ASSUME SearchIInv, KeepsResult
  PROVE  /\ Passing' = Passing
         /\ (NothingFound \/ Found)'
         /\ StoredIsMeasured'
         /\ \A c : NoWorse(minimumSetBits, minimumWays, c)' <=>
                     NoWorse(minimumSetBits, minimumWays, c)
<1>1. Passing' = Passing
  BY DEF KeepsResult, Passing
<1>2. NothingFound' = NothingFound
  BY DEF KeepsResult, NothingFound
<1>3. Found => Found'
  BY <1>1 DEF KeepsResult, Found
<1>4. StoredIsMeasured'
  BY <1>1 DEF KeepsResult, StoredIsMeasured, SearchIInv
<1>5. \A c : NoWorse(minimumSetBits, minimumWays, c)' <=>
               NoWorse(minimumSetBits, minimumWays, c)
  BY DEF KeepsResult, NoWorse
<1> QED BY <1>1, <1>2, <1>3, <1>4, <1>5 DEF SearchIInv

\* A candidate is passed by without being taken only if it does not pass or is
\* no better.
LEMMA RejectInvariant ==
  ASSUME SearchIInv, Reject
  PROVE  SearchIInv'
<1> USE DEF SearchIInv
<1>0. /\ <<setBits, ways, h>> \in Candidate
      /\ setBits \in SetBits /\ ways \in Ways /\ h \in 1 .. Len(Functions)
  BY CurrentIsCandidate DEF Reject
<1>1. TypeOK'
  BY <1>0 DEF TypeOK, Reject
<1>2. KeepsResult
  BY DEF KeepsResult, Reject
<1>3. ASSUME NEW c \in Passing, Behind(c)'
      PROVE  NoWorse(minimumSetBits, minimumWays, c)
  <2>1. c \in Candidate /\ c[1] \in SetBits /\ c[2] \in Ways /\ c[3] \in 1 .. Len(Functions)
    BY DEF Passing, Candidate
  <2>2. CASE Behind(c)
    BY <2>2 DEF BehindIsNoBetter
  <2>3. CASE ~ Behind(c)
    <3>1. c[1] = setBits /\ c[2] = ways /\ c[3] = h
      BY <2>1, <2>3, <1>3, <1>0 DEF Behind, Reject, SetBits, Ways
    <3>2. c = <<setBits, ways, h>>
      BY <2>1, <3>1 DEF Candidate
    <3>3. Passes(Measured)
      BY <3>2 DEF Passing, Measured
    <3>4. ~ Improves
      BY <3>3 DEF Reject
    <3> QED BY <3>1, <3>4, <1>0 DEF NoWorse, Improves, TypeOK, SetBits, Ways
  <2> QED BY <2>2, <2>3
<1>4. BehindIsNoBetter'
  BY <1>2, <1>3, ResultIsKept DEF BehindIsNoBetter
<1>5. LoopsAreOver'
  BY DEF LoopsAreOver, Reject, InTheLoops
<1> QED BY <1>1, <1>2, <1>4, <1>5, ResultIsKept

\* The loop counters: what falls behind is behind already, or has too many ways.
LEMMA NextWaysInvariant ==
  ASSUME SearchIInv, NextWays
  PROVE  SearchIInv'
<1> USE DEF SearchIInv
<1>0. setBits \in SetBits /\ ways \in Ways
  BY DEF NextWays, InTheLoops, WaysGoOn, TypeOK, SetBits, Ways
<1>1. TypeOK'
  <2>1. ways' \in 1 .. MaxWays + 1 /\ h' \in 1 .. Len(Functions) + 1
    BY <1>0 DEF NextWays, Ways
  <2> QED BY <2>1 DEF TypeOK, NextWays
<1>2. KeepsResult
  BY DEF KeepsResult, NextWays
<1>3. ASSUME NEW c \in Passing, Behind(c)'
      PROVE  Behind(c)
  <2>1. c[1] \in SetBits /\ c[2] \in Ways /\ c[3] \in 1 .. Len(Functions)
    BY DEF Passing, Candidate
  <2> QED BY SMTT(20), <2>1, <1>0, <1>3 DEF Behind, NextWays, SetBits, Ways, TypeOK
<1>4. BehindIsNoBetter'
  BY <1>2, <1>3, ResultIsKept DEF BehindIsNoBetter
<1>5. LoopsAreOver'
  BY DEF LoopsAreOver, NextWays, InTheLoops
<1> QED BY <1>1, <1>2, <1>4, <1>5, ResultIsKept

LEMMA NextSetBitsInvariant ==
  ASSUME SearchIInv, NextSetBits
  PROVE  SearchIInv'
<1> USE DEF SearchIInv
<1>0. setBits \in SetBits /\ ways \in 1 .. MaxWays + 1
  BY DEF NextSetBits, InTheLoops, TypeOK, SetBits
<1>1. TypeOK'
  <2>1. setBits' \in 0 .. SetBitsEnd /\ ways' \in 1 .. MaxWays + 1 /\ h' \in 1 .. Len(Functions) + 1
    BY <1>0 DEF NextSetBits, SetBits
  <2> QED BY <2>1 DEF TypeOK, NextSetBits
<1>2. KeepsResult
  BY DEF KeepsResult, NextSetBits
<1>3. ASSUME NEW c \in Passing, Behind(c)'
      PROVE  NoWorse(minimumSetBits, minimumWays, c)
  <2>1. c[1] \in SetBits /\ c[2] \in Ways /\ c[3] \in 1 .. Len(Functions)
    BY DEF Passing, Candidate
  <2>2. CASE Behind(c)
    BY <2>2 DEF BehindIsNoBetter
  <2>3. CASE ~ Behind(c)
    <3>1. c[1] = setBits /\ c[2] >= ways
      BY <2>1, <2>3, <1>3, <1>0 DEF Behind, NextSetBits, SetBits, Ways
    <3>2. ways > minimumWays
      BY <3>1, <2>1, <1>0 DEF NextSetBits, WaysGoOn, TypeOK, Ways
    <3> QED BY <3>1, <3>2, <2>1, <1>0 DEF NoWorse, TypeOK, Ways
  <2> QED BY <2>2, <2>3
<1>4. BehindIsNoBetter'
  BY <1>2, <1>3, ResultIsKept DEF BehindIsNoBetter
<1>5. LoopsAreOver'
  BY DEF LoopsAreOver, NextSetBits, InTheLoops
<1> QED BY <1>1, <1>2, <1>4, <1>5, ResultIsKept

\* Storing what was found; nothing is stored when nothing was found.
LEMMA StoreInvariant ==
  ASSUME SearchIInv, Store
  PROVE  SearchIInv'
<1> USE DEF SearchIInv
<1>1. TypeOK'
  BY DEF TypeOK, Store
<1>2. Passing' = Passing
  BY DEF Store, Passing
<1>3. BehindIsNoBetter' /\ LoopsAreOver'
  BY <1>2 DEF BehindIsNoBetter, Behind, NoWorse, LoopsAreOver, Store
<1>4. (NothingFound \/ Found)'
  BY <1>2 DEF NothingFound, Found, Store
<1>5. StoredIsMeasured'
  <2>1. CASE translationCache' = translationCache
    BY <1>2, <2>1 DEF StoredIsMeasured
  <2>2. CASE translationCache' # translationCache
    <3>1. translationCache' = [setBits |-> minimumSetBits, ways |-> minimumWays,
                               hash |-> hashFunction]
      BY <2>2 DEF Store
    <3>2. CASE Found
      BY <1>2, <3>1, <3>2 DEF Found, StoredIsMeasured
    <3>3. CASE NothingFound
      <4>1. minimumWays # translationCache.ways \/ minimumSetBits # translationCache.setBits
        BY <2>2 DEF Store
      <4>2. PICK n \in 1 .. Len(Functions) :
              <<translationCache.setBits, translationCache.ways, n>> \in Passing
        BY <3>3, <4>1 DEF StoredIsMeasured, NothingFound
      <4>3. LoopsAreOver /\ pc # "search"
        BY DEF Store
      <4>4. translationCache.setBits \in SetBits /\ translationCache.ways \in Ways
        BY <4>2 DEF Passing, Candidate
      <4>5. Behind(<<translationCache.setBits, translationCache.ways, n>>)
        BY <4>3, <4>4 DEF Behind, LoopsAreOver, SetBits
      <4>6. NoWorse(Default, Default, <<translationCache.setBits, translationCache.ways, n>>)
        BY <3>3, <4>2, <4>5 DEF BehindIsNoBetter, NothingFound
      <4> QED BY <4>4, <4>6 DEF NoWorse, Ways
    <3> QED BY <3>2, <3>3
  <2> QED BY <2>1, <2>2
<1> QED BY <1>1, <1>3, <1>4, <1>5

\* The steps that only move the program on.
LEMMA OtherInvariant ==
  ASSUME SearchIInv, EndOfSearch \/ Align \/ CallGarbage \/ PrintStructure
  PROVE  SearchIInv'
<1> USE DEF SearchIInv
<1>1. TypeOK'
  <2>1. CASE EndOfSearch \/ Align \/ CallGarbage
    BY <2>1 DEF TypeOK, EndOfSearch, Align, CallGarbage
  <2>2. CASE PrintStructure
    <3>1. report' \in Names \cup {"none", "unknown"}
      BY <2>2 DEF PrintStructure, TypeOK, Garbage
    <3> QED BY <2>2, <3>1 DEF TypeOK, PrintStructure
  <2> QED BY <2>1, <2>2
<1>2. KeepsResult /\ UNCHANGED <<setBits, ways, h>>
  BY DEF KeepsResult, EndOfSearch, Align, CallGarbage, PrintStructure
<1>3. BehindIsNoBetter'
  BY <1>2, ResultIsKept DEF BehindIsNoBetter, Behind
<1>4. LoopsAreOver'
  BY DEF LoopsAreOver, EndOfSearch, Align, CallGarbage, PrintStructure
<1> QED BY <1>1, <1>2, <1>3, <1>4, ResultIsKept

\* SearchIInv is an invariant of the search, for every set of answers.
THEOREM SearchInvariance == Spec => []SearchIInv
<1>1. ASSUME SearchIInv, [Next]_vars
      PROVE  SearchIInv'
  <2>1. CASE Accept
    BY <1>1, <2>1, AcceptInvariant
  <2>2. CASE Reject
    BY <1>1, <2>2, RejectInvariant
  <2>3. CASE NextWays
    BY <1>1, <2>3, NextWaysInvariant
  <2>4. CASE NextSetBits
    BY <1>1, <2>4, NextSetBitsInvariant
  <2>5. CASE Store
    BY <1>1, <2>5, StoreInvariant
  <2>6. CASE EndOfSearch \/ Align \/ CallGarbage \/ PrintStructure
    BY <1>1, <2>6, OtherInvariant
  <2>7. CASE UNCHANGED vars
    BY <1>1, <2>7 DEF vars, SearchIInv, TypeOK, BehindIsNoBetter, Behind, Passing, NoWorse,
       NothingFound, Found, LoopsAreOver, StoredIsMeasured
  <2> QED BY <1>1, <2>1, <2>2, <2>3, <2>4, <2>5, <2>6, <2>7 DEF Next
<1> QED BY <1>1, InitInvariant, PTL DEF Spec

\* The search is sound: it ends on the passing candidate with the fewest ways
\* and then the fewest sets, or on the default (evaluation.c:78-113).
THEOREM SearchIsSound == Spec => []SearchSound
<1>1. SearchIInv => SearchSound
  <2> SUFFICES ASSUME SearchIInv, pc # "search"
               PROVE  IF Passing = {} THEN NothingFound
                      ELSE Found /\ \A c \in Passing : NoWorse(minimumSetBits, minimumWays, c)
    BY DEF SearchSound
  <2>1. ASSUME NEW c \in Passing
        PROVE  NoWorse(minimumSetBits, minimumWays, c) /\ c[2] \in Ways
    <3>1. c[1] \in SetBits /\ c[2] \in Ways
      BY DEF Passing, Candidate
    <3>2. Behind(c)
      BY <3>1 DEF Behind, SearchIInv, LoopsAreOver, SetBits
    <3> QED BY <3>1, <3>2 DEF SearchIInv, BehindIsNoBetter
  <2>2. CASE Passing = {}
    BY <2>2 DEF SearchIInv, Found
  <2>3. CASE Passing # {}
    <3>1. PICK c \in Passing : TRUE
      BY <2>3
    <3>2. ~ NothingFound
      BY <2>1, <3>1 DEF NoWorse, NothingFound, Ways
    <3> QED BY <2>1, <2>3, <3>2 DEF SearchIInv
  <2> QED BY <2>2, <2>3
<1> QED BY <1>1, SearchInvariance, PTL

\* No unassigned pointer reaches translation_caches (evaluation.c:115-120).
THEOREM StoredStructureIsMeasured == Spec => []StoredIsMeasured
<1>1. SearchIInv => StoredIsMeasured
  BY DEF SearchIInv
<1> QED BY <1>1, SearchInvariance, PTL

--------------------------------------------------------------------------------
(* The search on the measurements of a cache *)

\* The offset-th region of a set does not come before an earlier one.
LEMMA HashGrows ==
  ASSUME NEW function \in {"lin", "lin_shift"}, NEW start \in Nat, NEW bits \in SetBits,
         NEW offset \in Nat, NEW earlier \in 0 .. offset
  PROVE  /\ Hash(function, start, earlier, bits) \in Int
         /\ Hash(function, start, offset, bits) \in Int
         /\ Hash(function, start, earlier, bits) <= Hash(function, start, offset, bits)
<1> DEFINE sets == 2^bits
<1>1. sets \in Nat /\ sets >= 1
  BY PowersAssumption
<1>2. CASE function = "lin"
  <2> HIDE DEF sets
  <2>1. sets * earlier \in Nat /\ sets * offset \in Nat /\ sets * earlier <= sets * offset
    BY <1>1
  <2>2. \A o : Hash(function, start, o, bits) = start + sets * o
    BY <1>2 DEF Hash, LinHash, sets
  <2> QED BY <2>1, <2>2
<1>3. CASE function = "lin_shift"
  <2> DEFINE dangling == start % 2
             pairs(o) == (o + dangling) \div 2
             rest(o) == (o + dangling) % 2
  <2>1. \A o : Hash(function, start, o, bits) = start - dangling + 2 * (sets * pairs(o)) + rest(o)
    BY <1>3 DEF Hash, LinShiftHash, sets
  <2> HIDE DEF sets
  <2>2. dangling \in {0, 1} /\ earlier \in Nat /\ offset \in Nat /\ earlier <= offset
    OBVIOUS
  <2>3. /\ pairs(earlier) \in Nat /\ pairs(offset) \in Nat
        /\ rest(earlier) \in {0, 1} /\ rest(offset) \in {0, 1}
        /\ 2 * pairs(earlier) + rest(earlier) <= 2 * pairs(offset) + rest(offset)
    BY <2>2
  <2> HIDE DEF dangling, pairs, rest
  <2>4. \/ pairs(earlier) = pairs(offset) /\ rest(earlier) <= rest(offset)
        \/ pairs(earlier) + 1 <= pairs(offset)
    BY <2>3
  <2>5. sets * pairs(earlier) \in Nat /\ sets * pairs(offset) \in Nat
    BY <1>1, <2>3
  <2>6. pairs(earlier) + 1 <= pairs(offset) => sets * pairs(earlier) + 1 <= sets * pairs(offset)
    <3> SUFFICES ASSUME pairs(earlier) + 1 <= pairs(offset)
                 PROVE  sets * pairs(earlier) + 1 <= sets * pairs(offset)
      OBVIOUS
    <3>1. PICK d \in Nat : pairs(offset) = pairs(earlier) + d + 1
      <4>1. pairs(offset) - pairs(earlier) - 1 \in Nat
        BY <2>3
      <4> QED BY SMTT(20), <2>3, <4>1
    <3>2. sets * (pairs(earlier) + d + 1) = sets * pairs(earlier) + sets * d + sets
      BY <1>1, <2>3
    <3>3. sets * d \in Nat
      BY <1>1
    <3> QED BY <1>1, <2>5, <3>1, <3>2, <3>3
  <2>7. Hash(function, start, earlier, bits)
          = start - dangling + 2 * (sets * pairs(earlier)) + rest(earlier)
    BY <2>1
  <2>8. Hash(function, start, offset, bits)
          = start - dangling + 2 * (sets * pairs(offset)) + rest(offset)
    BY <2>1
  <2>9. \/ sets * pairs(earlier) = sets * pairs(offset) /\ rest(earlier) <= rest(offset)
        \/ sets * pairs(earlier) + 1 <= sets * pairs(offset)
    BY <2>4, <2>6
  <2> DEFINE x == sets * pairs(earlier)
             y == sets * pairs(offset)
  <2>10. x \in Nat /\ y \in Nat /\ ((x = y /\ rest(earlier) <= rest(offset)) \/ x + 1 <= y)
    BY <2>5, <2>9
  <2> HIDE DEF x, y
  <2>11. start - dangling + 2 * x + rest(earlier) <= start - dangling + 2 * y + rest(offset)
    BY <2>2, <2>3, <2>10
  <2>12. /\ start - dangling + 2 * x + rest(earlier) \in Int
         /\ start - dangling + 2 * y + rest(offset) \in Int
    BY <2>2, <2>3, <2>10
  <2> QED BY <2>7, <2>8, <2>11, <2>12 DEF x, y
<1> QED BY <1>2, <1>3

\* The regions a walk touches after its n-th are no more than its steps.
LEMMA WalkBound ==
  ASSUME NEW walk, NEW n \in Nat, NEW last \in Nat, n <= last
  PROVE  /\ IsFiniteSet({walk[q] : q \in n + 1 .. last})
         /\ Cardinality({walk[q] : q \in n + 1 .. last}) \in Nat
         /\ Cardinality({walk[q] : q \in n + 1 .. last}) <= last - n
<1> DEFINE steps == n + 1 .. last
           regions == {walk[q] : q \in steps}
           f == [q \in steps |-> walk[q]]
<1>1. IsFiniteSet(steps) /\ Cardinality(steps) = last - n
  <2>1. n + 1 \in Int /\ last \in Int
    OBVIOUS
  <2>2. /\ IsFiniteSet(n + 1 .. last)
        /\ Cardinality(n + 1 .. last) = IF n + 1 > last THEN 0 ELSE last - (n + 1) + 1
    BY <2>1, FS_Interval
  <2>3. (IF n + 1 > last THEN 0 ELSE last - (n + 1) + 1) = last - n
    OBVIOUS
  <2> QED BY <2>2, <2>3
<1>2. f \in Surjection(steps, regions)
  BY DEF Surjection
<1> HIDE DEF f, steps
<1>3. IsFiniteSet(regions) /\ Cardinality(regions) <= Cardinality(steps)
  BY <1>1, <1>2, FS_Surjection
<1>4. Cardinality(regions) \in Nat
  BY <1>3, FS_CardinalityType
<1>5. Cardinality(regions) <= last - n
  BY <1>1, <1>3
<1> QED BY <1>3, <1>4, <1>5 DEF steps

\* A link of the chain that is mapped is walked: the chain is cut only where
\* the mapped regions end, and all later links lie beyond.
LEMMA MappedIsWalked ==
  ASSUME NEW function \in {"lin", "lin_shift"}, NEW start \in Starts, NEW bits \in SetBits,
         NEW length \in Ways, NEW j \in 0 .. length - 1,
         Mapped(Hash(function, start, j, bits))
  PROVE  LET walk == ChainFromHash(start, length, function, bits)
         IN  \E last \in 1 .. length + 1 :
               /\ DOMAIN walk = 1 .. last /\ Len(walk) = last
               /\ j + 1 \in 1 .. last
               /\ walk[j + 1] = Hash(function, start, j, bits)
<1> DEFINE links == {o \in 1 .. length :
                       \A q \in 1 .. o : Mapped(Hash(function, start, q, bits))}
           count == Cardinality(links)
           walk == ChainFromHash(start, length, function, bits)
<1>1. length \in Nat /\ j \in Nat /\ start \in Nat /\ Entries \in Nat
  BY TranslationCacheAssumption DEF Ways
<1>2. walk = [n \in 1 .. count + 1 |-> Hash(function, start, n - 1, bits)]
  BY DEF ChainFromHash
<1>3. count \in Nat /\ count <= length /\ j <= count
  <2>1. \A q \in 1 .. j : Mapped(Hash(function, start, q, bits))
    <3> SUFFICES ASSUME NEW q \in 1 .. j PROVE Mapped(Hash(function, start, q, bits))
      OBVIOUS
    <3>1. /\ Hash(function, start, q, bits) <= Hash(function, start, j, bits)
          /\ Hash(function, start, q, bits) \in Int /\ Hash(function, start, j, bits) \in Int
      <4>1. q \in 0 .. j
        BY <1>1
      <4> QED BY <1>1, <4>1, HashGrows
    <3> QED BY <1>1, <3>1 DEF Mapped
  <2>2. 1 .. j \subseteq links
    BY <1>1, <2>1
  <2>3. links \subseteq 1 .. length
    OBVIOUS
  <2> HIDE DEF links
  <2>4. IsFiniteSet(1 .. length) /\ Cardinality(1 .. length) = length /\ Cardinality(1 .. j) = j
    BY <1>1, FS_Interval
  <2>5. IsFiniteSet(links) /\ Cardinality(links) <= length
    BY ZenonT(30), <2>3, <2>4, FS_Subset
  <2>6. Cardinality(1 .. j) <= Cardinality(links)
    BY <2>2, <2>5, FS_Subset
  <2>7. Cardinality(links) \in Nat
    BY <2>5, FS_CardinalityType
  <2> QED BY <2>4, <2>5, <2>6, <2>7
<1> HIDE DEF count
<1>4. DOMAIN walk = 1 .. count + 1 /\ Len(walk) = count + 1
  BY <1>2, <1>3
<1>5. walk[j + 1] = Hash(function, start, j, bits)
  <2>1. j + 1 \in 1 .. count + 1 /\ j + 1 - 1 = j
    BY <1>1, <1>3
  <2> QED BY <1>2, <2>1
<1>6. count + 1 \in 1 .. length + 1 /\ j + 1 \in 1 .. count + 1
  BY <1>1, <1>3
<1> QED BY <1>4, <1>5, <1>6

\* A chain forgets a link only if it is long enough to fill the link's set.
LEMMA ForgetsOnlyWhenFull ==
  ASSUME NEW m \in Machines, NEW length \in Ways, NEW bits \in SetBits,
         NEW function \in {"lin", "lin_shift"}, NEW start \in Starts,
         ChainForgets(m, length, bits, function, start)
  PROVE  length >= m.ways
<1> DEFINE walk == ChainFromHash(start, length, function, bits)
<1>1. PICK j \in 0 .. length - 1 :
        /\ Mapped(Hash(function, start, j, bits))
        /\ ~ Remembers(m, walk, Hash(function, start, j, bits))
  BY DEF ChainForgets
<1> DEFINE r == Hash(function, start, j, bits)
<1>2. PICK last \in 1 .. length + 1 :
        /\ DOMAIN walk = 1 .. last /\ Len(walk) = last
        /\ j + 1 \in 1 .. last /\ walk[j + 1] = r
  BY <1>1, MappedIsWalked
<1>3. length \in Nat /\ j \in Nat /\ last \in Nat /\ m.ways \in Nat
  BY DiscoveryAssumption DEF Ways
<1> DEFINE n == j + 1
           touched == {walk[q] : q \in n + 1 .. last}
           rivals == {s \in touched \ {r} : SetOf(m, s) = SetOf(m, r)}
<1>4. ~ (Cardinality(rivals) < m.ways)
  BY <1>1, <1>2 DEF Remembers
<1>5. IsFiniteSet(touched) /\ Cardinality(touched) \in Nat /\ Cardinality(touched) <= last - n
  <2>1. n \in Nat /\ n <= last
    BY <1>2, <1>3
  <2> HIDE DEF n
  <2> QED BY <1>3, <2>1, WalkBound
<1>6. rivals \subseteq touched
  OBVIOUS
<1> HIDE DEF rivals, touched
<1>7. Cardinality(rivals) <= Cardinality(touched) /\ IsFiniteSet(rivals)
  BY <1>5, <1>6, FS_Subset
<1>8. Cardinality(rivals) \in Nat
  BY <1>7, FS_CardinalityType
<1> QED BY <1>2, <1>3, <1>4, <1>5, <1>7, <1>8

\* A candidate that passes has at least the ways of the cache.
LEMMA PassingFills ==
  ASSUME machine \in Machines, answer = Measurements(machine), NEW c \in Passing
  PROVE  c[2] >= machine.ways
<1>1. /\ c \in Candidate /\ c[1] \in SetBits /\ c[2] \in Ways /\ c[3] \in 1 .. Len(Functions)
      /\ 10 * answer[c] >= 8 * Iterations
  BY DEF Passing, Passes, Candidate
<1> DEFINE deciding == {s \in Starts : ChainForgets(machine, c[2], c[1], Functions[c[3]], s)}
<1>2. answer[c] = Cardinality(deciding)
  BY <1>1 DEF Measurements, TestHashFunction
<1>3. deciding # {}
  <2> SUFFICES ASSUME deciding = {} PROVE FALSE
    OBVIOUS
  <2>1. answer[c] = 0
    BY <1>2, FS_EmptySet
  <2> QED BY <1>1, <2>1
<1>4. PICK s \in Starts : ChainForgets(machine, c[2], c[1], Functions[c[3]], s)
  BY <1>3
<1> QED BY <1>1, <1>4, ForgetsOnlyWhenFull, DiscoveryAssumption

\* The tool never reports fewer ways than the cache has (evaluation.c:78-120).
THEOREM WaysAreEnough == DiscoverySpec => []NeverTooFewWays
<1> DEFINE Measures == machine = Erratic \/ (machine \in Machines /\ answer = Measurements(machine))
<1>1. DiscoveryInit => Init /\ Measures
  BY DEF DiscoveryInit
<1>2. [DiscoveryNext]_<<vars, machine>> => [Next]_vars
  BY DEF DiscoveryNext
<1>3. Measures /\ [DiscoveryNext]_<<vars, machine>> => Measures'
  BY DEF DiscoveryNext, Next, Accept, Reject, NextWays, NextSetBits, EndOfSearch, Store, Align,
         CallGarbage, PrintStructure, vars
<1>4. SearchIInv /\ Measures => NeverTooFewWays
  <2> SUFFICES ASSUME SearchIInv, Measures, machine # Erratic, translationCache.hash # "null"
               PROVE  translationCache.ways >= machine.ways
    BY DEF NeverTooFewWays
  <2>1. PICK n \in 1 .. Len(Functions) :
          <<translationCache.setBits, translationCache.ways, n>> \in Passing
    BY DEF SearchIInv, StoredIsMeasured
  <2> QED BY <2>1, PassingFills
<1> QED BY <1>1, <1>2, <1>3, <1>4, SearchInvariance, PTL DEF DiscoverySpec, Spec
================================================================================
