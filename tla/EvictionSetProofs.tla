---------------------------- MODULE EvictionSetProofs ----------------------------
(***************************************************************************)
(* The two functions on eviction sets, for every machine, every number of  *)
(* mapped regions and of calls, and whatever earlier calls left behind.    *)
(*                                                                         *)
(* A chase through memory is a recursive function.  Where memory holds a   *)
(* chain, it has a closed form (ChaseChained), from which it follows that  *)
(* a walk evicts exactly when enough of its regions share the target's set *)
(* (ChainEvicts).  The invariant then says which chain is in memory.       *)
(***************************************************************************)
EXTENDS EvictionSet, FiniteSetTheorems, WellFoundedInduction, TLAPS

--------------------------------------------------------------------------------
(* A chase and its closed form *)

\* Every set of natural numbers that is not empty has a least element.
LEMMA Minimum ==
  ASSUME NEW T \in SUBSET Nat, T # {}
  PROVE  \E x \in T : \A y \in T : x <= y
  <1> DEFINE R == OpToRel(<, Nat)
  <1>1. IsWellFoundedOn(R, Nat)
    BY NatLessThanWellFounded
  <1>2. \A x, y \in Nat : y < x => <<y, x>> \in R
    BY DEF OpToRel
  <1>3. \E x \in T : \A y \in T : ~ (<<y, x>> \in R)
    <2> HIDE DEF R
    <2> QED
      BY <1>1, WFMin
  <1>4. PICK x \in T : \A y \in T : ~ (<<y, x>> \in R)
    BY <1>3
  <1> HIDE DEF R
  <1>5. ASSUME NEW y \in T PROVE x <= y
    <2>1. x \in Nat /\ y \in Nat /\ ~ (y < x)
      BY <1>2, <1>4
    <2> QED
      BY <2>1
  <1> QED
    BY <1>5

\* There are enough pages for a chase to reach the end of any chain.
LEMMA PagesSuffice ==
  /\ IsFiniteSet(Page) /\ Cardinality(Page) \in Nat /\ Cardinality(Page) >= Entries
  /\ Entries \in Nat \ {0}
  <1>1. Entries \in Nat \ {0} /\ 0 \in Int /\ Entries - 1 \in Int
    BY TranslationCacheAssumption
  <1>2. IsFiniteSet(0 .. Entries - 1) /\ Cardinality(0 .. Entries - 1) = Entries
    BY <1>1, FS_Interval
  <1>3. IsFiniteSet({0, 1}) /\ Cardinality({0, 1}) = 2
    <2>1. {0, 1} = 0 .. 1 /\ 0 \in Int /\ 1 \in Int
      OBVIOUS
    <2>2. IsFiniteSet(0 .. 1) /\ Cardinality(0 .. 1) = IF 0 > 1 THEN 0 ELSE 1 - 0 + 1
      BY <2>1, FS_Interval
    <2> QED
      BY <2>1, <2>2
  <1>4. IsFiniteSet(Page) /\ Cardinality(Page) = Entries * 2
    <2>1. /\ IsFiniteSet(Page)
          /\ Cardinality(Page) = Cardinality(0 .. Entries - 1) * Cardinality({0, 1})
      BY <1>2, <1>3, FS_Product DEF Page
    <2> QED
      BY <1>2, <1>3, <2>1
  <1> QED
    BY <1>1, <1>4

\* g goes from page to page as a chase does.
Follows(g, mem, t) ==
  /\ g = [q \in 0 .. Cardinality(Page) + 1 |-> g[q]]
  /\ g[0] = LinkPage(t)
  /\ \A q \in 1 .. Cardinality(Page) + 1 :
       g[q] = IF g[q - 1] \in Page THEN mem[g[q - 1]] ELSE g[q - 1]

\* The chase is the one function that does.
LEMMA ChaseIs ==
  ASSUME NEW mem, NEW t, NEW g, Follows(g, mem, t)
  PROVE  Chase(mem, t) = g
  <1> DEFINE C == Cardinality(Page)
             P(f) == f = [q \in 0 .. C + 1 |->
                            IF q = 0 THEN LinkPage(t)
                            ELSE LET pg == f[q - 1] IN IF pg \in Page THEN mem[pg] ELSE pg]
             F == Chase(mem, t)
  <1>1. F = CHOOSE f : P(f)
    BY DEF Chase
  <1>2. P(g)
    <2>1. C \in Nat
      BY PagesSuffice
    <2>2. \A q \in 0 .. C + 1 : q = 0 \/ q \in 1 .. C + 1
      BY <2>1
    <2>3. \A q \in 0 .. C + 1 :
            g[q] = IF q = 0 THEN LinkPage(t)
                   ELSE LET pg == g[q - 1] IN IF pg \in Page THEN mem[pg] ELSE pg
      BY <2>2 DEF Follows
    <2> QED
      BY <2>3 DEF Follows
  <1>3. P(F)
    <2> HIDE DEF P, F
    <2> QED
      BY <1>1, <1>2
  <1>4. C \in Nat
    BY PagesSuffice
  <1> HIDE DEF F, C
  <1>5. DOMAIN F = 0 .. C + 1 /\ DOMAIN g = 0 .. C + 1
    BY <1>2, <1>3
  <1>6. \A q \in 0 .. C + 1 : F[q] = g[q]
    <2> DEFINE T == {q \in 0 .. C + 1 : F[q] # g[q]}
    <2> SUFFICES ASSUME T # {} PROVE FALSE
      OBVIOUS
    <2>1. PICK q \in T : \A y \in T : q <= y
      <3>1. T \in SUBSET Nat
        BY <1>4
      <3> HIDE DEF T
      <3> QED
        BY <3>1, Minimum
    <2>2. CASE q = 0
      BY <1>2, <1>3, <2>1, <2>2
    <2>3. CASE q # 0
      <3>1. q - 1 \in 0 .. C + 1 /\ ~ (q <= q - 1)
        BY <1>4, <2>1, <2>3
      <3>2. F[q - 1] = g[q - 1]
        BY <2>1, <3>1
      <3>3. /\ F[q] = IF F[q - 1] \in Page THEN mem[F[q - 1]] ELSE F[q - 1]
            /\ g[q] = IF g[q - 1] \in Page THEN mem[g[q - 1]] ELSE g[q - 1]
        BY <1>2, <1>3, <2>1, <2>3
      <3> QED
        BY <2>1, <3>2, <3>3
    <2> QED
      BY <2>2, <2>3
  <1>7. F = [q \in 0 .. C + 1 |-> F[q]] /\ g = [q \in 0 .. C + 1 |-> g[q]]
    BY <1>2, <1>3
  <1> QED
    BY <1>6, <1>7 DEF F

--------------------------------------------------------------------------------
(* What a chain in memory does *)

\* A chain through mapped regions after t, which may be none.
ChainBounds(t, first, end) ==
  /\ t \in 0 .. Entries - 1 /\ first \in Nat /\ end \in 0 .. Entries - 1
  /\ t < first /\ first <= end + 1

LEMMA LinkPages ==
  ASSUME NEW r \in Nat
  PROVE  /\ LinkPage(r) # End /\ (LinkPage(r) \in Page <=> r < Entries)
         /\ LinkPage(r)[1] = r /\ <<r, 1>> # LinkPage(r)
         /\ End \notin Page
  BY EvictionSetAssumption, TranslationCacheAssumption DEF LinkPage, Page

\* The chase follows the chain to its end.
LEMMA ChaseChained ==
  ASSUME NEW mem, NEW t, NEW first, NEW end,
         ChainBounds(t, first, end), Chained(mem, t, first, end)
  PROVE  Chase(mem, t) = [q \in 0 .. Cardinality(Page) + 1 |->
                            IF q = 0 THEN LinkPage(t)
                            ELSE IF q <= end - first + 1 THEN LinkPage(first + q - 1)
                            ELSE End]
  <1> DEFINE C == Cardinality(Page)
             g == [q \in 0 .. C + 1 |-> IF q = 0 THEN LinkPage(t)
                                        ELSE IF q <= end - first + 1 THEN LinkPage(first + q - 1)
                                        ELSE End]
  <1>1. C \in Nat /\ Entries \in Nat /\ t \in Nat /\ first \in Nat /\ end \in Nat
    BY PagesSuffice DEF ChainBounds
  <1>2. ASSUME NEW q \in 0 .. C + 1, q # 0
        PROVE  g[q] = IF g[q - 1] \in Page THEN mem[g[q - 1]] ELSE g[q - 1]
    <2>1. q - 1 \in 0 .. C + 1 /\ q \in Nat
      BY <1>1, <1>2
    <2>2. CASE q = 1
      <3>1. g[q - 1] = LinkPage(t) /\ LinkPage(t) \in Page
        <4>1. q - 1 = 0 /\ t < Entries
          BY <1>1, <2>2 DEF ChainBounds
        <4>2. LinkPage(t) \in Page
          BY <1>1, <4>1, LinkPages
        <4> QED
          BY <2>1, <4>1, <4>2
      <3>2. g[q] = IF first <= end THEN LinkPage(first) ELSE End
        BY <1>1, <2>2
      <3> QED
        BY <3>1, <3>2 DEF Chained
    <2>3. CASE q # 1 /\ q - 1 <= end - first + 1
      <3> DEFINE r == first + (q - 1) - 1
      <3>1. r \in first .. end /\ r \in Nat /\ r < Entries /\ q - 1 # 0
        BY <1>1, <1>2, <2>1, <2>3 DEF ChainBounds
      <3>2. g[q - 1] = LinkPage(r)
        BY <2>1, <2>3, <3>1
      <3>3. mem[LinkPage(r)] = IF r < end THEN LinkPage(r + 1) ELSE End
        BY <3>1 DEF Chained
      <3>4. LinkPage(r) \in Page
        BY <3>1, LinkPages
      <3>5. g[q] = IF r < end THEN LinkPage(r + 1) ELSE End
        <4>1. r + 1 = first + q - 1 /\ (r < end <=> q <= end - first + 1)
          BY <1>1, <2>1
        <4> QED
          BY <1>2, <4>1
      <3> HIDE DEF r, g
      <3> QED
        BY <3>2, <3>3, <3>4, <3>5
    <2>4. CASE q # 1 /\ ~ (q - 1 <= end - first + 1)
      <3>1. q - 1 # 0 /\ ~ (q <= end - first + 1)
        BY <1>1, <2>1, <2>4
      <3>2. g[q - 1] = End /\ g[q] = End
        BY <1>2, <2>1, <2>4, <3>1
      <3> QED
        BY <1>1, <3>2, LinkPages
    <2> QED
      BY <2>2, <2>3, <2>4
  <1>3. g[0] = LinkPage(t)
    BY <1>1
  <1>4. g = [q \in 0 .. C + 1 |-> g[q]] /\ \A q \in 1 .. C + 1 : q \in 0 .. C + 1 /\ q # 0
    BY <1>1
  <1> HIDE DEF g
  <1>5. Follows(g, mem, t)
    BY <1>2, <1>3, <1>4 DEF Follows
  <1>6. Chase(mem, t) = g
    BY <1>5, ChaseIs
  <1> QED
    BY <1>6 DEF g

LEMMA ChainArrives ==
  ASSUME NEW mem, NEW t, NEW first, NEW end,
         ChainBounds(t, first, end), Chained(mem, t, first, end)
  PROVE  Arrives(mem, t)
  <1> DEFINE C == Cardinality(Page)
  <1>1. /\ C \in Nat /\ C >= Entries /\ Entries \in Nat
        /\ first \in Nat /\ end \in Nat /\ end < Entries /\ 0 < first
    BY PagesSuffice DEF ChainBounds
  <1>2. C + 1 \in 0 .. C + 1 /\ C + 1 # 0 /\ ~ (C + 1 <= end - first + 1)
    BY <1>1
  <1>3. Chase(mem, t)[C + 1] = End
    BY <1>2, ChaseChained
  <1> QED
    BY <1>3 DEF Arrives

\* A walk along the chain: the target, then the regions of the chain in order.
LEMMA ChainWalk ==
  ASSUME NEW mem, NEW t, NEW first, NEW end,
         ChainBounds(t, first, end), Chained(mem, t, first, end)
  PROVE  Walk(mem, t) = [q \in 1 .. end - first + 2 |-> IF q = 1 THEN t ELSE first + q - 2]
  <1> DEFINE C == Cardinality(Page)
             at == Chase(mem, t)
             links == {q \in DOMAIN at : at[q] \in Page}
             N == end - first + 1
  <1>1. /\ C \in Nat /\ C >= Entries /\ Entries \in Nat /\ t \in Nat /\ t < Entries
        /\ first \in Nat /\ end \in Nat /\ end < Entries /\ 0 < first /\ first <= end + 1
        /\ N \in Nat /\ N <= C
    BY PagesSuffice DEF ChainBounds
  <1>2. at = [q \in 0 .. C + 1 |-> IF q = 0 THEN LinkPage(t)
                                   ELSE IF q <= N THEN LinkPage(first + q - 1) ELSE End]
    BY ChaseChained
  <1> HIDE DEF at, C
  <1>3. DOMAIN at = 0 .. C + 1
    BY <1>2
  <1>4. ASSUME NEW q \in 0 .. N
        PROVE  at[q] \in Page /\ at[q][1] = IF q = 0 THEN t ELSE first + q - 1
    <2>1. q \in 0 .. C + 1
      BY <1>1
    <2>2. CASE q = 0
      BY <1>1, <1>2, <2>1, <2>2, LinkPages
    <2>3. CASE q # 0
      <3>1. first + q - 1 \in Nat /\ first + q - 1 < Entries /\ q <= N
        BY <1>1, <2>3
      <3> HIDE DEF N
      <3>2. at[q] = LinkPage(first + q - 1)
        BY <1>2, <2>1, <2>3, <3>1
      <3> QED
        BY <2>3, <3>1, <3>2, LinkPages
    <2> QED
      BY <2>2, <2>3
  <1>5. ASSUME NEW q \in 0 .. C + 1, q \notin 0 .. N
        PROVE  at[q] \notin Page
    <2>1. q # 0 /\ ~ (q <= N)
      BY <1>1, <1>5
    <2>2. at[q] = End
      BY <1>2, <2>1
    <2> QED
      BY <1>1, <2>2, LinkPages
  <1>6. links = 0 .. N
    BY <1>1, <1>3, <1>4, <1>5
  <1>7. Cardinality(links) = N + 1
    <2>1. 0 \in Int /\ N \in Int
      BY <1>1
    <2>2. Cardinality(0 .. N) = IF 0 > N THEN 0 ELSE N - 0 + 1
      BY <2>1, FS_Interval
    <2>3. N \in Nat
      BY <1>1
    <2> HIDE DEF N, links
    <2> QED
      BY <1>6, <2>2, <2>3
  <1>8. Walk(mem, t) = [q \in 1 .. Cardinality(links) |-> at[q - 1][1]]
    BY DEF Walk, at
  <1>9. \A q \in 1 .. N + 1 : at[q - 1][1] = IF q = 1 THEN t ELSE first + q - 2
    <2> SUFFICES ASSUME NEW q \in 1 .. N + 1
                 PROVE  at[q - 1][1] = IF q = 1 THEN t ELSE first + q - 2
      OBVIOUS
    <2>1. q - 1 \in 0 .. N /\ (q - 1 = 0 <=> q = 1) /\ first + (q - 1) - 1 = first + q - 2
      BY <1>1
    <2> HIDE DEF N
    <2> QED
      BY <1>4, <2>1
  <1>10. N + 1 = end - first + 2
    BY <1>1
  <1> HIDE DEF links, N
  <1> QED
    BY <1>7, <1>8, <1>9, <1>10

\* The walk evicts the target exactly when the chain fills its set.
LEMMA ChainEvicts ==
  ASSUME NEW mem, NEW t, NEW first, NEW end,
         ChainBounds(t, first, end), Chained(mem, t, first, end)
  PROVE  Evicts(mem, t) <=> ~ (Cardinality(Rivals(t, first, end)) < machine.ways)
  <1> DEFINE walk == Walk(mem, t)
             after == {walk[q] : q \in 1 + 1 .. Len(walk)}
  <1>1. walk = [q \in 1 .. end - first + 2 |-> IF q = 1 THEN t ELSE first + q - 2]
    BY ChainWalk
  <1>2. first \in Nat /\ end \in Nat /\ t \in Nat /\ t < first /\ first <= end + 1
    BY DEF ChainBounds
  <1> HIDE DEF walk
  <1>3. DOMAIN walk = 1 .. end - first + 2 /\ Len(walk) = end - first + 2
    BY <1>1, <1>2
  <1>4. \A q \in DOMAIN walk : walk[q] = t <=> q = 1
    BY <1>1, <1>2, <1>3
  <1>5. 1 \in DOMAIN walk
    BY <1>2, <1>3
  <1>6. after = first .. end
    <2>1. ASSUME NEW q \in 2 .. end - first + 2 PROVE walk[q] \in first .. end
      BY <1>1, <1>2
    <2>2. ASSUME NEW r \in first .. end PROVE \E q \in 2 .. end - first + 2 : walk[q] = r
      <3>1. r - first + 2 \in 2 .. end - first + 2 /\ first + (r - first + 2) - 2 = r
        BY <1>2
      <3>2. walk[r - first + 2] = first + (r - first + 2) - 2
        BY <1>1, <1>2, <3>1
      <3> QED
        BY <3>1, <3>2
    <2>3. 1 + 1 = 2
      OBVIOUS
    <2> QED
      BY <1>3, <2>1, <2>2, <2>3
  <1> HIDE DEF after
  <1>7. {s \in after \ {t} : SetOf(machine, s) = SetOf(machine, t)} = Rivals(t, first, end)
    BY <1>2, <1>6 DEF Rivals
  <1>8. Remembers(machine, walk, t) <=>
          Cardinality({s \in after \ {t} : SetOf(machine, s) = SetOf(machine, t)}) < machine.ways
    BY <1>4, <1>5 DEF Remembers, after
  <1> QED
    BY <1>7, <1>8 DEF Evicts, walk

--------------------------------------------------------------------------------
(* Rivals of the target *)

LEMMA MachineWays ==
  ASSUME TypeOK
  PROVE  machine.ways \in Nat \ {0}
  BY EvictionSetAssumption DEF TypeOK

LEMMA RivalsFinite ==
  ASSUME NEW t, NEW first \in Nat, NEW end \in Nat
  PROVE  IsFiniteSet(Rivals(t, first, end)) /\ Cardinality(Rivals(t, first, end)) \in Nat
  <1>1. IsFiniteSet(first .. end)
    BY FS_Interval
  <1>2. Rivals(t, first, end) \in SUBSET (first .. end)
    BY DEF Rivals
  <1> QED
    BY <1>1, <1>2, FS_Subset, FS_CardinalityType

\* chain_evicts on a chain of neighbours.
LEMMA EvictsIffFills ==
  ASSUME TypeOK, NEW mem, NEW t, NEW first, NEW end,
         ChainBounds(t, first, end), Chained(mem, t, first, end)
  PROVE  Evicts(mem, t) <=> Fills(t, first, end)
  <1>1. Cardinality(Rivals(t, first, end)) \in Nat /\ machine.ways \in Nat
    BY RivalsFinite, MachineWays DEF ChainBounds
  <1> QED
    BY <1>1, ChainEvicts DEF Fills

\* A chain that fills the set has a link.
LEMMA FillsHasLink ==
  ASSUME TypeOK, NEW t, NEW first \in Nat, NEW end \in Nat, Fills(t, first, end)
  PROVE  first <= end
  <1> SUFFICES ASSUME first > end PROVE FALSE
    OBVIOUS
  <1>1. Rivals(t, first, end) = {}
    BY DEF Rivals
  <1>2. Cardinality(Rivals(t, first, end)) = 0
    BY <1>1, FS_EmptySet
  <1> QED
    BY <1>2, MachineWays DEF Fills

\* A link without which the chain no longer fills the set shares the set.
LEMMA MandatoryShares ==
  ASSUME NEW t, NEW first \in Nat, NEW end \in Nat,
         Fills(t, first, end), ~ Fills(t, first + 1, end)
  PROVE  SetOf(machine, first) = SetOf(machine, t)
  <1> SUFFICES ASSUME SetOf(machine, first) # SetOf(machine, t) PROVE FALSE
    OBVIOUS
  <1>1. Rivals(t, first, end) = Rivals(t, first + 1, end)
    <2>1. \A s \in first .. end : s = first \/ s \in first + 1 .. end
      OBVIOUS
    <2>2. \A s \in first + 1 .. end : s \in first .. end
      OBVIOUS
    <2> QED
      BY <2>1, <2>2 DEF Rivals
  <1> QED
    BY <1>1 DEF Fills

--------------------------------------------------------------------------------
(* The chains that are written *)

LEMMA EndBounds ==
  ASSUME NEW t \in 0 .. Entries - 1, NEW len \in Nat
  PROVE  /\ t \in Nat /\ ChainEnd(t, len) \in Nat /\ Entries \in Nat
         /\ ChainEnd(t, len) \in 0 .. Entries - 1
         /\ t <= ChainEnd(t, len) /\ ChainEnd(t, len) <= t + len
         /\ (ChainEnd(t, len) = t + len \/ ChainEnd(t, len) + 1 = Entries)
         /\ ChainBounds(t, t + 1, ChainEnd(t, len))
  BY TranslationCacheAssumption DEF ChainEnd, ChainBounds, Mapped

\* build_pointer_chain writes the chain of neighbours and leaves the rest alone.
LEMMA BuildChained ==
  ASSUME TypeOK, NEW t \in 0 .. Entries - 1, NEW len \in Nat
  PROVE  /\ Chained(BuildPointerChain(t, len), t, t + 1, ChainEnd(t, len))
         /\ BuildPointerChain(t, len) \in [Page -> (Nat \X {0}) \cup {End, Nothing}]
  <1> DEFINE P(e) == Mapped(e) /\ (e = t + len \/ ~ Mapped(e + 1))
             end == CHOOSE e \in t .. t + len : P(e)
             b == BuildPointerChain(t, len)
  <1>1. /\ t \in Nat /\ ChainEnd(t, len) \in t .. t + len /\ ChainEnd(t, len) < Entries
        /\ Entries \in Nat
    <2> DEFINE c == ChainEnd(t, len)
    <2>1. /\ t \in Nat /\ c \in Nat /\ Entries \in Nat
          /\ c \in 0 .. Entries - 1 /\ t <= c /\ c <= t + len
      BY EndBounds
    <2> HIDE DEF c
    <2>2. c \in t .. t + len /\ c < Entries
      BY <2>1
    <2> QED
      BY <2>1, <2>2 DEF c
  <1>2. end = ChainEnd(t, len)
    <2>1. P(ChainEnd(t, len))
      BY <1>1 DEF ChainEnd, Mapped
    <2>2. ASSUME NEW e \in t .. t + len, P(e) PROVE e = ChainEnd(t, len)
      BY <1>1, <2>2 DEF ChainEnd, Mapped
    <2> HIDE DEF P
    <2>3. end \in t .. t + len /\ P(end)
      BY <1>1, <2>1
    <2> QED
      BY <2>2, <2>3
  <1>3. b = [pg \in Page |->
               CASE pg[2] = 0 /\ pg[1] \in t .. end - 1 -> LinkPage(pg[1] + 1)
                 [] pg = LinkPage(end) -> End
                 [] OTHER -> memory[pg]]
    BY DEF BuildPointerChain
  <1> HIDE DEF end, b
  <1>4. ASSUME NEW r \in t .. end
        PROVE  b[LinkPage(r)] = IF r < end THEN LinkPage(r + 1) ELSE End
    <2>1. LinkPage(r) \in Page /\ LinkPage(r)[1] = r /\ LinkPage(r)[2] = 0
      BY <1>1, <1>2, LinkPages DEF LinkPage
    <2>2. r < end <=> r \in t .. end - 1
      BY <1>1, <1>2
    <2>3. CASE r < end
      <3>1. LinkPage(r) # LinkPage(end)
        BY <2>3 DEF LinkPage
      <3> QED
        BY <1>3, <2>1, <2>2, <2>3, <3>1
    <2>4. CASE ~ (r < end)
      <3>1. r = end
        BY <1>1, <1>2, <2>4
      <3> QED
        BY <1>3, <2>1, <2>2, <2>4, <3>1
    <2> QED
      BY <2>3, <2>4
  <1>5. Chained(b, t, t + 1, ChainEnd(t, len))
    <2>1. t \in t .. end /\ (t < end <=> t + 1 <= end) /\ \A r \in t + 1 .. end : r \in t .. end
      BY <1>1, <1>2
    <2> QED
      BY <1>2, <1>4, <2>1 DEF Chained
  <1>6. b \in [Page -> (Nat \X {0}) \cup {End, Nothing}]
    <2> SUFFICES ASSUME NEW pg \in Page PROVE b[pg] \in (Nat \X {0}) \cup {End, Nothing}
      BY <1>3
    <2>1. CASE pg[2] = 0 /\ pg[1] \in t .. end - 1
      <3>1. pg # LinkPage(end)
        BY <1>1, <1>2, <2>1, LinkPages
      <3>2. b[pg] = LinkPage(pg[1] + 1) /\ pg[1] + 1 \in Nat
        BY <1>1, <1>2, <1>3, <2>1, <3>1
      <3> QED
        BY <3>2 DEF LinkPage
    <2>2. CASE ~ (pg[2] = 0 /\ pg[1] \in t .. end - 1)
      BY <1>3, <2>2 DEF TypeOK
    <2> QED
      BY <2>1, <2>2
  <1> QED
    BY <1>5, <1>6 DEF b

LEMMA FillsKept ==
  ASSUME machine' = machine
  PROVE  \A t, first, end : Fills(t, first, end)' <=> Fills(t, first, end)
  BY DEF Fills, Rivals

\* Where a chain is longer only on paper, it is the same chain.
LEMMA LongerIsMapped ==
  ASSUME NEW t \in 0 .. Entries - 1, NEW len \in Nat, len > 2,
         Fills(t, t + 1, ChainEnd(t, len)), ~ Fills(t, t + 1, ChainEnd(t, len - 1))
  PROVE  Mapped(t + len)
  <1> SUFFICES ASSUME ~ Mapped(t + len) PROVE FALSE
    OBVIOUS
  <1>1. ChainEnd(t, len) = ChainEnd(t, len - 1)
    BY TranslationCacheAssumption DEF ChainEnd, Mapped
  <1> QED
    BY <1>1

--------------------------------------------------------------------------------
(* One link is tried *)

\* The state while links are tried, from SkipInv.
Trying(first) ==
  LET end == ChainEnd(Target, length)
  IN  /\ first \in Target + 1 .. end
      /\ Chained(memory, Target, first, end)
      /\ Fills(Target, first, end)

\* No link is mandatory yet: link n is next to be left out.
NoneMandatory(first) == last = LinkPage(Target) /\ size = 2 /\ first = Target + n

\* The first mandatory link was found.
OneMandatory(first) ==
  /\ last = <<first, 1>> /\ size = 3
  /\ first < ChainEnd(Target, length)
  /\ ~ Fills(Target, first + 1, ChainEnd(Target, length))
  /\ call.name = "align" =>
       Hash(call.structure.hash, Target, 1, call.structure.setBits) = first

LEMMA SkipState ==
  ASSUME EvictionIInv, pc = "skip"
  PROVE  \E first : Trying(first) /\ (NoneMandatory(first) \/ OneMandatory(first))
  BY DEF EvictionIInv, SkipInv, Trying, NoneMandatory, OneMandatory

LEMMA SkipTypes ==
  ASSUME EvictionIInv, pc = "skip"
  PROVE  /\ Target \in 0 .. Entries - 1 /\ Target \in Nat /\ length \in Nat /\ n \in Nat \ {0}
         /\ last \in Page /\ memory \in [Page -> (Nat \X {0}) \cup {End, Nothing}]
         /\ Skipped \in [Page -> (Nat \X {0}) \cup {End, Nothing}]
         /\ Entries \in Nat
  <1>1. Target \in 0 .. Entries - 1 /\ length \in Nat /\ n \in Nat \ {0} /\ last \in Page
        /\ memory \in [Page -> (Nat \X {0}) \cup {End, Nothing}] /\ Entries \in Nat
    BY TranslationCacheAssumption DEF EvictionIInv, TypeOK, CallInv, SkipInv
  <1>2. Target \in Nat
    BY <1>1
  <1>3. LinkPage(Target + n + 1) \in Nat \X {0}
    BY <1>1, <1>2 DEF LinkPage
  <1> QED
    BY <1>1, <1>2, <1>3 DEF Skipped

\* As long as no link is mandatory, leaving out link n shortens the chain, or
\* sends it beyond the mapped area.
LEMMA TryFirst ==
  ASSUME EvictionIInv, Skipping, NEW first, Trying(first), NoneMandatory(first)
  PROVE  LET end == ChainEnd(Target, length)
         IN  \/ ~ Arrives(Skipped, Target) /\ ~ Mapped(Target + n + 1)
             \/ /\ first < end /\ Arrives(Skipped, Target)
                /\ Chained(Skipped, Target, first + 1, end)
                /\ Evicts(Skipped, Target) <=> Fills(Target, first + 1, end)
  <1> DEFINE end == ChainEnd(Target, length)
  <1>1. /\ Target \in 0 .. Entries - 1 /\ Target \in Nat /\ length \in Nat /\ n \in Nat \ {0}
        /\ last \in Page /\ memory \in [Page -> (Nat \X {0}) \cup {End, Nothing}]
        /\ Entries \in Nat
    BY SkipTypes DEF Skipping
  <1>2. /\ end \in Nat /\ end \in 0 .. Entries - 1
        /\ (end = Target + length \/ end + 1 = Entries)
        /\ first = Target + n /\ first \in Target + 1 .. end /\ n < length
        /\ last = LinkPage(Target)
    BY <1>1, EndBounds DEF Trying, NoneMandatory, Skipping
  <1> HIDE DEF end
  <1>3. Skipped[LinkPage(Target)] = LinkPage(first + 1)
    BY <1>1, <1>2 DEF Skipped
  <1>4. CASE first < end
    <2>1. ASSUME NEW r \in first + 1 .. end
          PROVE  Skipped[LinkPage(r)] = IF r < end THEN LinkPage(r + 1) ELSE End
      <3>1. r \in first .. end /\ r \in Nat /\ r # Target /\ r < Entries
        BY <1>1, <1>2
      <3>2. LinkPage(r) \in Page /\ LinkPage(r) # LinkPage(Target)
        BY <3>1, LinkPages DEF LinkPage
      <3>3. memory[LinkPage(r)] = IF r < end THEN LinkPage(r + 1) ELSE End
        BY <3>1 DEF Trying, Chained, end
      <3> QED
        BY <1>1, <1>2, <3>2, <3>3 DEF Skipped
    <2>2. Chained(Skipped, Target, first + 1, end)
      BY <1>2, <1>3, <1>4, <2>1 DEF Chained
    <2>3. ChainBounds(Target, first + 1, end)
      BY <1>1, <1>2, <1>4 DEF ChainBounds
    <2>4. TypeOK
      BY DEF EvictionIInv
    <2> QED
      BY <1>4, <2>2, <2>3, <2>4, ChainArrives, EvictsIffFills DEF end
  <1>5. CASE ~ (first < end)
    <2>1. first = end /\ first + 1 = Entries /\ first + 1 \in Nat
      BY <1>1, <1>2, <1>5
    <2>2. LinkPage(first + 1) \notin Page /\ LinkPage(first + 1) # End
      BY <2>1, LinkPages
    <2>3. LinkPage(Target) \in Page
      BY <1>1, LinkPages
    <2> DEFINE C == Cardinality(Page)
               g == [q \in 0 .. C + 1 |-> IF q = 0 THEN LinkPage(Target) ELSE LinkPage(first + 1)]
    <2>4. C \in Nat
      BY PagesSuffice
    <2>5. Follows(g, Skipped, Target)
      <3>1. ASSUME NEW q \in 1 .. C + 1
            PROVE  g[q] = IF g[q - 1] \in Page THEN Skipped[g[q - 1]] ELSE g[q - 1]
        <4>1. q \in 0 .. C + 1 /\ q # 0 /\ q - 1 \in 0 .. C + 1
          BY <2>4
        <4>2. g[q] = LinkPage(first + 1)
          BY <4>1
        <4>3. g[q - 1] = IF q - 1 = 0 THEN LinkPage(Target) ELSE LinkPage(first + 1)
          BY <4>1
        <4> QED
          BY <1>3, <2>2, <2>3, <4>2, <4>3
      <3>2. g[0] = LinkPage(Target) /\ g = [q \in 0 .. C + 1 |-> g[q]]
        BY <2>4
      <3> HIDE DEF g
      <3> QED
        BY <3>1, <3>2 DEF Follows
    <2>6. Chase(Skipped, Target) = g
      BY <2>5, ChaseIs
    <2>7. g[C + 1] = LinkPage(first + 1)
      <3>1. C + 1 \in 0 .. C + 1 /\ C + 1 # 0
        BY <2>4
      <3> QED
        BY <3>1
    <2> HIDE DEF g
    <2>8. ~ Arrives(Skipped, Target)
      BY <2>2, <2>6, <2>7 DEF Arrives
    <2>9. ~ Mapped(Target + n + 1)
      BY <1>1, <1>2, <2>1 DEF Mapped
    <2> QED
      BY <2>8, <2>9
  <1> QED
    BY <1>4, <1>5 DEF end

\* After a mandatory link, what is written is not part of the chain.
LEMMA TryLater ==
  ASSUME EvictionIInv, Skipping, NEW first, Trying(first), OneMandatory(first)
  PROVE  /\ Arrives(Skipped, Target) /\ Evicts(Skipped, Target)
         /\ Chained(Skipped, Target, first, ChainEnd(Target, length))
  <1> DEFINE end == ChainEnd(Target, length)
  <1>1. /\ Target \in 0 .. Entries - 1 /\ Target \in Nat /\ length \in Nat /\ n \in Nat \ {0}
        /\ last \in Page /\ memory \in [Page -> (Nat \X {0}) \cup {End, Nothing}]
        /\ Entries \in Nat
    BY SkipTypes DEF Skipping
  <1>2. /\ end \in Nat /\ end \in 0 .. Entries - 1
        /\ first \in Target + 1 .. end /\ last = <<first, 1>>
    BY <1>1, EndBounds DEF Trying, OneMandatory
  <1> HIDE DEF end
  <1>3. ASSUME NEW r \in 0 .. Entries - 1
        PROVE  Skipped[LinkPage(r)] = memory[LinkPage(r)]
    <2>1. LinkPage(r) \in Page /\ LinkPage(r) # <<first, 1>>
      BY <1>1, LinkPages DEF LinkPage
    <2> QED
      BY <1>1, <1>2, <2>1 DEF Skipped
  <1>4. Chained(Skipped, Target, first, end)
    <2>1. Chained(memory, Target, first, end) /\ \A r \in first .. end : r \in 0 .. Entries - 1
      BY <1>1, <1>2 DEF Trying, end
    <2> QED
      BY <1>1, <1>3, <2>1 DEF Chained
  <1>5. ChainBounds(Target, first, end)
    BY <1>1, <1>2 DEF ChainBounds
  <1>6. TypeOK /\ Fills(Target, first, end)
    BY DEF EvictionIInv, Trying, end
  <1> QED
    BY <1>4, <1>5, <1>6, ChainArrives, EvictsIffFills DEF end

--------------------------------------------------------------------------------
(* Steps *)

\* What is said of the target's rivals stays true while machine and call do.
LEMMA SameCall ==
  ASSUME machine' = machine, call' = call
  PROVE  /\ Target' = Target
         /\ \A first, end : Fills(Target, first, end)' <=> Fills(Target, first, end)
         /\ \A len : NoneBelow(len)' <=> NoneBelow(len)
  BY DEF Target, NoneBelow, Fills, Rivals

\* A chain in memory after a step of the same call.
LEMMA TryingNext ==
  ASSUME machine' = machine, call' = call, length' = length,
         NEW first \in Target + 1 .. ChainEnd(Target, length),
         Chained(memory', Target, first, ChainEnd(Target, length)),
         Fills(Target, first, ChainEnd(Target, length))
  PROVE  Trying(first)'
  BY DEF Trying, Target, Fills, Rivals, Chained

\* The invariant says nothing of skipping, of results or of faults elsewhere.
LEMMA SkipNext ==
  ASSUME NEW first, Trying(first)', NoneMandatory(first)' \/ OneMandatory(first)',
         n' \in Nat \ {0}, (call.name = "find" => length = 2 \/ Mapped(Target + length))',
         pc' = "skip"
  PROVE  SkipInv' /\ SearchInv' /\ FoundInv' /\ AlignSound' /\ FaultsOnlyOutside'
  BY DEF SkipInv, Trying, NoneMandatory, OneMandatory, SearchInv, FoundInv, FindReturned,
         AlignSound, AlignReturned, FaultsOnlyOutside

LEMMA InitStep ==
  ASSUME Init PROVE EvictionIInv
  <1>1. TypeOK
    BY EvictionSetAssumption, TranslationCacheAssumption DEF Init, TypeOK, Page, LinkPage
  <1>2. CallInv
    BY TranslationCacheAssumption DEF Init, CallInv, Target
  <1>3. SearchInv /\ SkipInv /\ FoundInv /\ AlignSound /\ FaultsOnlyOutside
    BY DEF Init, SearchInv, SkipInv, FoundInv, AlignSound, FaultsOnlyOutside, FindReturned,
           AlignReturned
  <1> QED
    BY <1>1, <1>2, <1>3 DEF EvictionIInv

LEMMA CallFindStep ==
  ASSUME EvictionIInv, NEW target \in Starts, CallFind(target) PROVE EvictionIInv'
  <1>1. TypeOK'
    BY EvictionSetAssumption DEF EvictionIInv, TypeOK, CallFind
  <1>2. CallInv'
    BY TranslationCacheAssumption DEF CallFind, CallInv, Target
  <1>3. SearchInv'
    BY EvictionSetAssumption DEF CallFind, SearchInv, NoneBelow
  <1>4. SkipInv' /\ FoundInv' /\ AlignSound' /\ FaultsOnlyOutside'
    BY DEF CallFind, SkipInv, FoundInv, AlignSound, FaultsOnlyOutside, FindReturned, AlignReturned
  <1> QED
    BY <1>1, <1>2, <1>3, <1>4 DEF EvictionIInv

LEMMA GrowStep ==
  ASSUME EvictionIInv, Grow PROVE EvictionIInv'
  <1>1. /\ TypeOK /\ CallInv /\ SearchInv /\ Target \in 0 .. Entries - 1
        /\ length \in Nat /\ length \in 2 .. LengthEnd /\ NoneBelow(length)
        /\ machine' = machine /\ call' = call /\ call.name = "find"
        /\ LengthEnd \in Nat /\ LengthEnd > 2
    BY EvictionSetAssumption DEF EvictionIInv, TypeOK, CallInv, SearchInv, Grow
  <1>2. Target' = Target /\ \A len : NoneBelow(len)' <=> NoneBelow(len)
    BY <1>1, SameCall
  <1>3. pc' \in {"grow", "recheck"}
    BY DEF Grow
  <1>4. CallInv' /\ SkipInv' /\ FoundInv' /\ AlignSound' /\ FaultsOnlyOutside'
    BY <1>1, <1>2, <1>3 DEF CallInv, SkipInv, FoundInv, AlignSound, FaultsOnlyOutside,
                            FindReturned, AlignReturned
  <1>5. CASE length < LengthEnd
    <2> DEFINE end == ChainEnd(Target, length)
    <2>1. /\ Chained(memory', Target, Target + 1, end)
          /\ memory' \in [Page -> (Nat \X {0}) \cup {End, Nothing}]
      BY <1>1, <1>5, BuildChained DEF Grow
    <2>2. ChainBounds(Target, Target + 1, end)
      BY <1>1, EndBounds
    <2>3. Evicts(memory', Target) <=> Fills(Target, Target + 1, end)
      BY <1>1, <2>1, <2>2, EvictsIffFills
    <2>4. CASE Evicts(memory', Target)
      <3>1. pc' = "recheck" /\ length' = length
        BY <1>5, <2>4 DEF Grow
      <3>2. WrittenTo(length)' /\ Fills(Target, Target + 1, ChainEnd(Target, length))'
        <4>1. WrittenTo(length)'
          BY <1>2, <2>1, <3>1 DEF WrittenTo
        <4>2. Fills(Target, Target + 1, ChainEnd(Target, length))'
          BY <1>1, <2>3, <2>4, <3>1 DEF Fills, Rivals, Target
        <4> QED
          BY <4>1, <4>2
      <3>3. SearchInv'
        BY <1>1, <1>2, <1>5, <3>1, <3>2 DEF SearchInv
      <3>4. TypeOK'
        BY <1>1, <2>1, <3>1 DEF TypeOK, Grow
      <3> QED
        BY <1>4, <3>3, <3>4 DEF EvictionIInv
    <2>5. CASE ~ Evicts(memory', Target)
      <3>1. pc' = "grow" /\ length' = length + 1
        BY <1>5, <2>5 DEF Grow
      <3>2. NoneBelow(length')
        <4>1. \A l \in 2 .. length' - 1 : l \in 2 .. length - 1 \/ l = length
          BY <1>1, <3>1
        <4> QED
          BY <1>1, <2>3, <2>5, <4>1 DEF NoneBelow
      <3>3. WrittenTo(length - 1)'
        <4>1. length' - 1 = length
          BY <1>1, <3>1
        <4> QED
          BY <1>2, <2>1, <4>1 DEF WrittenTo
      <3>4. SearchInv'
        <4>1. length' \in 2 .. LengthEnd
          BY <1>1, <1>5, <3>1
        <4>2. NoneBelow(length)'
          BY <1>2, <3>2
        <4> QED
          BY <3>1, <3>3, <4>1, <4>2 DEF SearchInv
      <3>5. TypeOK'
        BY <1>1, <2>1, <3>1 DEF TypeOK, Grow
      <3> QED
        BY <1>4, <3>4, <3>5 DEF EvictionIInv
    <2> QED
      BY <2>4, <2>5
  <1>6. CASE ~ (length < LengthEnd)
    <2>1. /\ length = LengthEnd /\ pc = "grow" /\ pc' = "recheck"
          /\ length' = length /\ memory' = memory
      BY <1>1, <1>6 DEF Grow
    <2>2. WrittenTo(length - 1)'
      BY <1>1, <1>2, <2>1 DEF SearchInv, WrittenTo
    <2>3. SearchInv'
      BY <1>1, <1>2, <1>6, <2>1, <2>2 DEF SearchInv
    <2>4. TypeOK'
      BY <1>1, <2>1 DEF TypeOK, Grow
    <2> QED
      BY <1>4, <2>3, <2>4 DEF EvictionIInv
  <1> QED
    BY <1>5, <1>6

LEMMA RecheckStep ==
  ASSUME EvictionIInv, Recheck PROVE EvictionIInv'
  <1>1. /\ TypeOK /\ CallInv /\ SearchInv /\ Target \in 0 .. Entries - 1
        /\ length \in Nat /\ length \in 2 .. LengthEnd /\ NoneBelow(length)
        /\ machine' = machine /\ call' = call /\ length' = length /\ memory' = memory
        /\ call.name = "find" /\ LengthEnd \in Nat /\ LengthEnd > 2 /\ pc = "recheck"
    BY EvictionSetAssumption DEF EvictionIInv, TypeOK, CallInv, SearchInv, Recheck
  <1>2. Target' = Target /\ \A len : NoneBelow(len)' <=> NoneBelow(len)
    BY <1>1, SameCall
  <1>3. CallInv'
    BY <1>1, <1>2 DEF CallInv, Recheck, Return
  <1>4. CASE length < LengthEnd
    <2> DEFINE end == ChainEnd(Target, length)
    <2>1. Chained(memory, Target, Target + 1, end) /\ Fills(Target, Target + 1, end)
      BY <1>1, <1>4 DEF SearchInv, WrittenTo
    <2>2. /\ ChainBounds(Target, Target + 1, end) /\ end \in Nat /\ Target \in Nat
          /\ end \in 0 .. Entries - 1
      BY <1>1, EndBounds
    <2>3. Evicts(memory, Target)
      BY <1>1, <2>1, <2>2, EvictsIffFills
    <2>4. Target + 1 \in Nat /\ Target + 1 <= end
      BY <1>1, <2>1, <2>2, FillsHasLink
    <2>5. length = 2 \/ Mapped(Target + length)
      <3> SUFFICES ASSUME length # 2 PROVE Mapped(Target + length)
        OBVIOUS
      <3>1. length > 2 /\ length - 1 \in 2 .. length - 1
        BY <1>1
      <3>2. ~ Fills(Target, Target + 1, ChainEnd(Target, length - 1))
        BY <1>1, <3>1 DEF NoneBelow
      <3> QED
        BY <1>1, <2>1, <3>1, <3>2, LongerIsMapped
    <2>6. pc' = "skip" /\ n' = 1 /\ size' = 2 /\ last' = LinkPage(Target) /\ result' = result
      BY <2>3 DEF Recheck
    <2>7. Trying(Target + 1)'
      <3>1. Target + 1 \in Target + 1 .. end
        BY <2>2, <2>4
      <3> QED
        BY <1>1, <1>2, <2>1, <3>1 DEF Trying, Fills, Rivals, Target
    <2>8. NoneMandatory(Target + 1)'
      BY <1>2, <2>6 DEF NoneMandatory
    <2>9. SkipInv' /\ SearchInv' /\ FoundInv' /\ AlignSound' /\ FaultsOnlyOutside'
      <3>1. (call.name = "find" => length = 2 \/ Mapped(Target + length))'
        BY <1>1, <1>2, <2>5
      <3> QED
        BY <2>6, <2>7, <2>8, <3>1, SkipNext
    <2>10. TypeOK'
      <3>1. LinkPage(Target) \in Page
        BY <1>1, <2>2, LinkPages, TranslationCacheAssumption
      <3> QED
        BY <1>1, <2>6, <3>1 DEF TypeOK, Recheck
    <2> QED
      BY <1>3, <2>9, <2>10 DEF EvictionIInv
  <1>5. CASE ~ (length < LengthEnd)
    <2> DEFINE end == ChainEnd(Target, length - 1)
    <2>1. length = LengthEnd /\ length - 1 \in 2 .. length - 1 /\ length - 1 \in Nat
      BY <1>1, <1>5
    <2>2. Chained(memory, Target, Target + 1, end) /\ ~ Fills(Target, Target + 1, end)
      BY <1>1, <1>5, <2>1 DEF SearchInv, WrittenTo, NoneBelow
    <2>3. ChainBounds(Target, Target + 1, end)
      BY <1>1, <2>1, EndBounds
    <2>4. ~ Evicts(memory, Target)
      BY <1>1, <2>2, <2>3, EvictsIffFills
    <2>5. /\ pc' = "idle" /\ result' = -1 /\ UNCHANGED <<n, size, last, calls>>
      BY <2>4 DEF Recheck, Return
    <2>6. TypeOK'
      BY <1>1, <2>5 DEF TypeOK
    <2>7. FoundInv'
      <3>1. NoneBelow(LengthEnd)'
        BY <1>1, <1>2, <2>1
      <3> QED
        BY <2>5, <3>1 DEF FoundInv
    <2>8. SearchInv' /\ SkipInv' /\ AlignSound' /\ FaultsOnlyOutside'
      BY <1>1, <2>5 DEF SearchInv, SkipInv, AlignSound, AlignReturned, FaultsOnlyOutside
    <2> QED
      BY <1>3, <2>6, <2>7, <2>8 DEF EvictionIInv
  <1> QED
    BY <1>4, <1>5

LEMMA CallAlignStep ==
  ASSUME EvictionIInv, NEW target \in Starts, NEW structure \in Arguments, CallAlign(target, structure)
  PROVE  EvictionIInv'
  <1>0. PICK len \in Nat : length' = len
    BY EvictionSetAssumption DEF CallAlign
  <1> DEFINE end == ChainEnd(target, len)
  <1>1. /\ TypeOK /\ target \in 0 .. Entries - 1 /\ length' = len
        /\ machine' = machine /\ memory' = BuildPointerChain(target, len)
        /\ call' = [name |-> "align", target |-> target, structure |-> structure]
        /\ calls' \in 0 .. MaxCalls
    BY <1>0, EvictionSetAssumption, TranslationCacheAssumption DEF EvictionIInv, TypeOK, CallAlign
  <1>2. /\ Chained(memory', target, target + 1, end)
        /\ memory' \in [Page -> (Nat \X {0}) \cup {End, Nothing}]
    BY <1>1, BuildChained
  <1>3. ChainBounds(target, target + 1, end) /\ end \in Nat /\ target \in Nat
    BY <1>1, EndBounds
  <1>4. Evicts(memory', target) <=> Fills(target, target + 1, end)
    BY <1>1, <1>2, <1>3, EvictsIffFills
  <1>5. Target' = target /\ call'.name = "align" /\ call'.structure = structure
    BY <1>1 DEF Target
  <1>6. CASE Evicts(memory', target)
    <2>1. /\ pc' = "skip" /\ n' = 1 /\ size' = 2 /\ last' = LinkPage(target)
          /\ result' = Nothing
      BY <1>6 DEF CallAlign
    <2>2. target + 1 \in Nat /\ target + 1 <= end /\ target + 1 \in target + 1 .. end
      BY <1>1, <1>3, <1>4, <1>6, FillsHasLink
    <2>3. Trying(target + 1)'
      <3>1. Fills(target, target + 1, end)'
        BY <1>1, <1>4, <1>6 DEF Fills, Rivals
      <3> QED
        BY <1>1, <1>2, <1>5, <2>2, <3>1 DEF Trying
    <2>4. NoneMandatory(target + 1)'
      BY <1>5, <2>1 DEF NoneMandatory
    <2>5. SkipInv' /\ SearchInv' /\ FoundInv' /\ AlignSound' /\ FaultsOnlyOutside'
      BY <1>5, <2>1, <2>3, <2>4, SkipNext
    <2>6. TypeOK'
      <3>1. LinkPage(target) \in Page
        BY <1>1, <1>3, LinkPages, TranslationCacheAssumption
      <3> QED
        BY <1>1, <1>2, <2>1, <3>1 DEF TypeOK
    <2>7. CallInv'
      BY <1>1, <1>5, <2>1 DEF CallInv
    <2> QED
      BY <2>5, <2>6, <2>7 DEF EvictionIInv
  <1>7. CASE ~ Evicts(memory', target)
    <2>1. /\ pc' = "idle" /\ UNCHANGED <<n, size, last>>
          /\ result' = IF structure.hash = "null" THEN 1 ELSE 0
      BY <1>7 DEF CallAlign, Return
    <2>2. TypeOK'
      BY <1>1, <1>2, <2>1 DEF TypeOK
    <2>3. CallInv'
      BY <1>1, <1>5, <2>1 DEF CallInv
    <2>4. AlignSound'
      BY <1>5, <2>1 DEF AlignSound
    <2>5. SearchInv' /\ SkipInv' /\ FoundInv' /\ FaultsOnlyOutside'
      BY <1>5, <2>1 DEF SearchInv, SkipInv, FoundInv, FindReturned, FaultsOnlyOutside
    <2> QED
      BY <2>2, <2>3, <2>4, <2>5 DEF EvictionIInv
  <1> QED
    BY <1>6, <1>7

LEMMA SkipFaultsStep ==
  ASSUME EvictionIInv, SkipFaults PROVE EvictionIInv'
  <1>1. /\ Skipping /\ pc = "skip" /\ TypeOK /\ CallInv /\ pc' = "crashed" /\ memory' = Skipped
        /\ machine' = machine /\ call' = call /\ length' = length
        /\ UNCHANGED <<n, last, size, result, calls>>
    BY DEF EvictionIInv, SkipFaults, Skipping
  <1>2. /\ Target \in Nat /\ length \in Nat /\ n \in Nat \ {0} /\ n < length
        /\ Skipped \in [Page -> (Nat \X {0}) \cup {End, Nothing}]
        /\ (call.name = "find" => length = 2 \/ Mapped(Target + length))
    BY <1>1, SkipTypes DEF Skipping, EvictionIInv, SkipInv
  <1>3. ~ Mapped(Target + n + 1)
    <2>1. PICK first : Trying(first) /\ (NoneMandatory(first) \/ OneMandatory(first))
      BY <1>1, SkipState
    <2>2. NoneMandatory(first)
      BY <1>1, <2>1, TryLater DEF SkipFaults
    <2> QED
      BY <1>1, <2>1, <2>2, TryFirst DEF SkipFaults
  <1>4. FaultsOnlyOutside'
    <2>1. ~ Mapped(Target + length)
      BY <1>2, <1>3, TranslationCacheAssumption DEF Mapped
    <2>2. call.name = "find" => length = 2 /\ n + 1 = 2
      BY <1>2, <2>1
    <2>3. call.name = "find" => ~ Mapped(Target + 2)
      BY <1>2, <1>3, <2>1, <2>2
    <2>4. call.name \in {"find", "align"} /\ Target' = Target
      BY <1>1 DEF CallInv, Target
    <2> QED
      BY <1>1, <2>1, <2>2, <2>3, <2>4 DEF FaultsOnlyOutside
  <1>5. TypeOK'
    BY <1>1, <1>2 DEF TypeOK
  <1>6. CallInv'
    BY <1>1 DEF CallInv, Target
  <1>7. SearchInv' /\ SkipInv' /\ FoundInv' /\ AlignSound'
    BY <1>1 DEF SearchInv, SkipInv, FoundInv, FindReturned, AlignSound, AlignReturned
  <1> QED
    BY <1>4, <1>5, <1>6, <1>7 DEF EvictionIInv

LEMMA LeaveOutStep ==
  ASSUME EvictionIInv, LeaveOut PROVE EvictionIInv'
  <1>1. /\ Skipping /\ pc = "skip" /\ TypeOK /\ CallInv /\ pc' = "skip" /\ memory' = Skipped
        /\ machine' = machine /\ call' = call /\ length' = length /\ n' = n + 1
        /\ UNCHANGED <<last, size, result, calls>>
        /\ Arrives(Skipped, Target) /\ Evicts(Skipped, Target)
    BY DEF EvictionIInv, LeaveOut, Skipping, IsMandatory
  <1>2. /\ Target \in Nat /\ length \in Nat /\ n \in Nat \ {0} /\ n' \in Nat \ {0}
        /\ Skipped \in [Page -> (Nat \X {0}) \cup {End, Nothing}]
        /\ (call.name = "find" => length = 2 \/ Mapped(Target + length))
    BY <1>1, SkipTypes DEF Skipping, EvictionIInv, SkipInv
  <1>3. Target' = Target /\ \A f, e : Fills(Target, f, e)' <=> Fills(Target, f, e)
    BY <1>1, SameCall
  <1>4. TypeOK' /\ CallInv'
    <2>1. TypeOK'
      BY <1>1, <1>2 DEF TypeOK
    <2>2. CallInv'
      BY <1>1 DEF CallInv, Target
    <2> QED
      BY <2>1, <2>2
  <1>5. (call.name = "find" => length = 2 \/ Mapped(Target + length))'
    BY <1>1, <1>2, <1>3
  <1>6. PICK first : Trying(first) /\ (NoneMandatory(first) \/ OneMandatory(first))
    BY <1>1, SkipState
  <1> DEFINE end == ChainEnd(Target, length)
  <1>7. first \in Target + 1 .. end /\ end \in Nat
    BY <1>1, <1>2, <1>6, EndBounds DEF Trying, CallInv
  <1>8. CASE NoneMandatory(first)
    <2>1. /\ first < end /\ Chained(Skipped, Target, first + 1, end)
          /\ Fills(Target, first + 1, end)
      BY <1>1, <1>6, <1>8, TryFirst
    <2>2. first + 1 \in Target + 1 .. end
      BY <1>2, <1>7, <2>1
    <2>3. Trying(first + 1)'
      BY <1>1, <2>1, <2>2, TryingNext
    <2>4. NoneMandatory(first + 1)'
      BY <1>1, <1>2, <1>3, <1>8 DEF NoneMandatory
    <2> QED
      BY <1>1, <1>2, <1>4, <1>5, <2>3, <2>4, SkipNext DEF EvictionIInv
  <1>9. CASE OneMandatory(first)
    <2>1. Chained(Skipped, Target, first, end) /\ Fills(Target, first, end)
      BY <1>1, <1>6, <1>9, TryLater DEF Trying
    <2>2. Trying(first)'
      BY <1>1, <1>7, <2>1, TryingNext
    <2>3. OneMandatory(first)'
      BY <1>1, <1>9 DEF OneMandatory, Fills, Rivals, Target
    <2> QED
      BY <1>1, <1>2, <1>4, <1>5, <2>2, <2>3, SkipNext DEF EvictionIInv
  <1> QED
    BY <1>6, <1>8, <1>9

\* The first mandatory link is put back where it was.
LEMMA PutBackStep ==
  ASSUME EvictionIInv, Skipping, Arrives(Skipped, Target), IsMandatory, PutBack,
         machine' = machine, call' = call, length' = length, calls' = calls,
         (call.name = "align" => Predicted = Target + n)
  PROVE  EvictionIInv'
  <1>1. /\ pc = "skip" /\ TypeOK /\ CallInv /\ pc' = "skip"
        /\ last' = <<Target + n, 1>> /\ size' = size + 1 /\ n' = n + 1 /\ result' = result
        /\ memory' = [memory EXCEPT ![last] = LinkPage(Target + n)]
        /\ ~ Evicts(Skipped, Target)
    BY DEF EvictionIInv, PutBack, Skipping, IsMandatory
  <1>2. /\ Target \in Nat /\ length \in Nat /\ n \in Nat \ {0} /\ n' \in Nat \ {0}
        /\ Target \in 0 .. Entries - 1 /\ Entries \in Nat
        /\ memory \in [Page -> (Nat \X {0}) \cup {End, Nothing}]
        /\ (call.name = "find" => length = 2 \/ Mapped(Target + length))
    BY <1>1, SkipTypes DEF Skipping, EvictionIInv, SkipInv
  <1>3. Target' = Target /\ \A f, e : Fills(Target, f, e)' <=> Fills(Target, f, e)
    BY SameCall
  <1>4. PICK first : Trying(first) /\ NoneMandatory(first)
    BY <1>1, SkipState, TryLater
  <1> DEFINE end == ChainEnd(Target, length)
  <1>5. /\ first \in Target + 1 .. end /\ end \in Nat /\ end \in 0 .. Entries - 1
        /\ first = Target + n /\ last = LinkPage(Target) /\ size = 2
    BY <1>1, <1>2, <1>4, EndBounds DEF Trying, NoneMandatory
  <1>6. first < end /\ ~ Fills(Target, first + 1, end)
    BY <1>1, <1>4, TryFirst
  <1>7. Chained(memory, Target, first, end) /\ Fills(Target, first, end)
    BY <1>4 DEF Trying
  <1>8. memory' = memory
    <2>1. memory[last] = LinkPage(Target + n)
      BY <1>5, <1>7 DEF Chained
    <2> QED
      BY <1>1, <1>2, <2>1
  <1>9. TypeOK'
    <2>1. <<Target + n, 1>> \in Page
      BY <1>2, <1>5 DEF Page
    <2> QED
      BY <1>1, <1>2, <1>5, <1>8, <2>1 DEF TypeOK
  <1>10. CallInv'
    BY <1>1 DEF CallInv, Target
  <1>11. Trying(first)'
    BY <1>5, <1>7, <1>8, TryingNext
  <1>12. OneMandatory(first)'
    <2>1. call.name = "align" =>
            Hash(call.structure.hash, Target, 1, call.structure.setBits) = first
      <3>1. size - 1 = 1
        BY <1>5
      <3> QED
        BY <1>5, <3>1 DEF Predicted
    <2>2. size' = 3
      BY <1>1, <1>5
    <2> QED
      BY <1>1, <1>3, <1>5, <1>6, <2>1, <2>2 DEF OneMandatory
  <1>13. (call.name = "find" => length = 2 \/ Mapped(Target + length))'
    BY <1>2, <1>3
  <1> QED
    BY <1>1, <1>2, <1>9, <1>10, <1>11, <1>12, <1>13, SkipNext DEF EvictionIInv

LEMMA KeepFoundStep ==
  ASSUME EvictionIInv, KeepFound PROVE EvictionIInv'
  <1>1. /\ Skipping /\ Arrives(Skipped, Target) /\ IsMandatory /\ PutBack
        /\ machine' = machine /\ call' = call /\ length' = length /\ calls' = calls
        /\ call.name = "find"
    BY DEF KeepFound
  <1> QED
    BY <1>1, PutBackStep

LEMMA KeepAlignedStep ==
  ASSUME EvictionIInv, KeepAligned PROVE EvictionIInv'
  <1>1. /\ Skipping /\ Arrives(Skipped, Target) /\ IsMandatory
        /\ machine' = machine /\ call' = call /\ length' = length /\ calls' = calls
        /\ call.name = "align"
    BY DEF KeepAligned
  <1>2. CASE Predicted = Target + n
    <2>1. PutBack
      BY <1>2 DEF KeepAligned
    <2> QED
      BY <1>1, <1>2, <2>1, PutBackStep
  <1>3. CASE Predicted # Target + n
    <2>1. /\ pc' = "idle" /\ result' = 0 /\ memory' = Skipped /\ UNCHANGED <<last, size, n>>
      BY <1>3 DEF KeepAligned, Return
    <2>2. Skipped \in [Page -> (Nat \X {0}) \cup {End, Nothing}]
      BY <1>1, SkipTypes DEF Skipping
    <2>3. TypeOK'
      BY <1>1, <2>1, <2>2 DEF EvictionIInv, TypeOK
    <2>4. CallInv'
      BY <1>1, <2>1 DEF EvictionIInv, CallInv, Target
    <2>5. SearchInv' /\ SkipInv' /\ FoundInv' /\ AlignSound' /\ FaultsOnlyOutside'
      BY <1>1, <2>1 DEF SearchInv, SkipInv, FoundInv, FindReturned, AlignSound, FaultsOnlyOutside
    <2> QED
      BY <2>3, <2>4, <2>5 DEF EvictionIInv
  <1> QED
    BY <1>2, <1>3

LEMMA CallNullStep ==
  ASSUME EvictionIInv, CallNull PROVE EvictionIInv'
  <1>1. /\ Skipping /\ pc = "skip" /\ call.name = "align" /\ call.structure.hash = "null"
        /\ pc' = "crashed" /\ memory' = Skipped
        /\ UNCHANGED <<machine, call, length, n, last, size, result, calls>>
    BY DEF CallNull, Skipping
  <1>2. Skipped \in [Page -> (Nat \X {0}) \cup {End, Nothing}]
    BY <1>1, SkipTypes
  <1>3. TypeOK'
    BY <1>1, <1>2 DEF EvictionIInv, TypeOK
  <1>4. CallInv'
    BY <1>1 DEF EvictionIInv, CallInv, Target
  <1>5. SearchInv' /\ SkipInv' /\ FoundInv' /\ AlignSound' /\ FaultsOnlyOutside'
    BY <1>1 DEF SearchInv, SkipInv, FoundInv, FindReturned, AlignSound, AlignReturned,
                FaultsOnlyOutside
  <1> QED
    BY <1>3, <1>4, <1>5 DEF EvictionIInv

LEMMA ReturnFoundStep ==
  ASSUME EvictionIInv, ReturnFound PROVE EvictionIInv'
  <1>1. /\ pc = "skip" /\ call.name = "find" /\ pc' = "idle" /\ result' = size
        /\ machine' = machine /\ memory' = memory /\ call' = call /\ length' = length
        /\ UNCHANGED <<n, last, size, calls>> /\ TypeOK /\ CallInv
    BY DEF EvictionIInv, ReturnFound, Return
  <1>2. PICK first : Trying(first) /\ (NoneMandatory(first) \/ OneMandatory(first))
    BY <1>1, SkipState
  <1> DEFINE end == ChainEnd(Target, length)
  <1>3. /\ first \in Target + 1 .. end /\ end \in Nat /\ Target \in Nat
        /\ size \in 2 .. end - first + 2
    <2>1. /\ end \in Nat /\ Target \in Nat /\ first \in Target + 1 .. end
          /\ (size = 2 \/ (size = 3 /\ first < end))
      BY <1>1, <1>2, EndBounds DEF Trying, NoneMandatory, OneMandatory, CallInv, TypeOK
    <2> HIDE DEF end
    <2> QED
      BY <2>1
  <1>4. Trying(first)'
    BY <1>1, <1>2, TryingNext DEF Trying
  <1>5. FoundInv'
    <2>1. result' \in 2 .. ChainEnd(Target', length') - first + 2
      BY <1>1, <1>3 DEF Target
    <2> QED
      BY <1>4, <2>1 DEF FoundInv, Trying
  <1>6. TypeOK'
    BY <1>1 DEF TypeOK
  <1>7. CallInv'
    BY <1>1 DEF CallInv, Target
  <1>8. SearchInv' /\ SkipInv' /\ AlignSound' /\ FaultsOnlyOutside'
    BY <1>1 DEF SearchInv, SkipInv, AlignSound, AlignReturned, FaultsOnlyOutside
  <1> QED
    BY <1>5, <1>6, <1>7, <1>8 DEF EvictionIInv

LEMMA ReturnAlignedStep ==
  ASSUME EvictionIInv, ReturnAligned PROVE EvictionIInv'
  <1>1. /\ pc = "skip" /\ call.name = "align" /\ pc' = "idle"
        /\ result' = IF size = call.structure.ways + 1 THEN 1 ELSE 0
        /\ machine' = machine /\ memory' = memory /\ call' = call /\ length' = length
        /\ UNCHANGED <<n, last, size, calls>> /\ TypeOK /\ CallInv
    BY DEF EvictionIInv, ReturnAligned, Return
  <1>2. AlignSound'
    <2> DEFINE predicted == Hash(call.structure.hash, Target, 1, call.structure.setBits)
    <2>1. ASSUME result' = 1, call.structure.ways > 1
          PROVE  SetOf(machine, predicted) = SetOf(machine, Target)
      <3>1. PICK first : Trying(first) /\ (NoneMandatory(first) \/ OneMandatory(first))
        BY <1>1, SkipState
      <3>2. call.structure.ways \in Nat /\ size = call.structure.ways + 1
        BY <1>1, <2>1, EvictionSetAssumption DEF CallInv
      <3>3. OneMandatory(first)
        <4>1. size # 2
          BY <2>1, <3>2
        <4> QED
          BY <3>1, <4>1 DEF NoneMandatory
      <3>4. predicted = first
        BY <1>1, <3>3 DEF OneMandatory
      <3>5. first \in Nat /\ ChainEnd(Target, length) \in Nat
        BY <1>1, <3>1, EndBounds DEF Trying, CallInv, TypeOK
      <3>6. SetOf(machine, first) = SetOf(machine, Target)
        BY <3>1, <3>3, <3>5, MandatoryShares DEF Trying, OneMandatory
      <3> QED
        BY <3>4, <3>6
    <2> QED
      BY <1>1, <2>1 DEF AlignSound, Target
  <1>3. TypeOK'
    BY <1>1 DEF TypeOK
  <1>4. CallInv'
    BY <1>1 DEF CallInv, Target
  <1>5. SearchInv' /\ SkipInv' /\ FoundInv' /\ FaultsOnlyOutside'
    BY <1>1 DEF SearchInv, SkipInv, FoundInv, FindReturned, FaultsOnlyOutside
  <1> QED
    BY <1>2, <1>3, <1>4, <1>5 DEF EvictionIInv

LEMMA StutterStep ==
  ASSUME EvictionIInv, UNCHANGED vars PROVE EvictionIInv'
  <1>1. /\ machine' = machine /\ memory' = memory /\ pc' = pc /\ call' = call
        /\ length' = length /\ n' = n /\ last' = last /\ size' = size /\ result' = result
        /\ calls' = calls
    BY DEF vars
  <1>2. TypeOK' /\ CallInv' /\ AlignSound' /\ FaultsOnlyOutside'
    BY <1>1 DEF EvictionIInv, TypeOK, CallInv, AlignSound, AlignReturned, FaultsOnlyOutside, Target
  <1>3. Target' = Target
        /\ (\A f, e : Fills(Target, f, e)' <=> Fills(Target, f, e))
        /\ \A len : NoneBelow(len)' <=> NoneBelow(len)
    BY <1>1, SameCall
  <1>4. SearchInv'
    BY <1>1, <1>3 DEF EvictionIInv, SearchInv, WrittenTo
  <1>5. SkipInv'
    BY <1>1, <1>3 DEF EvictionIInv, SkipInv
  <1>6. FoundInv'
    BY <1>1, <1>3 DEF EvictionIInv, FoundInv, FindReturned
  <1> QED
    BY <1>2, <1>4, <1>5, <1>6 DEF EvictionIInv

--------------------------------------------------------------------------------
(* Theorems *)

\* Every step of either function keeps the invariant: at each moment it is
\* known which chain is in memory and why it evicts, although the chain is
\* rewritten while it is used and nothing is ever erased
\* (eviction_sets.c:60-131).
THEOREM EvictionInvariance == Spec => []EvictionIInv
  <1>1. Init => EvictionIInv
    BY InitStep
  <1>2. EvictionIInv /\ [Next]_vars => EvictionIInv'
    <2> SUFFICES ASSUME EvictionIInv, [Next]_vars PROVE EvictionIInv'
      OBVIOUS
    <2>1. ASSUME NEW target \in Starts, CallFind(target) PROVE EvictionIInv'
      BY <2>1, CallFindStep
    <2>2. ASSUME NEW target \in Starts, NEW structure \in Arguments,
                 CallAlign(target, structure)
          PROVE  EvictionIInv'
      BY <2>2, CallAlignStep
    <2>3. CASE Grow
      BY <2>3, GrowStep
    <2>4. CASE Recheck
      BY <2>4, RecheckStep
    <2>5. CASE SkipFaults
      BY <2>5, SkipFaultsStep
    <2>6. CASE LeaveOut
      BY <2>6, LeaveOutStep
    <2>7. CASE KeepFound
      BY <2>7, KeepFoundStep
    <2>8. CASE KeepAligned
      BY <2>8, KeepAlignedStep
    <2>9. CASE CallNull
      BY <2>9, CallNullStep
    <2>10. CASE ReturnFound
      BY <2>10, ReturnFoundStep
    <2>11. CASE ReturnAligned
      BY <2>11, ReturnAlignedStep
    <2>12. CASE UNCHANGED vars
      BY <2>12, StutterStep
    <2> QED
      BY <2>1, <2>2, <2>3, <2>4, <2>5, <2>6, <2>7, <2>8, <2>9, <2>10, <2>11, <2>12 DEF Next
  <1> QED
    BY <1>1, <1>2, PTL DEF Spec

\* The result of a search is -1 or a number of pages, and the pages hold nothing
\* but regions, ends and zeroes (eviction_sets.c:60-96).
THEOREM EvictionTypes == Spec => []TypeOK
  <1>1. EvictionIInv => TypeOK
    BY DEF EvictionIInv
  <1> QED
    BY <1>1, EvictionInvariance, PTL

\* What FoundInv says of the chain that a search leaves behind.
LEMMA FoundChain ==
  ASSUME EvictionIInv, FindReturned, result # -1
  PROVE  \E first \in Target + 1 .. ChainEnd(Target, length) :
           /\ Chained(memory, Target, first, ChainEnd(Target, length))
           /\ Fills(Target, first, ChainEnd(Target, length))
           /\ result \in 2 .. ChainEnd(Target, length) - first + 2
           /\ ChainBounds(Target, first, ChainEnd(Target, length))
           /\ TypeOK /\ first \in Nat /\ ChainEnd(Target, length) \in Nat
  <1> DEFINE end == ChainEnd(Target, length)
  <1>1. PICK first \in Target + 1 .. end :
          /\ Chained(memory, Target, first, end) /\ Fills(Target, first, end)
          /\ result \in 2 .. end - first + 2
    BY DEF EvictionIInv, FoundInv
  <1>2. /\ TypeOK /\ Target \in 0 .. Entries - 1 /\ Target \in Nat /\ end \in Nat
        /\ end \in 0 .. Entries - 1
    BY EndBounds DEF EvictionIInv, TypeOK, CallInv
  <1>3. ChainBounds(Target, first, end) /\ first \in Nat
    BY <1>1, <1>2 DEF ChainBounds
  <1> QED
    BY <1>1, <1>2, <1>3

\* Whatever an earlier call left in the pages, the chain a successful search
\* leaves ends where it should and evicts the target (eviction_sets.c:85-95).
THEOREM FoundSetsEvict == Spec => []FoundSetEvicts
  <1>1. EvictionIInv => FoundSetEvicts
    BY FoundChain, ChainArrives, EvictsIffFills DEF FoundSetEvicts
  <1> QED
    BY <1>1, EvictionInvariance, PTL

\* Printing the set never follows the chain past its end (evaluation.c:163-173).
THEOREM PrintingIsSafe == Spec => []PrintingStaysOnChain
  <1>1. EvictionIInv => PrintingStaysOnChain
    <2> SUFFICES ASSUME EvictionIInv, FindReturned, result # -1
                 PROVE  result <= Len(Walk(memory, Target))
      BY DEF PrintingStaysOnChain
    <2> DEFINE end == ChainEnd(Target, length)
    <2>1. PICK first \in Target + 1 .. end :
            /\ Chained(memory, Target, first, end) /\ ChainBounds(Target, first, end)
            /\ result \in 2 .. end - first + 2 /\ first \in Nat /\ end \in Nat
      BY FoundChain
    <2> HIDE DEF end
    <2>2. Walk(memory, Target) =
            [q \in 1 .. end - first + 2 |-> IF q = 1 THEN Target ELSE first + q - 2]
      BY <2>1, ChainWalk
    <2>3. end - first + 2 \in Nat
      BY <2>1
    <2>4. Len(Walk(memory, Target)) = end - first + 2
      BY <2>2, <2>3
    <2> QED
      BY <2>1, <2>4
  <1> QED
    BY <1>1, EvictionInvariance, PTL

\* The search gives up only when no chain it may try evicts
\* (eviction_sets.c:70-81).
THEOREM SearchGivesUpRightly == Spec => []GivesUpRightly
  <1>1. EvictionIInv => GivesUpRightly
    <2> SUFFICES ASSUME EvictionIInv, FindReturned, result = -1, NEW len \in 2 .. LengthEnd - 1
                 PROVE  ~ Evicts(BuildPointerChain(Target, len), Target)
      BY DEF GivesUpRightly
    <2> DEFINE end == ChainEnd(Target, len)
    <2>1. TypeOK /\ Target \in 0 .. Entries - 1 /\ len \in Nat
      BY EvictionSetAssumption DEF EvictionIInv, CallInv
    <2>2. NoneBelow(LengthEnd)
      <3>1. ASSUME NEW first, NEW e, result \in 2 .. e - first + 2 PROVE FALSE
        BY <3>1
      <3> QED
        BY <3>1 DEF EvictionIInv, FoundInv
    <2>3. ~ Fills(Target, Target + 1, end)
      BY <2>2 DEF NoneBelow
    <2>4. /\ Chained(BuildPointerChain(Target, len), Target, Target + 1, end)
          /\ ChainBounds(Target, Target + 1, end)
      BY <2>1, BuildChained, EndBounds
    <2> QED
      BY <2>1, <2>3, <2>4, EvictsIffFills
  <1> QED
    BY <1>1, EvictionInvariance, PTL

\* A structure of several ways that is said to align predicts a member of the
\* target's set (eviction_sets.c:107-130).
THEOREM AlignmentSound == Spec => []AlignSound
  <1>1. EvictionIInv => AlignSound
    BY DEF EvictionIInv
  <1> QED
    BY <1>1, EvictionInvariance, PTL

\* The chase leaves the mapped area only where the neighbours end, and an
\* alignment check calls nothing but a null hash in vain
\* (eviction_sets.c:87, 118, 121).
THEOREM FaultsAreOutside == Spec => []FaultsOnlyOutside
  <1>1. EvictionIInv => FaultsOnlyOutside
    BY DEF EvictionIInv
  <1> QED
    BY <1>1, EvictionInvariance, PTL

================================================================================
