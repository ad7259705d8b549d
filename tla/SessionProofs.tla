------------------------------ MODULE SessionProofs ------------------------------
(***************************************************************************)
(* The session of the tools, on any machine: its answers and verdicts, and *)
(* the theorems.                                                           *)
(*                                                                         *)
(* A verdict about a chain rests on what its walk leaves of the entry that *)
(* was primed (WalkEnds).  The prime follows a flush, so that its page is  *)
(* the only one there is; each link is then new to the caches, and makes   *)
(* the primed entry older if it shares its set (Ages), and the entry above *)
(* likewise (TopsAge).  On a nested machine the entry goes with the one    *)
(* above.  Every round of an experiment therefore ends the same way.       *)
(***************************************************************************)
EXTENDS SessionLemmas

--------------------------------------------------------------------------------
(* What the first query of a trigger finds *)

Quiet(policy) == CHOOSE n \in NoiseStates(policy) : TRUE

\* Reading a line after another.
LEMMA TouchFold ==
  ASSUME NEW policy, NEW lines, NEW n \in Nat, DOMAIN lines = 1 .. n
  PROVE  \E at : /\ Runs([of |-> "touch", policy |-> policy], Quiet(policy), lines, n, at)
                 /\ LinesTouched(policy, lines) = at[n]
  <1> DEFINE fold == [of |-> "touch", policy |-> policy]
             P(f) == f = [s \in SUBSET (1 .. n) |->
                            IF s = {} THEN Quiet(policy)
                            ELSE Touch(policy, f[s \ {Max(s)}], lines[Max(s)])]
             F == CHOOSE f : P(f)
  <1>1. LinesTouched(policy, lines) = F[1 .. n]
    BY Zenon DEF LinesTouched, Quiet, FoldLeft, MapThenFoldSet
  <1>2. \A at, x : Step(fold, at, x) = Touch(policy, at, x)
    BY DEF Step
  <1> HIDE DEF fold
  <1>3. \A f : Iterates(fold, Quiet(policy), lines, n, f) <=> P(f)
    BY <1>2 DEF Iterates
  <1>4. P(F)
    <2> HIDE DEF P
    <2> QED
      BY <1>3, IterationExists
  <1> HIDE DEF P, F
  <1> QED
    BY <1>1, <1>3, <1>4, FoldRuns DEF fold

\* Asking for a letter after another.
LEMMA FoundFold ==
  ASSUME NEW set, NEW letters, NEW n \in Nat
  PROVE  \E at : /\ Runs([of |-> "found", set |-> set, letters |-> letters], <<>>,
                         [k \in 1 .. n |-> k], n, at)
                 /\ Found(set, letters, n) = at[n]
  <1> DEFINE fold == [of |-> "found", set |-> set, letters |-> letters]
             turns == [k \in 1 .. n |-> k]
             Plus(kept, k) == IF Holds(set, letters[k])
                              THEN Append(kept, letters[k]) ELSE kept
             P(f) == f = [s \in SUBSET (1 .. n) |->
                            IF s = {} THEN <<>> ELSE Plus(f[s \ {Max(s)}], turns[Max(s)])]
             F == CHOOSE f : P(f)
  <1>1. Found(set, letters, n) = F[1 .. n]
    BY Zenon DEF Found, FoldLeft, MapThenFoldSet
  <1>2. \A at, x : Step(fold, at, x) = Plus(at, x)
    BY DEF Step
  <1> HIDE DEF fold, Plus, turns
  <1>3. \A f : Iterates(fold, <<>>, turns, n, f) <=> P(f)
    BY <1>2 DEF Iterates
  <1>4. P(F)
    <2> HIDE DEF P, turns
    <2> QED
      BY <1>3, IterationExists
  <1> HIDE DEF P, F
  <1>5. PICK at : Runs(fold, <<>>, turns, n, at) /\ F[1 .. n] = at[n]
    BY <1>3, <1>4, FoldRuns
  <1> QED
    BY <1>1, <1>5 DEF fold, turns

\* Two runs of a fold are the same as far as what they fold is.
LEMMA SameRuns ==
  ASSUME NEW fold, NEW base, NEW a, NEW b, NEW n \in Nat, NEW f, NEW g,
         Runs(fold, base, a, n, f), Runs(fold, base, b, n, g), \A k \in 1 .. n : a[k] = b[k]
  PROVE  f[n] = g[n]
  <1> DEFINE T == {k \in 0 .. n : f[k] # g[k]}
  <1>1. T = {}
    <2> SUFFICES ASSUME T # {} PROVE FALSE
      OBVIOUS
    <2>1. PICK k \in T : \A j \in T : k <= j
      <3>1. T \in SUBSET Nat
        OBVIOUS
      <3> HIDE DEF T
      <3> QED
        BY <3>1, Minimum
    <2>2. k \in 1 .. n
      BY <2>1 DEF Runs
    <2>3. k - 1 \in 0 .. n /\ ~ (k <= k - 1)
      BY <2>2
    <2>4. f[k - 1] = g[k - 1]
      BY <2>1, <2>3
    <2>5. f[k] = Step(fold, f[k - 1], a[k]) /\ g[k] = Step(fold, g[k - 1], b[k])
      BY <2>2 DEF Runs
    <2> QED
      BY <2>1, <2>2, <2>4, <2>5
  <1> QED
    BY <1>1

\* One letter more is looked for.
LEMMA FoundGrows ==
  ASSUME NEW set, NEW letters, NEW n \in Nat
  PROVE  /\ Found(set, letters, 0) = <<>>
         /\ Found(set, letters, n + 1) = IF Holds(set, letters[n + 1])
                                THEN Append(Found(set, letters, n), letters[n + 1])
                                ELSE Found(set, letters, n)
  <1> DEFINE fold == [of |-> "found", set |-> set, letters |-> letters]
  <1>1. PICK z : Runs(fold, <<>>, [k \in 1 .. 0 |-> k], 0, z) /\ Found(set, letters, 0) = z[0]
    BY FoundFold
  <1>2. PICK f : Runs(fold, <<>>, [k \in 1 .. n |-> k], n, f) /\ Found(set, letters, n) = f[n]
    BY FoundFold
  <1>3. n + 1 \in Nat
    OBVIOUS
  <1>4. PICK g : /\ Runs(fold, <<>>, [k \in 1 .. n + 1 |-> k], n + 1, g)
                 /\ Found(set, letters, n + 1) = g[n + 1]
    BY <1>3, FoundFold
  <1>5. \A at, x : Step(fold, at, x) = IF Holds(set, letters[x])
                                       THEN Append(at, letters[x]) ELSE at
    BY DEF Step
  <1> HIDE DEF fold
  <1>6. g[n + 1] = Step(fold, g[n], n + 1)
    <2>1. n + 1 \in 1 .. n + 1 /\ (n + 1) - 1 = n
      OBVIOUS
    <2> QED
      BY <1>4, <2>1 DEF Runs
  <1>7. Runs(fold, <<>>, [k \in 1 .. n + 1 |-> k], n, g)
    BY <1>4 DEF Runs
  <1>8. g[n] = f[n]
    <2>1. \A k \in 1 .. n : [k_ \in 1 .. n + 1 |-> k_][k] = [k_ \in 1 .. n |-> k_][k]
      OBVIOUS
    <2>2. PICK a, b : a = [k \in 1 .. n + 1 |-> k] /\ b = [k \in 1 .. n |-> k]
      OBVIOUS
    <2> QED
      BY <1>2, <1>7, <2>1, <2>2, SameRuns
  <1>9. Found(set, letters, 0) = <<>>
    BY <1>1 DEF Runs
  <1>10. Found(set, letters, n + 1) = Step(fold, Found(set, letters, n), n + 1)
    BY <1>2, <1>4, <1>6, <1>8
  <1> QED
    BY ONLY <1>5, <1>9, <1>10

\* The policy with the same vectors, if they are all that is known of it.
LEMMA PermutationIs ==
  ASSUME NEW policy, Permutes(policy), NEW same, same = Permutation(policy.vectors)
  PROVE  /\ Permutes(same) /\ same.vectors = policy.vectors
         /\ Positions(same) = Positions(policy) /\ NoiseStates(same) = NoiseStates(policy)
  <1>1. policy.ways \in Nat /\ policy.ways # 0 /\ policy.kind = "permutation"
    BY DEF Permutes, IsPolicy
  <1>2. /\ policy.vectors \in [Positions(policy) -> [Positions(policy) -> Positions(policy)]]
        /\ \A hit, v \in Positions(policy) : \E w \in Positions(policy) : policy.vectors[hit][w] = v
    BY VectorsAre
  <1>3. Cardinality(DOMAIN policy.vectors) = policy.ways
    <2>1. DOMAIN policy.vectors = 0 .. policy.ways - 1
      BY <1>2 DEF Positions
    <2>2. 0 \in Int /\ policy.ways - 1 \in Int
      BY <1>1
    <2>3. Cardinality(0 .. policy.ways - 1) =
            IF 0 > policy.ways - 1 THEN 0 ELSE (policy.ways - 1) - 0 + 1
      BY <2>2, FS_Interval
    <2> QED
      BY <1>1, <2>1, <2>3
  <1>4. same.kind = "permutation" /\ same.ways = policy.ways /\ same.vectors = policy.vectors
    BY <1>3 DEF Permutation
  <1>5. Positions(same) = Positions(policy)
    BY <1>4 DEF Positions
  <1>6. IsPolicy(same)
    BY <1>1, <1>2, <1>4, <1>5 DEF IsPolicy
  <1>7. NoiseStates(same) = NoiseStates(policy)
    BY <1>1, <1>4, <1>5 DEF NoiseStates
  <1> QED
    BY <1>4, <1>5, <1>6, <1>7 DEF Permutes

\* What a read does to a set that replaces by permutations.
LEMMA TouchIs ==
  ASSUME NEW policy, Permutes(policy), NEW set, IsSet(policy, set), NEW x
  PROVE  LET after == Touch(policy, set, x) IN
         /\ IsSet(policy, after)
         /\ Holds(set, x) =>
              /\ WayOf(set, x) \in Positions(policy)
              /\ \A w \in Positions(policy) :
                   after.line[w] = set.line[policy.vectors[WayOf(set, x)][w]]
         /\ ~ Holds(set, x) => \A w \in Positions(policy) :
              after.line[w] = IF w = 0 THEN x ELSE set.line[w - 1]
  <1>1. PICK after, way : after = Touch(policy, set, x) /\ way = WayOf(set, x)
    OBVIOUS
  <1>2. IsSet(policy, after)
    BY <1>1, TouchHolds DEF Permutes
  <1>3. ASSUME Holds(set, x)
        PROVE  /\ way \in Positions(policy)
               /\ \A w \in Positions(policy) : after.line[w] = set.line[policy.vectors[way][w]]
    <2>1. way \in Positions(policy)
      BY <1>1, <1>3 DEF Holds, WayOf, IsSet
    <2>2. PICK line : line = [w \in Positions(policy) |-> set.line[policy.vectors[way][w]]]
      OBVIOUS
    <2>3. after = [set EXCEPT !.line = line]
      BY <1>1, <1>3, <2>2 DEF Touch, Permutes, IsSet
    <2>4. after.line = line
      BY <2>3 DEF IsSet
    <2> QED
      BY <2>1, <2>2, <2>4
  <1>4. ASSUME ~ Holds(set, x)
        PROVE  \A w \in Positions(policy) : after.line[w] = IF w = 0 THEN x ELSE set.line[w - 1]
    <2>1. after.line = [w \in Positions(policy) |-> IF w = 0 THEN x ELSE set.line[w - 1]]
      BY <1>1, <1>4, TouchMiss
    <2> QED
      BY ONLY <2>1
  <1>5. /\ IsSet(policy, after)
        /\ Holds(set, x) => /\ way \in Positions(policy)
                            /\ \A w \in Positions(policy) :
                                 after.line[w] = set.line[policy.vectors[way][w]]
        /\ ~ Holds(set, x) => \A w \in Positions(policy) :
              after.line[w] = IF w = 0 THEN x ELSE set.line[w - 1]
    BY ONLY <1>2, <1>3, <1>4
  <1> QED
    BY ONLY <1>1, <1>5, Zenon

\* Members and letters that stand for each other.
Spell(member, letters, n) ==
  \A i, j \in 1 .. n : /\ member[i] \in Nat /\ letters[i] \in Nat
                       /\ letters[i] = letters[j] <=> member[i] = member[j]

\* Two sets with the same noise, and with lines that stand for each other.
Alike(policy, a, b, member, letters, n) ==
  /\ IsSet(policy, a) /\ IsSet(policy, b)
  /\ \A w \in Positions(policy) :
       \/ a.line[w] = b.line[w] /\ b.line[w] \notin Nat
       \/ \E i \in 1 .. n : a.line[w] = member[i] /\ b.line[w] = letters[i]

SameAt(a, x, b, y) ==
  /\ \A w \in DOMAIN a.line : a.line[w] = x <=> b.line[w] = y
  /\ Holds(a, x) <=> Holds(b, y)
  /\ WayOf(a, x) = WayOf(b, y)

\* Sets that are alike hold each letter's line at the same ways.
LEMMA AlikeLine ==
  ASSUME NEW policy, NEW member, NEW letters, NEW n \in Nat, Spell(member, letters, n),
         NEW a, NEW b, Alike(policy, a, b, member, letters, n), NEW j \in 1 .. n
  PROVE  SameAt(a, member[j], b, letters[j])
  <1>1. ASSUME NEW w \in Positions(policy)
        PROVE  a.line[w] = member[j] <=> b.line[w] = letters[j]
    BY DEF Alike, Spell
  <1>2. DOMAIN a.line = Positions(policy) /\ DOMAIN b.line = Positions(policy)
    BY DEF Alike, IsSet
  <1>3. \A w \in DOMAIN a.line : a.line[w] = member[j] <=> b.line[w] = letters[j]
    BY <1>1, <1>2
  <1>4. Holds(a, member[j]) <=> Holds(b, letters[j])
    BY <1>2, <1>3 DEF Holds
  <1>5. WayOf(a, member[j]) = WayOf(b, letters[j])
    BY <1>2, <1>3 DEF WayOf
  <1> QED
    BY <1>3, <1>4, <1>5 DEF SameAt

\* Sets that are alike stay so when the same letter is read in both.
LEMMA AlikeTouch ==
  ASSUME NEW policy, NEW same, Permutes(policy), same = Permutation(policy.vectors),
         NEW member, NEW letters, NEW n \in Nat, Spell(member, letters, n),
         NEW a, NEW b, Alike(policy, a, b, member, letters, n), NEW j \in 1 .. n
  PROVE  Alike(policy, Touch(policy, a, member[j]), Touch(same, b, letters[j]), member, letters, n)
  <1>1. /\ Permutes(same) /\ same.vectors = policy.vectors
        /\ Positions(same) = Positions(policy)
    BY PermutationIs
  <1>2. IsSet(policy, a) /\ IsSet(policy, b) /\ IsSet(same, b)
    BY <1>1 DEF Alike, IsSet
  <1>3. PICK x, y : x = Touch(policy, a, member[j]) /\ y = Touch(same, b, letters[j])
    OBVIOUS
  <1>4. IsSet(policy, x) /\ IsSet(same, y)
    BY <1>1, <1>2, <1>3, TouchIs
  <1>5. IsSet(policy, y)
    BY <1>1, <1>4 DEF IsSet
  <1>6. PICK way : way = WayOf(a, member[j])
    OBVIOUS
  <1>7. (Holds(a, member[j]) <=> Holds(b, letters[j])) /\ way = WayOf(b, letters[j])
    <2>1. SameAt(a, member[j], b, letters[j])
      BY AlikeLine
    <2> QED
      BY ONLY <1>6, <2>1, Zenon DEF SameAt
  <1> DEFINE Stand(p, q) == \/ p = q /\ q \notin Nat
                            \/ \E i \in 1 .. n : p = member[i] /\ q = letters[i]
  <1>8. \A w \in Positions(policy) : Stand(a.line[w], b.line[w])
    BY DEF Alike
  <1>9. Stand(member[j], letters[j])
    OBVIOUS
  <1>10. ASSUME NEW w \in Positions(policy) PROVE Stand(x.line[w], y.line[w])
    <2>1. CASE Holds(a, member[j])
      <3>1. /\ way \in Positions(policy) /\ x.line[w] = a.line[policy.vectors[way][w]]
            /\ y.line[w] = b.line[policy.vectors[way][w]]
        <4>1. way \in Positions(policy) /\ x.line[w] = a.line[policy.vectors[way][w]]
          BY <1>2, <1>3, <1>6, <2>1, TouchIs
        <4>2. y.line[w] = b.line[policy.vectors[way][w]]
          BY <1>1, <1>2, <1>3, <1>7, <2>1, TouchIs
        <4> QED
          BY <4>1, <4>2
      <3>2. policy.vectors[way][w] \in Positions(policy)
        BY <3>1, VectorsAre
      <3> HIDE DEF Stand
      <3> QED
        BY <1>8, <3>1, <3>2
    <2>2. CASE ~ Holds(a, member[j])
      <3>1. x.line[w] = IF w = 0 THEN member[j] ELSE a.line[w - 1]
        BY <1>2, <1>3, <2>2, TouchIs
      <3>2. y.line[w] = IF w = 0 THEN letters[j] ELSE b.line[w - 1]
        BY <1>1, <1>2, <1>3, <1>7, <2>2, TouchIs
      <3>3. w # 0 => w - 1 \in Positions(policy)
        BY DEF Positions, Permutes, IsPolicy
      <3> HIDE DEF Stand
      <3> QED
        BY <1>8, <1>9, <3>1, <3>2, <3>3
    <2> QED
      BY <2>1, <2>2
  <1>11. Alike(policy, x, y, member, letters, n)
    BY <1>4, <1>5, <1>10 DEF Alike
  <1> QED
    BY <1>3, <1>11

\* The noise leaves a permutation policy's set in one state.
LEMMA OneNoise ==
  ASSUME NEW policy, Permutes(policy), NEW noise \in NoiseStates(policy)
  PROVE  noise = Quiet(policy) /\ \A w \in Positions(policy) : noise.line[w] \notin Nat
  <1> DEFINE quiet == [line |-> [w \in Positions(policy) |-> 0 - w - 1], root |-> 0,
                       leaf |-> [side \in {0, 1} |-> 0]]
  <1>1. NoiseStates(policy) = [line : {[w \in Positions(policy) |-> 0 - w - 1]}, root : {0},
                               leaf : {[side \in {0, 1} |-> 0]}]
    BY DEF NoiseStates, Permutes
  <1>2. \A x \in NoiseStates(policy) : x = quiet
    BY <1>1
  <1>3. Quiet(policy) \in NoiseStates(policy)
    BY DEF Quiet
  <1>4. noise = quiet /\ Quiet(policy) = quiet
    BY <1>2, <1>3
  <1>5. ASSUME NEW w \in Positions(policy) PROVE noise.line[w] \notin Nat
    <2>1. noise.line[w] = 0 - w - 1 /\ w \in Nat
      BY <1>4 DEF Positions, Permutes, IsPolicy
    <2> QED
      BY <2>1
  <1> QED
    BY <1>4, <1>5

\* The set that the pages are walked into is like the one the letters touch.
LEMMA SetsAlike ==
  ASSUME NEW policy, NEW same, Permutes(policy), same = Permutation(policy.vectors),
         NEW member, NEW letters, NEW n \in Nat, Spell(member, letters, n),
         NEW noise \in NoiseStates(policy), NEW a, NEW b,
         a[0] = noise, \A k \in 1 .. n : a[k] = Touch(policy, a[k - 1], member[k]),
         b[0] = Quiet(same), \A k \in 1 .. n : b[k] = Touch(same, b[k - 1], letters[k])
  PROVE  Alike(policy, a[n], b[n], member, letters, n)
  <1> DEFINE T == {k \in 0 .. n : ~ Alike(policy, a[k], b[k], member, letters, n)}
  <1>1. T = {}
    <2> SUFFICES ASSUME T # {} PROVE FALSE
      OBVIOUS
    <2>1. PICK k \in T : \A j \in T : k <= j
      <3>1. T \in SUBSET Nat
        OBVIOUS
      <3> HIDE DEF T
      <3> QED
        BY <3>1, Minimum
    <2>2. k # 0
      <3>1. noise = Quiet(policy) /\ \A w \in Positions(policy) : noise.line[w] \notin Nat
        BY OneNoise
      <3>2. NoiseStates(same) = NoiseStates(policy)
        BY PermutationIs
      <3>3. b[0] = noise /\ a[0] = noise
        BY <3>1, <3>2 DEF Quiet
      <3>4. IsSet(policy, noise)
        BY NoiseIsSet DEF Permutes
      <3>5. Alike(policy, a[0], b[0], member, letters, n)
        BY <3>1, <3>3, <3>4 DEF Alike
      <3> QED
        BY <2>1, <3>5
    <2>3. k \in 1 .. n /\ k - 1 \in 0 .. n /\ ~ (k <= k - 1)
      BY <2>1, <2>2
    <2>4. Alike(policy, a[k - 1], b[k - 1], member, letters, n)
      BY <2>1, <2>3
    <2>5. Alike(policy, Touch(policy, a[k - 1], member[k]), Touch(same, b[k - 1], letters[k]),
                member, letters, n)
      BY <2>3, <2>4, AlikeTouch
    <2>6. a[k] = Touch(policy, a[k - 1], member[k]) /\ b[k] = Touch(same, b[k - 1], letters[k])
      BY <2>3
    <2> QED
      BY <2>1, <2>5, <2>6
  <1> QED
    BY <1>1

\* A walk of the pages keeps a member exactly if the set keeps its letter.
LEMMA WalkSpells ==
  ASSUME PagesApart, LettersApart, NEW policy, Permutes(policy),
         NEW noise \in NoiseStates(policy), NEW j \in 1 .. Len(query)
  PROVE  Survives(policy, noise, Pages, map[j].page[1])
           <=> Holds(LinesTouched(Permutation(policy.vectors), query), query[j])
  <1>1. PICK n, same : n = Len(query) /\ same = Permutation(policy.vectors)
    OBVIOUS
  <1>2. /\ n \in Nat /\ DOMAIN map = 1 .. n /\ DOMAIN query = 1 .. n
        /\ \A i \in 1 .. n : query[i] \in Nat
    BY <1>1 DEF PagesApart
  <1>3. PICK pages : pages = Pages
    OBVIOUS
  <1>4. /\ pages \in Seq(Nat \X Nat) /\ n = Len(pages)
        /\ \A i \in 1 .. n : pages[i] = map[i].page /\ map[i].page[1] \in Nat
    <2>1. \A i \in 1 .. n : map[i].page \in Nat \X Nat
      BY <1>2 DEF PagesApart
    <2>2. pages \in Seq(Nat \X Nat) /\ n = Len(pages) /\ \A i \in 1 .. n : pages[i] = map[i].page
      BY <1>2, <1>3, <2>1 DEF Pages
    <2> QED
      BY <2>1, <2>2
  <1>5. Different(pages, n)
    <2>1. \A i, k \in 1 .. n : pages[i] = pages[k] => i = k
      BY ZenonT(30), <1>2, <1>4 DEF PagesApart
    <2> QED
      BY <2>1 DEF Different
  <1>6. PICK a : Touching(policy, noise, pages, n, a) /\ AfterWalk(policy, noise, pages) = a[n]
    <2>1. PICK S : S = Nat \X Nat
      OBVIOUS
    <2>2. pages \in Seq(S) /\ n = Len(pages) /\ Different(pages, n)
      BY <1>4, <1>5, <2>1
    <2> QED
      BY ONLY <2>2, DistinctWalk
  <1>7. PICK b : /\ Runs([of |-> "touch", policy |-> same], Quiet(same), query, n, b)
                 /\ LinesTouched(same, query) = b[n]
    BY <1>2, TouchFold
  <1>8. b[0] = Quiet(same) /\ \A k \in 1 .. n : b[k] = Touch(same, b[k - 1], query[k])
    BY <1>7 DEF Runs, Step
  <1>9. PICK member : member = [i \in 1 .. n |-> map[i].page[1]]
    OBVIOUS
  <1>10. a[0] = noise /\ \A k \in 1 .. n : a[k] = Touch(policy, a[k - 1], member[k])
    BY <1>4, <1>6, <1>9 DEF Touching
  <1>11. Spell(member, query, n)
    <2>1. \A i, k \in 1 .. n : query[i] = query[k] <=> map[i].page[1] = map[k].page[1]
      BY <1>2 DEF LettersApart
    <2> QED
      BY <1>2, <1>4, <1>9, <2>1 DEF Spell
  <1>12. Alike(policy, a[n], b[n], member, query, n)
    BY <1>1, <1>2, <1>8, <1>10, <1>11, SetsAlike
  <1>13. SameAt(a[n], member[j], b[n], query[j])
    <2>1. j \in 1 .. n
      BY <1>1
    <2> QED
      BY <1>2, <1>11, <1>12, <2>1, AlikeLine
  <1>14. member[j] = map[j].page[1]
    BY <1>1, <1>9
  <1> QED
    BY <1>1, <1>3, <1>6, <1>7, <1>13, <1>14 DEF SameAt, Survives

\* One letter more has been measured.
LEMMA MeasuringAnswers ==
  ASSUME LateInv, QueryInv, AnswerInv, asked = 1, MeasureLetter
  PROVE  /\ LettersApart' /\ asking' = "letters"
         /\ letter' \in 1 .. Len(UniqueLetters(query')) + 1
         /\ machine'.policy.kind = "permutation" =>
              (state = Predicted(machine.policy.vectors, letter - 1))'
  <1>1. /\ UNCHANGED <<machine, query, map, asked>> /\ asking = "letters"
        /\ letter <= Len(UniqueLetters(query))
        /\ \A n \in DOMAIN Pages : IsMapped(Pages[n])
    BY DEF MeasureLetter
  <1>2. /\ PagesApart /\ ChainKept /\ LettersApart
        /\ machine.policy.kind = "permutation" =>
             state = Predicted(machine.policy.vectors, letter - 1)
    BY <1>1 DEF QueryInv, AnswerInv
  <1>3. PICK unique : unique = UniqueLetters(query)
    OBVIOUS
  <1>4. /\ unique \in Seq(Nat) /\ Len(unique) \in Nat /\ ToSet(unique) = ToSet(query)
        /\ letter \in 1 .. Len(unique) /\ letter \in Nat \ {0}
    <2>1. query \in Seq(Nat)
      BY <1>2 DEF PagesApart
    <2>2. unique \in Seq(Nat) /\ ToSet(unique) = ToSet(query)
      BY <1>3, <2>1, UniqueLettersAre
    <2>3. letter \in Nat \ {0} /\ letter <= Len(unique)
      BY <1>1, <1>3 DEF QueryInv
    <2> QED
      BY <2>2, <2>3
  <1>5. PICK j \in 1 .. Len(query) : query[j] = unique[letter] /\ TargetPage[1] = map[j].page[1]
    <2>1. unique[letter] \in ToSet(query) /\ DOMAIN query = 1 .. Len(query) /\ Len(query) \in Nat
      <3>1. DOMAIN query = 1 .. Len(query) /\ Len(query) \in Nat
        BY <1>2 DEF PagesApart
      <3>2. unique[letter] \in ToSet(unique)
        BY <1>4 DEF ToSet
      <3> QED
        BY <1>4, <3>1, <3>2
    <2>2. PICK i \in 1 .. Len(query) : query[i] = unique[letter]
      BY <2>1 DEF ToSet
    <2>3. PICK uses : uses = Uses(map, unique[letter])
      OBVIOUS
    <2>4. /\ uses = {k \in 1 .. Len(query) : query[k] = unique[letter]}
          /\ uses # {} /\ uses \in SUBSET Nat
      <3>1. DOMAIN map = 1 .. Len(query) /\ \A k \in 1 .. Len(query) : map[k].letter = query[k]
        BY <1>2 DEF LettersApart
      <3>2. uses = {k \in 1 .. Len(query) : query[k] = unique[letter]}
        BY <2>3, <3>1 DEF Uses
      <3> QED
        BY <2>2, <3>2
    <2>5. Min(uses) \in uses
      BY <2>4, LeastIs
    <2>6. TargetPage = map[Min(uses)].page
      BY <1>3, <2>3 DEF TargetPage
    <2> QED
      BY <2>4, <2>5, <2>6
  <1>6. PICK kept \in {<<tlb, stale>>, <<{}, stale>>, <<tlb, {}>>},
             noise \in NoiseStates(machine.policy) :
          LET written == ChainWritten(kept[1], kept[2])
              walk == ChaseTo(written, Pages[1], PrefixPage)
          IN  walk # <<>> =>
                /\ letter' = letter + 1 /\ asking' = asking
                /\ state' = IF ~ Survives(machine.policy, noise, walk, TargetPage[1]) THEN state
                            ELSE Append(state, UniqueLetters(query)[letter])
    BY DEF MeasureLetter
  <1>7. Len(query) # 0
    BY <1>5
  <1>8. PICK written : written = ChainWritten(kept[1], kept[2])
    OBVIOUS
  <1>9. ChaseTo(written, Pages[1], PrefixPage) = Pages /\ Pages # <<>>
    BY <1>1, <1>2, <1>7, <1>8, ChainIsWhole
  <1>10. /\ letter' = letter + 1 /\ asking' = "letters"
         /\ state' = IF ~ Survives(machine.policy, noise, Pages, map[j].page[1]) THEN state
                     ELSE Append(state, unique[letter])
    BY <1>1, <1>3, <1>5, <1>6, <1>8, <1>9
  <1>11. LettersApart' /\ UniqueLetters(query') = unique
    BY <1>1, <1>2, <1>3 DEF LettersApart
  <1>12. ASSUME machine'.policy.kind = "permutation"
         PROVE  (state = Predicted(machine.policy.vectors, letter - 1))'
    <2>1. Permutes(machine.policy)
      BY <1>1, <1>12, SessionAssumption DEF LateInv, QueryInv, Permutes
    <2>2. PICK set : set = LinesTouched(Permutation(machine.policy.vectors), query)
      OBVIOUS
    <2>3. Survives(machine.policy, noise, Pages, map[j].page[1]) <=> Holds(set, unique[letter])
      BY <1>2, <1>5, <2>1, <2>2, WalkSpells
    <2>4. state = Found(set, unique, letter - 1)
      BY <1>1, <1>2, <1>3, <1>12, <2>2 DEF Predicted
    <2>5. Found(set, unique, letter) = IF Holds(set, unique[letter])
                               THEN Append(Found(set, unique, letter - 1), unique[letter])
                               ELSE Found(set, unique, letter - 1)
      <3>1. letter - 1 \in Nat /\ (letter - 1) + 1 = letter
        BY <1>4
      <3> QED
        BY <1>3, <3>1, FoundGrows
    <2>6. state' = Found(set, unique, letter)
      BY <1>10, <2>3, <2>4, <2>5
    <2>7. Predicted(machine.policy.vectors, letter - 1)' = Found(set, unique, letter)
      <3>1. letter' - 1 = letter
        BY <1>4, <1>10
      <3> QED
        BY <1>1, <1>11, <2>2, <3>1 DEF Predicted
    <2> QED
      BY <2>6, <2>7
  <1>13. letter' \in 1 .. Len(unique) + 1
    BY <1>4, <1>10
  <1> QED
    BY <1>10, <1>11, <1>12, <1>13

\* Before the first query there is no answer.
LEMMA AnswerStart ==
  ASSUME Init
  PROVE  AnswerInv
  BY DEF Init, QueryInit, AnswerInv

\* The vectors of the first level stay the first that are printed, and are
\* compared only if no leftover address was found in memory.
LEMMA PrintedIsKept ==
  ASSUME CrashInv, PrintedInv, AnswerInv, [Next]_sessionVars
  PROVE  stage' \in {"upper", "late", "query"} => 1 \in DOMAIN printed' /\ ~ printed'[1].leftover
  <1> SUFFICES ASSUME stage' \in {"upper", "late", "query"}
               PROVE  1 \in DOMAIN printed' /\ ~ printed'[1].leftover
    OBVIOUS
  <1>1. CASE EvaluateReplacementPolicy /\ step = "done"
    <2>1. PICK record : record = [vectors |-> vectors, leftover |-> leftover]
      OBVIOUS
    <2>2. printed' = Append(printed, record) /\ ~ leftover /\ stage \in {"lower", "upper"}
      BY <1>1, <2>1 DEF EvaluateReplacementPolicy, CrashInv
    <2>3. CASE stage = "lower"
      <3>1. printed' = <<record>>
        BY <2>2, <2>3 DEF PrintedInv
      <3> QED
        BY <2>1, <2>2, <3>1
    <2>4. CASE stage = "upper"
      <3>1. PICK first : first = printed[1]
        OBVIOUS
      <3>2. printed = <<first>>
        BY <2>4, <3>1 DEF PrintedInv
      <3>3. printed' = <<first, record>> /\ ~ first.leftover
        BY <2>2, <2>4, <3>1, <3>2, AppendOne DEF AnswerInv
      <3> QED
        BY <3>3
    <2> QED
      BY <2>2, <2>3, <2>4
  <1>2. CASE EvaluateReplacementPolicy /\ step # "done"
    <2>1. printed' = printed /\ (stage' = stage \/ stage' = "crashed")
      BY <1>2 DEF EvaluateReplacementPolicy
    <2> QED
      BY <2>1 DEF AnswerInv
  <1>3. CASE SetupLevels
    BY <1>3 DEF SetupLevels
  <1>4. CASE LateEvaluations \/ StartCacheQuery \/ Query \/ UNCHANGED sessionVars
    <2>1. printed' = printed /\ stage \in {"upper", "late", "query"}
      BY <1>4 DEF LateEvaluations, StartCacheQuery, Query, sessionVars
    <2> QED
      BY <2>1 DEF AnswerInv
  <1> QED
    BY <1>1, <1>2, <1>3, <1>4 DEF Next

\* Every step of a query keeps what is known of its answer.
LEMMA AnswerIsInvariant ==
  ASSUME LateInv, CrashInv, PrintedInv, QueryInv, AnswerInv, [Next]_sessionVars
  PROVE  AnswerInv'
  <1>1. stage' \in {"upper", "late", "query"} => 1 \in DOMAIN printed' /\ ~ printed'[1].leftover
    BY PrintedIsKept
  <1>2. CASE UNCHANGED queryVars
    <2>1. asked # 0 => stage' = "query"
      <3>1. asked # 0 => stage = "query"
        BY DEF AnswerInv
      <3> QED
        BY <3>1 DEF Next, sessionVars, SetupLevels, EvaluateReplacementPolicy, LateEvaluations,
                    StartCacheQuery, Query
    <2>2. LettersApart' = LettersApart
      BY <1>2 DEF LettersApart, queryVars
    <2>3. (state = Predicted(machine.policy.vectors, letter - 1))'
            = (state = Predicted(machine.policy.vectors, letter - 1))
      BY <1>2 DEF Predicted, queryVars
    <2> QED
      BY <1>1, <1>2, <2>1, <2>2, <2>3 DEF AnswerInv, queryVars
  <1>3. CASE Query
    <2>1. stage' = "query"
      BY <1>3 DEF Query
    <2>2. ASSUME NEW text \in Texts, NEW start \in QueryStarts, ReadQuery(text, start)
          PROVE  AnswerInv'
      <3>1. /\ query' = text /\ map' = AddressMap(text, start) /\ letter' = 1 /\ state' = <<>>
            /\ asking' = "letters"
        BY <2>2 DEF ReadQuery
      <3>2. text \in Seq(Nat) /\ start \in Nat
        BY SessionAssumption
      <3>3. LettersApart'
        <4>1. PICK entries_ : entries_ = AddressMap(text, start)
          OBVIOUS
        <4>2. /\ Apart(entries_, start) /\ Len(entries_) = Len(text)
              /\ \A i \in 1 .. Len(text) : entries_[i].letter = text[i]
          BY <3>2, <4>1, MapIsApart
        <4>3. DOMAIN entries_ = 1 .. Len(text)
          BY <4>2 DEF Apart
        <4>4. \A m, n \in 1 .. Len(text) :
                text[m] = text[n] <=> entries_[m].page[1] = entries_[n].page[1]
          BY <4>2 DEF Apart
        <4> QED
          BY <3>1, <4>1, <4>2, <4>3, <4>4 DEF LettersApart
      <3>4. letter' \in 1 .. Len(UniqueLetters(query')) + 1
        <4>1. UniqueLetters(text) \in Seq(Nat)
          BY <3>2, UniqueLettersAre
        <4>2. Len(UniqueLetters(text)) \in Nat
          BY <4>1
        <4> QED
          BY <3>1, <4>2
      <3>5. (state = Predicted(machine.policy.vectors, letter - 1))'
        <4>1. letter' - 1 = 0
          BY <3>1
        <4>2. 0 \in Nat
          OBVIOUS
        <4> QED
          BY <3>1, <4>1, <4>2, FoundGrows DEF Predicted
      <3> QED
        BY <1>1, <2>1, <3>1, <3>3, <3>4, <3>5 DEF AnswerInv
    <2>3. CASE QueryFaults
      <3>1. asking' = "lost"
        BY <2>3 DEF QueryFaults
      <3> QED
        BY <1>1, <2>1, <3>1 DEF AnswerInv
    <2>4. CASE MeasureLetter
      <3>1. asked' = asked
        BY <2>4 DEF MeasureLetter
      <3>2. asked = 1 => /\ LettersApart' /\ asking' = "letters"
                         /\ letter' \in 1 .. Len(UniqueLetters(query')) + 1
                         /\ machine'.policy.kind = "permutation" =>
                              (state = Predicted(machine.policy.vectors, letter - 1))'
        BY <2>4, MeasuringAnswers
      <3> QED
        BY <1>1, <2>1, <3>1, <3>2 DEF AnswerInv
    <2>5. CASE ReturnState
      <3>1. /\ asking = "letters" /\ asking' = "idle" /\ letter > Len(UniqueLetters(query))
            /\ UNCHANGED <<machine, query, map, letter, state, asked>>
        BY <2>5 DEF ReturnState
      <3>2. LettersApart' = LettersApart
        BY <3>1 DEF LettersApart
      <3>3. Predicted(machine.policy.vectors, letter - 1)'
              = Predicted(machine.policy.vectors, letter - 1)
        BY <3>1 DEF Predicted
      <3>4. ASSUME asked = 1 PROVE letter = Len(UniqueLetters(query)) + 1
        <4>1. UniqueLetters(query) \in Seq(Nat)
          BY <3>1, <3>4, UniqueLettersAre DEF QueryInv, PagesApart
        <4>2. Len(UniqueLetters(query)) \in Nat
          BY <4>1
        <4>3. letter \in 1 .. Len(UniqueLetters(query)) + 1
          BY <3>1, <3>4 DEF AnswerInv
        <4> QED
          BY <3>1, <4>2, <4>3
      <3> QED
        BY <1>1, <2>1, <3>1, <3>2, <3>3, <3>4 DEF AnswerInv
    <2> QED
      BY <1>3, <2>2, <2>3, <2>4, <2>5 DEF Query, QueryStep
  <1>4. CASE ~ Query
    <2>1. UNCHANGED queryVars
      BY <1>4 DEF Next, sessionVars, SetupLevels, EvaluateReplacementPolicy, LateEvaluations,
                  StartCacheQuery
    <2> QED
      BY <1>2, <2>1
  <1> QED
    BY <1>3, <1>4

\* What is found is what the vectors predict: the vectors printed are those of
\* the machine whose set is queried.
LEMMA AnswersAre ==
  ASSUME LateInv, PrintedInv, QueryInv, AnswerInv
  PROVE  ToolsAgree
  <1> SUFFICES ASSUME asked = 1, Answered, FirstHitKeeps(machine.policy),
                      machine.reach >= 2 * machine.policy.ways
               PROVE  state = Predicted(printed[1].vectors, Len(UniqueLetters(query)))
    BY DEF ToolsAgree, AnswersAgree
  <1>1. stage = "query" /\ asking = "idle" /\ 1 \in DOMAIN printed /\ ~ printed[1].leftover
    BY DEF AnswerInv, Answered
  <1>2. machine = host.lower /\ machine.policy.kind = "permutation"
    BY DEF QueryInv, FirstHitKeeps
  <1>3. printed[1].vectors = machine.policy.vectors
    BY <1>1, <1>2 DEF PrintedInv, VectorsSound, Level
  <1>4. /\ letter = Len(UniqueLetters(query)) + 1
        /\ state = Predicted(machine.policy.vectors, letter - 1)
    BY <1>1, <1>2 DEF AnswerInv
  <1>5. letter - 1 = Len(UniqueLetters(query))
    BY <1>1, <1>4 DEF AnswerInv
  <1> QED
    BY <1>3, <1>4, <1>5

--------------------------------------------------------------------------------
(* The levels and the huge TLB during a walk *)

Top(entry) == entry \div Fan
UpperSet(top) == top % host.upper.sets

\* The level above, the huge TLB and the entries above.
LEMMA UpperIs ==
  ASSUME host \in Hosts
  PROVE  /\ IsPolicy(host.upper.policy) /\ host.upper.policy.ways \in Nat \ {0}
         /\ host.upper.sets \in Nat /\ host.upper.sets > 0
         /\ host.hugeEntries \in Nat \ {0} /\ Fan \in Nat /\ Fan > 0
         /\ \A entry \in Nat : Top(entry) \in Nat
         /\ \A top \in Nat : UpperSet(top) \in 0 .. host.upper.sets - 1
  <1>1. /\ IsPolicy(host.upper.policy) /\ host.upper.policy.ways \in Nat \ {0}
        /\ host.hugeEntries \in Nat \ {0}
    BY SessionAssumption DEF IsPolicy
  <1>2. PICK sets, fan : sets = host.upper.sets /\ fan = Fan
    OBVIOUS
  <1>3. sets \in Nat /\ sets > 0 /\ fan \in Nat /\ fan > 0
    BY <1>2, SessionAssumption, LateAssumption
  <1>4. \A entry \in Nat : entry \div fan \in Nat
    BY <1>3
  <1>5. \A top \in Nat : top % sets \in 0 .. sets - 1
    BY <1>3
  <1> QED
    BY <1>1, <1>2, <1>3, <1>4, <1>5 DEF Top, UpperSet

\* An LRU set is one whose vectors are permutations.
LEMMA LruIs ==
  ASSUME NEW ways \in Nat \ {0}
  PROVE  Permutes(Lru(ways)) /\ Lru(ways).ways = ways
  <1> DEFINE after(hit, w) == IF w = 0 THEN hit ELSE IF w <= hit THEN w - 1 ELSE w
             orders == [hit \in 0 .. ways - 1 |-> [w \in 0 .. ways - 1 |-> after(hit, w)]]
  <1>1. Lru(ways) = Permutation(orders)
    BY DEF Lru
  <1>2. DOMAIN orders = 0 .. ways - 1
    OBVIOUS
  <1>3. Cardinality(0 .. ways - 1) = ways
    <2>1. Cardinality(0 .. ways - 1) = IF 0 > ways - 1 THEN 0 ELSE (ways - 1) - 0 + 1
      BY FS_Interval
    <2> QED
      BY <2>1
  <1>4. /\ Lru(ways).kind = "permutation" /\ Lru(ways).ways = ways /\ Lru(ways).vectors = orders
    <2> HIDE DEF orders
    <2> QED
      BY <1>1, <1>2, <1>3 DEF Permutation
  <1>5. Positions(Lru(ways)) = 0 .. ways - 1
    BY <1>4 DEF Positions
  <1>6. \A hit, w \in 0 .. ways - 1 : after(hit, w) \in 0 .. ways - 1
    OBVIOUS
  <1>7. orders \in [0 .. ways - 1 -> [0 .. ways - 1 -> 0 .. ways - 1]]
    BY <1>6
  <1>8. ASSUME NEW hit \in 0 .. ways - 1, NEW v \in 0 .. ways - 1
        PROVE  \E w \in 0 .. ways - 1 : orders[hit][w] = v
    <2> DEFINE w == IF v = hit THEN 0 ELSE IF v < hit THEN v + 1 ELSE v
    <2>1. w \in 0 .. ways - 1 /\ after(hit, w) = v
      OBVIOUS
    <2>2. orders[hit][w] = after(hit, w)
      BY <2>1
    <2> QED
      BY <2>1, <2>2
  <1>9. PICK policy : policy = Lru(ways)
    OBVIOUS
  <1>10. /\ policy.ways = ways /\ policy.kind = "permutation" /\ Positions(policy) = 0 .. ways - 1
         /\ policy.vectors \in [0 .. ways - 1 -> [0 .. ways - 1 -> 0 .. ways - 1]]
         /\ \A hit, v \in 0 .. ways - 1 : \E w \in 0 .. ways - 1 : policy.vectors[hit][w] = v
    <2> HIDE DEF orders
    <2> QED
      BY <1>4, <1>5, <1>7, <1>8, <1>9
  <1>11. policy.ways \in Nat \ {0}
    BY <1>10
  <1>12. policy.vectors \in [Positions(policy) -> [Positions(policy) -> Positions(policy)]]
    BY Zenon, <1>10
  <1>13. \A hit, v \in Positions(policy) : \E w \in Positions(policy) : policy.vectors[hit][w] = v
    <2> TAKE hit, v \in Positions(policy)
    <2>1. hit \in 0 .. ways - 1 /\ v \in 0 .. ways - 1
      BY <1>10
    <2>2. PICK w \in 0 .. ways - 1 : policy.vectors[hit][w] = v
      BY <1>10, <2>1
    <2> QED
      BY <1>10, <2>2
  <1>14. Permutes(policy)
    BY Zenon, <1>10, <1>11, <1>12, <1>13 DEF Permutes, IsPolicy
  <1> QED
    BY <1>9, <1>10, <1>14

Below(line, gone) == line[1] # -1 /\ <<line[1], line[2] \div Fan>> \in gone

\* What is dropped leaves ways that hold no line; nothing moves.
LEMMA Thinned ==
  ASSUME NEW policy, NEW set, IsSet(policy, set), NEW gone
  PROVE  LET x == WithoutBelow(set, gone)
         IN  /\ IsSet(policy, x)
             /\ \A w \in Positions(policy) :
                  x.line[w] = IF Below(set.line[w], gone) THEN NoLine(w) ELSE set.line[w]
  <1> DEFINE line == [w \in DOMAIN set.line |-> IF Below(set.line[w], gone) THEN NoLine(w)
                                                ELSE set.line[w]]
             x == WithoutBelow(set, gone)
  <1>1. x = [set EXCEPT !.line = line]
    BY DEF WithoutBelow, Below
  <1>2. DOMAIN line = Positions(policy)
    BY DEF IsSet
  <1>3. \A w \in Positions(policy) :
          line[w] = IF Below(set.line[w], gone) THEN NoLine(w) ELSE set.line[w]
    BY <1>2
  <1> HIDE DEF line, x
  <1>4. x.line = line /\ IsSet(policy, x)
    BY <1>1, <1>2 DEF IsSet
  <1> QED
    BY <1>3, <1>4 DEF x

UpperAfter(m, entry) ==
  Touch(host.upper.policy, m.upper[UpperSet(Top(entry))], <<Tag(m.pcid), Top(entry)>>)
Gone(m, entry) ==
  IF host.nested
  THEN ToSet(m.upper[UpperSet(Top(entry))].line) \ ToSet(UpperAfter(m, entry).line) ELSE {}

IsWhole(m) == IsMmu(m) /\ IsLower(m) /\ IsUpper(m)

\* An entry of the level above is used; what it pushes out takes those below along.
LEMMA UseUpperIs ==
  ASSUME host \in Hosts, NEW m, IsWhole(m), NEW entry \in Nat
  PROVE  LET x == UseUpper(m, entry)
         IN  /\ IsWhole(x) /\ x.huge = m.huge /\ x.tlb = m.tlb /\ x.swapped = m.swapped
             /\ x.wrong = m.wrong /\ x.pcid = m.pcid
             /\ x.upper = [m.upper EXCEPT ![UpperSet(Top(entry))] = UpperAfter(m, entry)]
             /\ x.lower = [l \in DOMAIN m.lower |-> WithoutBelow(m.lower[l], Gone(m, entry))]
  <1> DEFINE s == UpperSet(Top(entry))
             after == UpperAfter(m, entry)
             gone == Gone(m, entry)
             lower == [l \in DOMAIN m.lower |-> WithoutBelow(m.lower[l], gone)]
             upper == [m.upper EXCEPT ![s] = after]
             x == UseUpper(m, entry)
  <1>1. x = [m EXCEPT !.lower = lower, !.upper[s] = after]
    BY DEF UseUpper, UpperSet, Top, UpperAfter, Gone
  <1>2. s \in DOMAIN m.upper /\ IsSet(host.upper.policy, after)
    <2>1. s \in 0 .. host.upper.sets - 1
      BY UpperIs
    <2>2. s \in DOMAIN m.upper /\ IsSet(host.upper.policy, m.upper[s])
      BY <2>1 DEF IsWhole, IsUpper
    <2> QED
      BY <2>2, UpperIs, TouchHolds DEF UpperAfter
  <1>3. \A l \in DOMAIN m.lower : IsSet(host.lower.policy, lower[l])
    <2> TAKE l \in DOMAIN m.lower
    <2>1. PICK set : set = m.lower[l]
      OBVIOUS
    <2>2. IsSet(host.lower.policy, set)
      BY <2>1 DEF IsWhole, IsLower
    <2> HIDE DEF gone
    <2>3. lower[l] = WithoutBelow(set, gone)
      BY <2>1
    <2> QED
      BY <2>2, <2>3, Thinned
  <1>4. DOMAIN lower = DOMAIN m.lower
    OBVIOUS
  <1> HIDE DEF s, after, gone, lower, x
  <1>5. /\ IsMmu(x) /\ x.lower = lower /\ x.upper = upper /\ x.huge = m.huge /\ x.tlb = m.tlb
        /\ x.swapped = m.swapped /\ x.wrong = m.wrong /\ x.pcid = m.pcid
    BY <1>1 DEF IsWhole, IsMmu
  <1>6. IsLower(x)
    BY <1>3, <1>4, <1>5 DEF IsWhole, IsLower
  <1>7. IsUpper(x)
    BY <1>2, <1>5 DEF IsWhole, IsUpper
  <1> QED
    BY <1>5, <1>6, <1>7 DEF IsWhole, s, after, gone, lower, x

\* A translation goes into the huge TLB, or into the lower level.
LEMMA EnterIs ==
  ASSUME host \in Hosts, NEW m, IsWhole(m), NEW entry \in Nat
  PROVE  LET x == Enter(m, entry)
         IN  /\ IsWhole(x) /\ x.upper = m.upper /\ x.tlb = m.tlb /\ x.swapped = m.swapped
             /\ x.wrong = m.wrong /\ x.pcid = m.pcid
             /\ InHugeTlb(entry) =>
                  /\ x.lower = m.lower
                  /\ x.huge = Touch(Lru(host.hugeEntries), m.huge, Key(m, entry))
             /\ ~ InHugeTlb(entry) =>
                  /\ x.huge = m.huge
                  /\ x.lower = [m.lower EXCEPT ![entry % host.lower.sets] =
                                  Touch(host.lower.policy, @, Key(m, entry))]
  <1>1. PICK x, key : x = Enter(m, entry) /\ key = Key(m, entry)
    OBVIOUS
  <1>2. CASE InHugeTlb(entry)
    <2>1. PICK policy, after : policy = Lru(host.hugeEntries) /\ after = Touch(policy, m.huge, key)
      OBVIOUS
    <2>2. x = [m EXCEPT !.huge = after]
      BY <1>1, <1>2, <2>1 DEF Enter, IsWhole, IsMmu
    <2>3. /\ IsMmu(x) /\ x.huge = after /\ x.lower = m.lower /\ x.upper = m.upper /\ x.tlb = m.tlb
          /\ x.swapped = m.swapped /\ x.wrong = m.wrong /\ x.pcid = m.pcid
      BY <2>2 DEF IsWhole, IsMmu
    <2>4. IsSet(policy, after)
      <3>1. IsPolicy(policy)
        BY <2>1, LruIs, UpperIs DEF Permutes
      <3>2. IsSet(policy, m.huge)
        BY <2>1 DEF IsWhole, IsUpper
      <3> QED
        BY <2>1, <3>1, <3>2, TouchHolds
    <2>5. IsLower(x) /\ IsUpper(x)
      BY <2>1, <2>3, <2>4 DEF IsWhole, IsLower, IsUpper
    <2> QED
      BY <1>1, <1>2, <2>1, <2>3, <2>5 DEF IsWhole
  <1>3. CASE ~ InHugeTlb(entry)
    <2>1. PICK s : s = entry % host.lower.sets
      OBVIOUS
    <2>2. s \in DOMAIN m.lower
      <3>1. host.lower.sets \in Nat /\ host.lower.sets > 0
        BY HostIs
      <3>2. s \in 0 .. host.lower.sets - 1
        BY <2>1, <3>1
      <3> QED
        BY <3>2 DEF IsWhole, IsLower
    <2>3. PICK after : after = Touch(host.lower.policy, m.lower[s], key)
      OBVIOUS
    <2>4. IsSet(host.lower.policy, after)
      <3>1. IsSet(host.lower.policy, m.lower[s]) /\ IsPolicy(host.lower.policy)
        BY <2>2, HostIs DEF IsWhole, IsLower
      <3> QED
        BY <2>3, <3>1, TouchHolds
    <2>5. x = [m EXCEPT !.lower = [m.lower EXCEPT ![s] = after]]
      BY <1>1, <1>3, <2>1, <2>3 DEF Enter, IsWhole, IsMmu
    <2>6. /\ IsMmu(x) /\ x.lower = [m.lower EXCEPT ![s] = after] /\ x.upper = m.upper
          /\ x.huge = m.huge /\ x.tlb = m.tlb
          /\ x.swapped = m.swapped /\ x.wrong = m.wrong /\ x.pcid = m.pcid
      BY <2>5 DEF IsWhole, IsMmu
    <2>7. IsLower(x) /\ IsUpper(x)
      BY <2>4, <2>6 DEF IsWhole, IsLower, IsUpper
    <2> QED
      BY <1>1, <1>3, <2>1, <2>3, <2>6, <2>7 DEF IsWhole
  <1> QED
    BY <1>2, <1>3

\* A page that no cache knows, of an entry that has not been switched.
IsNew(m, pg) ==
  /\ ~ \E t \in m.tlb : t.pcid = m.pcid /\ t.page = pg
  /\ ~ Holds(SetAt(m, pg[1]), Key(m, pg[1]))
  /\ m.swapped # pg[1]

Thin(m, entry) == [l \in DOMAIN m.lower |-> WithoutBelow(m.lower[l], Gone(m, entry))]

\* What reading it changes.
Fills(m, x, pg, entry) ==
  /\ IsWhole(x) /\ x.swapped = m.swapped /\ x.pcid = m.pcid
  /\ x.wrong = m.wrong \ {Key(m, entry)}
  /\ \A t \in x.tlb : t \in m.tlb \/ (t.page = pg /\ ~ IsHuge(entry))
  /\ x.upper = [m.upper EXCEPT ![UpperSet(Top(entry))] = UpperAfter(m, entry)]
  /\ InHugeTlb(entry) =>
       /\ x.lower = Thin(m, entry)
       /\ x.huge = Touch(Lru(host.hugeEntries), m.huge, Key(m, entry))
  /\ ~ InHugeTlb(entry) =>
       /\ x.huge = m.huge
       /\ x.lower = [Thin(m, entry) EXCEPT ![entry % host.lower.sets] =
                       Touch(host.lower.policy, @, Key(m, entry))]

\* The read of a new page fills the TLB and both levels.
LEMMA NewReadIs ==
  ASSUME host \in Hosts, NEW m, IsWhole(m), NEW pg, NEW entry \in Nat, pg[1] = entry, IsNew(m, pg)
  PROVE  Fills(m, AccessPage(m, pg), pg, entry)
  <1>1. PICK x, key, used, filled, swapped :
          /\ x = AccessPage(m, pg) /\ key = Key(m, entry) /\ used = UseUpper(m, entry)
          /\ filled = Enter(used, entry) /\ swapped = Swapped(m, pg)
    OBVIOUS
  <1>2. ~ swapped /\ swapped \in BOOLEAN
    <2>1. {t \in m.tlb : t.pcid = m.pcid /\ t.page = pg} = {}
      BY DEF IsNew
    <2>2. swapped = (m.swapped = entry)
      BY <1>1, <2>1 DEF Swapped, IsNew
    <2> QED
      BY <2>2 DEF IsNew
  <1>3. PICK known : known = [pcid |-> m.pcid, page |-> pg, swapped |-> swapped]
    OBVIOUS
  <1>4. /\ IsHuge(entry) => x = [filled EXCEPT !.wrong = m.wrong \ {key}]
        /\ ~ IsHuge(entry) => x = [filled EXCEPT !.wrong = m.wrong \ {key}, !.tlb = @ \cup {known}]
    BY <1>1, <1>2, <1>3 DEF AccessPage, IsNew
  <1>5. /\ IsWhole(used) /\ used.huge = m.huge /\ used.tlb = m.tlb /\ used.swapped = m.swapped
        /\ used.wrong = m.wrong /\ used.pcid = m.pcid
        /\ used.upper = [m.upper EXCEPT ![UpperSet(Top(entry))] = UpperAfter(m, entry)]
        /\ used.lower = Thin(m, entry)
    BY <1>1, UseUpperIs DEF Thin
  <1>6. Key(used, entry) = key
    BY <1>1, <1>5 DEF Key
  <1>7. /\ IsWhole(filled) /\ filled.upper = used.upper /\ filled.tlb = used.tlb
        /\ filled.swapped = used.swapped /\ filled.wrong = used.wrong /\ filled.pcid = used.pcid
        /\ InHugeTlb(entry) =>
             filled.lower = used.lower /\ filled.huge = Touch(Lru(host.hugeEntries), used.huge, key)
        /\ ~ InHugeTlb(entry) =>
             /\ filled.huge = used.huge
             /\ filled.lower = [used.lower EXCEPT ![entry % host.lower.sets] =
                                  Touch(host.lower.policy, @, key)]
    BY <1>1, <1>5, <1>6, EnterIs
  <1>8. /\ IsMmu(x) /\ x.lower = filled.lower /\ x.upper = filled.upper /\ x.huge = filled.huge
        /\ x.swapped = filled.swapped /\ x.pcid = filled.pcid /\ x.wrong = m.wrong \ {key}
        /\ x.tlb = filled.tlb \/ (~ IsHuge(entry) /\ x.tlb = filled.tlb \cup {known})
    BY <1>4, <1>7 DEF IsWhole, IsMmu
  <1>9. IsWhole(x)
    BY <1>7, <1>8 DEF IsWhole, IsLower, IsUpper
  <1>10. \A t \in x.tlb : t \in m.tlb \/ (t.page = pg /\ ~ IsHuge(entry))
    BY <1>3, <1>5, <1>7, <1>8
  <1>11. Fills(m, x, pg, entry)
    BY <1>1, <1>5, <1>7, <1>8, <1>9, <1>10 DEF Fills
  <1> QED
    BY <1>1, <1>11

\* Any read leaves sets that are well formed.
LEMMA ReadIsWhole ==
  ASSUME host \in Hosts, NEW m, IsWhole(m), NEW pg, pg[1] \in Nat
  PROVE  IsWhole(AccessPage(m, pg)) /\ AccessPage(m, pg).pcid = m.pcid
  <1> DEFINE entry == pg[1]
             key == Key(m, entry)
             used == IF Holds(SetAt(m, entry), key) THEN m ELSE UseUpper(m, entry)
             filled == Enter(used, entry)
             wrong == IF Swapped(m, pg) THEN m.wrong \cup {key} ELSE m.wrong \ {key}
             known == [pcid |-> m.pcid, page |-> pg, swapped |-> Swapped(m, pg)]
             x == AccessPage(m, pg)
  <1>1. IsWhole(used) /\ used.pcid = m.pcid
    <2>1. PICK upper : upper = UseUpper(m, entry)
      OBVIOUS
    <2>2. IsWhole(upper) /\ upper.pcid = m.pcid
      BY <2>1, UseUpperIs
    <2>3. used = m \/ used = upper
      BY <2>1
    <2> HIDE DEF used
    <2> QED
      BY <2>2, <2>3
  <1> HIDE DEF used
  <1>2. IsWhole(filled) /\ filled.pcid = used.pcid
    <2>1. PICK y : y = Enter(used, entry)
      OBVIOUS
    <2>2. IsWhole(y) /\ y.pcid = used.pcid
      BY <1>1, <2>1, EnterIs
    <2> QED
      BY <2>1, <2>2
  <1>3. IsMmu(m)
    BY DEF IsWhole
  <1>4. \/ x = m \/ x = [filled EXCEPT !.wrong = wrong]
        \/ x = [filled EXCEPT !.wrong = wrong, !.tlb = @ \cup {known}]
    BY <1>3, AccessIs DEF used
  <1> HIDE DEF filled, x, wrong, known
  <1>5. ASSUME x # m PROVE IsWhole(x) /\ x.pcid = m.pcid
    <2>1. /\ IsMmu(x) /\ x.lower = filled.lower /\ x.upper = filled.upper /\ x.huge = filled.huge
          /\ x.pcid = filled.pcid
      BY ZenonT(60), <1>2, <1>4, <1>5 DEF IsWhole, IsMmu
    <2> QED
      BY <1>1, <1>2, <2>1 DEF IsWhole, IsLower, IsUpper
  <1>7. IsWhole(x) /\ x.pcid = m.pcid
    BY <1>5
  <1> QED
    BY ONLY <1>7 DEF x

\* What a load of CR3 drops above, too.
LEMMA LoadIsWhole ==
  ASSUME host \in Hosts, NEW m, IsWhole(m), IsRecent(m.recent), NEW p \in Nat
  PROVE  LET x == SetCr3(m, p, FALSE)
         IN  /\ IsWhole(x) /\ x.pcid = p /\ x.swapped = m.swapped /\ IsClean(x)
             /\ \A line \in Tops(x) \cup ToSet(x.huge.line) : line[1] # Tag(p)
  <1>1. PICK x, gone, tags : /\ x = SetCr3(m, p, FALSE) /\ gone = Forgotten(m, p) \cup {p}
                             /\ tags = Tags(gone)
    OBVIOUS
  <1>2. /\ IsMmu(x) /\ IsLower(x) /\ x.pcid = p /\ x.swapped = m.swapped /\ IsClean(x)
    <2>1. IsMmu(m) /\ IsLower(m) /\ FALSE \in BOOLEAN
      BY DEF IsWhole
    <2>2. x.pcid = p /\ Without(m, x, gone)
      BY <1>1, <2>1, Cr3Effect
    <2>3. IsClean(x)
      BY <1>1, <2>1, LoadIsClean
    <2> QED
      BY <2>2, <2>3 DEF Without
  <1>3. Tag(p) \in tags /\ Tag(p) # -1
    BY <1>1 DEF Tags, Tag
  <1> DEFINE Bare(set) == [set EXCEPT !.line =
               [w \in DOMAIN @ |-> IF @[w][1] \in tags THEN NoLine(w) ELSE @[w]]]
             upper == [s \in DOMAIN m.upper |-> Bare(m.upper[s])]
             huge == Bare(m.huge)
  <1>4. x.upper = upper /\ x.huge = huge
    <2>1. PICK dropped : dropped = DropPcids(m, gone)
      OBVIOUS
    <2>2. x = [dropped EXCEPT !.pcid = p, !.recent = Recent(m.recent, p)]
      BY <1>1, <2>1 DEF SetCr3, Forgotten
    <2>3. IsMmu(m)
      BY DEF IsWhole
    <2>4. dropped.upper = upper /\ dropped.huge = huge
      BY <1>1, <2>1, <2>3 DEF DropPcids, Tags, IsMmu
    <2> HIDE DEF upper, huge
    <2> QED
      BY <2>2, <2>4
  <1>5. ASSUME NEW policy, NEW set, IsSet(policy, set)
        PROVE  /\ IsSet(policy, Bare(set))
               /\ \A line \in ToSet(Bare(set).line) : line[1] # Tag(p)
    <2> DEFINE line == [w \in DOMAIN set.line |-> IF set.line[w][1] \in tags THEN NoLine(w)
                                                  ELSE set.line[w]]
               bare == Bare(set)
    <2>1. bare = [set EXCEPT !.line = line]
      OBVIOUS
    <2>2. DOMAIN line = Positions(policy)
      BY <1>5 DEF IsSet
    <2>3. \A w \in DOMAIN line : line[w][1] # Tag(p)
      BY <1>3 DEF NoLine
    <2> HIDE DEF line, bare
    <2>4. bare.line = line /\ IsSet(policy, bare)
      BY <1>5, <2>1, <2>2 DEF IsSet
    <2> QED
      BY <2>3, <2>4 DEF bare, ToSet
  <1>6. \A s \in DOMAIN m.upper : /\ IsSet(host.upper.policy, upper[s])
                                  /\ \A line \in ToSet(upper[s].line) : line[1] # Tag(p)
    <2> TAKE s \in DOMAIN m.upper
    <2>1. IsSet(host.upper.policy, m.upper[s])
      BY DEF IsWhole, IsUpper
    <2>2. PICK set : set = m.upper[s]
      OBVIOUS
    <2>3. upper[s] = Bare(set)
      BY <2>2
    <2> HIDE DEF Bare, upper
    <2> QED
      BY <1>5, <2>1, <2>2, <2>3
  <1>7. /\ IsSet(Lru(host.hugeEntries), huge) /\ \A line \in ToSet(huge.line) : line[1] # Tag(p)
    <2>1. IsSet(Lru(host.hugeEntries), m.huge)
      BY DEF IsWhole, IsUpper
    <2>2. PICK set : set = m.huge
      OBVIOUS
    <2>3. huge = Bare(set)
      BY <2>2
    <2> HIDE DEF Bare, huge
    <2> QED
      BY <1>5, <2>1, <2>2, <2>3
  <1>8. DOMAIN upper = DOMAIN m.upper
    OBVIOUS
  <1> HIDE DEF upper, huge
  <1>9. IsUpper(x)
    BY <1>4, <1>6, <1>7, <1>8 DEF IsWhole, IsUpper
  <1>10. \A line \in Tops(x) \cup ToSet(x.huge.line) : line[1] # Tag(p)
    BY <1>4, <1>6, <1>7, <1>8 DEF Tops
  <1> QED
    BY <1>1, <1>2, <1>9, <1>10 DEF IsWhole

--------------------------------------------------------------------------------
(* How a permutation policy ages a line *)

\* A line that is at this way of the set, if it is in the set at all; and one that is.
OnlyAt(policy, set, x, n) == \A w \in Positions(policy) : set.line[w] = x => w = n
Stands(policy, set, x, n) == n \in Positions(policy) => set.line[n] = x

\* A new line makes every other one way older.
LEMMA Older ==
  ASSUME NEW policy, Permutes(policy), NEW set, IsSet(policy, set), NEW y, ~ Holds(set, y),
         NEW x, x # y, NEW n \in Nat
  PROVE  LET after == Touch(policy, set, y)
         IN  /\ OnlyAt(policy, set, x, n) => OnlyAt(policy, after, x, n + 1)
             /\ Stands(policy, set, x, n) => Stands(policy, after, x, n + 1)
  <1>1. PICK after : after = Touch(policy, set, y)
    OBVIOUS
  <1>2. \A w \in Positions(policy) : after.line[w] = IF w = 0 THEN y ELSE set.line[w - 1]
    <2>1. after.line = [w \in Positions(policy) |-> IF w = 0 THEN y ELSE set.line[w - 1]]
      BY <1>1, TouchMiss
    <2> QED
      BY <2>1
  <1>3. Positions(policy) = 0 .. policy.ways - 1 /\ policy.ways \in Nat
    BY DEF Positions, Permutes, IsPolicy
  <1>4. \A w \in Positions(policy) : w \in Nat /\ (w # 0 => w - 1 \in Positions(policy))
    BY <1>3
  <1>5. OnlyAt(policy, set, x, n) => OnlyAt(policy, after, x, n + 1)
    BY <1>2, <1>4 DEF OnlyAt
  <1>6. Stands(policy, set, x, n) => Stands(policy, after, x, n + 1)
    BY <1>2, <1>4 DEF Stands
  <1> QED
    BY <1>1, <1>5, <1>6

\* A line whose age is below the ways is in the set, one older is not.
LEMMA IsHeld ==
  ASSUME NEW policy, Permutes(policy), NEW set, IsSet(policy, set), NEW x, NEW n \in Nat
  PROVE  /\ OnlyAt(policy, set, x, n) /\ n >= policy.ways => ~ Holds(set, x)
         /\ Stands(policy, set, x, n) /\ n < policy.ways => Holds(set, x)
  <1>1. DOMAIN set.line = Positions(policy) /\ Positions(policy) = 0 .. policy.ways - 1
    BY DEF IsSet, Positions
  <1>2. policy.ways \in Nat
    BY DEF Permutes, IsPolicy
  <1>3. OnlyAt(policy, set, x, n) /\ n >= policy.ways => ~ Holds(set, x)
    BY <1>1, <1>2 DEF OnlyAt, Holds
  <1>4. Stands(policy, set, x, n) /\ n < policy.ways => Holds(set, x)
    BY <1>1, <1>2 DEF Stands, Holds
  <1> QED
    BY <1>3, <1>4

\* During a walk the caches hold, under the PCID in CR3, the entry that was
\* primed and those read since, and the TLB at most their first pages.
Fresh(m, entry, seen) ==
  /\ IsWhole(m) /\ m.pcid \in Nat
  /\ m.swapped = entry /\ Key(m, entry) \notin m.wrong
  /\ \A t \in m.tlb : t.pcid = m.pcid => \E g \in seen : t.page = <<g, 0>> /\ ~ IsHuge(g)
  /\ \A line \in LinesOf(m) \cup ToSet(m.huge.line) :
       line[1] = Tag(m.pcid) => \E g \in seen : line = Key(m, g)

\* The sets of one way of replacing that an entry may use.
OwnPolicy(entry) == IF InHugeTlb(entry) THEN Lru(host.hugeEntries) ELSE host.lower.policy
SameSet(entry, g) ==
  /\ InHugeTlb(entry) <=> InHugeTlb(g)
  /\ InHugeTlb(entry) \/ entry % host.lower.sets = g % host.lower.sets

\* No PCID has the tag of what belongs to none.
LEMMA TagIs ==
  ASSUME NEW p \in Nat
  PROVE  Tag(p) \in Nat /\ Tag(p) # -1
  BY DEF Tag

\* The set an entry may use, in the huge TLB or in the lower level.
LEMMA SetsAre ==
  ASSUME host \in Hosts, NEW m, IsWhole(m), NEW entry \in Nat
  PROVE  /\ IsSet(OwnPolicy(entry), SetAt(m, entry))
         /\ host.lower.policy.kind = "permutation" => Permutes(OwnPolicy(entry))
         /\ \A w \in Positions(OwnPolicy(entry)) :
              SetAt(m, entry).line[w] \in LinesOf(m) \cup ToSet(m.huge.line)
  <1>1. entry % host.lower.sets \in 0 .. host.lower.sets - 1
    <2>1. PICK sets : sets = host.lower.sets
      OBVIOUS
    <2>2. sets \in Nat /\ sets # 0
      BY <2>1, SessionAssumption
    <2> QED
      BY <2>1, <2>2
  <1>2. CASE InHugeTlb(entry)
    <2>1. IsSet(Lru(host.hugeEntries), m.huge)
      BY DEF IsWhole, IsUpper
    <2>2. Permutes(Lru(host.hugeEntries))
      <3>1. PICK ways : ways = host.hugeEntries
        OBVIOUS
      <3> QED
        BY <3>1, LruIs, SessionAssumption
    <2>3. \A w \in Positions(Lru(host.hugeEntries)) : m.huge.line[w] \in ToSet(m.huge.line)
      BY <2>1 DEF IsSet, ToSet
    <2> QED
      BY <1>2, <2>1, <2>2, <2>3 DEF OwnPolicy, SetAt
  <1>3. CASE ~ InHugeTlb(entry)
    <2>1. /\ entry % host.lower.sets \in DOMAIN m.lower
          /\ IsSet(host.lower.policy, m.lower[entry % host.lower.sets])
      BY <1>1 DEF IsWhole, IsLower
    <2>2. host.lower.policy.kind = "permutation" => Permutes(host.lower.policy)
      BY SessionAssumption DEF Permutes
    <2>3. \A w \in Positions(host.lower.policy) :
            m.lower[entry % host.lower.sets].line[w] \in LinesOf(m)
      BY <2>1 DEF LinesOf
    <2> QED
      BY <1>3, <2>1, <2>2, <2>3 DEF OwnPolicy, SetAt
  <1> QED
    BY <1>2, <1>3

\* An entry the walk has not seen is new.
LEMMA NewIs ==
  ASSUME host \in Hosts, NEW m, NEW entry, NEW seen, Fresh(m, entry, seen),
         entry \in seen \cup {-1}, NEW g \in Nat, g \notin seen
  PROVE  IsNew(m, <<g, 0>>)
  <1>1. ~ \E t \in m.tlb : t.pcid = m.pcid /\ t.page = <<g, 0>>
    BY DEF Fresh
  <1>2. ~ Holds(SetAt(m, g), Key(m, g))
    <2>1. SUFFICES ASSUME NEW w \in DOMAIN SetAt(m, g).line, SetAt(m, g).line[w] = Key(m, g)
                   PROVE  FALSE
      BY DEF Holds
    <2>2. Key(m, g) \in LinesOf(m) \cup ToSet(m.huge.line)
      BY <2>1, SetsAre DEF Fresh, IsSet
    <2>3. PICK h \in seen : Key(m, g) = Key(m, h)
      BY <2>2 DEF Fresh, Key
    <2> QED
      BY <2>3 DEF Key
  <1> QED
    BY <1>1, <1>2 DEF IsNew, Fresh

Permuting ==
  /\ host \in Hosts
  /\ host.lower.policy.kind = "permutation" /\ host.upper.policy.kind = "permutation"

\* Levels that replace by permutations, and the huge TLB, which is LRU.
LEMMA PermutingIs ==
  ASSUME Permuting
  PROVE  /\ Permutes(host.lower.policy) /\ Permutes(host.upper.policy)
         /\ Permutes(Lru(host.hugeEntries))
  <1>1. PICK ways : ways = host.hugeEntries
    OBVIOUS
  <1>2. Permutes(Lru(host.hugeEntries))
    BY <1>1, LruIs, SessionAssumption DEF Permuting
  <1> QED
    BY <1>2, SessionAssumption DEF Permutes, Permuting

\* What an entry's set is like after a new entry has been read.
ThinSet(m, entry, g) ==
  IF InHugeTlb(entry) THEN m.huge
  ELSE WithoutBelow(m.lower[entry % host.lower.sets], Gone(m, g))

\* The set of one entry after another has been read.
LEMMA OwnSetAfter ==
  ASSUME host \in Hosts, NEW m, IsWhole(m), NEW g \in Nat, IsNew(m, <<g, 0>>), NEW entry \in Nat
  PROVE  SetAt(AccessPage(m, <<g, 0>>), entry) =
           IF SameSet(entry, g) THEN Touch(OwnPolicy(entry), ThinSet(m, entry, g), Key(m, g))
           ELSE ThinSet(m, entry, g)
  <1>1. PICK x, pg : pg = <<g, 0>> /\ x = AccessPage(m, pg)
    OBVIOUS
  <1>2. /\ InHugeTlb(g) =>
             /\ x.lower = Thin(m, g)
             /\ x.huge = Touch(Lru(host.hugeEntries), m.huge, Key(m, g))
        /\ ~ InHugeTlb(g) =>
             /\ x.huge = m.huge
             /\ x.lower = [Thin(m, g) EXCEPT ![g % host.lower.sets] =
                             Touch(host.lower.policy, @, Key(m, g))]
    <2>1. pg[1] = g /\ IsNew(m, pg)
      BY <1>1
    <2>2. Fills(m, x, pg, g)
      BY <1>1, <2>1, NewReadIs
    <2> QED
      BY ONLY <2>2 DEF Fills
  <1>3. PICK s, own : s = entry % host.lower.sets /\ own = g % host.lower.sets
    OBVIOUS
  <1>4. s \in DOMAIN m.lower /\ own \in DOMAIN m.lower
    <2>1. PICK sets : sets = host.lower.sets
      OBVIOUS
    <2>2. sets \in Nat /\ sets # 0
      BY <2>1, SessionAssumption
    <2>3. DOMAIN m.lower = 0 .. sets - 1
      BY <2>1 DEF IsWhole, IsLower
    <2> QED
      BY <1>3, <2>1, <2>2, <2>3
  <1>5. PICK thin : thin = Thin(m, g)
    OBVIOUS
  <1>6. DOMAIN thin = DOMAIN m.lower /\ thin[s] = WithoutBelow(m.lower[s], Gone(m, g))
    BY <1>4, <1>5 DEF Thin
  <1>7. CASE InHugeTlb(entry)
    BY <1>1, <1>2, <1>7 DEF SetAt, OwnPolicy, SameSet, ThinSet
  <1>8. CASE ~ InHugeTlb(entry)
    <2>1. SetAt(x, entry) = x.lower[s] /\ ThinSet(m, entry, g) = thin[s]
      BY <1>3, <1>6, <1>8 DEF SetAt, ThinSet
    <2>2. SameSet(entry, g) <=> ~ InHugeTlb(g) /\ s = own
      BY <1>3, <1>8 DEF SameSet
    <2>3. OwnPolicy(entry) = host.lower.policy
      BY <1>8 DEF OwnPolicy
    <2>4. InHugeTlb(g) => x.lower[s] = thin[s]
      BY <1>2, <1>5
    <2>5. ~ InHugeTlb(g) => x.lower = [thin EXCEPT ![own] = Touch(host.lower.policy, @, Key(m, g))]
      BY <1>2, <1>3, <1>5
    <2>6. ~ InHugeTlb(g) => x.lower[s] = IF s = own THEN Touch(host.lower.policy, thin[s], Key(m, g))
                                         ELSE thin[s]
      BY <1>4, <1>6, <2>5
    <2> QED
      BY <1>1, <2>1, <2>2, <2>3, <2>4, <2>6
  <1> QED
    BY <1>7, <1>8

\* A read adds its own entry to what is known, and no other.
LEMMA FreshKept ==
  ASSUME Permuting, NEW m, NEW entry, NEW seen, Fresh(m, entry, seen),
         entry \in seen \cup {-1}, NEW g \in Nat, g \notin seen
  PROVE  LET x == AccessPage(m, <<g, 0>>)
         IN  Fresh(x, entry, seen \cup {g}) /\ x.pcid = m.pcid
  <1>1. PICK x, pg : pg = <<g, 0>> /\ x = AccessPage(m, pg)
    OBVIOUS
  <1>2. pg[1] = g /\ IsNew(m, pg)
    BY <1>1, NewIs DEF Permuting
  <1>3. host \in Hosts /\ IsWhole(m)
    BY DEF Permuting, Fresh
  <1>4. /\ IsWhole(x) /\ x.swapped = m.swapped /\ x.pcid = m.pcid
        /\ x.wrong = m.wrong \ {Key(m, g)}
        /\ \A t \in x.tlb : t \in m.tlb \/ (t.page = pg /\ ~ IsHuge(g))
        /\ InHugeTlb(g) =>
             /\ x.lower = Thin(m, g)
             /\ x.huge = Touch(Lru(host.hugeEntries), m.huge, Key(m, g))
        /\ ~ InHugeTlb(g) =>
             /\ x.huge = m.huge
             /\ x.lower = [Thin(m, g) EXCEPT ![g % host.lower.sets] =
                             Touch(host.lower.policy, @, Key(m, g))]
    <2>1. Fills(m, x, pg, g)
      BY <1>1, <1>2, <1>3, NewReadIs
    <2> QED
      BY ONLY <2>1 DEF Fills
  <1>5. \A h : Key(x, h) = Key(m, h)
    BY <1>4 DEF Key
  <1>6. \A t \in x.tlb : t.pcid = x.pcid => \E h \in seen \cup {g} : t.page = <<h, 0>> /\ ~ IsHuge(h)
    BY <1>1, <1>4 DEF Fresh
  <1>7. PICK thin, own, key, tag :
          thin = Thin(m, g) /\ own = g % host.lower.sets /\ key = Key(m, g) /\ tag = Tag(m.pcid)
    OBVIOUS
  <1>8. tag # -1 /\ \A w : NoLine(w)[1] = -1
    BY <1>7, TagIs DEF Fresh, NoLine
  <1> DEFINE Ours(line) == line[1] = tag => line = key \/ \E h \in seen : line = Key(m, h)
  <1>9. ASSUME NEW s \in DOMAIN m.lower
        PROVE  /\ IsSet(host.lower.policy, thin[s])
               /\ \A w \in Positions(host.lower.policy) : Ours(thin[s].line[w])
    <2>1. PICK set, gone : set = m.lower[s] /\ gone = Gone(m, g)
      OBVIOUS
    <2>2. IsSet(host.lower.policy, set)
      BY <1>3, <2>1 DEF IsWhole, IsLower
    <2>3. thin[s] = WithoutBelow(set, gone)
      BY <1>7, <2>1 DEF Thin
    <2>4. /\ IsSet(host.lower.policy, thin[s])
          /\ \A w \in Positions(host.lower.policy) :
               thin[s].line[w] = NoLine(w) \/ thin[s].line[w] = set.line[w]
      <3>1. PICK y : y = WithoutBelow(set, gone)
        OBVIOUS
      <3>2. /\ IsSet(host.lower.policy, y)
            /\ \A w \in Positions(host.lower.policy) :
                 y.line[w] = IF Below(set.line[w], gone) THEN NoLine(w) ELSE set.line[w]
        BY <2>2, <3>1, Thinned
      <3> QED
        BY <2>3, <3>1, <3>2
    <2>5. \A w \in Positions(host.lower.policy) : set.line[w] \in LinesOf(m)
      BY <2>1 DEF LinesOf
    <2>6. \A w \in Positions(host.lower.policy) : Ours(set.line[w])
      BY <1>7, <2>5 DEF Fresh
    <2> QED
      BY <1>8, <2>4, <2>6
  <1>10. DOMAIN thin = DOMAIN m.lower
    BY <1>7 DEF Thin
  <1>11. \A w \in Positions(Lru(host.hugeEntries)) : Ours(m.huge.line[w])
    <2>1. \A w \in Positions(Lru(host.hugeEntries)) : m.huge.line[w] \in ToSet(m.huge.line)
      BY <1>3 DEF IsWhole, IsUpper, IsSet, ToSet
    <2> QED
      BY <1>7, <2>1 DEF Fresh
  <1>12. Ours(key)
    OBVIOUS
  <1>13. ASSUME NEW policy, Permutes(policy), NEW set, IsSet(policy, set),
                \A w \in Positions(policy) : Ours(set.line[w])
         PROVE  \A w \in Positions(policy) : Ours(Touch(policy, set, key).line[w])
    <2> TAKE w \in Positions(policy)
    <2>1. PICK line : line = Touch(policy, set, key).line[w]
      OBVIOUS
    <2>2. line = key \/ \E v \in Positions(policy) : line = set.line[v]
      BY <1>13, <2>1, TouchLines DEF Permutes
    <2> HIDE DEF Ours
    <2> QED
      BY <1>12, <1>13, <2>1, <2>2
  <1> HIDE DEF Ours
  <1>14. \A w \in Positions(Lru(host.hugeEntries)) : Ours(x.huge.line[w])
    <2>1. CASE InHugeTlb(g)
      <3>1. PICK set : set = m.huge
        OBVIOUS
      <3>2. IsSet(Lru(host.hugeEntries), set)
        BY <1>3, <3>1 DEF IsWhole, IsUpper
      <3> QED
        BY <1>4, <1>7, <1>11, <1>13, <2>1, <3>1, <3>2, PermutingIs
    <2>2. CASE ~ InHugeTlb(g)
      BY <1>4, <1>11, <2>2
    <2> QED
      BY <2>1, <2>2
  <1>15. ASSUME NEW s \in DOMAIN x.lower, NEW w \in Positions(host.lower.policy)
         PROVE  Ours(x.lower[s].line[w])
    <2>1. s \in DOMAIN m.lower
      BY <1>3, <1>4 DEF IsWhole, IsLower
    <2>2. PICK set : set = thin[s]
      OBVIOUS
    <2>3. IsSet(host.lower.policy, set) /\ \A v \in Positions(host.lower.policy) : Ours(set.line[v])
      BY <1>9, <2>1, <2>2
    <2>4. x.lower[s] = set \/ x.lower[s] = Touch(host.lower.policy, set, key)
      BY <1>4, <1>7, <1>10, <2>1, <2>2
    <2>5. Ours(Touch(host.lower.policy, set, key).line[w])
      BY <1>13, <2>3, PermutingIs
    <2> QED
      BY <2>3, <2>4, <2>5
  <1>16. \A line \in LinesOf(x) \cup ToSet(x.huge.line) : Ours(line)
    <2>1. ToSet(x.huge.line) = {x.huge.line[w] : w \in Positions(Lru(host.hugeEntries))}
      BY <1>4 DEF IsWhole, IsUpper, IsSet, ToSet
    <2> QED
      BY <1>14, <1>15, <2>1 DEF LinesOf
  <1>17. \A line \in LinesOf(x) \cup ToSet(x.huge.line) :
           line[1] = Tag(x.pcid) => \E h \in seen \cup {g} : line = Key(x, h)
    BY <1>4, <1>5, <1>7, <1>16 DEF Ours
  <1>18. Fresh(x, entry, seen \cup {g})
    BY <1>4, <1>5, <1>6, <1>17 DEF Fresh
  <1> QED
    BY <1>1, <1>4, <1>18

TopKey(m, entry) == <<Tag(m.pcid), Top(entry)>>

\* What the level above drops does not move what stays below.
LEMMA ThinIs ==
  ASSUME Permuting, NEW m, IsWhole(m), m.pcid \in Nat, NEW entry \in Nat, NEW g \in Nat
  PROVE  /\ IsSet(OwnPolicy(entry), ThinSet(m, entry, g))
         /\ \A w \in Positions(OwnPolicy(entry)) :
              ThinSet(m, entry, g).line[w] = IF ~ InHugeTlb(entry) /\ Below(SetAt(m, entry).line[w], Gone(m, g))
                                             THEN NoLine(w) ELSE SetAt(m, entry).line[w]
  <1>1. IsSet(OwnPolicy(entry), SetAt(m, entry))
    BY SetsAre DEF Permuting
  <1>2. CASE InHugeTlb(entry)
    BY <1>1, <1>2 DEF ThinSet, SetAt
  <1>3. CASE ~ InHugeTlb(entry)
    <2>1. PICK set, gone, x : /\ set = SetAt(m, entry) /\ gone = Gone(m, g)
                              /\ x = WithoutBelow(set, gone)
      OBVIOUS
    <2>2. ThinSet(m, entry, g) = x
      BY <1>3, <2>1 DEF ThinSet, SetAt
    <2>3. /\ IsSet(OwnPolicy(entry), x)
          /\ \A w \in Positions(OwnPolicy(entry)) :
               x.line[w] = IF Below(set.line[w], gone) THEN NoLine(w) ELSE set.line[w]
      BY <1>1, <2>1, Thinned
    <2> QED
      BY <1>3, <2>1, <2>2, <2>3
  <1> QED
    BY <1>2, <1>3

\* One more entry is read: what becomes of the one that was primed.
LEMMA OwnStep ==
  ASSUME Permuting, NEW m, NEW entry \in Nat, NEW seen, Fresh(m, entry, seen), entry \in seen,
         NEW g \in Nat, g \notin seen, NEW n \in Nat,
         NEW policy, policy = OwnPolicy(entry), NEW key, key = Key(m, entry),
         NEW before, before = SetAt(m, entry),
         NEW after, after = SetAt(AccessPage(m, <<g, 0>>), entry),
         NEW age, age = IF SameSet(entry, g) THEN n + 1 ELSE n
  PROVE  /\ OnlyAt(policy, before, key, n) => OnlyAt(policy, after, key, age)
         /\ Stands(policy, before, key, n) /\ (InHugeTlb(entry) \/ TopKey(m, entry) \notin Gone(m, g))
              => Stands(policy, after, key, age)
         /\ ~ InHugeTlb(entry) /\ TopKey(m, entry) \in Gone(m, g) => ~ Holds(after, key)
  <1>1. PICK thin, other : thin = ThinSet(m, entry, g) /\ other = Key(m, g)
    OBVIOUS
  <1>2. /\ IsWhole(m) /\ m.pcid \in Nat /\ host \in Hosts /\ Permutes(policy)
        /\ IsSet(policy, before) /\ entry # g
    BY SetsAre DEF Fresh, Permuting
  <1>3. after = IF SameSet(entry, g) THEN Touch(policy, thin, other) ELSE thin
    BY <1>1, <1>2, NewIs, OwnSetAfter
  <1>4. /\ IsSet(policy, thin)
        /\ \A w \in Positions(policy) :
             thin.line[w] = IF ~ InHugeTlb(entry) /\ Below(before.line[w], Gone(m, g))
                            THEN NoLine(w) ELSE before.line[w]
    BY <1>1, <1>2, ThinIs
  <1>5. key = <<Tag(m.pcid), entry>> /\ other = <<Tag(m.pcid), g>> /\ Tag(m.pcid) # -1
    BY <1>1, <1>2, TagIs DEF Key
  <1>6. \A w : NoLine(w) # key /\ NoLine(w) # other
    BY <1>5 DEF NoLine
  <1>7. ~ Holds(thin, other)
    <2>1. \A w \in Positions(policy) : before.line[w] \in LinesOf(m) \cup ToSet(m.huge.line)
      BY <1>2, SetsAre
    <2>2. \A w \in Positions(policy) : before.line[w] # other
      <3>1. \A h \in seen : Key(m, h) # other
        BY <1>5 DEF Key
      <3>2. other[1] = Tag(m.pcid)
        BY <1>5
      <3> QED
        BY <2>1, <3>1, <3>2 DEF Fresh
    <2> QED
      BY <1>4, <1>6, <2>2 DEF Holds, IsSet
  <1>8. \A gone : Below(key, gone) <=> TopKey(m, entry) \in gone
    BY <1>5 DEF Below, TopKey, Top
  <1>9. OnlyAt(policy, before, key, n) => OnlyAt(policy, thin, key, n)
    BY <1>4, <1>6 DEF OnlyAt
  <1>10. Stands(policy, before, key, n) /\ (InHugeTlb(entry) \/ TopKey(m, entry) \notin Gone(m, g))
           => Stands(policy, thin, key, n)
    BY <1>4, <1>8 DEF Stands
  <1>11. ~ InHugeTlb(entry) /\ TopKey(m, entry) \in Gone(m, g) => \A k : OnlyAt(policy, thin, key, k)
    BY <1>4, <1>6, <1>8 DEF OnlyAt
  <1>12. ASSUME NEW k \in Nat
         PROVE  /\ OnlyAt(policy, thin, key, k) => OnlyAt(policy, Touch(policy, thin, other), key, k + 1)
                /\ Stands(policy, thin, key, k) => Stands(policy, Touch(policy, thin, other), key, k + 1)
    <2>1. key # other
      BY <1>2, <1>5
    <2> QED
      BY <1>2, <1>4, <1>7, <2>1, Older
  <1>13. OnlyAt(policy, before, key, n) => OnlyAt(policy, after, key, age)
    BY <1>3, <1>9, <1>12
  <1>14. Stands(policy, before, key, n) /\ (InHugeTlb(entry) \/ TopKey(m, entry) \notin Gone(m, g))
           => Stands(policy, after, key, age)
    BY <1>3, <1>10, <1>12
  <1>15. ASSUME ~ InHugeTlb(entry) /\ TopKey(m, entry) \in Gone(m, g) PROVE ~ Holds(after, key)
    <2>1. PICK ways : ways = policy.ways
      OBVIOUS
    <2>2. ways \in Nat /\ ways + 1 \in Nat /\ ways + 1 >= ways
      BY <1>2, <2>1 DEF Permutes, IsPolicy
    <2>3. OnlyAt(policy, after, key, ways) \/ OnlyAt(policy, after, key, ways + 1)
      BY <1>3, <1>11, <1>12, <1>15, <2>2
    <2>4. IsSet(policy, after)
      <3>1. IsSet(policy, Touch(policy, thin, other))
        BY <1>2, <1>4, TouchIs
      <3> QED
        BY <1>3, <1>4, <3>1
    <2> QED
      BY <1>2, <2>1, <2>2, <2>3, <2>4, IsHeld
  <1> QED
    BY <1>13, <1>14, <1>15

\* The entries above that the walk uses.
TopsKnown(m, tops) ==
  \A s \in DOMAIN m.upper : \A w \in Positions(host.upper.policy) :
    m.upper[s].line[w][1] = Tag(m.pcid) =>
      \E t \in tops : m.upper[s].line[w] = <<Tag(m.pcid), t>> /\ s = UpperSet(t)
IsAged(m, t, n) ==
  /\ OnlyAt(host.upper.policy, m.upper[UpperSet(t)], <<Tag(m.pcid), t>>, n)
  /\ Stands(host.upper.policy, m.upper[UpperSet(t)], <<Tag(m.pcid), t>>, n)

\* The set above of an entry above.
LEMMA UpperSetIs ==
  ASSUME host \in Hosts, NEW m, IsWhole(m), NEW t \in Nat
  PROVE  UpperSet(t) \in DOMAIN m.upper /\ IsSet(host.upper.policy, m.upper[UpperSet(t)])
  BY UpperIs DEF IsWhole, IsUpper

\* A new entry above comes in first.
LEMMA TopEnters ==
  ASSUME Permuting, NEW m, IsWhole(m), m.pcid \in Nat, NEW pg, NEW g \in Nat, NEW x,
         Fills(m, x, pg, g), NEW tops, TopsKnown(m, tops), Top(g) \notin tops
  PROVE  /\ TopsKnown(x, tops \cup {Top(g)}) /\ IsAged(x, Top(g), 0)
         /\ ~ Holds(m.upper[UpperSet(Top(g))], TopKey(m, g))
  <1>1. PICK policy, tag, t, s :
          policy = host.upper.policy /\ tag = Tag(m.pcid) /\ t = Top(g) /\ s = UpperSet(t)
    OBVIOUS
  <1>2. host \in Hosts /\ Permutes(policy) /\ policy.ways \in Nat /\ t \in Nat
    <2>1. host \in Hosts
      BY DEF Permuting
    <2>2. t \in Nat /\ policy.ways \in Nat
      BY <1>1, <2>1, UpperIs
    <2> QED
      BY <1>1, <2>1, <2>2, PermutingIs
  <1>3. PICK set, after : set = m.upper[s] /\ after = Touch(policy, set, <<tag, t>>)
    OBVIOUS
  <1>4. s \in DOMAIN m.upper /\ IsSet(policy, set)
    BY <1>1, <1>2, <1>3, UpperSetIs
  <1>5. Tag(x.pcid) = tag /\ x.upper = [m.upper EXCEPT ![s] = after] /\ IsWhole(x)
    BY <1>1, <1>3 DEF Fills, UpperAfter
  <1>6. DOMAIN x.upper = DOMAIN m.upper /\ \A v \in DOMAIN m.upper : x.upper[v] = IF v = s THEN after ELSE m.upper[v]
    BY <1>5
  <1>8. \A v \in DOMAIN m.upper : \A w \in Positions(policy) :
          m.upper[v].line[w][1] = tag =>
            \E r \in tops : m.upper[v].line[w] = <<tag, r>> /\ v = UpperSet(r)
    BY <1>1 DEF TopsKnown
  <1>9. ~ Holds(set, <<tag, t>>)
    <2>1. \A w \in Positions(policy) : set.line[w] # <<tag, t>>
      BY <1>1, <1>3, <1>4, <1>8
    <2> QED
      BY <1>4, <2>1 DEF Holds, IsSet
  <1>10. IsSet(policy, after) /\ \A w \in Positions(policy) :
           after.line[w] = IF w = 0 THEN <<tag, t>> ELSE set.line[w - 1]
    BY <1>2, <1>3, <1>4, <1>9, TouchIs
  <1>11. \A w \in Positions(policy) : w \in Nat /\ (w # 0 => w - 1 \in Positions(policy))
    <2>1. Positions(policy) = 0 .. policy.ways - 1
      BY DEF Positions
    <2> QED
      BY <1>2, <2>1
  <1>12. TopsKnown(x, tops \cup {t})
    <2>1. ASSUME NEW v \in DOMAIN m.upper, NEW w \in Positions(policy), x.upper[v].line[w][1] = tag
          PROVE  \E r \in tops \cup {t} : x.upper[v].line[w] = <<tag, r>> /\ v = UpperSet(r)
      <3>1. CASE v = s /\ w = 0
        BY <1>1, <1>6, <1>10, <3>1
      <3>2. CASE v = s /\ w # 0
        BY <1>3, <1>4, <1>6, <1>8, <1>10, <1>11, <2>1, <3>2
      <3>3. CASE v # s
        BY <1>6, <1>8, <2>1, <3>3
      <3> QED
        BY <3>1, <3>2, <3>3
    <2> QED
      BY <1>1, <1>5, <1>6, <2>1 DEF TopsKnown
  <1>13. IsAged(x, t, 0)
    <2>1. \A w \in Positions(policy) : after.line[w] = <<tag, t>> <=> w = 0
      BY <1>4, <1>9, <1>10, <1>11 DEF Holds, IsSet
    <2>2. OnlyAt(policy, after, <<tag, t>>, 0) /\ Stands(policy, after, <<tag, t>>, 0)
      BY <2>1 DEF OnlyAt, Stands
    <2>3. x.upper[UpperSet(t)] = after
      BY <1>1, <1>4, <1>6
    <2> QED
      BY <1>1, <1>5, <2>2, <2>3 DEF IsAged
  <1> QED
    BY <1>1, <1>3, <1>9, <1>12, <1>13 DEF TopKey

\* A link whose entry above is new makes the one above the target older if they share a set.
LEMMA NewTop ==
  ASSUME Permuting, NEW m, IsWhole(m), m.pcid \in Nat, NEW pg, NEW g \in Nat, NEW x,
         Fills(m, x, pg, g), NEW tops, TopsKnown(m, tops), Top(g) \notin tops,
         NEW entry \in Nat, Top(entry) \in tops, NEW n \in Nat, IsAged(m, Top(entry), n),
         NEW same, same = (UpperSet(Top(g)) = UpperSet(Top(entry)))
  PROVE  /\ TopsKnown(x, tops \cup {Top(g)})
         /\ IsAged(x, Top(entry), IF same THEN n + 1 ELSE n)
         /\ IsAged(x, Top(g), 0)
         /\ n < host.upper.policy.ways =>
              (TopKey(m, entry) \in Gone(m, g) <=> host.nested /\ same /\ n + 1 = host.upper.policy.ways)
  <1>1. PICK policy, tag, t, u, s, own :
          /\ policy = host.upper.policy /\ tag = Tag(m.pcid) /\ t = Top(g) /\ u = Top(entry)
          /\ s = UpperSet(t) /\ own = UpperSet(u)
    OBVIOUS
  <1>2. host \in Hosts /\ Permutes(policy) /\ policy.ways \in Nat /\ t \in Nat /\ u \in Nat
    <2>1. host \in Hosts
      BY DEF Permuting
    <2>2. t \in Nat /\ u \in Nat /\ policy.ways \in Nat
      BY <1>1, <2>1, UpperIs
    <2> QED
      BY <1>1, <2>1, <2>2, PermutingIs
  <1>3. PICK set, after : set = m.upper[s] /\ after = Touch(policy, set, <<tag, t>>)
    OBVIOUS
  <1>4. s \in DOMAIN m.upper /\ own \in DOMAIN m.upper /\ IsSet(policy, set) /\ IsSet(policy, m.upper[own])
    BY <1>1, <1>2, <1>3, UpperSetIs
  <1>5. Tag(x.pcid) = tag /\ x.upper = [m.upper EXCEPT ![s] = after] /\ IsWhole(x)
    BY <1>1, <1>3 DEF Fills, UpperAfter
  <1>6. DOMAIN x.upper = DOMAIN m.upper /\ \A v \in DOMAIN m.upper : x.upper[v] = IF v = s THEN after ELSE m.upper[v]
    BY <1>5
  <1>7. u # t
    BY <1>1
  <1>8. \A v \in DOMAIN m.upper : \A w \in Positions(policy) :
          m.upper[v].line[w][1] = tag =>
            \E r \in tops : m.upper[v].line[w] = <<tag, r>> /\ v = UpperSet(r)
    BY <1>1 DEF TopsKnown
  <1>9. /\ ~ Holds(set, <<tag, t>>) /\ TopsKnown(x, tops \cup {t}) /\ IsAged(x, t, 0)
    BY <1>1, <1>3, TopEnters DEF TopKey
  <1>10. IsSet(policy, after) /\ \A w \in Positions(policy) :
           after.line[w] = IF w = 0 THEN <<tag, t>> ELSE set.line[w - 1]
    BY <1>2, <1>3, <1>4, <1>9, TouchIs
  <1>14. /\ OnlyAt(policy, m.upper[own], <<tag, u>>, n) /\ Stands(policy, m.upper[own], <<tag, u>>, n)
         /\ same <=> s = own
    BY <1>1 DEF IsAged
  <1>15. same => /\ OnlyAt(policy, after, <<tag, u>>, n + 1) /\ Stands(policy, after, <<tag, u>>, n + 1)
                 /\ x.upper[own] = after /\ m.upper[own] = set
    <2>1. <<tag, u>> # <<tag, t>>
      BY <1>7
    <2>2. same => OnlyAt(policy, set, <<tag, u>>, n) /\ Stands(policy, set, <<tag, u>>, n)
      BY <1>3, <1>14
    <2>3. same => OnlyAt(policy, after, <<tag, u>>, n + 1) /\ Stands(policy, after, <<tag, u>>, n + 1)
      BY <1>2, <1>3, <1>4, <1>9, <2>1, <2>2, Older
    <2> QED
      BY <1>3, <1>4, <1>6, <1>14, <2>3
  <1>16. ~ same => x.upper[own] = m.upper[own]
    BY <1>4, <1>6, <1>14
  <1>17. IsAged(x, u, IF same THEN n + 1 ELSE n)
    BY <1>1, <1>5, <1>14, <1>15, <1>16 DEF IsAged
  <1>18. <<tag, u>> \in Gone(m, g) <=>
           host.nested /\ <<tag, u>> \in ToSet(set.line) /\ <<tag, u>> \notin ToSet(after.line)
    BY <1>1, <1>3 DEF Gone, UpperAfter
  <1>19. \A y : (y \in ToSet(set.line) <=> Holds(set, y)) /\ (y \in ToSet(after.line) <=> Holds(after, y))
    BY <1>4, <1>10 DEF ToSet, Holds
  <1>20. ~ same => ~ Holds(set, <<tag, u>>)
    <2>1. ASSUME NEW w \in Positions(policy), set.line[w] = <<tag, u>> PROVE s = own
      BY <1>1, <1>3, <1>4, <1>8, <2>1
    <2> QED
      BY <1>4, <1>14, <2>1 DEF Holds, IsSet
  <1>21. ASSUME n < policy.ways
         PROVE  <<tag, u>> \in Gone(m, g) <=> host.nested /\ same /\ n + 1 = policy.ways
    <2>1. same => Holds(set, <<tag, u>>)
      BY <1>2, <1>4, <1>14, <1>15, <1>21, IsHeld
    <2>2. n + 1 < policy.ways \/ n + 1 >= policy.ways
      BY <1>2
    <2>3. same => (Holds(after, <<tag, u>>) <=> n + 1 < policy.ways)
      BY <1>2, <1>10, <1>15, <2>2, IsHeld
    <2>4. n + 1 < policy.ways <=> n + 1 # policy.ways
      BY <1>2, <1>21
    <2> QED
      BY <1>18, <1>19, <1>20, <2>1, <2>3, <2>4
  <1> QED
    BY <1>1, <1>9, <1>17, <1>21 DEF TopKey

\* A link whose entry above is that of the link before changes nothing above.
LEMMA SameTop ==
  ASSUME Permuting, FirstHitKeeps(host.upper.policy), NEW m, IsWhole(m), m.pcid \in Nat,
         NEW pg, NEW g \in Nat, NEW x, Fills(m, x, pg, g), IsAged(m, Top(g), 0)
  PROVE  /\ \A tops : TopsKnown(m, tops) => TopsKnown(x, tops)
         /\ \A t \in Nat : \A n : IsAged(m, t, n) => IsAged(x, t, n)
         /\ Gone(m, g) = {}
  <1>1. PICK policy, tag, t, s :
          policy = host.upper.policy /\ tag = Tag(m.pcid) /\ t = Top(g) /\ s = UpperSet(t)
    OBVIOUS
  <1>2. host \in Hosts /\ Permutes(policy) /\ policy.ways \in Nat \ {0} /\ t \in Nat
    <2>1. host \in Hosts
      BY DEF Permuting
    <2>2. t \in Nat /\ policy.ways \in Nat \ {0}
      BY <1>1, <2>1, UpperIs
    <2> QED
      BY <1>1, <2>1, <2>2, PermutingIs
  <1>3. PICK set, after : set = m.upper[s] /\ after = Touch(policy, set, <<tag, t>>)
    OBVIOUS
  <1>4. s \in DOMAIN m.upper /\ IsSet(policy, set)
    BY <1>1, <1>2, <1>3, UpperSetIs
  <1>5. Tag(x.pcid) = tag /\ x.upper = [m.upper EXCEPT ![s] = after] /\ IsWhole(x)
    BY <1>1, <1>3 DEF Fills, UpperAfter
  <1>6. 0 \in Positions(policy) /\ set.line[0] = <<tag, t>>
        /\ \A w \in Positions(policy) : set.line[w] = <<tag, t>> => w = 0
    <2>1. Positions(policy) = 0 .. policy.ways - 1
      BY DEF Positions
    <2>2. 0 \in Positions(policy)
      BY <1>2, <2>1
    <2> QED
      BY <1>1, <1>3, <2>2 DEF IsAged, OnlyAt, Stands
  <1>7. Holds(set, <<tag, t>>) /\ WayOf(set, <<tag, t>>) = 0
    BY <1>4, <1>6 DEF Holds, WayOf, IsSet
  <1>8. IsSet(policy, after) /\ \A w \in Positions(policy) : after.line[w] = set.line[w]
    <2>1. /\ IsSet(policy, after)
          /\ \A w \in Positions(policy) : after.line[w] = set.line[policy.vectors[0][w]]
      BY <1>2, <1>3, <1>4, <1>7, TouchIs
    <2>2. \A w \in Positions(policy) : policy.vectors[0][w] = w
      BY <1>1 DEF FirstHitKeeps
    <2> QED
      BY <2>1, <2>2
  <1>9. /\ DOMAIN x.upper = DOMAIN m.upper
        /\ \A v \in DOMAIN m.upper : \A w \in Positions(policy) : x.upper[v].line[w] = m.upper[v].line[w]
    BY <1>3, <1>4, <1>5, <1>8
  <1>10. ASSUME NEW tops, TopsKnown(m, tops) PROVE TopsKnown(x, tops)
    BY <1>1, <1>5, <1>9, <1>10 DEF TopsKnown
  <1>11. ASSUME NEW v \in Nat, NEW n, IsAged(m, v, n) PROVE IsAged(x, v, n)
    <2>1. UpperSet(v) \in DOMAIN m.upper
      BY <1>2, UpperSetIs
    <2> QED
      BY <1>1, <1>5, <1>9, <1>11, <2>1 DEF IsAged, OnlyAt, Stands
  <1>12. ToSet(after.line) = ToSet(set.line)
    <2>1. DOMAIN after.line = Positions(policy) /\ DOMAIN set.line = Positions(policy)
      BY <1>4, <1>8 DEF IsSet
    <2> QED
      BY <1>8, <2>1 DEF ToSet
  <1>13. Gone(m, g) = {}
    BY <1>1, <1>3, <1>12 DEF Gone, UpperAfter
  <1> QED
    BY <1>10, <1>11, <1>13

--------------------------------------------------------------------------------
(* A walk of new entries ages the one that was primed *)

\* A walk of pages whose entries are all different.
Route(entry, f, n) ==
  /\ \A k \in 1 .. n : f[k] \in Nat /\ f[k] # entry
  /\ \A i, j \in 1 .. n : f[i] = f[j] => i = j
Seen(entry, f, k) == {entry} \cup {f[i] : i \in 1 .. k}
IsWalk(m, entry, f, n, at) ==
  /\ at[0] = m
  /\ \A k \in 1 .. n : at[k] = AccessPage(at[k - 1], <<f[k], 0>>)
  /\ \A k \in 0 .. n : Fresh(at[k], entry, Seen(entry, f, k)) /\ at[k].pcid = m.pcid

\* Each link of a route is new to the walk.
LEMMA RouteIsNew ==
  ASSUME NEW entry \in Nat, NEW n \in Nat, NEW f, Route(entry, f, n), NEW k \in 1 .. n
  PROVE  /\ k - 1 \in 0 .. n /\ k \in Nat /\ k - 1 \in Nat
         /\ f[k] \in Nat /\ f[k] \notin Seen(entry, f, k - 1) /\ entry \in Seen(entry, f, k - 1)
         /\ Seen(entry, f, k) = Seen(entry, f, k - 1) \cup {f[k]}
  <1>1. /\ k - 1 \in 0 .. n /\ k \in Nat /\ k - 1 \in Nat
        /\ 1 .. k = (1 .. k - 1) \cup {k} /\ 1 .. k - 1 \in SUBSET (1 .. n) /\ k \notin 1 .. k - 1
    OBVIOUS
  <1>2. f[k] \in Nat /\ f[k] # entry
    BY DEF Route
  <1>3. \A i \in 1 .. k - 1 : f[i] # f[k]
    BY <1>1 DEF Route
  <1>4. f[k] \notin Seen(entry, f, k - 1) /\ entry \in Seen(entry, f, k - 1)
    BY <1>2, <1>3 DEF Seen
  <1>5. Seen(entry, f, k) = Seen(entry, f, k - 1) \cup {f[k]}
    BY <1>1 DEF Seen
  <1> QED
    BY <1>1, <1>2, <1>4, <1>5

\* A walk is its reads, one after the other; each is of a new entry.
LEMMA Walked ==
  ASSUME Permuting, NEW entry \in Nat, NEW m, Fresh(m, entry, {entry}),
         NEW n \in Nat, NEW f, Route(entry, f, n),
         NEW pages, DOMAIN pages = 1 .. n, \A k \in 1 .. n : pages[k] = <<f[k], 0>>
  PROVE  \E at : IsWalk(m, entry, f, n, at) /\ ReadPages(m, pages) = at[n]
  <1>1. PICK at : Runs([of |-> "access"], m, pages, n, at) /\ ReadPages(m, pages) = at[n]
    BY AccessFold
  <1>2. at[0] = m /\ \A k \in 1 .. n : at[k] = AccessPage(at[k - 1], <<f[k], 0>>)
    BY <1>1 DEF Runs, Step
  <1> DEFINE P(k) == Fresh(at[k], entry, Seen(entry, f, k)) /\ at[k].pcid = m.pcid
             T == {k \in 0 .. n : ~ P(k)}
  <1>3. P(0)
    <2>1. Seen(entry, f, 0) = {entry}
      BY DEF Seen
    <2> QED
      BY <1>2, <2>1
  <1>4. ASSUME NEW k \in 1 .. n, P(k - 1) PROVE P(k)
    <2>1. PICK b, seen, g : b = at[k - 1] /\ seen = Seen(entry, f, k - 1) /\ g = f[k]
      OBVIOUS
    <2>2. g \in Nat /\ g \notin seen /\ entry \in seen /\ Seen(entry, f, k) = seen \cup {g}
      BY <2>1, RouteIsNew
    <2>3. Fresh(b, entry, seen)
      BY <1>4, <2>1
    <2>4. PICK x : x = AccessPage(b, <<g, 0>>)
      OBVIOUS
    <2>5. Fresh(x, entry, seen \cup {g}) /\ x.pcid = b.pcid
      BY <2>2, <2>3, <2>4, FreshKept
    <2>6. at[k] = x
      BY <1>2, <2>1, <2>4
    <2> QED
      BY <1>4, <2>1, <2>2, <2>5, <2>6
  <1>5. T = {}
    <2>1. SUFFICES ASSUME T # {} PROVE FALSE
      OBVIOUS
    <2>2. T \in SUBSET Nat
      OBVIOUS
    <2>3. PICK k \in T : \A y \in T : k <= y
      BY <2>1, <2>2, Minimum
    <2>4. k \in 0 .. n /\ ~ P(k)
      OBVIOUS
    <2> HIDE DEF P
    <2>5. k # 0
      BY <1>3, <2>4
    <2>6. k \in 1 .. n /\ k - 1 \in 0 .. n /\ ~ (k <= k - 1)
      BY <2>4, <2>5
    <2>7. P(k - 1)
      BY <2>3, <2>6
    <2> QED
      BY <1>4, <2>4, <2>6, <2>7
  <1>6. IsWalk(m, entry, f, n, at)
    BY <1>2, <1>5 DEF IsWalk
  <1> QED
    BY <1>1, <1>6

\* How many of the first k belong to a set of positions.
CountTo(A, k) == Cardinality(A \cap (1 .. k))

\* Counting goes up by one at the members of the set.
LEMMA CountStep ==
  ASSUME NEW A, NEW k \in Nat \ {0}
  PROVE  /\ CountTo(A, 0) = 0 /\ CountTo(A, k) \in Nat /\ CountTo(A, k - 1) \in Nat
         /\ CountTo(A, k) = IF k \in A THEN CountTo(A, k - 1) + 1 ELSE CountTo(A, k - 1)
  <1>1. \A j \in Nat : IsFiniteSet(A \cap (1 .. j)) /\ CountTo(A, j) \in Nat
    <2> TAKE j \in Nat
    <2>1. IsFiniteSet(1 .. j)
      BY FS_Interval
    <2>2. IsFiniteSet(A \cap (1 .. j))
      BY <2>1, FS_Subset
    <2> QED
      BY <2>2, FS_CardinalityType DEF CountTo
  <1>2. CountTo(A, 0) = 0
    <2>1. A \cap (1 .. 0) = {}
      OBVIOUS
    <2> QED
      BY <2>1, FS_EmptySet DEF CountTo
  <1>3. k - 1 \in Nat /\ k \notin 1 .. k - 1 /\ 1 .. k = (1 .. k - 1) \cup {k}
    OBVIOUS
  <1>4. CASE k \in A
    <2>1. A \cap (1 .. k) = (A \cap (1 .. k - 1)) \cup {k} /\ k \notin A \cap (1 .. k - 1)
      BY <1>3, <1>4
    <2>2. Cardinality((A \cap (1 .. k - 1)) \cup {k}) = Cardinality(A \cap (1 .. k - 1)) + 1
      BY <1>1, <1>3, <2>1, FS_AddElement
    <2> QED
      BY <1>1, <1>2, <1>3, <1>4, <2>1, <2>2 DEF CountTo
  <1>5. CASE k \notin A
    <2>1. A \cap (1 .. k) = A \cap (1 .. k - 1)
      BY <1>3, <1>5
    <2> QED
      BY <1>1, <1>2, <1>3, <1>5, <2>1 DEF CountTo
  <1> QED
    BY <1>4, <1>5

InOwnSet(entry, f, n) == {k \in 1 .. n : SameSet(entry, f[k])}
Unmoved(m, entry, f, n, at) ==
  InHugeTlb(entry) \/ \A k \in 1 .. n : TopKey(m, entry) \notin Gone(at[k - 1], f[k])

\* Each entry read into the set of the one that was primed makes it older.
LEMMA Ages ==
  ASSUME Permuting, NEW entry \in Nat, NEW m, NEW n \in Nat, NEW f, Route(entry, f, n),
         NEW at, IsWalk(m, entry, f, n, at),
         NEW policy, policy = OwnPolicy(entry), NEW key, key = Key(m, entry),
         OnlyAt(policy, SetAt(m, entry), key, 0), Stands(policy, SetAt(m, entry), key, 0),
         NEW A, A = InOwnSet(entry, f, n)
  PROVE  /\ OnlyAt(policy, SetAt(at[n], entry), key, CountTo(A, n))
         /\ Unmoved(m, entry, f, n, at) => Stands(policy, SetAt(at[n], entry), key, CountTo(A, n))
  <1> DEFINE P(k) == /\ OnlyAt(policy, SetAt(at[k], entry), key, CountTo(A, k))
                     /\ Unmoved(m, entry, f, n, at) =>
                          Stands(policy, SetAt(at[k], entry), key, CountTo(A, k))
             T == {k \in 0 .. n : ~ P(k)}
  <1>1. P(0)
    <2>1. CountTo(A, 0) = 0
      BY CountStep
    <2> QED
      BY <2>1 DEF IsWalk
  <1>2. ASSUME NEW k \in 1 .. n, P(k - 1) PROVE P(k)
    <2>1. PICK b, seen, g, c : /\ b = at[k - 1] /\ seen = Seen(entry, f, k - 1) /\ g = f[k]
                               /\ c = CountTo(A, k - 1)
      OBVIOUS
    <2>2. g \in Nat /\ g \notin seen /\ entry \in seen /\ k - 1 \in 0 .. n
      BY <2>1, RouteIsNew
    <2>3. Fresh(b, entry, seen) /\ b.pcid = m.pcid /\ at[k] = AccessPage(b, <<g, 0>>)
      BY <2>1, <2>2 DEF IsWalk
    <2>4. key = Key(b, entry) /\ TopKey(b, entry) = TopKey(m, entry)
      BY <2>3 DEF Key, TopKey
    <2>5. c \in Nat /\ CountTo(A, k) = IF SameSet(entry, g) THEN c + 1 ELSE c
      <3>1. k \in A <=> SameSet(entry, g)
        BY <2>1 DEF InOwnSet
      <3>2. k \in Nat \ {0}
        OBVIOUS
      <3> QED
        BY <2>1, <3>1, <3>2, CountStep
    <2>6. PICK before, after, age : /\ before = SetAt(b, entry) /\ after = SetAt(at[k], entry)
                                    /\ age = IF SameSet(entry, g) THEN c + 1 ELSE c
      OBVIOUS
    <2>7. /\ OnlyAt(policy, before, key, c) => OnlyAt(policy, after, key, age)
          /\ Stands(policy, before, key, c) /\ (InHugeTlb(entry) \/ TopKey(b, entry) \notin Gone(b, g))
               => Stands(policy, after, key, age)
      <3>1. after = SetAt(AccessPage(b, <<g, 0>>), entry)
        BY <2>3, <2>6
      <3> QED
        BY <2>2, <2>3, <2>4, <2>5, <2>6, <3>1, OwnStep
    <2>8. Unmoved(m, entry, f, n, at) => InHugeTlb(entry) \/ TopKey(b, entry) \notin Gone(b, g)
      BY <2>1, <2>4 DEF Unmoved
    <2> QED
      BY <1>2, <2>1, <2>5, <2>6, <2>7, <2>8
  <1>3. T = {}
    <2>1. SUFFICES ASSUME T # {} PROVE FALSE
      OBVIOUS
    <2>2. T \in SUBSET Nat
      OBVIOUS
    <2>3. PICK k \in T : \A y \in T : k <= y
      BY <2>1, <2>2, Minimum
    <2>4. k \in 0 .. n /\ ~ P(k)
      OBVIOUS
    <2> HIDE DEF P
    <2>5. k # 0
      BY <1>1, <2>4
    <2>6. k \in 1 .. n /\ k - 1 \in 0 .. n /\ ~ (k <= k - 1)
      BY <2>4, <2>5
    <2>7. P(k - 1)
      BY <2>3, <2>6
    <2> QED
      BY <1>2, <2>4, <2>6, <2>7
  <1>4. n \in 0 .. n
    OBVIOUS
  <1> HIDE DEF P
  <1>5. P(n)
    BY <1>3, <1>4
  <1> QED
    BY <1>5 DEF P

\* The entries above that a walk uses: each is new, or that of the link before.
TopsOf(entry, f, k) == {Top(entry)} \cup {Top(f[i]) : i \in 1 .. k}
Tidy(entry, f, n) ==
  \A k \in 1 .. n : \/ Top(f[k]) \notin TopsOf(entry, f, k - 1)
                    \/ /\ FirstHitKeeps(host.upper.policy)
                       /\ k - 1 \in 1 .. n /\ Top(f[k]) = Top(f[k - 1])
Crowds(entry, f, k) ==
  Top(f[k]) \notin TopsOf(entry, f, k - 1) /\ UpperSet(Top(f[k])) = UpperSet(Top(entry))
Rises(entry, f, n, u) ==
  u[0] = 0 /\ \A k \in 1 .. n : u[k] = IF Crowds(entry, f, k) THEN u[k - 1] + 1 ELSE u[k - 1]

\* The entry above the one that was primed goes with the last one its set has room for.
LEMMA TopsAge ==
  ASSUME Permuting, NEW entry \in Nat, NEW m, NEW n \in Nat, NEW f, Route(entry, f, n),
         Tidy(entry, f, n), NEW at, IsWalk(m, entry, f, n, at), NEW u, Rises(entry, f, n, u),
         TopsKnown(m, {Top(entry)}), IsAged(m, Top(entry), 0)
  PROVE  \A k \in 1 .. n :
           /\ u[k - 1] \in Nat
           /\ u[k - 1] < host.upper.policy.ways =>
                (TopKey(m, entry) \in Gone(at[k - 1], f[k])
                 <=> host.nested /\ u[k] = host.upper.policy.ways)
  <1> DEFINE P(k) == /\ u[k] \in Nat
                     /\ TopsKnown(at[k], TopsOf(entry, f, k)) /\ IsAged(at[k], Top(entry), u[k])
                     /\ k # 0 => IsAged(at[k], Top(f[k]), 0)
             Q(k) == u[k - 1] < host.upper.policy.ways =>
                       (TopKey(m, entry) \in Gone(at[k - 1], f[k])
                        <=> host.nested /\ u[k] = host.upper.policy.ways)
             T == {k \in 0 .. n : ~ P(k)}
  <1>1. P(0)
    <2>1. TopsOf(entry, f, 0) = {Top(entry)}
      BY DEF TopsOf
    <2>2. at[0] = m
      BY DEF IsWalk
    <2>3. u[0] = 0
      BY DEF Rises
    <2> QED
      BY <2>1, <2>2, <2>3
  <1>2. ASSUME NEW k \in 1 .. n, P(k - 1) PROVE P(k) /\ Q(k)
    <2>1. PICK b, x, g, c, pg, tops : /\ b = at[k - 1] /\ x = at[k] /\ g = f[k] /\ c = u[k - 1]
                                      /\ pg = <<g, 0>> /\ tops = TopsOf(entry, f, k - 1)
      OBVIOUS
    <2>2. g \in Nat /\ k - 1 \in 0 .. n /\ g \notin Seen(entry, f, k - 1) /\ entry \in Seen(entry, f, k - 1)
      BY <2>1, RouteIsNew
    <2>3. Fresh(b, entry, Seen(entry, f, k - 1)) /\ b.pcid = m.pcid /\ x = AccessPage(b, pg)
      BY <2>1, <2>2 DEF IsWalk
    <2>4. host \in Hosts /\ IsWhole(b) /\ b.pcid \in Nat
      BY <2>3 DEF Permuting, Fresh
    <2>5. Fills(b, x, pg, g)
      <3>1. IsNew(b, pg) /\ pg[1] = g
        BY <2>1, <2>2, <2>3, <2>4, NewIs
      <3> QED
        BY <2>2, <2>3, <2>4, <3>1, NewReadIs
    <2>6. /\ TopKey(b, entry) = TopKey(m, entry) /\ Top(entry) \in tops
          /\ TopsOf(entry, f, k) = tops \cup {Top(g)}
      <3>1. 1 .. k = (1 .. k - 1) \cup {k}
        OBVIOUS
      <3> QED
        BY <2>1, <2>3, <3>1 DEF TopKey, TopsOf
    <2>7. c \in Nat /\ TopsKnown(b, tops) /\ IsAged(b, Top(entry), c)
      BY <1>2, <2>1
    <2>8. u[k] = IF Top(g) \notin tops /\ UpperSet(Top(g)) = UpperSet(Top(entry)) THEN c + 1 ELSE c
      BY <2>1 DEF Rises, Crowds
    <2>9. PICK ways : ways = host.upper.policy.ways
      OBVIOUS
    <2>10. CASE Top(g) \notin tops
      <3>1. PICK same : same = (UpperSet(Top(g)) = UpperSet(Top(entry)))
        OBVIOUS
      <3>2. /\ TopsKnown(x, tops \cup {Top(g)})
            /\ IsAged(x, Top(entry), IF same THEN c + 1 ELSE c)
            /\ IsAged(x, Top(g), 0)
            /\ c < ways => (TopKey(b, entry) \in Gone(b, g) <=> host.nested /\ same /\ c + 1 = ways)
        <4>1. PICK policy, next : policy = host.upper.policy /\ next = IF same THEN c + 1 ELSE c
          OBVIOUS
        <4>2. /\ TopsKnown(x, tops \cup {Top(g)}) /\ IsAged(x, Top(entry), next)
              /\ IsAged(x, Top(g), 0)
              /\ c < policy.ways =>
                   (TopKey(b, entry) \in Gone(b, g) <=> host.nested /\ same /\ c + 1 = policy.ways)
          <5>1. /\ Permuting /\ IsWhole(b) /\ b.pcid \in Nat /\ g \in Nat /\ Fills(b, x, pg, g)
                /\ TopsKnown(b, tops) /\ Top(g) \notin tops
                /\ entry \in Nat /\ Top(entry) \in tops /\ c \in Nat /\ IsAged(b, Top(entry), c)
            BY <2>2, <2>4, <2>5, <2>6, <2>7, <2>10
          <5> QED
            BY ONLY <3>1, <4>1, <5>1, NewTop
        <4> QED
          BY <2>9, <4>1, <4>2
      <3>3. u[k] = IF same THEN c + 1 ELSE c
        BY <2>8, <2>10, <3>1
      <3>4. P(k)
        BY <2>1, <2>6, <2>7, <3>2, <3>3
      <3>5. c < ways => (same /\ c + 1 = ways <=> u[k] = ways)
        BY <2>7, <3>3, UpperIs, <2>4, <2>9
      <3>6. Q(k)
        BY <2>1, <2>6, <2>9, <3>2, <3>5
      <3> QED
        BY <3>4, <3>6
    <2>11. CASE Top(g) \in tops
      <3>1. FirstHitKeeps(host.upper.policy) /\ k - 1 \in 1 .. n /\ Top(g) = Top(f[k - 1])
        BY <2>1, <2>11 DEF Tidy
      <3>2. IsAged(b, Top(g), 0)
        BY <1>2, <2>1, <3>1
      <3>3. Top(g) \in Nat /\ Top(entry) \in Nat
        BY <2>2, <2>4, UpperIs
      <3>4. /\ \A tops_ : TopsKnown(b, tops_) => TopsKnown(x, tops_)
            /\ \A t \in Nat : \A j : IsAged(b, t, j) => IsAged(x, t, j)
            /\ Gone(b, g) = {}
        BY <2>2, <2>4, <2>5, <3>1, <3>2, SameTop
      <3>5. u[k] = c /\ tops \cup {Top(g)} = tops
        BY <2>8, <2>11
      <3>6. P(k)
        BY <2>1, <2>6, <2>7, <3>2, <3>3, <3>4, <3>5
      <3>7. c < ways => c # ways
        BY <2>7, <2>4, <2>9, UpperIs
      <3>8. Q(k)
        BY <2>1, <2>9, <3>4, <3>5, <3>7
      <3> QED
        BY <3>6, <3>8
    <2> QED
      BY <2>10, <2>11
  <1>3. T = {}
    <2>1. SUFFICES ASSUME T # {} PROVE FALSE
      OBVIOUS
    <2>2. T \in SUBSET Nat
      OBVIOUS
    <2>3. PICK k \in T : \A y \in T : k <= y
      BY <2>1, <2>2, Minimum
    <2>4. k \in 0 .. n /\ ~ P(k)
      OBVIOUS
    <2> HIDE DEF P, Q
    <2>5. k # 0
      BY <1>1, <2>4
    <2>6. k \in 1 .. n /\ k - 1 \in 0 .. n /\ ~ (k <= k - 1)
      BY <2>4, <2>5
    <2>7. P(k - 1)
      BY <2>3, <2>6
    <2> QED
      BY <1>2, <2>4, <2>6, <2>7
  <1>4. ASSUME NEW k \in 1 .. n PROVE u[k - 1] \in Nat /\ Q(k)
    <2>1. k - 1 \in 0 .. n
      OBVIOUS
    <2> HIDE DEF Q
    <2>2. P(k - 1)
      BY <1>3, <2>1
    <2> QED
      BY <1>2, <2>2
  <1> QED
    BY <1>4

\* After the prime its entry is the newest of its set, and so is the one above.
LEMMA PrimedIs ==
  ASSUME Permuting, NEW m, IsWhole(m), m.pcid \in Nat, NEW entry \in Nat, IsPrimed(m, entry)
  PROVE  /\ Fresh(m, entry, {entry})
         /\ OnlyAt(OwnPolicy(entry), SetAt(m, entry), Key(m, entry), 0)
         /\ Stands(OwnPolicy(entry), SetAt(m, entry), Key(m, entry), 0)
         /\ TopsKnown(m, {Top(entry)}) /\ IsAged(m, Top(entry), 0)
  <1>1. PICK tag, key, t, set, policy, upper :
          /\ tag = Tag(m.pcid) /\ key = Key(m, entry) /\ t = Top(entry)
          /\ set = SetAt(m, entry) /\ policy = OwnPolicy(entry) /\ upper = host.upper.policy
    OBVIOUS
  <1>2. key = <<tag, entry>> /\ Key(m, entry \div Fan) = <<tag, t>>
    BY <1>1 DEF Key, Top
  <1>3. /\ m.swapped = entry /\ key \notin m.wrong
        /\ \A x \in m.tlb : x.pcid = m.pcid => x.page = <<entry, 0>> /\ ~ IsHuge(entry)
        /\ \A line \in LinesOf(m) \cup ToSet(m.huge.line) : line[1] = tag => line = key
        /\ \A w \in DOMAIN set.line : set.line[w] = key <=> w = 0
        /\ \A line \in Tops(m) : line[1] = tag => line = <<tag, t>>
        /\ \A s \in DOMAIN m.upper : \A w \in Positions(upper) :
             m.upper[s].line[w] = <<tag, t>> <=> s = UpperSet(t) /\ w = 0
    BY <1>1, <1>2 DEF IsPrimed, Top, UpperSet
  <1>4. Fresh(m, entry, {entry})
    BY <1>1, <1>3 DEF Fresh
  <1>5. DOMAIN set.line = Positions(policy)
    BY <1>1, SetsAre DEF Permuting, IsSet
  <1>6. OnlyAt(policy, set, key, 0) /\ Stands(policy, set, key, 0)
    BY <1>3, <1>5 DEF OnlyAt, Stands
  <1>7. t \in Nat /\ host \in Hosts
    BY <1>1, UpperIs DEF Permuting
  <1>8. \A s \in DOMAIN m.upper : DOMAIN m.upper[s].line = Positions(upper)
    BY <1>1 DEF IsWhole, IsUpper, IsSet
  <1>9. \A s \in DOMAIN m.upper : \A w \in Positions(upper) : m.upper[s].line[w] \in Tops(m)
    BY <1>8 DEF Tops, ToSet
  <1>10. TopsKnown(m, {t})
    BY <1>1, <1>3, <1>9 DEF TopsKnown
  <1>11. UpperSet(t) \in DOMAIN m.upper
    BY <1>7, UpperSetIs
  <1>12. IsAged(m, t, 0)
    BY <1>1, <1>3, <1>11 DEF IsAged, OnlyAt, Stands
  <1> QED
    BY <1>1, <1>4, <1>6, <1>10, <1>12

\* The page that is probed is one that the TLB does not know.
Probes(entry, pg) == pg = <<entry, 511>> \/ (IsHuge(entry) /\ pg = <<entry, 0>>)

\* The probe sees the switch just when no cache answers for the entry.
LEMMA ProbeAfter ==
  ASSUME NEW m, NEW entry, NEW seen, Fresh(m, entry, seen), NEW pg, Probes(entry, pg)
  PROVE  Swapped(m, pg) <=> ~ Holds(SetAt(m, entry), Key(m, entry))
  <1>1. pg[1] = entry
    BY DEF Probes
  <1>2. {t \in m.tlb : t.pcid = m.pcid /\ t.page = pg} = {}
    BY DEF Fresh, Probes
  <1> QED
    BY <1>1, <1>2 DEF Fresh, Swapped

IsRoute(pages, f, n) == DOMAIN pages = 1 .. n /\ \A k \in 1 .. n : pages[k] = <<f[k], 0>>

\* What a walk leaves of the entry that was primed: it is gone when its own set has
\* been filled or, on a nested machine, when the last link fills the set above; it is
\* there when neither is filled.
LEMMA WalkEnds ==
  ASSUME Permuting, NEW m, IsWhole(m), m.pcid \in Nat, NEW entry \in Nat, IsPrimed(m, entry),
         NEW n \in Nat, NEW f, Route(entry, f, n), NEW pages, IsRoute(pages, f, n),
         NEW pg, Probes(entry, pg), NEW c, c = CountTo(InOwnSet(entry, f, n), n),
         NEW ways, ways = OwnPolicy(entry).ways
  PROVE  /\ c >= ways => Swapped(ReadPages(m, pages), pg)
         /\ c < ways /\ (InHugeTlb(entry) \/ ~ host.nested) => ~ Swapped(ReadPages(m, pages), pg)
         /\ \A u : Tidy(entry, f, n) /\ Rises(entry, f, n, u) =>
              /\ c < ways /\ (\A k \in 0 .. n : u[k] < host.upper.policy.ways)
                   => ~ Swapped(ReadPages(m, pages), pg)
              /\ n # 0 /\ host.nested /\ ~ InHugeTlb(entry)
                   /\ u[n - 1] < host.upper.policy.ways /\ u[n] = host.upper.policy.ways
                   => Swapped(ReadPages(m, pages), pg)
  <1>1. PICK policy, key, A, x : /\ policy = OwnPolicy(entry) /\ key = Key(m, entry)
                                 /\ A = InOwnSet(entry, f, n) /\ x = ReadPages(m, pages)
    OBVIOUS
  <1>2. /\ Fresh(m, entry, {entry})
        /\ OnlyAt(policy, SetAt(m, entry), key, 0) /\ Stands(policy, SetAt(m, entry), key, 0)
        /\ TopsKnown(m, {Top(entry)}) /\ IsAged(m, Top(entry), 0)
    BY <1>1, PrimedIs
  <1>3. PICK at : IsWalk(m, entry, f, n, at) /\ x = at[n]
    BY <1>1, <1>2, Walked DEF IsRoute
  <1>4. n \in 0 .. n
    OBVIOUS
  <1>5. Fresh(x, entry, Seen(entry, f, n)) /\ x.pcid = m.pcid /\ key = Key(x, entry)
    BY <1>1, <1>3, <1>4 DEF IsWalk, Key
  <1>6. /\ OnlyAt(policy, SetAt(x, entry), key, c)
        /\ Unmoved(m, entry, f, n, at) => Stands(policy, SetAt(x, entry), key, c)
    BY <1>1, <1>2, <1>3, Ages
  <1>7. c \in Nat
    <2>1. n + 1 \in Nat \ {0} /\ (n + 1) - 1 = n
      OBVIOUS
    <2> QED
      BY <2>1, CountStep
  <1>8. host \in Hosts /\ IsWhole(x) /\ Permutes(policy) /\ IsSet(policy, SetAt(x, entry))
    BY <1>1, <1>5, SetsAre DEF Permuting, Fresh
  <1>9. /\ c >= ways => ~ Holds(SetAt(x, entry), key)
        /\ c < ways /\ Unmoved(m, entry, f, n, at) => Holds(SetAt(x, entry), key)
    BY <1>1, <1>6, <1>7, <1>8, IsHeld
  <1>10. Swapped(x, pg) <=> ~ Holds(SetAt(x, entry), key)
    BY <1>5, ProbeAfter
  <1>11. InHugeTlb(entry) \/ ~ host.nested => Unmoved(m, entry, f, n, at)
    BY DEF Unmoved, Gone
  <1>12. ASSUME NEW u, Tidy(entry, f, n), Rises(entry, f, n, u)
         PROVE  /\ c < ways /\ (\A k \in 0 .. n : u[k] < host.upper.policy.ways)
                     => ~ Swapped(x, pg)
                /\ n # 0 /\ host.nested /\ ~ InHugeTlb(entry)
                     /\ u[n - 1] < host.upper.policy.ways /\ u[n] = host.upper.policy.ways
                     => Swapped(x, pg)
    <2>1. \A k \in 1 .. n :
            /\ u[k - 1] \in Nat
            /\ u[k - 1] < host.upper.policy.ways =>
                 (TopKey(m, entry) \in Gone(at[k - 1], f[k])
                  <=> host.nested /\ u[k] = host.upper.policy.ways)
      BY <1>2, <1>3, <1>12, TopsAge
    <2>2. ASSUME c < ways, \A k \in 0 .. n : u[k] < host.upper.policy.ways
          PROVE  ~ Swapped(x, pg)
      <3>1. \A k \in 1 .. n : k \in 0 .. n /\ k - 1 \in 0 .. n
        OBVIOUS
      <3>2. \A k \in 1 .. n : TopKey(m, entry) \notin Gone(at[k - 1], f[k])
        <4> TAKE k \in 1 .. n
        <4>1. u[k - 1] < host.upper.policy.ways /\ u[k] < host.upper.policy.ways
          BY <2>2, <3>1
        <4>2. PICK high, r : high = host.upper.policy.ways /\ r = u[k]
          OBVIOUS
        <4>3. high \in Nat
          BY <1>8, <4>2, UpperIs
        <4>4. r # high
          <5>1. r < high
            BY <4>1, <4>2
          <5> QED
            BY <4>3, <5>1
        <4> QED
          BY <2>1, <4>1, <4>2, <4>4
      <3>3. Unmoved(m, entry, f, n, at)
        BY <3>2 DEF Unmoved
      <3> QED
        BY <1>9, <1>10, <2>2, <3>3
    <2>3. ASSUME n # 0, host.nested, ~ InHugeTlb(entry),
                 u[n - 1] < host.upper.policy.ways, u[n] = host.upper.policy.ways
          PROVE  Swapped(x, pg)
      <3>1. n \in 1 .. n /\ n - 1 \in 0 .. n
        BY <2>3
      <3>2. TopKey(m, entry) \in Gone(at[n - 1], f[n])
        BY <2>1, <2>3, <3>1
      <3>3. PICK b, g, seen : b = at[n - 1] /\ g = f[n] /\ seen = Seen(entry, f, n - 1)
        OBVIOUS
      <3>4. Fresh(b, entry, seen) /\ b.pcid = m.pcid /\ x = AccessPage(b, <<g, 0>>)
        BY <1>3, <3>1, <3>3 DEF IsWalk
      <3>5. g \in Nat /\ g \notin seen /\ entry \in seen
        BY <3>1, <3>3, RouteIsNew
      <3>6. key = Key(b, entry) /\ TopKey(b, entry) = TopKey(m, entry)
        BY <1>1, <3>4 DEF Key, TopKey
      <3>7. ~ Holds(SetAt(x, entry), key)
        <4>1. PICK before, after : before = SetAt(b, entry) /\ after = SetAt(x, entry)
          OBVIOUS
        <4>2. PICK age : age = IF SameSet(entry, g) THEN n + 1 ELSE n
          OBVIOUS
        <4>3. ~ InHugeTlb(entry) /\ TopKey(b, entry) \in Gone(b, g)
          BY <2>3, <3>2, <3>3, <3>6
        <4>4. ~ InHugeTlb(entry) /\ TopKey(b, entry) \in Gone(b, g) => ~ Holds(after, key)
          BY <1>1, <3>4, <3>5, <3>6, <4>1, <4>2, OwnStep
        <4> QED
          BY <4>1, <4>3, <4>4
      <3> QED
        BY <1>10, <3>7
    <2> QED
      BY <2>2, <2>3
  <1> QED
    BY <1>1, <1>9, <1>10, <1>11, <1>12

--------------------------------------------------------------------------------
(* The chains of the experiments *)

\* Arithmetic of entries: f of them share the entry above.
LEMMA MulMono ==
  ASSUME NEW a \in Nat, NEW b \in Nat, NEW c \in Nat, c > 0, a < b
  PROVE  a * c < b * c
  OBVIOUS
LEMMA DivMul ==
  ASSUME NEW a \in Nat, NEW f \in Nat, f > 0
  PROVE  (a * f) \div f = a
  OBVIOUS
LEMMA ModMul ==
  ASSUME NEW a \in Nat, NEW f \in Nat, f > 0
  PROVE  (a * f) % f = 0
  OBVIOUS
LEMMA DivSmall ==
  ASSUME NEW a \in Nat, NEW f \in Nat, f > 0, a < f
  PROVE  a \div f = 0
  OBVIOUS
LEMMA DivMono ==
  ASSUME NEW a \in Nat, NEW b \in Nat, NEW f \in Nat, f > 0, a <= b
  PROVE  a \div f <= b \div f
  OBVIOUS
LEMMA DivLess ==
  ASSUME NEW a \in Nat, NEW n \in Nat, NEW f \in Nat, f > 0, a < n * f
  PROVE  a \div f < n
  OBVIOUS

\* The links counted by InSetOf are those that make the target older.
LEMMA Counted ==
  ASSUME host \in Hosts, NEW target, ~ InHugeTlb(target), NEW n \in Nat, NEW f, NEW pages,
         IsRoute(pages, f, n), NEW c, c = CountTo(InOwnSet(target, f, n), n)
  PROVE  /\ c \in Nat /\ InSetOf(target, pages) \in Nat /\ c <= InSetOf(target, pages)
         /\ (\A k \in 1 .. n : ~ InHugeTlb(f[k])) => c = InSetOf(target, pages)
         /\ (\A k \in 1 .. n : InHugeTlb(f[k])) => c = 0
  <1>1. PICK A, B, sets : /\ A = InOwnSet(target, f, n) \cap (1 .. n) /\ sets = host.lower.sets
                          /\ B = {k \in 1 .. n : f[k] % sets = target % sets}
    OBVIOUS
  <1>2. c = Cardinality(A)
    BY <1>1 DEF CountTo
  <1>3. InSetOf(target, pages) = Cardinality(B)
    <2>1. {k \in DOMAIN pages : pages[k][1] % sets = target % sets} = B
      BY <1>1 DEF IsRoute
    <2> QED
      BY <1>1, <2>1 DEF InSetOf
  <1>4. IsFiniteSet(1 .. n)
    BY FS_Interval
  <1>5. A \subseteq B /\ B \subseteq 1 .. n
    BY <1>1 DEF InOwnSet, SameSet
  <1>6. /\ IsFiniteSet(A) /\ IsFiniteSet(B) /\ Cardinality(A) \in Nat /\ Cardinality(B) \in Nat
        /\ Cardinality(A) <= Cardinality(B)
    <2>1. IsFiniteSet(B)
      BY <1>4, <1>5, FS_Subset
    <2> QED
      BY <1>5, <2>1, FS_Subset, FS_CardinalityType
  <1>7. (\A k \in 1 .. n : ~ InHugeTlb(f[k])) => A = B
    BY <1>1 DEF InOwnSet, SameSet
  <1>8. (\A k \in 1 .. n : InHugeTlb(f[k])) => c = 0
    <2>1. (\A k \in 1 .. n : InHugeTlb(f[k])) => A = {}
      BY <1>1 DEF InOwnSet, SameSet
    <2> QED
      BY <1>2, <2>1, FS_EmptySet
  <1> QED
    BY <1>2, <1>3, <1>6, <1>7, <1>8

\* The chain of test_nesting goes from entry above to entry above of one set.
LEMMA NestingChainIs ==
  ASSUME host \in Hosts
  PROVE  \E n \in Nat :
           /\ IsRoute(NestingChain, [k \in 1 .. n |-> (k * host.upper.sets) * Fan], n)
           /\ Len(NestingChain) = n /\ n <= host.upper.policy.ways
  <1>1. PICK links : links = {o \in 1 .. host.upper.policy.ways : o * host.upper.sets < TopEntries}
    OBVIOUS
  <1>2. host.upper.policy.ways \in Nat
    BY UpperIs
  <1>3. PICK n : n = Cardinality(links)
    OBVIOUS
  <1>4. n \in Nat /\ n <= host.upper.policy.ways
    <2>1. PICK ways : ways = host.upper.policy.ways
      OBVIOUS
    <2>2. ways \in Nat /\ ways # 0
      BY <2>1, UpperIs
    <2>3. IsFiniteSet(1 .. ways) /\ Cardinality(1 .. ways) = ways
      BY <2>2, FS_Interval
    <2>4. links \subseteq 1 .. ways
      BY <1>1, <2>1
    <2>5. IsFiniteSet(links) /\ Cardinality(links) <= Cardinality(1 .. ways)
      BY <2>3, <2>4, FS_Subset
    <2> QED
      BY <1>3, <2>1, <2>3, <2>5, FS_CardinalityType
  <1> DEFINE page(k) == <<(k * host.upper.sets) * Fan, 0>>
             S == {page(k) : k \in 1 .. n}
  <1>5. NestingChain = [k \in 1 .. n |-> page(k)]
    BY <1>1, <1>3 DEF NestingChain
  <1>6. NestingChain \in Seq(S) /\ Len(NestingChain) = n
    <2> HIDE DEF page
    <2> QED
      BY <1>4, <1>5
  <1>7. IsRoute(NestingChain, [k \in 1 .. n |-> (k * host.upper.sets) * Fan], n)
    BY <1>5 DEF IsRoute
  <1> QED
    BY <1>4, <1>6, <1>7

IsReady(m) == Permuting /\ IsWhole(m) /\ m.pcid \in Nat

\* test_nesting: the links are the entries of one set of the level above.
LEMMA NestingProbe ==
  ASSUME NEW m, IsReady(m), NEW target \in Targets, target < Fan, IsPrimed(m, target)
  PROVE  LET pg == <<target, 511>>
         IN  /\ Evicts(1, target) => Swapped(ReadPages(m, NestingChain), pg)
             /\ Keeps(1, target) => ~ Swapped(ReadPages(m, NestingChain), pg)
  <1>1. PICK pg, sets, fan, high : /\ pg = <<target, 511>> /\ sets = host.upper.sets /\ fan = Fan
                                   /\ high = host.upper.policy.ways
    OBVIOUS
  <1>2. /\ host \in Hosts /\ sets \in Nat /\ sets > 0 /\ fan \in Nat /\ fan > 0
        /\ high \in Nat /\ high # 0 /\ target \in Nat /\ ~ InHugeTlb(target)
    BY <1>1, UpperIs, TargetIs DEF IsReady, Permuting
  <1>3. PICK n \in Nat : /\ IsRoute(NestingChain, [k \in 1 .. n |-> (k * sets) * fan], n)
                         /\ Len(NestingChain) = n
    BY <1>1, <1>2, NestingChainIs
  <1>4. PICK f : f = [k \in 1 .. n |-> (k * sets) * fan]
    OBVIOUS
  <1>5. \A k \in 1 .. n : k * sets \in Nat /\ k * sets > 0 /\ f[k] = (k * sets) * fan /\ f[k] \in Nat
    <2> TAKE k \in 1 .. n
    <2>1. k \in Nat /\ k > 0
      OBVIOUS
    <2>2. k * sets \in Nat /\ k * sets > 0
      BY <1>2, <2>1, MulMono
    <2>3. (k * sets) * fan \in Nat
      BY <1>2, <2>2
    <2> QED
      BY <1>4, <2>2, <2>3
  <1>6. \A k \in 1 .. n : Top(f[k]) = k * sets
    BY <1>1, <1>2, <1>5, DivMul DEF Top
  <1>7. Top(target) = 0
    BY <1>1, <1>2, DivSmall DEF Top
  <1>8. \A i, j \in 1 .. n : i # j => Top(f[i]) # Top(f[j])
    <2>1. \A i, j \in 1 .. n : i < j => i * sets < j * sets
      BY <1>2, MulMono
    <2> QED
      BY <1>2, <1>5, <1>6, <2>1
  <1>9. Route(target, f, n)
    BY <1>5, <1>6, <1>7, <1>8 DEF Route
  <1>10. \A k \in 1 .. n : Crowds(target, f, k)
    <2> TAKE k \in 1 .. n
    <2>1. \A i \in 1 .. k - 1 : i \in 1 .. n /\ i # k
      OBVIOUS
    <2>2. Top(f[k]) \notin TopsOf(target, f, k - 1)
      BY <1>5, <1>6, <1>7, <1>8, <2>1 DEF TopsOf
    <2>3. (k * sets) % sets = 0 /\ 0 % sets = 0
      BY <1>2, ModMul
    <2> QED
      BY <1>1, <1>6, <1>7, <2>2, <2>3 DEF Crowds, UpperSet
  <1>11. Tidy(target, f, n)
    BY <1>10 DEF Tidy, Crowds
  <1>12. PICK u : u = [k \in 0 .. n |-> k]
    OBVIOUS
  <1>13. Rises(target, f, n, u)
    <2>1. u[0] = 0 /\ \A k \in 1 .. n : u[k] = u[k - 1] + 1
      BY <1>12
    <2> QED
      BY <1>10, <2>1 DEF Rises
  <1>14. PICK c, ways : c = CountTo(InOwnSet(target, f, n), n) /\ ways = host.lower.policy.ways
    OBVIOUS
  <1>15. ways = OwnPolicy(target).ways
    BY <1>2, <1>14 DEF OwnPolicy
  <1>16. IsRoute(NestingChain, f, n) /\ Probes(target, pg)
    BY <1>1, <1>3, <1>4 DEF Probes
  <1>17. /\ c < ways /\ (InHugeTlb(target) \/ ~ host.nested) => ~ Swapped(ReadPages(m, NestingChain), pg)
         /\ \A v : Tidy(target, f, n) /\ Rises(target, f, n, v) =>
              (n # 0 /\ host.nested /\ ~ InHugeTlb(target)
                 /\ v[n - 1] < host.upper.policy.ways /\ v[n] = host.upper.policy.ways
                 => Swapped(ReadPages(m, NestingChain), pg))
    <2>1. Permuting /\ IsWhole(m) /\ m.pcid \in Nat /\ target \in Nat
      BY <1>2 DEF IsReady
    <2> QED
      BY <1>9, <1>14, <1>15, <1>16, <2>1, WalkEnds
  <1>18. ASSUME Evicts(1, target) PROVE Swapped(ReadPages(m, NestingChain), pg)
    <2>1. host.nested /\ n = high
      BY <1>1, <1>3, <1>18 DEF Evicts
    <2>2. n # 0 /\ u[n - 1] = n - 1 /\ u[n] = n
      BY <1>2, <1>12, <2>1
    <2> QED
      BY <1>1, <1>2, <1>11, <1>13, <1>17, <2>1, <2>2
  <1>19. ASSUME Keeps(1, target) PROVE ~ Swapped(ReadPages(m, NestingChain), pg)
    <2>1. ~ host.nested /\ InSetOf(target, NestingChain) < ways
      BY <1>14, <1>19 DEF Keeps
    <2>2. c \in Nat /\ InSetOf(target, NestingChain) \in Nat /\ c <= InSetOf(target, NestingChain)
      BY <1>2, <1>14, <1>16, Counted
    <2>3. ways \in Nat
      BY <1>2, <1>14, SessionAssumption DEF IsPolicy
    <2> QED
      BY <1>17, <2>1, <2>2, <2>3
  <1> QED
    BY <1>1, <1>18, <1>19

\* Huge pages lie beyond the targets and share no entry above with them.
LEMMA HugeIs ==
  /\ HugeBase \in Nat /\ HugePages \in Nat /\ HugePages >= 2 /\ Fan \in Nat /\ Fan > 0
  /\ \A g \in Nat : g >= HugeBase => IsHuge(g) /\ (InHugeTlb(g) <=> ~ host.unified)
  /\ \A target \in Targets : target \in Nat /\ target < HugeBase
  /\ \A target \in Targets, g \in Nat : g >= HugeBase => Top(target) # Top(g)
  <1>1. PICK fan, base, all : fan = Fan /\ base = HugeBase /\ all = TopEntries * Fan
    OBVIOUS
  <1>2. /\ fan \in Nat /\ fan > 0 /\ base \in Nat /\ all \in Nat /\ base >= all
        /\ base % fan = 0 /\ HugePages \in Nat /\ HugePages >= 2
    <2>1. TopEntries \in Nat /\ Fan \in Nat
      BY LateAssumption
    <2>2. all \in Nat
      BY <1>1, <2>1
    <2> QED
      BY <1>1, <2>2, LateAssumption
  <1>3. \A g \in Nat : g >= base => IsHuge(g) /\ (InHugeTlb(g) <=> ~ host.unified)
    BY <1>1 DEF IsHuge, InHugeTlb
  <1>4. \A target \in Targets : target \in Nat /\ target < base
    BY <1>1, <1>2, LateAssumption
  <1>5. ASSUME NEW target \in Targets, NEW g \in Nat, g >= base PROVE Top(target) # Top(g)
    <2>1. PICK tops : tops = base \div fan
      OBVIOUS
    <2>2. tops \in Nat /\ base = tops * fan
      BY <1>2, <2>1
    <2>3. target \div fan < tops
      BY <1>2, <1>4, <2>2, DivLess
    <2>4. tops <= g \div fan
      BY <1>2, <1>5, <2>1, DivMono
    <2>5. g \div fan \in Nat /\ target \div fan \in Nat
      BY <1>2, <1>4
    <2> QED
      BY <1>1, <2>2, <2>3, <2>4, <2>5 DEF Top
  <1> QED
    BY <1>1, <1>2, <1>3, <1>4, <1>5

\* The entries above that are used by the first k links and share the target's set.
TopsWith(target, f, k) ==
  {t \in {Top(f[i]) : i \in 1 .. k} : UpperSet(t) = UpperSet(Top(target))}

\* The entries above of the links, one by one, are those TopsInSetOf counts.
LEMMA TopsCounted ==
  ASSUME NEW target, NEW n \in Nat, NEW f, \A k \in 1 .. n : Top(f[k]) # Top(target),
         NEW u, u = [k \in 0 .. n |-> Cardinality(TopsWith(target, f, k))]
  PROVE  /\ Rises(target, f, n, u)
         /\ \A k \in 0 .. n : u[k] \in Nat /\ u[k] <= u[n]
  <1>1. \A k \in 0 .. n : IsFiniteSet(TopsWith(target, f, k))
    <2> TAKE k \in 0 .. n
    <2>1. IsFiniteSet(1 .. k)
      BY FS_Interval
    <2>2. IsFiniteSet({Top(f[i]) : i \in 1 .. k})
      <3>1. PICK h, S : h = [i \in 1 .. k |-> Top(f[i])] /\ S = {Top(f[i]) : i \in 1 .. k}
        OBVIOUS
      <3>2. h \in Surjection(1 .. k, S)
        BY <3>1 DEF Surjection
      <3>3. IsFiniteSet(S)
        BY <2>1, <3>2, FS_Surjection
      <3> QED
        BY <3>1, <3>3
    <2>3. TopsWith(target, f, k) \subseteq {Top(f[i]) : i \in 1 .. k}
      BY DEF TopsWith
    <2> QED
      BY <2>2, <2>3, FS_Subset
  <1>2. ASSUME NEW k \in 0 .. n PROVE u[k] \in Nat /\ u[k] <= u[n]
    <2>1. n \in 0 .. n /\ 1 .. k \subseteq 1 .. n
      OBVIOUS
    <2>2. TopsWith(target, f, k) \subseteq TopsWith(target, f, n)
      BY <2>1 DEF TopsWith
    <2>3. /\ Cardinality(TopsWith(target, f, k)) \in Nat
          /\ Cardinality(TopsWith(target, f, k)) <= Cardinality(TopsWith(target, f, n))
      BY <1>1, <2>1, <2>2, FS_Subset, FS_CardinalityType
    <2> QED
      BY <2>1, <2>3
  <1>3. u[0] = 0
    <2>1. TopsWith(target, f, 0) = {}
      BY DEF TopsWith
    <2> QED
      BY <2>1, FS_EmptySet
  <1>4. ASSUME NEW k \in 1 .. n
        PROVE  u[k] = IF Crowds(target, f, k) THEN u[k - 1] + 1 ELSE u[k - 1]
    <2>1. k - 1 \in 0 .. n /\ k \in 0 .. n /\ 1 .. k = (1 .. k - 1) \cup {k}
      OBVIOUS
    <2>2. PICK before, t : before = TopsWith(target, f, k - 1) /\ t = Top(f[k])
      OBVIOUS
    <2>3. TopsWith(target, f, k) =
            IF UpperSet(t) = UpperSet(Top(target)) THEN before \cup {t} ELSE before
      BY <2>1, <2>2 DEF TopsWith
    <2>4. UpperSet(t) = UpperSet(Top(target)) => (Crowds(target, f, k) <=> t \notin before)
      BY <2>2 DEF Crowds, TopsOf, TopsWith
    <2>5. t \notin before => Cardinality(before \cup {t}) = Cardinality(before) + 1
      BY <1>1, <2>1, <2>2, FS_AddElement
    <2>6. t \in before => before \cup {t} = before
      OBVIOUS
    <2>7. UpperSet(t) # UpperSet(Top(target)) => ~ Crowds(target, f, k)
      BY <2>2 DEF Crowds
    <2>8. u[k] = Cardinality(TopsWith(target, f, k)) /\ u[k - 1] = Cardinality(before)
      BY <2>1, <2>2
    <2> QED
      BY <2>3, <2>4, <2>5, <2>6, <2>7, <2>8
  <1> QED
    BY <1>2, <1>3, <1>4 DEF Rises

\* The chain of huge pages goes up, and leaves out the second.
LEMMA HugeChainIs ==
  LET f == [k \in 1 .. HugePages - 1 |-> HugeBase + (IF k = 1 THEN 0 ELSE k)]
  IN  /\ IsRoute(HugeChain, f, HugePages - 1)
      /\ \A k \in 1 .. HugePages - 1 : f[k] \in Nat /\ f[k] >= HugeBase
      /\ \A i, j \in 1 .. HugePages - 1 : i < j => f[i] < f[j]
  <1>1. PICK base, n : base = HugeBase /\ n = HugePages - 1
    OBVIOUS
  <1>2. base \in Nat /\ n \in Nat
    BY <1>1, HugeIs
  <1>3. PICK f : f = [k \in 1 .. n |-> base + (IF k = 1 THEN 0 ELSE k)]
    OBVIOUS
  <1>4. \A k \in 1 .. n : f[k] \in Nat /\ f[k] >= base
    BY <1>2, <1>3
  <1>5. \A i, j \in 1 .. n : i < j => f[i] < f[j]
    BY <1>2, <1>3
  <1>6. IsRoute(HugeChain, f, n)
    BY <1>1, <1>3 DEF IsRoute, HugeChain
  <1> QED
    BY <1>1, <1>3, <1>4, <1>5, <1>6

\* test_huge_tlb: the huge pages use the target's set if the cache is unified, and
\* the entries above them its upper one's.
LEMMA HugeProbe ==
  ASSUME NEW m, IsReady(m), NEW target \in Targets, IsPrimed(m, target)
  PROVE  LET pg == <<target, 511>>
         IN  /\ Evicts(2, target) => Swapped(ReadPages(m, HugeChain), pg)
             /\ Keeps(2, target) => ~ Swapped(ReadPages(m, HugeChain), pg)
  <1>1. PICK pg, n, f, high :
          /\ pg = <<target, 511>> /\ n = HugePages - 1 /\ high = host.upper.policy.ways
          /\ f = [k \in 1 .. n |-> HugeBase + (IF k = 1 THEN 0 ELSE k)]
    OBVIOUS
  <1>2. /\ IsRoute(HugeChain, f, n)
        /\ \A k \in 1 .. n : f[k] \in Nat /\ f[k] >= HugeBase
        /\ \A i, j \in 1 .. n : i < j => f[i] < f[j]
    BY <1>1, HugeChainIs
  <1>3. host \in Hosts /\ target \in Nat /\ target < HugeBase /\ ~ InHugeTlb(target) /\ n \in Nat
    BY <1>1, TargetIs, HugeIs DEF IsReady, Permuting
  <1>4. Route(target, f, n)
    <2>1. \A k \in 1 .. n : f[k] # target
      BY <1>2, <1>3, HugeIs
    <2>2. \A i, j \in 1 .. n : f[i] = f[j] => i = j
      BY <1>2
    <2> QED
      BY <1>2, <2>1, <2>2 DEF Route
  <1>5. PICK c, ways : c = CountTo(InOwnSet(target, f, n), n) /\ ways = host.lower.policy.ways
    OBVIOUS
  <1>6. ways = OwnPolicy(target).ways /\ ways \in Nat /\ ways # 0
    BY <1>3, <1>5, SessionAssumption DEF OwnPolicy, IsPolicy
  <1>7. /\ c \in Nat
        /\ host.unified => c = InSetOf(target, HugeChain)
        /\ ~ host.unified => c = 0
    <2>1. /\ c \in Nat
          /\ (\A k \in 1 .. n : ~ InHugeTlb(f[k])) => c = InSetOf(target, HugeChain)
          /\ (\A k \in 1 .. n : InHugeTlb(f[k])) => c = 0
      BY <1>2, <1>3, <1>5, Counted
    <2>2. \A k \in 1 .. n : InHugeTlb(f[k]) <=> ~ host.unified
      BY <1>2, HugeIs
    <2> QED
      BY <2>1, <2>2
  <1>8. /\ c >= ways => Swapped(ReadPages(m, HugeChain), pg)
        /\ c < ways /\ (InHugeTlb(target) \/ ~ host.nested) => ~ Swapped(ReadPages(m, HugeChain), pg)
        /\ \A v : Tidy(target, f, n) /\ Rises(target, f, n, v) =>
             (c < ways /\ (\A k \in 0 .. n : v[k] < host.upper.policy.ways)
                => ~ Swapped(ReadPages(m, HugeChain), pg))
    <2>1. Permuting /\ IsWhole(m) /\ m.pcid \in Nat
      BY DEF IsReady
    <2>2. Probes(target, pg)
      BY <1>1 DEF Probes
    <2> QED
      BY <1>2, <1>3, <1>4, <1>5, <1>6, <2>1, <2>2, WalkEnds
  <1>9. ASSUME Evicts(2, target) PROVE Swapped(ReadPages(m, HugeChain), pg)
    <2>1. host.unified /\ InSetOf(target, HugeChain) >= ways
      BY <1>5, <1>9 DEF Evicts
    <2> QED
      BY <1>7, <1>8, <2>1
  <1>10. ASSUME Keeps(2, target) PROVE ~ Swapped(ReadPages(m, HugeChain), pg)
    <2>1. /\ ~ host.unified
          /\ host.nested => /\ FirstHitKeeps(host.upper.policy)
                            /\ TopsInSetOf(target, HugeChain) < high
      BY <1>1, <1>10 DEF Keeps
    <2>2. c < ways
      BY <1>6, <1>7, <2>1
    <2>3. CASE ~ host.nested
      BY <1>8, <2>2, <2>3
    <2>4. CASE host.nested
      <3>1. \A i, j \in 1 .. n : i <= j => f[i] <= f[j]
        BY <1>2
      <3>2. \A i, j \in 1 .. n : i <= j => Top(f[i]) <= Top(f[j])
        <4>1. PICK fan : fan = Fan
          OBVIOUS
        <4> QED
          BY <1>2, <3>1, <4>1, HugeIs, DivMono DEF Top
      <3>3. \A k \in 1 .. n : Top(f[k]) # Top(target) /\ Top(f[k]) \in Nat
        BY <1>2, <1>3, HugeIs, UpperIs
      <3>4. Tidy(target, f, n)
        <4>1. ASSUME NEW k \in 1 .. n, Top(f[k]) \in TopsOf(target, f, k - 1)
              PROVE  k - 1 \in 1 .. n /\ Top(f[k]) = Top(f[k - 1])
          <5>1. PICK i \in 1 .. k - 1 : Top(f[k]) = Top(f[i])
            BY <3>3, <4>1 DEF TopsOf
          <5>2. k - 1 \in 1 .. n /\ i \in 1 .. n /\ i <= k - 1 /\ k - 1 <= k
            BY <1>3
          <5>3. Top(f[i]) <= Top(f[k - 1]) /\ Top(f[k - 1]) <= Top(f[k])
            BY <3>2, <5>2
          <5>4. Top(f[i]) \in Nat /\ Top(f[k - 1]) \in Nat
            BY <3>3, <5>2
          <5> QED
            BY <5>1, <5>2, <5>3, <5>4
        <4> QED
          BY <2>1, <2>4, <4>1 DEF Tidy
      <3>5. PICK u : u = [k \in 0 .. n |-> Cardinality(TopsWith(target, f, k))]
        OBVIOUS
      <3>6. Rises(target, f, n, u) /\ \A k \in 0 .. n : u[k] \in Nat /\ u[k] <= u[n]
        BY <1>3, <3>3, <3>5, TopsCounted
      <3>7. n \in 0 .. n /\ u[n] < high
        <4>1. \A k \in 1 .. n : HugeChain[k][1] = f[k]
          BY <1>2 DEF IsRoute
        <4>2. {HugeChain[k][1] \div Fan : k \in DOMAIN HugeChain} = {Top(f[k]) : k \in 1 .. n}
          BY <1>2, <4>1 DEF IsRoute, Top
        <4>3. TopsInSetOf(target, HugeChain) = Cardinality(TopsWith(target, f, n))
          BY <4>2 DEF TopsInSetOf, TopsWith, UpperSet, Top
        <4>4. n \in 0 .. n
          BY <1>3
        <4> QED
          BY <2>1, <2>4, <3>5, <4>3, <4>4
      <3>8. high \in Nat /\ \A k \in 0 .. n : u[k] < high
        <4>1. high \in Nat
          BY <1>1, <1>3, UpperIs
        <4> QED
          BY <3>6, <3>7, <4>1
      <3> QED
        BY <1>1, <1>8, <2>2, <3>4, <3>6, <3>8
    <2> QED
      BY <2>3, <2>4
  <1> QED
    BY <1>1, <1>9, <1>10

\* test_huge_page_eviction: the other huge pages but one follow the first.
LEMMA EvictionProbe ==
  ASSUME NEW m, IsReady(m), NEW target, IsPrimed(m, HugeBase)
  PROVE  LET pg == <<HugeBase, 0>>
         IN  /\ Evicts(3, target) => Swapped(ReadPages(m, Tail(HugeChain)), pg)
             /\ Keeps(3, target) => ~ Swapped(ReadPages(m, Tail(HugeChain)), pg)
  <1>1. PICK pg, n, f, g, base, size :
          /\ pg = <<HugeBase, 0>> /\ n = HugePages - 2 /\ base = HugeBase /\ size = host.hugeEntries
          /\ g = [k \in 1 .. HugePages - 1 |-> HugeBase + (IF k = 1 THEN 0 ELSE k)]
          /\ f = [k \in 1 .. n |-> base + (k + 1)]
    OBVIOUS
  <1>2. host \in Hosts /\ base \in Nat /\ n \in Nat /\ HugePages \in Nat /\ size \in Nat /\ size # 0
    BY <1>1, HugeIs, SessionAssumption DEF IsReady, Permuting
  <1>3. DOMAIN HugeChain = 1 .. n + 1 /\ \A k \in 1 .. n + 1 : HugeChain[k] = <<g[k], 0>>
    <2>1. n + 1 = HugePages - 1
      BY <1>1, <1>2
    <2> QED
      BY <1>1, <2>1, HugeChainIs DEF IsRoute
  <1>4. IsRoute(Tail(HugeChain), f, n)
    <2>1. PICK S : S = {HugeChain[k] : k \in 1 .. n + 1}
      OBVIOUS
    <2>2. HugeChain = [k \in 1 .. n + 1 |-> HugeChain[k]]
      BY <1>1, <1>2, <1>3 DEF HugeChain
    <2>3. HugeChain \in Seq(S) /\ Len(HugeChain) = n + 1
      <3>1. \A k \in 1 .. n + 1 : HugeChain[k] \in S
        BY <2>1
      <3>2. n + 1 \in Nat
        BY <1>2
      <3>3. PICK chain_ : chain_ = HugeChain
        OBVIOUS
      <3>4. chain_ \in [1 .. n + 1 -> S]
        BY <2>2, <3>1, <3>3
      <3>5. chain_ \in Seq(S) /\ Len(chain_) = n + 1
        BY <3>2, <3>4
      <3> QED
        BY <3>3, <3>5
    <2>4. PICK chain_ : chain_ = HugeChain
      OBVIOUS
    <2>5. /\ DOMAIN Tail(chain_) = 1 .. n
          /\ \A k \in 1 .. n : Tail(chain_)[k] = chain_[k + 1]
      BY <1>2, <2>3, <2>4
    <2>6. \A k \in 1 .. n : k + 1 \in 1 .. n + 1 /\ g[k + 1] = f[k]
      BY <1>1, <1>2
    <2> QED
      BY <1>3, <2>4, <2>5, <2>6 DEF IsRoute
  <1>5. \A k \in 1 .. n : f[k] \in Nat /\ f[k] > base
    BY <1>1, <1>2
  <1>6. Route(base, f, n)
    <2>1. \A i, j \in 1 .. n : f[i] = f[j] => i = j
      BY <1>1, <1>2
    <2>2. \A k \in 1 .. n : f[k] # base
      BY <1>2, <1>5
    <2> QED
      BY <1>5, <2>1, <2>2 DEF Route
  <1>7. PICK c, ways : c = CountTo(InOwnSet(base, f, n), n) /\ ways = OwnPolicy(base).ways
    OBVIOUS
  <1>8. /\ c >= ways => Swapped(ReadPages(m, Tail(HugeChain)), pg)
        /\ c < ways /\ (InHugeTlb(base) \/ ~ host.nested) => ~ Swapped(ReadPages(m, Tail(HugeChain)), pg)
    <2>1. Permuting /\ IsWhole(m) /\ m.pcid \in Nat
      BY DEF IsReady
    <2>2. Probes(base, pg) /\ IsPrimed(m, base)
      BY <1>1, <1>2, HugeIs DEF Probes
    <2> QED
      BY <1>2, <1>4, <1>6, <1>7, <2>1, <2>2, WalkEnds
  <1>9. ~ host.unified => InHugeTlb(base) /\ ways = size /\ c = n
    <2>1. SUFFICES ASSUME ~ host.unified PROVE InHugeTlb(base) /\ ways = size /\ c = n
      OBVIOUS
    <2>2. InHugeTlb(base) /\ \A k \in 1 .. n : InHugeTlb(f[k])
      BY <1>1, <1>2, <1>5, <2>1, HugeIs
    <2>3. ways = size
      BY <1>1, <1>2, <1>7, <2>2, LruIs DEF OwnPolicy
    <2>4. InOwnSet(base, f, n) \cap (1 .. n) = 1 .. n
      BY <2>2 DEF InOwnSet, SameSet
    <2>5. Cardinality(1 .. n) = n
      <3>1. Cardinality(1 .. n) = IF 1 > n THEN 0 ELSE n - 1 + 1
        BY <1>2, FS_Interval
      <3> QED
        BY <1>2, <3>1
    <2> QED
      BY <1>7, <2>2, <2>3, <2>4, <2>5 DEF CountTo
  <1>10. ASSUME Evicts(3, target) PROVE Swapped(ReadPages(m, Tail(HugeChain)), pg)
    <2>1. ~ host.unified /\ size + 2 <= HugePages
      BY <1>1, <1>10 DEF Evicts
    <2>2. n >= size
      BY <1>1, <1>2, <2>1
    <2> QED
      BY <1>8, <1>9, <2>1, <2>2
  <1>11. ASSUME Keeps(3, target) PROVE ~ Swapped(ReadPages(m, Tail(HugeChain)), pg)
    <2>1. ~ host.unified /\ size + 2 > HugePages
      BY <1>1, <1>11 DEF Keeps
    <2>2. n < size
      BY <1>1, <1>2, <2>1
    <2> QED
      BY <1>8, <1>9, <2>1, <2>2
  <1> QED
    BY <1>1, <1>10, <1>11

--------------------------------------------------------------------------------
(* The page that is primed is the only one *)

\* A flush leaves nothing under the PCID in CR3.
LEMMA FlushIsFresh ==
  ASSUME Permuting, NEW m, IsWhole(m), IsRecent(m.recent), m.pcid \in Nat, m.swapped = -1
  PROVE  LET x == FlushAll(m)
         IN  Fresh(x, -1, {}) /\ TopsKnown(x, {}) /\ IsWhole(x) /\ x.pcid = m.pcid
  <1>1. PICK x, p : p = m.pcid /\ x = SetCr3(m, p, FALSE)
    OBVIOUS
  <1>2. host \in Hosts /\ p \in Nat
    BY <1>1 DEF Permuting
  <1>3. /\ IsWhole(x) /\ x.pcid = p /\ x.swapped = -1 /\ IsClean(x)
        /\ \A line \in Tops(x) \cup ToSet(x.huge.line) : line[1] # Tag(p)
    BY <1>1, <1>2, LoadIsWhole
  <1>4. \A key \in x.wrong : key[1] # Tag(p)
    <2>1. PICK gone : gone = Forgotten(m, p) \cup {p}
      OBVIOUS
    <2>2. Without(m, x, gone)
      BY <1>1, <1>2, <2>1, Cr3Effect DEF IsWhole
    <2>3. Tag(p) \in Tags(gone)
      BY <2>1 DEF Tags, Tag
    <2> QED
      BY <2>2, <2>3 DEF Without
  <1>5. Fresh(x, -1, {})
    <2>1. Key(x, -1) \notin x.wrong
      BY <1>3, <1>4 DEF Key
    <2>2. \A line \in LinesOf(x) \cup ToSet(x.huge.line) : line[1] # Tag(x.pcid)
      BY <1>3 DEF IsClean
    <2> QED
      BY <1>2, <1>3, <2>1, <2>2 DEF Fresh, IsClean
  <1>6. TopsKnown(x, {})
    <2>1. \A s \in DOMAIN x.upper : \A w \in Positions(host.upper.policy) :
            x.upper[s].line[w] \in Tops(x)
      BY <1>3 DEF IsWhole, IsUpper, IsSet, Tops, ToSet
    <2> QED
      BY <1>3, <2>1 DEF TopsKnown
  <1> QED
    BY <1>1, <1>3, <1>5, <1>6 DEF FlushAll

\* What is read then, and switched, is the only page there is.
LEMMA PrimingIs ==
  ASSUME Permuting, NEW m, Fresh(m, -1, {}), TopsKnown(m, {}), NEW entry \in Nat
  PROVE  LET x == [AccessPage(m, <<entry, 0>>) EXCEPT !.swapped = entry]
         IN  IsWhole(x) /\ x.pcid = m.pcid /\ IsPrimed(x, entry)
  <1>1. PICK pg, y, x : /\ pg = <<entry, 0>> /\ y = AccessPage(m, pg)
                        /\ x = [y EXCEPT !.swapped = entry]
    OBVIOUS
  <1>2. host \in Hosts /\ IsWhole(m) /\ m.pcid \in Nat
    BY DEF Permuting, Fresh
  <1>3. Fresh(y, -1, {entry}) /\ y.pcid = m.pcid
    BY <1>1, FreshKept
  <1>4. IsNew(m, pg)
    BY <1>1, <1>2, NewIs
  <1>5. Fills(m, y, pg, entry)
    BY <1>1, <1>2, <1>4, NewReadIs
  <1>6. TopsKnown(y, {Top(entry)}) /\ IsAged(y, Top(entry), 0)
    <2>1. /\ TopsKnown(y, {} \cup {Top(entry)}) /\ IsAged(y, Top(entry), 0)
      BY <1>2, <1>5, TopEnters
    <2> QED
      BY <2>1
  <1>7. PICK policy, set, tag, t :
          policy = OwnPolicy(entry) /\ set = SetAt(y, entry) /\ tag = Tag(y.pcid) /\ t = Top(entry)
    OBVIOUS
  <1>8. PICK key : key = <<tag, entry>>
    OBVIOUS
  <1>9. DOMAIN set.line = Positions(policy) /\ \A w \in Positions(policy) : set.line[w] = key <=> w = 0
    <2>1. PICK thin : thin = ThinSet(m, entry, entry)
      OBVIOUS
    <2>2. set = Touch(policy, thin, key)
      <3>1. SameSet(entry, entry) /\ Key(m, entry) = key
        BY <1>3, <1>7, <1>8 DEF SameSet, Key
      <3>2. SetAt(y, entry) = IF SameSet(entry, entry)
                              THEN Touch(OwnPolicy(entry), ThinSet(m, entry, entry), Key(m, entry))
                              ELSE ThinSet(m, entry, entry)
        BY <1>1, <1>2, <1>4, OwnSetAfter
      <3> QED
        BY <1>7, <2>1, <3>1, <3>2
    <2>3. /\ IsSet(policy, thin)
          /\ \A w \in Positions(policy) :
               thin.line[w] = NoLine(w) \/ thin.line[w] = SetAt(m, entry).line[w]
      BY <1>2, <1>7, <2>1, ThinIs
    <2>4. \A w \in Positions(policy) : thin.line[w] # key
      <3>1. \A w \in Positions(policy) : SetAt(m, entry).line[w][1] # tag
        BY <1>2, <1>3, <1>7, SetsAre DEF Fresh
      <3>2. tag # -1
        BY <1>2, <1>3, <1>7, TagIs
      <3> QED
        BY <1>8, <2>3, <3>1, <3>2 DEF NoLine
    <2>5. Permutes(policy)
      BY <1>2, <1>7, SetsAre DEF Permuting
    <2>6. ~ Holds(thin, key)
      BY <2>3, <2>4 DEF Holds, IsSet
    <2>7. IsSet(policy, set) /\ \A w \in Positions(policy) :
            set.line[w] = IF w = 0 THEN key ELSE thin.line[w - 1]
      BY <2>2, <2>3, <2>5, <2>6, TouchIs
    <2>8. \A w \in Positions(policy) : w # 0 => w - 1 \in Positions(policy)
      <3>1. policy.ways \in Nat /\ Positions(policy) = 0 .. policy.ways - 1
        BY <2>5 DEF Permutes, IsPolicy, Positions
      <3> QED
        BY <3>1
    <2> QED
      BY <2>4, <2>7, <2>8 DEF IsSet
  <1>10. /\ IsMmu(x) /\ x.swapped = entry /\ x.pcid = y.pcid /\ x.tlb = y.tlb /\ x.wrong = y.wrong
         /\ x.lower = y.lower /\ x.upper = y.upper /\ x.huge = y.huge
    BY <1>1, <1>3 DEF Fresh, IsWhole, IsMmu
  <1>11. IsWhole(x)
    BY <1>3, <1>10 DEF Fresh, IsWhole, IsLower, IsUpper
  <1>12. /\ LinesOf(x) = LinesOf(y) /\ Tops(x) = Tops(y) /\ SetAt(x, entry) = set
         /\ Key(x, entry) = key /\ Key(x, entry \div Fan) = <<tag, t>> /\ Key(y, entry) = key
    BY <1>7, <1>8, <1>10 DEF LinesOf, Tops, SetAt, Key, Top
  <1>13. key \notin x.wrong
    <2>1. Key(m, entry) = key
      BY <1>3, <1>7, <1>8 DEF Key
    <2> QED
      BY <1>5, <1>10, <2>1 DEF Fills
  <1>14. /\ \A u \in x.tlb : u.pcid = x.pcid => u.page = <<entry, 0>> /\ ~ IsHuge(entry)
         /\ \A line \in LinesOf(x) \cup ToSet(x.huge.line) : line[1] = tag => line = key
    BY <1>3, <1>7, <1>10, <1>12 DEF Fresh
  <1>15. /\ \A line \in Tops(x) : line[1] = tag => line = <<tag, t>>
         /\ \A s \in DOMAIN x.upper : \A w \in Positions(host.upper.policy) :
              x.upper[s].line[w] = <<tag, t>> <=> s = UpperSet(t) /\ w = 0
    <2>1. \A s \in DOMAIN x.upper : \A w \in Positions(host.upper.policy) :
            x.upper[s].line[w][1] = tag => x.upper[s].line[w] = <<tag, t>> /\ s = UpperSet(t)
      BY <1>6, <1>7, <1>10 DEF TopsKnown
    <2>2. \A s \in DOMAIN x.upper : DOMAIN x.upper[s].line = Positions(host.upper.policy)
      BY <1>11 DEF IsWhole, IsUpper, IsSet
    <2>3. \A line \in Tops(x) : line[1] = tag => line = <<tag, t>>
      <3> TAKE line \in Tops(x)
      <3>1. PICK s \in DOMAIN x.upper : line \in ToSet(x.upper[s].line)
        BY DEF Tops
      <3>2. PICK w \in Positions(host.upper.policy) : line = x.upper[s].line[w]
        BY <2>2, <3>1 DEF ToSet
      <3> QED
        BY <2>1, <3>2
    <2>4. /\ \A w \in Positions(host.upper.policy) : x.upper[UpperSet(t)].line[w] = <<tag, t>> => w = 0
          /\ 0 \in Positions(host.upper.policy) => x.upper[UpperSet(t)].line[0] = <<tag, t>>
      BY <1>6, <1>7, <1>10 DEF IsAged, OnlyAt, Stands
    <2> QED
      BY <2>1, <2>3, <2>4
  <1>16. IsPrimed(x, entry)
    BY <1>7, <1>8, <1>9, <1>10, <1>12, <1>13, <1>14, <1>15 DEF IsPrimed, UpperSet, Top, Key
  <1> QED
    BY <1>1, <1>3, <1>10, <1>11, <1>16

--------------------------------------------------------------------------------
(* The steps of the experiments that walk a chain *)

EntryOf(n, target) == IF n = 3 THEN HugeBase ELSE target
ProbedPage(n, target) == IF n = 3 THEN <<HugeBase, 0>> ELSE <<target, 511>>

\* The first three experiments of LateProgram, by their number.
LEMMA WalkExperiment ==
  ASSUME running \in 1 .. 7
  PROVE  /\ running <= 3 =>
              /\ ~ UsesPcids /\ Experiment.pcids # "count"
              /\ Experiment = TestNesting <=> running = 1
              /\ Experiment.huge <=> running = 3
              /\ \A target : /\ PrimePage(target) = <<EntryOf(running, target), 0>>
                             /\ GoalEntry(target) = EntryOf(running, target)
                             /\ ProbePage(target) = ProbedPage(running, target)
              /\ Chased = IF running = 1 THEN NestingChain
                          ELSE IF running = 2 THEN HugeChain ELSE Tail(HugeChain)
         /\ LateProgram[1].name = "nesting" /\ LateProgram[2].name = "huge_tlb"
         /\ LateProgram[3].name = "huge_eviction"
  <1>1. /\ LateProgram[1].name = "nesting" /\ LateProgram[2].name = "huge_tlb"
        /\ LateProgram[3].name = "huge_eviction"
    BY DEF LateProgram, TestNesting, TestHugeTlb, TestHugePageEviction
  <1>2. running <= 3 => running \in {1, 2, 3}
    OBVIOUS
  <1>3. /\ running = 1 => Experiment = TestNesting
        /\ running = 2 => Experiment = TestHugeTlb
        /\ running = 3 => Experiment = TestHugePageEviction
    BY DEF Experiment, LateProgram
  <1>4. TestHugeTlb # TestNesting /\ TestHugePageEviction # TestNesting
    <2>1. /\ TestNesting.name = "nesting" /\ TestHugeTlb.name = "huge_tlb"
          /\ TestHugePageEviction.name = "huge_eviction"
      BY DEF TestNesting, TestHugeTlb, TestHugePageEviction
    <2> QED
      BY <2>1
  <1>5. running <= 3 => /\ Experiment.pcids = "none"
                        /\ Experiment = TestNesting <=> running = 1
                        /\ Experiment.huge <=> running = 3
                        /\ Experiment.walk = IF running = 1 THEN "upper" ELSE "huge"
    BY <1>2, <1>3, <1>4 DEF TestNesting, TestHugeTlb, TestHugePageEviction
  <1>6. running <= 3 =>
          \A target : /\ PrimePage(target) = <<EntryOf(running, target), 0>>
                      /\ GoalEntry(target) = EntryOf(running, target)
                      /\ ProbePage(target) = ProbedPage(running, target)
    BY <1>5 DEF PrimePage, GoalEntry, ProbePage, EntryOf, ProbedPage
  <1>7. running <= 3 => Chased = IF running = 1 THEN NestingChain
                                 ELSE IF running = 2 THEN HugeChain ELSE Tail(HugeChain)
    BY <1>5 DEF Chased
  <1> QED
    BY <1>1, <1>5, <1>6, <1>7 DEF UsesPcids

\* The entry that is primed and the page that is probed.
LEMMA EntryIs ==
  ASSUME NEW n \in 1 .. 3, NEW target \in TargetsOf(n)
  PROVE  /\ target \in Targets /\ (n = 1 => target < Fan)
         /\ EntryOf(n, target) \in Nat /\ ProbedPage(n, target)[1] = EntryOf(n, target)
  BY TargetIs, HugeIs DEF TargetsOf, EntryOf, ProbedPage

\* What the chain leaves for the probe.
LEMMA ChainProbe ==
  ASSUME NEW m, IsReady(m), running \in 1 .. 3, NEW target \in TargetsOf(running),
         IsPrimed(m, EntryOf(running, target))
  PROVE  LET x == ReadPages(m, Chased)
         IN  /\ Evicts(running, target) => Swapped(x, ProbedPage(running, target))
             /\ Keeps(running, target) => ~ Swapped(x, ProbedPage(running, target))
  <1>1. running \in {1, 2, 3} /\ target \in Targets
    BY EntryIs
  <1>2. CASE running = 1
    <2>1. Chased = NestingChain /\ target < Fan
      BY <1>2, WalkExperiment, EntryIs
    <2>2. IsPrimed(m, target) /\ ProbedPage(running, target) = <<target, 511>>
      BY <1>2 DEF EntryOf, ProbedPage
    <2>3. /\ Evicts(1, target) => Swapped(ReadPages(m, NestingChain), <<target, 511>>)
          /\ Keeps(1, target) => ~ Swapped(ReadPages(m, NestingChain), <<target, 511>>)
      BY <1>1, <2>1, <2>2, NestingProbe
    <2> QED
      BY <1>2, <2>1, <2>2, <2>3
  <1>3. CASE running = 2
    <2>1. Chased = HugeChain
      BY <1>3, WalkExperiment
    <2>2. IsPrimed(m, target) /\ ProbedPage(running, target) = <<target, 511>>
      BY <1>3 DEF EntryOf, ProbedPage
    <2>3. /\ Evicts(2, target) => Swapped(ReadPages(m, HugeChain), <<target, 511>>)
          /\ Keeps(2, target) => ~ Swapped(ReadPages(m, HugeChain), <<target, 511>>)
      BY <1>1, <2>2, HugeProbe
    <2> QED
      BY <1>3, <2>1, <2>2, <2>3
  <1>4. CASE running = 3
    <2>1. Chased = Tail(HugeChain)
      BY <1>4, WalkExperiment
    <2>2. IsPrimed(m, HugeBase) /\ ProbedPage(running, target) = <<HugeBase, 0>>
      BY <1>4 DEF EntryOf, ProbedPage
    <2>3. /\ Evicts(3, target) => Swapped(ReadPages(m, Tail(HugeChain)), <<HugeBase, 0>>)
          /\ Keeps(3, target) => ~ Swapped(ReadPages(m, Tail(HugeChain)), <<HugeBase, 0>>)
      BY <2>2, EvictionProbe
    <2> QED
      BY <1>4, <2>1, <2>2, <2>3
  <1> QED
    BY <1>1, <1>2, <1>3, <1>4

\* A walk leaves sets that are well formed.
LEMMA WalkKeepsWhole ==
  ASSUME host \in Hosts, NEW m, IsWhole(m),
         NEW pages, NEW n \in Nat, DOMAIN pages = 1 .. n, \A k \in 1 .. n : pages[k][1] \in Nat
  PROVE  IsWhole(ReadPages(m, pages))
  <1>1. PICK at : Runs([of |-> "access"], m, pages, n, at) /\ ReadPages(m, pages) = at[n]
    BY AccessFold
  <1>2. at[0] = m /\ \A k \in 1 .. n : at[k] = AccessPage(at[k - 1], pages[k])
    BY <1>1 DEF Runs, Step
  <1> DEFINE T == {k \in 0 .. n : ~ IsWhole(at[k])}
  <1>3. T = {}
    <2> SUFFICES ASSUME T # {} PROVE FALSE
      OBVIOUS
    <2>1. PICK k \in T : \A j \in T : k <= j
      <3>1. T \in SUBSET Nat
        OBVIOUS
      <3> HIDE DEF T
      <3> QED
        BY <3>1, Minimum
    <2>2. k \in 1 .. n
      BY <1>2, <2>1
    <2>3. k - 1 \in 0 .. n /\ ~ (k <= k - 1)
      BY <2>2
    <2>4. IsWhole(at[k - 1])
      BY <2>1, <2>3
    <2>5. PICK before, pg : before = at[k - 1] /\ pg = pages[k]
      OBVIOUS
    <2>6. IsWhole(AccessPage(before, pg))
      BY <2>2, <2>4, <2>5, ReadIsWhole
    <2> QED
      BY <1>2, <2>1, <2>2, <2>5, <2>6
  <1> QED
    BY <1>1, <1>3

--------------------------------------------------------------------------------
(* What WalkingInv says of a machine and of the counters *)

WalkAt(m, at, n, target, i, k) ==
  /\ IsUpper(m)
  /\ at # "idle" => /\ i \in 0 .. LateIterations /\ k \in Nat
                    /\ AllEvict(n) => k = i
                    /\ AllKeep(n) => k = 0
  /\ at \in {"chase", "probe"} => i < LateIterations /\ target \in TargetsOf(n)
  /\ at = "chase" => IsPrimed(m, EntryOf(n, target))
  /\ at = "probe" => /\ Evicts(n, target) => Swapped(m, ProbedPage(n, target))
                     /\ Keeps(n, target) => ~ Swapped(m, ProbedPage(n, target))

\* WalkingInv says it of the session's own variables,
LEMMA WalkIs ==
  ASSUME running \in 1 .. 7
  PROVE  WalkingInv <=> (running <= 3 => WalkAt(mmu, lateStep, running, goal, round, missed))
  <1>1. running <= 3 => GoalEntry(goal) = EntryOf(running, goal)
                        /\ ProbePage(goal) = ProbedPage(running, goal)
    BY WalkExperiment
  <1> QED
    BY <1>1 DEF WalkingInv, WalkAt

\* and of their next values.
LEMMA WalkNext ==
  ASSUME host' = host, running' \in 1 .. 7,
         NEW m, m = mmu', NEW at, at = lateStep', NEW n, n = running', NEW target, target = goal',
         NEW i, i = round', NEW k, k = missed'
  PROVE  WalkingInv' <=> (n <= 3 => WalkAt(m, at, n, target, i, k))
  <1>1. n <= 3 => (GoalEntry(goal))' = EntryOf(n, target) /\ (ProbePage(goal))' = ProbedPage(n, target)
    <2>1. n <= 3 => n \in {1, 2, 3}
      OBVIOUS
    <2>2. n <= 3 => ((Experiment.huge)' <=> n = 3)
      BY <2>1 DEF Experiment, LateProgram, TestNesting, TestHugeTlb, TestHugePageEviction
    <2> QED
      BY <2>2 DEF GoalEntry, PrimePage, ProbePage, EntryOf, ProbedPage
  <1>2. IsUpper(mmu)' <=> IsUpper(m)
    BY DEF IsUpper
  <1>3. (AllEvict(running)' <=> AllEvict(n)) /\ (AllKeep(running)' <=> AllKeep(n))
    BY DEF AllEvict, AllKeep, TargetsOf, Evicts, Keeps, NestingChain, InSetOf, FirstHitKeeps,
           TopsInSetOf
  <1>4. /\ Evicts(running, goal)' <=> Evicts(n, target)
        /\ Keeps(running, goal)' <=> Keeps(n, target)
        /\ TargetsOf(running)' = TargetsOf(n)
    BY DEF TargetsOf, Evicts, Keeps, NestingChain, InSetOf, FirstHitKeeps, TopsInSetOf
  <1>5. n <= 3 => (Swapped(mmu, ProbePage(goal))' <=> Swapped(m, ProbedPage(n, target)))
    BY <1>1 DEF Swapped, SetAt, InHugeTlb, Holds, Key, Tag
  <1>6. n <= 3 => (IsPrimed(mmu, GoalEntry(goal))' <=> IsPrimed(m, EntryOf(n, target)))
    BY <1>1 DEF IsPrimed, SetAt, InHugeTlb, Key, Tag, LinesOf, Tops
  <1> QED
    BY <1>2, <1>3, <1>4, <1>5, <1>6 DEF WalkingInv, WalkAt

\* Which entries a chain evicts depends on the host only.
LEMMA EvictionsNext ==
  ASSUME host' = host
  PROVE  \A n : (AllEvict(n)' <=> AllEvict(n)) /\ (AllKeep(n)' <=> AllKeep(n))
  BY DEF AllEvict, AllKeep, TargetsOf, Evicts, Keeps, NestingChain, InSetOf, FirstHitKeeps,
         TopsInSetOf

\* A verdict stays true while no other takes its place.
LEMMA WalkedKept ==
  ASSUME host' = host, verdict' = verdict, running' = running, WalkedInv
  PROVE  WalkedInv'
  <1> SUFFICES ASSUME NEW n \in 1 .. 3, n < running
               PROVE  /\ AllEvict(n)' => verdict[LateProgram[n].name] = IF n = 3 THEN LateIterations ELSE 1
                      /\ AllKeep(n)' => verdict[LateProgram[n].name] = 0
    BY DEF WalkedInv
  <1> QED
    BY EvictionsNext DEF WalkedInv

\* The machine and the counters on which the steps of a walk work.
IsWalking ==
  /\ Permuting /\ LateInv /\ PcidInv /\ WalkingInv /\ WalkedInv
  /\ host.upper.known /\ stage = "late"

\* On those, the machine is whole and ready for a walk.
LEMMA WalkingIs ==
  ASSUME IsWalking
  PROVE  /\ running \in 1 .. 7 /\ host \in Hosts /\ (lateStep # "idle" => running <= 6)
         /\ running <= 3 =>
              /\ ~ UsesPcids /\ IsWhole(mmu) /\ IsShaped(mmu) /\ mmu.pcid \in Nat
              /\ IsReady(mmu) /\ Abroad(mmu, mmu.pcid)
              /\ WalkAt(mmu, lateStep, running, goal, round, missed)
  <1>1. /\ running \in 1 .. 7 /\ host \in Hosts /\ IsShaped(mmu) /\ OwnPcid \in Nat
        /\ lateStep \in {"idle", "prime", "chase", "probe"}
        /\ lateStep # "idle" => running <= 6
    BY NamesAre, LateAssumption DEF IsWalking, LateInv, PcidInv, ReturnedInv, MmuInv, IsShaped
  <1>2. ASSUME running <= 3 PROVE ~ UsesPcids /\ mmu.pcid \in Nat /\ Abroad(mmu, mmu.pcid)
    <2>1. ~ UsesPcids
      BY <1>1, <1>2, WalkExperiment
    <2>2. mmu.pcid \in {0, OwnPcid}
      BY <1>1, <2>1 DEF IsWalking, LateInv, NoStaleTranslation
    <2> QED
      BY <1>1, <2>1, <2>2 DEF IsWalking, PcidInv, MmuInv, Home
  <1>3. running <= 3 => WalkAt(mmu, lateStep, running, goal, round, missed)
    BY <1>1, WalkIs DEF IsWalking
  <1>4. running <= 3 => IsWhole(mmu)
    BY <1>1, <1>3 DEF WalkAt, IsWhole, IsShaped
  <1> QED
    BY <1>1, <1>2, <1>3, <1>4 DEF IsReady, IsWalking

\* An experiment begins with the counters at zero.
LEMMA BeginKeepsWalk ==
  ASSUME IsWalking, BeginLate
  PROVE  WalkingInv' /\ WalkedInv'
  <1>1. /\ host' = host /\ running' = running /\ verdict' = verdict /\ mmu' = mmu
        /\ lateStep' = "prime" /\ round' = 0 /\ missed' = 0 /\ running \in 1 .. 7
    BY WalkingIs DEF IsWalking, BeginLate
  <1>2. ASSUME running <= 3
        PROVE  WalkAt(mmu, "prime", running, goal', 0, 0)
    <2>1. IsUpper(mmu)
      BY <1>2, WalkingIs DEF WalkAt
    <2>2. 0 \in 0 .. LateIterations
      BY LateAssumption
    <2> QED
      BY <2>1, <2>2 DEF WalkAt
  <1>3. WalkingInv'
    BY <1>1, <1>2, WalkNext
  <1> QED
    BY <1>1, <1>3, WalkedKept DEF IsWalking

\* The prime comes after a flush: its page is the only one there is.
LEMMA PrimeKeepsWalk ==
  ASSUME IsWalking, PrimeTarget
  PROVE  WalkingInv' /\ WalkedInv'
  <1>1. /\ host' = host /\ running' = running /\ verdict' = verdict /\ lateStep = "prime"
        /\ lateStep' = "chase" /\ round' = round /\ missed' = missed /\ running \in 1 .. 7
        /\ round < LateIterations
    BY WalkingIs DEF PrimeTarget
  <1>2. ASSUME running <= 3
        PROVE  WalkAt(mmu', "chase", running, goal', round, missed)
    <2>1. /\ ~ UsesPcids /\ IsWhole(mmu) /\ IsShaped(mmu) /\ mmu.pcid \in Nat /\ Permuting
          /\ WalkAt(mmu, "prime", running, goal, round, missed) /\ mmu.swapped = -1
      BY <1>1, <1>2, WalkingIs DEF IsWalking, PcidInv, MmuInv
    <2>2. PICK clean : clean = FlushAll(mmu)
      OBVIOUS
    <2>3. Fresh(clean, -1, {}) /\ TopsKnown(clean, {})
      BY <2>1, <2>2, FlushIsFresh DEF IsShaped
    <2>4. PICK target \in TargetsOf(running) :
            /\ goal' = target
            /\ mmu' = [AccessPage(clean, PrimePage(target)) EXCEPT !.swapped = GoalEntry(target)]
      <3>1. TargetsOf(running) = IF Experiment = TestNesting THEN {t \in Targets : t < Fan} ELSE Targets
        BY <1>1, <1>2, WalkExperiment DEF TargetsOf
      <3> QED
        BY <2>1, <2>2, <3>1 DEF PrimeTarget
    <2>5. PICK entry : entry = EntryOf(running, target)
      OBVIOUS
    <2>6. entry \in Nat /\ PrimePage(target) = <<entry, 0>> /\ GoalEntry(target) = entry
      BY <1>1, <1>2, <2>5, WalkExperiment, EntryIs
    <2>7. PICK x : x = [AccessPage(clean, <<entry, 0>>) EXCEPT !.swapped = entry]
      OBVIOUS
    <2>8. IsWhole(x) /\ IsPrimed(x, entry)
      BY <2>1, <2>3, <2>6, <2>7, PrimingIs
    <2>9. mmu' = x
      BY <2>4, <2>6, <2>7
    <2> QED
      BY <1>1, <2>1, <2>4, <2>5, <2>8, <2>9 DEF WalkAt, IsWhole
  <1>3. WalkingInv'
    BY <1>1, <1>2, WalkNext
  <1> QED
    BY <1>1, <1>3, WalkedKept DEF IsWalking

\* The chase leaves the probe to miss, or to hit, as the chain decides.
LEMMA ChaseKeepsWalk ==
  ASSUME IsWalking, ChaseOrSwitchPcids
  PROVE  WalkingInv' /\ WalkedInv'
  <1>1. /\ host' = host /\ running' = running /\ verdict' = verdict /\ lateStep = "chase"
        /\ lateStep' = "probe" /\ round' = round /\ missed' = missed /\ running \in 1 .. 7
        /\ goal' = goal
    BY WalkingIs DEF ChaseOrSwitchPcids
  <1>2. ASSUME running <= 3
        PROVE  WalkAt(mmu', "probe", running, goal, round, missed)
    <2>1. /\ ~ UsesPcids /\ IsWhole(mmu) /\ IsReady(mmu) /\ host \in Hosts
          /\ WalkAt(mmu, "chase", running, goal, round, missed)
      BY <1>1, <1>2, WalkingIs
    <2>2. PICK x : x = ReadPages(mmu, Chased)
      OBVIOUS
    <2>3. mmu' = x
      BY <2>1, <2>2 DEF ChaseOrSwitchPcids, UsesPcids
    <2>4. goal \in TargetsOf(running) /\ IsPrimed(mmu, EntryOf(running, goal))
      BY <2>1 DEF WalkAt
    <2>5. /\ Evicts(running, goal) => Swapped(x, ProbedPage(running, goal))
          /\ Keeps(running, goal) => ~ Swapped(x, ProbedPage(running, goal))
      <3>1. PICK m : m = mmu
        OBVIOUS
      <3>2. IsReady(m) /\ running \in 1 .. 3 /\ IsPrimed(m, EntryOf(running, goal)) /\ x = ReadPages(m, Chased)
        BY <1>1, <1>2, <2>1, <2>2, <2>4, <3>1
      <3> QED
        BY <2>4, <3>2, ChainProbe
    <2>6. IsWhole(x)
      <3>1. PICK m, pages : m = mmu /\ pages = Chased
        OBVIOUS
      <3>2. PICK n \in Nat : DOMAIN pages = 1 .. n
        BY <2>1, <3>1, ChasedIsFinite
      <3>3. \A k \in 1 .. n : pages[k][1] \in Nat
        BY <2>1, <3>1, <3>2, ChasedEntries
      <3>4. IsWhole(ReadPages(m, pages))
        BY <2>1, <3>1, <3>2, <3>3, WalkKeepsWhole
      <3> QED
        BY <2>2, <3>1, <3>4
    <2> QED
      BY <2>1, <2>3, <2>5, <2>6 DEF WalkAt, IsWhole
  <1>3. WalkingInv'
    BY <1>1, <1>2, WalkNext
  <1> QED
    BY <1>1, <1>3, WalkedKept DEF IsWalking

\* So every round counts a miss, or none does.
LEMMA ProbeKeepsWalk ==
  ASSUME IsWalking, ProbeTarget
  PROVE  WalkingInv' /\ WalkedInv'
  <1>1. /\ host' = host /\ running' = running /\ verdict' = verdict /\ lateStep = "probe"
        /\ lateStep' = "prime" /\ round' = round + 1 /\ running \in 1 .. 7 /\ goal' = goal
        /\ missed' = missed + (IF Swapped(mmu, ProbePage(goal)) THEN 1 ELSE 0)
    BY WalkingIs DEF ProbeTarget
  <1>2. ASSUME running <= 3
        PROVE  WalkAt(mmu', "prime", running, goal, round + 1, missed')
    <2>1. /\ ~ UsesPcids /\ IsWhole(mmu) /\ IsShaped(mmu) /\ mmu.pcid \in Nat /\ host \in Hosts
          /\ WalkAt(mmu, "probe", running, goal, round, missed) /\ Abroad(mmu, mmu.pcid)
      BY <1>1, <1>2, WalkingIs
    <2>2. PICK pg : pg = ProbePage(goal)
      OBVIOUS
    <2>3. /\ goal \in TargetsOf(running) /\ round \in 0 .. LateIterations /\ round < LateIterations
          /\ missed \in Nat
          /\ AllEvict(running) => missed = round
          /\ AllKeep(running) => missed = 0
          /\ Evicts(running, goal) => Swapped(mmu, pg)
          /\ Keeps(running, goal) => ~ Swapped(mmu, pg)
      BY <1>1, <1>2, <2>1, <2>2, WalkExperiment DEF WalkAt
    <2>4. pg[1] \in Nat
      BY <1>1, <1>2, <2>2, <2>3, WalkExperiment, EntryIs
    <2>5. round + 1 \in 0 .. LateIterations
      BY <2>3, LateAssumption
    <2>6. missed' \in Nat
      BY <1>1, <2>3
    <2>7. AllEvict(running) => missed' = round + 1
      <3>1. AllEvict(running) => Swapped(mmu, ProbePage(goal)) /\ missed = round
        BY <2>2, <2>3 DEF AllEvict
      <3> QED
        BY <1>1, <3>1
    <2>8. AllKeep(running) => missed' = 0
      <3>1. AllKeep(running) => ~ Swapped(mmu, ProbePage(goal)) /\ missed = 0
        BY <2>2, <2>3 DEF AllKeep
      <3> QED
        BY <1>1, <3>1
    <2>9. IsUpper(mmu')
      <3>1. PICK m, probed : m = mmu /\ probed = AccessPage(m, pg)
        OBVIOUS
      <3>2. IsWhole(probed) /\ probed.pcid = m.pcid /\ m.pcid \in Nat
        BY <2>1, <2>4, <3>1, ReadIsWhole
      <3>3. probed.recent = m.recent /\ IsRecent(m.recent)
        <4>1. /\ IsMmu(m) /\ IsLower(m) /\ m.pcid \in Nat /\ Abroad(m, m.pcid) /\ IsRecent(m.recent)
          BY <2>1, <3>1 DEF IsShaped
        <4> QED
          BY <2>1, <2>4, <3>1, <4>1, AccessEffect
      <3>4. PICK back : back = [probed EXCEPT !.swapped = -1]
        OBVIOUS
      <3>5. /\ IsWhole(back) /\ back.pcid = m.pcid /\ back.recent = m.recent
        BY <3>2, <3>3, <3>4 DEF IsWhole, IsMmu, IsLower, IsUpper
      <3>6. mmu' = SetCr3(back, m.pcid, FALSE)
        BY <2>1, <2>2, <3>1, <3>4, <3>5 DEF ProbeTarget, FlushAll
      <3>7. IsWhole(SetCr3(back, m.pcid, FALSE))
        BY <2>1, <3>2, <3>3, <3>5, LoadIsWhole
      <3> QED
        BY <3>6, <3>7 DEF IsWhole
    <2> QED
      BY <2>5, <2>6, <2>7, <2>8, <2>9 DEF WalkAt
  <1>3. WalkingInv'
    BY <1>1, <1>2, WalkNext
  <1> QED
    BY <1>1, <1>3, WalkedKept DEF IsWalking

\* The experiments that count PCIDs walk no chain.
LEMMA OneMoreKeepsWalk ==
  ASSUME IsWalking, OneMorePcid
  PROVE  WalkingInv' /\ WalkedInv'
  <1>1. /\ host' = host /\ running' = running /\ verdict' = verdict /\ running \in 1 .. 7
        /\ Experiment.pcids = "count"
    BY WalkingIs DEF OneMorePcid
  <1>2. ~ (running <= 3)
    BY <1>1, WalkExperiment
  <1>3. WalkingInv'
    BY <1>1, <1>2, WalkNext
  <1> QED
    BY <1>1, <1>3, WalkedKept DEF IsWalking

\* The verdict is what has been counted.
LEMMA ReturnKeepsWalk ==
  ASSUME IsWalking, ReturnVerdict
  PROVE  WalkingInv' /\ WalkedInv'
  <1>1. /\ host' = host /\ running' = running + 1 /\ running \in 1 .. 6 /\ lateStep = "prime"
        /\ lateStep' = "idle" /\ mmu' = mmu /\ round = LateIterations
        /\ LateIterations \in Nat /\ LateIterations > 0
    BY WalkingIs, LateAssumption DEF ReturnVerdict
  <1>2. WalkingInv'
    <2>1. running + 1 <= 3 => WalkAt(mmu, "idle", running + 1, goal', round', missed')
      BY <1>1, WalkingIs DEF WalkAt
    <2>2. running + 1 \in 1 .. 7
      BY <1>1
    <2> QED
      BY <1>1, <2>1, <2>2, WalkNext
  <1>3. PICK name, value :
          /\ name = Experiment.name /\ verdict' = [verdict EXCEPT ![name] = value]
          /\ value = CASE Experiment.pcids = "count" -> (IF Passes THEN count ELSE PcidEnd)
                       [] Experiment.huge -> missed
                       [] OTHER -> (IF Passes THEN 1 ELSE 0)
    BY DEF ReturnVerdict
  <1>4. /\ DOMAIN verdict = {LateProgram[n].name : n \in DOMAIN LateProgram}
        /\ DOMAIN LateProgram = 1 .. 6 /\ running \in DOMAIN LateProgram
    BY <1>1 DEF IsWalking, PcidInv, ReturnedInv, LateProgram
  <1>5. name = LateProgram[running].name /\ name \in DOMAIN verdict
    BY <1>3, <1>4 DEF Experiment
  <1>6. \A other \in DOMAIN verdict : verdict'[other] = IF other = name THEN value ELSE verdict[other]
    BY <1>3
  <1>7. \A n \in 1 .. 3 : /\ LateProgram[n].name \in DOMAIN verdict
                          /\ n # running => LateProgram[n].name # name
    <2>1. \A n \in 1 .. 3 : n \in {1, 2, 3} /\ n \in DOMAIN LateProgram
      BY <1>4
    <2>2. /\ LateProgram[1].name = "nesting" /\ LateProgram[2].name = "huge_tlb"
          /\ LateProgram[3].name = "huge_eviction"
      BY <1>1, WalkExperiment
    <2>3. running > 3 => name \notin {"nesting", "huge_tlb", "huge_eviction"}
      <3>1. running > 3 => running \in {4, 5, 6}
        BY <1>1
      <3>2. running > 3 => Experiment.name \in {"pcids_flush", "pcids_noflush", "respect"}
        BY <1>1, <3>1, ExperimentIs
      <3> QED
        BY <1>3, <3>2
    <2>4. running <= 3 => running \in {1, 2, 3}
      BY <1>1
    <2> QED
      BY <1>1, <1>4, <1>5, <2>1, <2>2, <2>3, <2>4
  <1>8. ASSUME running <= 3
        PROVE  /\ AllEvict(running) => value = IF running = 3 THEN LateIterations ELSE 1
               /\ AllKeep(running) => value = 0
    <2>1. value = IF running = 3 THEN missed ELSE IF Passes THEN 1 ELSE 0
      <3>1. Experiment.pcids # "count" /\ (Experiment.huge <=> running = 3)
        BY <1>1, <1>8, WalkExperiment
      <3> QED
        BY <1>3, <3>1
    <2>2. /\ AllEvict(running) => missed = LateIterations
          /\ AllKeep(running) => missed = 0
      BY <1>1, <1>8, WalkingIs DEF WalkAt
    <2>3. /\ missed = LateIterations => Passes
          /\ missed = 0 => ~ Passes
      BY <1>1 DEF Passes
    <2> QED
      BY <2>1, <2>2, <2>3
  <1>9. WalkedInv'
    <2> SUFFICES ASSUME NEW n \in 1 .. 3, n < running'
                 PROVE  /\ AllEvict(n)' => verdict'[LateProgram[n].name] = IF n = 3 THEN LateIterations ELSE 1
                        /\ AllKeep(n)' => verdict'[LateProgram[n].name] = 0
      BY DEF WalkedInv
    <2>1. (AllEvict(n)' <=> AllEvict(n)) /\ (AllKeep(n)' <=> AllKeep(n))
      BY <1>1, EvictionsNext
    <2>2. CASE n = running
      BY <1>5, <1>6, <1>8, <2>1, <2>2
    <2>3. CASE n # running
      <3>1. n < running
        BY <1>1, <2>3
      <3>2. verdict'[LateProgram[n].name] = verdict[LateProgram[n].name]
        BY <1>6, <1>7, <2>3
      <3> QED
        BY <2>1, <3>1, <3>2 DEF IsWalking, WalkedInv
    <2> QED
      BY <2>2, <2>3
  <1> QED
    BY <1>2, <1>9

\* No experiment has concluded at the start.
LEMMA EvictionStart ==
  ASSUME Init
  PROVE  EvictionInv
  <1>1. /\ host \in Hosts /\ mmu = EmptyMmu(host, OwnPcid) /\ lateStep = "idle" /\ running = 1
        /\ stage = "layout"
    BY DEF Init, LateInit
  <1>2. IsUpper(mmu)
    <2>1. PICK size : size = host.hugeEntries
      OBVIOUS
    <2>2. /\ mmu.upper = [s \in 0 .. host.upper.sets - 1 |-> EmptySet(host.upper.policy)]
          /\ mmu.huge = EmptySet(Lru(size))
      BY <1>1, <2>1 DEF EmptyMmu
    <2>3. \A policy : IsSet(policy, EmptySet(policy))
      BY DEF IsSet, EmptySet
    <2> QED
      BY <2>1, <2>2, <2>3 DEF IsUpper
  <1>3. WalkingInv /\ WalkedInv
    BY <1>1, <1>2 DEF WalkingInv, WalkedInv
  <1> QED
    BY <1>1, <1>3 DEF EvictionInv

\* No step changes the machine.
LEMMA HostStays ==
  ASSUME [Next]_sessionVars
  PROVE  host' = host
  BY DEF Next, SetupLevels, EvaluateReplacementPolicy, LateEvaluations, StartCacheQuery, Query,
         sessionVars, lateVars, LateStep, BeginLate, PrimeTarget, ChaseOrSwitchPcids, ProbeTarget,
         OneMorePcid, ReturnVerdict

\* Only levels whose structure is known get as far as the experiments.
LEMMA KnownIsKept ==
  ASSUME LateInv, EvictionInv, [Next]_sessionVars
  PROVE  /\ stage' = "upper" /\ step' # "idle" => host'.upper.known
         /\ stage' \in {"late", "query"} => host'.upper.known
  <1>1. host' = host
    BY HostStays
  <1>2. CASE SetupLevels
    <2>1. stage' \in {"layout", "lower"}
      BY <1>2 DEF SetupLevels
    <2> QED
      BY <2>1
  <1>3. CASE EvaluateReplacementPolicy /\ step = "done"
    <2>1. /\ stage \in {"lower", "upper"} /\ step' = "idle"
          /\ stage' = IF dirty > 0 THEN "printed" ELSE IF stage = "lower" THEN "upper" ELSE "late"
      BY <1>3 DEF EvaluateReplacementPolicy
    <2> QED
      BY <1>1, <1>3, <2>1 DEF EvictionInv
  <1>4. CASE EvaluateReplacementPolicy /\ step # "done"
    <2>1. /\ stage \in {"lower", "upper"} /\ stage' = (IF step' = "crashed" THEN "crashed" ELSE stage)
          /\ CalculatePermutationVectors(host[stage]) \/ ReplacementStep
      BY <1>4 DEF EvaluateReplacementPolicy
    <2>2. CASE CalculatePermutationVectors(host[stage])
      <3>1. step' = IF host[stage].known THEN "allocate" ELSE "crashed"
        BY <2>2 DEF CalculatePermutationVectors
      <3> QED
        BY <1>1, <2>1, <3>1
    <2>3. CASE ReplacementStep
      <3>1. step # "idle"
        BY <2>3 DEF ReplacementStep, BuildSetChain, OrderFaults, DeterminePosition,
                    TakeInitialOrder, CompareOrder, SkipVector, TriggerPermutation,
                    TriggerGarbage, PermutationVectors
      <3> QED
        BY <1>1, <2>1, <3>1 DEF EvictionInv
    <2> QED
      BY <2>1, <2>2, <2>3
  <1>5. CASE LateEvaluations \/ StartCacheQuery \/ Query
    <2>1. stage \in {"late", "query"} /\ stage' \in {"late", "query"}
      BY <1>5 DEF LateEvaluations, StartCacheQuery, Query
    <2> QED
      BY <1>1, <2>1 DEF EvictionInv
  <1>6. CASE UNCHANGED sessionVars
    BY <1>1, <1>6 DEF sessionVars, replacementVars, EvictionInv
  <1> QED
    BY <1>2, <1>3, <1>4, <1>5, <1>6 DEF Next

\* Every step of the session keeps EvictionInv.
LEMMA EvictionIsInvariant ==
  ASSUME LateInv, PcidInv, EvictionInv, [Next]_sessionVars
  PROVE  EvictionInv'
  <1>1. /\ stage' = "upper" /\ step' # "idle" => host'.upper.known
        /\ stage' \in {"late", "query"} => host'.upper.known
    BY KnownIsKept
  <1>2. host' = host /\ host \in Hosts /\ running \in 1 .. 7
    BY NamesAre, HostStays DEF LateInv, PcidInv, ReturnedInv
  <1>3. SUFFICES ASSUME Permuting, WalkingInv, WalkedInv
                 PROVE  WalkingInv' /\ WalkedInv'
    BY <1>1, <1>2 DEF EvictionInv, Permuting
  <1>4. CASE LateEvaluations
    <2>1. LateStep /\ stage = "late"
      BY <1>4 DEF LateEvaluations
    <2>2. IsWalking
      BY <1>3, <2>1 DEF IsWalking, EvictionInv
    <2> QED
      BY <2>1, <2>2, BeginKeepsWalk, PrimeKeepsWalk, ChaseKeepsWalk, ProbeKeepsWalk,
         OneMoreKeepsWalk, ReturnKeepsWalk DEF LateStep
  <1>5. CASE StartCacheQuery
    <2>1. /\ running' = running /\ verdict' = verdict /\ ~ (running <= 3)
      BY <1>2, <1>5, NamesAre DEF StartCacheQuery
    <2>2. WalkingInv'
      BY <1>2, <2>1, WalkNext
    <2> QED
      BY <1>2, <1>3, <2>1, <2>2, WalkedKept
  <1>6. CASE UNCHANGED lateVars
    <2>1. /\ running' = running /\ verdict' = verdict /\ mmu' = mmu /\ lateStep' = lateStep
          /\ goal' = goal /\ round' = round /\ missed' = missed
      BY <1>6 DEF lateVars
    <2>2. running <= 3 => WalkAt(mmu, lateStep, running, goal, round, missed)
      BY <1>2, <1>3, WalkIs
    <2>3. WalkingInv'
      BY <1>2, <2>1, <2>2, WalkNext
    <2> QED
      BY <1>2, <1>3, <2>1, <2>3, WalkedKept
  <1> QED
    BY <1>4, <1>5, <1>6
       DEF Next, SetupLevels, EvaluateReplacementPolicy, Query, sessionVars

--------------------------------------------------------------------------------
(* What the verdicts say *)

\* A verdict of a chain that always evicts, and of one that never does.
LEMMA VerdictIs ==
  ASSUME EvictionInv, host.lower.policy.kind = "permutation",
         host.upper.policy.kind = "permutation", NEW n \in 1 .. 3,
         NEW name, name = LateProgram[n].name, Concluded(name), running \in 1 .. 7
  PROVE  /\ AllEvict(n) => verdict[name] = IF n = 3 THEN LateIterations ELSE 1
         /\ AllKeep(n) => verdict[name] = 0
  <1>1. PICK i \in 1 .. running - 1 : LateProgram[i].name = name
    BY DEF Concluded
  <1>2. i \in {1, 2, 3, 4, 5, 6} /\ n \in {1, 2, 3}
    BY <1>1
  <1>3. i = n
    <2>1. /\ LateProgram[1].name = "nesting" /\ LateProgram[2].name = "huge_tlb"
          /\ LateProgram[3].name = "huge_eviction" /\ LateProgram[4].name = "pcids_flush"
          /\ LateProgram[5].name = "pcids_noflush" /\ LateProgram[6].name = "respect"
      BY DEF LateProgram, TestNesting, TestHugeTlb, TestHugePageEviction, TestSupportedPcids,
             TestPcidRespect
    <2> QED
      BY <1>1, <1>2, <2>1
  <1>4. n < running
    BY <1>1, <1>3
  <1> QED
    BY <1>4 DEF EvictionInv, WalkedInv

\* The links in a target's set are counted by numbers.
LEMMA LinksCounted ==
  ASSUME NEW n \in Nat, NEW pages, DOMAIN pages = 1 .. n, NEW target
  PROVE  InSetOf(target, pages) \in Nat /\ TopsInSetOf(target, pages) \in Nat
  <1>1. IsFiniteSet(1 .. n)
    BY FS_Interval
  <1>2. InSetOf(target, pages) \in Nat
    <2>1. PICK A : A = {k \in 1 .. n : pages[k][1] % host.lower.sets = target % host.lower.sets}
      OBVIOUS
    <2>2. InSetOf(target, pages) = Cardinality(A)
      BY <2>1 DEF InSetOf
    <2>3. IsFiniteSet(A)
      BY <1>1, <2>1, FS_Subset
    <2> QED
      BY <2>2, <2>3, FS_CardinalityType
  <1>3. TopsInSetOf(target, pages) \in Nat
    <2>1. PICK h, S : /\ h = [k \in 1 .. n |-> pages[k][1] \div Fan]
                      /\ S = {pages[k][1] \div Fan : k \in 1 .. n}
      OBVIOUS
    <2>2. h \in Surjection(1 .. n, S)
      BY <2>1 DEF Surjection
    <2>3. IsFiniteSet(S)
      BY <1>1, <2>2, FS_Surjection
    <2>4. PICK A : A = {top \in S : top % host.upper.sets = (target \div Fan) % host.upper.sets}
      OBVIOUS
    <2>5. TopsInSetOf(target, pages) = Cardinality(A)
      BY <2>1, <2>4 DEF TopsInSetOf
    <2>6. IsFiniteSet(A)
      BY <2>3, <2>4, FS_Subset
    <2> QED
      BY <2>5, <2>6, FS_CardinalityType
  <1> QED
    BY <1>2, <1>3

\* test_nesting: chains that fill the set above evict on nested machines only.
LEMMA NestingVerdict ==
  ASSUME EvictionInv, PcidInv, LateInv
  PROVE  NestingSound
  <1> SUFFICES ASSUME Concluded("nesting")
               PROVE  /\ verdict["nesting"] = 1 =>
                           host.nested \/ \E t \in Targets :
                             t < Fan /\ InSetOf(t, NestingChain) >= host.lower.policy.ways
                      /\ verdict["nesting"] # 1 =>
                           ~ host.nested \/ Len(NestingChain) < host.upper.policy.ways
    BY DEF NestingSound
  <1>1. /\ running \in 1 .. 7 /\ host \in Hosts
        /\ host.lower.policy.kind = "permutation" /\ host.upper.policy.kind = "permutation"
    BY NamesAre DEF PcidInv, ReturnedInv, LateInv, Concluded
  <1>2. LateProgram[1].name = "nesting"
    BY <1>1, WalkExperiment
  <1>3. (AllEvict(1) => verdict["nesting"] = 1) /\ (AllKeep(1) => verdict["nesting"] = 0)
    <2>1. PICK name : name = "nesting"
      OBVIOUS
    <2> QED
      BY <1>1, <1>2, <2>1, VerdictIs
  <1>4. PICK ways : ways = host.upper.policy.ways
    OBVIOUS
  <1>5. PICK low : low = host.lower.policy.ways
    OBVIOUS
  <1>6. PICK pages : pages = NestingChain
    OBVIOUS
  <1>7. PICK n \in Nat : DOMAIN pages = 1 .. n /\ Len(pages) = n /\ n <= ways
    BY <1>1, <1>4, <1>6, NestingChainIs DEF IsRoute
  <1>8. ASSUME verdict["nesting"] = 1
        PROVE  host.nested \/ \E t \in Targets : t < Fan /\ InSetOf(t, NestingChain) >= low
    <2>1. PICK t \in TargetsOf(1) : ~ Keeps(1, t)
      BY <1>3, <1>8 DEF AllKeep
    <2>2. t \in Targets /\ t < Fan
      BY <2>1, EntryIs
    <2>3. host.nested \/ ~ (InSetOf(t, NestingChain) < low)
      BY <1>5, <2>1 DEF Keeps
    <2>4. InSetOf(t, NestingChain) \in Nat /\ low \in Nat
      BY <1>1, <1>5, <1>6, <1>7, LinksCounted, HostIs DEF IsPolicy
    <2> QED
      BY <2>2, <2>3, <2>4
  <1>9. ASSUME verdict["nesting"] # 1 PROVE ~ host.nested \/ Len(NestingChain) < ways
    <2>1. PICK t \in TargetsOf(1) : ~ Evicts(1, t)
      BY <1>3, <1>9 DEF AllEvict
    <2>2. ~ host.nested \/ Len(NestingChain) # ways
      BY <1>4, <2>1 DEF Evicts
    <2>3. Len(NestingChain) \in Nat /\ ways \in Nat /\ Len(NestingChain) <= ways
      BY <1>1, <1>4, <1>6, <1>7, UpperIs
    <2> QED
      BY <2>2, <2>3
  <1> QED
    BY <1>4, <1>5, <1>8, <1>9

\* test_huge_tlb and test_huge_page_eviction: so do the huge pages.
LEMMA HugeVerdict ==
  ASSUME EvictionInv, PcidInv, LateInv
  PROVE  HugeSound
  <1>1. PICK unified, nested : unified = host.unified /\ nested = host.nested
    OBVIOUS
  <1>2. PICK pages, n : pages = HugeChain /\ n = HugePages - 1
    OBVIOUS
  <1>3. n \in Nat /\ DOMAIN pages = 1 .. n
    BY <1>2, HugeIs, HugeChainIs DEF IsRoute
  <1>4. running \in 1 .. 7 /\ host \in Hosts
    BY NamesAre DEF PcidInv, ReturnedInv, LateInv
  <1>5. LateProgram[2].name = "huge_tlb" /\ LateProgram[3].name = "huge_eviction"
    BY <1>4, WalkExperiment
  <1>6. PICK low, high : low = host.lower.policy.ways /\ high = host.upper.policy.ways
    OBVIOUS
  <1>7. low \in Nat /\ high \in Nat /\ \A t : InSetOf(t, pages) \in Nat /\ TopsInSetOf(t, pages) \in Nat
    <2>1. low \in Nat /\ high \in Nat
      BY <1>4, <1>6, HostIs, UpperIs DEF IsPolicy
    <2> QED
      BY <1>3, <2>1, LinksCounted
  <1>8. ASSUME Concluded("huge_tlb")
        PROVE  /\ verdict["huge_tlb"] = 1 =>
                    \/ unified
                    \/ nested /\ ( \/ ~ FirstHitKeeps(host.upper.policy)
                                   \/ \E t \in Targets : TopsInSetOf(t, pages) >= high)
               /\ verdict["huge_tlb"] # 1 => ~ unified \/ \E t \in Targets : InSetOf(t, pages) < low
    <2>1. (AllEvict(2) => verdict["huge_tlb"] = 1) /\ (AllKeep(2) => verdict["huge_tlb"] = 0)
      <3>1. PICK name : name = "huge_tlb"
        OBVIOUS
      <3>2. host.lower.policy.kind = "permutation" /\ host.upper.policy.kind = "permutation"
        BY <1>8 DEF Concluded
      <3> QED
        BY <1>4, <1>5, <1>8, <3>1, <3>2, VerdictIs
    <2>2. ASSUME verdict["huge_tlb"] = 1
          PROVE  \/ unified
                 \/ nested /\ ( \/ ~ FirstHitKeeps(host.upper.policy)
                                \/ \E t \in Targets : TopsInSetOf(t, pages) >= high)
      <3>1. PICK t \in Targets : ~ Keeps(2, t)
        BY <2>1, <2>2 DEF AllKeep, TargetsOf
      <3>2. \/ host.unified
            \/ host.nested /\ ( \/ ~ FirstHitKeeps(host.upper.policy)
                               \/ ~ (TopsInSetOf(t, HugeChain) < host.upper.policy.ways))
        <4>1. ASSUME ~ host.unified,
                     host.nested => /\ FirstHitKeeps(host.upper.policy)
                                    /\ TopsInSetOf(t, HugeChain) < host.upper.policy.ways
              PROVE  Keeps(2, t)
          BY <4>1 DEF Keeps
        <4> QED
          BY Zenon, <3>1, <4>1
      <3>3. ~ (TopsInSetOf(t, pages) < high) => TopsInSetOf(t, pages) >= high
        BY <1>7
      <3> QED
        BY <1>1, <1>2, <1>6, <3>2, <3>3
    <2>3. ASSUME verdict["huge_tlb"] # 1
          PROVE  ~ unified \/ \E t \in Targets : InSetOf(t, pages) < low
      <3>1. PICK t \in Targets : ~ Evicts(2, t)
        BY <2>1, <2>3 DEF AllEvict, TargetsOf
      <3>2. ~ unified \/ ~ (InSetOf(t, pages) >= low)
        BY <1>1, <1>2, <1>6, <3>1 DEF Evicts
      <3>3. ~ (InSetOf(t, pages) >= low) => InSetOf(t, pages) < low
        BY <1>7
      <3> QED
        BY <3>2, <3>3
    <2> QED
      BY <2>2, <2>3
  <1>9. ASSUME Concluded("huge_eviction"), ~ unified
        PROVE  verdict["huge_eviction"] = IF host.hugeEntries + 2 <= HugePages THEN LateIterations ELSE 0
    <2>1. (AllEvict(3) => verdict["huge_eviction"] = LateIterations)
          /\ (AllKeep(3) => verdict["huge_eviction"] = 0)
      <3>1. PICK name : name = "huge_eviction"
        OBVIOUS
      <3>2. host.lower.policy.kind = "permutation" /\ host.upper.policy.kind = "permutation"
        BY <1>9 DEF Concluded
      <3> QED
        BY <1>4, <1>5, <1>9, <3>1, <3>2, VerdictIs
    <2>2. PICK size : size = host.hugeEntries + 2
      OBVIOUS
    <2>3. size \in Nat /\ HugePages \in Nat
      BY <1>4, <2>2, HugeIs, SessionAssumption
    <2>4. /\ AllEvict(3) <=> \A t \in Targets : size <= HugePages
          /\ AllKeep(3) <=> \A t \in Targets : size > HugePages
      BY <1>1, <1>9, <2>2 DEF AllEvict, AllKeep, Evicts, Keeps, TargetsOf
    <2>5. size <= HugePages \/ size > HugePages
      BY <2>3
    <2> QED
      BY <2>1, <2>2, <2>4, <2>5
  <1> QED
    BY <1>1, <1>2, <1>6, <1>8, <1>9 DEF HugeSound

--------------------------------------------------------------------------------
(* The theorems *)

\* The session's inductive invariant.
THEOREM SessionInvariance == Spec => []IInv
  <1>1. FaultsExplained <=> CrashExplained /\ LossExplained
    BY DEF FaultsExplained, CrashExplained, Blamed, LossExplained
  <1>2. Init => IInv
    BY <1>1, LateStart, PcidStart, QueryStart, VectorsStart, AnswerStart, EvictionStart
       DEF IInv, LossExplained
  <1>3. IInv /\ [Next]_sessionVars => IInv'
    <2> SUFFICES ASSUME IInv, [Next]_sessionVars PROVE IInv'
      OBVIOUS
    <2>1. LateInv' /\ CrashInv' /\ CrashExplained' /\ QueryInv' /\ LossExplained'
      BY <1>1, LateIsInvariant, CrashIsExplained, QueryIsInvariant DEF IInv
    <2>2. FaultsExplained'
      BY <2>1 DEF FaultsExplained, CrashExplained, Blamed, LossExplained
    <2>3. OrderInv' /\ PrintedInv'
      BY VectorsAreInvariant DEF IInv
    <2>4. PcidInv'
      BY PcidInvariance DEF IInv
    <2>5. AnswerInv'
      BY AnswerIsInvariant DEF IInv
    <2>6. EvictionInv'
      BY EvictionIsInvariant DEF IInv
    <2> QED
      BY <2>1, <2>2, <2>3, <2>4, <2>5, <2>6 DEF IInv
  <1> QED
    BY <1>2, <1>3, PTL DEF Spec

\* The vectors that are printed for a level are those of its policy, whatever
\* permutations these are (replacement.c).
THEOREM VectorsAreSound == Spec => []VectorsSound
  <1>1. IInv => VectorsSound
    BY DEF IInv, PrintedInv
  <1> QED
    BY <1>1, SessionInvariance, PTL

\* Between two iterations of a late experiment nothing stale is left under the
\* PCID in CR3, which is 0 or the trigger's own (set_cr3 before the flush).
THEOREM NothingStaysStale == Spec => []NoStaleTranslation
  <1>1. IInv => NoStaleTranslation
    BY DEF IInv, LateInv
  <1> QED
    BY <1>1, SessionInvariance, PTL

\* What is printed about PCIDs is true of any machine: how many it keeps, that
\* a load of CR3 without NOFLUSH keeps none, and whether it respects them at all
\* (evaluate_supported_pcids, evaluate_pcid_respect).
THEOREM PcidsAreCounted == Spec => []PcidsSound
  <1>1. IInv => PcidsSound
    BY DEF IInv, PcidInv, ReturnedInv, PcidsSound
  <1> QED
    BY <1>1, SessionInvariance, PTL

\* What CacheQuery finds of a trigger's first query is what the vectors that
\* Talbot has printed predict, on any machine whose set replaces by permutations
\* and for any query: the letters get pages of their own, the chain leads through
\* all of them, and the walk does to members what the query does to letters.
THEOREM TheToolsAgree == Spec => []ToolsAgree
  <1>1. IInv => ToolsAgree
    BY AnswersAre DEF IInv
  <1> QED
    BY <1>1, SessionInvariance, PTL

\* What is printed about nesting is true of any machine whose levels replace by
\* permutations and of any mapped entries: the chain's entries age the target's
\* upper entry until the last one evicts it, and nothing else evicts the target
\* unless the chain fills its own set (test_nesting).
THEOREM NestingIsSound == Spec => []NestingSound
  <1>1. IInv => NestingSound
    BY NestingVerdict DEF IInv
  <1> QED
    BY <1>1, SessionInvariance, PTL

\* And what is printed about huge pages, of any number of them and for a huge TLB
\* of any size (test_huge_tlb, test_huge_page_eviction).
THEOREM HugeIsSound == Spec => []HugeSound
  <1>1. IInv => HugeSound
    BY HugeVerdict DEF IInv
  <1> QED
    BY <1>1, SessionInvariance, PTL

\* The loss of a trigger's first query is due to a page that is not mapped: the
\* chain itself always leads to its end.  A crash of a read is due to what is not
\* known or not mapped, or to a word, whatever it is, that kmalloc'ed memory held;
\* the latter only on a level where a member is missing from the initial order
\* because its policy or the mapped entries do not let the order be found, or
\* because memory held a member's address (replacement.c).
THEOREM EveryFaultIsExplained == Spec => []FaultsExplained
  <1>1. IInv => FaultsExplained
    BY DEF IInv
  <1> QED
    BY <1>1, SessionInvariance, PTL

================================================================================
