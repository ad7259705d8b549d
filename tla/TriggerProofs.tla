----------------------------- MODULE TriggerProofs -----------------------------
(***************************************************************************)
(* For any number of runs of the three triggers, any mix of them and any   *)
(* number of kills and failing calls: the triggers share memory only       *)
(* through a race of shm_unlink and shm_open, one experiment at a time has *)
(* interrupts off, and names are left by the runs that ended early only.   *)
(***************************************************************************)
EXTENDS Trigger, FiniteSetTheorems, TLAPS

--------------------------------------------------------------------------------
(* The programs *)

PinAt(t) == IF t = "Talbot" THEN 8 ELSE 7

\* Where the calls of main are.
LEMMA Programs ==
  ASSUME NEW t \in Tool
  PROVE  LET M == MainOf(t)
             n == Len(M)
         IN  /\ n \in Nat /\ n >= 10 /\ PinAt(t) \in 7 .. n - 2
             /\ M[1][2] = "base" /\ M[2][2] = "complementary"
             /\ M[3][2] = "base" /\ M[4][2] = "complementary"
             /\ M[n - 1][2] = "base" /\ M[n][2] = "complementary"
             /\ \A s \in 1 .. n :
                  /\ M[s][1] = "unlink" <=> s \in {1, 2, n - 1, n}
                  /\ M[s][1] = "open" <=> s \in {3, 4}
                  /\ M[s][1] = "pin" <=> s = PinAt(t)
                  /\ M[s][1] \in {"layout", "huge", "device"} => s \in 5 .. PinAt(t) - 1
                  /\ M[s][1] \in {"build", "claim", "walk", "release"} => s \in PinAt(t) + 1 .. n - 2
                  /\ M[s][1] = "claim" => M[s - 1][1] = "build" /\ M[s + 1][1] = "walk"
                  /\ M[s][1] = "walk" => M[s - 1][1] = "claim" /\ M[s + 1][1] = "release"
  <1>1. CASE t = "Talbot"
    <2>1. MainOf(t) = TalbotMain /\ PinAt(t) = 8
      BY <1>1 DEF MainOf, PinAt
    <2>2. Len(TalbotMain) = 14
      BY DEF TalbotMain
    <2> QED
      BY <2>1, <2>2 DEF TalbotMain
  <1>2. CASE t = "CacheQuery"
    <2>1. MainOf(t) = CacheQueryMain /\ PinAt(t) = 7
      BY <1>2 DEF MainOf, PinAt
    <2>2. Len(CacheQueryMain) = 17
      BY DEF CacheQueryMain
    <2> QED
      BY <2>1, <2>2 DEF CacheQueryMain
  <1>3. CASE t = "CrossHyperthread"
    <2>1. MainOf(t) = CrossHyperthreadMain /\ PinAt(t) = 7
      BY <1>3 DEF MainOf, PinAt
    <2>2. Len(CrossHyperthreadMain) = 10
      BY DEF CrossHyperthreadMain
    <2> QED
      BY <2>1, <2>2 DEF CrossHyperthreadMain
  <1> QED
    BY <1>1, <1>2, <1>3 DEF Tool

--------------------------------------------------------------------------------
(* Types *)

TypeInv ==
  /\ tool \in [Runs -> Tool]
  /\ step \in [Runs -> Nat]
  /\ \A r \in Runs : step[r] <= Len(Main(r)) + 1
  /\ name \in [Area -> Runs \cup {Nobody}]
  /\ opened \in [Runs -> [Area -> Runs \cup {Nobody}]]
  /\ chain \in [Runs -> Runs \cup {Nobody}]
  /\ {huge, pinned, claimed, hung, raced, untidy} \subseteq SUBSET Runs

\* The calls a run is at, and where.
LEMMA AtCall ==
  ASSUME TypeInv, NEW r \in Runs, NEW call, call # "none", Calls(r, call)
  PROVE  /\ tool[r] \in Tool /\ Running(r) /\ step[r] \in 1 .. Len(MainOf(tool[r]))
         /\ CallOf(r) = MainOf(tool[r])[step[r]] /\ MainOf(tool[r])[step[r]][1] = call
         /\ Main(r) = MainOf(tool[r]) /\ Scheduled(r) /\ r \notin hung
  BY DEF TypeInv, Calls, CallOf, Running, Main

LEMMA AtUnlink ==
  ASSUME TypeInv, NEW r \in Runs, Calls(r, "unlink")
  PROVE  /\ Running(r) /\ Len(Main(r)) \in Nat /\ Len(Main(r)) >= 10
         /\ step[r] \in {1, 2, Len(Main(r)) - 1, Len(Main(r))}
         /\ CallOf(r)[2] = IF step[r] \in {1, Len(Main(r)) - 1} THEN "base" ELSE "complementary"
  <1>1. /\ tool[r] \in Tool /\ Running(r) /\ step[r] \in 1 .. Len(MainOf(tool[r]))
        /\ CallOf(r) = MainOf(tool[r])[step[r]] /\ MainOf(tool[r])[step[r]][1] = "unlink"
        /\ Main(r) = MainOf(tool[r])
    BY AtCall
  <1> QED
    BY SMTT(20), <1>1, Programs

LEMMA AtOpen ==
  ASSUME TypeInv, NEW r \in Runs, Calls(r, "open")
  PROVE  /\ Running(r) /\ Len(Main(r)) \in Nat /\ Len(Main(r)) >= 10
         /\ step[r] \in {3, 4}
         /\ CallOf(r)[2] = IF step[r] = 3 THEN "base" ELSE "complementary"
  <1>1. /\ tool[r] \in Tool /\ Running(r) /\ step[r] \in 1 .. Len(MainOf(tool[r]))
        /\ CallOf(r) = MainOf(tool[r])[step[r]] /\ MainOf(tool[r])[step[r]][1] = "open"
        /\ Main(r) = MainOf(tool[r])
    BY AtCall
  <1> QED
    BY SMTT(20), <1>1, Programs

LEMMA AtSetup ==
  ASSUME TypeInv, NEW r \in Runs, NEW call \in {"layout", "huge", "device", "pin"}, Calls(r, call)
  PROVE  /\ Running(r) /\ Len(Main(r)) \in Nat /\ PinAt(tool[r]) \in 7 .. Len(Main(r)) - 2
         /\ step[r] \in 5 .. PinAt(tool[r])
         /\ call = "pin" <=> step[r] = PinAt(tool[r])
  <1>1. /\ tool[r] \in Tool /\ Running(r) /\ step[r] \in 1 .. Len(MainOf(tool[r]))
        /\ CallOf(r) = MainOf(tool[r])[step[r]] /\ MainOf(tool[r])[step[r]][1] = call
        /\ Main(r) = MainOf(tool[r])
    BY AtCall
  <1> QED
    BY <1>1, Programs

LEMMA AtExperiment ==
  ASSUME TypeInv, NEW r \in Runs, NEW call \in {"build", "claim", "walk", "release"}, Calls(r, call)
  PROVE  /\ Running(r) /\ Len(Main(r)) \in Nat /\ PinAt(tool[r]) \in 7 .. Len(Main(r)) - 2
         /\ step[r] \in PinAt(tool[r]) + 1 .. Len(Main(r)) - 2
         /\ call = "claim" => Main(r)[step[r] + 1][1] = "walk"
         /\ call = "walk" => Main(r)[step[r] + 1][1] = "release"
  <1>1. /\ tool[r] \in Tool /\ Running(r) /\ step[r] \in 1 .. Len(MainOf(tool[r]))
        /\ CallOf(r) = MainOf(tool[r])[step[r]] /\ MainOf(tool[r])[step[r]][1] = call
        /\ Main(r) = MainOf(tool[r])
    BY AtCall
  <1> DEFINE M == MainOf(tool[r])
  <1>2. Len(M) \in Nat /\ PinAt(tool[r]) \in 7 .. Len(M) - 2
    BY <1>1, Programs
  <1>3. \A s \in 1 .. Len(M) :
          /\ M[s][1] \in {"build", "claim", "walk", "release"}
               => s \in PinAt(tool[r]) + 1 .. Len(M) - 2
          /\ M[s][1] = "claim" => M[s + 1][1] = "walk"
          /\ M[s][1] = "walk" => M[s + 1][1] = "release"
    BY <1>1, Programs
  <1> QED
    BY <1>1, <1>2, <1>3

\* A step of a run moves the run: not at all, one call on, to the cleanup or out; and
\* some calls can be passed in one way only.
LEMMA Moves ==
  ASSUME TypeInv, NEW r \in Runs, Start(r) \/ Step(r) \/ Kill(r)
  PROVE  /\ tool' = tool /\ raced \subseteq raced' /\ untidy \subseteq untidy'
         /\ Len(Main(r)) \in Nat /\ Len(Main(r)) >= 10
         /\ PinAt(tool[r]) \in 7 .. Len(Main(r)) - 2
         /\ step \in [Runs -> Nat] /\ step' \in [Runs -> Nat]
         /\ \A q \in Runs : q # r => step'[q] = step[q]
         /\ \/ step'[r] = step[r] /\ WalkChain(r)
            \/ /\ step'[r] = step[r] + 1 /\ step[r] <= Len(Main(r))
               /\ step[r] \in 1 .. 2 \/ step[r] >= Len(Main(r)) - 1 => Unlink(r)
               /\ step[r] \in 3 .. 4 => Open(r)
               /\ step[r] = PinAt(tool[r]) => SetAffinity(r)
            \/ step'[r] = Len(Main(r)) - 1 /\ step[r] \in 5 .. Len(Main(r)) - 2
            \/ step'[r] = Len(Main(r)) + 1 /\ r \in untidy'
  <1> DEFINE n == Len(Main(r))
  <1>1. tool[r] \in Tool /\ Main(r) = MainOf(tool[r]) /\ Cleanup(r) = n - 1
    BY DEF TypeInv, Main, Cleanup
  <1>2. n \in Nat /\ n >= 10 /\ PinAt(tool[r]) \in 7 .. n - 2
    BY <1>1, Programs
  <1>3. step \in [Runs -> Nat] /\ step[r] \in Nat
    BY DEF TypeInv
  <1>4. ASSUME NEW s \in Nat, Go(r, s)
        PROVE  /\ step' \in [Runs -> Nat] /\ step'[r] = s
               /\ \A q \in Runs : q # r => step'[q] = step[q]
    BY <1>3, <1>4 DEF Go
  <1>5. CASE Start(r)
    <2>1. step[r] = 0 /\ Go(r, step[r] + 1) /\ UNCHANGED <<tool, raced, untidy>>
      BY <1>5 DEF Start, Proceed
    <2>2. Go(r, 1)
      BY <2>1 DEF Go
    <2>3. step'[r] = 1 /\ step' \in [Runs -> Nat] /\ \A q \in Runs : q # r => step'[q] = step[q]
      BY <1>4, <2>2
    <2>4. step[r] = 0
      BY <2>1
    <2> QED
      BY <1>2, <1>3, <2>1, <2>3, <2>4
  <1>6. CASE MapPageFails(r) \/ SetAffinityFails(r) \/ Kill(r)
    <2>1. Go(r, n + 1) /\ UNCHANGED <<tool, raced>> /\ untidy' = untidy \cup {r}
      BY <1>6 DEF MapPageFails, SetAffinityFails, Kill, Exit
    <2> QED
      BY <1>2, <1>3, <1>4, <2>1
  <1>7. CASE DeviceFails(r)
    <2>1. step[r] \in 5 .. n - 2
      BY <1>2, <1>7, AtSetup, AtExperiment DEF DeviceFails
    <2>2. Go(r, n - 1) /\ UNCHANGED <<tool, raced, untidy>>
      BY <1>1, <1>7 DEF DeviceFails
    <2> QED
      BY <1>2, <1>3, <1>4, <2>1, <2>2
  <1>8. CASE Unlink(r)
    <2>1. step[r] \in {1, 2, n - 1, n}
      BY <1>8, AtUnlink DEF Unlink
    <2>2. Go(r, step[r] + 1) /\ UNCHANGED <<tool, raced, untidy>>
      BY <1>8 DEF Unlink, Proceed
    <2> QED
      BY <1>2, <1>3, <1>4, <1>8, <2>1, <2>2
  <1>9. CASE Open(r)
    <2>1. step[r] \in {3, 4}
      BY <1>9, AtOpen DEF Open
    <2>2. Go(r, step[r] + 1) /\ UNCHANGED <<tool, untidy>> /\ raced \subseteq raced'
      BY <1>9 DEF Open, Proceed
    <2> QED
      BY <1>2, <1>3, <1>4, <1>9, <2>1, <2>2
  <1>10. CASE SetupLevels(r) \/ SetupHugePages(r) \/ OpenDevice(r) \/ SetAffinity(r)
    <2>1. step[r] \in 5 .. PinAt(tool[r]) /\ (step[r] = PinAt(tool[r]) => SetAffinity(r))
      BY <1>10, AtSetup DEF SetupLevels, SetupHugePages, OpenDevice, SetAffinity
    <2>2. Go(r, step[r] + 1) /\ UNCHANGED <<tool, raced, untidy>>
      BY <1>10 DEF SetupLevels, SetupHugePages, OpenDevice, SetAffinity, Proceed
    <2> QED
      BY <1>2, <1>3, <1>4, <2>1, <2>2
  <1>11. CASE BuildChain(r) \/ ClaimCpu(r) \/ WalkChain(r) \/ ReleaseCpu(r)
    <2>1. step[r] \in PinAt(tool[r]) + 1 .. n - 2
      BY <1>11, AtExperiment DEF BuildChain, ClaimCpu, WalkChain, ReleaseCpu
    <2>2. Go(r, step[r] + 1) \/ (WalkChain(r) /\ step' = step)
      BY <1>11 DEF BuildChain, ClaimCpu, WalkChain, ReleaseCpu, Proceed
    <2>3. UNCHANGED <<tool, raced, untidy>>
      BY <1>11 DEF BuildChain, ClaimCpu, WalkChain, ReleaseCpu
    <2> QED
      BY <1>2, <1>3, <1>4, <2>1, <2>2, <2>3
  <1> QED
    BY <1>5, <1>6, <1>7, <1>8, <1>9, <1>10, <1>11 DEF Step

\* Where the other runs are, and the position of a run in its program, change with
\* the run's own steps only.
LEMMA OthersStay ==
  ASSUME TypeInv, NEW r \in Runs, Start(r) \/ Step(r) \/ Kill(r)
  PROVE  /\ \A q \in Runs : Main(q)' = Main(q)
         /\ \A q \in Runs : q # r => Running(q)' = Running(q) /\ CallOf(q)' = CallOf(q)
  <1>1. tool' = tool /\ \A q \in Runs : q # r => step'[q] = step[q]
    BY Moves
  <1> QED
    BY <1>1 DEF Main, Running, CallOf

LEMMA TypeInvariant == Spec => []TypeInv
  <1>1. Init => TypeInv
    <2> SUFFICES ASSUME Init PROVE TypeInv
      OBVIOUS
    <2>1. tool \in [Runs -> Tool] /\ \A r \in Runs : step[r] = 0
      BY TriggerAssumption DEF Init
    <2>2. \A r \in Runs : Len(Main(r)) \in Nat
      BY <2>1, Programs DEF Main
    <2> QED
      BY <2>1, <2>2 DEF Init, TypeInv, Area
  <1>2. TypeInv /\ [Next]_vars => TypeInv'
    <2> SUFFICES ASSUME TypeInv, [Next]_vars PROVE TypeInv'
      OBVIOUS
    <2>1. ASSUME NEW r \in Runs, Start(r) \/ Step(r) \/ Kill(r) PROVE TypeInv'
      <3>0. step'[r] <= Len(Main(r)) + 1
        <4>1. step[r] <= Len(Main(r)) + 1 /\ step[r] \in Nat
          BY DEF TypeInv
        <4>2. \/ step'[r] \in {step[r], Len(Main(r)) - 1, Len(Main(r)) + 1}
              \/ step'[r] = step[r] + 1 /\ step[r] <= Len(Main(r))
          BY <2>1, Moves
        <4>3. Len(Main(r)) \in Nat
          BY <2>1, Moves
        <4> QED
          BY <4>1, <4>2, <4>3
      <3>1. /\ tool' = tool /\ step' \in [Runs -> Nat] /\ \A q \in Runs : Main(q)' = Main(q)
            /\ \A q \in Runs : step'[q] <= Len(Main(q)) + 1
        BY <2>1, <3>0, Moves, OthersStay DEF TypeInv
      <3>2. tool' \in [Runs -> Tool] /\ \A q \in Runs : step'[q] <= Len(Main(q)') + 1
        BY <3>1 DEF TypeInv
      <3> DEFINE Rest ==
            /\ name \in [Area -> Runs \cup {Nobody}]
            /\ opened \in [Runs -> [Area -> Runs \cup {Nobody}]]
            /\ chain \in [Runs -> Runs \cup {Nobody}]
            /\ {huge, pinned, claimed, hung, raced, untidy} \subseteq SUBSET Runs
      <3>3. Rest
        BY DEF TypeInv
      <3>4. ASSUME Unlink(r) PROVE Rest'
        <4>1. huge' \subseteq huge /\ pinned' \subseteq pinned
          BY <3>4 DEF Unlink, Released
        <4>2. name' \in [Area -> Runs \cup {Nobody}]
          BY <3>3, <3>4 DEF Unlink
        <4>3. UNCHANGED <<opened, chain, claimed, hung, raced, untidy>>
          BY <3>4 DEF Unlink
        <4> QED
          BY <3>3, <4>1, <4>2, <4>3
      <3>5. ASSUME Open(r) PROVE Rest'
        <4>1. CallOf(r)[2] \in Area
          BY <3>5, AtOpen DEF Open, Area
        <4>2. \A a \in Area : AboutToOpen(a) \subseteq Runs
          BY DEF AboutToOpen
        <4> QED
          BY <3>3, <3>5, <4>1, <4>2 DEF Open
      <3>6. ASSUME \/ Start(r) \/ MapPageFails(r) \/ SetAffinityFails(r)
                   \/ Kill(r) \/ DeviceFails(r)
            PROVE  Rest'
        BY <3>3, <3>6 DEF Start, MapPageFails, SetAffinityFails, Kill, DeviceFails, Released
      <3>7. ASSUME SetupLevels(r) \/ SetupHugePages(r) \/ OpenDevice(r) \/ SetAffinity(r)
            PROVE  Rest'
        BY <3>3, <3>7 DEF SetupLevels, SetupHugePages, OpenDevice, SetAffinity
      <3>8. ASSUME BuildChain(r) \/ ClaimCpu(r) \/ WalkChain(r) \/ ReleaseCpu(r)
            PROVE  Rest'
        BY <3>3, <3>8 DEF BuildChain, ClaimCpu, WalkChain, ReleaseCpu
      <3>9. Rest'
        BY <2>1, <3>4, <3>5, <3>6, <3>7, <3>8 DEF Step
      <3> QED
        BY <3>1, <3>2, <3>9 DEF TypeInv
    <2>2. CASE UNCHANGED vars
      <3>1. \A q \in Runs : Main(q)' = Main(q)
        BY <2>2 DEF vars, Main
      <3> QED
        BY <2>2, <3>1 DEF vars, TypeInv
    <2> QED
      BY <2>1, <2>2 DEF Next, Terminating
  <1> QED
    BY <1>1, <1>2, PTL DEF Spec

--------------------------------------------------------------------------------
(* One experiment at a time                                                *)

\* Who has interrupts off is pinned, and a pinned run is scheduled only while no
\* other has interrupts off.

PinInv ==
  \A q \in Runs : step[q] \in PinAt(tool[q]) + 1 .. Len(Main(q)) - 2 => q \in pinned

ClaimInv ==
  /\ \A q \in claimed : CallOf(q)[1] \in {"walk", "release"}
  /\ \A p, q \in claimed : p = q

LEMMA PinStep ==
  ASSUME TypeInv, PinInv, NEW r \in Runs, Start(r) \/ Step(r) \/ Kill(r)
  PROVE  PinInv'
  <1>1. /\ tool' = tool /\ \A q \in Runs : q # r => step'[q] = step[q]
        /\ \A q \in Runs : Main(q)' = Main(q)
        /\ step[r] \in Nat /\ Len(Main(r)) \in Nat /\ PinAt(tool[r]) \in 7 .. Len(Main(r)) - 2
    BY Moves, OthersStay
  <1>2. \A q \in Runs : q # r => (q \in pinned' <=> q \in pinned)
    BY DEF Start, Step, Kill, Unlink, Open, SetupLevels, MapPageFails, SetupHugePages, OpenDevice,
           DeviceFails, SetAffinity, SetAffinityFails, BuildChain, ClaimCpu, WalkChain,
           ReleaseCpu, Released
  <1>3. SUFFICES ASSUME step'[r] \in PinAt(tool[r]) + 1 .. Len(Main(r)) - 2
                 PROVE  r \in pinned'
    BY <1>1, <1>2 DEF PinInv
  <1>4. CASE SetAffinity(r)
    BY <1>4 DEF SetAffinity
  <1>5. CASE step[r] \in PinAt(tool[r]) + 1 .. Len(Main(r)) - 2 /\ ~SetAffinity(r)
    <2>1. r \in pinned
      BY <1>5 DEF PinInv
    <2>2. ~Unlink(r)
      <3>1. Unlink(r) => step[r] \in {1, 2, Len(Main(r)) - 1, Len(Main(r))}
        BY AtUnlink DEF Unlink
      <3> QED
        BY <1>1, <1>5, <3>1
    <2>3. step'[r] # Len(Main(r)) + 1
      BY <1>1, <1>3
    <2>4. ~MapPageFails(r) /\ ~SetAffinityFails(r) /\ ~Kill(r)
      <3>1. MapPageFails(r) \/ SetAffinityFails(r) \/ Kill(r) => Go(r, Len(Main(r)) + 1)
        BY DEF MapPageFails, SetAffinityFails, Kill, Exit
      <3>2. Go(r, Len(Main(r)) + 1) => step'[r] = Len(Main(r)) + 1
        BY DEF Go, TypeInv
      <3> QED
        BY <2>3, <3>1, <3>2
    <2>5. pinned' = pinned
      BY <1>5, <2>2, <2>4
      DEF Start, Step, Open, SetupLevels, SetupHugePages, OpenDevice, DeviceFails,
          BuildChain, ClaimCpu, WalkChain, ReleaseCpu
    <2> QED
      BY <2>1, <2>5
  <1>6. CASE step[r] \notin PinAt(tool[r]) + 1 .. Len(Main(r)) - 2 /\ ~SetAffinity(r)
    <2>1. step'[r] # step[r] /\ step'[r] # Len(Main(r)) - 1 /\ step'[r] # Len(Main(r)) + 1
      BY <1>1, <1>3, <1>6
    <2>2. step'[r] = step[r] + 1 /\ step[r] # PinAt(tool[r])
      BY <1>6, <2>1, Moves
    <2> QED
      BY <1>1, <1>3, <1>6, <2>2
  <1> QED
    BY <1>4, <1>5, <1>6

LEMMA ClaimStep ==
  ASSUME TypeInv, PinInv, ClaimInv, NEW r \in Runs, Start(r) \/ Step(r) \/ Kill(r)
  PROVE  ClaimInv'
  <1>1. claimed \subseteq Runs /\ \A q \in Runs : q # r => CallOf(q)' = CallOf(q)
    BY OthersStay DEF TypeInv
  <1>2. CASE ClaimCpu(r)
    <2>1. Calls(r, "claim") /\ claimed' = claimed \cup {r} /\ Proceed(r)
      BY <1>2 DEF ClaimCpu
    <2>2. step[r] \in PinAt(tool[r]) + 1 .. Len(Main(r)) - 2 /\ Scheduled(r)
      BY <2>1, AtExperiment DEF Calls
    <2>3. r \in pinned
      BY <2>2 DEF PinInv
    <2>4. claimed' = {r}
      BY <2>1, <2>2, <2>3 DEF Scheduled
    <2>5. CallOf(r)'[1] = "walk"
      <3>1. /\ Main(r)[step[r] + 1][1] = "walk" /\ Len(Main(r)) \in Nat /\ step[r] \in Nat
            /\ step[r] <= Len(Main(r)) - 2 /\ Main(r)' = Main(r)
        BY <2>1, AtExperiment, Moves, OthersStay
      <3>2. step'[r] = step[r] + 1
        BY <2>1 DEF Proceed, Go, TypeInv
      <3>3. step'[r] \in 1 .. Len(Main(r))
        BY <3>1, <3>2
      <3> QED
        BY <3>1, <3>2, <3>3 DEF CallOf, Running
    <2> QED
      BY <2>4, <2>5 DEF ClaimInv
  <1>3. CASE WalkChain(r)
    <2>1. claimed' = claimed
      BY <1>3 DEF WalkChain
    <2>2. CallOf(r)'[1] \in {"walk", "release"}
      <3>1. /\ Main(r)[step[r] + 1][1] = "release" /\ Len(Main(r)) \in Nat /\ step[r] \in Nat
            /\ step[r] <= Len(Main(r)) - 2 /\ Main(r)' = Main(r)
        BY <1>3, AtExperiment, Moves, OthersStay DEF WalkChain
      <3>2. CASE Proceed(r)
        <4>1. step'[r] = step[r] + 1
          BY <3>2 DEF Proceed, Go, TypeInv
        <4>2. step'[r] \in 1 .. Len(Main(r))
          BY <3>1, <4>1
        <4> QED
          BY <3>1, <4>1, <4>2 DEF CallOf, Running
      <3>3. CASE UNCHANGED step
        BY <1>3, <3>1, <3>3 DEF CallOf, Running, WalkChain, Calls
      <3> QED
        BY <1>3, <3>2, <3>3 DEF WalkChain
    <2> QED
      BY <1>1, <2>1, <2>2 DEF ClaimInv
  <1>4. CASE ReleaseCpu(r)
    <2>1. claimed' = claimed \ {r}
      BY <1>4 DEF ReleaseCpu
    <2> QED
      BY <1>1, <2>1 DEF ClaimInv
  <1>5. CASE ~ClaimCpu(r) /\ ~WalkChain(r) /\ ~ReleaseCpu(r)
    <2>1. claimed' = claimed
      BY <1>5
      DEF Start, Step, Kill, Unlink, Open, SetupLevels, MapPageFails, SetupHugePages, OpenDevice,
          DeviceFails, SetAffinity, SetAffinityFails, BuildChain
    <2>2. CallOf(r)[1] \notin {"walk", "release"}
      <3>1. CASE Start(r)
        BY <3>1 DEF Start, CallOf, Running
      <3>2. CASE Kill(r)
        BY <3>2 DEF Kill
      <3> QED
        BY <1>5, <3>1, <3>2
        DEF Step, Unlink, Open, SetupLevels, MapPageFails, SetupHugePages, OpenDevice,
            DeviceFails, SetAffinity, SetAffinityFails, BuildChain, Calls
    <2> QED
      BY <1>1, <2>1, <2>2 DEF ClaimInv
  <1> QED
    BY <1>2, <1>3, <1>4, <1>5

--------------------------------------------------------------------------------
(* Whose memory a run has open                                             *)

\* A run that is running has an area open once it is past its shm_open.
OpenInv ==
  \A q \in Runs, a \in Area :
    step[q] <= Len(Main(q)) =>
      (opened[q][a] = Nobody <=> step[q] <= IF a = "base" THEN 3 ELSE 4)

\* A name that exists while a run is about to open it was created in a race.
RaceInv ==
  \A a \in Area : name[a] # Nobody => \A q \in AboutToOpen(a) : {q, name[a]} \subseteq raced

SharedInv ==
  \A q \in Runs, a \in Area : opened[q][a] \in {Nobody, q} \/ {q, opened[q][a]} \subseteq raced

\* After build, and until the walk is over, the chain of a run without races is its own.
ChainInv ==
  /\ \A q \in Runs \ raced : CallOf(q)[1] \in {"claim", "walk"} => chain[opened[q]["base"]] = q
  /\ hung \subseteq raced

\* Whose names there are: of runs that will still remove them, or that ended early.
TidyInv ==
  \A a \in Area : name[a] \in untidy \cup {Nobody}
                    \/ step[name[a]] \in 1 .. Len(Main(name[a])) - IF a = "base" THEN 1 ELSE 0

LEMMA OpenEffect ==
  ASSUME TypeInv, OpenInv, RaceInv, NEW r \in Runs, Open(r)
  PROVE  \E a \in Area :
           /\ step[r] = IF a = "base" THEN 3 ELSE 4
           /\ r \in AboutToOpen(a)
           /\ \E c \in Runs :
                /\ c = r \/ (c = name[a] /\ {r, c} \subseteq raced)
                /\ name' = [name EXCEPT ![a] = c]
                /\ opened' = [opened EXCEPT ![r] = [opened[r] EXCEPT ![a] = c]]
                /\ name[a] # Nobody => c = name[a]
           /\ AboutToOpen(a) # {r} => AboutToOpen(a) \subseteq raced'
           /\ raced' \in SUBSET Runs
  <1> DEFINE a == CallOf(r)[2]
             c == IF name[a] = Nobody THEN r ELSE name[a]
  <1>1. /\ Running(r) /\ Len(Main(r)) \in Nat /\ Len(Main(r)) >= 10 /\ a \in Area
        /\ step[r] = IF a = "base" THEN 3 ELSE 4
    BY AtOpen DEF Open, Area
  <1>2. opened[r][a] = Nobody
    BY <1>1 DEF OpenInv
  <1>3. r \in AboutToOpen(a)
    BY <1>1, <1>2 DEF AboutToOpen
  <1>4. c \in Runs /\ (c = r \/ (c = name[a] /\ {r, c} \subseteq raced))
    BY <1>1, <1>3 DEF RaceInv, TypeInv
  <1>5. /\ name' = [name EXCEPT ![a] = c] /\ opened' = [opened EXCEPT ![r][a] = c]
        /\ raced' = IF AboutToOpen(a) = {r} THEN raced ELSE raced \cup AboutToOpen(a)
    BY DEF Open
  <1>6. opened' = [opened EXCEPT ![r] = [opened[r] EXCEPT ![a] = c]]
    BY <1>5
  <1>7. AboutToOpen(a) \subseteq Runs /\ raced \subseteq Runs
    BY DEF AboutToOpen, TypeInv
  <1> QED
    BY <1>1, <1>3, <1>4, <1>5, <1>6, <1>7

\* Steps other than shm_open leave the objects that runs have open alone.
LEMMA OpenedStays ==
  ASSUME NEW r \in Runs, Start(r) \/ Step(r) \/ Kill(r), ~Open(r)
  PROVE  UNCHANGED <<opened, raced>>
  BY DEF Start, Step, Kill, Unlink, SetupLevels, MapPageFails, SetupHugePages, OpenDevice,
         DeviceFails, SetAffinity, SetAffinityFails, BuildChain, ClaimCpu, WalkChain, ReleaseCpu

LEMMA NamesStay ==
  ASSUME NEW r \in Runs, Start(r) \/ Step(r) \/ Kill(r), ~Open(r), ~Unlink(r)
  PROVE  UNCHANGED name
  BY DEF Start, Step, Kill, SetupLevels, MapPageFails, SetupHugePages, OpenDevice,
         DeviceFails, SetAffinity, SetAffinityFails, BuildChain, ClaimCpu, WalkChain, ReleaseCpu

LEMMA OpenStep ==
  ASSUME TypeInv, OpenInv, RaceInv, NEW r \in Runs, Start(r) \/ Step(r) \/ Kill(r)
  PROVE  OpenInv'
  <1> DEFINE Last(a) == IF a = "base" THEN 3 ELSE 4
  <1>1. /\ \A q \in Runs : Main(q)' = Main(q)
        /\ \A q \in Runs : q # r => step'[q] = step[q]
        /\ step[r] \in Nat /\ step'[r] \in Nat /\ Len(Main(r)) \in Nat /\ Len(Main(r)) >= 10
        /\ step'[r] <= Len(Main(r)) => step[r] <= Len(Main(r))
    BY Moves, OthersStay DEF TypeInv
  <1>2. CASE Open(r)
    <2>1. PICK a \in Area, c \in Runs :
            /\ step[r] = Last(a)
            /\ opened' = [opened EXCEPT ![r] = [opened[r] EXCEPT ![a] = c]]
      BY <1>2, OpenEffect
    <2>2. step'[r] = step[r] + 1
      BY <1>2 DEF Open, Proceed, Go, TypeInv
    <2>3. opened'[r][a] = c /\ \A b \in Area : b # a => opened'[r][b] = opened[r][b]
      BY <2>1 DEF TypeInv
    <2>4. \A q \in Runs : q # r => opened'[q] = opened[q]
      BY <2>1 DEF TypeInv
    <2>5. c # Nobody
      BY TriggerAssumption
    <2>6. \A b \in Area : b # a => (step'[r] <= Last(b) <=> step[r] <= Last(b))
      BY <2>1, <2>2 DEF Area
    <2>7. step'[r] > Last(a)
      BY <2>1, <2>2
    <2> QED
      BY <1>1, <2>1, <2>3, <2>4, <2>5, <2>6, <2>7 DEF OpenInv
  <1>3. CASE ~Open(r)
    <2>1. opened' = opened
      BY <1>3, OpenedStays
    <2>2. ASSUME step'[r] <= Len(Main(r)), NEW a \in Area
          PROVE  step'[r] <= Last(a) <=> step[r] <= Last(a)
      BY <1>1, <1>3, <2>2, Moves DEF Area
    <2> QED
      BY <1>1, <2>1, <2>2 DEF OpenInv
  <1> QED
    BY <1>2, <1>3

LEMMA SharedStep ==
  ASSUME TypeInv, OpenInv, RaceInv, SharedInv, NEW r \in Runs, Start(r) \/ Step(r) \/ Kill(r)
  PROVE  SharedInv'
  <1>1. raced \subseteq raced'
    BY Moves
  <1>2. CASE Open(r)
    <2>1. PICK a \in Area, c \in Runs :
            /\ c = r \/ {r, c} \subseteq raced
            /\ opened' = [opened EXCEPT ![r] = [opened[r] EXCEPT ![a] = c]]
      BY <1>2, OpenEffect
    <2>2. opened'[r][a] = c /\ \A b \in Area : b # a => opened'[r][b] = opened[r][b]
      BY <2>1 DEF TypeInv
    <2>3. \A q \in Runs : q # r => opened'[q] = opened[q]
      BY <2>1 DEF TypeInv
    <2> QED
      BY <1>1, <2>1, <2>2, <2>3 DEF SharedInv
  <1>3. CASE ~Open(r)
    BY <1>1, <1>3, OpenedStays DEF SharedInv
  <1> QED
    BY <1>2, <1>3

LEMMA RaceStep ==
  ASSUME TypeInv, OpenInv, RaceInv, NEW r \in Runs, Start(r) \/ Step(r) \/ Kill(r)
  PROVE  RaceInv'
  <1> DEFINE First(a) == IF a = "base" THEN 1 ELSE 2
  <1>1. /\ \A q \in Runs : q # r => step'[q] = step[q] /\ (Running(q)' <=> Running(q))
        /\ step[r] \in Nat /\ step'[r] \in Nat /\ Len(Main(r)) \in Nat /\ Len(Main(r)) >= 10
        /\ raced \subseteq raced' /\ Main(r)' = Main(r)
    BY Moves, OthersStay
  \* Nobody gets to be about to open a name but by removing it.
  <1>2. ASSUME NEW a \in Area, NEW q \in AboutToOpen(a)',
               ~(Unlink(r) /\ step[r] = First(a))
        PROVE  q \in AboutToOpen(a)
    <2>1. q \in Runs /\ Running(q)' /\ opened'[q][a] = Nobody /\ step'[q] > First(a)
      BY <1>2 DEF AboutToOpen
    <2>2. opened[q][a] = Nobody
      <3>1. CASE Open(r)
        <4>1. PICK b \in Area, c \in Runs :
                opened' = [opened EXCEPT ![r] = [opened[r] EXCEPT ![b] = c]]
          BY <3>1, OpenEffect
        <4>2. c # Nobody
          BY TriggerAssumption
        <4> QED
          BY <2>1, <4>1, <4>2 DEF TypeInv
      <3>2. CASE ~Open(r)
        BY <2>1, <3>2, OpenedStays
      <3> QED
        BY <3>1, <3>2
    <2>3. CASE q # r
      BY <1>1, <2>1, <2>2, <2>3 DEF AboutToOpen
    <2>4. CASE q = r
      <3>1. step'[r] \in 1 .. Len(Main(r))
        BY <1>1, <2>1, <2>4 DEF Running
      <3>2. step[r] > First(a) /\ step[r] <= Len(Main(r))
        BY <1>1, <1>2, <2>1, <2>4, <3>1, Moves DEF Area
      <3> QED
        BY <1>1, <2>2, <2>4, <3>2 DEF AboutToOpen, Running
    <2> QED
      BY <2>3, <2>4
  <1>3. CASE Unlink(r)
    <2> DEFINE u == CallOf(r)[2]
    <2>1. /\ u \in Area /\ name' = [name EXCEPT ![u] = Nobody]
          /\ \A a \in Area : step[r] = First(a) => a = u
      BY <1>1, <1>3, AtUnlink DEF Unlink, Area
    <2>2. name'[u] = Nobody /\ \A a \in Area : a # u => name'[a] = name[a]
      BY <2>1 DEF TypeInv
    <2> QED
      BY <1>1, <1>2, <2>1, <2>2 DEF RaceInv
  <1>4. CASE Open(r)
    <2>1. PICK a \in Area :
            /\ r \in AboutToOpen(a)
            /\ \E c \in Runs :
                 /\ c = r \/ (c = name[a] /\ {r, c} \subseteq raced)
                 /\ name' = [name EXCEPT ![a] = c]
                 /\ opened' = [opened EXCEPT ![r] = [opened[r] EXCEPT ![a] = c]]
            /\ AboutToOpen(a) # {r} => AboutToOpen(a) \subseteq raced'
      BY <1>4, OpenEffect
    <2>2. PICK c \in Runs :
            /\ c = r \/ {r, c} \subseteq raced
            /\ name' = [name EXCEPT ![a] = c]
            /\ opened' = [opened EXCEPT ![r] = [opened[r] EXCEPT ![a] = c]]
      BY <2>1
    <2>3. ~Unlink(r)
      BY <1>1, <1>4, AtUnlink, AtOpen DEF Unlink, Open
    <2>4. name'[a] = c /\ \A b \in Area : b # a => name'[b] = name[b]
      BY <2>2 DEF TypeInv
    <2>5. r \notin AboutToOpen(a)'
      <3>1. opened'[r][a] = c /\ c # Nobody
        BY <2>2, TriggerAssumption DEF TypeInv
      <3> QED
        BY <3>1 DEF AboutToOpen
    <2>6. \A q \in AboutToOpen(a)' : q \in AboutToOpen(a) /\ {q, r, c} \subseteq raced'
      BY <1>1, <1>2, <2>1, <2>2, <2>3, <2>5
    <2>7. \A b \in Area \ {a} : \A q \in AboutToOpen(b)' : q \in AboutToOpen(b)
      BY <1>2, <2>3
    <2> QED
      BY <1>1, <2>4, <2>6, <2>7 DEF RaceInv
  <1>5. CASE ~Unlink(r) /\ ~Open(r)
    BY <1>1, <1>2, <1>5, NamesStay DEF RaceInv
  <1> QED
    BY <1>3, <1>4, <1>5

--------------------------------------------------------------------------------
(* Chains                                                                  *)

\* A run comes to claim_cpu from building its chain, and from there to the walk.
LEMMA ToTheWalk ==
  ASSUME TypeInv, NEW r \in Runs, Start(r) \/ Step(r) \/ Kill(r),
         CallOf(r)'[1] \in {"claim", "walk"}
  PROVE  BuildChain(r) \/ ClaimCpu(r) \/ (WalkChain(r) /\ CallOf(r)[1] = "walk")
  <1>1. /\ tool[r] \in Tool /\ Main(r) = MainOf(tool[r]) /\ Main(r)' = Main(r)
        /\ step[r] \in Nat /\ step'[r] \in Nat
    BY Moves, OthersStay DEF TypeInv, Main
  <1>2. step'[r] \in 1 .. Len(Main(r)) /\ Main(r)[step'[r]][1] \in {"claim", "walk"}
    BY <1>1 DEF CallOf, Running
  <1>3. /\ Main(r)[step'[r] - 1][1] \in {"build", "claim"}
        /\ step'[r] \in PinAt(tool[r]) + 1 .. Len(Main(r)) - 2
    BY SMTT(20), <1>1, <1>2, Programs
  <1>4. Len(Main(r)) \in Nat /\ PinAt(tool[r]) \in 7 .. Len(Main(r)) - 2
    BY Moves
  <1>5. CASE step'[r] = step[r] /\ WalkChain(r)
    BY <1>5 DEF WalkChain, Calls
  <1>6. CASE step'[r] = step[r] + 1
    <2>1. step[r] = step'[r] - 1 /\ step[r] \in 1 .. Len(Main(r))
      BY <1>1, <1>3, <1>4, <1>6
    <2>2. CallOf(r)[1] \in {"build", "claim"}
      BY <1>3, <2>1 DEF CallOf, Running
    <2>3. ~Start(r)
      BY <2>1 DEF Start
    <2>4. ~Kill(r) /\ ~DeviceFails(r)
      <3>1. Kill(r) => step'[r] = Len(Main(r)) + 1
        BY DEF Kill, Exit, Go, TypeInv
      <3>2. DeviceFails(r) => step'[r] = Len(Main(r)) - 1
        BY DEF DeviceFails, Cleanup, Go, TypeInv
      <3> QED
        BY <1>3, <1>4, <3>1, <3>2
    <2> QED
      BY <2>2, <2>3, <2>4
      DEF Step, Calls, Unlink, Open, SetupLevels, MapPageFails, SetupHugePages, OpenDevice,
          SetAffinity, SetAffinityFails, WalkChain, ReleaseCpu
  <1>7. CASE step'[r] >= Len(Main(r)) - 1
    BY <1>3, <1>4, <1>7
  <1> QED
    BY <1>1, <1>4, <1>5, <1>6, <1>7, Moves

\* A run that writes to its memory spoils the chain of a run that has the same
\* memory open, and that is one of a race.
LEMMA ChainStep ==
  ASSUME TypeInv, OpenInv, RaceInv, SharedInv, ChainInv,
         NEW r \in Runs, Start(r) \/ Step(r) \/ Kill(r)
  PROVE  ChainInv'
  <1>1. /\ \A q \in Runs : q # r => CallOf(q)' = CallOf(q)
        /\ raced \subseteq raced' /\ "base" \in Area
    BY Moves, OthersStay DEF Area
  \* Who is between build and the end of the walk has its own memory open.
  <1>2. ASSUME NEW q \in Runs \ raced, CallOf(q)[1] \in {"build", "claim", "walk"}
        PROVE  opened[q]["base"] = q
    <2>1. tool[q] \in Tool /\ Main(q) = MainOf(tool[q]) /\ step[q] \in 1 .. Len(Main(q))
      BY <1>2 DEF TypeInv, Main, CallOf, Running
    <2>2. step[q] > 7 /\ step[q] <= Len(Main(q))
      <3>1. Main(q)[step[q]][1] \in {"build", "claim", "walk"}
        BY <1>2, <2>1 DEF CallOf, Running
      <3>2. step[q] \in PinAt(tool[q]) + 1 .. Len(Main(q)) - 2 /\ PinAt(tool[q]) \in 7 .. Len(Main(q)) - 2
        BY <2>1, <3>1, Programs
      <3>3. Len(Main(q)) \in Nat
        BY <2>1, Programs
      <3> QED
        BY <2>1, <3>2, <3>3
    <2>3. opened[q]["base"] # Nobody
      BY <1>1, <2>1, <2>2 DEF OpenInv
    <2> QED
      BY <1>1, <1>2, <2>3 DEF SharedInv
  <1>3. CASE BuildChain(r)
    <2>1. chain' = [chain EXCEPT ![opened[r]["base"]] = r] /\ UNCHANGED <<opened, raced, hung>>
      BY <1>3 DEF BuildChain
    <2>2. CallOf(r)[1] = "build"
      BY <1>3 DEF BuildChain, Calls
    <2>3. ASSUME NEW q \in Runs \ raced, CallOf(q)'[1] \in {"claim", "walk"}
          PROVE  chain'[opened[q]["base"]] = q
      <3>1. CASE q = r
        BY <1>2, <2>1, <2>2, <2>3, <3>1 DEF TypeInv
      <3>2. CASE q # r
        <4>1. CallOf(q)[1] \in {"claim", "walk"}
          BY <1>1, <2>3, <3>2
        <4>2. opened[q]["base"] = q /\ chain[q] = q
          BY <1>2, <4>1 DEF ChainInv
        <4>3. opened[r]["base"] # q
          BY <1>1, <2>3, <3>2, TriggerAssumption DEF SharedInv
        <4> QED
          BY <2>1, <4>2, <4>3 DEF TypeInv
      <3> QED
        BY <3>1, <3>2
    <2> QED
      BY <2>1, <2>3 DEF ChainInv
  <1>4. CASE SetupLevels(r)
    <2>1. chain' = [chain EXCEPT ![opened[r]["base"]] = Nobody] /\ UNCHANGED <<opened, raced, hung>>
      BY <1>4 DEF SetupLevels
    <2>2. CallOf(r)[1] = "layout"
      BY <1>4 DEF SetupLevels, Calls
    <2>3. ASSUME NEW q \in Runs \ raced, CallOf(q)'[1] \in {"claim", "walk"}
          PROVE  chain'[opened[q]["base"]] = q
      <3>1. q # r
        BY <1>4, <2>2, <2>3, ToTheWalk DEF BuildChain, ClaimCpu, Calls
      <3>2. CallOf(q)[1] \in {"claim", "walk"}
        BY <1>1, <2>3, <3>1
      <3>3. opened[q]["base"] = q /\ chain[q] = q
        BY <1>2, <3>2 DEF ChainInv
      <3>4. opened[r]["base"] # q
        BY <1>1, <2>3, <3>1, TriggerAssumption DEF SharedInv
      <3> QED
        BY <2>1, <3>3, <3>4 DEF TypeInv
    <2> QED
      BY <2>1, <2>3 DEF ChainInv
  <1>5. CASE Open(r)
    <2>1. PICK a \in Area, c \in Runs :
            opened' = [opened EXCEPT ![r] = [opened[r] EXCEPT ![a] = c]]
      BY <1>5, OpenEffect
    <2>2. chain' = chain /\ hung' = hung /\ CallOf(r)[1] = "open"
      BY <1>5 DEF Open, Calls
    <2>3. ASSUME NEW q \in Runs \ raced', CallOf(q)'[1] \in {"claim", "walk"}
          PROVE  chain'[opened'[q]["base"]] = q
      <3>1. q # r
        BY <2>2, <2>3, ToTheWalk DEF BuildChain, ClaimCpu, Calls
      <3>2. CallOf(q)[1] \in {"claim", "walk"} /\ q \in Runs \ raced
        BY <1>1, <2>3, <3>1
      <3>3. opened'[q] = opened[q]
        BY <2>1, <3>1 DEF TypeInv
      <3> QED
        BY <2>2, <3>2, <3>3 DEF ChainInv
    <2> QED
      BY <1>1, <2>2, <2>3 DEF ChainInv
  <1>6. CASE WalkChain(r)
    <2>1. UNCHANGED <<chain, opened, raced>> /\ CallOf(r)[1] = "walk"
      BY <1>6 DEF WalkChain, Calls
    <2>2. hung' \subseteq raced'
      BY <1>6, <2>1 DEF WalkChain, ChainInv
    <2> QED
      BY <1>1, <2>1, <2>2 DEF ChainInv
  <1>7. CASE ~BuildChain(r) /\ ~SetupLevels(r) /\ ~Open(r) /\ ~WalkChain(r)
    <2>1. UNCHANGED <<chain, opened, raced, hung>>
      BY <1>7
      DEF Start, Step, Kill, Unlink, MapPageFails, SetupHugePages, OpenDevice, DeviceFails,
          SetAffinity, SetAffinityFails, ClaimCpu, ReleaseCpu
    <2>2. CallOf(r)'[1] \in {"claim", "walk"} => CallOf(r)[1] \in {"claim", "walk"}
      BY <1>7, ToTheWalk DEF ClaimCpu, Calls
    <2> QED
      BY <1>1, <2>1, <2>2 DEF ChainInv
  <1> QED
    BY <1>3, <1>4, <1>5, <1>6, <1>7

--------------------------------------------------------------------------------
(* Names that are left                                                     *)

LEMMA TidyStep ==
  ASSUME TypeInv, OpenInv, RaceInv, TidyInv, NEW r \in Runs, Start(r) \/ Step(r) \/ Kill(r)
  PROVE  TidyInv'
  <1> DEFINE Last(q, a) == Len(Main(q)) - IF a = "base" THEN 1 ELSE 0
  <1>1. /\ \A q \in Runs : Main(q)' = Main(q)
        /\ \A q \in Runs : q # r => step'[q] = step[q]
        /\ step[r] \in Nat /\ step'[r] \in Nat /\ Len(Main(r)) \in Nat /\ Len(Main(r)) >= 10
        /\ untidy \subseteq untidy' /\ Area = {"base", "complementary"}
        /\ \A a \in Area : name[a] \in Runs \cup {Nobody}
    BY Moves, OthersStay DEF TypeInv, Area
  <1>2. CASE Unlink(r)
    <2> DEFINE u == CallOf(r)[2]
    <2>1. /\ u \in Area /\ name' = [name EXCEPT ![u] = Nobody] /\ Proceed(r)
          /\ step[r] \in {1, 2, Len(Main(r)) - 1, Len(Main(r))}
          /\ u = IF step[r] \in {1, Len(Main(r)) - 1} THEN "base" ELSE "complementary"
      BY <1>1, <1>2, AtUnlink DEF Unlink
    <2>2. name'[u] = Nobody /\ \A a \in Area : a # u => name'[a] = name[a]
      BY <2>1 DEF TypeInv
    <2>3. step'[r] = step[r] + 1
      BY <2>1 DEF Proceed, Go, TypeInv
    <2>4. \A a \in Area : a # u /\ step[r] \in 1 .. Last(r, a) => step'[r] \in 1 .. Last(r, a)
      BY <1>1, <2>1, <2>3
    <2>5. ASSUME NEW a \in Area, a # u
          PROVE  name'[a] \in untidy' \cup {Nobody} \/ step'[name'[a]] \in 1 .. Last(name'[a], a)
      BY <1>1, <2>2, <2>4, <2>5 DEF TidyInv
    <2> QED
      BY <1>1, <2>2, <2>5 DEF TidyInv
  <1>3. CASE ~Unlink(r)
    <2>1. ASSUME NEW a \in Area, step[r] \in 1 .. Last(r, a)
          PROVE  r \in untidy' \/ step'[r] \in 1 .. Last(r, a)
      BY SMTT(20), <1>1, <1>3, <2>1, Moves
    <2>2. ASSUME NEW a \in Area, name'[a] = name[a]
          PROVE  name'[a] \in untidy' \cup {Nobody} \/ step'[name'[a]] \in 1 .. Last(name'[a], a)
      BY <1>1, <2>1, <2>2 DEF TidyInv
    <2>3. ASSUME Open(r), NEW a \in Area, name'[a] = r
          PROVE  step'[r] \in 1 .. Last(r, a)
      <3>1. step[r] \in {3, 4} /\ Proceed(r)
        BY <2>3, AtOpen DEF Open
      <3>2. step'[r] = step[r] + 1
        BY <3>1 DEF Proceed, Go, TypeInv
      <3> QED
        BY <1>1, <3>1, <3>2
    <2>4. ASSUME NEW a \in Area PROVE name'[a] = name[a] \/ (Open(r) /\ name'[a] = r)
      <3>1. CASE Open(r)
        <4>1. PICK b \in Area, c \in Runs :
                /\ c = r \/ c = name[b]
                /\ name' = [name EXCEPT ![b] = c]
          BY <3>1, OpenEffect
        <4> QED
          BY <3>1, <4>1 DEF TypeInv
      <3>2. CASE ~Open(r)
        BY <1>3, <3>2, NamesStay
      <3> QED
        BY <3>1, <3>2
    <2> QED
      BY <1>1, <2>2, <2>3, <2>4 DEF TidyInv
  <1> QED
    BY <1>2, <1>3

--------------------------------------------------------------------------------
(* The theorems                                                            *)

TriggerInv ==
  TypeInv /\ PinInv /\ ClaimInv /\ OpenInv /\ RaceInv /\ SharedInv /\ ChainInv /\ TidyInv

LEMMA TriggerInductive == Spec => []TriggerInv
  <1>1. Init /\ TypeInv => TriggerInv
    <2> SUFFICES ASSUME Init, TypeInv PROVE TriggerInv
      OBVIOUS
    <2>1. /\ \A r \in Runs : step[r] = 0 /\ CallOf(r)[1] = "none" /\ ~Running(r)
          /\ \A r \in Runs, a \in Area : opened[r][a] = Nobody
          /\ \A a \in Area : name[a] = Nobody
          /\ claimed = {} /\ hung = {}
      BY DEF Init, CallOf, Running
    <2>2. \A r \in Runs : PinAt(tool[r]) \in {7, 8}
      BY DEF PinAt
    <2>3. PinInv
      BY <2>1, <2>2 DEF PinInv
    <2>4. ClaimInv /\ OpenInv /\ RaceInv /\ SharedInv /\ ChainInv /\ TidyInv
      BY <2>1 DEF ClaimInv, OpenInv, RaceInv, SharedInv, ChainInv, TidyInv
    <2> QED
      BY <2>3, <2>4 DEF TriggerInv
  <1>2. TriggerInv /\ TypeInv' /\ [Next]_vars => TriggerInv'
    <2> SUFFICES ASSUME TriggerInv, TypeInv', [Next]_vars PROVE TriggerInv'
      OBVIOUS
    <2>1. ASSUME NEW r \in Runs, Start(r) \/ Step(r) \/ Kill(r) PROVE TriggerInv'
      BY <2>1, PinStep, ClaimStep, OpenStep, RaceStep, SharedStep, ChainStep, TidyStep
      DEF TriggerInv
    <2>2. CASE UNCHANGED vars
      BY <2>2
      DEF vars, TriggerInv, TypeInv, PinInv, ClaimInv, OpenInv, RaceInv, SharedInv, ChainInv,
          TidyInv, Main, CallOf, Running, AboutToOpen
    <2> QED
      BY <2>1, <2>2 DEF Next, Terminating
  <1> QED
    BY <1>1, <1>2, TypeInvariant, PTL DEF Spec

\* However many runs of the triggers there are, of whatever tools, and whatever of them
\* is killed or fails: the flags that claim_cpu saves are those of one experiment, since
\* the process has been pinned to the core that the experiment closes to others.
THEOREM OneMeasurementTheorem == Spec => []OneMeasurement
  <1>1. TriggerInv => OneMeasurement
    <2> SUFFICES ASSUME TriggerInv PROVE Cardinality(claimed) <= 1
      BY DEF OneMeasurement
    <2>1. CASE claimed = {}
      BY <2>1, FS_EmptySet
    <2>2. CASE claimed # {}
      <3>1. PICK p \in claimed : TRUE
        BY <2>2
      <3>2. claimed = {p}
        BY <3>1 DEF TriggerInv, ClaimInv
      <3> QED
        BY <3>2, FS_Singleton
    <2> QED
      BY <2>1, <2>2
  <1> QED
    BY <1>1, TriggerInductive, PTL

\* A walk that never ends is one of a run whose shm_unlink and shm_open another run came
\* between: two runs have one object open in no other way, and only who has it open
\* writes over the chain.
THEOREM LostWalksTheorem == Spec => []LostWalksExplained
  <1>1. TriggerInv => LostWalksExplained
    BY DEF TriggerInv, ChainInv, LostWalksExplained
  <1> QED
    BY <1>1, TriggerInductive, PTL

\* The names that are left in the end are those of runs that were killed, that could not
\* map their memory, or that could not be pinned.
THEOREM LeftNamesTheorem == Spec => []LeftNamesExplained
  <1>1. TriggerInv => LeftNamesExplained
    <2> SUFFICES ASSUME TriggerInv, \A r \in Runs : Ended(r), NEW a \in Area
                 PROVE  name[a] \in untidy \cup {Nobody}
      BY DEF LeftNamesExplained
    <2>1. CASE name[a] \in Runs
      <3> DEFINE n == Len(Main(name[a]))
      <3>1. n \in Nat /\ step[name[a]] > n
        <4>1. tool[name[a]] \in Tool /\ Main(name[a]) = MainOf(tool[name[a]])
          BY <2>1 DEF TriggerInv, TypeInv, Main
        <4> QED
          BY <2>1, <4>1, Programs DEF Ended
      <3>2. step[name[a]] \notin 1 .. n - IF a = "base" THEN 1 ELSE 0
        BY <2>1, <3>1 DEF TriggerInv, TypeInv
      <3> QED
        BY <3>2 DEF TriggerInv, TidyInv
    <2>2. CASE name[a] = Nobody
      BY <2>2
    <2> QED
      BY <2>1, <2>2 DEF TriggerInv, TypeInv
  <1> QED
    BY <1>1, TriggerInductive, PTL

================================================================================
