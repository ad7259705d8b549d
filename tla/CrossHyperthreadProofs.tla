-------------------------- MODULE CrossHyperthreadProofs --------------------------
(***************************************************************************)
(* For any number of runs, iterations and PCIDs, whichever waits time out  *)
(* and whichever threads cannot be created: the first run keeps its        *)
(* threads in step, misses mean what they are said to mean, and freed      *)
(* memory is not used, as long as the driver has not given up on a thread. *)
(***************************************************************************)
EXTENDS CrossHyperthread, TLAPS

--------------------------------------------------------------------------------
(* Types *)

\* At most one miss is counted in an iteration.
CountInv ==
  /\ driver # "done" => run \in Run
  /\ \A r \in Run : sub[r] = "switch" => rounds[r] < Iterations
  /\ \A r \in Run : misses[r] <= begun[r] /\ (main[r] \in Holding => misses[r] < begun[r])

TypeInv == TypeOK /\ CountInv

LEMMA CompletionType ==
  ASSUME NEW c \in Completion
  PROVE  /\ Completed(c) \in Completion /\ (MayPass(c) => Taken(c) \in Completion)
         /\ 0 \in Completion /\ All \in Completion
  BY CrossHyperthreadAssumption DEF Completion, Completed, MayPass, Taken

LEMMA ReturnType ==
  ASSUME TypeInv, driver # "done", NEW value \in -1 .. Iterations, Return(value)
  PROVE  /\ result' \in [Run -> -1 .. Iterations \cup {Nothing}]
         /\ run' \in 1 .. Runs + 1 /\ driver' \in {"main", "done"}
         /\ driver' # "done" => run' \in Run
  <1>1. run \in 1 .. Runs /\ Runs \in Nat
    BY CrossHyperthreadAssumption DEF TypeInv, CountInv, Run
  <1>2. run' = run + 1 /\ driver' = IF run = Runs THEN "done" ELSE "main"
    BY DEF Return
  <1>3. result' = [result EXCEPT ![run] = value]
    BY DEF Return
  <1>4. result' \in [Run -> -1 .. Iterations \cup {Nothing}]
    BY <1>3 DEF TypeInv, TypeOK
  <1> QED
    BY <1>1, <1>2, <1>4 DEF Run

LEMMA DriverType ==
  ASSUME TypeInv, Driver
  PROVE  TypeInv'
  <1>1. Runs \in Nat \ {0} /\ Iterations \in Nat \ {0} /\ Pcids \in Nat \ {0}
    BY CrossHyperthreadAssumption
  <1>2. CASE CreateMain
    <2>1. /\ driver = "main" /\ driver' = "sub" /\ run \in Run
          /\ data' = [data EXCEPT ![run] = "live"] /\ misses' = [misses EXCEPT ![run] = 0]
          /\ main' = [main EXCEPT ![run] = "created"]
          /\ UNCHANGED <<completions, gaveUp, run, result, begun, subVars, cacheVars>>
      BY <1>2 DEF CreateMain, TypeInv, CountInv
    <2>2. /\ data' \in [Run -> {"none", "live", "freed"}] /\ misses' \in [Run -> 0 .. Iterations]
          /\ main' \in [Run -> MainStep]
      BY <1>1, <2>1 DEF TypeInv, TypeOK, MainStep
    <2>3. \A r \in Run : misses'[r] <= begun[r] /\ (main'[r] \in Holding => misses'[r] < begun[r])
      BY <1>1, <2>1 DEF TypeInv, TypeOK, CountInv, Holding
    <2> QED
      BY <2>1, <2>2, <2>3 DEF TypeInv, TypeOK, CountInv, completions, subVars, cacheVars
  <1>3. CASE CreateMainFails
    <2>1. /\ driver = "main" /\ Return(-1) /\ data' = [data EXCEPT ![run] = "live"]
          /\ UNCHANGED <<completions, gaveUp, mainVars, subVars, cacheVars>>
      BY <1>3 DEF CreateMainFails
    <2>2. data' \in [Run -> {"none", "live", "freed"}]
      BY <2>1 DEF TypeInv, TypeOK
    <2>3. -1 \in -1 .. Iterations
      BY <1>1
    <2> QED
      BY <2>1, <2>2, <2>3, ReturnType
      DEF TypeInv, TypeOK, CountInv, completions, mainVars, subVars, cacheVars
  <1>4. CASE CreateSub
    BY <1>1, <1>4, CompletionType DEF TypeInv, TypeOK, CountInv, CreateSub, Return, Run, Holding,
       completions, mainVars, subVars, cacheVars, MainStep, SubStep
  <1>5. CASE CreateSubFails
    <2>1. /\ driver = "sub" /\ Return(-1)
          /\ UNCHANGED <<completions, gaveUp, data, mainVars, subVars, cacheVars>>
      BY <1>5 DEF CreateSubFails
    <2>2. -1 \in -1 .. Iterations
      BY <1>1
    <2> QED
      BY <2>1, <2>2, ReturnType
      DEF TypeInv, TypeOK, CountInv, completions, mainVars, subVars, cacheVars
  <1>6. CASE WakeUp
    BY <1>1, <1>6, CompletionType DEF TypeInv, TypeOK, CountInv, WakeUp, Return, Run, Holding,
       completions, mainVars, subVars, cacheVars, MainStep, SubStep
  <1>7. CASE WaitForMain
    BY <1>1, <1>7, CompletionType DEF TypeInv, TypeOK, CountInv, WaitForMain, Return, Run, Holding,
       completions, mainVars, subVars, cacheVars, MainStep, SubStep
  <1>8. CASE WaitForMainTimesOut
    <2>1. /\ driver' = "read" /\ gaveUp' = TRUE /\ disturbances' = [r \in Run |-> 0]
          /\ driver # "done"
          /\ UNCHANGED <<completions, run, data, result, mainVars, subVars, affected, remembered, seen>>
      BY <1>8 DEF WaitForMainTimesOut
    <2>2. disturbances' \in [Run -> 0 .. MaxDisturb]
      BY <2>1, CrossHyperthreadAssumption
    <2> QED
      BY <2>1, <2>2 DEF TypeInv, TypeOK, CountInv, completions, mainVars, subVars
  <1>9. CASE ReadAndFree
    <2>1. /\ driver = "read" /\ Return(misses[run]) /\ data' = [data EXCEPT ![run] = "freed"]
          /\ UNCHANGED <<completions, gaveUp, mainVars, subVars, cacheVars>>
      BY <1>9 DEF ReadAndFree
    <2>2. data' \in [Run -> {"none", "live", "freed"}]
      BY <2>1 DEF TypeInv, TypeOK
    <2>3. misses[run] \in -1 .. Iterations
      BY <1>1, <2>1 DEF TypeInv, TypeOK, CountInv
    <2> QED
      BY <2>1, <2>2, <2>3, ReturnType
      DEF TypeInv, TypeOK, CountInv, completions, mainVars, subVars, cacheVars
  <1> QED
    BY <1>2, <1>3, <1>4, <1>5, <1>6, <1>7, <1>8, <1>9 DEF Driver

LEMMA GoesType ==
  ASSUME TypeInv, NEW r \in Run, NEW from, NEW to \in MainStep, MainGoes(r, from, to),
         to \in Holding => from \in Holding
  PROVE  /\ main' \in [Run -> MainStep]
         /\ \A q \in Run : main'[q] \in Holding => main[q] \in Holding
  BY DEF TypeInv, TypeOK, MainGoes

LEMMA MainType ==
  ASSUME TypeInv, NEW r \in Run, Main(r)
  PROVE  TypeInv'
  <1>1. Runs \in Nat \ {0} /\ Iterations \in Nat \ {0} /\ Pcids \in Nat \ {0}
    BY CrossHyperthreadAssumption
  <1>2. CASE MainSetup(r)
    <2>1. /\ MainGoes(r, "setup", "iterate") /\ MayPass(setup) /\ setup' = Taken(setup)
          /\ UNCHANGED <<desynchronization, pcid_switching, main_done, sub_done, driverVars, begun,
                         misses, subVars, cacheVars>>
      BY <1>2 DEF MainSetup
    <2>2. setup' \in Completion
      BY <2>1, CompletionType DEF TypeInv, TypeOK
    <2>3. /\ main' \in [Run -> MainStep]
          /\ \A q \in Run : main'[q] \in Holding => main[q] \in Holding
      BY <2>1, GoesType DEF MainStep, Holding
    <2> QED
      BY <2>1, <2>2, <2>3 DEF TypeInv, TypeOK, CountInv, driverVars, subVars, cacheVars
  <1>3. CASE MainPrime(r)
    <2>1. /\ begun[r] < Iterations /\ begun' = [begun EXCEPT ![r] = begun[r] + 1]
          /\ main' = [main EXCEPT ![r] = "switch"]
          /\ remembered' = [m \in Run |-> m = r] /\ seen' = [seen EXCEPT ![r] = {}]
          /\ UNCHANGED <<completions, driverVars, misses, subVars, affected, disturbances>>
      BY <1>3 DEF MainPrime, MainGoes
    <2>2. /\ begun' \in [Run -> 0 .. Iterations] /\ main' \in [Run -> MainStep]
          /\ seen' \in [Run -> SUBSET (1 .. Pcids)] /\ remembered' \in [Run -> BOOLEAN]
      BY <1>1, <2>1 DEF TypeInv, TypeOK, MainStep
    <2>3. \A q \in Run : misses[q] <= begun'[q] /\ (main'[q] \in Holding => misses[q] < begun'[q])
      BY <1>1, <2>1 DEF TypeInv, TypeOK, CountInv, Holding
    <2> QED
      BY <2>1, <2>2, <2>3 DEF TypeInv, TypeOK, CountInv, completions, driverVars, subVars
  <1>4. CASE MainSwitch(r)
    BY <1>1, <1>4, CompletionType DEF TypeInv, TypeOK, CountInv, MainSwitch, MainGoes, Run, Holding,
       completions, driverVars, subVars, cacheVars, MainStep
  <1>5. CASE MainAsk(r)
    <2>1. /\ MainGoes(r, "ask", "await") /\ desynchronization' = Completed(desynchronization)
          /\ UNCHANGED <<setup, pcid_switching, main_done, sub_done, driverVars, begun,
                         misses, subVars, cacheVars>>
      BY <1>5 DEF MainAsk
    <2>2. desynchronization' \in Completion
      BY <2>1, CompletionType DEF TypeInv, TypeOK
    <2>3. /\ main' \in [Run -> MainStep]
          /\ \A q \in Run : main'[q] \in Holding => main[q] \in Holding
      BY <2>1, GoesType DEF MainStep, Holding
    <2> QED
      BY <2>1, <2>2, <2>3 DEF TypeInv, TypeOK, CountInv, driverVars, subVars, cacheVars
  <1>6. CASE MainAwait(r)
    <2>1. /\ MainGoes(r, "await", "probe") /\ MayPass(pcid_switching) /\ pcid_switching' = Taken(pcid_switching)
          /\ UNCHANGED <<setup, desynchronization, main_done, sub_done, driverVars, begun,
                         misses, subVars, cacheVars>>
      BY <1>6 DEF MainAwait
    <2>2. pcid_switching' \in Completion
      BY <2>1, CompletionType DEF TypeInv, TypeOK
    <2>3. /\ main' \in [Run -> MainStep]
          /\ \A q \in Run : main'[q] \in Holding => main[q] \in Holding
      BY <2>1, GoesType DEF MainStep, Holding
    <2> QED
      BY <2>1, <2>2, <2>3 DEF TypeInv, TypeOK, CountInv, driverVars, subVars, cacheVars
  <1>7. CASE MainProbe(r)
    <2>1. /\ main[r] = "probe" /\ main' = [main EXCEPT ![r] = "restore"]
          /\ misses' = [misses EXCEPT ![r] = IF remembered[r] THEN misses[r] ELSE misses[r] + 1]
          /\ UNCHANGED <<completions, driverVars, begun, subVars, cacheVars>>
      BY <1>7 DEF MainProbe, MainGoes
    <2>2. misses[r] < begun[r] /\ begun[r] <= Iterations
      BY <2>1 DEF TypeInv, TypeOK, CountInv, Holding
    <2>3. misses' \in [Run -> 0 .. Iterations] /\ main' \in [Run -> MainStep]
      BY <1>1, <2>1, <2>2 DEF TypeInv, TypeOK, MainStep
    <2>4. \A q \in Run : misses'[q] <= begun[q] /\ (main'[q] \in Holding => misses'[q] < begun[q])
      BY <1>1, <2>1, <2>2 DEF TypeInv, TypeOK, CountInv, Holding
    <2> QED
      BY <2>1, <2>3, <2>4 DEF TypeInv, TypeOK, CountInv, completions, driverVars, subVars, cacheVars
  <1>8. CASE MainRestore(r)
    BY <1>1, <1>8, CompletionType DEF TypeInv, TypeOK, CountInv, MainRestore, MainGoes, Run, Holding,
       completions, driverVars, subVars, cacheVars, MainStep
  <1>9. CASE MainRelease(r)
    <2>1. /\ MainGoes(r, "iterate", "sub_done") /\ desynchronization' = All
          /\ UNCHANGED <<setup, pcid_switching, main_done, sub_done, driverVars, begun,
                         misses, subVars, cacheVars>>
      BY <1>9 DEF MainRelease
    <2>2. desynchronization' \in Completion
      BY <2>1, CompletionType DEF TypeInv, TypeOK
    <2>3. /\ main' \in [Run -> MainStep]
          /\ \A q \in Run : main'[q] \in Holding => main[q] \in Holding
      BY <2>1, GoesType DEF MainStep, Holding
    <2> QED
      BY <2>1, <2>2, <2>3 DEF TypeInv, TypeOK, CountInv, driverVars, subVars, cacheVars
  <1>10. CASE MainWaitForSub(r)
    <2>1. /\ MainGoes(r, "sub_done", "main_done") /\ MayPass(sub_done) /\ sub_done' = Taken(sub_done)
          /\ UNCHANGED <<setup, desynchronization, pcid_switching, main_done, driverVars, begun,
                         misses, subVars, cacheVars>>
      BY <1>10 DEF MainWaitForSub
    <2>2. sub_done' \in Completion
      BY <2>1, CompletionType DEF TypeInv, TypeOK
    <2>3. /\ main' \in [Run -> MainStep]
          /\ \A q \in Run : main'[q] \in Holding => main[q] \in Holding
      BY <2>1, GoesType DEF MainStep, Holding
    <2> QED
      BY <2>1, <2>2, <2>3 DEF TypeInv, TypeOK, CountInv, driverVars, subVars, cacheVars
  <1>11. CASE MainWaitForSubTimesOut(r)
    BY <1>1, <1>11, CompletionType DEF TypeInv, TypeOK, CountInv, MainWaitForSubTimesOut, MainGoes, Run, Holding,
       completions, driverVars, subVars, cacheVars, MainStep
  <1>12. CASE MainEnd(r)
    <2>1. /\ MainGoes(r, "main_done", "ended") /\ main_done' = All
          /\ UNCHANGED <<setup, desynchronization, pcid_switching, sub_done, driverVars, begun,
                         misses, subVars, cacheVars>>
      BY <1>12 DEF MainEnd
    <2>2. main_done' \in Completion
      BY <2>1, CompletionType DEF TypeInv, TypeOK
    <2>3. /\ main' \in [Run -> MainStep]
          /\ \A q \in Run : main'[q] \in Holding => main[q] \in Holding
      BY <2>1, GoesType DEF MainStep, Holding
    <2> QED
      BY <2>1, <2>2, <2>3 DEF TypeInv, TypeOK, CountInv, driverVars, subVars, cacheVars
  <1> QED
    BY <1>2, <1>3, <1>4, <1>5, <1>6, <1>7, <1>8, <1>9, <1>10, <1>11, <1>12 DEF Main

LEMMA SubType ==
  ASSUME TypeInv, NEW r \in Run, SubThread(r)
  PROVE  TypeInv'
  <1>1. Runs \in Nat \ {0} /\ Iterations \in Nat \ {0} /\ Pcids \in Nat \ {0}
    BY CrossHyperthreadAssumption
  <1>2. CASE SubStart(r)
    BY <1>1, <1>2, CompletionType DEF TypeInv, TypeOK, CountInv, SubStart, SubGoes, Run, Holding,
       completions, driverVars, mainVars, cacheVars, SubStep
  <1>3. CASE SubAwait(r)
    <2>1. /\ rounds[r] < Iterations /\ sub' = [sub EXCEPT ![r] = "switch"]
          /\ MayPass(desynchronization) /\ desynchronization' = Taken(desynchronization)
          /\ pcid' = [pcid EXCEPT ![r] = 0]
          /\ UNCHANGED <<setup, pcid_switching, main_done, sub_done, driverVars, mainVars, rounds,
                         cacheVars>>
      BY <1>3 DEF SubAwait, SubGoes
    <2>2. desynchronization' \in Completion
      BY <2>1, CompletionType DEF TypeInv, TypeOK
    <2>3. sub' \in [Run -> SubStep] /\ pcid' \in [Run -> 0 .. Pcids]
      BY <1>1, <2>1 DEF TypeInv, TypeOK, SubStep
    <2>4. \A q \in Run : sub'[q] = "switch" => rounds[q] < Iterations
      BY <2>1 DEF TypeInv, TypeOK, CountInv
    <2> QED
      BY <2>1, <2>2, <2>3, <2>4 DEF TypeInv, TypeOK, CountInv, driverVars, mainVars, cacheVars
  <1>4. CASE SubSwitchPcid(r)
    <2>1. /\ pcid[r] < Pcids /\ pcid' = [pcid EXCEPT ![r] = pcid[r] + 1]
          /\ seen' = [m \in Run |-> IF main[m] \in Holding THEN seen[m] \cup {pcid'[r]} ELSE seen[m]]
          /\ remembered' = [m \in Run |-> remembered[m] /\ ~(affected /\ seen'[m] = 1 .. Pcids)]
          /\ UNCHANGED <<completions, driverVars, mainVars, sub, rounds, affected, disturbances>>
      BY <1>4 DEF SubSwitchPcid
    <2>2. pcid' \in [Run -> 0 .. Pcids] /\ pcid'[r] \in 1 .. Pcids
      BY <1>1, <2>1 DEF TypeInv, TypeOK
    <2>3. seen' \in [Run -> SUBSET (1 .. Pcids)]
      BY <2>1, <2>2 DEF TypeInv, TypeOK
    <2>4. remembered' \in [Run -> BOOLEAN]
      BY <2>1
    <2> QED
      BY <2>1, <2>2, <2>3, <2>4 DEF TypeInv, TypeOK, CountInv, completions, driverVars, mainVars
  <1>5. CASE SubAnswer(r)
    <2>1. /\ sub[r] = "switch" /\ sub' = [sub EXCEPT ![r] = "await"]
          /\ rounds' = [rounds EXCEPT ![r] = rounds[r] + 1]
          /\ pcid_switching' = Completed(pcid_switching)
          /\ UNCHANGED <<setup, desynchronization, main_done, sub_done, driverVars, mainVars, pcid,
                         cacheVars>>
      BY <1>5 DEF SubAnswer, SubGoes
    <2>2. pcid_switching' \in Completion
      BY <2>1, CompletionType DEF TypeInv, TypeOK
    <2>3. rounds[r] < Iterations
      BY <2>1 DEF TypeInv, CountInv
    <2>4. sub' \in [Run -> SubStep] /\ rounds' \in [Run -> 0 .. Iterations]
      BY <1>1, <2>1, <2>3 DEF TypeInv, TypeOK, SubStep
    <2>5. \A q \in Run : sub'[q] = "switch" => rounds'[q] < Iterations
      BY <2>1 DEF TypeInv, TypeOK, CountInv
    <2> QED
      BY <2>1, <2>2, <2>4, <2>5 DEF TypeInv, TypeOK, CountInv, driverVars, mainVars, cacheVars
  <1>6. CASE SubRelease(r)
    BY <1>1, <1>6, CompletionType DEF TypeInv, TypeOK, CountInv, SubRelease, SubGoes, Run, Holding,
       completions, driverVars, mainVars, cacheVars, SubStep
  <1>7. CASE SubEnd(r)
    BY <1>1, <1>7, CompletionType DEF TypeInv, TypeOK, CountInv, SubEnd, SubGoes, Run, Holding,
       completions, driverVars, mainVars, cacheVars, SubStep
  <1> QED
    BY <1>2, <1>3, <1>4, <1>5, <1>6, <1>7 DEF SubThread

LEMMA DisturbType ==
  ASSUME TypeInv, NEW r \in Run, Disturb(r)
  PROVE  TypeInv'
  <1>1. /\ remembered' = [remembered EXCEPT ![r] = FALSE]
        /\ disturbances' = [disturbances EXCEPT ![r] = disturbances[r] + 1]
        /\ disturbances[r] < MaxDisturb
        /\ UNCHANGED <<completions, driverVars, mainVars, subVars, affected, seen>>
    BY DEF Disturb
  <1>2. MaxDisturb \in Nat
    BY CrossHyperthreadAssumption
  <1>3. remembered' \in [Run -> BOOLEAN] /\ disturbances' \in [Run -> 0 .. MaxDisturb]
    BY <1>1, <1>2 DEF TypeInv, TypeOK
  <1> QED
    BY <1>1, <1>3 DEF TypeInv, TypeOK, CountInv, completions, driverVars, mainVars, subVars

LEMMA TypeInvariant == Spec => []TypeInv
  <1>1. Init => TypeInv
    <2> SUFFICES ASSUME Init PROVE TypeInv
      OBVIOUS
    <2>1. Runs \in Nat \ {0} /\ Iterations \in Nat \ {0} /\ Pcids \in Nat \ {0}
      BY CrossHyperthreadAssumption
    <2>2. /\ affected \in BOOLEAN /\ driver = "main" /\ run = 1 /\ gaveUp = FALSE
          /\ main = [r \in Run |-> "absent"] /\ sub = [r \in Run |-> "absent"]
          /\ begun = [r \in Run |-> 0] /\ rounds = [r \in Run |-> 0] /\ pcid = [r \in Run |-> 0]
          /\ misses = [r \in Run |-> 0] /\ remembered = [r \in Run |-> FALSE]
          /\ data = [r \in Run |-> "none"] /\ result = [r \in Run |-> Nothing]
          /\ seen = [r \in Run |-> {}] /\ disturbances = [r \in Run |-> 0]
      BY DEF Init
    <2>3. /\ 0 \in 0 .. MaxDisturb /\ run \in 1 .. Runs + 1 /\ run \in Run /\ 0 \in 0 .. Iterations /\ 0 \in 0 .. Pcids
          /\ "absent" \in MainStep /\ "absent" \in SubStep
      BY <2>1, <2>2, CrossHyperthreadAssumption DEF Run, MainStep, SubStep
    <2>4. \A c \in {setup, desynchronization, pcid_switching, main_done, sub_done} : c \in Completion
      BY DEF Init, Completion
    <2>5. TypeOK
      BY <2>2, <2>3, <2>4 DEF TypeOK
    <2>6. CountInv
      BY <2>1, <2>2, <2>3 DEF CountInv, Holding
    <2> QED
      BY <2>5, <2>6 DEF TypeInv
  <1>2. TypeInv /\ [Next]_vars => TypeInv'
    <2> SUFFICES ASSUME TypeInv, [Next]_vars PROVE TypeInv'
      OBVIOUS
    <2>1. CASE UNCHANGED vars
      BY <2>1
      DEF vars, completions, driverVars, mainVars, subVars, cacheVars, TypeInv, TypeOK, CountInv
    <2> QED
      BY <2>1, DriverType, MainType, SubType, DisturbType DEF Next, Terminating
  <1> QED
    BY <1>1, <1>2, PTL DEF Spec

--------------------------------------------------------------------------------
(* One main thread at a time                                               *)

Idle == {"absent", "created", "ended"}

\* Unless the driver gave up, the main threads of earlier runs have ended before it
\* goes on: main_done is completed, after it was initialised for a run, by that run.
WaitInv ==
  /\ \A r \in Run : r > run => main[r] = "absent" /\ sub[r] = "absent"
  /\ driver = "main" => main[run] = "absent" /\ sub[run] = "absent"
  /\ driver \in {"sub", "init"} => main[run] = "created" /\ sub[run] = "absent"
  /\ driver \in {"sub", "init", "wait", "read"} => data[run] = "live"
  /\ driver = "done" => run = Runs + 1
  /\ ~gaveUp =>
       /\ \A r \in Run : r < run => main[r] \in Idle
       /\ driver = "wait" /\ main_done # 0 => main[run] = "ended"
       /\ driver = "read" => main[run] = "ended"

LEMMA OneMain ==
  ASSUME TypeInv, WaitInv, ~gaveUp, NEW r \in Run, main[r] \notin Idle
  PROVE  r = run /\ driver = "wait" /\ data[r] = "live" /\ main_done = 0
  <1>1. Run \subseteq Nat /\ run \in Nat
    BY CrossHyperthreadAssumption DEF Run, TypeInv, TypeOK
  <1>2. r = run
    BY <1>1 DEF WaitInv, Idle
  <1>3. driver # "done"
    BY <1>2, CrossHyperthreadAssumption DEF WaitInv, Run
  <1>4. driver \in {"main", "sub", "init", "wait", "read"}
    BY <1>3 DEF TypeInv, TypeOK
  <1>5. driver = "wait"
    BY <1>2, <1>4 DEF WaitInv, Idle
  <1> QED
    BY <1>2, <1>5 DEF WaitInv, Idle

\* What the threads leave alone.
LEMMA ThreadFrame ==
  ASSUME NEW r \in Run, Main(r) \/ SubThread(r)
  PROVE  /\ UNCHANGED <<driverVars, affected, disturbances>>
         /\ SubThread(r) => UNCHANGED <<main_done, main, begun, misses>>
         /\ Main(r) => UNCHANGED <<sub, rounds, pcid>>
         /\ Main(r) => main_done' = main_done \/ (MainEnd(r) /\ main_done' = All)
  BY DEF Main, MainSetup, MainPrime, MainSwitch, MainAsk, MainAwait, MainProbe, MainRestore,
         MainRelease, MainWaitForSub, MainWaitForSubTimesOut, MainEnd, SubThread, SubStart,
         SubAwait, SubSwitchPcid, SubAnswer, SubRelease, SubEnd, driverVars, mainVars, subVars,
         cacheVars, completions

\* A thread that has been woken up moves, and moves itself only.
LEMMA ThreadMoves ==
  ASSUME TypeInv, NEW r \in Run
  PROVE  /\ Main(r) => /\ main[r] \notin Idle /\ main'[r] \notin {"absent", "created"}
                       /\ main' \in [Run -> MainStep]
                       /\ \A q \in Run : q # r => main'[q] = main[q]
         /\ SubThread(r) => /\ sub[r] \notin {"absent", "ended"} /\ sub'[r] # "absent"
                            /\ \A q \in Run : q # r => sub'[q] = sub[q]
  <1>1. ASSUME Main(r)
        PROVE  /\ main[r] \notin Idle /\ \E to \in MainStep \ {"absent", "created"} :
                    main' = [main EXCEPT ![r] = to]
    BY <1>1
    DEF Main, MainSetup, MainPrime, MainSwitch, MainAsk, MainAwait, MainProbe, MainRestore,
        MainRelease, MainWaitForSub, MainWaitForSubTimesOut, MainEnd, MainGoes, MainStep, Idle
  <1>2. ASSUME SubThread(r)
        PROVE  /\ sub[r] \notin {"absent", "ended"}
               /\ sub' = sub \/ \E to \in SubStep \ {"absent"} : sub' = [sub EXCEPT ![r] = to]
    BY <1>2
    DEF SubThread, SubStart, SubAwait, SubSwitchPcid, SubAnswer, SubRelease, SubEnd, SubGoes, SubStep
  <1> QED
    BY <1>1, <1>2 DEF TypeInv, TypeOK

LEMMA WaitStep ==
  ASSUME TypeInv, WaitInv, TypeInv', Driver \/ \E r \in Run : Main(r) \/ SubThread(r)
  PROVE  WaitInv'
  <1>1. /\ Run \subseteq Nat /\ run \in Nat /\ Runs \in Nat /\ Run = 1 .. Runs
        /\ driver # "done" => run \in Run
    BY CrossHyperthreadAssumption DEF Run, TypeInv, TypeOK, CountInv
  <1>2. CASE CreateMain
    BY <1>1, <1>2
    DEF CreateMain, WaitInv, Idle, TypeInv, TypeOK, completions, subVars, cacheVars
  <1>3. ASSUME NEW value, Return(value), driver # "done", UNCHANGED <<main, sub, gaveUp>>,
               ~gaveUp => main[run] \in Idle
        PROVE  WaitInv'
    <2>1. run' = run + 1 /\ driver' = IF run = Runs THEN "done" ELSE "main"
      BY <1>3 DEF Return
    <2>2. \A r \in Run : r < run' => r < run \/ r = run
      BY <1>1, <2>1
    <2>3. /\ driver' = "main" => run' \in Run /\ run' > run
          /\ driver' = "done" => run' = Runs + 1
      BY <1>1, <1>3, <2>1
    <2> QED
      BY <1>1, <1>3, <2>1, <2>2, <2>3 DEF WaitInv
  <1>4. CASE CreateMainFails
    BY <1>3, <1>4 DEF CreateMainFails, WaitInv, Idle, mainVars, subVars
  <1>5. CASE CreateSub
    BY <1>1, <1>5 DEF CreateSub, WaitInv, mainVars, subVars, completions
  <1>6. CASE CreateSubFails
    BY <1>3, <1>6 DEF CreateSubFails, WaitInv, Idle, mainVars, subVars
  <1>7. CASE WakeUp
    BY ZenonT(30), <1>1, <1>7 DEF WakeUp, WaitInv, Idle, TypeInv, TypeOK
  <1>8. CASE WaitForMain
    BY <1>1, <1>8 DEF WaitForMain, MayPass, WaitInv, mainVars, subVars
  <1>9. CASE WaitForMainTimesOut
    BY <1>1, <1>9 DEF WaitForMainTimesOut, WaitInv, mainVars, subVars
  <1>10. CASE ReadAndFree
    BY <1>3, <1>10 DEF ReadAndFree, WaitInv, Idle, mainVars, subVars
  <1>11. ASSUME NEW r \in Run, Main(r)
         PROVE  WaitInv'
    <2>1. /\ UNCHANGED <<driver, run, data, gaveUp, sub>> /\ main[r] \notin Idle
          /\ \A q \in Run : q # r => main'[q] = main[q]
          /\ main_done' = main_done \/ (MainEnd(r) /\ main_done' = All)
      BY <1>11, ThreadFrame, ThreadMoves DEF driverVars
    <2>2. r <= run /\ (driver = "main" => r # run) /\ (driver \in {"sub", "init"} => r # run)
      BY <1>1, <2>1 DEF WaitInv, Idle
    <2>3. ~gaveUp => r = run /\ driver = "wait" /\ main_done = 0
      BY <2>1, OneMain
    <2>4. MainEnd(r) => main'[r] = "ended"
      BY DEF MainEnd, MainGoes, TypeInv, TypeOK
    <2> QED
      BY <1>1, <2>1, <2>2, <2>3, <2>4 DEF WaitInv
  <1>12. ASSUME NEW r \in Run, SubThread(r)
         PROVE  WaitInv'
    <2>1. /\ UNCHANGED <<driver, run, data, gaveUp, main, main_done>> /\ sub[r] # "absent"
          /\ \A q \in Run : q # r => sub'[q] = sub[q]
      BY <1>12, ThreadFrame, ThreadMoves DEF driverVars
    <2>2. r <= run /\ (driver = "main" => r # run) /\ (driver \in {"sub", "init"} => r # run)
      BY <1>1, <2>1 DEF WaitInv
    <2> QED
      BY <1>1, <2>1, <2>2 DEF WaitInv
  <1> QED
    BY <1>2, <1>4, <1>5, <1>6, <1>7, <1>8, <1>9, <1>10, <1>11, <1>12 DEF Driver

--------------------------------------------------------------------------------
(* Misses                                                                  *)

\* Where the sibling's switches evict nothing, only a disturbance takes main's entry
\* away between prime and probe: it is counted before the miss it causes.
Accounted(r) ==
  /\ misses[r] <= disturbances[r]
  /\ main[r] \in Holding /\ ~remembered[r] => misses[r] < disturbances[r]

MissInv == ~gaveUp /\ ~affected => \A r \in Run : Accounted(r)

LEMMA MissStep ==
  ASSUME TypeInv, WaitInv, MissInv, Driver \/ \E r \in Run : Main(r) \/ SubThread(r) \/ Disturb(r)
  PROVE  MissInv'
  <1>1. SUFFICES ASSUME ~gaveUp', ~affected', NEW q \in Run
                 PROVE  Accounted(q)'
    BY DEF MissInv
  <1>2. misses[q] \in Nat /\ disturbances[q] \in Nat /\ remembered[q] \in BOOLEAN
    BY CrossHyperthreadAssumption DEF TypeInv, TypeOK
  <1>3. CASE Driver
    <2>1. ~gaveUp /\ UNCHANGED cacheVars
      BY <1>1, <1>3
      DEF Driver, CreateMain, CreateMainFails, CreateSub, CreateSubFails, WakeUp, WaitForMain,
          WaitForMainTimesOut, ReadAndFree
    <2>2. /\ misses' = misses \/ misses' = [misses EXCEPT ![run] = 0]
          /\ main' = main \/ \E to \in {"created", "setup"} : main' = [main EXCEPT ![run] = to]
      BY <1>3
      DEF Driver, CreateMain, CreateMainFails, CreateSub, CreateSubFails, WakeUp, WaitForMain,
          WaitForMainTimesOut, ReadAndFree, mainVars
    <2>3. misses'[q] = misses[q] \/ misses'[q] = 0
      BY <2>2 DEF TypeInv, TypeOK
    <2>4. main'[q] \in Holding => main[q] \in Holding
      BY <2>2 DEF TypeInv, TypeOK, Holding
    <2>5. Accounted(q)
      BY <1>1, <2>1 DEF MissInv, cacheVars
    <2> QED
      BY <1>2, <2>1, <2>3, <2>4, <2>5 DEF Accounted, cacheVars
  <1>4. ASSUME NEW r \in Run, Main(r)
        PROVE  Accounted(q)'
    <2>1. /\ ~gaveUp /\ ~affected /\ main[r] \notin Idle /\ \A p \in Run : p # r => main'[p] = main[p]
          /\ disturbances' = disturbances
      BY <1>1, <1>4, ThreadFrame, ThreadMoves DEF driverVars
    <2>2. r = run /\ \A p \in Run : p # r => main[p] \in Idle
      BY <2>1, OneMain
    <2>3. q # r => main'[q] \notin Holding
      BY <2>1, <2>2 DEF Holding, Idle
    <2>4. Accounted(q)
      BY <2>1 DEF MissInv
    <2>5. CASE MainPrime(r)
      <3>1. misses' = misses /\ (q = r => remembered'[q])
        BY <2>5 DEF MainPrime
      <3> QED
        BY <2>1, <2>3, <2>4, <3>1 DEF Accounted
    <2>6. CASE MainProbe(r)
      <3>1. /\ main[r] = "probe" /\ main' = [main EXCEPT ![r] = "restore"]
            /\ misses' = [misses EXCEPT ![r] = IF remembered[r] THEN misses[r] ELSE misses[r] + 1]
        BY <2>6 DEF MainProbe, MainGoes
      <3>2. main'[q] \notin Holding
        BY <2>3, <3>1 DEF Holding, TypeInv, TypeOK
      <3>3. CASE q = r
        <4>1. misses'[q] = IF remembered[q] THEN misses[q] ELSE misses[q] + 1
          BY <3>1, <3>3 DEF TypeInv, TypeOK
        <4>2. main[q] \in Holding
          BY <3>1, <3>3 DEF Holding
        <4> QED
          BY <1>2, <2>1, <2>4, <3>2, <4>1, <4>2 DEF Accounted
      <3>4. CASE q # r
        <4>1. misses'[q] = misses[q]
          BY <3>1, <3>4 DEF TypeInv, TypeOK
        <4> QED
          BY <2>1, <2>4, <3>2, <4>1 DEF Accounted
      <3> QED
        BY <3>3, <3>4
    <2>7. CASE MainRestore(r)
      <3>1. main'[r] \notin Holding /\ misses' = misses
        BY <2>7 DEF MainRestore, MainGoes, Holding, TypeInv, TypeOK
      <3> QED
        BY <2>1, <2>3, <2>4, <3>1 DEF Accounted
    <2>8. CASE ~MainPrime(r) /\ ~MainProbe(r) /\ ~MainRestore(r)
      <3>1. misses' = misses /\ remembered' = remembered
        BY <1>4, <2>8
        DEF Main, MainSetup, MainSwitch, MainAsk, MainAwait, MainRelease, MainWaitForSub,
            MainWaitForSubTimesOut, MainEnd, cacheVars
      <3>2. main'[r] \in Holding => main[r] \in Holding
        BY <1>4, <2>8
        DEF Main, MainSetup, MainSwitch, MainAsk, MainAwait, MainRelease, MainWaitForSub,
            MainWaitForSubTimesOut, MainEnd, MainGoes, Holding, TypeInv, TypeOK
      <3> QED
        BY <2>1, <2>3, <2>4, <3>1, <3>2 DEF Accounted
    <2> QED
      BY <2>5, <2>6, <2>7, <2>8
  <1>5. ASSUME NEW r \in Run, SubThread(r)
        PROVE  Accounted(q)'
    <2>1. ~gaveUp /\ ~affected /\ UNCHANGED <<main, misses, disturbances>>
      BY <1>1, <1>5, ThreadFrame DEF driverVars
    <2>2. \/ remembered' = remembered
          \/ remembered' = [m \in Run |-> remembered[m] /\ ~(affected /\ seen'[m] = 1 .. Pcids)]
      BY <1>5 DEF SubThread, SubStart, SubAwait, SubSwitchPcid, SubAnswer, SubRelease, SubEnd, cacheVars
    <2>3. remembered'[q] <=> remembered[q]
      BY <2>1, <2>2
    <2>4. Accounted(q)
      BY <2>1 DEF MissInv
    <2> QED
      BY <2>1, <2>3, <2>4 DEF Accounted
  <1>6. ASSUME NEW r \in Run, Disturb(r)
        PROVE  Accounted(q)'
    <2>1. /\ remembered[r] /\ remembered' = [remembered EXCEPT ![r] = FALSE]
          /\ disturbances' = [disturbances EXCEPT ![r] = disturbances[r] + 1]
          /\ ~gaveUp /\ ~affected /\ UNCHANGED <<main, misses>>
      BY <1>1, <1>6 DEF Disturb, mainVars
    <2>2. Accounted(q)
      BY <2>1 DEF MissInv
    <2>3. CASE q = r
      <3>1. disturbances'[q] = disturbances[q] + 1
        BY <2>1, <2>3 DEF TypeInv, TypeOK
      <3> QED
        BY <1>2, <2>1, <2>2, <3>1 DEF Accounted
    <2>4. CASE q # r
      <3>1. disturbances'[q] = disturbances[q] /\ remembered'[q] = remembered[q]
        BY <2>1, <2>4 DEF TypeInv, TypeOK
      <3> QED
        BY <2>1, <2>2, <3>1 DEF Accounted
    <2> QED
      BY <2>3, <2>4
  <1> QED
    BY <1>3, <1>4, <1>5, <1>6

--------------------------------------------------------------------------------
(* The first run                                                           *)

\* Before the first run the completions are as the module was loaded.
LoadedInv ==
  /\ \A r \in Run : sub[r] = "absent" =>
       main[r] \in {"absent", "created"} /\ begun[r] = 0 /\ rounds[r] = 0
  /\ (\A r \in Run : sub[r] = "absent") =>
       setup = 0 /\ desynchronization = 0 /\ pcid_switching = 0

\* The sub thread has answered every question, and everyone may pass pcid_switching.
Answered(r) ==
  rounds[r] = Iterations /\ sub[r] \in {"sub_done", "ended"} /\ pcid_switching = All

\* A question is asked, being answered, or answered.
Awaits(r) ==
  \/ /\ rounds[r] + 1 = begun[r] /\ pcid_switching = 0
     /\ \/ sub[r] = "await" /\ desynchronization = 1 /\ seen[r] = {}
        \/ sub[r] = "switch" /\ desynchronization = 0 /\ seen[r] = 1 .. pcid[r]
  \/ /\ rounds[r] = begun[r] /\ desynchronization = 0 /\ seen[r] = 1 .. Pcids
     /\ (sub[r] = "await" /\ pcid_switching = 1) \/ Answered(r)

InStep(r) ==
  /\ main[r] = "setup" =>
       /\ sub[r] \in {"start", "await"} /\ (sub[r] = "start" => setup = 0)
       /\ desynchronization = 0 /\ pcid_switching = 0 /\ rounds[r] = 0 /\ begun[r] = 0
  /\ main[r] \in {"iterate", "probe", "restore"} =>
       /\ rounds[r] = begun[r] /\ desynchronization = 0
       /\ (sub[r] = "await" /\ pcid_switching = 0) \/ Answered(r)
  /\ main[r] \in {"switch", "ask"} =>
       /\ rounds[r] + 1 = begun[r] /\ desynchronization = 0 /\ pcid_switching = 0
       /\ sub[r] = "await" /\ seen[r] = {}
  /\ main[r] = "await" => Awaits(r)
  /\ main[r] \in {"probe", "restore"} => seen[r] = 1 .. Pcids

FirstInv == ~gaveUp => \A r \in Run : First(r) => InStep(r)

LEMMA LoadedStep ==
  ASSUME TypeInv, WaitInv, LoadedInv, Driver \/ \E r \in Run : Main(r) \/ SubThread(r)
  PROVE  LoadedInv'
  <1>1. driver # "done" => run \in Run
    BY DEF TypeInv, CountInv
  <1>2. CASE WakeUp
    BY <1>1, <1>2 DEF WakeUp, LoadedInv, TypeInv, TypeOK
  <1>3. CASE Driver /\ ~WakeUp
    <2>1. /\ UNCHANGED <<setup, desynchronization, pcid_switching, sub, begun, rounds>>
          /\ main' = main \/ main' = [main EXCEPT ![run] = "created"]
      BY <1>3
      DEF Driver, CreateMain, CreateMainFails, CreateSub, CreateSubFails, WaitForMain,
          WaitForMainTimesOut, ReadAndFree, completions, mainVars, subVars
    <2> QED
      BY <2>1 DEF LoadedInv, TypeInv, TypeOK
  <1>4. ASSUME NEW r \in Run, Main(r)
        PROVE  LoadedInv'
    <2>1. main[r] \notin Idle /\ UNCHANGED <<sub, rounds>> /\ \A q \in Run : q # r => main'[q] = main[q]
      BY <1>4, ThreadFrame, ThreadMoves
    <2>2. sub[r] # "absent"
      BY <2>1 DEF LoadedInv, Idle
    <2>3. \A q \in Run : q # r => begun'[q] = begun[q]
      BY <1>4
      DEF Main, MainSetup, MainPrime, MainSwitch, MainAsk, MainAwait, MainProbe, MainRestore,
          MainRelease, MainWaitForSub, MainWaitForSubTimesOut, MainEnd, TypeInv, TypeOK
    <2> QED
      BY <2>1, <2>2, <2>3 DEF LoadedInv
  <1>5. ASSUME NEW r \in Run, SubThread(r)
        PROVE  LoadedInv'
    <2>1. /\ sub[r] # "absent" /\ sub'[r] # "absent" /\ UNCHANGED <<main, begun>>
          /\ \A q \in Run : q # r => sub'[q] = sub[q]
      BY <1>5, ThreadFrame, ThreadMoves
    <2>2. \A q \in Run : q # r => rounds'[q] = rounds[q]
      BY <1>5
      DEF SubThread, SubStart, SubAwait, SubSwitchPcid, SubAnswer, SubRelease, SubEnd, TypeInv, TypeOK
    <2> QED
      BY <2>1, <2>2 DEF LoadedInv
  <1> QED
    BY <1>2, <1>3, <1>4, <1>5

\* The steps of the first run's main thread, ...
LEMMA FirstMain ==
  ASSUME TypeInv, NEW r \in Run, InStep(r), Main(r)
  PROVE  InStep(r)'
  <1>1. Iterations \in Nat \ {0} /\ All \notin Int /\ 0 # All /\ 1 # All /\ All # 0
    BY CrossHyperthreadAssumption
  <1>2. begun[r] \in Nat /\ rounds[r] \in Nat /\ begun[r] <= Iterations
    BY <1>1 DEF TypeInv, TypeOK
  <1>3. sub'[r] = sub[r] /\ rounds'[r] = rounds[r] /\ pcid'[r] = pcid[r]
    BY ThreadFrame
  <1>4. CASE MainSetup(r)
    <2>1. /\ main[r] = "setup" /\ main'[r] = "iterate" /\ begun'[r] = begun[r]
          /\ seen'[r] = seen[r] /\ desynchronization' = desynchronization
          /\ pcid_switching' = pcid_switching /\ setup # 0
      BY <1>4 DEF MainSetup, MainGoes, MayPass, TypeInv, TypeOK, completions, subVars, cacheVars
    <2> QED
      BY <1>1, <1>2, <1>3, <2>1 DEF InStep, Awaits, Answered, Completed, Taken
  <1>5. CASE MainPrime(r)
    <2>1. /\ main[r] = "iterate" /\ main'[r] = "switch" /\ begun'[r] = begun[r] + 1
          /\ seen'[r] = {} /\ desynchronization' = desynchronization
          /\ pcid_switching' = pcid_switching /\ begun[r] < Iterations
      BY <1>5 DEF MainPrime, MainGoes, MayPass, TypeInv, TypeOK, completions, subVars, cacheVars
    <2> QED
      BY <1>1, <1>2, <1>3, <2>1 DEF InStep, Awaits, Answered, Completed, Taken
  <1>6. CASE MainSwitch(r)
    <2>1. /\ main[r] = "switch" /\ main'[r] = "ask" /\ begun'[r] = begun[r]
          /\ seen'[r] = seen[r] /\ desynchronization' = desynchronization
          /\ pcid_switching' = pcid_switching
      BY <1>6 DEF MainSwitch, MainGoes, MayPass, TypeInv, TypeOK, completions, subVars, cacheVars
    <2> QED
      BY <1>1, <1>2, <1>3, <2>1 DEF InStep, Awaits, Answered, Completed, Taken
  <1>7. CASE MainAsk(r)
    <2>1. /\ main[r] = "ask" /\ main'[r] = "await" /\ begun'[r] = begun[r] /\ seen'[r] = seen[r]
          /\ desynchronization' = Completed(desynchronization)
          /\ pcid_switching' = pcid_switching
      BY <1>7 DEF MainAsk, MainGoes, MayPass, TypeInv, TypeOK, completions, subVars, cacheVars
    <2> QED
      BY <1>1, <1>2, <1>3, <2>1 DEF InStep, Awaits, Answered, Completed, Taken
  <1>8. CASE MainAwait(r)
    <2>1. /\ main[r] = "await" /\ main'[r] = "probe" /\ begun'[r] = begun[r]
          /\ seen'[r] = seen[r] /\ desynchronization' = desynchronization /\ pcid_switching # 0
          /\ pcid_switching' = Taken(pcid_switching)
      BY <1>8 DEF MainAwait, MainGoes, MayPass, TypeInv, TypeOK, completions, subVars, cacheVars
    <2> QED
      BY <1>1, <1>2, <1>3, <2>1 DEF InStep, Awaits, Answered, Completed, Taken
  <1>9. CASE MainProbe(r)
    <2>1. /\ main[r] = "probe" /\ main'[r] = "restore" /\ begun'[r] = begun[r]
          /\ seen'[r] = seen[r] /\ desynchronization' = desynchronization
          /\ pcid_switching' = pcid_switching
      BY <1>9 DEF MainProbe, MainGoes, MayPass, TypeInv, TypeOK, completions, subVars, cacheVars
    <2> QED
      BY <1>1, <1>2, <1>3, <2>1 DEF InStep, Awaits, Answered, Completed, Taken
  <1>10. CASE MainRestore(r)
    <2>1. /\ main[r] = "restore" /\ main'[r] = "iterate" /\ begun'[r] = begun[r]
          /\ desynchronization' = desynchronization /\ pcid_switching' = pcid_switching
      BY <1>10 DEF MainRestore, MainGoes, MayPass, TypeInv, TypeOK, completions, subVars, cacheVars
    <2> QED
      BY <1>1, <1>2, <1>3, <2>1 DEF InStep, Awaits, Answered, Completed, Taken
  <1>11. CASE \/ MainRelease(r) \/ MainWaitForSub(r) \/ MainWaitForSubTimesOut(r) \/ MainEnd(r)
    <2>1. main'[r] \in {"sub_done", "main_done", "ended"}
      BY <1>11
      DEF MainRelease, MainWaitForSub, MainWaitForSubTimesOut, MainEnd, MainGoes, TypeInv, TypeOK
    <2> QED
      BY <2>1 DEF InStep
  <1> QED
    BY <1>4, <1>5, <1>6, <1>7, <1>8, <1>9, <1>10, <1>11 DEF Main

\* ... and of its sub thread.
LEMMA FirstSub ==
  ASSUME TypeInv, NEW r \in Run, InStep(r), SubThread(r)
  PROVE  InStep(r)'
  <1>1. /\ Iterations \in Nat \ {0} /\ Pcids \in Nat \ {0}
        /\ All \notin Int /\ 0 # All /\ 1 # All /\ All # 0
    BY CrossHyperthreadAssumption
  <1>2. /\ begun[r] \in Nat /\ rounds[r] \in Nat /\ begun[r] <= Iterations /\ pcid[r] \in 0 .. Pcids
        /\ main[r] \in MainStep
    BY <1>1 DEF TypeInv, TypeOK
  <1>3. main'[r] = main[r] /\ begun'[r] = begun[r]
    BY ThreadFrame
  <1>4. CASE SubStart(r)
    <2>1. /\ sub[r] = "start" /\ sub'[r] = "await" /\ rounds'[r] = rounds[r]
          /\ seen'[r] = seen[r] /\ desynchronization' = desynchronization
          /\ pcid_switching' = pcid_switching
      BY <1>4 DEF SubStart, SubGoes, MayPass, TypeInv, TypeOK, cacheVars
    <2> QED
      BY <1>1, <1>2, <1>3, <2>1 DEF InStep, Awaits, Answered, Completed, Taken
  <1>5. CASE SubAwait(r)
    <2>1. /\ sub[r] = "await" /\ sub'[r] = "switch" /\ rounds'[r] = rounds[r]
          /\ rounds[r] < Iterations /\ seen'[r] = seen[r] /\ desynchronization # 0
          /\ desynchronization' = Taken(desynchronization) /\ pcid_switching' = pcid_switching
          /\ pcid'[r] = 0
      BY <1>5 DEF SubAwait, SubGoes, MayPass, TypeInv, TypeOK, cacheVars
    <2> QED
      BY <1>1, <1>2, <1>3, <2>1 DEF InStep, Awaits, Answered, Completed, Taken
  <1>6. CASE SubAnswer(r)
    <2>1. /\ sub[r] = "switch" /\ sub'[r] = "await" /\ rounds'[r] = rounds[r] + 1
          /\ seen'[r] = seen[r] /\ desynchronization' = desynchronization
          /\ pcid_switching' = Completed(pcid_switching) /\ pcid[r] = Pcids
      BY <1>6 DEF SubAnswer, SubGoes, MayPass, TypeInv, TypeOK, cacheVars
    <2> QED
      BY <1>1, <1>2, <1>3, <2>1 DEF InStep, Awaits, Answered, Completed, Taken
  <1>7. CASE SubRelease(r)
    <2>1. /\ sub[r] = "await" /\ sub'[r] = "sub_done" /\ rounds'[r] = rounds[r]
          /\ rounds[r] = Iterations /\ seen'[r] = seen[r]
          /\ desynchronization' = desynchronization /\ pcid_switching' = All
      BY <1>7 DEF SubRelease, SubGoes, MayPass, TypeInv, TypeOK, cacheVars
    <2> QED
      BY <1>1, <1>2, <1>3, <2>1 DEF InStep, Awaits, Answered, Completed, Taken
  <1>8. CASE SubEnd(r)
    <2>1. /\ sub[r] = "sub_done" /\ sub'[r] = "ended" /\ rounds'[r] = rounds[r]
          /\ seen'[r] = seen[r] /\ desynchronization' = desynchronization
          /\ pcid_switching' = pcid_switching
      BY <1>8 DEF SubEnd, SubGoes, MayPass, TypeInv, TypeOK, cacheVars
    <2> QED
      BY <1>1, <1>2, <1>3, <2>1 DEF InStep, Awaits, Answered, Completed, Taken
  <1>9. CASE SubSwitchPcid(r)
    <2>1. /\ sub[r] = "switch" /\ sub'[r] = "switch" /\ rounds'[r] = rounds[r]
          /\ desynchronization' = desynchronization /\ pcid_switching' = pcid_switching
          /\ pcid[r] < Pcids /\ pcid'[r] = pcid[r] + 1
          /\ main[r] \in Holding => seen'[r] = seen[r] \cup {pcid[r] + 1}
      BY <1>9 DEF SubSwitchPcid, TypeInv, TypeOK, completions
    <2>2. main[r] \in {"setup", "iterate", "probe", "restore", "switch", "ask"} => FALSE
      BY <2>1 DEF InStep, Answered
    <2>3. CASE main[r] = "await"
      <3>1. /\ rounds[r] + 1 = begun[r] /\ pcid_switching = 0 /\ desynchronization = 0
            /\ seen[r] = 1 .. pcid[r]
        BY <2>1, <2>3 DEF InStep, Awaits, Answered
      <3>2. seen'[r] = 1 .. pcid'[r]
        <4>1. seen'[r] = (1 .. pcid[r]) \cup {pcid[r] + 1} /\ pcid[r] \in Nat
          BY <1>1, <1>2, <2>1, <2>3, <3>1 DEF Holding
        <4>2. \A k \in Nat : (1 .. k) \cup {k + 1} = 1 .. k + 1
          OBVIOUS
        <4> QED
          BY <2>1, <4>1, <4>2
      <3> QED
        BY <1>3, <2>1, <2>3, <3>1, <3>2 DEF InStep, Awaits
    <2>4. CASE main[r] \in {"absent", "created", "sub_done", "main_done", "ended"}
      BY <1>3, <2>4 DEF InStep
    <2> QED
      BY <1>2, <2>2, <2>3, <2>4 DEF MainStep
  <1> QED
    BY <1>4, <1>5, <1>6, <1>7, <1>8, <1>9 DEF SubThread

LEMMA FirstStep ==
  ASSUME TypeInv, WaitInv, LoadedInv, FirstInv, Driver \/ \E r \in Run : Main(r) \/ SubThread(r)
  PROVE  FirstInv'
  <1>1. SUFFICES ASSUME ~gaveUp', NEW r \in Run, First(r)' PROVE InStep(r)'
    BY DEF FirstInv
  <1>2. Run \subseteq Nat /\ run \in Nat /\ (driver # "done" => run \in Run)
    BY CrossHyperthreadAssumption DEF TypeInv, TypeOK, CountInv, Run
  <1>3. First(r) => r <= run
    BY <1>2 DEF First, WaitInv
  <1>4. CASE WakeUp
    <2>1. /\ driver = "init" /\ main' = [main EXCEPT ![run] = "setup"]
          /\ sub' = [sub EXCEPT ![run] = "start"] /\ ~gaveUp
          /\ UNCHANGED <<setup, desynchronization, pcid_switching, begun, rounds>>
      BY <1>1, <1>4 DEF WakeUp
    <2>2. CASE r = run
      <3>1. \A q \in Run : sub[q] = "absent"
        BY <1>1, <1>2, <2>1, <2>2 DEF First, WaitInv, TypeInv, TypeOK
      <3>2. /\ setup = 0 /\ desynchronization = 0 /\ pcid_switching = 0
            /\ begun[r] = 0 /\ rounds[r] = 0
        BY <3>1 DEF LoadedInv
      <3>3. main'[r] = "setup" /\ sub'[r] = "start"
        BY <2>1, <2>2 DEF TypeInv, TypeOK
      <3> QED
        BY <2>1, <3>2, <3>3 DEF InStep
    <2>3. CASE r # run
      <3>1. main'[r] = main[r] /\ sub[r] # "absent"
        BY <1>1, <2>1, <2>3 DEF First, TypeInv, TypeOK
      <3>2. main'[r] \in Idle
        BY <1>2, <2>1, <2>3, <3>1 DEF WaitInv
      <3> QED
        BY <3>2 DEF InStep, Idle
    <2> QED
      BY <2>2, <2>3
  <1>5. CASE Driver /\ ~WakeUp
    <2>1. /\ UNCHANGED <<setup, desynchronization, pcid_switching, sub, begun, rounds, pcid, seen>>
          /\ main' = main \/ main' = [main EXCEPT ![run] = "created"]
          /\ ~gaveUp
      BY <1>1, <1>5
      DEF Driver, CreateMain, CreateMainFails, CreateSub, CreateSubFails, WaitForMain,
          WaitForMainTimesOut, ReadAndFree, completions, mainVars, subVars, cacheVars
    <2>2. main'[r] = main[r] \/ main'[r] = "created"
      BY <2>1 DEF TypeInv, TypeOK
    <2>3. InStep(r)
      BY <1>1, <2>1 DEF First, FirstInv
    <2> QED
      BY <2>1, <2>2, <2>3 DEF InStep, Awaits, Answered
  <1>6. ASSUME NEW q \in Run, Main(q) PROVE InStep(r)'
    <2>1. ~gaveUp /\ sub' = sub /\ main[q] \notin Idle /\ \A t \in Run : t # q => main'[t] = main[t]
      BY <1>1, <1>6, ThreadFrame, ThreadMoves DEF driverVars
    <2>2. q = run /\ First(r)
      BY <1>1, <2>1, OneMain DEF First
    <2>3. CASE r = q
      BY <1>6, <2>1, <2>2, <2>3, FirstMain DEF FirstInv
    <2>4. CASE r # q
      BY <1>2, <1>3, <2>1, <2>2, <2>4 DEF WaitInv, InStep, Idle
    <2> QED
      BY <2>3, <2>4
  <1>7. ASSUME NEW q \in Run, SubThread(q) PROVE InStep(r)'
    <2>1. /\ ~gaveUp /\ main' = main /\ sub[q] # "absent" /\ sub'[q] # "absent"
          /\ \A t \in Run : t # q => sub'[t] = sub[t]
      BY <1>1, <1>7, ThreadFrame, ThreadMoves DEF driverVars
    <2>2. CASE main[r] \in Idle
      BY <2>1, <2>2 DEF InStep, Idle
    <2>3. CASE main[r] \notin Idle
      <3>1. r = run
        BY <2>1, <2>3, OneMain
      <3>2. q <= r /\ ~(q < r)
        BY <1>1, <1>2, <2>1, <3>1 DEF First, WaitInv
      <3>3. q = r
        BY <1>2, <3>2
      <3>4. First(r)
        BY <1>1, <1>2, <2>1, <3>3 DEF First
      <3> QED
        BY <1>7, <2>1, <3>3, <3>4, FirstSub DEF FirstInv
    <2> QED
      BY <2>2, <2>3
  <1> QED
    BY <1>4, <1>5, <1>6, <1>7

--------------------------------------------------------------------------------
(* The theorems                                                            *)

ThreadsInv == TypeInv /\ WaitInv /\ MissInv /\ LoadedInv /\ FirstInv

LEMMA ThreadsInvariant == Spec => []ThreadsInv
  <1>1. Init /\ TypeInv => ThreadsInv
    <2> SUFFICES ASSUME Init, TypeInv PROVE ThreadsInv
      OBVIOUS
    <2>1. /\ driver = "main" /\ run \in Run /\ run = 1 /\ Run \subseteq Nat \ {0}
          /\ setup = 0 /\ desynchronization = 0 /\ pcid_switching = 0
          /\ \A r \in Run : /\ main[r] = "absent" /\ sub[r] = "absent" /\ misses[r] = 0
                            /\ begun[r] = 0 /\ rounds[r] = 0 /\ disturbances[r] = 0
      BY CrossHyperthreadAssumption DEF Init, Run
    <2>2. WaitInv
      BY <2>1 DEF WaitInv, Idle
    <2>3. MissInv /\ LoadedInv /\ FirstInv
      BY <2>1 DEF MissInv, Accounted, LoadedInv, FirstInv, First, Holding
    <2> QED
      BY <2>2, <2>3 DEF ThreadsInv
  <1>2. ThreadsInv /\ TypeInv' /\ [Next]_vars => ThreadsInv'
    <2> SUFFICES ASSUME ThreadsInv, TypeInv', [Next]_vars PROVE ThreadsInv'
      OBVIOUS
    <2>1. CASE Driver \/ \E r \in Run : Main(r) \/ SubThread(r)
      BY <2>1, WaitStep, MissStep, LoadedStep, FirstStep DEF ThreadsInv
    <2>2. CASE \E r \in Run : Disturb(r)
      <3>1. UNCHANGED <<completions, driverVars, mainVars, subVars, affected, seen>>
        BY <2>2 DEF Disturb
      <3>2. WaitInv' /\ LoadedInv' /\ FirstInv'
        BY <3>1
        DEF completions, driverVars, mainVars, subVars, ThreadsInv, WaitInv, LoadedInv, FirstInv, First,
            InStep, Awaits, Answered
      <3> QED
        BY <2>2, <3>2, MissStep DEF ThreadsInv
    <2>3. CASE UNCHANGED vars
      BY <2>3
      DEF vars, completions, driverVars, mainVars, subVars, cacheVars, ThreadsInv, WaitInv, MissInv,
          Accounted, LoadedInv, FirstInv, First, InStep, Awaits, Answered
    <2> QED
      BY <2>1, <2>2, <2>3 DEF Next, Terminating
  <1> QED
    BY <1>1, <1>2, TypeInvariant, PTL DEF Spec

\* Every variable keeps its type: there are never more misses than iterations, and
\* complete() and wait_for_completion keep the counts natural numbers.
THEOREM TypesOfThreads == Spec => []TypeOK
  <1>1. ThreadsInv => TypeOK
    BY DEF ThreadsInv, TypeInv
  <1> QED
    BY <1>1, ThreadsInvariant, PTL

\* In the first run after loading the module the two completions keep main and sub in
\* step: whatever was asked has been answered before the probe, and by nothing older.
THEOREM FirstRunTheorem == Spec => []FirstRunInStep
  <1>1. ThreadsInv => FirstRunInStep
    BY DEF ThreadsInv, FirstInv, InStep, Answered, FirstRunInStep
  <1> QED
    BY <1>1, ThreadsInvariant, PTL

\* In every run, however far the threads are out of step: where the sibling's PCID
\* switches evict nothing, a run counts no more misses than entries were evicted or
\* flushed by whatever else ran on the main thread's CPU.
THEOREM NoFalseMissTheorem == Spec => []NoFalseMiss
  <1>1. ThreadsInv => NoFalseMiss
    <2> SUFFICES ASSUME ThreadsInv, ~gaveUp, NEW r \in Run, misses[r] > disturbances[r] PROVE affected
      BY DEF NoFalseMiss
    <2>1. misses[r] \in Nat /\ disturbances[r] \in Nat /\ ~(misses[r] <= disturbances[r])
      BY CrossHyperthreadAssumption DEF ThreadsInv, TypeInv, TypeOK
    <2>2. affected \in BOOLEAN
      BY DEF ThreadsInv, TypeInv, TypeOK
    <2> QED
      BY <2>1, <2>2 DEF ThreadsInv, MissInv, Accounted
  <1> QED
    BY <1>1, ThreadsInvariant, PTL

\* kfree(data) comes after the last use of data by the run's main thread, if the driver
\* did not stop waiting for it.
THEOREM DataLiveTheorem == Spec => []DataLive
  <1>1. ThreadsInv => DataLive
    BY OneMain DEF ThreadsInv, DataLive, Idle
  <1> QED
    BY <1>1, ThreadsInvariant, PTL

================================================================================
