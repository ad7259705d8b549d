---------------------------- MODULE CrossHyperthread ----------------------------
(***************************************************************************)
(* The cross-hyperthread experiment: a driver (device_read) runs it once   *)
(* quietly and then once per level.  A run creates two kernel threads on   *)
(* sibling hyperthreads.  "main" caches an entry, switches it, asks "sub"  *)
(* through desynchronization to go through all PCIDs, waits for            *)
(* pcid_switching, and probes; the entry should be gone exactly when PCID  *)
(* switches of a sibling affect the cache.  Neither thread claims its CPU  *)
(* (the calls are commented out): whatever else runs on main's CPU while   *)
(* main sleeps or is interrupted may evict or flush the entry as well.     *)
(*                                                                         *)
(* The completions setup, desynchronization and pcid_switching are static: *)
(* they are initialised when the module is loaded and never again.         *)
(* main_done and sub_done are reinitialised by every run.                  *)
(***************************************************************************)
EXTENDS Naturals, Integers, FiniteSets

CONSTANTS
  Runs,         \* runs of the experiment: the quiet one first, then one per level
  Iterations,   \* ITERATIONS
  Pcids,        \* PCIDs the sub thread goes through in a round (4095)
  All,          \* a completion after complete_all (done = UINT_MAX)
  Nothing,      \* no result yet
  SubLate,      \* bound: may the 1000 ms for sub_done elapse?
  MainLate,     \* bound: may the 10000 ms for main_done elapse?
  MaxDisturb,   \* bound: entries others evict or flush during a run
  CreateFails   \* bound: may kthread_create fail?

ASSUME CrossHyperthreadAssumption ==
  /\ Runs \in Nat \ {0}
  /\ Iterations \in Nat \ {0}
  /\ Pcids \in Nat \ {0}
  /\ All \notin Int
  /\ Nothing \notin Int
  /\ MaxDisturb \in Nat
  /\ {SubLate, MainLate, CreateFails} \subseteq BOOLEAN

Run == 1 .. Runs

VARIABLES
  affected,            \* the machine: do PCID switches of the sibling evict?
  driver,              \* the driver's next step
  run,                 \* the run the driver is in
  main,                \* main[r]: next step of the main thread of run r
  sub,                 \* sub[r]: next step of the sub thread of run r
  begun,               \* begun[r]: iterations the main thread has begun
  rounds,              \* rounds[r]: rounds the sub thread has finished
  pcid,                \* pcid[r]: the PCID the sub thread has last switched to
  remembered,          \* remembered[r]: the cache still holds main's old entry
  setup, desynchronization, pcid_switching, main_done, sub_done,  \* completions
  data,                \* data[r]: is the thread_data of run r "live" or "freed"?
  misses,              \* data->misses of run r
  result,              \* result[r]: what test_hyperthreaded_pcid_support returned
  seen,                \* history: PCIDs switched to since main r cached its entry
  disturbances,        \* history: entries of main r that others evicted or flushed
  gaveUp               \* history: did the driver stop waiting for a main thread?

completions == <<setup, desynchronization, pcid_switching, main_done, sub_done>>
driverVars == <<driver, run, data, result, gaveUp>>
mainVars == <<main, begun, misses>>
subVars == <<sub, rounds, pcid>>
cacheVars == <<affected, remembered, seen, disturbances>>
vars == <<completions, driverVars, mainVars, subVars, cacheVars>>

Completion == Nat \cup {All}
MainStep == {"absent", "created", "setup", "iterate", "switch", "ask", "await", "probe", "restore",
             "sub_done", "main_done", "ended"}
SubStep == {"absent", "start", "await", "switch", "last", "sub_done", "ended"}

TypeOK ==
  /\ affected \in BOOLEAN
  /\ driver \in {"main", "sub", "init", "wait", "read", "done"}
  /\ run \in 1 .. Runs + 1
  /\ main \in [Run -> MainStep]
  /\ sub \in [Run -> SubStep]
  /\ begun \in [Run -> 0 .. Iterations]
  /\ rounds \in [Run -> 0 .. Iterations]
  /\ pcid \in [Run -> 0 .. Pcids]
  /\ remembered \in [Run -> BOOLEAN]
  /\ \A c \in {setup, desynchronization, pcid_switching, main_done, sub_done} : c \in Completion
  /\ data \in [Run -> {"none", "live", "freed"}]
  /\ misses \in [Run -> 0 .. Iterations]
  /\ result \in [Run -> -1 .. Iterations \cup {Nothing}]
  /\ seen \in [Run -> SUBSET (1 .. Pcids)]
  /\ disturbances \in [Run -> 0 .. MaxDisturb]
  /\ gaveUp \in BOOLEAN

Init ==
  /\ affected \in BOOLEAN
  /\ driver = "main" /\ run = 1
  /\ main = [r \in Run |-> "absent"] /\ sub = [r \in Run |-> "absent"]
  /\ begun = [r \in Run |-> 0] /\ rounds = [r \in Run |-> 0] /\ pcid = [r \in Run |-> 0]
  /\ remembered = [r \in Run |-> FALSE]
  /\ setup = 0 /\ desynchronization = 0 /\ pcid_switching = 0 /\ main_done = 0 /\ sub_done = 0
  /\ data = [r \in Run |-> "none"]
  /\ misses = [r \in Run |-> 0]
  /\ result = [r \in Run |-> Nothing]
  /\ seen = [r \in Run |-> {}]
  /\ disturbances = [r \in Run |-> 0]
  /\ gaveUp = FALSE

--------------------------------------------------------------------------------
(* struct completion of the kernel *)

\* complete(): one more waiter may pass, unless everyone may already.
Completed(c) == IF c = All THEN All ELSE c + 1

\* wait_for_completion(): passes when something is left, and takes it unless
\* complete_all() has been called.
MayPass(c) == c # 0
Taken(c) == IF c = All THEN All ELSE c - 1

--------------------------------------------------------------------------------
(* The driver: device_read and test_hyperthreaded_pcid_support *)

Return(value) ==
  /\ result' = [result EXCEPT ![run] = value]
  /\ run' = run + 1
  /\ driver' = IF run = Runs THEN "done" ELSE "main"

CreateMain ==
  /\ driver = "main"
  /\ data' = [data EXCEPT ![run] = "live"]
  /\ misses' = [misses EXCEPT ![run] = 0]
  /\ main' = [main EXCEPT ![run] = "created"]
  /\ driver' = "sub"
  /\ UNCHANGED <<completions, gaveUp, run, result, begun, subVars, cacheVars>>

\* kthread_create fails: -1 is returned, data and the first thread are leaked.
CreateMainFails ==
  /\ driver = "main" /\ CreateFails
  /\ data' = [data EXCEPT ![run] = "live"]
  /\ Return(-1)
  /\ UNCHANGED <<completions, gaveUp, mainVars, subVars, cacheVars>>

CreateSub ==
  /\ driver = "sub"
  /\ driver' = "init"
  /\ UNCHANGED <<completions, gaveUp, run, data, result, mainVars, subVars, cacheVars>>

CreateSubFails ==
  /\ driver = "sub" /\ CreateFails
  /\ Return(-1)
  /\ UNCHANGED <<completions, gaveUp, data, mainVars, subVars, cacheVars>>

\* init_completion(&main_done), init_completion(&sub_done), wake up both threads
WakeUp ==
  /\ driver = "init"
  /\ main_done' = 0 /\ sub_done' = 0
  /\ main' = [main EXCEPT ![run] = "setup"]
  /\ sub' = [sub EXCEPT ![run] = "start"]
  /\ driver' = "wait"
  /\ UNCHANGED <<setup, desynchronization, pcid_switching, run, data, result, gaveUp,
                 begun, misses, rounds, pcid, cacheVars>>

\* Faulty variant: main_done is not waited for.
WaitForMainForgotten ==
  /\ driver = "wait"
  /\ driver' = "read"
  /\ UNCHANGED <<completions, run, data, result, gaveUp, mainVars, subVars, cacheVars>>

WaitForMain ==
  /\ driver = "wait"
  /\ MayPass(main_done)
  /\ main_done' = Taken(main_done)
  /\ driver' = "read"
  /\ UNCHANGED <<setup, desynchronization, pcid_switching, sub_done, run, data, result, gaveUp,
                 mainVars, subVars, cacheVars>>

\* ... for 10000 ms.  From here on nothing is said of misses any more: the
\* history of disturbances is dropped, and Disturb adds nothing to it.
WaitForMainTimesOut ==
  /\ driver = "wait" /\ MainLate
  /\ ~MayPass(main_done)
  /\ driver' = "read"
  /\ gaveUp' = TRUE
  /\ disturbances' = [r \in Run |-> 0]
  /\ UNCHANGED <<completions, run, data, result, mainVars, subVars, affected, remembered, seen>>

\* misses = data->misses; kfree(data); return misses
ReadAndFree ==
  /\ driver = "read"
  /\ data' = [data EXCEPT ![run] = "freed"]
  /\ Return(misses[run])
  /\ UNCHANGED <<completions, gaveUp, mainVars, subVars, cacheVars>>

Driver ==
  \/ CreateMain \/ CreateMainFails \/ CreateSub \/ CreateSubFails
  \/ WakeUp \/ WaitForMain \/ WaitForMainTimesOut \/ ReadAndFree

--------------------------------------------------------------------------------
(* hyperthread_pcid_main *)

MainGoes(r, from, to) == main[r] = from /\ main' = [main EXCEPT ![r] = to]

MainSetup(r) ==
  /\ MainGoes(r, "setup", "iterate")
  /\ MayPass(setup)
  /\ setup' = Taken(setup)
  /\ UNCHANGED <<desynchronization, pcid_switching, main_done, sub_done,
                 driverVars, begun, misses, subVars, cacheVars>>

\* Faulty variants: one iteration too many; the flush comes after the read.
MainPrimeOnceMore(r) ==
  /\ MainGoes(r, "iterate", "switch")
  /\ begun[r] <= Iterations
  /\ begun' = [begun EXCEPT ![r] = @ + 1]
  /\ remembered' = [m \in Run |-> m = r]
  /\ seen' = [seen EXCEPT ![r] = {}]
  /\ UNCHANGED <<completions, driverVars, misses, subVars, affected, disturbances>>

MainPrimeThenFlush(r) ==
  /\ MainGoes(r, "iterate", "switch")
  /\ begun[r] < Iterations
  /\ begun' = [begun EXCEPT ![r] = @ + 1]
  /\ remembered' = [m \in Run |-> FALSE]
  /\ seen' = [seen EXCEPT ![r] = {}]
  /\ UNCHANGED <<completions, driverVars, misses, subVars, affected, disturbances>>

\* Write the target, flush, read the target: its entry is cached, and nothing
\* else is; a main thread of another run would be on the same CPU.
MainPrime(r) ==
  /\ MainGoes(r, "iterate", "switch")
  /\ begun[r] < Iterations
  /\ begun' = [begun EXCEPT ![r] = @ + 1]
  /\ remembered' = [m \in Run |-> m = r]
  /\ seen' = [seen EXCEPT ![r] = {}]
  /\ UNCHANGED <<completions, driverVars, misses, subVars, affected, disturbances>>

MainSwitch(r) ==
  /\ MainGoes(r, "switch", "ask")
  /\ UNCHANGED <<completions, driverVars, begun, misses, subVars, cacheVars>>

MainAsk(r) ==
  /\ MainGoes(r, "ask", "await")
  /\ desynchronization' = Completed(desynchronization)
  /\ UNCHANGED <<setup, pcid_switching, main_done, sub_done,
                 driverVars, begun, misses, subVars, cacheVars>>

\* Faulty variant: pcid_switching is not waited for.
MainAwaitForgotten(r) ==
  /\ MainGoes(r, "await", "probe")
  /\ UNCHANGED <<completions, driverVars, begun, misses, subVars, cacheVars>>

MainAwait(r) ==
  /\ MainGoes(r, "await", "probe")
  /\ MayPass(pcid_switching)
  /\ pcid_switching' = Taken(pcid_switching)
  /\ UNCHANGED <<setup, desynchronization, main_done, sub_done,
                 driverVars, begun, misses, subVars, cacheVars>>

\* if(read_data(p) == SIGNAL) data->misses++
MainProbe(r) ==
  /\ MainGoes(r, "probe", "restore")
  /\ misses' = [misses EXCEPT ![r] = IF remembered[r] THEN @ ELSE @ + 1]
  /\ UNCHANGED <<completions, driverVars, begun, subVars, cacheVars>>

\* switch back, set_cr3, flush_mmu_caches
MainRestore(r) ==
  /\ MainGoes(r, "restore", "iterate")
  /\ remembered' = [m \in Run |-> FALSE]
  /\ seen' = [seen EXCEPT ![r] = {}]
  /\ UNCHANGED <<completions, driverVars, begun, misses, subVars, affected, disturbances>>

\* complete_all(&desynchronization) lets a sub thread that is still waiting go on
MainRelease(r) ==
  /\ MainGoes(r, "iterate", "sub_done")
  /\ begun[r] = Iterations
  /\ desynchronization' = All
  /\ UNCHANGED <<setup, pcid_switching, main_done, sub_done,
                 driverVars, begun, misses, subVars, cacheVars>>

MainWaitForSub(r) ==
  /\ MainGoes(r, "sub_done", "main_done")
  /\ MayPass(sub_done)
  /\ sub_done' = Taken(sub_done)
  /\ UNCHANGED <<setup, desynchronization, pcid_switching, main_done,
                 driverVars, begun, misses, subVars, cacheVars>>

\* ... for 1000 ms
MainWaitForSubTimesOut(r) ==
  /\ MainGoes(r, "sub_done", "main_done")
  /\ SubLate /\ ~MayPass(sub_done)
  /\ UNCHANGED <<completions, driverVars, begun, misses, subVars, cacheVars>>

MainEnd(r) ==
  /\ MainGoes(r, "main_done", "ended")
  /\ main_done' = All
  /\ UNCHANGED <<setup, desynchronization, pcid_switching, sub_done,
                 driverVars, begun, misses, subVars, cacheVars>>

Main(r) ==
  \/ MainSetup(r) \/ MainPrime(r) \/ MainSwitch(r) \/ MainAsk(r) \/ MainAwait(r)
  \/ MainProbe(r) \/ MainRestore(r) \/ MainRelease(r)
  \/ MainWaitForSub(r) \/ MainWaitForSubTimesOut(r) \/ MainEnd(r)

--------------------------------------------------------------------------------
(* The other tasks, the idle task and the interrupts of main's CPU: claim_cpu is *)
(* commented out, and main sleeps in wait_for_completion_io                      *)

\* The main thread's steps between its prime and its probe.
Holding == {"switch", "ask", "await", "probe"}

\* Their translations evict the entry main has cached, or they flush it.
Disturb(r) ==
  /\ main[r] \in Holding /\ remembered[r] /\ ~gaveUp
  /\ disturbances[r] < MaxDisturb
  /\ remembered' = [remembered EXCEPT ![r] = FALSE]
  /\ disturbances' = [disturbances EXCEPT ![r] = @ + 1]
  /\ UNCHANGED <<completions, driverVars, mainVars, subVars, affected, seen>>

--------------------------------------------------------------------------------
(* hyperthread_pcid_sub *)

SubGoes(r, from, to) == sub[r] = from /\ sub' = [sub EXCEPT ![r] = to]

\* Faulty variant: setup is not completed.
SubStartSilently(r) ==
  /\ SubGoes(r, "start", "await")
  /\ UNCHANGED <<completions, driverVars, mainVars, rounds, pcid, cacheVars>>

SubStart(r) ==
  /\ SubGoes(r, "start", "await")
  /\ setup' = All
  /\ UNCHANGED <<desynchronization, pcid_switching, main_done, sub_done,
                 driverVars, mainVars, rounds, pcid, cacheVars>>

SubAwait(r) ==
  /\ SubGoes(r, "await", "switch")
  /\ rounds[r] < Iterations
  /\ MayPass(desynchronization)
  /\ desynchronization' = Taken(desynchronization)
  /\ pcid' = [pcid EXCEPT ![r] = 0]
  /\ UNCHANGED <<setup, pcid_switching, main_done, sub_done,
                 driverVars, mainVars, rounds, cacheVars>>

\* set_cr3(cr3 | pcid): on an affected machine the last of all PCIDs has
\* displaced whatever a sibling cached before the first of them.
SubSwitchPcid(r) ==
  /\ sub[r] = "switch"
  /\ pcid[r] < Pcids
  /\ pcid' = [pcid EXCEPT ![r] = @ + 1]
  /\ seen' = [m \in Run |-> IF main[m] \in Holding THEN seen[m] \cup {pcid'[r]} ELSE seen[m]]
  /\ remembered' = [m \in Run |-> remembered[m] /\ ~(affected /\ seen'[m] = 1 .. Pcids)]
  /\ UNCHANGED <<completions, driverVars, mainVars, sub, rounds, affected, disturbances>>

SubAnswer(r) ==
  /\ SubGoes(r, "switch", "await")
  /\ pcid[r] = Pcids
  /\ rounds' = [rounds EXCEPT ![r] = @ + 1]
  /\ pcid_switching' = Completed(pcid_switching)
  /\ UNCHANGED <<setup, desynchronization, main_done, sub_done,
                 driverVars, mainVars, pcid, cacheVars>>

SubRelease(r) ==
  /\ SubGoes(r, "await", "sub_done")
  /\ rounds[r] = Iterations
  /\ pcid_switching' = All
  /\ UNCHANGED <<setup, desynchronization, main_done, sub_done,
                 driverVars, mainVars, rounds, pcid, cacheVars>>

SubEnd(r) ==
  /\ SubGoes(r, "sub_done", "ended")
  /\ sub_done' = All
  /\ UNCHANGED <<setup, desynchronization, pcid_switching, main_done,
                 driverVars, mainVars, rounds, pcid, cacheVars>>

SubThread(r) ==
  SubStart(r) \/ SubAwait(r) \/ SubSwitchPcid(r) \/ SubAnswer(r) \/ SubRelease(r) \/ SubEnd(r)

--------------------------------------------------------------------------------

Ended ==
  /\ driver = "done"
  /\ \A r \in Run : main[r] \in {"absent", "created", "ended"} /\ sub[r] \in {"absent", "ended"}

Terminating == Ended /\ UNCHANGED vars

Next == Driver \/ (\E r \in Run : Main(r) \/ SubThread(r) \/ Disturb(r)) \/ Terminating

\* The driver and every thread are scheduled; a wait that nothing completes
\* times out where it may.  Nobody has to disturb a measurement.
Spec ==
  /\ Init /\ [][Next]_vars
  /\ WF_vars(Driver)
  /\ \A r \in Run : WF_vars(Main(r)) /\ WF_vars(SubThread(r))

--------------------------------------------------------------------------------
(* Correctness *)

\* The first run whose threads were started since the module was loaded.
First(r) == sub[r] # "absent" /\ \A q \in Run : q < r => sub[q] = "absent"

\* In the first run every probe comes after a full round of PCID switches
\* since the entry was cached, and none of them comes before the entry is
\* switched (the completions keep the threads in step).
FirstRunInStep ==
  \A r \in Run : First(r) /\ ~gaveUp =>
    /\ main[r] \in {"probe", "restore"} => seen[r] = 1 .. Pcids
    /\ main[r] \in {"iterate", "switch"} => sub[r] # "switch"

\* However far the threads are out of step and whatever disturbs main: a run
\* counts more misses than entries were taken from it by others only where PCID
\* switches of the sibling do evict.  (Unless the driver gave up on a main
\* thread, whose flushes a later run then meets.)  Without claim_cpu nothing
\* stronger holds: each disturbance may cost a hit, and costs at most one.
NoFalseMiss == ~gaveUp => \A r \in Run : misses[r] > disturbances[r] => affected

\* Unless the driver gave up on a main thread, no main thread uses its
\* thread_data after the driver freed it.
DataLive ==
  ~gaveUp => \A r \in Run : main[r] \in MainStep \ {"absent", "created", "sub_done", "main_done", "ended"}
      => data[r] = "live"

\* The driver never waits for a main thread that cannot finish any more, and
\* no thread is left waiting: everything ends.
ThreadsEnd == <>Ended

\* A doc comment and the message of the verdict: only the first run after
\* loading the module is inconsistent; the later, reported ones do measure
\* whether PCID switches of the sibling affect the cache.
ReportedRunsMeasure ==
  \A r \in Run : r > 1 /\ main[r] \in {"probe", "restore"} => seen[r] = 1 .. Pcids

================================================================================
