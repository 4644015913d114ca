------------------------------ MODULE OSProofs ------------------------------
(***************************************************************************)
(* Proofs about OS, for every number of CPUs, every configuration and      *)
(* every quantum: the threads use the scheduler as Sched.tla assumes, no   *)
(* process runs twice in a slot or before its time, quanta are whole, and  *)
(* the CPUs do not leave work behind.                                      *)
(***************************************************************************)
EXTENDS OS, SchedProofs

USE NullAssumption, LoaderAssumption

-----------------------------------------------------------------------------
(* OS implements the scheduler: its threads call sched.c only in the ways   *)
(* the abstract threads of Sched do.                                        *)

LoadedInv ==
    /\ loaded \in 0..Len(Order)
    /\ lpc \in {"wait", "wait_slot", "add"} => loaded < Len(Order)

(* What the loader loads are processes. *)
LEMMA OrderedProcs == Len(Order) \in Nat /\ \A i \in 1..Len(Order) : Order[i] \in Procs
BY OrderAssumption, ElementOfSeq, LenProperties

(* ld_routine counts the processes of the configuration, and no more. *)
LEMMA LoadedKeeps ==
  ASSUME LoadedInv, [Next]_vars
  PROVE  LoadedInv'
<1>1. Len(Order) \in Nat
  BY OrderedProcs
<1>2. CASE LdRoutine
  <2>1. CASE LoadNext
    BY <1>1, <2>1 DEF LoadNext, LdGoto, LoadedInv
  <2>2. CASE ProcessAdded
    <3>1. loaded' = loaded + 1 /\ lpc' = "load_slot" /\ loaded < Len(Order)
      BY <2>2 DEF ProcessAdded, LdGoto, LoadedInv
    <3> QED
      BY <1>1, <3>1 DEF LoadedInv
  <2>3. CASE LoaderNextSlotReturns
    BY <2>3 DEF LoaderNextSlotReturns, LdGoto, LoadedInv
  <2>4. CASE WaitForStart \/ AddProcess \/ LoaderDone \/ LoaderDetach
    BY <2>4 DEF WaitForStart, AddProcess, LoaderDone, LoaderDetach, LdGoto, LoadedInv
  <2> QED
    BY <1>2, <2>1, <2>2, <2>3, <2>4 DEF LdRoutine
<1>3. CASE ~LdRoutine
  <2>1. UNCHANGED <<lpc, loaded>>
    BY <1>3 DEF Next, CpuRoutine, Terminated, NextSlot, Scheduling, LookForProcess,
       FirstLoadFailed, FirstLoadDone, ProcessFinished, GetAfterFinish, ClearQuantum, QuantumOver,
       GetNext, KeepProcess, StopCpu, SkipSlot, Dispatch, RunProcess, Fault, CpuNextSlotReturns,
       vars, osVars, loaderVars
  <2> QED
    BY <2>1 DEF LoadedInv
<1> QED
  BY <1>2, <1>3

(* Every step of the simulator is a step of the scheduler, or none. *)
LEMMA NextIsSchedNext ==
  ASSUME LoadedInv, [Next]_vars
  PROVE  [SchedNext]_schedVars
<1>1. CASE NextSlot
  BY <1>1 DEF NextSlot
<1>2. ASSUME NEW t \in Threads, Scheduling(t)
      PROVE  SchedNext
  BY <1>2 DEF Scheduling, SchedNext
<1>3. ASSUME NEW c \in Cpus, CpuRoutine(c)
      PROVE  [SchedNext]_schedVars
  <2>1. CallGet(c) \/ CallPut(c) \/ FreeProc(c) \/ UNCHANGED schedVars
    BY <1>3 DEF CpuRoutine, LookForProcess, FirstLoadFailed, FirstLoadDone, ProcessFinished,
       GetAfterFinish, ClearQuantum, QuantumOver, GetNext, KeepProcess, StopCpu, SkipSlot, Dispatch,
       RunProcess, Fault, CpuNextSlotReturns
  <2> QED
    BY <2>1 DEF SchedNext, CpuCall
<1>4. CASE LdRoutine
  <2>1. \A i \in 1..Len(Order) : Order[i] \in Procs
    BY OrderedProcs
  <2>2. CASE LoadNext
    <3>1. loaded + 1 \in 1..Len(Order)
      BY <2>2, OrderedProcs DEF LoadNext, LoadedInv
    <3> QED
      BY <2>1, <2>2, <3>1 DEF LoadNext, SchedNext, LoaderCall
  <2>3. CASE ~LoadNext
    BY <1>4, <2>3 DEF LdRoutine, WaitForStart, AddProcess, ProcessAdded, LoaderNextSlotReturns,
       LoaderDone, LoaderDetach, SchedNext, LoaderCall
  <2> QED
    BY <2>2, <2>3
<1>5. CASE Terminated \/ UNCHANGED vars
  BY <1>5 DEF Terminated, vars
<1> QED
  BY <1>1, <1>2, <1>3, <1>4, <1>5 DEF Next

(* The simulator is an implementation of the scheduler with abstract
   threads: what is proved of Sched holds for cpu_routine and ld_routine. *)
THEOREM OSImplementsSched == Safety => SchedSafety
<1>1. Init => SchedInit /\ LoadedInv
  BY OrderedProcs DEF Init, LoadedInv
<1>2. LoadedInv /\ [Next]_vars => LoadedInv' /\ [SchedNext]_schedVars
  BY LoadedKeeps, NextIsSchedNext
<1> QED
  BY <1>1, <1>2, PTL DEF Safety, SchedSafety

-----------------------------------------------------------------------------
(* The inductive invariant.                                                *)

OSTypes ==
    /\ Barrier!BarrierTypeOK
    /\ cpc \in [Cpus -> CpuPcs]
    /\ time_left \in [Cpus -> Int]
    /\ executed \in [Procs -> Nat]
    /\ lpc \in LoaderPcs
    /\ done \in BOOLEAN
    /\ exited \in BOOLEAN
    /\ ran \in SUBSET Procs

\* Where a CPU is in cpu_routine says where it is in sched.c, what it holds,
\* and where it is in the slot.
CpuControl == \A c \in Cpus :
    /\ cpc[c] \in {"top", "finished", "run", "slot", "stopped"} => spc[c] = "idle"
    /\ cpc[c] \in {"got", "clear", "check"} => spc[c] \notin {"put_lock", "put"}
    /\ cpc[c] = "get" => spc[c] \in {"idle", "put_lock", "put"}
    /\ cpc[c] = "get" /\ spc[c] = "idle" => hand[c] = NoProc
    /\ cpc[c] \in {"finished", "stopped"} => hand[c] = NoProc
    /\ cpc[c] = "run" => hand[c] # NoProc
    /\ cpc[c] = "slot" <=> at[c] \in {"waiting", "go"}
    /\ cpc[c] = "stopped" <=> at[c] = "out"
    /\ cpc[c] = "stopped" => done

\* The same for the loader.
LoaderControl ==
    /\ IF lpc = "add" THEN spc[Loader] \in {"idle", "put_lock", "put"} ELSE spc[Loader] = "idle"
    /\ lpc \in {"wait", "wait_slot"} => hand[Loader] # NoProc
    /\ lpc \in {"load", "load_slot", "detach", "end"} => hand[Loader] = NoProc
    /\ lpc = "add" /\ spc[Loader] = "idle" => hand[Loader] = NoProc
    /\ lpc \in {"wait_slot", "load_slot"} <=> at[Loader] \in {"waiting", "go"}
    /\ lpc = "end" <=> at[Loader] = "out"
    /\ done <=> lpc \in {"detach", "end"}
    /\ done => loaded = Len(Order)

\* The processes still to be loaded come later in the configuration.
FreshInv == \A i \in 1..Len(Order) :
    Order[i] \in fresh => i > loaded /\ (lpc \in {"wait", "wait_slot", "add"} => i > loaded + 1)

\* A process that ran in this slot is held until the slot is over.
RanInv == \A p \in ran : \E c \in Cpus : hand[c] = p /\ at[c] = "waiting"

\* A process the loader is about to queue has reached its start time.
StartInv ==
    /\ NotBeforeStart
    /\ spc[Loader] \in {"put_lock", "put"} => time >= StartTime[hand[Loader]]

\* time_left and the instructions executed: in the hand of a CPU that runs
\* it, a process lacks time_left instructions to whole quanta; everywhere
\* else it has used whole quanta, or is completed.
Running(c) == cpc[c] \in {"top", "check", "run", "slot"}
Whole(p, rest) == Completed(p) \/ (executed[p] + rest) % TimeSlot = 0

LeftInv == \A c \in Cpus :
    /\ time_left[c] \in 0..TimeSlot
    /\ cpc[c] = "run" => time_left[c] > 0
    /\ cpc[c] \in {"got", "get"} => time_left[c] = 0
    /\ cpc[c] = "check" /\ InGet(c) => time_left[c] = 0
    /\ cpc[c] \notin {"finished", "clear"} /\ hand[c] = NoProc => time_left[c] = 0

WholeInv ==
    /\ \A c \in Cpus : hand[c] # NoProc => Whole(hand[c], IF Running(c) THEN time_left[c] ELSE 0)
    /\ \A p \in Procs : (\A c \in Cpus : hand[c] # p) => Whole(p, 0)

QuantumInv == TimeSlot > 0 => LeftInv /\ WholeInv

\* A CPU that will stop when done is set: it holds nothing, and its get_proc
\* has returned NULL or is bound to.
Doomed(c) ==
    \/ cpc[c] = "stopped"
    \/ /\ cpc[c] \in {"check", "clear"}
       /\ hand[c] = NoProc
       /\ \/ spc[c] \in {"idle", "charge_load", "charge"}
          \/ spc[c] = "empty" /\ \A q \in Prios : q >= tmp[c] => ready[q] = << >>
          \/ spc[c] \in {"slots", "get_lock", "take"} /\ ready[priority_queue[c]] = << >>

\* The loader has added a process in this slot.
JustAdded == lpc = "add" \/ (lpc = "load_slot" /\ at[Loader] = "waiting")

\* While a process is queued, some CPU will still look, unless the loader
\* has added in this slot: then all CPUs that have not stopped look in the
\* next one.
StockWatched == AllEmpty(ready) \/ JustAdded \/ \E c \in Cpus : ~Doomed(c)

-----------------------------------------------------------------------------
(* Types and control.                                                      *)

(* What a step inside sched.c does to its caller and to the others. *)
LEMMA SchedStepFrame ==
  ASSUME SchedInv, NEW t \in Threads, SchedStep(t)
  PROVE  /\ spc[t] # "idle"
         /\ \A u \in Threads : u # t => spc'[u] = spc[u] /\ hand'[u] = hand[u]
         /\ spc[t] \notin {"put_lock", "put"} => spc'[t] \notin {"put_lock", "put"}
         /\ spc[t] \in {"put_lock", "put"} =>
               spc'[t] \in {"put", "idle"} /\ (spc'[t] = "idle" => hand'[t] = NoProc)
<1> USE DEF SchedInv, ControlInv, SchedTypeOK
<1>1. CASE GetStep(t)
  BY <1>1 DEF GetStep, Goto, FoundNonempty, FoundEmpty, ReturnNull, ReadQuota, PickQueue,
     TestSize, TestSlots, LoadPrio, StorePrio, TestWrap, ResetSlots, Rewind, TakeProc, LoadSlots,
     ChargeSlot
<1>2. CASE LockQueue(t)
  BY <1>2 DEF LockQueue, Goto
<1>3. CASE PutProc(t)
  BY <1>3 DEF PutProc, Goto
<1> QED
  BY <1>1, <1>2, <1>3 DEF SchedStep

(* cpu_routine keeps the types. *)
LEMMA CpuTypes ==
  ASSUME SchedInv, OSTypes, CpuControl, NEW c \in Cpus, CpuRoutine(c)
  PROVE  OSTypes'
<1>1. c \in Threads /\ c # Loader
  BY DEF Threads
<1>2. spc \in [Threads -> SchedPcs] /\ hand \in [Threads -> Procs \cup {NoProc}]
  BY DEF SchedInv, ControlInv, SchedTypeOK
<1>3. CASE LookForProcess(c)
  BY <1>1, <1>2, <1>3 DEF LookForProcess, CpuGoto, CallGet, Goto, OSTypes, Barrier!BarrierTypeOK, Barrier!Places, CpuPcs, barrier, cpuVars, loaderVars, schedVars, locals, owners
<1>4. CASE FirstLoadFailed(c)
  BY <1>1, <1>2, <1>4 DEF FirstLoadFailed, CpuGoto, Returned, Barrier!Arrive, OSTypes, Barrier!BarrierTypeOK, Barrier!Places, CpuPcs, barrier, cpuVars, loaderVars, schedVars, locals, owners
<1>5. CASE FirstLoadDone(c)
  BY <1>1, <1>2, <1>5 DEF FirstLoadDone, CpuGoto, Returned, OSTypes, Barrier!BarrierTypeOK, Barrier!Places, CpuPcs, barrier, cpuVars, loaderVars, schedVars, locals, owners
<1>6. CASE ProcessFinished(c)
  BY <1>1, <1>2, <1>6 DEF ProcessFinished, CpuGoto, FreeProc, OSTypes, Barrier!BarrierTypeOK, Barrier!Places, CpuPcs, barrier, cpuVars, loaderVars, schedVars, locals, owners
<1>7. CASE GetAfterFinish(c)
  BY <1>1, <1>2, <1>7 DEF GetAfterFinish, CpuGoto, CallGet, Goto, OSTypes, Barrier!BarrierTypeOK, Barrier!Places, CpuPcs, barrier, cpuVars, loaderVars, schedVars, locals, owners
<1>8. CASE ClearQuantum(c)
  BY <1>1, <1>2, <1>8 DEF ClearQuantum, CpuGoto, Returned, OSTypes, Barrier!BarrierTypeOK, Barrier!Places, CpuPcs, barrier, cpuVars, loaderVars, schedVars, locals, owners
<1>9. CASE QuantumOver(c)
  BY <1>1, <1>2, <1>9 DEF QuantumOver, CpuGoto, CallPut, Goto, OSTypes, Barrier!BarrierTypeOK, Barrier!Places, CpuPcs, barrier, cpuVars, loaderVars, schedVars, locals, owners
<1>10. CASE GetNext(c)
  BY <1>1, <1>2, <1>10 DEF GetNext, CpuGoto, Returned, CallGet, Goto, OSTypes, Barrier!BarrierTypeOK, Barrier!Places, CpuPcs, barrier, cpuVars, loaderVars, schedVars, locals, owners
<1>11. CASE KeepProcess(c)
  BY <1>1, <1>2, <1>11 DEF KeepProcess, CpuGoto, OSTypes, Barrier!BarrierTypeOK, Barrier!Places, CpuPcs, barrier, cpuVars, loaderVars, schedVars, locals, owners
<1>12. CASE StopCpu(c)
  BY <1>1, <1>2, <1>12 DEF StopCpu, CpuGoto, Returned, Barrier!Depart, OSTypes, Barrier!BarrierTypeOK, Barrier!Places, CpuPcs, barrier, cpuVars, loaderVars, schedVars, locals, owners
<1>13. CASE SkipSlot(c)
  BY <1>1, <1>2, <1>13 DEF SkipSlot, CpuGoto, Returned, Barrier!Arrive, OSTypes, Barrier!BarrierTypeOK, Barrier!Places, CpuPcs, barrier, cpuVars, loaderVars, schedVars, locals, owners
<1>14. CASE Dispatch(c)
  <2>1. TimeSlot \in Int
    BY TimeAssumption
  <2> QED
    BY <1>1, <1>2, <2>1, <1>14 DEF Dispatch, CpuGoto, Returned, OSTypes, Barrier!BarrierTypeOK, CpuPcs, barrier,
       loaderVars
<1>15. CASE RunProcess(c)
  <2>1. hand[c] \in Procs /\ cpc[c] = "run"
    BY <1>1, <1>2, <1>15 DEF RunProcess, CpuGoto, CpuControl
  <2>2. executed' \in [Procs -> Nat] /\ ran' \in SUBSET Procs
    <3>1. executed' = [executed EXCEPT ![hand[c]] = IF Completed(hand[c]) THEN executed[hand[c]]
                                                     ELSE executed[hand[c]] + 1]
      BY <1>15 DEF RunProcess
    <3>2. ran' = ran \cup {hand[c]}
      BY <1>15 DEF RunProcess
    <3> QED
      BY <2>1, <3>1, <3>2 DEF OSTypes
  <2>3. time_left' \in [Cpus -> Int] /\ cpc' \in [Cpus -> CpuPcs]
    BY <1>15 DEF RunProcess, CpuGoto, OSTypes, CpuPcs
  <2>4. at' \in [Threads -> Barrier!Places] /\ time' \in Nat
    BY <1>1, <1>15 DEF RunProcess, Barrier!Arrive, OSTypes, Barrier!BarrierTypeOK, Barrier!Places
  <2>5. UNCHANGED loaderVars /\ exited' = exited
    BY <1>15 DEF RunProcess
  <2> QED
    BY <2>2, <2>3, <2>4, <2>5 DEF OSTypes, Barrier!BarrierTypeOK, loaderVars
<1>16. CASE Fault(c)
  BY <1>1, <1>2, <1>16 DEF Fault, CpuGoto, OSTypes, Barrier!BarrierTypeOK, Barrier!Places, CpuPcs, barrier, cpuVars, loaderVars, schedVars, locals, owners
<1>17. CASE CpuNextSlotReturns(c)
  BY <1>1, <1>2, <1>17 DEF CpuNextSlotReturns, CpuGoto, Barrier!Return, OSTypes, Barrier!BarrierTypeOK, Barrier!Places, CpuPcs, barrier, cpuVars, loaderVars, schedVars, locals, owners
<1> QED
  BY <1>3, <1>4, <1>5, <1>6, <1>7, <1>8, <1>9, <1>10, <1>11, <1>12, <1>13, <1>14, <1>15, <1>16, <1>17 DEF CpuRoutine

(* cpu_routine keeps the CPUs in step with the scheduler. *)
LEMMA CpuKeepsCpuControl ==
  ASSUME SchedInv, OSTypes, CpuControl, NEW c \in Cpus, CpuRoutine(c)
  PROVE  CpuControl'
<1>1. c \in Threads /\ c # Loader
  BY DEF Threads
<1>2. spc \in [Threads -> SchedPcs] /\ hand \in [Threads -> Procs \cup {NoProc}]
  BY DEF SchedInv, ControlInv, SchedTypeOK
<1>3. CASE LookForProcess(c)
  BY <1>1, <1>2, <1>3 DEF LookForProcess, CpuGoto, CallGet, Goto, OSTypes, Barrier!BarrierTypeOK, CpuControl, barrier, cpuVars, loaderVars, schedVars, locals, owners
<1>4. CASE FirstLoadFailed(c)
  BY <1>1, <1>2, <1>4 DEF FirstLoadFailed, CpuGoto, Returned, Barrier!Arrive, OSTypes, Barrier!BarrierTypeOK, CpuControl, barrier, cpuVars, loaderVars, schedVars, locals, owners
<1>5. CASE FirstLoadDone(c)
  BY <1>1, <1>2, <1>5 DEF FirstLoadDone, CpuGoto, Returned, OSTypes, Barrier!BarrierTypeOK, CpuControl, barrier, cpuVars, loaderVars, schedVars, locals, owners
<1>6. CASE ProcessFinished(c)
  BY <1>1, <1>2, <1>6 DEF ProcessFinished, CpuGoto, FreeProc, OSTypes, Barrier!BarrierTypeOK, CpuControl, barrier, cpuVars, loaderVars, schedVars, locals, owners
<1>7. CASE GetAfterFinish(c)
  BY <1>1, <1>2, <1>7 DEF GetAfterFinish, CpuGoto, CallGet, Goto, OSTypes, Barrier!BarrierTypeOK, CpuControl, barrier, cpuVars, loaderVars, schedVars, locals, owners
<1>8. CASE ClearQuantum(c)
  BY <1>1, <1>2, <1>8 DEF ClearQuantum, CpuGoto, Returned, OSTypes, Barrier!BarrierTypeOK, CpuControl, barrier, cpuVars, loaderVars, schedVars, locals, owners
<1>9. CASE QuantumOver(c)
  BY <1>1, <1>2, <1>9 DEF QuantumOver, CpuGoto, CallPut, Goto, OSTypes, Barrier!BarrierTypeOK, CpuControl, barrier, cpuVars, loaderVars, schedVars, locals, owners
<1>10. CASE GetNext(c)
  BY <1>1, <1>2, <1>10 DEF GetNext, CpuGoto, Returned, CallGet, Goto, OSTypes, Barrier!BarrierTypeOK, CpuControl, barrier, cpuVars, loaderVars, schedVars, locals, owners
<1>11. CASE KeepProcess(c)
  BY <1>1, <1>2, <1>11 DEF KeepProcess, CpuGoto, OSTypes, Barrier!BarrierTypeOK, CpuControl, barrier, cpuVars, loaderVars, schedVars, locals, owners
<1>12. CASE StopCpu(c)
  BY <1>1, <1>2, <1>12 DEF StopCpu, CpuGoto, Returned, Barrier!Depart, OSTypes, Barrier!BarrierTypeOK, CpuControl, barrier, cpuVars, loaderVars, schedVars, locals, owners
<1>13. CASE SkipSlot(c)
  BY <1>1, <1>2, <1>13 DEF SkipSlot, CpuGoto, Returned, Barrier!Arrive, OSTypes, Barrier!BarrierTypeOK, CpuControl, barrier, cpuVars, loaderVars, schedVars, locals, owners
<1>14. CASE Dispatch(c)
  BY <1>1, <1>2, <1>14 DEF Dispatch, CpuGoto, Returned, OSTypes, Barrier!BarrierTypeOK, CpuControl, barrier, cpuVars, loaderVars, schedVars, locals, owners
<1>15. CASE RunProcess(c)
  BY <1>1, <1>2, <1>15 DEF RunProcess, CpuGoto, Barrier!Arrive, OSTypes, Barrier!BarrierTypeOK, CpuControl, barrier, cpuVars, loaderVars, schedVars, locals, owners
<1>16. CASE Fault(c)
  BY <1>1, <1>2, <1>16 DEF Fault, CpuGoto, OSTypes, Barrier!BarrierTypeOK, CpuControl, barrier, cpuVars, loaderVars, schedVars, locals, owners
<1>17. CASE CpuNextSlotReturns(c)
  BY <1>1, <1>2, <1>17 DEF CpuNextSlotReturns, CpuGoto, Barrier!Return, OSTypes, Barrier!BarrierTypeOK, CpuControl, barrier, cpuVars, loaderVars, schedVars, locals, owners
<1> QED
  BY <1>3, <1>4, <1>5, <1>6, <1>7, <1>8, <1>9, <1>10, <1>11, <1>12, <1>13, <1>14, <1>15, <1>16, <1>17 DEF CpuRoutine

(* cpu_routine leaves the loader alone. *)
LEMMA CpuKeepsLoaderControl ==
  ASSUME SchedInv, OSTypes, LoaderControl, NEW c \in Cpus, CpuRoutine(c)
  PROVE  LoaderControl'
<1>1. c \in Threads /\ c # Loader
  BY DEF Threads
<1>2. spc \in [Threads -> SchedPcs] /\ hand \in [Threads -> Procs \cup {NoProc}]
  BY DEF SchedInv, ControlInv, SchedTypeOK
<1>3. CASE LookForProcess(c)
  BY <1>1, <1>2, <1>3 DEF LookForProcess, CpuGoto, CallGet, Goto, OSTypes, Barrier!BarrierTypeOK, LoaderControl, barrier, cpuVars, loaderVars, schedVars, locals, owners
<1>4. CASE FirstLoadFailed(c)
  BY <1>1, <1>2, <1>4 DEF FirstLoadFailed, CpuGoto, Returned, Barrier!Arrive, OSTypes, Barrier!BarrierTypeOK, LoaderControl, barrier, cpuVars, loaderVars, schedVars, locals, owners
<1>5. CASE FirstLoadDone(c)
  BY <1>1, <1>2, <1>5 DEF FirstLoadDone, CpuGoto, Returned, OSTypes, Barrier!BarrierTypeOK, LoaderControl, barrier, cpuVars, loaderVars, schedVars, locals, owners
<1>6. CASE ProcessFinished(c)
  BY <1>1, <1>2, <1>6 DEF ProcessFinished, CpuGoto, FreeProc, OSTypes, Barrier!BarrierTypeOK, LoaderControl, barrier, cpuVars, loaderVars, schedVars, locals, owners
<1>7. CASE GetAfterFinish(c)
  BY <1>1, <1>2, <1>7 DEF GetAfterFinish, CpuGoto, CallGet, Goto, OSTypes, Barrier!BarrierTypeOK, LoaderControl, barrier, cpuVars, loaderVars, schedVars, locals, owners
<1>8. CASE ClearQuantum(c)
  BY <1>1, <1>2, <1>8 DEF ClearQuantum, CpuGoto, Returned, OSTypes, Barrier!BarrierTypeOK, LoaderControl, barrier, cpuVars, loaderVars, schedVars, locals, owners
<1>9. CASE QuantumOver(c)
  BY <1>1, <1>2, <1>9 DEF QuantumOver, CpuGoto, CallPut, Goto, OSTypes, Barrier!BarrierTypeOK, LoaderControl, barrier, cpuVars, loaderVars, schedVars, locals, owners
<1>10. CASE GetNext(c)
  BY <1>1, <1>2, <1>10 DEF GetNext, CpuGoto, Returned, CallGet, Goto, OSTypes, Barrier!BarrierTypeOK, LoaderControl, barrier, cpuVars, loaderVars, schedVars, locals, owners
<1>11. CASE KeepProcess(c)
  BY <1>1, <1>2, <1>11 DEF KeepProcess, CpuGoto, OSTypes, Barrier!BarrierTypeOK, LoaderControl, barrier, cpuVars, loaderVars, schedVars, locals, owners
<1>12. CASE StopCpu(c)
  BY <1>1, <1>2, <1>12 DEF StopCpu, CpuGoto, Returned, Barrier!Depart, OSTypes, Barrier!BarrierTypeOK, LoaderControl, barrier, cpuVars, loaderVars, schedVars, locals, owners
<1>13. CASE SkipSlot(c)
  BY <1>1, <1>2, <1>13 DEF SkipSlot, CpuGoto, Returned, Barrier!Arrive, OSTypes, Barrier!BarrierTypeOK, LoaderControl, barrier, cpuVars, loaderVars, schedVars, locals, owners
<1>14. CASE Dispatch(c)
  BY <1>1, <1>2, <1>14 DEF Dispatch, CpuGoto, Returned, OSTypes, Barrier!BarrierTypeOK, LoaderControl, barrier, cpuVars, loaderVars, schedVars, locals, owners
<1>15. CASE RunProcess(c)
  BY <1>1, <1>2, <1>15 DEF RunProcess, CpuGoto, Barrier!Arrive, OSTypes, Barrier!BarrierTypeOK, LoaderControl, barrier, cpuVars, loaderVars, schedVars, locals, owners
<1>16. CASE Fault(c)
  BY <1>1, <1>2, <1>16 DEF Fault, CpuGoto, OSTypes, Barrier!BarrierTypeOK, LoaderControl, barrier, cpuVars, loaderVars, schedVars, locals, owners
<1>17. CASE CpuNextSlotReturns(c)
  BY <1>1, <1>2, <1>17 DEF CpuNextSlotReturns, CpuGoto, Barrier!Return, OSTypes, Barrier!BarrierTypeOK, LoaderControl, barrier, cpuVars, loaderVars, schedVars, locals, owners
<1> QED
  BY <1>3, <1>4, <1>5, <1>6, <1>7, <1>8, <1>9, <1>10, <1>11, <1>12, <1>13, <1>14, <1>15, <1>16, <1>17 DEF CpuRoutine

(* ld_routine keeps the types. *)
LEMMA LoaderTypes ==
  ASSUME OSTypes, LoadedInv, LdRoutine
  PROVE  OSTypes'
<1>1. Loader \in Threads /\ Loader \notin Cpus
  BY DEF Threads
<1>2. CASE LoadNext
  BY <1>1, <1>2 DEF LoadNext, LdGoto, LoadProc, OSTypes, Barrier!BarrierTypeOK, Barrier!Places, LoaderPcs, barrier, cpuVars, loaderVars, schedVars, locals, owners
<1>3. CASE WaitForStart
  BY <1>1, <1>3 DEF WaitForStart, LdGoto, Barrier!Arrive, OSTypes, Barrier!BarrierTypeOK, Barrier!Places, LoaderPcs, barrier, cpuVars, loaderVars, schedVars, locals, owners
<1>4. CASE AddProcess
  BY <1>1, <1>4 DEF AddProcess, LdGoto, CallPut, Goto, OSTypes, Barrier!BarrierTypeOK, Barrier!Places, LoaderPcs, barrier, cpuVars, loaderVars, schedVars, locals, owners
<1>5. CASE ProcessAdded
  BY <1>1, <1>5 DEF ProcessAdded, LdGoto, Returned, Barrier!Arrive, OSTypes, Barrier!BarrierTypeOK, Barrier!Places, LoaderPcs, barrier, cpuVars, loaderVars, schedVars, locals, owners
<1>6. CASE LoaderNextSlotReturns
  BY <1>1, <1>6 DEF LoaderNextSlotReturns, LdGoto, Barrier!Return, OSTypes, Barrier!BarrierTypeOK, Barrier!Places, LoaderPcs, barrier, cpuVars, loaderVars, schedVars, locals, owners
<1>7. CASE LoaderDone
  BY <1>1, <1>7 DEF LoaderDone, LdGoto, OSTypes, Barrier!BarrierTypeOK, Barrier!Places, LoaderPcs, barrier, cpuVars, loaderVars, schedVars, locals, owners
<1>8. CASE LoaderDetach
  BY <1>1, <1>8 DEF LoaderDetach, LdGoto, Barrier!Depart, OSTypes, Barrier!BarrierTypeOK, Barrier!Places, LoaderPcs, barrier, cpuVars, loaderVars, schedVars, locals, owners
<1> QED
  BY <1>2, <1>3, <1>4, <1>5, <1>6, <1>7, <1>8 DEF LdRoutine

(* ld_routine leaves the CPUs alone; done only ever becomes 1. *)
LEMMA LoaderKeepsCpuControl ==
  ASSUME SchedInv, OSTypes, CpuControl, LdRoutine
  PROVE  CpuControl'
<1>1. Loader \in Threads /\ Loader \notin Cpus
  BY DEF Threads
<1>2. spc \in [Threads -> SchedPcs] /\ hand \in [Threads -> Procs \cup {NoProc}]
  BY DEF SchedInv, ControlInv, SchedTypeOK
<1>3. CASE LoadNext
  BY <1>1, <1>2, <1>3 DEF LoadNext, LdGoto, LoadProc, OSTypes, Barrier!BarrierTypeOK, CpuControl, barrier, cpuVars, loaderVars, schedVars, locals, owners
<1>4. CASE WaitForStart
  BY <1>1, <1>2, <1>4 DEF WaitForStart, LdGoto, Barrier!Arrive, OSTypes, Barrier!BarrierTypeOK, CpuControl, barrier, cpuVars, loaderVars, schedVars, locals, owners
<1>5. CASE AddProcess
  BY <1>1, <1>2, <1>5 DEF AddProcess, LdGoto, CallPut, Goto, OSTypes, Barrier!BarrierTypeOK, CpuControl, barrier, cpuVars, loaderVars, schedVars, locals, owners
<1>6. CASE ProcessAdded
  BY <1>1, <1>2, <1>6 DEF ProcessAdded, LdGoto, Returned, Barrier!Arrive, OSTypes, Barrier!BarrierTypeOK, CpuControl, barrier, cpuVars, loaderVars, schedVars, locals, owners
<1>7. CASE LoaderNextSlotReturns
  BY <1>1, <1>2, <1>7 DEF LoaderNextSlotReturns, LdGoto, Barrier!Return, OSTypes, Barrier!BarrierTypeOK, CpuControl, barrier, cpuVars, loaderVars, schedVars, locals, owners
<1>8. CASE LoaderDone
  BY <1>1, <1>2, <1>8 DEF LoaderDone, LdGoto, OSTypes, Barrier!BarrierTypeOK, CpuControl, barrier, cpuVars, loaderVars, schedVars, locals, owners
<1>9. CASE LoaderDetach
  BY <1>1, <1>2, <1>9 DEF LoaderDetach, LdGoto, Barrier!Depart, OSTypes, Barrier!BarrierTypeOK, CpuControl, barrier, cpuVars, loaderVars, schedVars, locals, owners
<1> QED
  BY <1>3, <1>4, <1>5, <1>6, <1>7, <1>8, <1>9 DEF LdRoutine

(* ld_routine keeps in step with the scheduler. *)
LEMMA LoaderKeepsLoaderControl ==
  ASSUME SchedInv, OSTypes, LoadedInv, LoaderControl, LdRoutine
  PROVE  LoaderControl'
<1>1. Loader \in Threads /\ Loader \notin Cpus
  BY DEF Threads
<1>2. spc \in [Threads -> SchedPcs] /\ hand \in [Threads -> Procs \cup {NoProc}]
  BY DEF SchedInv, ControlInv, SchedTypeOK
<1>3. loaded < Len(Order) => Order[loaded + 1] \in Procs
  BY OrderedProcs DEF LoadedInv
<1>4. CASE LoadNext
  BY <1>1, <1>2, <1>3, <1>4 DEF LoadNext, LdGoto, LoadProc, OSTypes, Barrier!BarrierTypeOK, LoaderControl, LoadedInv, barrier, cpuVars, loaderVars, schedVars, locals, owners
<1>5. CASE WaitForStart
  BY <1>1, <1>2, <1>3, <1>5 DEF WaitForStart, LdGoto, Barrier!Arrive, OSTypes, Barrier!BarrierTypeOK, LoaderControl, LoadedInv, barrier, cpuVars, loaderVars, schedVars, locals, owners
<1>6. CASE AddProcess
  BY <1>1, <1>2, <1>3, <1>6 DEF AddProcess, LdGoto, CallPut, Goto, OSTypes, Barrier!BarrierTypeOK, LoaderControl, LoadedInv, barrier, cpuVars, loaderVars, schedVars, locals, owners
<1>7. CASE ProcessAdded
  BY <1>1, <1>2, <1>3, <1>7 DEF ProcessAdded, LdGoto, Returned, Barrier!Arrive, OSTypes, Barrier!BarrierTypeOK, LoaderControl, LoadedInv, barrier, cpuVars, loaderVars, schedVars, locals, owners
<1>8. CASE LoaderNextSlotReturns
  BY <1>1, <1>2, <1>3, <1>8 DEF LoaderNextSlotReturns, LdGoto, Barrier!Return, OSTypes, Barrier!BarrierTypeOK, LoaderControl, LoadedInv, barrier, cpuVars, loaderVars, schedVars, locals, owners
<1>9. CASE LoaderDone
  BY <1>1, <1>2, <1>3, <1>9 DEF LoaderDone, LdGoto, OSTypes, Barrier!BarrierTypeOK, LoaderControl, LoadedInv, barrier, cpuVars, loaderVars, schedVars, locals, owners
<1>10. CASE LoaderDetach
  BY <1>1, <1>2, <1>3, <1>10 DEF LoaderDetach, LdGoto, Barrier!Depart, OSTypes, Barrier!BarrierTypeOK, LoaderControl, LoadedInv, barrier, cpuVars, loaderVars, schedVars, locals, owners
<1> QED
  BY <1>4, <1>5, <1>6, <1>7, <1>8, <1>9, <1>10 DEF LdRoutine

(* A slot ends for everybody: types and control. *)
LEMMA NextSlotControl ==
  ASSUME OSTypes, CpuControl, LoaderControl, NextSlot
  PROVE  OSTypes' /\ CpuControl' /\ LoaderControl'
<1>1. /\ at' = [d \in Threads |-> IF at[d] = "waiting" THEN "go" ELSE at[d]]
      /\ UNCHANGED <<spc, hand, cpc, time_left, executed, lpc, loaded, done, exited>>
      /\ ran' = {} /\ time' \in {time, time + 1}
  BY DEF NextSlot, Barrier!Open, schedVars, cpuVars, loaderVars
<1>2. OSTypes'
  BY <1>1 DEF OSTypes, Barrier!BarrierTypeOK, Barrier!Places
<1>3. CpuControl'
  BY <1>1 DEF CpuControl, Threads
<1>4. LoaderControl'
  BY <1>1 DEF LoaderControl, Threads
<1> QED
  BY <1>2, <1>3, <1>4

(* A step inside sched.c: types and control. *)
LEMMA SchedulingControl ==
  ASSUME SchedInv, OSTypes, CpuControl, LoaderControl, NEW t \in Threads, Scheduling(t)
  PROVE  OSTypes' /\ CpuControl' /\ LoaderControl'
<1>1. UNCHANGED <<at, time, cpc, time_left, executed, lpc, loaded, done, exited, ran>>
  BY DEF Scheduling, osVars, barrier, cpuVars, loaderVars
<1>2. /\ spc[t] # "idle"
      /\ \A u \in Threads : u # t => spc'[u] = spc[u] /\ hand'[u] = hand[u]
      /\ spc[t] \notin {"put_lock", "put"} => spc'[t] \notin {"put_lock", "put"}
      /\ spc[t] \in {"put_lock", "put"} =>
            spc'[t] \in {"put", "idle"} /\ (spc'[t] = "idle" => hand'[t] = NoProc)
  BY SchedStepFrame DEF Scheduling
<1>3. OSTypes'
  BY <1>1 DEF OSTypes, Barrier!BarrierTypeOK
<1>4. CpuControl'
  <2> SUFFICES ASSUME NEW c \in Cpus
               PROVE  CpuControl!(c)'
    BY DEF CpuControl
  <2>1. CASE t = c
    BY <1>1, <1>2, <2>1 DEF CpuControl, OSTypes, CpuPcs
  <2>2. CASE t # c
    BY <1>1, <1>2, <2>2 DEF CpuControl, Threads
  <2> QED
    BY <2>1, <2>2
<1>5. LoaderControl'
  <2>1. CASE t = Loader
    BY <1>1, <1>2, <2>1 DEF LoaderControl
  <2>2. CASE t # Loader
    BY <1>1, <1>2, <2>2 DEF LoaderControl, Threads
  <2> QED
    BY <2>1, <2>2
<1> QED
  BY <1>3, <1>4, <1>5

Controlled == SchedInv /\ LoadedInv /\ OSTypes /\ CpuControl /\ LoaderControl

(* The threads keep in step with the scheduler and with the slots. *)
LEMMA ControlledKeeps ==
  ASSUME Controlled, [Next]_vars
  PROVE  Controlled'
<1> USE DEF Controlled
<1>1. SchedInv' /\ LoadedInv'
  BY LoadedKeeps, NextIsSchedNext, SchedNextKeeps
<1>2. CASE NextSlot
  BY <1>1, <1>2, NextSlotControl
<1>3. ASSUME NEW t \in Threads, Scheduling(t)
      PROVE  Controlled'
  BY <1>1, <1>3, SchedulingControl
<1>4. ASSUME NEW c \in Cpus, CpuRoutine(c)
      PROVE  Controlled'
  BY <1>1, <1>4, CpuTypes, CpuKeepsCpuControl, CpuKeepsLoaderControl
<1>5. CASE LdRoutine
  BY <1>1, <1>5, LoaderTypes, LoaderKeepsCpuControl, LoaderKeepsLoaderControl
<1>6. CASE Terminated \/ UNCHANGED vars
  BY <1>1, <1>6 DEF Terminated, vars, osVars, barrier, cpuVars, loaderVars, schedVars, OSTypes,
     Barrier!BarrierTypeOK, CpuControl, LoaderControl
<1> QED
  BY <1>2, <1>3, <1>4, <1>5, <1>6 DEF Next

-----------------------------------------------------------------------------
(* The loader and the start times.                                          *)

(* What cpu_routine does to the processes. *)
LEMMA CpuOwners ==
  ASSUME Controlled, NEW c \in Cpus, CpuRoutine(c)
  PROVE  /\ ready' = ready /\ fresh' = fresh /\ lost' = lost /\ time' = time
         /\ UNCHANGED <<lpc, loaded, done>>
         /\ \A u \in Threads : u # c =>
               hand'[u] = hand[u] /\ spc'[u] = spc[u] /\ at'[u] = at[u] /\ (u \in Cpus => cpc'[u] = cpc[u])
         /\ hand'[c] \in {hand[c], NoProc}
         /\ \/ finished' = finished
            \/ finished' = finished \cup {hand[c]} /\ Completed(hand[c]) /\ hand[c] # NoProc
         /\ at[c] # "waiting"
         /\ \/ executed' = executed /\ ran' = ran
            \/ /\ cpc[c] = "run" /\ at'[c] = "waiting" /\ hand'[c] = hand[c] /\ hand[c] \in Procs
               /\ ran' = ran \cup {hand[c]}
               /\ executed' = [executed EXCEPT ![hand[c]] = IF Completed(hand[c]) THEN executed[hand[c]]
                                                            ELSE executed[hand[c]] + 1]
<1> USE DEF barrier, cpuVars, loaderVars, schedVars, owners
<1>1. c \in Threads /\ hand \in [Threads -> Procs \cup {NoProc}] /\ spc \in [Threads -> SchedPcs]
  BY DEF Threads, Controlled, SchedInv, ControlInv, SchedTypeOK
<1>2. at \in [Threads -> Barrier!Places] /\ cpc \in [Cpus -> CpuPcs]
  BY DEF Controlled, OSTypes, Barrier!BarrierTypeOK
<1>3. /\ cpc[c] = "slot" <=> at[c] \in {"waiting", "go"}
      /\ cpc[c] = "run" => hand[c] # NoProc
  BY DEF Controlled, CpuControl
<1>4. CASE LookForProcess(c)
  BY <1>1, <1>2, <1>3, <1>4 DEF LookForProcess, CpuGoto, CallGet, Goto
<1>5. CASE FirstLoadFailed(c)
  BY <1>1, <1>2, <1>3, <1>5 DEF FirstLoadFailed, CpuGoto, Returned, Barrier!Arrive
<1>6. CASE FirstLoadDone(c)
  BY <1>1, <1>2, <1>3, <1>6 DEF FirstLoadDone, CpuGoto, Returned
<1>7. CASE ProcessFinished(c)
  BY <1>1, <1>2, <1>3, <1>7 DEF ProcessFinished, CpuGoto, FreeProc
<1>8. CASE GetAfterFinish(c)
  BY <1>1, <1>2, <1>3, <1>8 DEF GetAfterFinish, CpuGoto, CallGet, Goto
<1>9. CASE ClearQuantum(c)
  BY <1>1, <1>2, <1>3, <1>9 DEF ClearQuantum, CpuGoto, Returned
<1>10. CASE QuantumOver(c)
  BY <1>1, <1>2, <1>3, <1>10 DEF QuantumOver, CpuGoto, CallPut, Goto
<1>11. CASE GetNext(c)
  BY <1>1, <1>2, <1>3, <1>11 DEF GetNext, CpuGoto, Returned, CallGet, Goto
<1>12. CASE KeepProcess(c)
  BY <1>1, <1>2, <1>3, <1>12 DEF KeepProcess, CpuGoto
<1>13. CASE StopCpu(c)
  BY <1>1, <1>2, <1>3, <1>13 DEF StopCpu, CpuGoto, Returned, Barrier!Depart
<1>14. CASE SkipSlot(c)
  BY <1>1, <1>2, <1>3, <1>14 DEF SkipSlot, CpuGoto, Returned, Barrier!Arrive
<1>15. CASE Dispatch(c)
  BY <1>1, <1>2, <1>3, <1>15 DEF Dispatch, CpuGoto, Returned
<1>16. CASE RunProcess(c)
  BY <1>1, <1>2, <1>3, <1>16 DEF RunProcess, CpuGoto, Barrier!Arrive
<1>17. CASE Fault(c)
  BY <1>1, <1>2, <1>3, <1>17 DEF Fault, CpuGoto
<1>18. CASE CpuNextSlotReturns(c)
  BY <1>1, <1>2, <1>3, <1>18 DEF CpuNextSlotReturns, CpuGoto, Barrier!Return
<1> QED
  BY <1>4, <1>5, <1>6, <1>7, <1>8, <1>9, <1>10, <1>11, <1>12, <1>13, <1>14, <1>15, <1>16, <1>17, <1>18 DEF CpuRoutine

(* What ld_routine does to the processes. *)
LEMMA LoaderOwners ==
  ASSUME Controlled, LdRoutine
  PROVE  /\ ready' = ready /\ lost' = lost /\ finished' = finished /\ time' = time
         /\ UNCHANGED <<cpc, time_left, executed, ran>>
         /\ \A c \in Cpus : hand'[c] = hand[c] /\ spc'[c] = spc[c] /\ at'[c] = at[c]
         /\ hand'[Loader] = hand[Loader] \/ spc'[Loader] = "idle"
         /\ spc'[Loader] \in {"put_lock", "put"} => time >= StartTime[hand'[Loader]]
<1> USE DEF barrier, cpuVars, loaderVars, schedVars, owners
<1>1. /\ Loader \in Threads /\ hand \in [Threads -> Procs \cup {NoProc}]
      /\ spc \in [Threads -> SchedPcs] /\ at \in [Threads -> Barrier!Places]
      /\ \A c \in Cpus : c \in Threads /\ c # Loader
  BY DEF Threads, Controlled, SchedInv, ControlInv, SchedTypeOK, OSTypes, Barrier!BarrierTypeOK
<1>2. lpc # "add" => spc[Loader] = "idle"
  BY DEF Controlled, LoaderControl
<1>3. CASE LoadNext
  BY <1>1, <1>2, <1>3 DEF LoadNext, LdGoto, LoadProc
<1>4. CASE WaitForStart
  BY <1>1, <1>2, <1>4 DEF WaitForStart, LdGoto, Barrier!Arrive
<1>5. CASE AddProcess
  BY <1>1, <1>2, <1>5 DEF AddProcess, LdGoto, CallPut, Goto
<1>6. CASE ProcessAdded
  BY <1>1, <1>2, <1>6 DEF ProcessAdded, LdGoto, Returned, Barrier!Arrive
<1>7. CASE LoaderNextSlotReturns
  BY <1>1, <1>2, <1>7 DEF LoaderNextSlotReturns, LdGoto, Barrier!Return
<1>8. CASE LoaderDone
  BY <1>1, <1>2, <1>8 DEF LoaderDone, LdGoto
<1>9. CASE LoaderDetach
  BY <1>1, <1>2, <1>9 DEF LoaderDetach, LdGoto, Barrier!Depart
<1> QED
  BY <1>3, <1>4, <1>5, <1>6, <1>7, <1>8, <1>9 DEF LdRoutine

(* What a step inside sched.c, the end of a slot, or no step at all does. *)
LEMMA SchedulingOwners ==
  ASSUME Controlled, NEW t \in Threads, Scheduling(t)
  PROVE  /\ UNCHANGED <<at, time, cpc, time_left, executed, lpc, loaded, done, ran, finished, fresh>>
         /\ \A u \in Threads : u # t => hand'[u] = hand[u] /\ spc'[u] = spc[u]
         /\ \A x \in Procs : Queued(x)' => Queued(x) \/ (spc[t] = "put" /\ hand[t] = x)
         /\ \A x \in Procs : hand'[t] = x => hand[t] = x \/ (spc[t] = "take" /\ Queued(x))
         /\ hand[t] # NoProc /\ spc[t] # "put" => hand'[t] = hand[t]
         /\ spc[t] = "put" => hand'[t] = NoProc /\ spc'[t] = "idle"
         /\ spc[t] # "idle"
<1>1. SchedStep(t) /\ UNCHANGED osVars
  BY DEF Scheduling
<1> QED
  BY <1>1, SchedStepOwners, SchedStepFrame
     DEF Controlled, SchedInv, osVars, barrier, cpuVars, loaderVars

(* When the slot is over nobody works, nothing changes hands, and time moves on. *)
LEMMA NextSlotOwners ==
  ASSUME Controlled, NextSlot
  PROVE  /\ UNCHANGED <<schedVars, cpc, time_left, executed, lpc, loaded, done>>
         /\ time <= time' /\ ran' = {}
         /\ at' = [d \in Threads |-> IF at[d] = "waiting" THEN "go" ELSE at[d]]
         /\ \A d \in Threads : at[d] \in {"waiting", "out"}
BY DEF Controlled, OSTypes, NextSlot, Barrier!Open, Barrier!SlotIsOver, Barrier!BarrierTypeOK,
   cpuVars, loaderVars

(* When the program has ended nothing changes. *)
LEMMA StutterOwners ==
  ASSUME Terminated \/ UNCHANGED vars
  PROVE  UNCHANGED <<schedVars, at, time, cpc, time_left, executed, lpc, loaded, done, ran>>
BY DEF Terminated, vars, osVars, barrier, cpuVars, loaderVars

(* Each process of the configuration is loaded once, in their order. *)
LEMMA FreshKeeps ==
  ASSUME Controlled, FreshInv, [Next]_vars
  PROVE  FreshInv'
<1>1. Len(Order) \in Nat /\ loaded \in Nat /\ loaded <= Len(Order)
  BY OrderedProcs DEF Controlled, LoadedInv
<1>2. CASE UNCHANGED <<fresh, loaded, lpc>>
  BY <1>2 DEF FreshInv
<1>3. CASE LdRoutine
  <2>1. CASE LoadNext
    <3>1. fresh' = fresh \ {Order[loaded + 1]} /\ loaded' = loaded /\ lpc = "load"
      BY <2>1 DEF LoadNext, LoadProc, LdGoto
    <3> QED
      BY <1>1, <3>1 DEF FreshInv
  <2>2. CASE ProcessAdded
    <3>1. fresh' = fresh /\ loaded' = loaded + 1 /\ lpc = "add" /\ lpc' = "load_slot"
      BY <2>2 DEF ProcessAdded, LdGoto, schedVars, owners
    <3> QED
      BY <1>1, <3>1 DEF FreshInv
  <2>3. CASE WaitForStart \/ AddProcess \/ LoaderNextSlotReturns \/ LoaderDone \/ LoaderDetach
    <3>1. fresh' = fresh /\ loaded' = loaded
      BY <2>3 DEF WaitForStart, AddProcess, CallPut, LoaderNextSlotReturns, LoaderDone, LoaderDetach,
         schedVars, owners
    <3>2. lpc' \in {"wait", "wait_slot", "add"} => lpc \in {"wait", "wait_slot", "add"}
      BY <2>3 DEF WaitForStart, AddProcess, LoaderNextSlotReturns, LoaderDone, LoaderDetach, LdGoto
    <3> QED
      BY <3>1, <3>2 DEF FreshInv
  <2> QED
    BY <1>3, <2>1, <2>2, <2>3 DEF LdRoutine
<1> QED
  BY <1>2, <1>3, CpuOwners, SchedulingOwners, NextSlotOwners, StutterOwners
     DEF Next, schedVars, owners

(* A process that ran in a slot stays with its CPU until the slot is over. *)
LEMMA RanKeeps ==
  ASSUME Controlled, RanInv, [Next]_vars
  PROVE  RanInv'
<1>1. \A c \in Cpus : c \in Threads /\ c # Loader
  BY DEF Threads
<1>2. CASE NextSlot
  BY <1>2, NextSlotOwners DEF RanInv
<1>3. ASSUME NEW t \in Threads, Scheduling(t)
      PROVE  RanInv'
  <2>1. \A c \in Cpus : at[c] = "waiting" => spc[c] = "idle"
    BY DEF Controlled, CpuControl
  <2> QED
    BY <1>1, <1>3, <2>1, SchedulingOwners DEF RanInv
<1>4. ASSUME NEW c \in Cpus, CpuRoutine(c)
      PROVE  RanInv'
  <2> SUFFICES ASSUME NEW p \in ran'
               PROVE  \E d \in Cpus : hand'[d] = p /\ at'[d] = "waiting"
    BY DEF RanInv
  <2>1. CASE p \in ran
    BY <1>1, <1>4, <2>1, CpuOwners DEF RanInv
  <2>2. CASE p \notin ran
    BY <1>4, <2>2, CpuOwners
  <2> QED
    BY <2>1, <2>2
<1>5. CASE LdRoutine
  BY <1>5, LoaderOwners DEF RanInv
<1>6. CASE Terminated \/ UNCHANGED vars
  BY <1>6, StutterOwners DEF RanInv, schedVars
<1> QED
  BY <1>2, <1>3, <1>4, <1>5, <1>6 DEF Next

(* Only add_proc brings a process into a queue for the first time, and only
   at its start time. *)
LEMMA StartKeeps ==
  ASSUME Controlled, StartInv, [Next]_vars
  PROVE  StartInv'
<1>1. \A c \in Cpus : c \in Threads /\ c # Loader
  BY DEF Threads
<1>2. \A p \in Procs : StartTime[p] \in Nat
  BY TimeAssumption
<1>3. CASE NextSlot
  <2>1. UNCHANGED <<ready, hand, finished, spc>> /\ time <= time' /\ time \in Nat /\ time' \in Nat
    BY <1>3, NextSlotOwners, ControlledKeeps DEF schedVars, owners, Controlled, OSTypes, Barrier!BarrierTypeOK
  <2>2. hand[Loader] # NoProc => hand[Loader] \in Procs
    BY DEF Controlled, SchedInv, ControlInv, SchedTypeOK, Threads
  <2>3. spc[Loader] \in {"put_lock", "put"} => hand[Loader] # NoProc
    BY DEF Controlled, SchedInv, ControlInv, HandInv, Threads
  <2>4. NotBeforeStart'
    BY <1>2, <2>1 DEF StartInv, NotBeforeStart, Queued, At
  <2> QED
    BY <1>2, <2>1, <2>2, <2>3, <2>4 DEF StartInv
<1>4. ASSUME NEW t \in Threads, Scheduling(t)
      PROVE  StartInv'
  <2>1. t = Loader => spc[t] \in {"put_lock", "put"}
    BY <1>4, SchedulingOwners DEF Controlled, LoaderControl
  <2>2. t # Loader => t \in Cpus
    BY DEF Threads
  <2>3. ASSUME NEW p \in Procs, Queued(p)'
        PROVE  time' >= StartTime[p]
    BY <1>4, <2>1, <2>2, <2>3, SchedulingOwners DEF StartInv, NotBeforeStart
  <2>4. ASSUME NEW p \in Procs, NEW c \in Cpus, hand'[c] = p
        PROVE  time' >= StartTime[p]
    BY <1>1, <1>4, <2>4, SchedulingOwners DEF StartInv, NotBeforeStart
  <2>5. ASSUME NEW p \in Procs, p \in finished'
        PROVE  time' >= StartTime[p]
    BY <1>4, <2>5, SchedulingOwners DEF StartInv, NotBeforeStart
  <2>6. spc'[Loader] \in {"put_lock", "put"} => time' >= StartTime[hand'[Loader]]
    <3>1. CASE t = Loader
      <4>1. hand[t] # NoProc
        BY <2>1, <3>1 DEF Controlled, SchedInv, ControlInv, HandInv
      <4> QED
        BY <1>4, <2>1, <3>1, <4>1, SchedulingOwners DEF StartInv
    <3>2. CASE t # Loader
      BY <1>4, <3>2, SchedulingOwners DEF StartInv, Threads
    <3> QED
      BY <3>1, <3>2
  <2> QED
    BY <2>3, <2>4, <2>5, <2>6 DEF StartInv, NotBeforeStart
<1>5. ASSUME NEW c \in Cpus, CpuRoutine(c)
      PROVE  StartInv'
  <2>1. \A p \in Procs : Queued(p)' <=> Queued(p)
    BY <1>5, CpuOwners DEF Queued, At
  <2>2. ASSUME NEW p \in Procs, (\E d \in Cpus : hand'[d] = p) \/ p \in finished'
        PROVE  (\E d \in Cpus : hand[d] = p) \/ p \in finished
    BY <1>1, <1>5, <2>2, CpuOwners
  <2>3. spc'[Loader] = spc[Loader] /\ hand'[Loader] = hand[Loader] /\ time' = time
    BY <1>1, <1>5, CpuOwners DEF Threads
  <2> QED
    BY <2>1, <2>2, <2>3 DEF StartInv, NotBeforeStart
<1>6. CASE LdRoutine
  <2>1. \A p \in Procs : Queued(p)' <=> Queued(p)
    BY <1>6, LoaderOwners DEF Queued, At
  <2> QED
    BY <1>6, <2>1, LoaderOwners DEF StartInv, NotBeforeStart
<1>7. CASE Terminated \/ UNCHANGED vars
  BY <1>7, StutterOwners DEF StartInv, NotBeforeStart, Queued, At, schedVars, owners
<1> QED
  BY <1>3, <1>4, <1>5, <1>6, <1>7 DEF Next

(* A CPU frees only processes that are completed, and they stay so. *)
LEMMA RunToTheEndKeeps ==
  ASSUME Controlled, RunToTheEnd, [Next]_vars
  PROVE  RunToTheEnd'
<1>1. ASSUME NEW c \in Cpus, CpuRoutine(c)
      PROVE  RunToTheEnd'
  <2>1. \A p \in finished' : Completed(p)
    BY <1>1, CpuOwners DEF RunToTheEnd, Completed
  <2>2. \A p \in Procs : Completed(p) => executed'[p] = executed[p]
    BY <1>1, CpuOwners DEF Controlled, OSTypes
  <2>3. finished' \subseteq Procs
    <3>1. finished \subseteq Procs /\ hand[c] \in Procs \cup {NoProc}
      BY DEF Controlled, SchedInv, ControlInv, SchedTypeOK, Threads
    <3> QED
      BY <1>1, <3>1, CpuOwners
  <2> QED
    BY <2>1, <2>2, <2>3 DEF RunToTheEnd, Completed
<1>2. CASE UNCHANGED <<finished, executed>>
  BY <1>2 DEF RunToTheEnd
<1> QED
  BY <1>1, <1>2, LoaderOwners, SchedulingOwners, NextSlotOwners, StutterOwners
     DEF Next, schedVars, owners

-----------------------------------------------------------------------------
(* The quantum.                                                             *)

(* Whole quanta. *)
LEMMA MultipleIsWhole ==
  ASSUME NEW k \in Nat, NEW d \in Nat \ {0}
  PROVE  (k * d) % d = 0
OBVIOUS

(* A new quantum keeps whole quanta whole. *)
LEMMA WholePlusQuantum ==
  ASSUME NEW n \in Nat, NEW d \in Nat \ {0}, n % d = 0
  PROVE  (n + d) % d = 0
<1>1. PICK k \in Nat : n = k * d
  OBVIOUS
<1>2. n + d = (k + 1) * d /\ k + 1 \in Nat
  BY <1>1
<1>3. ((k + 1) * d) % d = 0
  BY <1>2, MultipleIsWhole
<1> QED
  BY <1>2, <1>3

(* time_left stays between 0 and the quantum, and is 0 whenever a CPU comes
   to a new process. *)
LEMMA CpuLeft ==
  ASSUME Controlled, LeftInv, TimeSlot > 0, NEW c \in Cpus, CpuRoutine(c)
  PROVE  LeftInv'
<1> USE DEF barrier, cpuVars, loaderVars, schedVars, owners
<1>1. c \in Threads /\ hand \in [Threads -> Procs \cup {NoProc}] /\ spc \in [Threads -> SchedPcs]
  BY DEF Threads, Controlled, SchedInv, ControlInv, SchedTypeOK
<1>2. cpc \in [Cpus -> CpuPcs] /\ time_left \in [Cpus -> Int] /\ TimeSlot \in Nat
  BY TimeAssumption DEF Controlled, OSTypes
<1>3. \A u \in Cpus : u # c =>
         hand'[u] = hand[u] /\ spc'[u] = spc[u] /\ cpc'[u] = cpc[u]
  BY CpuOwners DEF Threads
<1>4. /\ cpc[c] \in {"finished", "stopped"} => hand[c] = NoProc
      /\ cpc[c] = "run" => hand[c] # NoProc
      /\ cpc[c] \in {"top", "finished", "run", "slot", "stopped"} => spc[c] = "idle"
  BY DEF Controlled, CpuControl
<1>5. CASE LookForProcess(c)
  BY <1>1, <1>2, <1>3, <1>4, <1>5 DEF LookForProcess, CpuGoto, CallGet, Goto, LeftInv, InGet
<1>6. CASE FirstLoadFailed(c)
  BY <1>1, <1>2, <1>3, <1>4, <1>6 DEF FirstLoadFailed, CpuGoto, Returned, Barrier!Arrive, LeftInv, InGet
<1>7. CASE FirstLoadDone(c)
  BY <1>1, <1>2, <1>3, <1>4, <1>7 DEF FirstLoadDone, CpuGoto, Returned, LeftInv, InGet
<1>8. CASE ProcessFinished(c)
  BY <1>1, <1>2, <1>3, <1>4, <1>8 DEF ProcessFinished, CpuGoto, FreeProc, LeftInv, InGet
<1>9. CASE GetAfterFinish(c)
  BY <1>1, <1>2, <1>3, <1>4, <1>9 DEF GetAfterFinish, CpuGoto, CallGet, Goto, LeftInv, InGet
<1>10. CASE ClearQuantum(c)
  BY <1>1, <1>2, <1>3, <1>4, <1>10 DEF ClearQuantum, CpuGoto, Returned, LeftInv, InGet
<1>11. CASE QuantumOver(c)
  BY <1>1, <1>2, <1>3, <1>4, <1>11 DEF QuantumOver, CpuGoto, CallPut, Goto, LeftInv, InGet
<1>12. CASE GetNext(c)
  BY <1>1, <1>2, <1>3, <1>4, <1>12 DEF GetNext, CpuGoto, Returned, CallGet, Goto, LeftInv, InGet
<1>13. CASE KeepProcess(c)
  BY <1>1, <1>2, <1>3, <1>4, <1>13 DEF KeepProcess, CpuGoto, LeftInv, InGet
<1>14. CASE StopCpu(c)
  BY <1>1, <1>2, <1>3, <1>4, <1>14 DEF StopCpu, CpuGoto, Returned, Barrier!Depart, LeftInv, InGet
<1>15. CASE SkipSlot(c)
  BY <1>1, <1>2, <1>3, <1>4, <1>15 DEF SkipSlot, CpuGoto, Returned, Barrier!Arrive, LeftInv, InGet
<1>16. CASE Dispatch(c)
  BY <1>1, <1>2, <1>3, <1>4, <1>16 DEF Dispatch, CpuGoto, Returned, LeftInv, InGet
<1>17. CASE RunProcess(c)
  BY <1>1, <1>2, <1>3, <1>4, <1>17 DEF RunProcess, CpuGoto, Barrier!Arrive, LeftInv, InGet
<1>18. CASE Fault(c)
  BY <1>1, <1>2, <1>3, <1>4, <1>18 DEF Fault, CpuGoto, LeftInv, InGet
<1>19. CASE CpuNextSlotReturns(c)
  BY <1>1, <1>2, <1>3, <1>4, <1>19 DEF CpuNextSlotReturns, CpuGoto, Barrier!Return, LeftInv, InGet
<1> QED
  BY <1>5, <1>6, <1>7, <1>8, <1>9, <1>10, <1>11, <1>12, <1>13, <1>14, <1>15, <1>16, <1>17, <1>18, <1>19 DEF CpuRoutine

(* What a process in the hand of the CPU lacks to whole quanta. *)
LEMMA CpuLocalWhole ==
  ASSUME Controlled, LeftInv, TimeSlot > 0, NEW c \in Cpus, CpuRoutine(c),
         NEW p \in Procs, p = hand[c], Whole(p, IF Running(c) THEN time_left[c] ELSE 0)
  PROVE  /\ hand'[c] = p => Whole(p, IF Running(c) THEN time_left[c] ELSE 0)'
         /\ hand'[c] = NoProc => Whole(p, 0)'
         /\ \A u \in Cpus : u # c => time_left'[u] = time_left[u]
<1> USE DEF barrier, cpuVars, loaderVars, schedVars, owners
<1>1. /\ c \in Threads /\ hand \in [Threads -> Procs \cup {NoProc}]
      /\ cpc \in [Cpus -> CpuPcs] /\ time_left \in [Cpus -> Int] /\ executed \in [Procs -> Nat]
      /\ TimeSlot \in Nat \ {0} /\ p # NoProc
  <2>1. TimeSlot \in Nat \ {0} /\ p # NoProc
    BY TimeAssumption
  <2> QED
    BY <2>1 DEF Threads, Controlled, SchedInv, ControlInv, SchedTypeOK, OSTypes
<1>2. /\ time_left[c] \in 0..TimeSlot
      /\ cpc[c] \in {"got", "get"} => time_left[c] = 0
      /\ cpc[c] \in {"finished", "stopped"} => hand[c] = NoProc
  BY DEF LeftInv, Controlled, CpuControl
<1>3. CASE LookForProcess(c)
  BY <1>1, <1>2, <1>3 DEF LookForProcess, CpuGoto, CallGet, Goto, Running, Whole, Completed
<1>4. CASE FirstLoadFailed(c)
  BY <1>1, <1>2, <1>4 DEF FirstLoadFailed, CpuGoto, Returned, Barrier!Arrive, Running, Whole, Completed
<1>5. CASE FirstLoadDone(c)
  BY <1>1, <1>2, <1>5 DEF FirstLoadDone, CpuGoto, Returned, Running, Whole, Completed
<1>6. CASE ProcessFinished(c)
  <2>1. hand'[c] = NoProc /\ hand'[c] # hand[c]
    BY <1>1, <1>6 DEF ProcessFinished, FreeProc
  <2>2. Completed(p) /\ executed' = executed /\ time_left' = time_left
    BY <1>6 DEF ProcessFinished
  <2>3. Completed(p)'
    BY <2>2 DEF Completed
  <2> QED
    BY <2>1, <2>2, <2>3 DEF Whole
<1>7. CASE GetAfterFinish(c)
  BY <1>1, <1>2, <1>7 DEF GetAfterFinish, CpuGoto, CallGet, Goto, Running, Whole, Completed
<1>8. CASE ClearQuantum(c)
  BY <1>1, <1>2, <1>8 DEF ClearQuantum, CpuGoto, Returned, Running, Whole, Completed
<1>9. CASE QuantumOver(c)
  BY <1>1, <1>2, <1>9 DEF QuantumOver, CpuGoto, CallPut, Goto, Running, Whole, Completed
<1>10. CASE GetNext(c)
  BY <1>1, <1>2, <1>10 DEF GetNext, CpuGoto, Returned, CallGet, Goto, Running, Whole, Completed
<1>11. CASE KeepProcess(c)
  BY <1>1, <1>2, <1>11 DEF KeepProcess, CpuGoto, Running, Whole, Completed
<1>12. CASE StopCpu(c)
  BY <1>1, <1>2, <1>12 DEF StopCpu, CpuGoto, Returned, Barrier!Depart, Running, Whole, Completed
<1>13. CASE SkipSlot(c)
  BY <1>1, <1>2, <1>13 DEF SkipSlot, CpuGoto, Returned, Barrier!Arrive, Running, Whole, Completed
<1>14. CASE Dispatch(c)
  <2>1. cpc[c] = "check" /\ cpc'[c] = "run" /\ hand' = hand /\ executed' = executed
    BY <1>1, <1>14 DEF Dispatch, CpuGoto
  <2>2. time_left' = [time_left EXCEPT ![c] = IF time_left[c] = 0 THEN TimeSlot ELSE time_left[c]]
    BY <1>14 DEF Dispatch
  <2>3. Completed(p) \/ (executed[p] + time_left[c]) % TimeSlot = 0
    BY <2>1 DEF Running, Whole
  <2>4. Completed(p) \/ (executed[p] + time_left'[c]) % TimeSlot = 0
    <3>1. CASE time_left[c] = 0
      <4>1. time_left'[c] = TimeSlot
        BY <1>1, <2>2, <3>1
      <4>2. Completed(p) \/ executed[p] % TimeSlot = 0
        BY <1>1, <2>3, <3>1
      <4> QED
        BY <1>1, <4>1, <4>2, WholePlusQuantum
    <3>2. CASE time_left[c] # 0
      BY <1>1, <2>2, <2>3, <3>2
    <3> QED
      BY <3>1, <3>2
  <2> QED
    BY <1>1, <2>1, <2>2, <2>4 DEF Running, Whole, Completed
<1>15. CASE RunProcess(c)
  <2>1. cpc[c] = "run" /\ cpc'[c] = "slot" /\ hand' = hand
    BY <1>1, <1>15 DEF RunProcess, CpuGoto
  <2>2. /\ time_left' = [time_left EXCEPT ![c] = time_left[c] - 1]
        /\ executed' = [executed EXCEPT ![p] = IF Completed(p) THEN executed[p]
                                                     ELSE executed[p] + 1]
    BY <1>15 DEF RunProcess
  <2>3. Completed(p) \/ (executed[p] + time_left[c]) % TimeSlot = 0
    BY <2>1 DEF Running, Whole
  <2>4. CASE Completed(p)
    BY <1>1, <2>1, <2>2, <2>4 DEF Running, Whole, Completed
  <2>5. CASE ~Completed(p)
    <3>1. executed'[p] + time_left'[c] = executed[p] + time_left[c]
      BY <1>1, <2>2, <2>5
    <3> QED
      BY <1>1, <2>1, <2>2, <2>3, <2>5, <3>1 DEF Running, Whole
  <2> QED
    BY <2>4, <2>5
<1>16. CASE Fault(c)
  BY <1>1, <1>2, <1>16 DEF Fault, CpuGoto, Running, Whole, Completed
<1>17. CASE CpuNextSlotReturns(c)
  BY <1>1, <1>2, <1>17 DEF CpuNextSlotReturns, CpuGoto, Barrier!Return, Running, Whole, Completed
<1> QED
  BY <1>3, <1>4, <1>5, <1>6, <1>7, <1>8, <1>9, <1>10, <1>11, <1>12, <1>13, <1>14, <1>15, <1>16, <1>17 DEF CpuRoutine

(* cpu_routine keeps the account of quanta. *)
LEMMA CpuWhole ==
  ASSUME Controlled, LeftInv, WholeInv, TimeSlot > 0, NEW c \in Cpus, CpuRoutine(c)
  PROVE  WholeInv'
<1>1. /\ c \in Threads /\ \A u \in Cpus : u \in Threads
      /\ executed \in [Procs -> Nat] /\ hand \in [Threads -> Procs \cup {NoProc}]
  BY DEF Threads, Controlled, SchedInv, ControlInv, SchedTypeOK, OSTypes
<1>2. hand'[c] \in {hand[c], NoProc} /\ \A u \in Cpus : u # c => hand'[u] = hand[u] /\ cpc'[u] = cpc[u]
  BY <1>1, CpuOwners
<1>3. \A p \in Procs : p # hand[c] => executed'[p] = executed[p]
  BY <1>1, CpuOwners
<1>4. \A u \in Cpus : u # c => time_left'[u] = time_left[u]
  BY <1>1 DEF CpuRoutine, LookForProcess, FirstLoadFailed, FirstLoadDone, ProcessFinished,
     GetAfterFinish, ClearQuantum, QuantumOver, GetNext, KeepProcess, StopCpu, SkipSlot, Dispatch,
     RunProcess, Fault, CpuNextSlotReturns, Controlled, OSTypes, cpuVars
<1>5. \A u \in Cpus : u # c /\ hand[u] # NoProc => hand[u] # hand[c] /\ hand[u] \in Procs
  BY <1>1 DEF Controlled, SchedInv, PlaceInv, OnePlace
<1>6. ASSUME NEW u \in Cpus, hand'[u] # NoProc
      PROVE  Whole(hand[u], IF Running(u) THEN time_left[u] ELSE 0)'
  <2>1. CASE u = c
    <3>1. PICK p : p = hand[c]
      OBVIOUS
    <3>2. hand'[c] = p /\ p \in Procs
      BY <1>1, <1>2, <1>6, <2>1, <3>1
    <3>3. Whole(p, IF Running(c) THEN time_left[c] ELSE 0)
      BY <1>1, <3>1, <3>2 DEF WholeInv
    <3>4. Whole(p, IF Running(c) THEN time_left[c] ELSE 0)'
      BY <3>1, <3>2, <3>3, CpuLocalWhole
    <3> QED
      BY <2>1, <3>2, <3>4
  <2>2. CASE u # c
    <3>1. hand'[u] = hand[u] /\ hand[u] # hand[c] /\ hand[u] \in Procs
      BY <1>2, <1>5, <1>6, <2>2
    <3>2. executed'[hand[u]] = executed[hand[u]] /\ time_left'[u] = time_left[u] /\ cpc'[u] = cpc[u]
      BY <1>2, <1>3, <1>4, <2>2, <3>1
    <3>3. Whole(hand[u], IF Running(u) THEN time_left[u] ELSE 0)
      BY <1>6, <3>1 DEF WholeInv
    <3> QED
      BY <3>1, <3>2, <3>3 DEF Whole, Completed, Running
  <2> QED
    BY <2>1, <2>2
<1>7. ASSUME NEW p \in Procs, \A u \in Cpus : hand'[u] # p
      PROVE  Whole(p, 0)'
  <2>1. CASE hand[c] = p
    <3>1. hand'[c] = NoProc
      BY <1>2, <1>7, <2>1
    <3>2. Whole(p, IF Running(c) THEN time_left[c] ELSE 0)
      BY <2>1 DEF WholeInv
    <3> QED
      BY <2>1, <3>1, <3>2, CpuLocalWhole
  <2>2. CASE hand[c] # p
    <3>1. \A u \in Cpus : hand[u] # p
      BY <1>2, <1>7, <2>2
    <3>2. Whole(p, 0)
      BY <3>1 DEF WholeInv
    <3> QED
      BY <1>3, <2>2, <3>2 DEF Whole, Completed
  <2> QED
    BY <2>1, <2>2
<1> QED
  BY <1>6, <1>7 DEF WholeInv

(* In the scheduler a CPU gets a process with a quantum to come, and puts it
   back with none left. *)
LEMMA SchedulingQuantum ==
  ASSUME Controlled, LeftInv, WholeInv, TimeSlot > 0, NEW t \in Threads, Scheduling(t)
  PROVE  LeftInv' /\ WholeInv'
<1>1. /\ \A c \in Cpus : c \in Threads /\ c # Loader
      /\ hand \in [Threads -> Procs \cup {NoProc}] /\ hand' \in [Threads -> Procs \cup {NoProc}]
  <2>1. SchedInv'
    BY ControlledKeeps DEF Controlled, Next
  <2> QED
    BY <2>1 DEF Threads, Controlled, SchedInv, ControlInv, SchedTypeOK
<1>2. /\ UNCHANGED <<cpc, time_left, executed>>
      /\ \A u \in Threads : u # t => hand'[u] = hand[u] /\ spc'[u] = spc[u]
      /\ \A x \in Procs : hand'[t] = x => hand[t] = x \/ (spc[t] = "take" /\ Queued(x))
      /\ hand[t] # NoProc /\ spc[t] # "put" => hand'[t] = hand[t]
      /\ spc[t] = "put" => hand'[t] = NoProc /\ spc'[t] = "idle"
      /\ spc[t] # "idle"
  BY SchedulingOwners
<1>3. spc[t] \notin {"put_lock", "put"} => spc'[t] \notin {"put_lock", "put"}
  BY SchedStepFrame DEF Scheduling, Controlled
<1>4. spc[t] \in {"put_lock", "put"} => spc'[t] \in {"put", "idle"}
  BY SchedStepFrame DEF Scheduling, Controlled
<1>5. \A c \in Cpus :
        /\ cpc[c] \in {"top", "finished", "run", "slot", "stopped"} => spc[c] = "idle"
        /\ cpc[c] \in {"got", "clear", "check"} => spc[c] \notin {"put_lock", "put"}
  BY DEF Controlled, CpuControl
<1>6. LeftInv'
  <2> SUFFICES ASSUME NEW c \in Cpus
               PROVE  /\ time_left[c] \in 0..TimeSlot
                      /\ cpc[c] = "run" => time_left[c] > 0
                      /\ cpc[c] \in {"got", "get"} => time_left[c] = 0
                      /\ cpc[c] = "check" /\ InGet(c)' => time_left[c] = 0
                      /\ cpc[c] \notin {"finished", "clear"} /\ hand'[c] = NoProc => time_left[c] = 0
    BY <1>2 DEF LeftInv
  <2>1. CASE c = t
    <3>1. cpc[c] = "check" => InGet(c)
      BY <1>2, <1>5, <2>1 DEF InGet
    <3>2. cpc[c] \in {"got", "clear", "check", "get"}
      BY <1>2, <1>5, <2>1 DEF Controlled, OSTypes, CpuPcs
    <3> QED
      BY <3>1, <3>2 DEF LeftInv
  <2>2. CASE c # t
    BY <1>1, <1>2, <2>2 DEF LeftInv, InGet
  <2> QED
    BY <2>1, <2>2
<1>7. \A p \in Procs, c \in Cpus : Queued(p) => hand[c] # p
  BY <1>1 DEF Controlled, SchedInv, PlaceInv, OnePlace, Held
<1>8. ASSUME NEW c \in Cpus, hand'[c] # NoProc
      PROVE  Whole(hand[c], IF Running(c) THEN time_left[c] ELSE 0)'
  <2>1. hand'[c] \in Procs
    BY <1>1, <1>8
  <2>2. CASE hand'[c] = hand[c]
    BY <1>2, <1>8, <2>2 DEF WholeInv, Whole, Completed, Running
  <2>3. CASE hand'[c] # hand[c]
    <3>1. c = t /\ spc[t] = "take" /\ Queued(hand'[c])
      BY <1>1, <1>2, <2>1, <2>3
    <3>2. Whole(hand'[c], 0)
      BY <1>7, <2>1, <3>1 DEF WholeInv
    <3>3. Running(c) => time_left[c] = 0
      <4>1. Running(c) => cpc[c] = "check" /\ InGet(c)
        BY <1>5, <3>1 DEF Running, InGet
      <4> QED
        BY <4>1 DEF LeftInv
    <3> QED
      BY <1>2, <3>2, <3>3 DEF Whole, Completed, Running
  <2> QED
    BY <2>2, <2>3
<1>9. ASSUME NEW p \in Procs, \A c \in Cpus : hand'[c] # p
      PROVE  Whole(p, 0)'
  <2>1. CASE \A c \in Cpus : hand[c] # p
    BY <1>2, <2>1 DEF WholeInv, Whole, Completed
  <2>2. ASSUME NEW c \in Cpus, hand[c] = p
        PROVE  Whole(p, 0)'
    <3>1. c = t /\ spc[t] = "put"
      BY <1>1, <1>2, <1>9, <2>2
    <3>2. ~Running(c)
      BY <1>5, <3>1 DEF Running
    <3>3. Whole(p, 0)
      BY <2>2, <3>2 DEF WholeInv
    <3> QED
      BY <1>2, <3>3 DEF Whole, Completed
  <2> QED
    BY <2>1, <2>2
<1> QED
  BY <1>6, <1>8, <1>9 DEF WholeInv

(* The account of quanta, for all threads. *)
LEMMA QuantumKeeps ==
  ASSUME Controlled, QuantumInv, [Next]_vars
  PROVE  QuantumInv'
<1> SUFFICES ASSUME TimeSlot > 0, LeftInv, WholeInv
             PROVE  LeftInv' /\ WholeInv'
  BY DEF QuantumInv
<1>1. ASSUME UNCHANGED <<cpc, time_left, executed>>, \A c \in Cpus : hand'[c] = hand[c] /\ spc'[c] = spc[c]
      PROVE  LeftInv' /\ WholeInv'
  <2>1. LeftInv'
    BY <1>1 DEF LeftInv, InGet
  <2>2. WholeInv'
    BY <1>1 DEF WholeInv, Whole, Completed, Running
  <2> QED
    BY <2>1, <2>2
<1>2. CASE NextSlot
  BY <1>1, <1>2, NextSlotOwners DEF schedVars
<1>3. ASSUME NEW t \in Threads, Scheduling(t)
      PROVE  LeftInv' /\ WholeInv'
  BY <1>3, SchedulingQuantum
<1>4. ASSUME NEW c \in Cpus, CpuRoutine(c)
      PROVE  LeftInv' /\ WholeInv'
  BY <1>4, CpuLeft, CpuWhole
<1>5. CASE LdRoutine
  BY <1>1, <1>5, LoaderOwners
<1>6. CASE Terminated \/ UNCHANGED vars
  BY <1>1, <1>6, StutterOwners DEF schedVars
<1> QED
  BY <1>2, <1>3, <1>4, <1>5, <1>6 DEF Next

-----------------------------------------------------------------------------
(* Nothing left behind.                                                    *)

(* In cpu_routine a CPU becomes one that will stop only when all queues are
   empty. *)
LEMMA CpuDoomed ==
  ASSUME Controlled, NEW c \in Cpus, CpuRoutine(c)
  PROVE  /\ Doomed(c)' => Doomed(c) \/ AllEmpty(ready)
         /\ \A u \in Cpus : u # c => (Doomed(u)' <=> Doomed(u))
<1> USE DEF barrier, cpuVars, loaderVars, schedVars, locals
<1>1. /\ c \in Threads /\ hand \in [Threads -> Procs \cup {NoProc}] /\ spc \in [Threads -> SchedPcs]
      /\ cpc \in [Cpus -> CpuPcs]
  BY DEF Threads, Controlled, SchedInv, ControlInv, SchedTypeOK, OSTypes
<1>2. ready' = ready /\ \A u \in Cpus : u # c => hand'[u] = hand[u] /\ spc'[u] = spc[u] /\ cpc'[u] = cpc[u]
  BY CpuOwners DEF Threads
<1>3. UNCHANGED <<tmp, priority_queue>>
  BY DEF CpuRoutine, LookForProcess, FirstLoadFailed, FirstLoadDone, ProcessFinished,
     GetAfterFinish, ClearQuantum, QuantumOver, GetNext, KeepProcess, StopCpu, SkipSlot, Dispatch,
     RunProcess, Fault, CpuNextSlotReturns, CallGet, CallPut, FreeProc
<1>4. \A u \in Cpus : u # c => (Doomed(u)' <=> Doomed(u))
  BY <1>2, <1>3 DEF Doomed
<1>5. ASSUME CallGet(c), Doomed(c)', cpc'[c] # "stopped"
      PROVE  AllEmpty(ready)
  <2>1. spc'[c] = "empty" /\ tmp[c] = 0
    BY <1>1, <1>5 DEF CallGet, Goto, Controlled, SchedInv, ControlInv, TmpInv
  <2>2. \A q \in Prios : q >= 0 => ready[q] = << >>
    BY <1>2, <1>3, <1>5, <2>1 DEF Doomed
  <2> QED
    BY <2>2 DEF AllEmpty, Prios
<1>6. CASE LookForProcess(c)
  BY <1>1, <1>4, <1>5, <1>6 DEF LookForProcess, CpuGoto
<1>7. CASE FirstLoadFailed(c)
  BY <1>1, <1>2, <1>3, <1>4, <1>7 DEF FirstLoadFailed, CpuGoto, Returned, Barrier!Arrive, Doomed
<1>8. CASE FirstLoadDone(c)
  BY <1>1, <1>2, <1>3, <1>4, <1>8 DEF FirstLoadDone, CpuGoto, Returned, Doomed
<1>9. CASE ProcessFinished(c)
  BY <1>1, <1>2, <1>3, <1>4, <1>9 DEF ProcessFinished, CpuGoto, FreeProc, Doomed
<1>10. CASE GetAfterFinish(c)
  BY <1>1, <1>4, <1>5, <1>10 DEF GetAfterFinish, CpuGoto
<1>11. CASE ClearQuantum(c)
  BY <1>1, <1>2, <1>3, <1>4, <1>11 DEF ClearQuantum, CpuGoto, Returned, Doomed
<1>12. CASE QuantumOver(c)
  BY <1>1, <1>2, <1>3, <1>4, <1>12 DEF QuantumOver, CpuGoto, CallPut, Goto, Doomed
<1>13. CASE GetNext(c)
  BY <1>1, <1>4, <1>5, <1>13 DEF GetNext, CpuGoto
<1>14. CASE KeepProcess(c)
  BY <1>1, <1>2, <1>3, <1>4, <1>14 DEF KeepProcess, CpuGoto, Doomed
<1>15. CASE StopCpu(c)
  BY <1>1, <1>2, <1>3, <1>4, <1>15 DEF StopCpu, CpuGoto, Returned, Barrier!Depart, Doomed
<1>16. CASE SkipSlot(c)
  BY <1>1, <1>2, <1>3, <1>4, <1>16 DEF SkipSlot, CpuGoto, Returned, Barrier!Arrive, Doomed
<1>17. CASE Dispatch(c)
  BY <1>1, <1>2, <1>3, <1>4, <1>17 DEF Dispatch, CpuGoto, Returned, Doomed
<1>18. CASE RunProcess(c)
  BY <1>1, <1>2, <1>3, <1>4, <1>18 DEF RunProcess, CpuGoto, Barrier!Arrive, Doomed
<1>19. CASE Fault(c)
  BY <1>1, <1>2, <1>3, <1>4, <1>19 DEF Fault, CpuGoto, Doomed
<1>20. CASE CpuNextSlotReturns(c)
  BY <1>1, <1>2, <1>3, <1>4, <1>20 DEF CpuNextSlotReturns, CpuGoto, Barrier!Return, Doomed
<1> QED
  BY <1>6, <1>7, <1>8, <1>9, <1>10, <1>11, <1>12, <1>13, <1>14, <1>15, <1>16, <1>17, <1>18, <1>19, <1>20 DEF CpuRoutine

(* In the scheduler a CPU is bound to get NULL only if it was before, or if
   another CPU has just taken a process. *)
LEMMA GetStepDoomed ==
  ASSUME Controlled, NEW c \in Cpus, GetStep(c) \/ LockQueue(c), UNCHANGED <<ready, hand, cpc>>,
         Doomed(c)'
  PROVE  Doomed(c)
<1>1. /\ c \in Threads /\ spc \in [Threads -> SchedPcs] /\ tmp \in [Threads -> Nat]
      /\ priority_queue \in [Threads -> Prios]
      /\ spc[c] \in {"empty", "reset"} => tmp[c] \in Prios
  BY DEF Threads, Controlled, SchedInv, ControlInv, SchedTypeOK, TmpInv
<1>2. cpc[c] = "stopped" \/ (cpc[c] \in {"check", "clear"} /\ hand[c] = NoProc)
  BY DEF Doomed
<1> USE DEF locals
<1>3. CASE FoundEmpty(c)
  <2>1. spc[c] = "empty" /\ spc' = spc /\ tmp'[c] = tmp[c] + 1 /\ ready[tmp[c]] = << >>
    BY <1>1, <1>3 DEF FoundEmpty
  <2>2. cpc[c] = "stopped" \/ \A q \in Prios : q >= tmp[c] + 1 => ready[q] = << >>
    BY <1>2, <2>1 DEF Doomed
  <2>3. \A q \in Prios : q >= tmp[c] => q = tmp[c] \/ q >= tmp[c] + 1
    BY <1>1 DEF Prios
  <2> QED
    BY <1>2, <2>1, <2>2, <2>3 DEF Doomed
<1>4. CASE ReturnNull(c)
  <2>1. spc[c] = "empty" /\ ready[tmp[c]] = << >> /\ tmp[c] = MAX_PRIO - 1
    BY <1>4 DEF ReturnNull, Goto
  <2>2. \A q \in Prios : q >= tmp[c] => q = tmp[c]
    BY <2>1, MaxPrioAssumption DEF Prios
  <2> QED
    BY <1>2, <2>1, <2>2 DEF Doomed
<1>5. CASE FoundNonempty(c) \/ ReadQuota(c) \/ PickQueue(c) \/ LoadPrio(c) \/ StorePrio(c) \/ TestWrap(c)
           \/ ResetSlots(c) \/ Rewind(c)
  <2>1. spc[c] # "idle" /\ spc'[c] \in {"quota", "pick", "size", "store", "wrap", "reset", "rewind"}
    BY <1>1, <1>5 DEF FoundNonempty, ReadQuota, PickQueue, LoadPrio, StorePrio, TestWrap, ResetSlots,
       Rewind, Goto
  <2> QED
    BY <1>2, <2>1 DEF Doomed
<1>6. CASE TestSize(c)
  BY <1>1, <1>2, <1>6 DEF TestSize, Goto, Doomed
<1>7. CASE TestSlots(c)
  BY <1>1, <1>2, <1>7 DEF TestSlots, Goto, Doomed
<1>8. CASE TakeProc(c) \/ LoadSlots(c) \/ ChargeSlot(c)
  <2>1. CASE TakeProc(c)
    <3>1. ready[priority_queue[c]] = << >> /\ spc[c] = "take"
      <4>1. ready[priority_queue[c]] \in Seq(Procs)
        BY <1>1 DEF Controlled, SchedInv, ControlInv, SchedTypeOK
      <4>2. ready' = [ready EXCEPT ![priority_queue[c]] = Queue!Dequeued(ready[priority_queue[c]])]
        BY <2>1 DEF TakeProc
      <4>3. Queue!Dequeued(ready[priority_queue[c]]) = ready[priority_queue[c]]
        BY <1>1, <4>2 DEF Controlled, SchedInv, ControlInv, SchedTypeOK
      <4>4. ASSUME NEW s \in Seq(Procs), Queue!Dequeued(s) = s
            PROVE  s = << >>
        BY <4>4, TailOfQueue DEF Queue!Dequeued
      <4>5. ready[priority_queue[c]] = << >>
        BY <4>1, <4>3, <4>4
      <4> QED
        BY <2>1, <4>5 DEF TakeProc, Goto
    <3> QED
      BY <1>2, <3>1 DEF Doomed
  <2>2. CASE LoadSlots(c) \/ ChargeSlot(c)
    BY <1>1, <1>2, <2>2 DEF LoadSlots, ChargeSlot, Goto, Doomed
  <2> QED
    BY <1>8, <2>1, <2>2
<1>9. CASE LockQueue(c)
  BY <1>1, <1>2, <1>9 DEF LockQueue, Goto, Doomed
<1> QED
  BY <1>3, <1>4, <1>5, <1>6, <1>7, <1>8, <1>9 DEF GetStep

(* A step inside sched.c leaves somebody who looks. *)
LEMMA SchedulingWatched ==
  ASSUME Controlled, StockWatched, NEW t \in Threads, Scheduling(t)
  PROVE  StockWatched'
<1>1. SchedStep(t) /\ UNCHANGED <<cpc, lpc, at>>
  BY DEF Scheduling, osVars, barrier, cpuVars, loaderVars
<1>2. CASE t = Loader
  <2>1. lpc = "add"
    BY <1>1, <1>2, SchedStepFrame DEF Controlled, LoaderControl
  <2> QED
    BY <1>1, <2>1 DEF StockWatched, JustAdded
<1>3. CASE t \in Cpus
  <2>1. spc[t] # "idle" /\ \A u \in Threads : u # t => spc'[u] = spc[u] /\ hand'[u] = hand[u]
    BY <1>1, SchedStepFrame DEF Controlled
  <2>2. cpc[t] # "stopped"
    BY <1>3, <2>1 DEF Controlled, CpuControl
  <2>3. CASE TakeProc(t) /\ ready[priority_queue[t]] # << >>
    <3>1. PICK h \in Procs : hand' = [hand EXCEPT ![t] = h]
      BY <2>3, TakeMoves DEF Controlled, SchedInv
    <3>2. hand'[t] # NoProc
      BY <3>1 DEF Controlled, SchedInv, ControlInv, SchedTypeOK
    <3>3. ~Doomed(t)'
      BY <1>1, <2>2, <3>2 DEF Doomed
    <3> QED
      BY <1>3, <3>3 DEF StockWatched
  <2>4. CASE PutProc(t)
    <3>1. cpc[t] = "get"
      BY <1>3, <2>4 DEF PutProc, Goto, Controlled, CpuControl, OSTypes, CpuPcs
    <3>2. ~Doomed(t)'
      BY <1>1, <3>1 DEF Doomed
    <3> QED
      BY <1>3, <3>2 DEF StockWatched
  <2>5. CASE ~PutProc(t) /\ ~(TakeProc(t) /\ ready[priority_queue[t]] # << >>)
    <3>1. UNCHANGED <<ready, hand>>
      <4>1. CASE TakeProc(t)
        BY <2>5, <4>1, TakeNothing DEF Controlled, SchedInv
      <4>2. CASE ~TakeProc(t)
        BY <1>1, <2>5, <4>2 DEF SchedStep, GetStep, FoundNonempty, FoundEmpty, ReturnNull, ReadQuota,
           PickQueue, TestSize, TestSlots, LoadPrio, StorePrio, TestWrap, ResetSlots, Rewind, LockQueue,
           LoadSlots, ChargeSlot
      <4> QED
        BY <4>1, <4>2
    <3>2. GetStep(t) \/ LockQueue(t)
      BY <1>1, <2>5 DEF SchedStep
    <3>3. Doomed(t)' => Doomed(t)
      BY <1>1, <1>3, <3>1, <3>2, GetStepDoomed
    <3>4. \A u \in Threads : u # t => tmp'[u] = tmp[u] /\ priority_queue'[u] = priority_queue[u]
      BY <3>2 DEF GetStep, FoundNonempty, FoundEmpty, ReturnNull, ReadQuota,
         PickQueue, TestSize, TestSlots, LoadPrio, StorePrio, TestWrap, ResetSlots, Rewind, LockQueue,
         TakeProc, LoadSlots, ChargeSlot, locals, Controlled, SchedInv, ControlInv, SchedTypeOK
    <3>5. \A u \in Cpus : u # t => (Doomed(u)' <=> Doomed(u))
      BY <1>1, <2>1, <3>1, <3>4 DEF Doomed, Threads
    <3> QED
      BY <1>1, <3>1, <3>3, <3>5 DEF StockWatched, JustAdded, AllEmpty
  <2> QED
    BY <2>3, <2>4, <2>5
<1> QED
  BY <1>2, <1>3 DEF Threads

(* While a process is queued some CPU will still look at the queues, or the
   loader has just added it. *)
LEMMA StockKeeps ==
  ASSUME Controlled, Cpus # {}, StockWatched, [Next]_vars
  PROVE  StockWatched'
<1>1. CASE NextSlot
  <2>1. /\ UNCHANGED <<ready, hand, spc, tmp, priority_queue, cpc, lpc, done>>
        /\ \A d \in Threads : at[d] \in {"waiting", "out"}
    BY <1>1, NextSlotOwners DEF schedVars, locals
  <2>2. CASE done
    <3>1. ~JustAdded
      BY <2>2 DEF Controlled, LoaderControl, JustAdded
    <3> QED
      BY <2>1, <3>1 DEF StockWatched, AllEmpty, Doomed
  <2>3. CASE ~done
    <3>1. PICK c \in Cpus : TRUE
      OBVIOUS
    <3>2. cpc[c] = "slot"
      BY <2>1, <2>3 DEF Controlled, CpuControl, Threads
    <3>3. ~Doomed(c)'
      BY <2>1, <3>2 DEF Doomed
    <3> QED
      BY <3>3 DEF StockWatched
  <2> QED
    BY <2>2, <2>3
<1>2. ASSUME NEW t \in Threads, Scheduling(t)
      PROVE  StockWatched'
  BY <1>2, SchedulingWatched
<1>3. ASSUME NEW c \in Cpus, CpuRoutine(c)
      PROVE  StockWatched'
  <2>1. ready' = ready /\ lpc' = lpc /\ at'[Loader] = at[Loader]
    BY <1>3, CpuOwners DEF Threads
  <2> QED
    BY <1>3, <2>1, CpuDoomed DEF StockWatched, JustAdded, AllEmpty
<1>4. CASE LdRoutine
  <2>1. /\ ready' = ready /\ cpc' = cpc
        /\ \A c \in Cpus : hand'[c] = hand[c] /\ spc'[c] = spc[c]
    BY <1>4, LoaderOwners
  <2>2. UNCHANGED <<tmp, priority_queue>>
    BY <1>4 DEF LdRoutine, LoadNext, WaitForStart, AddProcess, ProcessAdded, LoaderNextSlotReturns,
       LoaderDone, LoaderDetach, LoadProc, CallPut, schedVars, locals
  <2>3. JustAdded => JustAdded'
    BY <1>4 DEF LdRoutine, LoadNext, WaitForStart, AddProcess, ProcessAdded, LoaderNextSlotReturns,
       LoaderDone, LoaderDetach, LdGoto, JustAdded, Barrier!Arrive, Barrier!Return, Barrier!Depart,
       Controlled, OSTypes, Barrier!BarrierTypeOK, Threads
  <2>4. \A c \in Cpus : Doomed(c)' <=> Doomed(c)
    BY <2>1, <2>2 DEF Doomed
  <2> QED
    BY <2>1, <2>3, <2>4 DEF StockWatched, AllEmpty
<1>5. CASE Terminated \/ UNCHANGED vars
  BY <1>5, StutterOwners DEF StockWatched, JustAdded, AllEmpty, Doomed, schedVars, locals
<1> QED
  BY <1>1, <1>2, <1>3, <1>4, <1>5 DEF Next

-----------------------------------------------------------------------------
(* The theorems.                                                           *)

OSInv == Controlled /\ FreshInv /\ RanInv /\ StartInv /\ RunToTheEnd /\ QuantumInv

(* The simulator starts with all processes to be loaded and every CPU at its first slot. *)
LEMMA InitOS == Init => OSInv
<1>1. Init => SchedInv
  BY InitControl, InitPlace DEF Init, SchedInv
<1>2. Init => LoadedInv /\ FreshInv
  BY OrderedProcs DEF Init, LoadedInv, FreshInv
<1>3. Init => OSTypes
  <2> SUFFICES ASSUME Init
               PROVE  OSTypes
    OBVIOUS
  <2>1. Barrier!BarrierTypeOK
    BY DEF Init, Barrier!Init, Barrier!BarrierTypeOK, Barrier!Places
  <2>2. cpc \in [Cpus -> CpuPcs] /\ lpc \in LoaderPcs
    BY DEF Init, CpuPcs, LoaderPcs
  <2>3. time_left \in [Cpus -> Int] /\ executed \in [Procs -> Nat]
    BY DEF Init
  <2>4. done \in BOOLEAN /\ exited \in BOOLEAN /\ ran \in SUBSET Procs
    BY DEF Init
  <2> QED
    BY <2>1, <2>2, <2>3, <2>4 DEF OSTypes
<1>4. Init => CpuControl /\ LoaderControl
  BY DEF Init, SchedInit, Barrier!Init, CpuControl, LoaderControl, Threads
<1>5. Init => RanInv /\ RunToTheEnd
  BY DEF Init, SchedInit, RanInv, RunToTheEnd
<1>6. Init => StartInv
  BY DEF Init, SchedInit, StartInv, NotBeforeStart, Queued, Threads
<1>7. Init => QuantumInv
  <2> SUFFICES ASSUME Init, TimeSlot > 0
               PROVE  LeftInv /\ WholeInv
    BY DEF QuantumInv
  <2>1. TimeSlot \in Nat \ {0}
    BY TimeAssumption
  <2>2. LeftInv
    BY <2>1 DEF Init, SchedInit, LeftInv, InGet, Threads
  <2>3. WholeInv
    BY <2>1 DEF Init, SchedInit, WholeInv, Whole, Threads
  <2> QED
    BY <2>2, <2>3
<1> QED
  BY <1>1, <1>2, <1>3, <1>4, <1>5, <1>6, <1>7 DEF OSInv, Controlled

(* The inductive invariant of the simulator. *)
THEOREM OSCorrect == Safety => []OSInv
<1>1. Init => OSInv
  BY InitOS
<1>2. OSInv /\ [Next]_vars => OSInv'
  BY ControlledKeeps, FreshKeeps, RanKeeps, StartKeeps, RunToTheEndKeeps, QuantumKeeps DEF OSInv
<1> QED
  BY <1>1, <1>2, PTL DEF Safety

(* The variables of os.c keep their types; time_left stays between 0 and the
   quantum. *)
THEOREM OSTypeCorrect == Safety => []OSTypeOK
<1>1. OSInv => OSTypeOK
  BY DEF OSInv, Controlled, SchedInv, ControlInv, LoadedInv, OSTypes, QuantumInv, LeftInv, OSTypeOK
<1> QED
  BY <1>1, OSCorrect, PTL

(* cpu_routine frees a process only when all its instructions are executed. *)
THEOREM FreedAtTheEnd == Safety => []RunToTheEnd
<1>1. OSInv => RunToTheEnd
  BY DEF OSInv
<1> QED
  BY <1>1, OSCorrect, PTL

(* No process is queued, run or freed before its start time. *)
THEOREM StartedOnTime == Safety => []NotBeforeStart
<1>1. OSInv => NotBeforeStart
  BY DEF OSInv, StartInv
<1> QED
  BY <1>1, OSCorrect, PTL

(* No process executes two instructions in one slot, on whatever CPUs. *)
THEOREM OneInstruction == Safety => OneInstructionPerSlot
<1>1. OSInv /\ [Next]_vars => \A p \in Procs : executed'[p] # executed[p] => p \notin ran
  <2> SUFFICES ASSUME OSInv, [Next]_vars, NEW p \in Procs, executed'[p] # executed[p], p \in ran
               PROVE  FALSE
    OBVIOUS
  <2> USE DEF OSInv
  <2>1. PICK c \in Cpus : CpuRoutine(c)
    BY NextSlotOwners, SchedulingOwners, LoaderOwners, StutterOwners DEF Next
  <2>2. hand[c] = p /\ cpc[c] = "run"
    BY <2>1, CpuOwners DEF Controlled, OSTypes
  <2>3. PICK d \in Cpus : hand[d] = p /\ at[d] = "waiting"
    BY DEF RanInv
  <2>4. d = c
    <3>1. p # NoProc /\ c \in Threads /\ d \in Threads
      BY DEF Threads
    <3> QED
      BY <2>2, <2>3, <3>1 DEF Controlled, SchedInv, PlaceInv, OnePlace
  <2> QED
    BY <2>2, <2>3, <2>4 DEF Controlled, CpuControl
<1>2. OSInv /\ [Next]_vars => [\A p \in Procs : executed'[p] # executed[p] => p \notin ran]_vars
  BY <1>1
<1> QED
  BY <1>2, OSCorrect, PTL DEF Safety, OneInstructionPerSlot

(* A process is put back for its time only after whole quanta. *)
THEOREM WholeQuanta == Safety => FullQuantum
<1>1. OSInv /\ [Next]_vars =>
        \A c \in Cpus : TimeSlot > 0 /\ cpc[c] = "top" /\ cpc'[c] = "get"
                            => executed[hand[c]] % TimeSlot = 0
  <2> SUFFICES ASSUME OSInv, [Next]_vars, NEW c \in Cpus, TimeSlot > 0, cpc[c] = "top", cpc'[c] = "get"
               PROVE  executed[hand[c]] % TimeSlot = 0
    OBVIOUS
  <2> USE DEF OSInv
  <2>1. CpuRoutine(c)
    <3>1. ASSUME NEW d \in Cpus, d # c, CpuRoutine(d)
          PROVE  FALSE
      BY <3>1, CpuOwners DEF Threads
    <3> QED
      BY <3>1, NextSlotOwners, SchedulingOwners, LoaderOwners, StutterOwners DEF Next
  <2>2. QuantumOver(c)
    BY <2>1 DEF CpuRoutine, LookForProcess, FirstLoadFailed, FirstLoadDone, ProcessFinished,
       GetAfterFinish, ClearQuantum, GetNext, KeepProcess, StopCpu, SkipSlot, Dispatch, RunProcess,
       Fault, CpuNextSlotReturns, CpuGoto, cpuVars, Controlled, OSTypes
  <2>3. hand[c] # NoProc /\ ~Completed(hand[c]) /\ time_left[c] = 0
    BY <2>2 DEF QuantumOver
  <2>4. Whole(hand[c], 0)
    BY <2>3 DEF QuantumInv, WholeInv, Running
  <2>5. executed[hand[c]] \in Nat
    BY <2>3 DEF Controlled, OSTypes, SchedInv, ControlInv, SchedTypeOK, Threads
  <2> QED
    BY <2>3, <2>4, <2>5 DEF Whole
<1>2. OSInv /\ [Next]_vars =>
        [\A c \in Cpus : TimeSlot > 0 /\ cpc[c] = "top" /\ cpc'[c] = "get"
                             => executed[hand[c]] % TimeSlot = 0]_vars
  BY <1>1
<1> QED
  BY <1>2, OSCorrect, PTL DEF Safety, FullQuantum

(* When the last CPU stops, every process was freed, or dropped by a full
   queue: no CPU can miss a process that another one puts back. *)
THEOREM NoWorkLeft ==
  ASSUME Cpus # {}
  PROVE  Safety => []NothingLeftBehind
<1>1. Init => StockWatched
  BY DEF Init, SchedInit, StockWatched, AllEmpty
<1>2. OSInv /\ StockWatched /\ [Next]_vars => StockWatched'
  BY StockKeeps DEF OSInv
<1>3. OSInv /\ StockWatched => NothingLeftBehind
  <2> SUFFICES ASSUME OSInv, StockWatched, \A c \in Cpus : cpc[c] = "stopped", NEW p \in Procs
               PROVE  p \in finished \cup lost
    BY DEF NothingLeftBehind
  <2> USE DEF OSInv, Controlled
  <2>1. done /\ \A c \in Cpus : hand[c] = NoProc /\ Doomed(c)
    BY DEF CpuControl, Doomed
  <2>2. ~JustAdded /\ hand[Loader] = NoProc /\ loaded = Len(Order)
    BY <2>1 DEF LoaderControl, JustAdded
  <2>3. ~Queued(p)
    BY <2>1, <2>2 DEF StockWatched, AllEmpty, Queued
  <2>4. ~Held(p)
    BY <2>1, <2>2 DEF Held, Threads
  <2>5. p \notin fresh
    <3>1. PICK i \in 1..Len(Order) : Order[i] = p
      BY OrderAssumption
    <3> QED
      BY <2>2, <3>1, OrderedProcs DEF FreshInv
  <2> QED
    BY <2>3, <2>4, <2>5 DEF SchedInv, PlaceInv, NoneForgotten
<1> QED
  BY <1>1, <1>2, <1>3, OSCorrect, PTL DEF Safety

(* What the scheduler promises its callers, for the threads of os.c. *)
THEOREM OSKeepsSched == Safety => [](OnePlace /\ QueuesWellFormed /\ NoneForgotten)
<1>1. SchedInv => OnePlace /\ QueuesWellFormed /\ NoneForgotten
  BY DEF SchedInv, PlaceInv
<1> QED
  BY <1>1, SchedCorrect, OSImplementsSched, PTL

(* The CPUs and the loader lose processes of a valid priority only in excess of
   what a queue holds. *)
THEOREM OSLosesExcessOnly ==
  ASSUME IsFiniteSet(Procs)
  PROVE  Safety => []OnlyExcessLost
BY OnlyExcessIsLost, OSImplementsSched, PTL

=============================================================================
