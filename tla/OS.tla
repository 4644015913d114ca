--------------------------------- MODULE OS ---------------------------------
(***************************************************************************)
(* The simulator of src/src/os.c: CPU threads (cpu_routine) and the loader *)
(* thread (ld_routine) that share the scheduler of Sched.tla and move      *)
(* through simulated time together, slot by slot, as SlotBarrier.tla says  *)
(* (Timer.tla shows that timer.c implements it).                           *)
(*                                                                         *)
(* A call into sched.c takes many steps, those of Sched; the caller goes   *)
(* on when its spc is "idle" again.  Instructions are "calc", which always *)
(* succeeds, or "mem", which uses the paging memory and may fault: run()   *)
(* then ends the whole program with exit(0).                               *)
(***************************************************************************)
EXTENDS Sched

CONSTANTS
    Order,                \* the processes in the order of the configuration
    StartTime,            \* when the loader adds each of them
    Code,                 \* the instructions of each process
    TimeSlot,             \* time_slot, the quantum
    MaxTime               \* bound: time counts up to the last start time only

ASSUME OrderAssumption ==
    /\ Order \in Seq(Procs)
    /\ \A p \in Procs : \E i \in 1..Len(Order) : Order[i] = p
    /\ \A i, j \in 1..Len(Order) : Order[i] = Order[j] => i = j
ASSUME CodeAssumption == Code \in [Procs -> Seq({"calc", "mem"})]
ASSUME TimeAssumption ==
    /\ TimeSlot \in Nat
    /\ MaxTime \in Nat
    /\ StartTime \in [Procs -> 0..MaxTime]

VARIABLES
    at, time,             \* the slot barrier
    cpc,                  \* where each CPU is in cpu_routine
    time_left,            \* the local of cpu_routine
    executed,             \* proc->pc, the instructions executed
    lpc,                  \* where the loader is in ld_routine
    loaded,               \* i of ld_routine
    done,                 \* the loader has no more processes
    exited,               \* exit(0) was called
    ran                   \* history: the processes run in the current slot

barrier == <<at, time>>
cpuVars == <<cpc, time_left, executed>>
loaderVars == <<lpc, loaded, done>>
osVars == <<barrier, cpuVars, loaderVars, exited, ran>>
vars == <<schedVars, osVars>>

Barrier == INSTANCE SlotBarrier WITH Devices <- Threads

Init ==
    /\ SchedInit
    /\ Barrier!Init
    /\ cpc = [c \in Cpus |-> "top"]
    /\ time_left = [c \in Cpus |-> 0]
    /\ executed = [p \in Procs |-> 0]
    /\ lpc = "load"
    /\ loaded = 0
    /\ done = FALSE
    /\ exited = FALSE
    /\ ran = {}

\* A slot ends for everybody.  (When all devices have detached the timer
\* counts once more and ends: nobody is left to see it.)
NextSlot ==
    /\ ~exited
    /\ Barrier!SomeoneWaits
    /\ Barrier!Open
    /\ time' = IF time < MaxTime THEN time + 1 ELSE time
    /\ ran' = {}
    /\ UNCHANGED <<schedVars, cpuVars, loaderVars, exited>>

\* A step inside sched.c.
Scheduling(t) == ~exited /\ SchedStep(t) /\ UNCHANGED osVars

-----------------------------------------------------------------------------
(* cpu_routine                                                             *)

CpuGoto(c, from, to) ==
    /\ ~exited
    /\ cpc[c] = from
    /\ cpc' = [cpc EXCEPT ![c] = to]

\* The call into sched.c has returned.
Returned(t) == spc[t] = "idle"

\* Fault: the last instruction is not executed.
CompletedEarly(p) == executed[p] >= Len(Code[p]) - 1

Completed(p) == executed[p] = Len(Code[p])

\* proc == NULL: get_proc.
LookForProcess(c) ==
    /\ CpuGoto(c, "top", "got")
    /\ CallGet(c)
    /\ UNCHANGED <<barrier, time_left, executed, loaderVars, exited, ran>>

\* The first load failed: next_slot and continue, whatever done says.
FirstLoadFailed(c) ==
    /\ Returned(c)
    /\ hand[c] = NoProc
    /\ CpuGoto(c, "got", "slot")
    /\ Barrier!Arrive(c)
    /\ UNCHANGED <<schedVars, time, time_left, executed, loaderVars, exited, ran>>

FirstLoadDone(c) ==
    /\ Returned(c)
    /\ hand[c] # NoProc
    /\ CpuGoto(c, "got", "check")
    /\ UNCHANGED <<schedVars, barrier, time_left, executed, loaderVars, exited, ran>>

\* proc->pc == proc->code->size: free it, get_proc, and only then time_left = 0.
ProcessFinished(c) ==
    /\ CpuGoto(c, "top", "finished")
    /\ hand[c] # NoProc
    /\ Completed(hand[c])
    /\ FreeProc(c)
    /\ UNCHANGED <<barrier, time_left, executed, loaderVars, exited, ran>>

GetAfterFinish(c) ==
    /\ CpuGoto(c, "finished", "clear")
    /\ CallGet(c)
    /\ UNCHANGED <<barrier, time_left, executed, loaderVars, exited, ran>>

\* Fault: time_left keeps what the finished process left of its quantum.
ClearNothing(c) ==
    /\ Returned(c)
    /\ CpuGoto(c, "clear", "check")
    /\ UNCHANGED <<schedVars, barrier, time_left, executed, loaderVars, exited, ran>>

ClearQuantum(c) ==
    /\ Returned(c)
    /\ CpuGoto(c, "clear", "check")
    /\ time_left' = [time_left EXCEPT ![c] = 0]
    /\ UNCHANGED <<schedVars, barrier, executed, loaderVars, exited, ran>>

\* time_left == 0: put_proc, then get_proc.
QuantumOver(c) ==
    /\ CpuGoto(c, "top", "get")
    /\ hand[c] # NoProc
    /\ ~Completed(hand[c])
    /\ time_left[c] = 0
    /\ CallPut(c)
    /\ UNCHANGED <<barrier, time_left, executed, loaderVars, exited, ran>>

GetNext(c) ==
    /\ Returned(c)
    /\ CpuGoto(c, "get", "check")
    /\ CallGet(c)
    /\ UNCHANGED <<barrier, time_left, executed, loaderVars, exited, ran>>

KeepProcess(c) ==
    /\ CpuGoto(c, "top", "check")
    /\ hand[c] # NoProc
    /\ ~Completed(hand[c])
    /\ time_left[c] # 0
    /\ UNCHANGED <<schedVars, barrier, time_left, executed, loaderVars, exited, ran>>

\* Fault: a CPU without a process stops, whether the loader is done or not.
StopCpuEager(c) ==
    /\ Returned(c)
    /\ hand[c] = NoProc
    /\ CpuGoto(c, "check", "stopped")
    /\ Barrier!Depart(c)
    /\ UNCHANGED <<schedVars, time, time_left, executed, loaderVars, exited, ran>>

\* proc == NULL && done: the CPU leaves the loop and detaches.
StopCpu(c) ==
    /\ Returned(c)
    /\ hand[c] = NoProc
    /\ done
    /\ CpuGoto(c, "check", "stopped")
    /\ Barrier!Depart(c)
    /\ UNCHANGED <<schedVars, time, time_left, executed, loaderVars, exited, ran>>

\* proc == NULL, but the loader is not done: skip the slot.
SkipSlot(c) ==
    /\ Returned(c)
    /\ hand[c] = NoProc
    /\ ~done
    /\ CpuGoto(c, "check", "slot")
    /\ Barrier!Arrive(c)
    /\ UNCHANGED <<schedVars, time, time_left, executed, loaderVars, exited, ran>>

\* A process to run: a reloaded one gets a new quantum.
Dispatch(c) ==
    /\ Returned(c)
    /\ hand[c] # NoProc
    /\ CpuGoto(c, "check", "run")
    /\ time_left' = [time_left EXCEPT ![c] = IF time_left[c] = 0 THEN TimeSlot ELSE time_left[c]]
    /\ UNCHANGED <<schedVars, barrier, executed, loaderVars, exited, ran>>

\* Fault: the CPU goes on without next_slot().
RunProcessOn(c) ==
    /\ CpuGoto(c, "run", "top")
    /\ LET p == hand[c] IN
        /\ executed' = [executed EXCEPT ![p] = IF Completed(p) THEN executed[p] ELSE executed[p] + 1]
        /\ ran' = ran \cup {p}
    /\ time_left' = [time_left EXCEPT ![c] = time_left[c] - 1]
    /\ UNCHANGED <<schedVars, barrier, loaderVars, exited>>

\* run(proc) executes one instruction if there is one; then time_left-- and
\* next_slot.
RunProcess(c) ==
    /\ CpuGoto(c, "run", "slot")
    /\ LET p == hand[c] IN
        /\ executed' = [executed EXCEPT ![p] = IF Completed(p) THEN executed[p] ELSE executed[p] + 1]
        /\ ran' = ran \cup {p}
    /\ time_left' = [time_left EXCEPT ![c] = time_left[c] - 1]
    /\ Barrier!Arrive(c)
    /\ UNCHANGED <<schedVars, time, loaderVars, exited>>

\* The instruction returned -1: exit(0) ends every thread.
Fault(c) ==
    /\ ~exited
    /\ cpc[c] = "run"
    /\ ~Completed(hand[c])
    /\ Code[hand[c]][executed[hand[c]] + 1] = "mem"
    /\ exited' = TRUE
    /\ UNCHANGED <<schedVars, barrier, cpuVars, loaderVars, ran>>

CpuNextSlotReturns(c) ==
    /\ CpuGoto(c, "slot", "top")
    /\ Barrier!Return(c)
    /\ UNCHANGED <<schedVars, time, time_left, executed, loaderVars, exited, ran>>

-----------------------------------------------------------------------------
(* ld_routine                                                              *)

LdGoto(from, to) == ~exited /\ lpc = from /\ lpc' = to

\* load(path[i]), and the priority of the configuration.
LoadNext ==
    /\ LdGoto("load", "wait")
    /\ loaded < Len(Order)
    /\ LoadProc(Order[loaded + 1])
    /\ UNCHANGED <<barrier, cpuVars, loaded, done, exited, ran>>

\* current_time() < start_time[i]: next_slot, and look again.
WaitForStart ==
    /\ LdGoto("wait", "wait_slot")
    /\ time < StartTime[hand[Loader]]
    /\ Barrier!Arrive(Loader)
    /\ UNCHANGED <<schedVars, time, cpuVars, loaded, done, exited, ran>>

\* Fault: the process is added without looking at the time.
AddProcessAtOnce ==
    /\ LdGoto("wait", "add")
    /\ CallPut(Loader)
    /\ UNCHANGED <<barrier, cpuVars, loaded, done, exited, ran>>

AddProcess ==
    /\ LdGoto("wait", "add")
    /\ time >= StartTime[hand[Loader]]
    /\ CallPut(Loader)
    /\ UNCHANGED <<barrier, cpuVars, loaded, done, exited, ran>>

\* add_proc has returned: i++, next_slot.
ProcessAdded ==
    /\ LdGoto("add", "load_slot")
    /\ Returned(Loader)
    /\ loaded' = loaded + 1
    /\ Barrier!Arrive(Loader)
    /\ UNCHANGED <<schedVars, time, cpuVars, done, exited, ran>>

LoaderNextSlotReturns ==
    /\ LdGoto("wait_slot", "wait") \/ LdGoto("load_slot", "load")
    /\ Barrier!Return(Loader)
    /\ UNCHANGED <<schedVars, time, cpuVars, loaded, done, exited, ran>>

\* Fault: done stays 0.
LoaderForgetsDone ==
    /\ LdGoto("load", "detach")
    /\ loaded = Len(Order)
    /\ UNCHANGED <<schedVars, barrier, cpuVars, loaded, done, exited, ran>>

\* done = 1 comes before detach_event.
LoaderDone ==
    /\ LdGoto("load", "detach")
    /\ loaded = Len(Order)
    /\ done' = TRUE
    /\ UNCHANGED <<schedVars, barrier, cpuVars, loaded, exited, ran>>

LoaderDetach ==
    /\ LdGoto("detach", "end")
    /\ Barrier!Depart(Loader)
    /\ UNCHANGED <<schedVars, time, cpuVars, loaded, done, exited, ran>>

-----------------------------------------------------------------------------
CpuRoutine(c) ==
    \/ LookForProcess(c)
    \/ FirstLoadFailed(c)
    \/ FirstLoadDone(c)
    \/ ProcessFinished(c)
    \/ GetAfterFinish(c)
    \/ ClearQuantum(c)
    \/ QuantumOver(c)
    \/ GetNext(c)
    \/ KeepProcess(c)
    \/ StopCpu(c)
    \/ SkipSlot(c)
    \/ Dispatch(c)
    \/ RunProcess(c)
    \/ Fault(c)
    \/ CpuNextSlotReturns(c)

LdRoutine ==
    \/ LoadNext
    \/ WaitForStart
    \/ AddProcess
    \/ ProcessAdded
    \/ LoaderNextSlotReturns
    \/ LoaderDone
    \/ LoaderDetach

AllOut == \A t \in Threads : at[t] = "out"

\* main has joined every thread, or exit(0) was called.
Terminated == (AllOut \/ exited) /\ UNCHANGED vars

Next ==
    \/ NextSlot
    \/ \E t \in Threads : Scheduling(t)
    \/ \E c \in Cpus : CpuRoutine(c)
    \/ LdRoutine
    \/ Terminated

\* Every thread that can run is scheduled, and a thread that asks for
\* queue_lock again and again gets it.
Fairness ==
    /\ WF_vars(NextSlot)
    /\ \A t \in Threads :
        /\ WF_vars(Scheduling(t))
        /\ SF_vars(~exited /\ LockQueue(t) /\ UNCHANGED osVars)
    /\ \A c \in Cpus : WF_vars(CpuRoutine(c))
    /\ WF_vars(LdRoutine)

Safety == Init /\ [][Next]_vars
Spec == Safety /\ Fairness

-----------------------------------------------------------------------------
(* Properties.                                                             *)

CpuPcs == {"top", "got", "finished", "clear", "get", "check", "run", "slot", "stopped"}
LoaderPcs == {"load", "wait", "wait_slot", "add", "load_slot", "detach", "end"}

\* Variables of os.c keep their types; time_left goes below zero only when
\* the configured quantum is zero.
OSTypeOK ==
    /\ SchedTypeOK
    /\ Barrier!BarrierTypeOK
    /\ cpc \in [Cpus -> CpuPcs]
    /\ time_left \in [Cpus -> Int]
    /\ TimeSlot > 0 => \A c \in Cpus : time_left[c] \in 0..TimeSlot
    /\ executed \in [Procs -> Nat]
    /\ lpc \in LoaderPcs
    /\ loaded \in 0..Len(Order)
    /\ done \in BOOLEAN
    /\ exited \in BOOLEAN
    /\ ran \in SUBSET Procs

\* No process executes two instructions in one slot, although it may change
\* the CPU inside a slot through the queues.
OneInstructionPerSlot ==
    [][\A p \in Procs : executed'[p] # executed[p] => p \notin ran]_vars

\* "time_left" is the quantum of the process a CPU holds: whatever CPUs it was
\* on before, and whatever they ran, a process that is put back for its time
\* has used whole quanta, all but the last one without being preempted.
FullQuantum ==
    [][\A c \in Cpus : TimeSlot > 0 /\ cpc[c] = "top" /\ cpc'[c] = "get"
                          => executed[hand[c]] % TimeSlot = 0]_vars

\* A process is freed only when all its instructions are executed.
RunToTheEnd == \A p \in finished : executed[p] = Len(Code[p])

\* A process can be run only from its start time on.
NotBeforeStart == \A p \in Procs :
    Queued(p) \/ (\E c \in Cpus : hand[c] = p) \/ p \in finished => time >= StartTime[p]

\* When every CPU has stopped, nothing runnable is left behind: the last CPU
\* to leave cannot have missed a process another one put back.
NothingLeftBehind ==
    (\A c \in Cpus : cpc[c] = "stopped") => \A p \in Procs : p \in finished \cup lost

\* "Wait for CPU and loader finishing": the program ends.
Termination == <>(AllOut \/ exited)

\* Every process of the configuration runs to its end.
AllFinish == \A p \in Procs : <>(p \in finished \/ exited)

\* "If all queues are empty, return NULL": get_proc always comes back, also
\* when the queues are and stay empty.
GetReturns == \A c \in Cpus : InGet(c) ~> ~InGet(c) \/ exited

=============================================================================
