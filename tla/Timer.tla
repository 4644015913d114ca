------------------------------- MODULE Timer -------------------------------
(***************************************************************************)
(* src/src/timer.c step by step: the timer thread (timer_routine), the     *)
(* device threads inside next_slot() and detach_event(), and the main      *)
(* thread, which attaches the devices, starts the timer, creates the       *)
(* device threads, joins them and stops the timer (src/src/os.c, main).    *)
(*                                                                         *)
(* One action is one critical operation: taking a mutex, testing the       *)
(* condition of a wait loop, falling asleep (pthread_cond_wait releases    *)
(* the mutex and sleeps in one step), or a store with the signal and the   *)
(* unlock that follow it while the mutex is still held.                    *)
(***************************************************************************)
EXTENDS Naturals, Sequences, FiniteSets

CONSTANTS
    Devices,              \* the CPU threads and the loader thread
    MaxSlot,              \* bound: a device calls next_slot at most so often
    Free                  \* the value of a mutex nobody holds

ASSUME DevicesAssumption == IsFiniteSet(Devices) /\ Devices # {}
ASSUME MaxSlotAssumption == MaxSlot \in Nat
ASSUME FreeAssumption == Free \notin {"timer", "device"}

VARIABLES
    dev_list,             \* the attached devices, in list order
    done, fsh,            \* the two flags of each timer_id_t
    event_lock,           \* owner of each device's event mutex
    timer_lock,           \* owner of each device's timer mutex
    time,                 \* _time
    timer_started,
    timer_stop,
    mpc,                  \* where the main thread is
    tpc,                  \* where the timer thread is
    cur,                  \* position of temp in dev_list
    nfsh, nevent,         \* fsh and event, the locals of timer_routine
    pc,                   \* where each device thread is
    slot                  \* history: next_slot() calls that returned, per device

timerVars == <<time, tpc, cur, nfsh, nevent>>
mainVars  == <<dev_list, timer_started, timer_stop, mpc>>
flags     == <<done, fsh>>
locks     == <<event_lock, timer_lock>>
vars == <<timerVars, mainVars, flags, locks, pc, slot>>

Range(s) == {s[i] : i \in 1..Len(s)}

Init ==
    /\ dev_list = << >>
    /\ done = [d \in Devices |-> FALSE]
    /\ fsh = [d \in Devices |-> FALSE]
    /\ event_lock = [d \in Devices |-> Free]
    /\ timer_lock = [d \in Devices |-> Free]
    /\ time = 0
    /\ timer_started = FALSE
    /\ timer_stop = FALSE
    /\ mpc = "attach"
    /\ tpc = "none"
    /\ cur = 1
    /\ nfsh = 0
    /\ nevent = 0
    /\ pc = [d \in Devices |-> "unborn"]
    /\ slot = [d \in Devices |-> 0]

-----------------------------------------------------------------------------
(* The main thread.                                                        *)

\* attach_event(): allowed before start_timer only; prepends the container.
attach_event(d) ==
    /\ mpc = "attach"
    /\ ~timer_started
    /\ d \notin Range(dev_list)
    /\ dev_list' = <<d>> \o dev_list
    /\ UNCHANGED <<timerVars, timer_started, timer_stop, mpc, flags, locks, pc, slot>>

start_timer ==
    /\ mpc = "attach"
    /\ Range(dev_list) = Devices
    /\ timer_started' = TRUE
    /\ tpc' = "loop"
    /\ mpc' = "create"
    /\ UNCHANGED <<dev_list, timer_stop, time, cur, nfsh, nevent, flags, locks, pc, slot>>

\* pthread_create of the loader and of the CPUs: the timer already runs.
CreateDevice(d) ==
    /\ mpc = "create"
    /\ pc[d] = "unborn"
    /\ pc' = [pc EXCEPT ![d] = "working"]
    /\ UNCHANGED <<timerVars, mainVars, flags, locks, slot>>

\* stop_timer(), after every device thread was joined.
stop_timer ==
    /\ mpc = "create"
    /\ \A d \in Devices : pc[d] = "gone"
    /\ timer_stop' = TRUE
    /\ mpc' = "join"
    /\ UNCHANGED <<timerVars, dev_list, timer_started, flags, locks, pc, slot>>

\* pthread_join of the timer, then the containers are freed.
FreeDevices ==
    /\ mpc = "join"
    /\ tpc = "exit"
    /\ dev_list' = << >>
    /\ mpc' = "end"
    /\ UNCHANGED <<timerVars, timer_started, timer_stop, flags, locks, pc, slot>>

-----------------------------------------------------------------------------
(* The timer thread.                                                       *)

\* Fault: the count of finished devices is not reset.
TimerLoopKeepsCount ==
    /\ tpc = "loop"
    /\ IF timer_stop
       THEN tpc' = "exit" /\ UNCHANGED <<cur, nevent>>
       ELSE tpc' = "ev_lock" /\ cur' = 1 /\ nevent' = 0
    /\ UNCHANGED <<time, nfsh, mainVars, flags, locks, pc, slot>>

\* The head of the while loop: the two counters start from zero.
TimerLoop ==
    /\ tpc = "loop"
    /\ IF timer_stop
       THEN /\ tpc' = "exit"
            /\ UNCHANGED <<cur, nfsh, nevent>>
       ELSE /\ tpc' = "ev_lock"
            /\ cur' = 1
            /\ nfsh' = 0
            /\ nevent' = 0
    /\ UNCHANGED <<time, mainVars, flags, locks, pc, slot>>

\* pthread_mutex_lock(&temp->id.event_lock), first or when woken up.
TimerLockEvent ==
    /\ tpc = "ev_lock"
    /\ event_lock[dev_list[cur]] = Free
    /\ event_lock' = [event_lock EXCEPT ![dev_list[cur]] = "timer"]
    /\ tpc' = "ev_test"
    /\ UNCHANGED <<time, cur, nfsh, nevent, mainVars, flags, timer_lock, pc, slot>>

\* The condition of the wait loop: the device did not report yet.
NotReported(d) == ~done[d] /\ ~fsh[d]

TimerMustWait ==
    /\ tpc = "ev_test"
    /\ NotReported(dev_list[cur])
    /\ tpc' = "ev_sleep"
    /\ UNCHANGED <<time, cur, nfsh, nevent, mainVars, flags, locks, pc, slot>>

TimerSleep ==
    /\ tpc = "ev_sleep"
    /\ event_lock' = [event_lock EXCEPT ![dev_list[cur]] = Free]
    /\ tpc' = "ev_wait"
    /\ UNCHANGED <<time, cur, nfsh, nevent, mainVars, flags, timer_lock, pc, slot>>

\* pthread_cond_wait may return without a signal.
TimerSpuriousWakeup ==
    /\ tpc = "ev_wait"
    /\ tpc' = "ev_lock"
    /\ UNCHANGED <<time, cur, nfsh, nevent, mainVars, flags, locks, pc, slot>>

\* Fault: a device that called next_slot() counts as finished.
TimerCountDone ==
    /\ tpc = "ev_test"
    /\ ~NotReported(dev_list[cur])
    /\ nfsh' = IF done[dev_list[cur]] THEN nfsh + 1 ELSE nfsh
    /\ nevent' = nevent + 1
    /\ event_lock' = [event_lock EXCEPT ![dev_list[cur]] = Free]
    /\ IF cur = Len(dev_list)
       THEN tpc' = "tick" /\ cur' = 1
       ELSE tpc' = "ev_lock" /\ cur' = cur + 1
    /\ UNCHANGED <<time, mainVars, flags, timer_lock, pc, slot>>

\* The device reported: count it, unlock, go on with the next container.
TimerCount ==
    /\ tpc = "ev_test"
    /\ ~NotReported(dev_list[cur])
    /\ nfsh' = IF fsh[dev_list[cur]] THEN nfsh + 1 ELSE nfsh
    /\ nevent' = nevent + 1
    /\ event_lock' = [event_lock EXCEPT ![dev_list[cur]] = Free]
    /\ IF cur = Len(dev_list)
       THEN tpc' = "tick" /\ cur' = 1
       ELSE tpc' = "ev_lock" /\ cur' = cur + 1
    /\ UNCHANGED <<time, mainVars, flags, timer_lock, pc, slot>>

\* _time++
TimerTick ==
    /\ tpc = "tick"
    /\ time' = time + 1
    /\ tpc' = "tm_lock"
    /\ UNCHANGED <<cur, nfsh, nevent, mainVars, flags, locks, pc, slot>>

TimerLockTimer ==
    /\ tpc = "tm_lock"
    /\ timer_lock[dev_list[cur]] = Free
    /\ timer_lock' = [timer_lock EXCEPT ![dev_list[cur]] = "timer"]
    /\ tpc' = "tm_clear"
    /\ UNCHANGED <<time, cur, nfsh, nevent, mainVars, flags, event_lock, pc, slot>>

\* done = 0, signal, unlock; after the last container the loop ends if every
\* container was finished.
TimerRelease ==
    /\ tpc = "tm_clear"
    /\ LET d == dev_list[cur] IN
        /\ done' = [done EXCEPT ![d] = FALSE]
        /\ pc' = IF pc[d] = "ns_wait" THEN [pc EXCEPT ![d] = "ns_timer"] ELSE pc
        /\ timer_lock' = [timer_lock EXCEPT ![d] = Free]
    /\ IF cur = Len(dev_list)
       THEN tpc' = (IF nfsh = nevent THEN "exit" ELSE "loop") /\ cur' = cur
       ELSE tpc' = "tm_lock" /\ cur' = cur + 1
    /\ UNCHANGED <<time, nfsh, nevent, mainVars, fsh, event_lock, slot>>

-----------------------------------------------------------------------------
(* A device thread.                                                        *)

Step(d, from, to) == pc[d] = from /\ pc' = [pc EXCEPT ![d] = to]

\* Fault: the signal is forgotten.
NoSignal(d) == tpc' = tpc

\* pthread_cond_signal(&event_cond) wakes the timer if it sleeps on d.
SignalTimer(d) ==
    tpc' = IF tpc = "ev_wait" /\ dev_list[cur] = d THEN "ev_lock" ELSE tpc

\* The device's own work ends with one of two calls.
CallNextSlot(d) ==
    /\ slot[d] < MaxSlot
    /\ Step(d, "working", "ns_event")
    /\ UNCHANGED <<timerVars, mainVars, flags, locks, slot>>

CallDetach(d) ==
    /\ Step(d, "working", "dt_event")
    /\ UNCHANGED <<timerVars, mainVars, flags, locks, slot>>

\* Fault: the flag is set without the event mutex.
DeviceSkipsEventLock(d) ==
    /\ \/ Step(d, "ns_event", "ns_done")
       \/ Step(d, "dt_event", "dt_fsh")
    /\ UNCHANGED <<timerVars, mainVars, flags, locks, slot>>

DeviceLockEvent(d) ==
    /\ event_lock[d] = Free
    /\ \/ Step(d, "ns_event", "ns_done")
       \/ Step(d, "dt_event", "dt_fsh")
    /\ event_lock' = [event_lock EXCEPT ![d] = "device"]
    /\ UNCHANGED <<timerVars, mainVars, flags, timer_lock, slot>>

\* done = 1, signal, unlock
SetDone(d) ==
    /\ Step(d, "ns_done", "ns_timer")
    /\ done' = [done EXCEPT ![d] = TRUE]
    /\ SignalTimer(d)
    /\ event_lock' = [event_lock EXCEPT ![d] = Free]
    /\ UNCHANGED <<time, cur, nfsh, nevent, mainVars, fsh, timer_lock, slot>>

\* pthread_mutex_lock(&timer_id->timer_lock), first or when woken up.
DeviceLockTimer(d) ==
    /\ timer_lock[d] = Free
    /\ Step(d, "ns_timer", "ns_test")
    /\ timer_lock' = [timer_lock EXCEPT ![d] = "device"]
    /\ UNCHANGED <<timerVars, mainVars, flags, event_lock, slot>>

DeviceMustWait(d) ==
    /\ done[d]
    /\ Step(d, "ns_test", "ns_sleep")
    /\ UNCHANGED <<timerVars, mainVars, flags, locks, slot>>

DeviceSleep(d) ==
    /\ Step(d, "ns_sleep", "ns_wait")
    /\ timer_lock' = [timer_lock EXCEPT ![d] = Free]
    /\ UNCHANGED <<timerVars, mainVars, flags, event_lock, slot>>

DeviceSpuriousWakeup(d) ==
    /\ Step(d, "ns_wait", "ns_timer")
    /\ UNCHANGED <<timerVars, mainVars, flags, locks, slot>>

\* Fault: an if instead of the wait loop.
NextSlotReturnEarly(d) ==
    /\ Step(d, "ns_test", "working")
    /\ timer_lock' = [timer_lock EXCEPT ![d] = Free]
    /\ slot' = [slot EXCEPT ![d] = slot[d] + 1]
    /\ UNCHANGED <<timerVars, mainVars, flags, event_lock>>

\* The wait loop ends: unlock and return from next_slot.
NextSlotReturn(d) ==
    /\ ~done[d]
    /\ Step(d, "ns_test", "working")
    /\ timer_lock' = [timer_lock EXCEPT ![d] = Free]
    /\ slot' = [slot EXCEPT ![d] = slot[d] + 1]
    /\ UNCHANGED <<timerVars, mainVars, flags, event_lock>>

\* Fault: detach_event() does not signal.
SetFshSilent(d) ==
    /\ Step(d, "dt_fsh", "gone")
    /\ fsh' = [fsh EXCEPT ![d] = TRUE]
    /\ event_lock' = [event_lock EXCEPT ![d] = Free]
    /\ UNCHANGED <<timerVars, mainVars, done, timer_lock, slot>>

\* fsh = 1, signal, unlock; the thread then ends (pthread_exit).
SetFsh(d) ==
    /\ Step(d, "dt_fsh", "gone")
    /\ fsh' = [fsh EXCEPT ![d] = TRUE]
    /\ SignalTimer(d)
    /\ event_lock' = [event_lock EXCEPT ![d] = Free]
    /\ UNCHANGED <<time, cur, nfsh, nevent, mainVars, done, timer_lock, slot>>

-----------------------------------------------------------------------------
MainThread ==
    \/ \E d \in Devices : attach_event(d) \/ CreateDevice(d)
    \/ start_timer
    \/ stop_timer
    \/ FreeDevices

TimerThread ==
    \/ TimerLoop
    \/ TimerLockEvent
    \/ TimerMustWait
    \/ TimerSleep
    \/ TimerCount
    \/ TimerTick
    \/ TimerLockTimer
    \/ TimerRelease

DeviceThread(d) ==
    \/ CallNextSlot(d)
    \/ CallDetach(d)
    \/ DeviceLockEvent(d)
    \/ SetDone(d)
    \/ DeviceLockTimer(d)
    \/ DeviceMustWait(d)
    \/ DeviceSleep(d)
    \/ NextSlotReturn(d)
    \/ SetFsh(d)

\* main returned: nothing is left to do.
Terminated == mpc = "end" /\ UNCHANGED vars

Next ==
    \/ MainThread
    \/ TimerThread
    \/ TimerSpuriousWakeup
    \/ \E d \in Devices : DeviceThread(d) \/ DeviceSpuriousWakeup(d)
    \/ Terminated

\* Every thread that can run is scheduled, and nobody relies on spurious
\* wakeups; but a sleeper may be woken spuriously again and again, and the
\* other side still gets the mutex that the sleeper takes and gives back each
\* time (the strong fairness).  That a device's own work between two calls
\* ends is assumed of the device.
Fairness ==
    /\ WF_vars(MainThread)
    /\ WF_vars(TimerThread)
    /\ SF_vars(TimerLockTimer)
    /\ \A d \in Devices : WF_vars(DeviceThread(d)) /\ SF_vars(DeviceLockEvent(d))

Safety == Init /\ [][Next]_vars
Spec == Safety /\ Fairness

-----------------------------------------------------------------------------
(* Properties.                                                             *)

MainPcs   == {"attach", "create", "join", "end"}
TimerPcs  == {"none", "loop", "ev_lock", "ev_test", "ev_sleep", "ev_wait",
              "tick", "tm_lock", "tm_clear", "exit"}
DevicePcs == {"unborn", "working", "ns_event", "ns_done", "ns_timer", "ns_test",
              "ns_sleep", "ns_wait", "dt_event", "dt_fsh", "gone"}

\* The values the variables of timer.c and of its threads can take.
TypeOK ==
    /\ dev_list \in Seq(Devices)
    /\ done \in [Devices -> BOOLEAN]
    /\ fsh \in [Devices -> BOOLEAN]
    /\ event_lock \in [Devices -> {Free, "timer", "device"}]
    /\ timer_lock \in [Devices -> {Free, "timer", "device"}]
    /\ time \in Nat
    /\ timer_started \in BOOLEAN
    /\ timer_stop \in BOOLEAN
    /\ mpc \in MainPcs
    /\ tpc \in TimerPcs
    /\ cur \in Nat \ {0}
    /\ nfsh \in Nat
    /\ nevent \in Nat
    /\ pc \in [Devices -> DevicePcs]
    /\ slot \in [Devices -> Nat]

\* The device executes between two next_slot() calls.
Inside(d) == pc[d] \in {"unborn", "working", "ns_event", "ns_done", "dt_event", "dt_fsh"}

\* The device has reported the current call of next_slot() and is still in it.
Arrived(d) == pc[d] \in {"ns_timer", "ns_test", "ns_sleep", "ns_wait"}

\* While a device works in its slot the global time is the number of slots
\* it has completed: time never moves under a working device, all working
\* devices agree on it, and current_time() is stable between two next_slot().
SlotAgreement == \A d \in Devices : Inside(d) => time = slot[d]

\* A thread asleep in pthread_cond_wait still has its signal ahead: the
\* timer sleeps only on a device that will yet set done or fsh, and a device
\* sleeps only while the timer has not yet cleared its done flag.
NoLostWakeup ==
    /\ tpc = "ev_wait" => NotReported(dev_list[cur])
    /\ \A d \in Devices : pc[d] = "ns_wait" => done[d]

\* The timer thread ends only when no device needs another slot, although it
\* decides so from flags it read before it released the devices.
TimerOutlivesDevices == tpc = "exit" => \A d \in Devices : pc[d] = "gone"

(* Why the safety properties hold: the inductive invariant.                *)

Scanning  == {"ev_lock", "ev_test", "ev_sleep", "ev_wait"}
Releasing == {"tm_lock", "tm_clear"}

\* The list is complete and without duplicates while the timer walks it.
ListInv ==
    /\ \A i, j \in 1..Len(dev_list) : dev_list[i] = dev_list[j] => i = j
    /\ mpc = "attach" <=> tpc = "none"
    /\ mpc = "attach" => \A d \in Devices : pc[d] = "unborn"
    /\ mpc \in {"create", "join"} => \A d \in Devices : d \in Range(dev_list)
    /\ timer_stop <=> mpc \in {"join", "end"}
    /\ mpc = "end" => tpc = "exit"
    /\ mpc \in {"join", "end"} => \A d \in Devices : pc[d] = "gone"
    /\ tpc \in Scanning \cup Releasing \cup {"tick"} => cur \in 1..Len(dev_list)
    /\ tpc = "tick" => cur = 1

\* A mutex is held exactly by the thread that is between its lock and unlock.
LockInv == \A d \in Devices :
    /\ event_lock[d] = "timer" <=> tpc \in {"ev_test", "ev_sleep"} /\ d = dev_list[cur]
    /\ event_lock[d] = "device" <=> pc[d] \in {"ns_done", "dt_fsh"}
    /\ timer_lock[d] = "timer" <=> tpc = "tm_clear" /\ d = dev_list[cur]
    /\ timer_lock[d] = "device" <=> pc[d] \in {"ns_test", "ns_sleep"}

\* The slot is over, the timer has not released d yet.
ToRelease(d) ==
    /\ tpc \in Releasing
    /\ \E i \in cur..Len(dev_list) : dev_list[i] = d

\* What the two flags of a device say about its thread and its slot.
FlagInv == \A d \in Devices :
    /\ fsh[d] <=> pc[d] = "gone"
    /\ done[d] => Arrived(d)
    /\ pc[d] \in {"ns_sleep", "ns_wait"} => done[d]
    /\ Inside(d) => slot[d] = time
    /\ Arrived(d) /\ ~done[d] => slot[d] + 1 = time
    /\ done[d] /\ ToRelease(d) => slot[d] + 1 = time
    /\ done[d] /\ ~ToRelease(d) => slot[d] = time
    /\ ToRelease(d) => done[d] \/ fsh[d]

\* The devices the timer has counted stay reported until it releases them,
\* and the two counters agree only if every device counted has detached.
ScanInv ==
    /\ tpc \in {"ev_sleep", "ev_wait"} => NotReported(dev_list[cur])
    /\ tpc \in Scanning =>
          \A i \in 1..Len(dev_list) : i < cur => ~NotReported(dev_list[i])
    /\ tpc = "tick" => \A d \in Devices : ~NotReported(d)
    /\ nfsh <= nevent
    /\ tpc \in Scanning /\ nfsh = nevent =>
          \A i \in 1..Len(dev_list) : i < cur => fsh[dev_list[i]]
    /\ tpc \in Releasing \cup {"tick"} /\ nfsh = nevent => \A d \in Devices : fsh[d]
    /\ tpc = "exit" => \A d \in Devices : fsh[d]

\* Every state of the timer, of the main thread and of the devices together
\* satisfies this, and no step leaves it.
TimerInv == TypeOK /\ ListInv /\ LockInv /\ FlagInv /\ ScanInv

-----------------------------------------------------------------------------
\* stop_timer() returns: the timer notices that all devices have detached,
\* whether it sleeps, scans or releases when the last one does.
StopTimerReturns == (mpc = "join") ~> (mpc = "end")

\* What a device of the abstract barrier is doing.
AtOf(d) ==
    IF Arrived(d)
    THEN IF slot[d] = time THEN "waiting" ELSE "go"
    ELSE IF pc[d] = "gone" THEN "out" ELSE "in"

Barrier == INSTANCE SlotBarrier WITH at <- [d \in Devices |-> AtOf(d)]

\* timer.c implements the slot barrier, its progress included: no device
\* enters a slot early, and next_slot() returns once every device has called
\* it or detached.
ImplementsBarrier == Barrier!Spec

=============================================================================
