------------------------------- MODULE Sched -------------------------------
(***************************************************************************)
(* The multi-level queue scheduler of src/src/sched.c, called by the CPU   *)
(* threads and by the loader at the same time.                             *)
(*                                                                         *)
(* queue_lock protects the two queue operations and the slots counter that *)
(* get_mlq_proc charges; everything else get_mlq_proc reads and writes     *)
(* (current_prio, the size and the slots it tests, reset_slots) is shared  *)
(* without a lock, so each of those loads and stores is a step of its own. *)
(* An enqueue or a dequeue is one step: the lock is held, and the one word *)
(* others read meanwhile, size, changes once.                              *)
(*                                                                         *)
(* The threads themselves are abstract here (a CPU gets a process, then    *)
(* frees it or puts it back; the loader adds new ones); OS.tla gives them  *)
(* the code of cpu_routine and ld_routine.                                 *)
(***************************************************************************)
EXTENDS Integers, Sequences, FiniteSets

CONSTANTS
    Procs,                \* the processes
    Cpus, Loader,         \* the threads
    MAX_PRIO,             \* the number of queues
    Capacity,             \* what a queue holds: MAX_QUEUE_SIZE - 1
    Prio,                 \* the priority of each process, from the configuration
    NoProc, NoThread      \* the null pointer; the owner of a free mutex

ASSUME MaxPrioAssumption == MAX_PRIO \in Nat \ {0}
ASSUME CapacityAssumption == Capacity \in Nat
ASSUME PrioAssumption == Prio \in [Procs -> Nat]
ASSUME NullAssumption == NoProc \notin Procs /\ NoThread \notin Cpus \cup {Loader}
ASSUME LoaderAssumption == Loader \notin Cpus

VARIABLES
    ready,                \* mlq_ready_queue[q]: the processes, oldest first
    slots,                \* mlq_ready_queue[q].slots
    current_prio,
    queue_lock,           \* the thread that holds it
    spc,                  \* where each thread is inside sched.c
    tmp,                  \* per thread: loop index, or the value just loaded
    designated_slots,     \* per thread: the local of get_mlq_proc
    priority_queue,       \* per thread: the local of get_mlq_proc
    hand,                 \* per thread: proc, the process it holds or gets
    fresh, finished,      \* processes not yet loaded; processes freed
    lost,                 \* history: processes a put threw away
    sawEmpty              \* history: threads whose call met all queues empty

locals == <<tmp, designated_slots, priority_queue>>
owners == <<fresh, finished, lost>>
schedVars == <<ready, slots, current_prio, queue_lock, spc, locals, hand, owners, sawEmpty>>

Threads == Cpus \cup {Loader}
Prios == 0..MAX_PRIO - 1

\* slots is an int that only an equality test reads: above the largest
\* designated_slots all values behave alike, so counting stops there.
SlotsCap == MAX_PRIO + 1

Queue == INSTANCE FifoQueue WITH queue <- ready, out <- hand

SchedInit ==
    /\ ready = [q \in Prios |-> << >>]
    /\ slots = [q \in Prios |-> 0]
    /\ current_prio = 0
    /\ queue_lock = NoThread
    /\ spc = [t \in Threads |-> "idle"]
    /\ tmp = [t \in Threads |-> 0]
    /\ designated_slots = [t \in Threads |-> 0]
    /\ priority_queue = [t \in Threads |-> 0]
    /\ hand = [t \in Threads |-> NoProc]
    /\ fresh = Procs
    /\ finished = {}
    /\ lost = {}
    /\ sawEmpty = {}

Goto(t, from, to) == spc[t] = from /\ spc' = [spc EXCEPT ![t] = to]

AllEmpty(queues) == \A q \in Prios : queues[q] = << >>

InGet(t) == spc[t] \notin {"idle", "put_lock", "put"}

-----------------------------------------------------------------------------
(* get_mlq_proc                                                            *)

\* Fault: the caller asks for a process while it still holds one.
CallGetOverwrites(t) ==
    /\ Goto(t, "idle", "empty")
    /\ UNCHANGED <<ready, slots, current_prio, queue_lock, locals, hand, owners, sawEmpty>>

\* get_proc(): proc starts as NULL.
CallGet(t) ==
    /\ hand[t] = NoProc
    /\ Goto(t, "idle", "empty")
    /\ sawEmpty' = IF AllEmpty(ready) THEN sawEmpty \cup {t} ELSE sawEmpty \ {t}
    /\ UNCHANGED <<ready, slots, current_prio, queue_lock, locals, hand, owners>>

\* queue_empty(): one queue after the other, without the lock.
FoundNonempty(t) ==
    /\ Goto(t, "empty", "quota")
    /\ ready[tmp[t]] # << >>
    /\ tmp' = [tmp EXCEPT ![t] = 0]
    /\ UNCHANGED <<ready, slots, current_prio, queue_lock, designated_slots, priority_queue,
                   hand, owners, sawEmpty>>

FoundEmpty(t) ==
    /\ spc[t] = "empty"
    /\ ready[tmp[t]] = << >>
    /\ tmp[t] # MAX_PRIO - 1
    /\ tmp' = [tmp EXCEPT ![t] = tmp[t] + 1]
    /\ UNCHANGED <<ready, slots, current_prio, queue_lock, spc, designated_slots, priority_queue,
                   hand, owners, sawEmpty>>

\* Fault: queue_empty() looks at the first queue only.
ReturnNullEarly(t) ==
    /\ Goto(t, "empty", "idle")
    /\ ready[tmp[t]] = << >>
    /\ tmp' = [tmp EXCEPT ![t] = 0]
    /\ UNCHANGED <<ready, slots, current_prio, queue_lock, designated_slots, priority_queue,
                   hand, owners, sawEmpty>>

\* All queues were found empty: return NULL.
ReturnNull(t) ==
    /\ Goto(t, "empty", "idle")
    /\ ready[tmp[t]] = << >>
    /\ tmp[t] = MAX_PRIO - 1
    /\ tmp' = [tmp EXCEPT ![t] = 0]
    /\ UNCHANGED <<ready, slots, current_prio, queue_lock, designated_slots, priority_queue,
                   hand, owners, sawEmpty>>

\* The head of while (1): current_prio is read twice.
ReadQuota(t) ==
    /\ Goto(t, "quota", "pick")
    /\ designated_slots' = [designated_slots EXCEPT ![t] = MAX_PRIO - current_prio]
    /\ UNCHANGED <<ready, slots, current_prio, queue_lock, tmp, priority_queue, hand, owners, sawEmpty>>

PickQueue(t) ==
    /\ Goto(t, "pick", "size")
    /\ priority_queue' = [priority_queue EXCEPT ![t] = current_prio]
    /\ UNCHANGED <<ready, slots, current_prio, queue_lock, tmp, designated_slots, hand, owners, sawEmpty>>

TestSize(t) ==
    /\ \/ ready[priority_queue[t]] # << >> /\ Goto(t, "size", "slots")
       \/ ready[priority_queue[t]] = << >> /\ Goto(t, "size", "inc")
    /\ UNCHANGED <<ready, slots, current_prio, queue_lock, locals, hand, owners, sawEmpty>>

\* Fault: one slot too many.
OverSlots(t) == slots[priority_queue[t]] > designated_slots[t]

OutOfSlots(t) == slots[priority_queue[t]] = designated_slots[t]

TestSlots(t) ==
    /\ \/ OutOfSlots(t) /\ Goto(t, "slots", "inc")
       \/ ~OutOfSlots(t) /\ Goto(t, "slots", "get_lock")
    /\ UNCHANGED <<ready, slots, current_prio, queue_lock, locals, hand, owners, sawEmpty>>

\* current_prio = (current_prio + 1) % MAX_PRIO, a load and a store.
LoadPrio(t) ==
    /\ Goto(t, "inc", "store")
    /\ tmp' = [tmp EXCEPT ![t] = current_prio]
    /\ UNCHANGED <<ready, slots, current_prio, queue_lock, designated_slots, priority_queue,
                   hand, owners, sawEmpty>>

\* Fault: the index does not wrap around.
StorePrioUnwrapped(t) ==
    /\ Goto(t, "store", "wrap")
    /\ current_prio' = tmp[t] + 1
    /\ tmp' = [tmp EXCEPT ![t] = 0]
    /\ UNCHANGED <<ready, slots, queue_lock, designated_slots, priority_queue, hand, owners, sawEmpty>>

\* Fault: the search starts at the best priority again.
StorePrioRestarts(t) ==
    /\ Goto(t, "store", "wrap")
    /\ current_prio' = 0
    /\ tmp' = [tmp EXCEPT ![t] = 0]
    /\ UNCHANGED <<ready, slots, queue_lock, designated_slots, priority_queue, hand, owners, sawEmpty>>

StorePrio(t) ==
    /\ Goto(t, "store", "wrap")
    /\ current_prio' = (tmp[t] + 1) % MAX_PRIO
    /\ tmp' = [tmp EXCEPT ![t] = 0]
    /\ UNCHANGED <<ready, slots, queue_lock, designated_slots, priority_queue, hand, owners, sawEmpty>>

TestWrap(t) ==
    /\ \/ current_prio = 0 /\ Goto(t, "wrap", "reset")
       \/ current_prio # 0 /\ Goto(t, "wrap", "quota")
    /\ UNCHANGED <<ready, slots, current_prio, queue_lock, locals, hand, owners, sawEmpty>>

\* Fault: the slots are not given back.
ResetNothing(t) ==
    /\ Goto(t, "reset", "rewind")
    /\ UNCHANGED <<ready, slots, current_prio, queue_lock, locals, hand, owners, sawEmpty>>

\* reset_slots(): one queue after the other, then the current priority.
ResetSlots(t) ==
    /\ spc[t] = "reset"
    /\ slots' = [slots EXCEPT ![tmp[t]] = 0]
    /\ \/ /\ tmp[t] = MAX_PRIO - 1
          /\ spc' = [spc EXCEPT ![t] = "rewind"]
          /\ tmp' = [tmp EXCEPT ![t] = 0]
       \/ /\ tmp[t] # MAX_PRIO - 1
          /\ tmp' = [tmp EXCEPT ![t] = tmp[t] + 1]
          /\ UNCHANGED spc
    /\ UNCHANGED <<ready, current_prio, queue_lock, designated_slots, priority_queue, hand,
                   owners, sawEmpty>>

Rewind(t) ==
    /\ Goto(t, "rewind", "quota")
    /\ current_prio' = 0
    /\ UNCHANGED <<ready, slots, queue_lock, locals, hand, owners, sawEmpty>>

LockQueue(t) ==
    /\ queue_lock = NoThread
    /\ \/ Goto(t, "get_lock", "take")
       \/ Goto(t, "put_lock", "put")
    /\ queue_lock' = t
    /\ UNCHANGED <<ready, slots, current_prio, locals, hand, owners, sawEmpty>>

\* Fault: queuePeek() in the place of dequeue().
TakeProcPeeks(t) ==
    /\ Goto(t, "take", "charge_load")
    /\ hand' = [hand EXCEPT ![t] = Queue!Front(ready[priority_queue[t]])]
    /\ UNCHANGED <<ready, slots, current_prio, queue_lock, locals, owners, sawEmpty>>

\* proc = dequeue(priority_queue): NULL if the queue is empty by now.
TakeProc(t) ==
    /\ Goto(t, "take", "charge_load")
    /\ LET q == priority_queue[t] IN
        /\ hand' = [hand EXCEPT ![t] = Queue!Front(ready[q])]
        /\ ready' = [ready EXCEPT ![q] = Queue!Dequeued(ready[q])]
    /\ sawEmpty' = IF AllEmpty(ready') THEN {u \in Threads : InGet(u)} ELSE sawEmpty
    /\ UNCHANGED <<slots, current_prio, queue_lock, locals, owners>>

\* slots++, a load and a store: reset_slots does not take the lock.
LoadSlots(t) ==
    /\ Goto(t, "charge_load", "charge")
    /\ tmp' = [tmp EXCEPT ![t] = slots[priority_queue[t]]]
    /\ UNCHANGED <<ready, slots, current_prio, queue_lock, designated_slots, priority_queue,
                   hand, owners, sawEmpty>>

\* The store, the unlock and the return of what dequeue found.
ChargeSlot(t) ==
    /\ Goto(t, "charge", "idle")
    /\ slots' = [slots EXCEPT ![priority_queue[t]] =
                    IF tmp[t] < SlotsCap THEN tmp[t] + 1 ELSE SlotsCap]
    /\ tmp' = [tmp EXCEPT ![t] = 0]
    /\ designated_slots' = [designated_slots EXCEPT ![t] = 0]
    /\ priority_queue' = [priority_queue EXCEPT ![t] = 0]
    /\ queue_lock' = NoThread
    /\ UNCHANGED <<ready, current_prio, hand, owners, sawEmpty>>

-----------------------------------------------------------------------------
(* put_mlq_proc and add_mlq_proc                                           *)

CallPut(t) ==
    /\ hand[t] # NoProc
    /\ Goto(t, "idle", "put_lock")
    /\ UNCHANGED <<ready, slots, current_prio, queue_lock, locals, hand, owners, sawEmpty>>

\* Fault: the best priority is taken for an invalid one.
PutProcPositive(t) ==
    /\ Goto(t, "put", "idle")
    /\ LET p == hand[t]
           kept == Prio[p] \in 1..MAX_PRIO - 1 /\ Len(ready[Prio[p]]) < Capacity
       IN  /\ ready' = IF kept
                       THEN [ready EXCEPT ![Prio[p]] = Queue!Enqueued(ready[Prio[p]], p)]
                       ELSE ready
           /\ lost' = IF kept THEN lost ELSE lost \cup {p}
    /\ hand' = [hand EXCEPT ![t] = NoProc]
    /\ queue_lock' = NoThread
    /\ UNCHANGED <<slots, current_prio, locals, fresh, finished, sawEmpty>>

\* Fault: the process goes to the queue that is being served.
PutProcCurrent(t) ==
    /\ Goto(t, "put", "idle")
    /\ ready' = [ready EXCEPT ![current_prio] = Queue!Enqueued(ready[current_prio], hand[t])]
    /\ hand' = [hand EXCEPT ![t] = NoProc]
    /\ queue_lock' = NoThread
    /\ UNCHANGED <<slots, current_prio, locals, owners, sawEmpty>>

\* A process whose priority is out of range, or whose queue is full, is
\* dropped without a word.
PutProc(t) ==
    /\ Goto(t, "put", "idle")
    /\ LET p == hand[t]
           kept == Prio[p] < MAX_PRIO /\ Len(ready[Prio[p]]) < Capacity
       IN  /\ ready' = IF Prio[p] < MAX_PRIO
                       THEN [ready EXCEPT ![Prio[p]] = Queue!Enqueued(ready[Prio[p]], p)]
                       ELSE ready
           /\ lost' = IF kept THEN lost ELSE lost \cup {p}
    /\ hand' = [hand EXCEPT ![t] = NoProc]
    /\ queue_lock' = NoThread
    /\ UNCHANGED <<slots, current_prio, locals, fresh, finished, sawEmpty>>

GetStep(t) ==
    \/ FoundNonempty(t)
    \/ FoundEmpty(t)
    \/ ReturnNull(t)
    \/ ReadQuota(t)
    \/ PickQueue(t)
    \/ TestSize(t)
    \/ TestSlots(t)
    \/ LoadPrio(t)
    \/ StorePrio(t)
    \/ TestWrap(t)
    \/ ResetSlots(t)
    \/ Rewind(t)
    \/ TakeProc(t)
    \/ LoadSlots(t)
    \/ ChargeSlot(t)

SchedStep(t) == GetStep(t) \/ LockQueue(t) \/ PutProc(t)

-----------------------------------------------------------------------------
(* The callers.                                                            *)

\* load(): the loader reads the next process from its file.
LoadProc(p) ==
    /\ spc[Loader] = "idle"
    /\ hand[Loader] = NoProc
    /\ p \in fresh
    /\ fresh' = fresh \ {p}
    /\ hand' = [hand EXCEPT ![Loader] = p]
    /\ UNCHANGED <<ready, slots, current_prio, queue_lock, spc, locals, finished, lost, sawEmpty>>

\* free(proc): the process has executed its last instruction.
FreeProc(t) ==
    /\ spc[t] = "idle"
    /\ hand[t] # NoProc
    /\ finished' = finished \cup {hand[t]}
    /\ hand' = [hand EXCEPT ![t] = NoProc]
    /\ UNCHANGED <<ready, slots, current_prio, queue_lock, spc, locals, fresh, lost, sawEmpty>>

CpuCall(c) == CallGet(c) \/ CallPut(c)
LoaderCall == CallPut(Loader) \/ \E p \in Procs : LoadProc(p)

SchedNext ==
    \/ \E t \in Threads : SchedStep(t)
    \/ \E c \in Cpus : CpuCall(c) \/ FreeProc(c)
    \/ LoaderCall

\* The threads run, a thread that asks for queue_lock again and again finds
\* it free gets it in the end, and a CPU keeps getting processes and putting
\* them back.
SchedFairness ==
    /\ \A t \in Threads : WF_schedVars(SchedStep(t)) /\ SF_schedVars(LockQueue(t))
    /\ \A c \in Cpus : WF_schedVars(CpuCall(c))
    /\ WF_schedVars(LoaderCall)

SchedSafety == SchedInit /\ [][SchedNext]_schedVars
SchedSpec == SchedSafety /\ SchedFairness

-----------------------------------------------------------------------------
(* Properties.                                                             *)

SchedPcs == {"idle", "empty", "quota", "pick", "size", "slots", "inc", "store", "wrap",
             "reset", "rewind", "get_lock", "take", "charge_load", "charge", "put_lock", "put"}

\* The variables of sched.c and of the threads inside it keep their types,
\* and no queue index ever leaves the array of queues.
SchedTypeOK ==
    /\ ready \in [Prios -> Seq(Procs)]
    /\ slots \in [Prios -> Nat]
    /\ current_prio \in Prios
    /\ queue_lock \in Threads \cup {NoThread}
    /\ spc \in [Threads -> SchedPcs]
    /\ tmp \in [Threads -> Nat]
    /\ designated_slots \in [Threads -> Nat]
    /\ priority_queue \in [Threads -> Prios]
    /\ hand \in [Threads -> Procs \cup {NoProc}]
    /\ fresh \in SUBSET Procs
    /\ finished \in SUBSET Procs
    /\ lost \in SUBSET Procs
    /\ sawEmpty \in SUBSET Threads

\* A process is in the place q (a queue) at position i.
At(p, q, i) == i \in 1..Len(ready[q]) /\ ready[q][i] = p
Queued(p) == \E q \in Prios : \E i \in 1..Len(ready[q]) : At(p, q, i)
Held(p) == \E t \in Threads : hand[t] = p

\* A process is never in two places: not twice in the queues, not with two
\* CPUs, not queued while a CPU holds it, not reachable after it was freed.
OnePlace ==
    /\ \A p \in Procs, q, r \in Prios : \A i \in 1..Len(ready[q]), j \in 1..Len(ready[r]) :
          At(p, q, i) /\ At(p, r, j) => q = r /\ i = j
    /\ \A t, u \in Threads : hand[t] = hand[u] /\ hand[t] # NoProc => t = u
    /\ \A p \in Procs :
          /\ Held(p) => ~Queued(p)
          /\ p \in fresh \cup finished \cup lost => ~Held(p) /\ ~Queued(p)
    /\ fresh \cap finished = {} /\ fresh \cap lost = {} /\ finished \cap lost = {}

\* A queue only holds processes of its priority, and never more than fit.
QueuesWellFormed == \A q \in Prios :
    /\ Len(ready[q]) <= Capacity
    /\ \A i \in 1..Len(ready[q]) : Prio[ready[q][i]] = q

\* No process vanishes: it is somewhere, or put threw it away.
NoneForgotten == \A p \in Procs : p \in fresh \cup finished \cup lost \/ Held(p) \/ Queued(p)

\* put and add keep the process they are given.  Not so in general: enqueue()
\* drops a process that finds its queue full, and put_mlq_proc one whose
\* priority does not exist (test/sched.c expects the latter); NothingIsLost
\* (SchedProofs) says which configurations are safe.
NothingLost == lost = {}

\* What the queues do promise when they overflow: processes of a priority that
\* exists are dropped only in excess of the Capacity that their queue can hold,
\* so as soon as one is lost, Capacity others of its priority survive.
OfPrio(q) == {p \in Procs : Prio[p] = q}

OnlyExcessLost == \A q \in Prios :
    OfPrio(q) \cap lost # {} => Cardinality(OfPrio(q) \ lost) >= Capacity

\* "curr_slot = 0..(MAX_PRIO - prio)": a queue is never charged more slots
\* than its priority gives it.
SlotsBounded == \A q \in Prios : slots[q] <= MAX_PRIO - q

\* get_proc returns NULL only if at some moment of the call there really was
\* no process in any queue.
NullMeansEmpty ==
    [][\A t \in Threads :
          InGet(t) /\ spc'[t] = "idle" /\ hand'[t] = NoProc => t \in sawEmpty]_schedVars

\* get_proc and put_proc return.
CallsReturn == \A t \in Threads : spc[t] # "idle" ~> spc[t] = "idle"

\* A process that waits in a queue gets a CPU, whatever its priority and
\* however often the others come back.
NoStarvation == \A p \in Procs : Queued(p) ~> \E c \in Cpus : hand[c] = p

=============================================================================
