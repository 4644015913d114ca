---------------------------- MODULE SchedProofs ----------------------------
(***************************************************************************)
(* Proofs about Sched, for every number of CPUs, of queues and of          *)
(* processes, and every capacity: no queue index leaves the array, and a   *)
(* process is always in exactly one place.                                 *)
(***************************************************************************)
EXTENDS Sched, SequenceTheorems, FiniteSetTheorems, TLAPS

USE MaxPrioAssumption, CapacityAssumption, PrioAssumption, NullAssumption, LoaderAssumption

-----------------------------------------------------------------------------
(* The inductive invariant.                                                *)

\* Where tmp counts queues, and where it holds nothing.
TmpInv == \A t \in Threads :
    /\ spc[t] \in {"empty", "reset"} => tmp[t] \in Prios
    /\ spc[t] \notin {"empty", "reset", "store", "charge"} => tmp[t] = 0

\* queue_lock is held exactly from the lock to the unlock.
LockInv == \A t \in Threads :
    queue_lock = t <=> spc[t] \in {"take", "charge_load", "charge", "put"}

\* get_mlq_proc has no process before dequeue(), put_mlq_proc has one.
Searching == SchedPcs \ {"idle", "charge_load", "charge", "put_lock", "put"}

HandInv == \A t \in Threads :
    /\ spc[t] \in Searching => hand[t] = NoProc
    /\ spc[t] \in {"put_lock", "put"} => hand[t] # NoProc

ControlInv == SchedTypeOK /\ TmpInv /\ LockInv /\ HandInv

PlaceInv == OnePlace /\ QueuesWellFormed /\ NoneForgotten

SchedInv == ControlInv /\ PlaceInv

-----------------------------------------------------------------------------
(* The control of get_mlq_proc and put_mlq_proc.                           *)

(* Before the first call nothing is locked and nobody holds a process. *)
LEMMA InitControl == SchedInit => ControlInv
BY DEF SchedInit, ControlInv, SchedTypeOK, TmpInv, LockInv, HandInv, Searching, SchedPcs, Prios,
       Threads

(* A call of get_proc starts counting at queue 0, with nothing in hand. *)
LEMMA CallGetControl ==
  ASSUME ControlInv, NEW t \in Threads, CallGet(t)
  PROVE  ControlInv'
<1> USE DEF ControlInv
<1>1. SchedTypeOK'
  BY DEF SchedTypeOK, CallGet, Goto, SchedPcs, locals, owners
<1>2. TmpInv'
  BY DEF SchedTypeOK, TmpInv, CallGet, Goto, SchedPcs, locals, Prios
<1>3. LockInv'
  BY DEF SchedTypeOK, LockInv, CallGet, Goto
<1>4. HandInv'
  BY DEF SchedTypeOK, HandInv, CallGet, Goto, Searching, SchedPcs
<1> QED
  BY <1>1, <1>2, <1>3, <1>4

(* queue_empty() found a process and returns. *)
LEMMA FoundNonemptyControl ==
  ASSUME ControlInv, NEW t \in Threads, FoundNonempty(t)
  PROVE  ControlInv'
<1> USE DEF ControlInv
<1>1. SchedTypeOK'
  BY DEF SchedTypeOK, TmpInv, FoundNonempty, Goto, SchedPcs, owners
<1>2. TmpInv'
  BY DEF SchedTypeOK, TmpInv, FoundNonempty, Goto, SchedPcs, Prios
<1>3. LockInv'
  BY DEF SchedTypeOK, LockInv, FoundNonempty, Goto
<1>4. HandInv'
  BY DEF SchedTypeOK, HandInv, FoundNonempty, Goto, Searching, SchedPcs
<1> QED
  BY <1>1, <1>2, <1>3, <1>4

(* queue_empty() goes on to a queue that exists. *)
LEMMA FoundEmptyControl ==
  ASSUME ControlInv, NEW t \in Threads, FoundEmpty(t)
  PROVE  ControlInv'
<1> USE DEF ControlInv
<1>1. tmp[t] \in Prios /\ tmp[t] # MAX_PRIO - 1
  BY DEF TmpInv, FoundEmpty
<1>2. tmp[t] + 1 \in Prios /\ tmp[t] + 1 \in Nat
  BY <1>1 DEF Prios
<1>3. SchedTypeOK'
  BY <1>2 DEF SchedTypeOK, FoundEmpty, SchedPcs, owners
<1>4. TmpInv'
  BY <1>2 DEF SchedTypeOK, TmpInv, FoundEmpty, SchedPcs
<1>5. LockInv'
  BY DEF SchedTypeOK, LockInv, FoundEmpty, Goto
<1>6. HandInv'
  BY DEF SchedTypeOK, HandInv, FoundEmpty, Goto, Searching, SchedPcs
<1> QED
  BY <1>3, <1>4, <1>5, <1>6

(* queue_empty() found nothing: get_proc returns. *)
LEMMA ReturnNullControl ==
  ASSUME ControlInv, NEW t \in Threads, ReturnNull(t)
  PROVE  ControlInv'
<1> USE DEF ControlInv
<1>1. SchedTypeOK'
  BY DEF SchedTypeOK, TmpInv, ReturnNull, Goto, SchedPcs, owners
<1>2. TmpInv'
  BY DEF SchedTypeOK, TmpInv, ReturnNull, Goto, SchedPcs, Prios
<1>3. LockInv'
  BY DEF SchedTypeOK, LockInv, ReturnNull, Goto
<1>4. HandInv'
  BY DEF SchedTypeOK, HandInv, ReturnNull, Goto, Searching, SchedPcs
<1> QED
  BY <1>1, <1>2, <1>3, <1>4

(* The quota is never negative. *)
LEMMA ReadQuotaControl ==
  ASSUME ControlInv, NEW t \in Threads, ReadQuota(t)
  PROVE  ControlInv'
<1> USE DEF ControlInv
<1>1. MAX_PRIO - current_prio \in Nat
  BY DEF SchedTypeOK, Prios
<1>2. SchedTypeOK'
  BY <1>1 DEF SchedTypeOK, ReadQuota, Goto, SchedPcs, owners
<1>3. TmpInv'
  BY DEF SchedTypeOK, TmpInv, ReadQuota, Goto, SchedPcs
<1>4. LockInv'
  BY DEF SchedTypeOK, LockInv, ReadQuota, Goto
<1>5. HandInv'
  BY DEF SchedTypeOK, HandInv, ReadQuota, Goto, Searching, SchedPcs
<1> QED
  BY <1>2, <1>3, <1>4, <1>5

(* The chosen queue exists. *)
LEMMA PickQueueControl ==
  ASSUME ControlInv, NEW t \in Threads, PickQueue(t)
  PROVE  ControlInv'
<1> USE DEF ControlInv
<1>1. SchedTypeOK'
  BY DEF SchedTypeOK, TmpInv, PickQueue, Goto, SchedPcs, owners
<1>2. TmpInv'
  BY DEF SchedTypeOK, TmpInv, PickQueue, Goto, SchedPcs, Prios
<1>3. LockInv'
  BY DEF SchedTypeOK, LockInv, PickQueue, Goto
<1>4. HandInv'
  BY DEF SchedTypeOK, HandInv, PickQueue, Goto, Searching, SchedPcs
<1> QED
  BY <1>1, <1>2, <1>3, <1>4

(* The test of the size only moves on. *)
LEMMA TestSizeControl ==
  ASSUME ControlInv, NEW t \in Threads, TestSize(t)
  PROVE  ControlInv'
<1> USE DEF ControlInv
<1>1. SchedTypeOK'
  BY DEF SchedTypeOK, TmpInv, TestSize, Goto, SchedPcs, owners, locals
<1>2. TmpInv'
  BY ZenonT(30) DEF SchedTypeOK, TmpInv, TestSize, Goto, SchedPcs, locals
<1>3. LockInv'
  BY DEF SchedTypeOK, LockInv, TestSize, Goto
<1>4. HandInv'
  BY DEF SchedTypeOK, HandInv, TestSize, Goto, Searching, SchedPcs
<1> QED
  BY <1>1, <1>2, <1>3, <1>4

(* The test of the slots only moves on. *)
LEMMA TestSlotsControl ==
  ASSUME ControlInv, NEW t \in Threads, TestSlots(t)
  PROVE  ControlInv'
<1> USE DEF ControlInv
<1>1. SchedTypeOK'
  BY DEF SchedTypeOK, TmpInv, TestSlots, Goto, SchedPcs, owners, locals, OutOfSlots
<1>2. TmpInv'
  BY DEF SchedTypeOK, TmpInv, TestSlots, Goto, SchedPcs, locals
<1>3. LockInv'
  BY DEF SchedTypeOK, LockInv, TestSlots, Goto
<1>4. HandInv'
  BY DEF SchedTypeOK, HandInv, TestSlots, Goto, Searching, SchedPcs
<1> QED
  BY <1>1, <1>2, <1>3, <1>4

(* The first half of the increment of current_prio. *)
LEMMA LoadPrioControl ==
  ASSUME ControlInv, NEW t \in Threads, LoadPrio(t)
  PROVE  ControlInv'
<1> USE DEF ControlInv
<1>1. current_prio \in Nat
  BY DEF SchedTypeOK, Prios
<1>2. SchedTypeOK'
  BY <1>1 DEF SchedTypeOK, LoadPrio, Goto, SchedPcs, owners
<1>3. TmpInv'
  BY DEF SchedTypeOK, TmpInv, LoadPrio, Goto, SchedPcs
<1>4. LockInv'
  BY DEF SchedTypeOK, LockInv, LoadPrio, Goto
<1>5. HandInv'
  BY DEF SchedTypeOK, HandInv, LoadPrio, Goto, Searching, SchedPcs
<1> QED
  BY <1>2, <1>3, <1>4, <1>5

(* The second half: the result is the index of a queue. *)
LEMMA StorePrioControl ==
  ASSUME ControlInv, NEW t \in Threads, StorePrio(t)
  PROVE  ControlInv'
<1> USE DEF ControlInv
<1>1. (tmp[t] + 1) % MAX_PRIO \in Prios
  BY SMTT(30) DEF SchedTypeOK, Prios
<1>2. SchedTypeOK'
  BY <1>1 DEF SchedTypeOK, StorePrio, Goto, SchedPcs, owners
<1>3. TmpInv'
  BY DEF SchedTypeOK, TmpInv, StorePrio, Goto, SchedPcs
<1>4. LockInv'
  BY DEF SchedTypeOK, LockInv, StorePrio, Goto
<1>5. HandInv'
  BY DEF SchedTypeOK, HandInv, StorePrio, Goto, Searching, SchedPcs
<1> QED
  BY <1>2, <1>3, <1>4, <1>5

(* The test for a full round only moves on. *)
LEMMA TestWrapControl ==
  ASSUME ControlInv, NEW t \in Threads, TestWrap(t)
  PROVE  ControlInv'
<1> USE DEF ControlInv
<1>1. SchedTypeOK'
  BY DEF SchedTypeOK, TmpInv, TestWrap, Goto, SchedPcs, owners, locals
<1>2. TmpInv'
  BY DEF SchedTypeOK, TmpInv, TestWrap, Goto, SchedPcs, Prios, locals
<1>3. LockInv'
  BY DEF SchedTypeOK, LockInv, TestWrap, Goto
<1>4. HandInv'
  BY DEF SchedTypeOK, HandInv, TestWrap, Goto, Searching, SchedPcs
<1> QED
  BY <1>1, <1>2, <1>3, <1>4

(* reset_slots() writes to queues that exist. *)
LEMMA ResetSlotsControl ==
  ASSUME ControlInv, NEW t \in Threads, ResetSlots(t)
  PROVE  ControlInv'
<1> USE DEF ControlInv
<1>1. tmp[t] \in Prios
  BY DEF TmpInv, ResetSlots
<1>2. 0 \in Nat /\ tmp[t] \in Nat /\ tmp[t] + 1 \in Nat /\ (tmp[t] # MAX_PRIO - 1 => tmp[t] + 1 \in Prios)
  BY <1>1 DEF Prios
<1>3. slots' \in [Prios -> Nat]
  BY <1>1 DEF SchedTypeOK, ResetSlots
<1>4. tmp' \in [Threads -> Nat] /\ spc' \in [Threads -> SchedPcs]
  <2>1. CASE tmp[t] = MAX_PRIO - 1
    <3>1. spc' = [spc EXCEPT ![t] = "rewind"] /\ tmp' = [tmp EXCEPT ![t] = 0]
      BY <2>1 DEF ResetSlots
    <3> QED
      BY <1>2, <3>1 DEF SchedTypeOK, SchedPcs
  <2>2. CASE tmp[t] # MAX_PRIO - 1
    BY <1>2, <2>2, SMTT(30) DEF SchedTypeOK, ResetSlots, SchedPcs
  <2> QED
    BY <2>1, <2>2
<1>5. SchedTypeOK'
  BY <1>3, <1>4 DEF SchedTypeOK, ResetSlots, owners
<1>6. TmpInv'
  BY <1>2 DEF SchedTypeOK, TmpInv, ResetSlots, SchedPcs
<1>7. LockInv'
  BY DEF SchedTypeOK, LockInv, ResetSlots, Goto
<1>8. HandInv'
  BY DEF SchedTypeOK, HandInv, ResetSlots, Goto, Searching, SchedPcs
<1> QED
  BY <1>5, <1>6, <1>7, <1>8

(* The round starts again at queue 0. *)
LEMMA RewindControl ==
  ASSUME ControlInv, NEW t \in Threads, Rewind(t)
  PROVE  ControlInv'
<1> USE DEF ControlInv
<1>1. 0 \in Prios
  BY DEF Prios
<1>2. SchedTypeOK'
  BY <1>1 DEF SchedTypeOK, Rewind, Goto, SchedPcs, owners, locals
<1>3. TmpInv'
  BY DEF SchedTypeOK, TmpInv, Rewind, Goto, SchedPcs, locals
<1>4. LockInv'
  BY DEF SchedTypeOK, LockInv, Rewind, Goto
<1>5. HandInv'
  BY DEF SchedTypeOK, HandInv, Rewind, Goto, Searching, SchedPcs
<1> QED
  BY <1>2, <1>3, <1>4, <1>5

(* Only one thread gets the lock. *)
LEMMA LockQueueControl ==
  ASSUME ControlInv, NEW t \in Threads, LockQueue(t)
  PROVE  ControlInv'
<1> USE DEF ControlInv
<1>1. SchedTypeOK'
  BY DEF SchedTypeOK, TmpInv, LockQueue, Goto, SchedPcs, owners, locals
<1>2. TmpInv'
  BY DEF SchedTypeOK, TmpInv, LockQueue, Goto, SchedPcs, locals
<1>3. LockInv'
  BY DEF SchedTypeOK, LockInv, LockQueue, Goto, Threads
<1>4. HandInv'
  BY DEF SchedTypeOK, HandInv, LockQueue, Goto, Searching, SchedPcs
<1> QED
  BY <1>1, <1>2, <1>3, <1>4

(* The first half of slots++, under the lock. *)
LEMMA LoadSlotsControl ==
  ASSUME ControlInv, NEW t \in Threads, LoadSlots(t)
  PROVE  ControlInv'
<1> USE DEF ControlInv
<1>1. SchedTypeOK'
  BY DEF SchedTypeOK, TmpInv, LoadSlots, Goto, SchedPcs, owners
<1>2. TmpInv'
  BY DEF SchedTypeOK, TmpInv, LoadSlots, Goto, SchedPcs, Prios
<1>3. LockInv'
  BY DEF SchedTypeOK, LockInv, LoadSlots, Goto
<1>4. HandInv'
  BY DEF SchedTypeOK, HandInv, LoadSlots, Goto, Searching, SchedPcs
<1> QED
  BY <1>1, <1>2, <1>3, <1>4

(* The second half, the unlock and the return. *)
LEMMA ChargeSlotControl ==
  ASSUME ControlInv, NEW t \in Threads, ChargeSlot(t)
  PROVE  ControlInv'
<1> USE DEF ControlInv
<1>1. 0 \in Prios
  BY DEF Prios
<1>2. slots' \in [Prios -> Nat]
  BY DEF SchedTypeOK, ChargeSlot, SlotsCap
<1>3. SchedTypeOK'
  BY <1>1, <1>2 DEF SchedTypeOK, ChargeSlot, Goto, SchedPcs, owners
<1>4. TmpInv'
  BY DEF SchedTypeOK, TmpInv, ChargeSlot, Goto, SchedPcs
<1>5. LockInv'
  BY DEF SchedTypeOK, LockInv, ChargeSlot, Goto, Threads
<1>6. HandInv'
  BY DEF SchedTypeOK, HandInv, ChargeSlot, Goto, Searching, SchedPcs
<1> QED
  BY <1>3, <1>4, <1>5, <1>6

(* put_proc is called with a process. *)
LEMMA CallPutControl ==
  ASSUME ControlInv, NEW t \in Threads, CallPut(t)
  PROVE  ControlInv'
<1> USE DEF ControlInv
<1>1. SchedTypeOK'
  BY DEF SchedTypeOK, TmpInv, CallPut, Goto, SchedPcs, owners, locals
<1>2. TmpInv'
  BY DEF SchedTypeOK, TmpInv, CallPut, Goto, SchedPcs, locals
<1>3. LockInv'
  BY DEF SchedTypeOK, LockInv, CallPut, Goto
<1>4. HandInv'
  BY DEF SchedTypeOK, HandInv, CallPut, Goto, Searching, SchedPcs
<1> QED
  BY <1>1, <1>2, <1>3, <1>4

-----------------------------------------------------------------------------
(* The steps that move a process.                                          *)

(* A queue that is not empty, without its head. *)
LEMMA TailOfQueue ==
  ASSUME NEW s \in Seq(Procs), s # << >>
  PROVE  /\ Len(s) \in Nat \ {0}
         /\ Head(s) = s[1] /\ Head(s) \in Procs
         /\ Tail(s) \in Seq(Procs) /\ Len(Tail(s)) = Len(s) - 1
         /\ \A i \in 1..Len(Tail(s)) : Tail(s)[i] = s[i + 1]
<1>1. Len(s) \in Nat \ {0}
  BY EmptySeq, LenProperties
<1>2. Head(s) = s[1] /\ Head(s) \in Procs
  BY <1>1, ElementOfSeq
<1> QED
  BY <1>1, <1>2, HeadTailProperties

(* dequeue() of an empty queue changes no queue and returns NULL. *)
LEMMA TakeNothing ==
  ASSUME ControlInv, NEW t \in Threads, TakeProc(t), ready[priority_queue[t]] = << >>
  PROVE  UNCHANGED <<ready, hand, owners>>
<1>1. ready' = ready
  BY DEF ControlInv, SchedTypeOK, TakeProc, Queue!Dequeued
<1>2. hand[t] = NoProc
  BY DEF ControlInv, HandInv, Searching, SchedPcs, TakeProc, Goto
<1>3. hand' = hand
  BY <1>2 DEF ControlInv, SchedTypeOK, TakeProc, Queue!Front
<1> QED
  BY <1>1, <1>3 DEF TakeProc

(* dequeue() of another queue takes its first process and moves the others
   up. *)
LEMMA TakeMoves ==
  ASSUME ControlInv, NEW t \in Threads, TakeProc(t), ready[priority_queue[t]] # << >>
  PROVE  \E q \in Prios, h \in Procs :
            /\ At(h, q, 1)
            /\ ready' \in [Prios -> Seq(Procs)]
            /\ hand' = [hand EXCEPT ![t] = h]
            /\ Len(ready'[q]) = Len(ready[q]) - 1 /\ Len(ready[q]) \in Nat \ {0}
            /\ \A i \in 1..Len(ready'[q]) : ready'[q][i] = ready[q][i + 1]
            /\ \A r \in Prios : r # q => ready'[r] = ready[r]
<1>1. PICK q, h : q = priority_queue[t] /\ h = Head(ready[q])
  OBVIOUS
<1>2. q \in Prios /\ ready[q] \in Seq(Procs) /\ ready[q] # << >>
  BY <1>1 DEF ControlInv, SchedTypeOK
<1>3. ready' = [ready EXCEPT ![q] = Tail(ready[q])] /\ hand' = [hand EXCEPT ![t] = h]
  BY <1>1 DEF TakeProc, Queue!Dequeued, Queue!Front
<1>4. ready'[q] = Tail(ready[q]) /\ \A r \in Prios : r # q => ready'[r] = ready[r]
  BY <1>2, <1>3 DEF ControlInv, SchedTypeOK
<1>5. ready' \in [Prios -> Seq(Procs)]
  BY <1>2, <1>3, TailOfQueue DEF ControlInv, SchedTypeOK
<1>6. h \in Procs /\ At(h, q, 1)
  BY <1>1, <1>2, TailOfQueue DEF At
<1>7. /\ Len(ready'[q]) = Len(ready[q]) - 1 /\ Len(ready[q]) \in Nat \ {0}
      /\ \A i \in 1..Len(ready'[q]) : ready'[q][i] = ready[q][i + 1]
  BY <1>2, <1>4, TailOfQueue
<1> QED
  BY <1>2, <1>3, <1>4, <1>5, <1>6, <1>7

(* enqueue() of a kept process puts it behind the others. *)
LEMMA PutKeeps ==
  ASSUME ControlInv, NEW t \in Threads, PutProc(t),
         NEW p, p = hand[t], NEW q, q = Prio[p], q < MAX_PRIO, Len(ready[q]) < Capacity
  PROVE  /\ q \in Prios /\ p \in Procs /\ lost' = lost
         /\ ready' \in [Prios -> Seq(Procs)]
         /\ Len(ready'[q]) = Len(ready[q]) + 1 /\ Len(ready[q]) \in Nat
         /\ ready'[q][Len(ready[q]) + 1] = p
         /\ \A i \in 1..Len(ready[q]) : ready'[q][i] = ready[q][i]
         /\ \A r \in Prios : r # q => ready'[r] = ready[r]
<1>1. p \in Procs
  BY DEF ControlInv, SchedTypeOK, HandInv, PutProc, Goto
<1>2. q \in Prios /\ ready[q] \in Seq(Procs) /\ lost' = lost
  BY <1>1 DEF ControlInv, SchedTypeOK, Prios, PutProc
<1>3. ready' = [ready EXCEPT ![q] = Append(ready[q], p)]
  BY <1>1 DEF PutProc, Queue!Enqueued
<1>4. ready'[q] = Append(ready[q], p) /\ \A r \in Prios : r # q => ready'[r] = ready[r]
  BY <1>2, <1>3 DEF ControlInv, SchedTypeOK
<1>5. ready' \in [Prios -> Seq(Procs)]
  BY <1>1, <1>2, <1>3, AppendProperties DEF ControlInv, SchedTypeOK
<1> QED
  BY <1>1, <1>2, <1>4, <1>5, AppendProperties, LenProperties

(* Every other process put_mlq_proc is given is lost, and no queue changes. *)
LEMMA PutLoses ==
  ASSUME ControlInv, NEW t \in Threads, PutProc(t),
         NEW p, p = hand[t], ~(Prio[p] < MAX_PRIO /\ Len(ready[Prio[p]]) < Capacity)
  PROVE  p \in Procs /\ ready' = ready /\ lost' = lost \cup {p}
<1>1. p \in Procs
  BY DEF ControlInv, SchedTypeOK, HandInv, PutProc, Goto
<1>2. lost' = lost \cup {p}
  BY DEF PutProc
<1>3. ready' = ready
  BY <1>1 DEF ControlInv, SchedTypeOK, PutProc, Queue!Enqueued
<1> QED
  BY <1>1, <1>2, <1>3

-----------------------------------------------------------------------------
(* The control of the steps that move a process.                           *)

(* dequeue() is called with the index of a queue, under the lock. *)
LEMMA TakeProcControl ==
  ASSUME ControlInv, NEW t \in Threads, TakeProc(t)
  PROVE  ControlInv'
<1>1. ready' \in [Prios -> Seq(Procs)] /\ hand' \in [Threads -> Procs \cup {NoProc}]
  <2>1. CASE ready[priority_queue[t]] = << >>
    BY <2>1, TakeNothing DEF ControlInv, SchedTypeOK, owners
  <2>2. CASE ready[priority_queue[t]] # << >>
    <3>1. PICK h \in Procs : hand' = [hand EXCEPT ![t] = h] /\ ready' \in [Prios -> Seq(Procs)]
      BY <2>2, TakeMoves
    <3> QED
      BY <3>1 DEF ControlInv, SchedTypeOK
  <2> QED
    BY <2>1, <2>2
<1>2. sawEmpty' \in SUBSET Threads
  BY DEF ControlInv, SchedTypeOK, TakeProc
<1>3. SchedTypeOK'
  BY <1>1, <1>2 DEF ControlInv, SchedTypeOK, TakeProc, Goto, SchedPcs, locals, owners
<1>4. TmpInv'
  BY DEF ControlInv, SchedTypeOK, TmpInv, TakeProc, Goto, SchedPcs, locals
<1>5. LockInv'
  BY DEF ControlInv, SchedTypeOK, LockInv, TakeProc, Goto
<1>6. HandInv'
  BY DEF ControlInv, SchedTypeOK, HandInv, TakeProc, Goto, Searching, SchedPcs
<1> QED
  BY <1>3, <1>4, <1>5, <1>6 DEF ControlInv

(* put_proc returns without a process. *)
LEMMA PutProcControl ==
  ASSUME ControlInv, NEW t \in Threads, PutProc(t)
  PROVE  ControlInv'
<1>1. ready' \in [Prios -> Seq(Procs)] /\ lost' \in SUBSET Procs
  <2>1. CASE Prio[hand[t]] < MAX_PRIO /\ Len(ready[Prio[hand[t]]]) < Capacity
    BY <2>1, PutKeeps DEF ControlInv, SchedTypeOK
  <2>2. CASE ~(Prio[hand[t]] < MAX_PRIO /\ Len(ready[Prio[hand[t]]]) < Capacity)
    BY <2>2, PutLoses, SMTT(30) DEF ControlInv, SchedTypeOK
  <2> QED
    BY <2>1, <2>2
<1>2. SchedTypeOK'
  BY <1>1 DEF ControlInv, SchedTypeOK, PutProc, Goto, SchedPcs, locals
<1>3. TmpInv'
  BY DEF ControlInv, SchedTypeOK, TmpInv, PutProc, Goto, SchedPcs, locals
<1>4. LockInv'
  BY DEF ControlInv, SchedTypeOK, LockInv, PutProc, Goto, Threads
<1>5. HandInv'
  BY DEF ControlInv, SchedTypeOK, HandInv, PutProc, Goto, Searching, SchedPcs
<1> QED
  BY <1>2, <1>3, <1>4, <1>5 DEF ControlInv

(* The loader reads a process only while it has none. *)
LEMMA LoadProcControl ==
  ASSUME ControlInv, NEW p \in Procs, LoadProc(p)
  PROVE  ControlInv'
<1>1. SchedTypeOK'
  BY DEF ControlInv, SchedTypeOK, LoadProc, SchedPcs, locals
<1>2. TmpInv' /\ LockInv'
  BY DEF ControlInv, SchedTypeOK, TmpInv, LockInv, LoadProc, locals
<1>3. HandInv'
  BY DEF ControlInv, SchedTypeOK, HandInv, LoadProc, Searching, SchedPcs
<1> QED
  BY <1>1, <1>2, <1>3 DEF ControlInv

(* A CPU frees a process outside the scheduler. *)
LEMMA FreeProcControl ==
  ASSUME ControlInv, NEW t \in Threads, FreeProc(t)
  PROVE  ControlInv'
<1>1. SchedTypeOK'
  BY DEF ControlInv, SchedTypeOK, FreeProc, SchedPcs, locals
<1>2. TmpInv' /\ LockInv'
  BY DEF ControlInv, SchedTypeOK, TmpInv, LockInv, FreeProc, locals
<1>3. HandInv'
  BY DEF ControlInv, SchedTypeOK, HandInv, FreeProc, Searching, SchedPcs
<1> QED
  BY <1>1, <1>2, <1>3 DEF ControlInv

-----------------------------------------------------------------------------
(* Where the processes are.                                                *)

(* A step that moves no process. *)
LEMMA QuietPlace ==
  ASSUME PlaceInv, UNCHANGED <<ready, hand, owners>>
  PROVE  PlaceInv'
BY DEF PlaceInv, OnePlace, QueuesWellFormed, NoneForgotten, Queued, Held, At, owners

(* load(): a fresh process comes into the hand of the loader. *)
LEMMA LoadPlace ==
  ASSUME ControlInv, PlaceInv, NEW p \in Procs, LoadProc(p)
  PROVE  PlaceInv'
<1>1. /\ hand[Loader] = NoProc /\ hand' = [hand EXCEPT ![Loader] = p]
      /\ fresh' = fresh \ {p} /\ p \in fresh
      /\ ready' = ready /\ finished' = finished /\ lost' = lost
  BY DEF LoadProc
<1>2. \A x \in Procs : Queued(x)' <=> Queued(x)
  BY <1>1 DEF Queued, At
<1>3. \A x \in Procs : Held(x)' <=> Held(x) \/ x = p
  BY <1>1 DEF Held, ControlInv, SchedTypeOK, Threads
<1>4. OnePlace'
  <2>1. \A t, u \in Threads : hand'[t] = hand'[u] /\ hand'[t] # NoProc => t = u
    BY <1>1 DEF PlaceInv, OnePlace, Held, ControlInv, SchedTypeOK, Threads
  <2>2. \A x \in Procs :
          /\ Held(x)' => ~Queued(x)'
          /\ x \in fresh' \cup finished' \cup lost' => ~Held(x)' /\ ~Queued(x)'
    BY <1>1, <1>2, <1>3 DEF PlaceInv, OnePlace
  <2> QED
    BY <1>1, <2>1, <2>2 DEF PlaceInv, OnePlace, At
<1>5. QueuesWellFormed'
  BY <1>1 DEF PlaceInv, QueuesWellFormed
<1>6. NoneForgotten'
  BY <1>1, <1>2, <1>3 DEF PlaceInv, NoneForgotten
<1> QED
  BY <1>4, <1>5, <1>6 DEF PlaceInv

(* free(): a process leaves the hand of its CPU for good. *)
LEMMA FreePlace ==
  ASSUME ControlInv, PlaceInv, NEW t \in Threads, FreeProc(t)
  PROVE  PlaceInv'
<1> DEFINE p == hand[t]
<1>1. /\ p # NoProc /\ hand' = [hand EXCEPT ![t] = NoProc]
      /\ finished' = finished \cup {p}
      /\ ready' = ready /\ fresh' = fresh /\ lost' = lost
  BY DEF FreeProc
<1>2. p \in Procs /\ Held(p)
  BY <1>1 DEF ControlInv, SchedTypeOK, Held
<1>3. \A x \in Procs : Queued(x)' <=> Queued(x)
  BY <1>1 DEF Queued, At
<1>4. \A x \in Procs : Held(x)' <=> Held(x) /\ x # p
  BY <1>1, <1>2 DEF Held, ControlInv, SchedTypeOK, PlaceInv, OnePlace
<1> HIDE DEF p
<1>5. OnePlace'
  <2>1. \A u, v \in Threads : hand'[u] = hand'[v] /\ hand'[u] # NoProc => u = v
    BY <1>1 DEF PlaceInv, OnePlace, ControlInv, SchedTypeOK
  <2>2. \A x \in Procs :
          /\ Held(x)' => ~Queued(x)'
          /\ x \in fresh' \cup finished' \cup lost' => ~Held(x)' /\ ~Queued(x)'
    BY <1>1, <1>2, <1>3, <1>4 DEF PlaceInv, OnePlace
  <2>3. p \notin fresh \cup lost
    BY <1>2 DEF PlaceInv, OnePlace
  <2> QED
    BY <1>1, <2>1, <2>2, <2>3 DEF PlaceInv, OnePlace, At
<1>6. QueuesWellFormed'
  BY <1>1 DEF PlaceInv, QueuesWellFormed
<1>7. NoneForgotten'
  BY <1>1, <1>3, <1>4 DEF PlaceInv, NoneForgotten
<1> QED
  BY <1>5, <1>6, <1>7 DEF PlaceInv

(* get_proc: the head of a queue comes into the hand of the CPU. *)
LEMMA TakePlace ==
  ASSUME ControlInv, PlaceInv, NEW t \in Threads, TakeProc(t), ready[priority_queue[t]] # << >>
  PROVE  PlaceInv'
<1>1. PICK q \in Prios, h \in Procs :
      /\ At(h, q, 1)
      /\ ready' \in [Prios -> Seq(Procs)]
      /\ hand' = [hand EXCEPT ![t] = h]
      /\ Len(ready'[q]) = Len(ready[q]) - 1 /\ Len(ready[q]) \in Nat \ {0}
      /\ \A i \in 1..Len(ready'[q]) : ready'[q][i] = ready[q][i + 1]
      /\ \A r \in Prios : r # q => ready'[r] = ready[r]
  BY TakeMoves
<1>2. hand[t] = NoProc /\ fresh' = fresh /\ finished' = finished /\ lost' = lost
  BY DEF ControlInv, HandInv, Searching, SchedPcs, TakeProc, Goto, owners
<1>3. \A x \in Procs, r \in Prios : \A i \in 1..Len(ready'[r]) :
        At(x, r, i)' => LET j == IF r = q THEN i + 1 ELSE i
                        IN  j \in 1..Len(ready[r]) /\ At(x, r, j)
  <2> SUFFICES ASSUME NEW x \in Procs, NEW r \in Prios, NEW i \in 1..Len(ready'[r]), At(x, r, i)'
               PROVE  LET j == IF r = q THEN i + 1 ELSE i IN j \in 1..Len(ready[r]) /\ At(x, r, j)
    OBVIOUS
  <2>1. CASE r = q
    BY <1>1, <2>1 DEF At
  <2>2. CASE r # q
    BY <1>1, <2>2 DEF At
  <2> QED
    BY <2>1, <2>2
<1>4. \A x \in Procs : Queued(x)' => Queued(x) /\ x # h
  <2> SUFFICES ASSUME NEW x \in Procs, NEW r \in Prios, NEW i \in 1..Len(ready'[r]), At(x, r, i)'
               PROVE  Queued(x) /\ x # h
    BY DEF Queued
  <2>1. PICK j \in 1..Len(ready[r]) : At(x, r, j) /\ (r = q => j # 1)
    <3>1. PICK j : j = IF r = q THEN i + 1 ELSE i
      OBVIOUS
    <3>2. j \in 1..Len(ready[r]) /\ At(x, r, j)
      BY <1>3, <3>1
    <3>3. r = q => j # 1
      BY <1>1, <3>1
    <3> QED
      BY <3>2, <3>3
  <2>2. 1 \in 1..Len(ready[q])
    BY <1>1
  <2> QED
    BY <1>1, <2>1, <2>2 DEF PlaceInv, OnePlace, Queued
<1>5. \A x \in Procs : Queued(x) => Queued(x)' \/ x = h
  <2> SUFFICES ASSUME NEW x \in Procs, NEW r \in Prios, NEW i \in 1..Len(ready[r]), At(x, r, i), x # h
               PROVE  Queued(x)'
    BY DEF Queued
  <2>1. CASE r = q
    <3>1. i # 1
      BY <1>1, <2>1 DEF At
    <3>2. i - 1 \in 1..Len(ready'[r]) /\ ready'[r][i - 1] = ready[r][i]
      BY <1>1, <2>1, <3>1
    <3> QED
      BY <3>2 DEF Queued, At
  <2>2. CASE r # q
    BY <1>1, <2>2 DEF Queued, At
  <2> QED
    BY <2>1, <2>2
<1>6. \A x \in Procs : Held(x)' <=> Held(x) \/ x = h
  BY <1>1, <1>2, SMTT(30) DEF Held, ControlInv, SchedTypeOK
<1>7. Queued(h)
  BY <1>1 DEF Queued, At
<1>8. OnePlace'
  <2>1. \A x \in Procs, r, u \in Prios : \A i \in 1..Len(ready'[r]), j \in 1..Len(ready'[u]) :
          At(x, r, i)' /\ At(x, u, j)' => r = u /\ i = j
    <3> SUFFICES ASSUME NEW x \in Procs, NEW r \in Prios, NEW u \in Prios,
                        NEW i \in 1..Len(ready'[r]), NEW j \in 1..Len(ready'[u]),
                        At(x, r, i)', At(x, u, j)'
                 PROVE  r = u /\ i = j
      OBVIOUS
    <3>1. PICK k \in 1..Len(ready[r]) : At(x, r, k) /\ k = IF r = q THEN i + 1 ELSE i
      BY <1>3
    <3>2. PICK l \in 1..Len(ready[u]) : At(x, u, l) /\ l = IF u = q THEN j + 1 ELSE j
      BY <1>3
    <3>3. r = u /\ k = l
      BY <3>1, <3>2 DEF PlaceInv, OnePlace
    <3> QED
      BY <3>1, <3>2, <3>3
  <2>2. \A u, v \in Threads : hand'[u] = hand'[v] /\ hand'[u] # NoProc => u = v
    BY <1>1, <1>7 DEF PlaceInv, OnePlace, Held, ControlInv, SchedTypeOK
  <2>3. \A x \in Procs :
          /\ Held(x)' => ~Queued(x)'
          /\ x \in fresh' \cup finished' \cup lost' => ~Held(x)' /\ ~Queued(x)'
    BY <1>2, <1>4, <1>6, <1>7 DEF PlaceInv, OnePlace
  <2> QED
    BY <1>2, <2>1, <2>2, <2>3 DEF PlaceInv, OnePlace
<1>9. QueuesWellFormed'
  <2> SUFFICES ASSUME NEW r \in Prios
               PROVE  Len(ready'[r]) <= Capacity /\ \A i \in 1..Len(ready'[r]) : Prio[ready'[r][i]] = r
    BY DEF QueuesWellFormed
  <2>1. CASE r = q
    <3>1. Len(ready[q]) <= Capacity /\ \A j \in 1..Len(ready[q]) : Prio[ready[q][j]] = q
      BY <1>1 DEF PlaceInv, QueuesWellFormed
    <3>2. \A i \in 1..Len(ready'[q]) : i + 1 \in 1..Len(ready[q])
      BY <1>1
    <3>3. Len(ready'[q]) <= Capacity
      BY <1>1, <3>1
    <3>4. ASSUME NEW i \in 1..Len(ready'[q])
          PROVE  Prio[ready'[q][i]] = q
      <4>1. ready'[q][i] = ready[q][i + 1]
        BY <1>1
      <4> QED
        BY <3>1, <3>2, <4>1
    <3> QED
      BY <2>1, <3>3, <3>4
  <2>2. CASE r # q
    BY <1>1, <2>2 DEF PlaceInv, QueuesWellFormed
  <2> QED
    BY <2>1, <2>2
<1>10. NoneForgotten'
  BY <1>2, <1>5, <1>6 DEF PlaceInv, NoneForgotten
<1> QED
  BY <1>8, <1>9, <1>10 DEF PlaceInv

(* put_proc and add_proc: the process goes from the hand behind the others of
   its priority, or it is lost. *)
LEMMA PutPlace ==
  ASSUME ControlInv, PlaceInv, NEW t \in Threads, PutProc(t)
  PROVE  PlaceInv'
<1>1. PICK p : p = hand[t]
  OBVIOUS
<1>2. p \in Procs /\ p # NoProc /\ Held(p)
  BY <1>1 DEF ControlInv, SchedTypeOK, HandInv, PutProc, Goto, Held
<1>3. hand' = [hand EXCEPT ![t] = NoProc] /\ fresh' = fresh /\ finished' = finished
  BY DEF PutProc
<1>4. ~Queued(p) /\ p \notin fresh \cup finished \cup lost
  BY <1>2 DEF PlaceInv, OnePlace
<1>5. \A x \in Procs : Held(x)' <=> Held(x) /\ x # p
  BY <1>1, <1>2, <1>3, SMTT(30) DEF Held, ControlInv, SchedTypeOK, PlaceInv, OnePlace
<1>6. \A u, v \in Threads : hand'[u] = hand'[v] /\ hand'[u] # NoProc => u = v
  BY <1>3 DEF PlaceInv, OnePlace, ControlInv, SchedTypeOK
<1>7. CASE Prio[p] < MAX_PRIO /\ Len(ready[Prio[p]]) < Capacity
  <2>1. PICK q : q = Prio[p]
    OBVIOUS
  <2>2. /\ q \in Prios /\ lost' = lost
        /\ ready' \in [Prios -> Seq(Procs)]
        /\ Len(ready'[q]) = Len(ready[q]) + 1 /\ Len(ready[q]) \in Nat
        /\ ready'[q][Len(ready[q]) + 1] = p
        /\ \A i \in 1..Len(ready[q]) : ready'[q][i] = ready[q][i]
        /\ \A r \in Prios : r # q => ready'[r] = ready[r]
    BY <1>1, <1>7, <2>1, PutKeeps, SMTT(30)
  <2>3. \A x \in Procs, r \in Prios : \A i \in 1..Len(ready'[r]) :
          At(x, r, i)' => \/ i \in 1..Len(ready[r]) /\ At(x, r, i)
                          \/ x = p /\ r = q /\ i = Len(ready[q]) + 1
    <3> SUFFICES ASSUME NEW x \in Procs, NEW r \in Prios, NEW i \in 1..Len(ready'[r]), At(x, r, i)'
                 PROVE  \/ i \in 1..Len(ready[r]) /\ At(x, r, i)
                        \/ x = p /\ r = q /\ i = Len(ready[q]) + 1
      OBVIOUS
    <3>1. CASE r = q
      BY <2>2, <3>1, SMTT(30) DEF At
    <3>2. CASE r # q
      BY <2>2, <3>2 DEF At
    <3> QED
      BY <3>1, <3>2
  <2>4. \A x \in Procs : Queued(x)' => Queued(x) \/ x = p
    BY <2>3 DEF Queued
  <2>5. \A x \in Procs : Queued(x) => Queued(x)'
    <3> SUFFICES ASSUME NEW x \in Procs, NEW r \in Prios, NEW i \in 1..Len(ready[r]), At(x, r, i)
                 PROVE  i \in 1..Len(ready'[r]) /\ At(x, r, i)'
      BY DEF Queued
    <3>1. CASE r = q
      BY <2>2, <3>1 DEF At
    <3>2. CASE r # q
      BY <2>2, <3>2 DEF At
    <3> QED
      BY <3>1, <3>2
  <2>6. Queued(p)'
    <3>1. Len(ready[q]) + 1 \in 1..Len(ready'[q])
      BY <2>2
    <3> QED
      BY <2>2, <3>1 DEF Queued, At
  <2>7. OnePlace'
    <3>1. \A x \in Procs, r, u \in Prios : \A i \in 1..Len(ready'[r]), j \in 1..Len(ready'[u]) :
            At(x, r, i)' /\ At(x, u, j)' => r = u /\ i = j
      <4> SUFFICES ASSUME NEW x \in Procs, NEW r \in Prios, NEW u \in Prios,
                          NEW i \in 1..Len(ready'[r]), NEW j \in 1..Len(ready'[u]),
                          At(x, r, i)', At(x, u, j)'
                   PROVE  r = u /\ i = j
        OBVIOUS
      <4>1. CASE x = p
        BY <1>4, <2>3, <4>1 DEF Queued
      <4>2. CASE x # p
        BY <2>3, <4>2 DEF PlaceInv, OnePlace
      <4> QED
        BY <4>1, <4>2
    <3>2. \A x \in Procs :
            /\ Held(x)' => ~Queued(x)'
            /\ x \in fresh' \cup finished' \cup lost' => ~Held(x)' /\ ~Queued(x)'
      BY <1>3, <1>4, <1>5, <2>2, <2>4 DEF PlaceInv, OnePlace
    <3> QED
      BY <1>3, <1>6, <2>2, <3>1, <3>2 DEF PlaceInv, OnePlace
  <2>8. QueuesWellFormed'
    <3> SUFFICES ASSUME NEW r \in Prios
                 PROVE  Len(ready'[r]) <= Capacity /\ \A i \in 1..Len(ready'[r]) : Prio[ready'[r][i]] = r
      BY DEF QueuesWellFormed
    <3>1. CASE r = q
      <4>1. \A i \in 1..Len(ready[q]) : Prio[ready[q][i]] = q
        BY <2>2 DEF PlaceInv, QueuesWellFormed
      <4>2. \A i \in 1..Len(ready'[q]) : i \in 1..Len(ready[q]) \/ i = Len(ready[q]) + 1
        BY <2>2
      <4>3. Len(ready'[q]) <= Capacity
        BY <1>7, <2>1, <2>2
      <4>4. \A i \in 1..Len(ready'[q]) : Prio[ready'[q][i]] = q
        BY <2>1, <2>2, <4>1, <4>2, SMTT(30)
      <4> QED
        BY <3>1, <4>3, <4>4
    <3>2. CASE r # q
      BY <2>2, <3>2 DEF PlaceInv, QueuesWellFormed
    <3> QED
      BY <3>1, <3>2
  <2>9. NoneForgotten'
    BY <1>3, <1>5, <2>2, <2>5, <2>6 DEF PlaceInv, NoneForgotten
  <2> QED
    BY <2>7, <2>8, <2>9 DEF PlaceInv
<1>8. CASE ~(Prio[p] < MAX_PRIO /\ Len(ready[Prio[p]]) < Capacity)
  <2>1. ready' = ready /\ lost' = lost \cup {p}
    BY <1>1, <1>8, PutLoses
  <2>2. \A x \in Procs : Queued(x)' <=> Queued(x)
    BY <2>1 DEF Queued, At
  <2>3. OnePlace'
    <3>1. \A x \in Procs :
            /\ Held(x)' => ~Queued(x)'
            /\ x \in fresh' \cup finished' \cup lost' => ~Held(x)' /\ ~Queued(x)'
      BY <1>3, <1>4, <1>5, <2>1, <2>2 DEF PlaceInv, OnePlace
    <3> QED
      BY <1>3, <1>4, <1>6, <2>1, <3>1 DEF PlaceInv, OnePlace, At
  <2>4. QueuesWellFormed'
    BY <2>1 DEF PlaceInv, QueuesWellFormed
  <2>5. NoneForgotten'
    BY <1>3, <1>5, <2>1, <2>2 DEF PlaceInv, NoneForgotten
  <2> QED
    BY <2>3, <2>4, <2>5 DEF PlaceInv
<1> QED
  BY <1>7, <1>8

(* What TakeProc() takes was queued, and what is queued then was before. *)
LEMMA TakenFromQueue ==
  ASSUME ControlInv, NEW t \in Threads, TakeProc(t), ready[priority_queue[t]] # << >>
  PROVE  /\ \A x \in Procs : Queued(x)' => Queued(x)
         /\ hand'[t] \in Procs /\ Queued(hand'[t])
<1>1. PICK q \in Prios, h \in Procs :
      /\ At(h, q, 1)
      /\ ready' \in [Prios -> Seq(Procs)]
      /\ hand' = [hand EXCEPT ![t] = h]
      /\ Len(ready'[q]) = Len(ready[q]) - 1 /\ Len(ready[q]) \in Nat \ {0}
      /\ \A i \in 1..Len(ready'[q]) : ready'[q][i] = ready[q][i + 1]
      /\ \A r \in Prios : r # q => ready'[r] = ready[r]
  BY TakeMoves
<1>2. ASSUME NEW x \in Procs, NEW r \in Prios, NEW i \in 1..Len(ready'[r]), At(x, r, i)'
      PROVE  Queued(x)
  <2>1. CASE r = q
    <3>1. i + 1 \in 1..Len(ready[q]) /\ ready[q][i + 1] = x
      BY <1>1, <1>2, <2>1 DEF At
    <3> QED
      BY <1>1, <3>1 DEF Queued, At
  <2>2. CASE r # q
    BY <1>1, <1>2, <2>2 DEF Queued, At
  <2> QED
    BY <2>1, <2>2
<1>3. Queued(h)
  BY <1>1 DEF Queued, At
<1>4. hand'[t] = h
  BY <1>1 DEF ControlInv, SchedTypeOK
<1> QED
  BY <1>1, <1>2, <1>3, <1>4 DEF Queued

(* Where the processes go in a step of a thread inside sched.c: out of a queue
   into a free hand, or out of the hand that puts. *)
LEMMA SchedStepOwners ==
  ASSUME ControlInv, NEW t \in Threads, SchedStep(t)
  PROVE  /\ \A x \in Procs : Queued(x)' => Queued(x) \/ (spc[t] = "put" /\ hand[t] = x)
         /\ \A x \in Procs : hand'[t] = x => hand[t] = x \/ (spc[t] = "take" /\ Queued(x))
         /\ hand[t] # NoProc /\ spc[t] # "put" => hand'[t] = hand[t]
         /\ spc[t] = "put" => hand'[t] = NoProc /\ spc'[t] = "idle"
         /\ UNCHANGED <<fresh, finished>>
<1>1. CASE TakeProc(t)
  <2>1. spc[t] = "take" /\ hand[t] = NoProc /\ UNCHANGED <<fresh, finished>>
    BY <1>1 DEF ControlInv, HandInv, Searching, SchedPcs, TakeProc, Goto, owners
  <2>2. CASE ready[priority_queue[t]] = << >>
    <3>1. ready' = ready /\ hand' = hand
      BY <1>1, <2>2, TakeNothing
    <3> QED
      BY <2>1, <3>1 DEF Queued, At
  <2>3. CASE ready[priority_queue[t]] # << >>
    BY <1>1, <2>1, <2>3, TakenFromQueue
  <2> QED
    BY <2>2, <2>3
<1>2. CASE PutProc(t)
  <2>1. spc[t] = "put" /\ hand'[t] = NoProc /\ spc'[t] = "idle" /\ UNCHANGED <<fresh, finished>>
    BY <1>2 DEF ControlInv, SchedTypeOK, PutProc, Goto
  <2>2. PICK p, q : p = hand[t] /\ q = Prio[p]
    OBVIOUS
  <2>3. \A x \in Procs : Queued(x)' => Queued(x) \/ hand[t] = x
    <3>1. CASE q < MAX_PRIO /\ Len(ready[q]) < Capacity
      <4>1. /\ Len(ready'[q]) = Len(ready[q]) + 1 /\ Len(ready[q]) \in Nat
            /\ ready'[q][Len(ready[q]) + 1] = p
            /\ \A i \in 1..Len(ready[q]) : ready'[q][i] = ready[q][i]
            /\ \A r \in Prios : r # q => ready'[r] = ready[r]
        BY <1>2, <2>2, <3>1, PutKeeps
      <4>2. ASSUME NEW x \in Procs, NEW r \in Prios, NEW i \in 1..Len(ready'[r]), At(x, r, i)', x # p
            PROVE  Queued(x)
        <5>1. i \in 1..Len(ready[r]) /\ ready[r][i] = x
          BY <4>1, <4>2 DEF At
        <5> QED
          BY <5>1 DEF Queued, At
      <4> QED
        BY <2>2, <4>2 DEF Queued
    <3>2. CASE ~(q < MAX_PRIO /\ Len(ready[q]) < Capacity)
      <4>1. ready' = ready
        BY <1>2, <2>2, <3>2, PutLoses
      <4> QED
        BY <4>1 DEF Queued, At
    <3> QED
      BY <3>1, <3>2
  <2>4. NoProc \notin Procs
    OBVIOUS
  <2> QED
    BY <2>1, <2>3, <2>4
<1>3. CASE ~TakeProc(t) /\ ~PutProc(t)
  <2>1. UNCHANGED <<ready, hand, fresh, finished>> /\ spc[t] # "put"
    BY <1>3 DEF SchedStep, GetStep, Goto, FoundNonempty, FoundEmpty, ReturnNull, ReadQuota, PickQueue,
       TestSize, TestSlots, LoadPrio, StorePrio, TestWrap, ResetSlots, Rewind, LockQueue,
       LoadSlots, ChargeSlot, owners
  <2> QED
    BY <2>1 DEF Queued, At
<1> QED
  BY <1>1, <1>2, <1>3

-----------------------------------------------------------------------------
(* The theorems.                                                           *)

(* Before the first call every process is still to be loaded. *)
LEMMA InitPlace == SchedInit => PlaceInv
BY DEF SchedInit, PlaceInv, OnePlace, QueuesWellFormed, NoneForgotten, Held, Queued, At

(* One step of a thread inside sched.c. *)
LEMMA SchedStepKeeps ==
  ASSUME SchedInv, NEW t \in Threads, SchedStep(t)
  PROVE  SchedInv'
<1> USE DEF SchedInv
<1>1. CASE TakeProc(t)
  <2>1. ControlInv'
    BY <1>1, TakeProcControl
  <2>2. PlaceInv'
    BY <1>1, TakeNothing, QuietPlace, TakePlace
  <2> QED
    BY <2>1, <2>2
<1>2. CASE PutProc(t)
  BY <1>2, PutProcControl, PutPlace
<1>3. CASE SchedStep(t) /\ ~TakeProc(t) /\ ~PutProc(t)
  <2>1. ControlInv'
    BY <1>3, FoundNonemptyControl, FoundEmptyControl, ReturnNullControl, ReadQuotaControl,
       PickQueueControl, TestSizeControl, TestSlotsControl, LoadPrioControl, StorePrioControl,
       TestWrapControl, ResetSlotsControl, RewindControl, LockQueueControl, LoadSlotsControl,
       ChargeSlotControl
       DEF SchedStep, GetStep
  <2>2. UNCHANGED <<ready, hand, owners>>
    BY <1>3 DEF SchedStep, GetStep, FoundNonempty, FoundEmpty, ReturnNull, ReadQuota, PickQueue,
       TestSize, TestSlots, LoadPrio, StorePrio, TestWrap, ResetSlots, Rewind, LockQueue,
       LoadSlots, ChargeSlot
  <2> QED
    BY <2>1, <2>2, QuietPlace
<1> QED
  BY <1>1, <1>2, <1>3

(* A step of the callers. *)
LEMMA CallerKeeps ==
  ASSUME SchedInv, (\E c \in Cpus : CpuCall(c) \/ FreeProc(c)) \/ LoaderCall
  PROVE  SchedInv'
<1> USE DEF SchedInv
<1>1. ASSUME NEW t \in Threads, CallGet(t) \/ CallPut(t)
      PROVE  SchedInv'
  <2>1. UNCHANGED <<ready, hand, owners>>
    BY <1>1 DEF CallGet, CallPut
  <2> QED
    BY <1>1, <2>1, CallGetControl, CallPutControl, QuietPlace
<1>2. ASSUME NEW t \in Threads, FreeProc(t)
      PROVE  SchedInv'
  BY <1>2, FreeProcControl, FreePlace
<1>3. ASSUME NEW p \in Procs, LoadProc(p)
      PROVE  SchedInv'
  BY <1>3, LoadProcControl, LoadPlace
<1> QED
  BY <1>1, <1>2, <1>3 DEF CpuCall, LoaderCall, Threads

(* Every step of sched.c and of its callers, and those that leave it alone. *)
LEMMA SchedNextKeeps ==
  ASSUME SchedInv, [SchedNext]_schedVars
  PROVE  SchedInv'
<1>1. CASE SchedNext
  BY <1>1, SchedStepKeeps, CallerKeeps DEF SchedNext
<1>2. CASE UNCHANGED schedVars
  <2>1. ControlInv'
    BY <1>2 DEF SchedInv, ControlInv, SchedTypeOK, TmpInv, LockInv, HandInv, schedVars, locals, owners
  <2>2. PlaceInv'
    BY <1>2, QuietPlace DEF SchedInv, schedVars
  <2> QED
    BY <2>1, <2>2 DEF SchedInv
<1> QED
  BY <1>1, <1>2

(* The inductive invariant of the scheduler, for all its threads. *)
THEOREM SchedCorrect == SchedSafety => []SchedInv
<1>1. SchedInit => SchedInv
  BY InitControl, InitPlace DEF SchedInv
<1>2. SchedInv /\ [SchedNext]_schedVars => SchedInv'
  BY SchedNextKeeps
<1> QED
  BY <1>1, <1>2, PTL DEF SchedSafety

(* No queue index leaves the array, and every variable keeps its type. *)
THEOREM SchedTypeCorrect == SchedSafety => []SchedTypeOK
<1>1. SchedInv => SchedTypeOK
  BY DEF SchedInv, ControlInv
<1> QED
  BY <1>1, SchedCorrect, PTL

(* A process is never in two places: not twice in the queues, not with two
   CPUs, not queued while a CPU holds it, not reachable after free(). *)
THEOREM ProcessInOnePlace == SchedSafety => []OnePlace
<1>1. SchedInv => OnePlace
  BY DEF SchedInv, PlaceInv
<1> QED
  BY <1>1, SchedCorrect, PTL

(* A queue holds processes of its own priority only, and no more than fit. *)
THEOREM QueuesStayWellFormed == SchedSafety => []QueuesWellFormed
<1>1. SchedInv => QueuesWellFormed
  BY DEF SchedInv, PlaceInv
<1> QED
  BY <1>1, SchedCorrect, PTL

(* No process vanishes, except where enqueue() drops it. *)
THEOREM ProcessIsSomewhere == SchedSafety => []NoneForgotten
<1>1. SchedInv => NoneForgotten
  BY DEF SchedInv, PlaceInv
<1> QED
  BY <1>1, SchedCorrect, PTL

-----------------------------------------------------------------------------
(* With a single CPU: what the loads and stores without queue_lock cannot   *)
(* disturb.  (Two CPUs can overdraw a quota and can get NULL although a     *)
(* process waits, so these theorems have no second case.)                   *)

\* The loader never searches for a process.
LoaderInv == spc[Loader] \in {"idle", "put_lock", "put"}

\* What the CPU has read of the quota and of the slots is still true.
QuotaInv(c) ==
    /\ spc[c] = "pick" => designated_slots[c] = MAX_PRIO - current_prio
    /\ spc[c] \in {"size", "slots", "get_lock", "take", "charge_load", "charge"} =>
          designated_slots[c] = MAX_PRIO - priority_queue[c]
    /\ spc[c] \in {"get_lock", "take", "charge_load"} => slots[priority_queue[c]] # designated_slots[c]
    /\ spc[c] = "charge" => tmp[c] = slots[priority_queue[c]] /\ tmp[c] # designated_slots[c]

\* What the CPU has read of the queues is still true: the loader only adds.
StockInv(c) ==
    /\ spc[c] = "empty" /\ c \notin sawEmpty => \E q \in Prios : q >= tmp[c] /\ ready[q] # << >>
    /\ spc[c] \in {"slots", "get_lock", "take"} => ready[priority_queue[c]] # << >>
    /\ spc[c] \in {"charge_load", "charge"} => hand[c] # NoProc

(* Outside sched.c the loader only calls add_proc. *)
LEMMA LoaderKeeps ==
  ASSUME ControlInv, LoaderInv, [SchedNext]_schedVars
  PROVE  LoaderInv'
<1> USE DEF LoaderInv
<1>1. ASSUME NEW t \in Threads, GetStep(t)
      PROVE  t # Loader /\ spc' = [spc EXCEPT ![t] = spc'[t]]
  BY <1>1 DEF ControlInv, SchedTypeOK, GetStep, Goto, FoundNonempty, FoundEmpty, ReturnNull, ReadQuota,
     PickQueue, TestSize, TestSlots, LoadPrio, StorePrio, TestWrap, ResetSlots, Rewind, TakeProc,
     LoadSlots, ChargeSlot
<1>2. ASSUME NEW t \in Threads, LockQueue(t) \/ PutProc(t) \/ CallPut(t)
      PROVE  LoaderInv'
  <2>1. CASE LockQueue(t)
    <3>1. CASE spc[t] = "get_lock"
      BY <2>1, <3>1 DEF ControlInv, SchedTypeOK, LockQueue, Goto, Threads
    <3>2. CASE spc[t] # "get_lock"
      BY <2>1, <3>2 DEF ControlInv, SchedTypeOK, LockQueue, Goto, Threads
    <3> QED
      BY <3>1, <3>2
  <2>2. CASE PutProc(t) \/ CallPut(t)
    BY <2>2 DEF ControlInv, SchedTypeOK, PutProc, CallPut, Goto, Threads
  <2> QED
    BY <1>2, <2>1, <2>2
<1>3. ASSUME NEW t \in Cpus, CallGet(t)
      PROVE  LoaderInv'
  BY <1>3 DEF ControlInv, SchedTypeOK, CallGet, Goto, Threads
<1>4. ASSUME NEW t \in Threads, FreeProc(t)
      PROVE  LoaderInv'
  BY <1>4 DEF FreeProc
<1>5. ASSUME NEW p \in Procs, LoadProc(p)
      PROVE  LoaderInv'
  BY <1>5 DEF LoadProc
<1>6. CASE UNCHANGED schedVars
  BY <1>6 DEF schedVars
<1>7. ASSUME NEW t \in Threads, GetStep(t)
      PROVE  LoaderInv'
  BY <1>1, <1>7 DEF Threads, ControlInv, SchedTypeOK
<1> QED
  BY <1>2, <1>3, <1>4, <1>5, <1>6, <1>7 DEF SchedNext, SchedStep, CpuCall, LoaderCall, Threads

(* The steps of the CPU in get_mlq_proc, one at a time: the quota. *)
LEMMA GetStepQuota ==
  ASSUME ControlInv, NEW c \in Threads, QuotaInv(c), SlotsBounded, GetStep(c)
  PROVE  QuotaInv(c)' /\ SlotsBounded'
<1> USE DEF ControlInv, QuotaInv
<1>1. CASE FoundNonempty(c)
  BY <1>1 DEF SchedTypeOK, FoundNonempty, Goto, SlotsBounded, SchedPcs
<1>2. CASE FoundEmpty(c)
  BY <1>2 DEF SchedTypeOK, FoundEmpty, Goto, SlotsBounded, SchedPcs
<1>3. CASE ReturnNull(c)
  BY <1>3 DEF SchedTypeOK, ReturnNull, Goto, SlotsBounded, SchedPcs
<1>4. CASE ReadQuota(c)
  BY <1>4 DEF SchedTypeOK, ReadQuota, Goto, SlotsBounded, SchedPcs, TmpInv, Prios
<1>5. CASE PickQueue(c)
  BY <1>5 DEF SchedTypeOK, PickQueue, Goto, SlotsBounded, SchedPcs
<1>6. CASE TestSize(c)
  <2>1. CASE ready[priority_queue[c]] # << >>
    BY <1>6, <2>1 DEF SchedTypeOK, TestSize, Goto, SlotsBounded, locals
  <2>2. CASE ready[priority_queue[c]] = << >>
    BY <1>6, <2>2 DEF SchedTypeOK, TestSize, Goto, SlotsBounded, locals
  <2> QED
    BY <2>1, <2>2
<1>7. CASE TestSlots(c)
  <2>1. CASE OutOfSlots(c)
    BY <1>7, <2>1 DEF SchedTypeOK, TestSlots, Goto, SlotsBounded, locals
  <2>2. CASE ~OutOfSlots(c)
    BY <1>7, <2>2 DEF SchedTypeOK, TestSlots, Goto, SlotsBounded, OutOfSlots, locals
  <2> QED
    BY <2>1, <2>2
<1>8. CASE LoadPrio(c)
  BY <1>8 DEF SchedTypeOK, LoadPrio, Goto, SlotsBounded, SchedPcs
<1>9. CASE StorePrio(c)
  BY <1>9 DEF SchedTypeOK, StorePrio, Goto, SlotsBounded, SchedPcs
<1>10. CASE TestWrap(c)
  BY <1>10 DEF SchedTypeOK, TestWrap, Goto, SlotsBounded, SchedPcs
<1>11. CASE ResetSlots(c)
  <2>1. tmp[c] \in Prios /\ slots' = [slots EXCEPT ![tmp[c]] = 0]
    BY <1>11 DEF TmpInv, ResetSlots
  <2>2. SlotsBounded'
    <3>1. \A q \in Prios : 0 <= MAX_PRIO - q
      BY DEF Prios
    <3> QED
      BY <2>1, <3>1 DEF SchedTypeOK, SlotsBounded
  <2>3. spc'[c] \in {"reset", "rewind"}
    BY <1>11 DEF SchedTypeOK, ResetSlots
  <2> QED
    BY <2>2, <2>3
<1>12. CASE Rewind(c)
  BY <1>12 DEF SchedTypeOK, Rewind, Goto, SlotsBounded, SchedPcs
<1>13. CASE TakeProc(c)
  <2>1. spc[c] = "take" /\ spc'[c] = "charge_load" /\ UNCHANGED <<slots, designated_slots, priority_queue>>
    BY <1>13 DEF SchedTypeOK, TakeProc, Goto, locals
  <2> QED
    BY <2>1 DEF SlotsBounded
<1>14. CASE LoadSlots(c)
  BY <1>14 DEF SchedTypeOK, LoadSlots, Goto, SlotsBounded, SchedPcs
<1>15. CASE ChargeSlot(c)
  <2>1. PICK q \in Prios : q = priority_queue[c]
    BY DEF SchedTypeOK
  <2>2. spc'[c] = "idle" /\ spc[c] = "charge"
    BY <1>15 DEF SchedTypeOK, ChargeSlot, Goto
  <2>3. tmp[c] = slots[q] /\ slots[q] # MAX_PRIO - q /\ slots[q] \in Nat /\ slots[q] <= MAX_PRIO - q
    BY <2>1, <2>2 DEF SchedTypeOK, SlotsBounded
  <2>4. slots' = [slots EXCEPT ![q] = IF tmp[c] < SlotsCap THEN tmp[c] + 1 ELSE SlotsCap]
    BY <1>15, <2>1 DEF ChargeSlot
  <2>5. slots'[q] <= MAX_PRIO - q /\ \A r \in Prios : r # q => slots'[r] = slots[r]
    <3>1. q \in 0..MAX_PRIO - 1
      BY DEF Prios
    <3>2. tmp[c] < SlotsCap /\ slots[q] + 1 <= MAX_PRIO - q
      BY <2>3, <3>1 DEF SlotsCap
    <3> QED
      BY <2>3, <2>4, <3>2 DEF SchedTypeOK
  <2>6. SlotsBounded'
    BY <2>1, <2>5 DEF SlotsBounded
  <2> QED
    BY <2>2, <2>6
<1> QED
  BY <1>1, <1>2, <1>3, <1>4, <1>5, <1>6, <1>7, <1>8, <1>9, <1>10, <1>11, <1>12, <1>13, <1>14, <1>15 DEF GetStep

(* The same: the processes it found. *)
LEMMA GetStepStock ==
  ASSUME ControlInv, NEW c \in Threads, StockInv(c), GetStep(c)
  PROVE  StockInv(c)'
<1> USE DEF ControlInv, StockInv
<1>1. CASE FoundNonempty(c)
  BY <1>1 DEF SchedTypeOK, FoundNonempty, Goto, SchedPcs
<1>2. CASE FoundEmpty(c)
  BY <1>2, FoundEmptyControl DEF SchedTypeOK, FoundEmpty, Goto, SchedPcs, TmpInv, Prios
<1>3. CASE ReturnNull(c)
  BY <1>3 DEF SchedTypeOK, ReturnNull, Goto, SchedPcs
<1>4. CASE ReadQuota(c)
  BY <1>4 DEF SchedTypeOK, ReadQuota, Goto, SchedPcs
<1>5. CASE PickQueue(c)
  BY <1>5 DEF SchedTypeOK, PickQueue, Goto, SchedPcs
<1>6. CASE TestSize(c)
  <2>1. CASE ready[priority_queue[c]] # << >>
    BY <1>6, <2>1 DEF SchedTypeOK, TestSize, Goto, locals
  <2>2. CASE ready[priority_queue[c]] = << >>
    BY <1>6, <2>2 DEF SchedTypeOK, TestSize, Goto, locals
  <2> QED
    BY <2>1, <2>2
<1>7. CASE TestSlots(c)
  <2>1. CASE OutOfSlots(c)
    BY <1>7, <2>1 DEF SchedTypeOK, TestSlots, Goto, locals
  <2>2. CASE ~OutOfSlots(c)
    BY <1>7, <2>2 DEF SchedTypeOK, TestSlots, Goto, locals
  <2> QED
    BY <2>1, <2>2
<1>8. CASE LoadPrio(c)
  BY <1>8 DEF SchedTypeOK, LoadPrio, Goto, SchedPcs
<1>9. CASE StorePrio(c)
  BY <1>9 DEF SchedTypeOK, StorePrio, Goto, SchedPcs
<1>10. CASE TestWrap(c)
  BY <1>10 DEF SchedTypeOK, TestWrap, Goto, SchedPcs
<1>11. CASE ResetSlots(c)
  BY <1>11 DEF SchedTypeOK, ResetSlots, Goto, SchedPcs
<1>12. CASE Rewind(c)
  BY <1>12 DEF SchedTypeOK, Rewind, Goto, SchedPcs
<1>13. CASE TakeProc(c)
  <2>1. spc[c] = "take" /\ spc'[c] = "charge_load"
    BY <1>13 DEF SchedTypeOK, TakeProc, Goto
  <2>2. PICK h \in Procs : hand' = [hand EXCEPT ![c] = h]
    BY <1>13, <2>1, TakeMoves
  <2> QED
    BY <2>1, <2>2 DEF SchedTypeOK
<1>14. CASE LoadSlots(c)
  BY <1>14 DEF SchedTypeOK, LoadSlots, Goto, SchedPcs
<1>15. CASE ChargeSlot(c)
  BY <1>15 DEF SchedTypeOK, ChargeSlot, Goto, SchedPcs
<1> QED
  BY <1>1, <1>2, <1>3, <1>4, <1>5, <1>6, <1>7, <1>8, <1>9, <1>10, <1>11, <1>12, <1>13, <1>14, <1>15 DEF GetStep

(* The steps of the loader, and those outside get_mlq_proc. *)
LEMMA OtherStepOneCpu ==
  ASSUME ControlInv, LoaderInv, NEW c \in Cpus, Cpus = {c}, QuotaInv(c), StockInv(c), SlotsBounded,
         [SchedNext]_schedVars, ~GetStep(c)
  PROVE  QuotaInv(c)' /\ StockInv(c)' /\ SlotsBounded'
<1> USE DEF ControlInv
<1>1. c \in Threads /\ c # Loader /\ Threads = {c, Loader}
  BY DEF Threads
<1>2. CASE LockQueue(c)
  BY <1>1, <1>2 DEF SchedTypeOK, QuotaInv, StockInv, SlotsBounded, LockQueue, Goto, locals
<1>3. CASE CallGet(c)
  <2>1. spc'[c] = "empty" /\ tmp[c] = 0 /\ tmp' = tmp /\ ready' = ready /\ slots' = slots
    BY <1>1, <1>3 DEF SchedTypeOK, TmpInv, CallGet, Goto, locals
  <2>2. sawEmpty' = IF AllEmpty(ready) THEN sawEmpty \cup {c} ELSE sawEmpty \ {c}
    BY <1>3 DEF CallGet
  <2>3. c \notin sawEmpty' => \E q \in Prios : q >= 0 /\ ready[q] # << >>
    BY <2>2 DEF AllEmpty, Prios
  <2> QED
    BY <2>1, <2>3 DEF QuotaInv, StockInv, SlotsBounded
<1>4. CASE CallPut(c) \/ PutProc(c)
  <2>1. spc'[c] \in {"put_lock", "idle"} /\ slots' = slots
    BY <1>1, <1>4 DEF SchedTypeOK, CallPut, PutProc, Goto
  <2> QED
    BY <2>1 DEF QuotaInv, StockInv, SlotsBounded
<1>5. CASE FreeProc(c)
  <2>1. spc[c] = "idle" /\ spc' = spc /\ slots' = slots
    BY <1>5 DEF FreeProc
  <2> QED
    BY <2>1 DEF QuotaInv, StockInv, SlotsBounded
<1>6. CASE LockQueue(Loader) \/ CallPut(Loader)
  <2>1. /\ spc'[c] = spc[c]
        /\ UNCHANGED <<ready, slots, current_prio, locals, hand, sawEmpty>>
    BY <1>1, <1>6 DEF SchedTypeOK, LockQueue, CallPut, Goto
  <2> QED
    BY <2>1 DEF QuotaInv, StockInv, SlotsBounded, locals
<1>7. CASE PutProc(Loader)
  <2>1. /\ spc'[c] = spc[c] /\ hand'[c] = hand[c]
        /\ UNCHANGED <<slots, current_prio, locals, sawEmpty>>
    BY <1>1, <1>7 DEF SchedTypeOK, PutProc, Goto
  <2>2. \A q \in Prios : ready[q] # << >> => ready'[q] # << >>
    <3>1. CASE Prio[hand[Loader]] < MAX_PRIO /\ Len(ready[Prio[hand[Loader]]]) < Capacity
      <4>1. PICK q \in Prios : /\ Len(ready'[q]) = Len(ready[q]) + 1 /\ Len(ready[q]) \in Nat
                               /\ \A r \in Prios : r # q => ready'[r] = ready[r]
        BY <1>1, <1>7, <3>1, PutKeeps
      <4>2. ready'[q] # << >>
        BY <4>1
      <4> QED
        BY <4>1, <4>2
    <3>2. CASE ~(Prio[hand[Loader]] < MAX_PRIO /\ Len(ready[Prio[hand[Loader]]]) < Capacity)
      BY <1>1, <1>7, <3>2, PutLoses
    <3> QED
      BY <3>1, <3>2
  <2> QED
    BY <1>1, <2>1, <2>2 DEF QuotaInv, StockInv, SlotsBounded, locals, SchedTypeOK
<1>8. ASSUME NEW p \in Procs, LoadProc(p)
      PROVE  QuotaInv(c)' /\ StockInv(c)' /\ SlotsBounded'
  <2>1. /\ hand'[c] = hand[c]
        /\ UNCHANGED <<ready, slots, current_prio, spc, locals, sawEmpty>>
    BY <1>1, <1>8 DEF SchedTypeOK, LoadProc
  <2> QED
    BY <2>1 DEF QuotaInv, StockInv, SlotsBounded, locals
<1>9. CASE UNCHANGED schedVars
  BY <1>9 DEF QuotaInv, StockInv, SlotsBounded, schedVars, locals
<1>10. ~GetStep(Loader)
  BY DEF LoaderInv, GetStep, Goto, FoundNonempty, FoundEmpty, ReturnNull, ReadQuota, PickQueue,
     TestSize, TestSlots, LoadPrio, StorePrio, TestWrap, ResetSlots, Rewind, TakeProc, LoadSlots,
     ChargeSlot
<1> QED
  BY <1>1, <1>2, <1>3, <1>4, <1>5, <1>6, <1>7, <1>8, <1>9, <1>10
     DEF SchedNext, SchedStep, CpuCall, LoaderCall

OneCpuInv(c) == SchedInv /\ LoaderInv /\ QuotaInv(c) /\ StockInv(c) /\ SlotsBounded

(* The invariant of a scheduler with one CPU. *)
LEMMA OneCpuCorrect ==
  ASSUME NEW c \in Cpus, Cpus = {c}
  PROVE  SchedSafety => []OneCpuInv(c)
<1>1. SchedInit => OneCpuInv(c)
  <2>1. SchedInit => SchedInv
    BY InitControl, InitPlace DEF SchedInv
  <2>2. SchedInit => LoaderInv /\ QuotaInv(c) /\ StockInv(c)
    BY DEF SchedInit, LoaderInv, QuotaInv, StockInv, Threads
  <2>3. SchedInit => SlotsBounded
    BY DEF SchedInit, SlotsBounded, Prios
  <2> QED
    BY <2>1, <2>2, <2>3 DEF OneCpuInv
<1>2. OneCpuInv(c) /\ [SchedNext]_schedVars => OneCpuInv(c)'
  <2> SUFFICES ASSUME OneCpuInv(c), [SchedNext]_schedVars
               PROVE  OneCpuInv(c)'
    OBVIOUS
  <2>1. SchedInv' /\ LoaderInv'
    BY SchedNextKeeps, LoaderKeeps DEF OneCpuInv, SchedInv
  <2>2. QuotaInv(c)' /\ StockInv(c)' /\ SlotsBounded'
    <3>1. CASE GetStep(c)
      BY <3>1, GetStepQuota, GetStepStock DEF OneCpuInv, SchedInv, Threads
    <3>2. CASE ~GetStep(c)
      BY <3>2, OtherStepOneCpu DEF OneCpuInv, SchedInv
    <3> QED
      BY <3>1, <3>2
  <2> QED
    BY <2>1, <2>2 DEF OneCpuInv
<1> QED
  BY <1>1, <1>2, PTL DEF SchedSafety

(* "curr_slot = 0..(MAX_PRIO - prio)" of sched.c: with one CPU a queue is
   never charged more slots than its priority gives it, however the loader
   adds processes meanwhile. *)
THEOREM SlotsNeverOverdrawn ==
  ASSUME NEW c \in Cpus, Cpus = {c}
  PROVE  SchedSafety => []SlotsBounded
<1>1. OneCpuInv(c) => SlotsBounded
  BY DEF OneCpuInv
<1> QED
  BY <1>1, OneCpuCorrect, PTL

(* With one CPU get_proc returns NULL only if at some moment of the call all
   queues really were empty, though it looks at them one by one and without
   queue_lock. *)
THEOREM NullOnlyWhenEmpty ==
  ASSUME NEW c \in Cpus, Cpus = {c}
  PROVE  SchedSafety => NullMeansEmpty
<1>1. OneCpuInv(c) /\ [SchedNext]_schedVars =>
        \A t \in Threads : InGet(t) /\ spc'[t] = "idle" /\ hand'[t] = NoProc => t \in sawEmpty
  <2> SUFFICES ASSUME OneCpuInv(c), [SchedNext]_schedVars, NEW t \in Threads,
                      InGet(t), spc'[t] = "idle", hand'[t] = NoProc
               PROVE  t \in sawEmpty
    OBVIOUS
  <2> USE DEF OneCpuInv, SchedInv, ControlInv
  <2>1. t = c
    BY DEF InGet, LoaderInv, Threads
  <2>2. ReturnNull(t) \/ ChargeSlot(t)
    <3>1. spc[t] # "idle" /\ spc[t] # "put_lock" /\ spc[t] # "put"
      BY DEF InGet
    <3>2. CASE GetStep(t)
      BY <3>1, <3>2 DEF SchedTypeOK, GetStep, Goto, FoundNonempty, FoundEmpty, ReadQuota, PickQueue,
         TestSize, TestSlots, LoadPrio, StorePrio, TestWrap, ResetSlots, Rewind, TakeProc, LoadSlots
    <3>3. CASE LockQueue(t) \/ PutProc(t) \/ CpuCall(t) \/ FreeProc(t)
      BY <3>1, <3>3 DEF SchedTypeOK, LockQueue, PutProc, CpuCall, CallGet, CallPut, FreeProc, Goto
    <3>4. CASE SchedStep(Loader) \/ LoaderCall
      <4>1. spc'[t] = spc[t]
        BY <2>1, <3>4 DEF LoaderInv, SchedTypeOK, SchedStep, LoaderCall, LoadProc, CallPut, Goto, GetStep,
           FoundNonempty, FoundEmpty, ReturnNull, ReadQuota, PickQueue, TestSize, TestSlots, LoadPrio,
           StorePrio, TestWrap, ResetSlots, Rewind, TakeProc, LoadSlots, ChargeSlot, LockQueue, PutProc
      <4> QED
        BY <3>1, <4>1
    <3>5. CASE UNCHANGED schedVars
      BY <3>1, <3>5 DEF schedVars
    <3> QED
      BY <2>1, <3>2, <3>3, <3>4, <3>5 DEF SchedNext, SchedStep, Threads
  <2>3. CASE ReturnNull(t)
    <3>1. tmp[t] = MAX_PRIO - 1 /\ ready[tmp[t]] = << >> /\ spc[t] = "empty"
      BY <2>3 DEF ReturnNull, Goto
    <3>2. \A q \in Prios : q >= tmp[t] => q = tmp[t]
      BY <3>1 DEF Prios
    <3> QED
      BY <2>1, <3>1, <3>2 DEF StockInv
  <2>4. CASE ChargeSlot(t)
    BY <2>1, <2>4 DEF StockInv, ChargeSlot, Goto
  <2> QED
    BY <2>2, <2>3, <2>4
<1>2. OneCpuInv(c) /\ [SchedNext]_schedVars =>
        [\A t \in Threads : InGet(t) /\ spc'[t] = "idle" /\ hand'[t] = NoProc => t \in sawEmpty]_schedVars
  BY <1>1
<1> QED
  BY <1>2, OneCpuCorrect, PTL DEF SchedSafety, NullMeansEmpty

-----------------------------------------------------------------------------
(* What the queues need to keep everything.                                *)

(* The processes in a queue are as many as its length, all of its priority,
   and neither lost nor in a hand. *)
LEMMA QueuedCount ==
  ASSUME ControlInv, PlaceInv, IsFiniteSet(Procs), NEW q \in Prios, NEW p \in Procs, Held(p)
  PROVE  Len(ready[q]) \in Nat /\ Len(ready[q]) <= Cardinality(OfPrio(q) \ (lost \cup {p}))
<1> DEFINE s == ready[q]
           others == OfPrio(q) \ (lost \cup {p})
<1>1. s \in Seq(Procs) /\ Len(s) \in Nat /\ DOMAIN s = 1..Len(s)
  BY LenProperties DEF ControlInv, SchedTypeOK
<1>2. \A i \in 1..Len(s) : s[i] \in others
  <2> SUFFICES ASSUME NEW i \in 1..Len(s)
               PROVE  s[i] \in Procs /\ Prio[s[i]] = q /\ s[i] # p /\ s[i] \notin lost
    BY DEF OfPrio
  <2>1. s[i] \in Procs
    BY <1>1, ElementOfSeq
  <2>2. Prio[s[i]] = q
    BY DEF PlaceInv, QueuesWellFormed
  <2>3. Queued(s[i])
    BY DEF Queued, At
  <2> QED
    BY <2>1, <2>2, <2>3 DEF PlaceInv, OnePlace
<1>3. \A i, j \in 1..Len(s) : s[i] = s[j] => i = j
  BY <1>1, ElementOfSeq DEF PlaceInv, OnePlace, At
<1>4. s \in Injection(1..Len(s), others)
  <2>1. s = [i \in 1..Len(s) |-> s[i]]
    BY <1>1
  <2>2. s \in [1..Len(s) -> others]
    BY <1>2, <2>1
  <2> QED
    BY <1>3, <2>2 DEF Injection, IsInjective
<1>5. IsFiniteSet(others)
  BY FS_Subset DEF OfPrio
<1>6. Cardinality(1..Len(s)) = Len(s)
  BY <1>1, FS_Interval, SMTT(30)
<1>7. Cardinality(1..Len(s)) <= Cardinality(others)
  BY <1>4, <1>5, FS_Injection
<1> QED
  BY <1>1, <1>6, <1>7

(* Only put_mlq_proc loses a process. *)
LEMMA LostStays ==
  ASSUME [SchedNext]_schedVars, \A t \in Threads : ~PutProc(t)
  PROVE  lost' = lost
<1>1. ASSUME NEW t \in Threads, SchedStep(t)
      PROVE  lost' = lost
  BY <1>1 DEF SchedStep, GetStep, FoundNonempty, FoundEmpty, ReturnNull, ReadQuota, PickQueue,
     TestSize, TestSlots, LoadPrio, StorePrio, TestWrap, ResetSlots, Rewind, TakeProc, LoadSlots,
     ChargeSlot, LockQueue, owners
<1>2. CASE (\E c \in Cpus : CpuCall(c) \/ FreeProc(c)) \/ LoaderCall \/ UNCHANGED schedVars
  BY <1>2 DEF CpuCall, LoaderCall, CallGet, CallPut, FreeProc, LoadProc, schedVars, owners
<1> QED
  BY <1>1, <1>2 DEF SchedNext

(* enqueue() drops a process that finds its queue full, without a word.  With
   any number of CPUs and any capacity, the processes of a priority that exists
   are lost only in excess of what their queue holds: where one was dropped,
   Capacity others of its priority are still there. *)
THEOREM OnlyExcessIsLost ==
  ASSUME IsFiniteSet(Procs)
  PROVE  SchedSafety => []OnlyExcessLost
<1>1. SchedInit => OnlyExcessLost
  BY DEF SchedInit, OnlyExcessLost
<1>2. SchedInv /\ OnlyExcessLost /\ [SchedNext]_schedVars => OnlyExcessLost'
  <2> SUFFICES ASSUME SchedInv, OnlyExcessLost, [SchedNext]_schedVars
               PROVE  OnlyExcessLost'
    OBVIOUS
  <2>1. ASSUME NEW t \in Threads, PutProc(t)
        PROVE  OnlyExcessLost'
    <3>1. PICK p : p = hand[t]
      OBVIOUS
    <3>2. p \in Procs /\ Held(p)
      BY <2>1, <3>1 DEF SchedInv, ControlInv, SchedTypeOK, HandInv, PutProc, Goto, Held
    <3>3. CASE Prio[p] < MAX_PRIO /\ Len(ready[Prio[p]]) < Capacity
      <4>1. lost' = lost
        BY <2>1, <3>1, <3>3 DEF PutProc
      <4> QED
        BY <4>1 DEF OnlyExcessLost, OfPrio
    <3>4. CASE ~(Prio[p] < MAX_PRIO /\ Len(ready[Prio[p]]) < Capacity)
      <4> SUFFICES ASSUME NEW q \in Prios, OfPrio(q) \cap lost' # {}
                   PROVE  Cardinality(OfPrio(q) \ lost') >= Capacity
        BY DEF OnlyExcessLost, OfPrio
      <4>1. lost' = lost \cup {p}
        BY <2>1, <3>1, <3>4, PutLoses DEF SchedInv
      <4>2. CASE Prio[p] = q
        <5>1. Len(ready[q]) \in Nat /\ Len(ready[q]) <= Cardinality(OfPrio(q) \ lost')
          BY <3>2, <4>1, QueuedCount DEF SchedInv
        <5>2. Cardinality(OfPrio(q) \ lost') \in Nat
          <6>1. IsFiniteSet(OfPrio(q) \ lost')
            BY FS_Subset DEF OfPrio
          <6> QED
            BY <6>1, FS_CardinalityType
        <5>3. ~(Len(ready[q]) < Capacity)
          BY <3>4, <4>2 DEF Prios
        <5> QED
          BY <5>1, <5>2, <5>3
      <4>3. CASE Prio[p] # q
        <5>1. OfPrio(q) \cap lost' = OfPrio(q) \cap lost /\ OfPrio(q) \ lost' = OfPrio(q) \ lost
          BY <4>1, <4>3 DEF OfPrio
        <5> QED
          BY <5>1 DEF OnlyExcessLost
      <4> QED
        BY <4>2, <4>3
    <3> QED
      BY <3>3, <3>4
  <2>2. CASE \A t \in Threads : ~PutProc(t)
    BY <2>2, LostStays DEF OnlyExcessLost, OfPrio
  <2> QED
    BY <2>1, <2>2
<1> QED
  BY <1>1, <1>2, SchedCorrect, PTL DEF SchedSafety

(* No process is lost, with any number of CPUs, if a queue can hold all
   processes and the priorities of the configuration exist. *)
THEOREM NothingIsLost ==
  ASSUME IsFiniteSet(Procs), Cardinality(Procs) <= Capacity,
         \A p \in Procs : Prio[p] < MAX_PRIO
  PROVE  SchedSafety => []NothingLost
<1>1. SchedTypeOK /\ OnlyExcessLost => NothingLost
  <2> SUFFICES ASSUME SchedTypeOK, OnlyExcessLost, NEW p \in lost
               PROVE  FALSE
    BY DEF NothingLost
  <2>1. PICK q : q = Prio[p]
    OBVIOUS
  <2>2. q \in Prios /\ p \in Procs /\ p \in OfPrio(q)
    BY <2>1 DEF SchedTypeOK, Prios, OfPrio
  <2>3. Cardinality(OfPrio(q) \ lost) >= Capacity
    BY <2>2 DEF OnlyExcessLost
  <2>4. OfPrio(q) \ lost \in SUBSET (Procs \ {p})
    BY DEF OfPrio
  <2>5. /\ IsFiniteSet(Procs \ {p}) /\ Cardinality(Procs \ {p}) = Cardinality(Procs) - 1
        /\ Cardinality(Procs) \in Nat
    BY <2>2, FS_RemoveElement, FS_CardinalityType
  <2>6. Cardinality(OfPrio(q) \ lost) <= Cardinality(Procs \ {p})
        /\ Cardinality(OfPrio(q) \ lost) \in Nat
    BY <2>4, <2>5, FS_Subset, FS_CardinalityType
  <2> QED
    BY <2>3, <2>5, <2>6
<1>2. SchedInv => SchedTypeOK
  BY DEF SchedInv, ControlInv
<1> QED
  BY <1>1, <1>2, SchedCorrect, OnlyExcessIsLost, PTL

=============================================================================
