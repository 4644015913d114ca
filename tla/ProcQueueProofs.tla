-------------------------- MODULE ProcQueueProofs --------------------------
(***************************************************************************)
(* Proofs about ProcQueue, for every array size and every set of           *)
(* processes: the shift never leaves the array, and the array implements   *)
(* the FIFO queue the scheduler relies on.                                 *)
(***************************************************************************)
EXTENDS ProcQueue, SequenceTheorems, TLAPS

USE MaxQueueSizeAssumption, NoProcAssumption

(* Adding a process, or finding the queue full, keeps the invariant. *)
LEMMA EnqueueKeeps ==
  ASSUME QueueInv, NEW p \in Procs, enqueue(p)
  PROVE  QueueInv'
<1>1. CASE size < MAX_QUEUE_SIZE - 1
  BY <1>1 DEF QueueInv, TypeOK, ShiftInBounds, NoHole, Slots, enqueue
<1>2. CASE ~(size < MAX_QUEUE_SIZE - 1)
  BY <1>2 DEF QueueInv, TypeOK, ShiftInBounds, NoHole, Slots, enqueue
<1> QED
  BY <1>1, <1>2

(* The shift reads only slots of the array, and moves only processes into
   the slots that stay in use. *)
LEMMA DequeueKeeps ==
  ASSUME QueueInv, dequeue
  PROVE  QueueInv'
<1>1. CASE empty
  BY <1>1 DEF QueueInv, TypeOK, ShiftInBounds, NoHole, Slots, dequeue
<1>2. CASE ~empty
  <2>1. \A i \in Slots : i < size => i + 1 \in Slots
    BY DEF QueueInv, TypeOK, ShiftInBounds, Slots
  <2>2. proc' \in [Slots -> Procs \cup {NoProc}]
    BY <1>2, <2>1 DEF QueueInv, TypeOK, dequeue
  <2>3. out' \in Procs \cup {NoProc} /\ size' \in Slots
    BY <1>2 DEF QueueInv, TypeOK, ShiftInBounds, Slots, dequeue, empty
  <2>4. NoHole'
    BY <1>2, <2>1 DEF QueueInv, TypeOK, ShiftInBounds, NoHole, Slots, dequeue, empty
  <2> QED
    BY <2>2, <2>3, <2>4 DEF QueueInv, TypeOK, ShiftInBounds, Slots
<1> QED
  BY <1>1, <1>2

(* The array is never read or written out of bounds, and the slots in use
   hold processes. *)
THEOREM QueueCorrect == Spec => []QueueInv
<1>1. Init => QueueInv
  BY DEF Init, QueueInv, TypeOK, ShiftInBounds, NoHole, Slots
<1>2. QueueInv /\ UNCHANGED vars => QueueInv'
  BY DEF vars, QueueInv, TypeOK, ShiftInBounds, NoHole
<1>3. QueueInv /\ [Next]_vars => QueueInv'
  BY <1>2, EnqueueKeeps, DequeueKeeps DEF Next
<1> QED
  BY <1>1, <1>3, PTL DEF Spec

(* The read of proc[size] in dequeue() stays inside the array. *)
THEOREM InBounds == Spec => []ShiftInBounds
<1>1. QueueInv => ShiftInBounds
  BY DEF QueueInv
<1> QED
  BY <1>1, QueueCorrect, PTL

(* No slot in use ever holds the null pointer that a shift drags along. *)
THEOREM NoHoles == Spec => []NoHole
<1>1. QueueInv => NoHole
  BY DEF QueueInv
<1> QED
  BY <1>1, QueueCorrect, PTL

-----------------------------------------------------------------------------
Mapped == [i \in 1..size |-> proc[i - 1]]

(* The slots in use, read as a sequence, are a queue of that length. *)
LEMMA MappedIsSequence ==
  ASSUME QueueInv
  PROVE  Mapped \in Seq(Procs) /\ Len(Mapped) = size
<1>1. \A i \in 1..size : proc[i - 1] \in Procs
  BY DEF QueueInv, TypeOK, ShiftInBounds, NoHole, Slots
<1> QED
  BY <1>1 DEF Mapped, QueueInv, TypeOK

(* The same after a step. *)
LEMMA MappedPrime ==
  ASSUME QueueInv'
  PROVE  Mapped' \in Seq(Procs) /\ Len(Mapped') = size'
<1>1. \A i \in 1..size' : proc'[i - 1] \in Procs
  BY DEF QueueInv, TypeOK, ShiftInBounds, NoHole, Slots
<1> QED
  BY <1>1, SMTT(30) DEF Mapped, QueueInv, TypeOK

(* enqueue() appends, or leaves a full queue as it is. *)
LEMMA EnqueueRefines ==
  ASSUME QueueInv, NEW p \in Procs, enqueue(p)
  PROVE  Fifo!Enqueue(p)
<1>1. Mapped \in Seq(Procs) /\ Len(Mapped) = size
  BY MappedIsSequence
<1>2. CASE size < MAX_QUEUE_SIZE - 1
  <2>1. Mapped' = Append(Mapped, p)
    <3>1. size' = size + 1 /\ size' \in Nat
      BY <1>2 DEF enqueue, QueueInv, TypeOK
    <3>2. \A i \in 1..size + 1 : proc'[i - 1] = IF i = size + 1 THEN p ELSE proc[i - 1]
      BY <1>2 DEF enqueue, QueueInv, TypeOK, ShiftInBounds, Slots
    <3>3. Mapped' \in Seq(Procs) /\ Len(Mapped') = size + 1
      BY EnqueueKeeps, <3>1, MappedPrime
    <3>4. \A i \in 1..size : Append(Mapped, p)[i] = Mapped[i]
      BY <1>1, AppendProperties
    <3>5. /\ Append(Mapped, p) \in Seq(Procs)
          /\ Len(Append(Mapped, p)) = size + 1
          /\ Append(Mapped, p)[size + 1] = p
      BY <1>1, AppendProperties
    <3>6. \A i \in 1..size + 1 : Mapped'[i] = Append(Mapped, p)[i]
      BY <3>1, <3>2, <3>4, <3>5 DEF Mapped, QueueInv, TypeOK
    <3> QED
      BY <3>3, <3>5, <3>6, SeqEqual
  <2> QED
    BY <1>1, <1>2, <2>1 DEF Mapped, Fifo!Enqueue, Fifo!Enqueued, enqueue
<1>3. CASE ~(size < MAX_QUEUE_SIZE - 1)
  BY <1>1, <1>3 DEF Mapped, Fifo!Enqueue, Fifo!Enqueued, enqueue
<1> QED
  BY <1>2, <1>3

(* dequeue() returns the oldest process and removes it. *)
LEMMA DequeueRefines ==
  ASSUME QueueInv, dequeue
  PROVE  Fifo!Dequeue
<1>1. Mapped \in Seq(Procs) /\ Len(Mapped) = size
  BY MappedIsSequence
<1>2. CASE empty
  <2>1. Mapped = << >>
    BY <1>1, <1>2 DEF empty
  <2> QED
    BY <1>2, <2>1 DEF Mapped, Fifo!Dequeue, Fifo!Dequeued, Fifo!Front, dequeue
<1>3. CASE ~empty
  <2>1. size \in Nat /\ size # 0 /\ size' = size - 1 /\ out' = proc[0]
    BY <1>3 DEF empty, dequeue, QueueInv, TypeOK
  <2>2. Mapped # << >> /\ Head(Mapped) = out'
    BY <1>1, <2>1 DEF Mapped
  <2>3. \A i \in 1..size - 1 : proc'[i - 1] = proc[i]
    BY <1>3, <2>1 DEF dequeue, QueueInv, TypeOK, ShiftInBounds, Slots
  <2>4. Mapped' = [i \in 1..size - 1 |-> proc[i]]
    BY <2>1, <2>3 DEF Mapped
  <2>5. Tail(Mapped) = [i \in 1..size - 1 |-> proc[i]]
    BY <1>1, <2>1 DEF Mapped
  <2> QED
    BY <2>2, <2>4, <2>5 DEF Mapped, Fifo!Dequeue, Fifo!Dequeued, Fifo!Front
<1> QED
  BY <1>2, <1>3

(* The array with its shift implements the FIFO queue. *)
THEOREM QueueIsFifo == Spec => ImplementsFifo
<1>1. Init => Fifo!Init
  BY DEF Init, Fifo!Init
<1>2. QueueInv /\ [Next]_vars => [Fifo!Next]_(Fifo!fifoVars)
  <2> SUFFICES ASSUME QueueInv, [Next]_vars PROVE [Fifo!Next]_(Fifo!fifoVars)
    OBVIOUS
  <2>1. CASE UNCHANGED vars
    BY <2>1 DEF vars, Fifo!fifoVars
  <2>2. ASSUME NEW p \in Procs, enqueue(p) PROVE Fifo!Next
    BY <2>2, EnqueueRefines DEF Fifo!Next
  <2>3. CASE dequeue
    BY <2>3, DequeueRefines DEF Fifo!Next
  <2> QED
    BY <2>1, <2>2, <2>3 DEF Next
<1> QED
  BY <1>1, <1>2, QueueCorrect, PTL DEF Spec, ImplementsFifo, Fifo!Spec

=============================================================================
