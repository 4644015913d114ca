----------------------------- MODULE ProcQueue -----------------------------
(***************************************************************************)
(* struct queue_t of src/include/queue.h and its two operations in         *)
(* src/src/queue.c: an array of MAX_QUEUE_SIZE slots and a counter.        *)
(* dequeue() shifts the whole array by one and reads one slot beyond the   *)
(* last process; the slots from size on keep whatever was there.           *)
(* The callers hold queue_lock, so one call is one step.                   *)
(***************************************************************************)
EXTENDS Naturals, Sequences

CONSTANTS
    Procs,                \* the processes (pointers to their pcb_t)
    MAX_QUEUE_SIZE,
    NoProc                \* the null pointer, also what a fresh array holds

ASSUME MaxQueueSizeAssumption == MAX_QUEUE_SIZE \in Nat \ {0}
ASSUME NoProcAssumption == NoProc \notin Procs

VARIABLES
    proc,                 \* the array
    size,                 \* the number of processes in the queue
    out                   \* history: what the last call of dequeue() returned

vars == <<proc, size, out>>

Slots == 0..MAX_QUEUE_SIZE - 1

\* The queues of the scheduler are static: their arrays start with nulls.
Init ==
    /\ proc = [i \in Slots |-> NoProc]
    /\ size = 0
    /\ out = NoProc

empty == size = 0

\* Fault: the last slot of the array is used too.
EnqueueToTheEnd(p) ==
    /\ IF size < MAX_QUEUE_SIZE
       THEN proc' = [proc EXCEPT ![size] = p] /\ size' = size + 1
       ELSE UNCHANGED <<proc, size>>
    /\ UNCHANGED out

enqueue(p) ==
    /\ IF size < MAX_QUEUE_SIZE - 1
       THEN /\ proc' = [proc EXCEPT ![size] = p]
            /\ size' = size + 1
       ELSE UNCHANGED <<proc, size>>
    /\ UNCHANGED out

\* Fault: the shift leaves the first slot out.
DequeueShiftsFromOne ==
    IF empty
    THEN out' = NoProc /\ UNCHANGED <<proc, size>>
    ELSE /\ out' = proc[0]
         /\ proc' = [i \in Slots |-> IF i > 0 /\ i < size THEN proc[i + 1] ELSE proc[i]]
         /\ size' = size - 1

\* for (i = 0; i < size; i++) proc[i] = proc[i + 1]
dequeue ==
    IF empty
    THEN out' = NoProc /\ UNCHANGED <<proc, size>>
    ELSE /\ out' = proc[0]
         /\ proc' = [i \in Slots |-> IF i < size THEN proc[i + 1] ELSE proc[i]]
         /\ size' = size - 1

Next == dequeue \/ \E p \in Procs : enqueue(p)

Spec == Init /\ [][Next]_vars

-----------------------------------------------------------------------------
\* The array, the counter and the result keep their types.
TypeOK ==
    /\ proc \in [Slots -> Procs \cup {NoProc}]
    /\ size \in Nat
    /\ out \in Procs \cup {NoProc}

\* dequeue() reads proc[size]: the last slot is never used, so that this
\* read stays inside the array.
ShiftInBounds == size \in Slots

\* The slots below size hold processes, never a null left by the shift.
NoHole == \A i \in Slots : i < size => proc[i] \in Procs

\* What enqueue() and dequeue() rely on, and keep whatever the order of the
\* calls, a full array included: the shift never reads behind the array, and
\* every slot below size holds a process.
QueueInv == TypeOK /\ ShiftInBounds /\ NoHole

Fifo == INSTANCE FifoQueue WITH
            Capacity <- MAX_QUEUE_SIZE - 1,
            queue <- [i \in 1..size |-> proc[i - 1]]

\* The array is a FIFO queue with one place less than it has slots: nothing
\* is duplicated, reordered or lost except by an enqueue on a full queue.
ImplementsFifo == Fifo!Spec

=============================================================================
