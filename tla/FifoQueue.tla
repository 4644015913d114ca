----------------------------- MODULE FifoQueue -----------------------------
(***************************************************************************)
(* What the array queue of src/src/queue.c promises to the scheduler: a    *)
(* FIFO queue of at most Capacity processes.  A process that finds the     *)
(* queue full is not added, and nobody is told: enqueue() returns nothing. *)
(* Sched.tla is built on these operators; ProcQueue.tla models the array   *)
(* and is shown to implement this specification.                           *)
(***************************************************************************)
EXTENDS Naturals, Sequences

CONSTANTS
    Procs,                \* the processes (pointers to their pcb_t)
    Capacity,             \* how many the queue holds
    NoProc                \* the null pointer

VARIABLES
    queue,                \* the processes in queue, oldest first
    out                   \* what the last call of dequeue() returned

fifoVars == <<queue, out>>

Enqueued(q, p) == IF Len(q) < Capacity THEN Append(q, p) ELSE q
Dequeued(q)    == IF q = << >> THEN q ELSE Tail(q)
Front(q)       == IF q = << >> THEN NoProc ELSE Head(q)

Init == queue = << >> /\ out = NoProc

Enqueue(p) == queue' = Enqueued(queue, p) /\ UNCHANGED out

Dequeue == queue' = Dequeued(queue) /\ out' = Front(queue)

Next == Dequeue \/ \E p \in Procs : Enqueue(p)

Spec == Init /\ [][Next]_fifoVars

=============================================================================
