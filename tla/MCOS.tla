-------------------------------- MODULE MCOS --------------------------------
(* Small instances of OS for TLC: programs, priorities and start times of  *)
(* the processes p1 to p4.                                                 *)
EXTENDS OS, TLC

CONSTANTS p1, p2, p3, p4

OrderOne == <<p1>>
OrderTwo == <<p1, p2>>
OrderThree == <<p1, p2, p3>>
OrderFour == <<p4, p1, p2, p3>>

\* Programs of one to three instructions, for a quantum of two.
CodeCalc == [p \in Procs |-> IF p = p1 THEN <<"calc", "calc", "calc">> ELSE <<"calc", "calc">>]
CodeShort == [p \in Procs |-> <<"calc">>]
CodeMem == [p \in Procs |-> IF p = p1 THEN <<"calc", "mem", "calc">>
                           ELSE IF p \in {p2, p4} THEN <<"calc">> ELSE <<"calc", "calc", "calc">>]

PrioSame == [p \in Procs |-> 0]
PrioLevels == [p \in Procs |-> IF p = p1 THEN 1 ELSE 0]
\* p1 and p2 share a queue; the priority of p4 is out of range.
PrioOutOfRange == [p \in Procs |-> IF p = p4 THEN 5 ELSE IF p = p3 THEN 1 ELSE 0]

StartAtOnce == [p \in Procs |-> 0]
StartLater == [p \in Procs |-> IF p = p1 THEN 0 ELSE 3]
\* The last process comes when both CPUs may already have run dry.
StartLast == [p \in Procs |-> IF p = p3 THEN 4 ELSE 0]

CpuPerms == Permutations(Cpus)

=============================================================================
