------------------------------ MODULE MCSched ------------------------------
(* Small instances of Sched for TLC.  The configuration names the          *)
(* processes p1, p2, p3; their priorities are given here.                  *)
EXTENDS Sched

CONSTANTS p1, p2, p3

\* One process of the best priority, two of the next one.
PrioLevels == [p \in Procs |-> IF p = p1 THEN 0 ELSE 1]

=============================================================================
