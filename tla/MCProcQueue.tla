---------------------------- MODULE MCProcQueue ----------------------------
(* A small array for TLC, with one process more than it can hold.          *)
EXTENDS ProcQueue, TLC

Perms == Permutations(Procs)

=============================================================================
