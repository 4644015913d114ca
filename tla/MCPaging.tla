------------------------------ MODULE MCPaging ------------------------------
(* The paging of two processes, and of one or two CPUs, for TLC.           *)
EXTENDS Paging, TLC

Symmetry == Permutations(Procs)

=============================================================================
