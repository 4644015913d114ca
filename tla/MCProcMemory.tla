---------------------------- MODULE MCProcMemory ----------------------------
(* A small process memory for TLC: a table of two symbols, pages of two    *)
(* bytes, and frames that run out.                                         *)
EXTENDS ProcMemory

Symbols == {0, 1}

=============================================================================
