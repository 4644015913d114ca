------------------------------ MODULE MCTimer ------------------------------
(* Small instances of Timer for TLC: the devices are model values.         *)
EXTENDS Timer, TLC

Perms == Permutations(Devices)

=============================================================================
