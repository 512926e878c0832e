----------------------------- MODULE MCVmPorts -----------------------------
(* An instance of VmPorts for TLC: two requests of a student, one of a     *)
(* teacher.                                                                *)
EXTENDS VmPorts, TLC

CONSTANTS student, teacher, r1, r2, r3

MCUserOf == [r \in Requests |-> IF r = r3 THEN teacher ELSE student]

Symmetry == Permutations({r1, r2})
=============================================================================
