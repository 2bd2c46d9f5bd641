---------------------------- MODULE MCLoginLockout ----------------------------
(* An instance of LoginLockout for TLC. *)
EXTENDS LoginLockout, TLC

CONSTANTS p1, p2, i1

MCProcs == {p1, p2}
Symmetry == Permutations(MCProcs)
===============================================================================
