------------------------------ MODULE MCHandles ------------------------------
(* A root, two more processes, three files, a table that can grow by one.  *)
EXTENDS Handles, TLC

CONSTANTS r, a, b, k1, k2

MCSymmetry == Permutations({a, b}) \cup Permutations({k1, k2})
=============================================================================
