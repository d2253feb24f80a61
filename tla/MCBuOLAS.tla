------------------------------ MODULE MCBuOLAS ------------------------------
(* Instances of BuOLAS, and of OLAS with it, for TLC. *)
EXTENDS BuOLAS, TLC

CONSTANTS h1, h2, m1, m2, bu, burner, zero

\* Holders, and managers, are interchangeable: no action compares them.
HolderSymmetry == Permutations({h1, h2}) \cup Permutations({m1, m2})
=============================================================================
