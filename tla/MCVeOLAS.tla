----------------------------- MODULE MCVeOLAS -----------------------------
(* Instances of VeOLAS and WveOLAS for TLC. *)
EXTENDS WveOLAS, TLC

CONSTANTS v1, v2

\* Accounts are interchangeable: no action compares them.
VoterSymmetry == Permutations({v1, v2})
===========================================================================
