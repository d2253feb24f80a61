-------------------------- MODULE MCVoteWeighting --------------------------
(* Instances of VoteWeighting for TLC. *)
EXTENDS VoteWeighting, TLC

CONSTANTS o1, o2, a, b, c, v1, v2, zero

\* Voters, owners and nominee accounts are interchangeable: no action compares them.
VoteSymmetry == Permutations({v1, v2}) \cup Permutations({a, b})
OwnerSymmetry == Permutations({o1, o2})
=============================================================================
