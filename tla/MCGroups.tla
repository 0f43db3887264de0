------------------------------ MODULE MCGroups ------------------------------
(***************************************************************************)
(* Two users and two handlers, each interchangeable.                       *)
(***************************************************************************)
EXTENDS CoverVoting, TLC

CONSTANTS u1, u2, c1, c2

Symmetry == Permutations({u1, u2}) \cup Permutations({c1, c2})
=============================================================================
