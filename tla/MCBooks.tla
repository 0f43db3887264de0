------------------------------ MODULE MCBooks ------------------------------
(***************************************************************************)
(* Two handlers and two Sweetbook books, which are interchangeable.        *)
(***************************************************************************)
EXTENDS Books, TLC

CONSTANTS c1, c2, u1, u2

Symmetry == Permutations({c1, c2}) \cup Permutations({u1, u2})
=============================================================================
