------------------------------- MODULE MCEditor -------------------------------
(* Model checking of Editor: the requests and the covers are interchangeable. *)
EXTENDS Editor, TLC

Symmetry == Permutations(Calls) \cup Permutations(Covers)
=============================================================================
