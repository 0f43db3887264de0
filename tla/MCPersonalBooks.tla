---------------------------- MODULE MCPersonalBooks ----------------------------
(* PersonalBooks with photos that match every member at the threshold they *)
(* begin with, and no longer once it is raised.  The handlers in progress  *)
(* are interchangeable.                                                    *)
EXTENDS PersonalBooks, TLC

FaintLikeness == [m \in Members |-> [f \in Photos |-> 0]]
CallSymmetry == Permutations(Calls)
=============================================================================
