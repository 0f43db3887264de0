------------------------------ MODULE MCOrders ------------------------------
(***************************************************************************)
(* Small instances of Orders: two members with a row each (Pair), and the  *)
(* same with a second row for m1.                                          *)
(***************************************************************************)
EXTENDS Orders, TLC

CONSTANTS m1, m2, r1, r2, r3

MCMembers == {m1, m2}
MCRows == {r1, r2, r3}
MCOrderer == r1 :> m1 @@ r2 :> m1 @@ r3 :> m2
MCPairRows == {r1, r3}
MCPairOrderer == r1 :> m1 @@ r3 :> m2
=============================================================================
