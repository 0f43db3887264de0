------------------------------ MODULE Billing ------------------------------
(***************************************************************************)
(* What the group order promises about money, with no word on handlers,    *)
(* rows being copied or requests racing: an order key is billed at most    *)
(* once, never while members may still join or leave, refunded only after  *)
(* it was billed, and known to the service only if it was billed.  The     *)
(* service may forget an order it knew (Forget); it may not invent one.    *)
(***************************************************************************)
EXTENDS Naturals

CONSTANT Keys        \* idempotency keys

VARIABLES
  collecting,        \* members may join or decline
  billed,            \* how often Sweetbook has billed each key
  repaid,            \* keys whose charge was refunded
  known              \* keys whose Sweetbook order the service has on record

ledgerVars == <<collecting, billed, repaid, known>>

Init ==
  /\ collecting = FALSE
  /\ billed = [k \in Keys |-> 0]
  /\ repaid = {}
  /\ known = {}

Open ==
  /\ \A k \in Keys : billed[k] = 0
  /\ collecting' = TRUE
  /\ UNCHANGED <<billed, repaid, known>>

Close ==
  /\ collecting' = FALSE
  /\ UNCHANGED <<billed, repaid, known>>

Charge(k) ==
  /\ ~collecting
  /\ billed[k] = 0
  /\ billed' = [billed EXCEPT ![k] = 1]
  /\ UNCHANGED <<collecting, repaid, known>>

Refund(k) ==
  /\ billed[k] = 1
  /\ repaid' = repaid \cup {k}
  /\ UNCHANGED <<collecting, billed, known>>

Learn(k) ==
  /\ billed[k] = 1
  /\ known' = known \cup {k}
  /\ UNCHANGED <<collecting, billed, repaid>>

Forget(k) ==
  /\ known' = known \ {k}
  /\ UNCHANGED <<collecting, billed, repaid>>

Next == Open \/ Close
        \/ \E k \in Keys : Charge(k) \/ Refund(k) \/ Learn(k) \/ Forget(k)

Spec == Init /\ [][Next]_ledgerVars
=============================================================================
