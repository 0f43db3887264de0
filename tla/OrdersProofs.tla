---------------------------- MODULE OrdersProofs ----------------------------
(***************************************************************************)
(* Proofs about Orders, for every set of members, rows and handlers.       *)
(***************************************************************************)
EXTENDS Orders, TLAPS

(***************************************************************************)
(* The inductive invariant.  PaidIsCharged and RefundIsReal speak of the   *)
(* table alone; they survive a save only because every copy in a handler's *)
(* hands is as honest as the table (CopiesHonest), and a copy about to     *)
(* change its status has what the new status claims (Earned).              *)
(***************************************************************************)
Honest(r, row) ==
  /\ row.uid => charges[r] = 1
  /\ row.status \in {"PAID", "CANCELLED_REFUND"} => row.uid
  /\ row.status = "CANCELLED_REFUND" => r \in refunded

RowsHonest == \A r \in Rows : Honest(r, rows[r])
CopiesHonest == \A p \in Calls, r \in Rows : Honest(r, copy[p][r])

\* Points at which a handler has chosen the row it works on.
WorkingPoints == {"submitRead", "rejectRead", "memberSave", "post", "paid",
                  "error", "cancelPost", "cancelSave"}
Working == \A p \in Calls : pc[p] \in WorkingPoints => cur[p] \in Rows

Earned ==
  \A p \in Calls :
    /\ pc[p] \in {"paid", "cancelPost", "cancelSave"} => copy[p][cur[p]].uid
    /\ pc[p] = "cancelSave" => cur[p] \in refunded

\* Points a handler reaches only after the collection was closed.
ClosedPoints == {"place", "post", "paid", "error", "retryRead", "retrySave",
                 "bookSave"}
Closed == group \in {"CONFIRMED", "ORDERED"}
ClosedBehind == \A p \in Calls : pc[p] \in ClosedPoints => Closed

IInv ==
  /\ TypeOK
  /\ Working
  /\ ChargedOnce
  /\ RowsHonest
  /\ CopiesHonest
  /\ Earned
  /\ ClosedBehind
  /\ NoChargeWhileCollecting

-----------------------------------------------------------------------------
(* Types *)

\* Before the first request every variable has its type and no handler is in
\* the middle of anything.
LEMMA InitTyped == Init => TypeOK /\ Working
BY OrdererAssumption, RowsAssumption
   DEF Init, TypeOK, Working, WorkingPoints, NoCopies, Absent, Row, RowStatus,
       GroupStatus, Points

\* A row that was never created is a row without a uid.
LEMMA AbsentRow == Absent \in Row /\ Absent.uid = FALSE /\ Absent.status = "ABSENT"
BY DEF Absent, Row, RowStatus

\* What a change of status or of uid does to a row.
LEMMA RowWithStatus ==
  ASSUME NEW row \in Row, NEW s \in RowStatus
  PROVE  LET new == [row EXCEPT !.status = s]
         IN  new \in Row /\ new.status = s /\ new.uid = row.uid
BY DEF Row

\* Storing the uid of createOrder's answer leaves the status alone.
LEMMA RowWithUid ==
  ASSUME NEW row \in Row
  PROVE  LET new == [row EXCEPT !.uid = TRUE]
         IN  new \in Row /\ new.status = row.status /\ new.uid = TRUE
BY DEF Row

\* Repository.save of a row keeps the orders table a table of rows.
LEMMA SaveTyped ==
  ASSUME TypeOK, NEW r \in Rows, NEW row \in Row, SaveRow(r, row)
  PROVE  rows' \in [Rows -> Row]
BY DEF TypeOK, SaveRow

\* A handler that reads or changes its copy of a row holds rows only.
LEMMA CopyTyped ==
  ASSUME TypeOK, NEW p \in Calls, NEW r \in Rows, NEW row \in Row,
         copy' = [copy EXCEPT ![p][r] = row]
  PROVE  copy' \in [Calls -> [Rows -> Row]]
BY DEF TypeOK

\* A handler that returns leaves its locals as they were at the start.
LEMMA ReturnTyped ==
  ASSUME TypeOK, Working, NEW p \in Calls, Return(p)
  PROVE  /\ pc' \in [Calls -> Points]
         /\ op' \in [Calls -> {"none", "confirm", "retry"}]
         /\ cur' \in [Calls -> Rows \cup {NoRow}]
         /\ copy' \in [Calls -> [Rows -> Row]]
         /\ allOk' \in [Calls -> BOOLEAN]
         /\ Working'
BY AbsentRow DEF TypeOK, Working, WorkingPoints, Return, Goto, NoCopies, Points

\* The loop's NextRow does too.
LEMMA NextRowTyped ==
  ASSUME TypeOK, Working, NEW p \in Calls, cur[p] \in Rows, NextRow(p)
  PROVE  /\ pc' \in [Calls -> Points]
         /\ cur' \in [Calls -> Rows \cup {NoRow}]
         /\ copy' \in [Calls -> [Rows -> Row]]
         /\ Working'
BY AbsentRow, CopyTyped
   DEF TypeOK, Working, WorkingPoints, NextRow, Goto, Points

\* The list confirm and retry read, copies of some rows of the table, is a list
\* of rows.
LEMMA CopiesOfTyped ==
  ASSUME TypeOK, NEW S
  PROVE  CopiesOf(S) \in [Rows -> Row]
BY AbsentRow DEF TypeOK, CopiesOf

\* What a handler holds as its copy of a row is a row.
LEMMA CopyRow ==
  ASSUME TypeOK, NEW p \in Calls, NEW r \in Rows
  PROVE  copy[p][r] \in Row
BY DEF TypeOK

\* The row a member's request works on is one of the table's.
LEMMA FoundByRows ==
  ASSUME TypeOK, NEW p \in Calls, cur[p] \in Rows
  PROVE  FoundBy(p) \subseteq Rows
BY DEF FoundBy, Existing

\* submitShipping and rejectOrder keep the types when they prepare their save.
LEMMA PrepareTyped ==
  ASSUME TypeOK, Working, NEW p \in Calls, NEW r \in Rows, NEW row \in Row,
         Prepare(p, r, row), UNCHANGED <<db, ledger>>
  PROVE  TypeOK' /\ Working'
BY CopyTyped DEF Prepare, TypeOK, Working, WorkingPoints, Goto, Points, db, ledger

\* Every step of every handler, and a crash, keeps the types, and keeps a
\* handler that works on a row pointing at one.
LEMMA StepTyped ==
  ASSUME TypeOK, Working, [Next]_vars
  PROVE  TypeOK' /\ Working'
<1> USE DEF TypeOK, Working, WorkingPoints, Points, At, Goto,
            vars, db, ledger, locals
<1>1. CASE UNCHANGED vars
  BY <1>1
<1>2. CASE Crash
  BY <1>2, AbsentRow DEF Crash, NoCopies
<1>3. ASSUME NEW p \in Calls, NEW u \in Members, CreateCheck(p, u)
      PROVE  TypeOK' /\ Working'
  BY <1>3 DEF CreateCheck
<1>4. ASSUME NEW p \in Calls, NEW u \in Members, SubmitCheck(p, u)
      PROVE  TypeOK' /\ Working'
  BY <1>4 DEF SubmitCheck, MemberCheck, Free, Existing
<1>5. ASSUME NEW p \in Calls, NEW u \in Members, RejectCheck(p, u)
      PROVE  TypeOK' /\ Working'
  BY <1>5 DEF RejectCheck, MemberCheck, Free, Existing
<1>6. ASSUME NEW p \in Calls, ConfirmCheck(p)
      PROVE  TypeOK' /\ Working'
  BY <1>6 DEF ConfirmCheck
<1>7. ASSUME NEW p \in Calls, RetryCheck(p)
      PROVE  TypeOK' /\ Working'
  BY <1>7 DEF RetryCheck
<1>8. ASSUME NEW p \in Calls, NEW r \in Rows, CancelRead(p, r)
      PROVE  TypeOK' /\ Working'
  BY <1>8, CopyTyped DEF CancelRead
<1>9. ASSUME NEW p \in Calls, CreateSave(p)
      PROVE  TypeOK' /\ Working'
  BY <1>9, ReturnTyped DEF CreateSave, GroupStatus
<1>10. ASSUME NEW p \in Calls, SubmitRead(p)
      PROVE  TypeOK' /\ Working'
  <2>1. cur[p] \in Rows
    BY <1>10 DEF SubmitRead
  <2>2. PICK r \in FoundBy(p) :
          Prepare(p, r, IF rows[r].status \in {"ABSENT", "REJECTED"}
                        THEN [rows[r] EXCEPT !.status = "PENDING"]
                        ELSE rows[r])
    BY <1>10 DEF SubmitRead
  <2>3. r \in Rows /\ rows[r] \in Row
    BY <2>1, FoundByRows
  <2>4. [rows[r] EXCEPT !.status = "PENDING"] \in Row
    BY <2>3, RowWithStatus DEF RowStatus
  <2> QED
    BY <1>10, <2>2, <2>3, <2>4, PrepareTyped DEF SubmitRead
<1>11. ASSUME NEW p \in Calls, RejectRead(p)
      PROVE  TypeOK' /\ Working'
  <2>1. cur[p] \in Rows
    BY <1>11 DEF RejectRead
  <2>2. PICK r \in FoundBy(p) :
          \/ Prepare(p, r, [rows[r] EXCEPT !.status = "REJECTED"])
          \/ Return(p)
    BY <1>11 DEF RejectRead
  <2>3. r \in Rows /\ rows[r] \in Row
    BY <2>1, FoundByRows
  <2>4. [rows[r] EXCEPT !.status = "REJECTED"] \in Row
    BY <2>3, RowWithStatus DEF RowStatus
  <2> QED
    BY <1>11, <2>2, <2>3, <2>4, PrepareTyped, ReturnTyped DEF RejectRead
<1>12. ASSUME NEW p \in Calls, MemberSave(p)
      PROVE  TypeOK' /\ Working'
  BY <1>12, ReturnTyped, SaveTyped DEF MemberSave
<1>13. ASSUME NEW p \in Calls, ConfirmRead(p)
      PROVE  TypeOK' /\ Working'
  <2> DEFINE S == {r \in Participating : Placeable(rows[r].status)}
  <2>1. CopiesOf(S) \in [Rows -> Row]
    BY CopiesOfTyped
  <2>2. \/ Return(p)
        \/ /\ copy' = [copy EXCEPT ![p] = CopiesOf(S)]
           /\ op' = [op EXCEPT ![p] = "confirm"]
           /\ Goto(p, "confirmTx") /\ UNCHANGED <<cur, allOk>>
    BY <1>13 DEF ConfirmRead
  <2>3. UNCHANGED <<db, ledger>>
    BY <1>13 DEF ConfirmRead
  <2> HIDE DEF S
  <2> QED
    BY <2>1, <2>2, <2>3, ReturnTyped
<1>14. ASSUME NEW p \in Calls, ConfirmTx(p)
      PROVE  TypeOK' /\ Working'
  BY <1>14, ReturnTyped DEF ConfirmTx, GroupStatus
<1>15. ASSUME NEW p \in Calls, NEW r \in Rows, Submitting(p, r)
      PROVE  TypeOK' /\ Working'
  <2>1. [copy[p][r] EXCEPT !.status = "SUBMITTING"] \in Row
    <3>1. copy[p][r] \in Row /\ "SUBMITTING" \in RowStatus
      BY CopyRow DEF RowStatus
    <3> QED
      BY <3>1, RowWithStatus
  <2> QED
    BY <1>15, <2>1, SaveTyped DEF Submitting
<1>16. ASSUME NEW p \in Calls, PostOrder(p)
      PROVE  TypeOK' /\ Working'
  <2>1. cur[p] \in Rows
    BY <1>16 DEF PostOrder
  <2>2. Bill(cur[p]) => charges' \in [Rows -> Nat]
    BY <2>1 DEF Bill
  <2>3. copy' = [copy EXCEPT ![p][cur[p]].uid = TRUE]
           => copy' \in [Calls -> [Rows -> Row]]
    BY <2>1, RowWithUid, CopyTyped
  <2> QED
    BY <1>16, <2>1, <2>2, <2>3 DEF PostOrder
<1>17. ASSUME NEW p \in Calls, SavePaid(p)
      PROVE  TypeOK' /\ Working'
  <2>1. cur[p] \in Rows
    BY <1>17 DEF SavePaid
  <2>2. [copy[p][cur[p]] EXCEPT !.status = "PAID"] \in Row
    <3>1. copy[p][cur[p]] \in Row /\ "PAID" \in RowStatus
      BY <2>1, CopyRow DEF RowStatus
    <3> QED
      BY <3>1, RowWithStatus
  <2> QED
    BY <1>17, <2>1, <2>2, SaveTyped, NextRowTyped DEF SavePaid
<1>18. ASSUME NEW p \in Calls, SaveError(p)
      PROVE  TypeOK' /\ Working'
  <2>1. cur[p] \in Rows
    BY <1>18 DEF SaveError
  <2>2. [copy[p][cur[p]] EXCEPT !.status = "ERROR"] \in Row
    <3>1. copy[p][cur[p]] \in Row /\ "ERROR" \in RowStatus
      BY <2>1, CopyRow DEF RowStatus
    <3> QED
      BY <3>1, RowWithStatus
  <2> QED
    BY <1>18, <2>1, <2>2, SaveTyped, NextRowTyped, ReturnTyped DEF SaveError
<1>19. ASSUME NEW p \in Calls, ConfirmDone(p)
      PROVE  TypeOK' /\ Working'
  BY <1>19, ReturnTyped DEF ConfirmDone, SaveGroupOrdered, GroupStatus
<1>20. ASSUME NEW p \in Calls, BookSave(p)
      PROVE  TypeOK' /\ Working'
  BY <1>20, ReturnTyped DEF BookSave
<1>21. ASSUME NEW p \in Calls, RetryRead(p)
      PROVE  TypeOK' /\ Working'
  <2>1. CopiesOf(Failed) \in [Rows -> Row]
    BY CopiesOfTyped
  <2>2. \/ Return(p)
        \/ /\ copy' = [copy EXCEPT ![p] = CopiesOf(Failed)]
           /\ op' = [op EXCEPT ![p] = "retry"]
           /\ Goto(p, "place") /\ UNCHANGED <<cur, allOk>>
    BY <1>21 DEF RetryRead
  <2>3. UNCHANGED <<db, ledger>>
    BY <1>21 DEF RetryRead
  <2> QED
    BY <2>1, <2>2, <2>3, ReturnTyped
<1>22. ASSUME NEW p \in Calls, RetryCount(p)
      PROVE  TypeOK' /\ Working'
  BY <1>22, ReturnTyped DEF RetryCount
<1>23. ASSUME NEW p \in Calls, RetrySave(p)
      PROVE  TypeOK' /\ Working'
  BY <1>23, ReturnTyped DEF RetrySave, SaveGroupOrdered, GroupStatus
<1>24. ASSUME NEW p \in Calls, CancelPost(p)
      PROVE  TypeOK' /\ Working'
  BY <1>24, ReturnTyped DEF CancelPost
<1>25. ASSUME NEW p \in Calls, CancelSave(p)
      PROVE  TypeOK' /\ Working'
  <2>1. cur[p] \in Rows
    BY <1>25 DEF CancelSave
  <2>2. [copy[p][cur[p]] EXCEPT !.status = "CANCELLED_REFUND"] \in Row
    <3>1. copy[p][cur[p]] \in Row /\ "CANCELLED_REFUND" \in RowStatus
      BY <2>1, CopyRow DEF RowStatus
    <3> QED
      BY <3>1, RowWithStatus
  <2> QED
    BY <1>25, <2>1, <2>2, SaveTyped, ReturnTyped DEF CancelSave
<1> QED
  BY <1>1, <1>2, <1>3, <1>4, <1>5, <1>6, <1>7, <1>8, <1>9, <1>10, <1>11, <1>12,
     <1>13, <1>14, <1>15, <1>16, <1>17, <1>18, <1>19, <1>20, <1>21, <1>22, <1>23,
     <1>24, <1>25
  DEF Next, Begin, Continue

\* Every variable has its type, however many members, rows and handlers.
THEOREM TypeCorrect == Spec => []TypeOK
<1>1. TypeOK /\ Working /\ [Next]_vars => TypeOK' /\ Working'
  BY StepTyped
<1> QED
  BY InitTyped, <1>1, PTL DEF Spec

-----------------------------------------------------------------------------
(* Money *)

\* The inductive invariant holds before the first request.
LEMMA InitInv == Init => IInv
BY InitTyped, AbsentRow
   DEF Init, IInv, ChargedOnce, RowsHonest, CopiesHonest, Honest, Earned,
       ClosedBehind, ClosedPoints, NoChargeWhileCollecting, NoCopies

\* What the table claims stays true while the ledger only grows and the table
\* does not change; the collection may close, or open for the first time.
LEMMA TableKept ==
  ASSUME IInv, UNCHANGED <<rows, ledger>>,
         group' = group \/ Closed' \/ group = "NONE"
  PROVE  ChargedOnce' /\ RowsHonest' /\ NoChargeWhileCollecting'
BY DEF IInv, TypeOK, GroupStatus, ChargedOnce, RowsHonest, Honest, Closed,
       NoChargeWhileCollecting, ledger

\* So does what the other handlers hold, and a handler that returns holds
\* nothing.
LEMMA ReturnKept ==
  ASSUME IInv, NEW p \in Calls, Return(p),
         charges' = charges, refunded \subseteq refunded',
         group' = group \/ Closed' \/ group = "NONE"
  PROVE  CopiesHonest' /\ Earned' /\ ClosedBehind'
<1> USE DEF IInv, TypeOK, Return, Goto
<1>1. CopiesHonest'
  BY AbsentRow DEF CopiesHonest, Honest, NoCopies
<1>2. Earned'
  BY DEF Earned
<1>3. ClosedBehind'
  BY DEF ClosedBehind, ClosedPoints, Closed
<1> QED
  BY <1>1, <1>2, <1>3

\* A save of an honest row keeps the table honest.
LEMMA SaveKept ==
  ASSUME IInv, NEW r \in Rows, NEW row \in Row, Honest(r, row),
         SaveRow(r, row), UNCHANGED <<group, ledger>>
  PROVE  ChargedOnce' /\ RowsHonest' /\ NoChargeWhileCollecting'
BY DEF IInv, TypeOK, SaveRow, ChargedOnce, RowsHonest, Honest,
       NoChargeWhileCollecting, ledger

\* A handler that takes up an honest copy.
LEMMA TakeKept ==
  ASSUME IInv, NEW p \in Calls, NEW r \in Rows, NEW row \in Row, Honest(r, row),
         copy' = [copy EXCEPT ![p][r] = row], UNCHANGED ledger
  PROVE  CopiesHonest'
BY DEF IInv, TypeOK, CopiesHonest, Honest, ledger

\* Copies made of the table's own rows are as honest as the table.
LEMMA ReadKept ==
  ASSUME IInv, NEW p \in Calls, NEW S,
         copy' = [copy EXCEPT ![p] = CopiesOf(S)], UNCHANGED ledger
  PROVE  CopiesHonest'
BY AbsentRow DEF IInv, TypeOK, CopiesHonest, RowsHonest, Honest, CopiesOf, ledger

LEMMA NextRowKept ==
  ASSUME IInv, NEW p \in Calls, pc[p] \in {"paid", "error"}, NextRow(p),
         UNCHANGED <<group, ledger>>
  PROVE  CopiesHonest' /\ Earned' /\ ClosedBehind'
<1>1. cur[p] \in Rows /\ Closed
  BY DEF IInv, Working, WorkingPoints, ClosedBehind, ClosedPoints
<1>2. CopiesHonest'
  BY <1>1, AbsentRow, TakeKept DEF NextRow, Honest
<1>3. Earned'
  BY DEF IInv, TypeOK, Earned, NextRow, Goto, ledger
<1>4. ClosedBehind'
  BY <1>1 DEF IInv, TypeOK, NextRow, Goto, Closed, ClosedBehind, ClosedPoints
<1> QED
  BY <1>2, <1>3, <1>4

\* submitShipping and rejectOrder change the status of an honest copy to one
\* that claims nothing, or keep it.
LEMMA PrepareKept ==
  ASSUME IInv, NEW p \in Calls, NEW r \in Rows, NEW row \in Row, Honest(r, row),
         Prepare(p, r, row), UNCHANGED <<db, ledger>>
  PROVE  CopiesHonest' /\ Earned' /\ ClosedBehind'
<1>1. CopiesHonest'
  BY TakeKept DEF Prepare
<1>2. Earned' /\ ClosedBehind'
  BY DEF IInv, TypeOK, Prepare, Goto, Earned, ClosedBehind, ClosedPoints, Closed,
         db, ledger
<1> QED
  BY <1>1, <1>2

\* Every step of every handler, and a crash, keeps the inductive invariant.
LEMMA StepInv ==
  ASSUME IInv, [Next]_vars
  PROVE  IInv'
<1> USE DEF At, Goto, vars, db, ledger, locals
<1>0. TypeOK /\ Working
  BY DEF IInv
<1>1. CASE UNCHANGED vars
  BY <1>1, StepTyped DEF IInv, TypeOK, ChargedOnce, RowsHonest, CopiesHonest,
       Honest, Working, Earned, ClosedBehind, Closed, NoChargeWhileCollecting
<1>2. CASE Crash
  <2>1. ChargedOnce' /\ RowsHonest' /\ NoChargeWhileCollecting'
    BY <1>2, TableKept DEF Crash
  <2>2. CopiesHonest' /\ Earned' /\ ClosedBehind'
    BY <1>2, AbsentRow DEF Crash, NoCopies, CopiesHonest, Honest, Earned,
                           ClosedBehind, ClosedPoints
  <2> QED
    BY <1>0, <2>1, <2>2, StepTyped DEF IInv
<1>3. ASSUME NEW p \in Calls, NEW u \in Members, CreateCheck(p, u)
      PROVE  IInv'
  <2>1. ChargedOnce' /\ RowsHonest' /\ NoChargeWhileCollecting'
    BY <1>3, TableKept DEF CreateCheck
  <2>2. CopiesHonest'
    BY <1>3 DEF CreateCheck, IInv, CopiesHonest, Honest
  <2>3. Earned' /\ ClosedBehind'
    BY <1>3 DEF CreateCheck, IInv, TypeOK, Earned, ClosedBehind, ClosedPoints, Closed
  <2> QED
    BY <2>1, <2>2, <2>3, <1>0, StepTyped DEF IInv
<1>4. ASSUME NEW p \in Calls, NEW u \in Members, SubmitCheck(p, u)
      PROVE  IInv'
  <2>1. ChargedOnce' /\ RowsHonest' /\ NoChargeWhileCollecting'
    BY <1>4, TableKept DEF SubmitCheck, MemberCheck
  <2>2. CopiesHonest'
    BY <1>4 DEF SubmitCheck, MemberCheck, IInv, CopiesHonest, Honest
  <2>3. Earned' /\ ClosedBehind'
    BY <1>4 DEF SubmitCheck, MemberCheck, IInv, TypeOK, Earned, ClosedBehind, ClosedPoints, Closed
  <2> QED
    BY <2>1, <2>2, <2>3, <1>0, StepTyped DEF IInv
<1>5. ASSUME NEW p \in Calls, NEW u \in Members, RejectCheck(p, u)
      PROVE  IInv'
  <2>1. ChargedOnce' /\ RowsHonest' /\ NoChargeWhileCollecting'
    BY <1>5, TableKept DEF RejectCheck, MemberCheck
  <2>2. CopiesHonest'
    BY <1>5 DEF RejectCheck, MemberCheck, IInv, CopiesHonest, Honest
  <2>3. Earned' /\ ClosedBehind'
    BY <1>5 DEF RejectCheck, MemberCheck, IInv, TypeOK, Earned, ClosedBehind, ClosedPoints, Closed
  <2> QED
    BY <2>1, <2>2, <2>3, <1>0, StepTyped DEF IInv
<1>6. ASSUME NEW p \in Calls, ConfirmCheck(p)
      PROVE  IInv'
  <2>1. ChargedOnce' /\ RowsHonest' /\ NoChargeWhileCollecting'
    BY <1>6, TableKept DEF ConfirmCheck
  <2>2. CopiesHonest'
    BY <1>6 DEF ConfirmCheck, IInv, CopiesHonest, Honest
  <2>3. Earned' /\ ClosedBehind'
    BY <1>6 DEF ConfirmCheck, IInv, TypeOK, Earned, ClosedBehind, ClosedPoints, Closed
  <2> QED
    BY <2>1, <2>2, <2>3, <1>0, StepTyped DEF IInv
<1>7. ASSUME NEW p \in Calls, RetryCheck(p)
      PROVE  IInv'
  <2>1. ChargedOnce' /\ RowsHonest' /\ NoChargeWhileCollecting'
    BY <1>7, TableKept DEF RetryCheck
  <2>2. CopiesHonest'
    BY <1>7 DEF RetryCheck, IInv, CopiesHonest, Honest
  <2>3. Earned' /\ ClosedBehind'
    BY <1>7 DEF RetryCheck, IInv, TypeOK, Earned, ClosedBehind, ClosedPoints, Closed
  <2> QED
    BY <2>1, <2>2, <2>3, <1>0, StepTyped DEF IInv
<1>8. ASSUME NEW p \in Calls, NEW r \in Rows, CancelRead(p, r)
      PROVE  IInv'
  <2>1. ChargedOnce' /\ RowsHonest' /\ NoChargeWhileCollecting'
    BY <1>8, TableKept DEF CancelRead
  <2>2. rows[r] \in Row /\ Honest(r, rows[r]) /\ rows[r].uid
    BY <1>8 DEF CancelRead, IInv, TypeOK, RowsHonest, Honest
  <2>3. CopiesHonest'
    BY <1>8, <2>2, TakeKept DEF CancelRead
  <2>4. Earned' /\ ClosedBehind'
    BY <1>8, <2>2 DEF CancelRead, IInv, TypeOK, Earned, ClosedBehind,
                       ClosedPoints, Closed
  <2> QED
    BY <2>1, <2>3, <2>4, <1>0, StepTyped DEF IInv
<1>9. ASSUME NEW p \in Calls, CreateSave(p)
      PROVE  IInv'
  <2>1. ChargedOnce' /\ RowsHonest' /\ NoChargeWhileCollecting'
    BY <1>9, TableKept DEF CreateSave, Closed
  <2>2. CopiesHonest' /\ Earned' /\ ClosedBehind'
    BY <1>9, ReturnKept DEF CreateSave, Closed
  <2> QED
    BY <2>1, <2>2, <1>0, StepTyped DEF IInv
<1>10. ASSUME NEW p \in Calls, SubmitRead(p)
      PROVE  IInv'
  <2>1. cur[p] \in Rows
    BY <1>10 DEF SubmitRead, IInv, Working, WorkingPoints
  <2>2. PICK r \in FoundBy(p) :
          \/ Prepare(p, r, [rows[r] EXCEPT !.status = "PENDING"])
          \/ Prepare(p, r, rows[r])
    BY <1>10 DEF SubmitRead
  <2>3. r \in Rows /\ rows[r] \in Row /\ Honest(r, rows[r])
    BY <2>1, FoundByRows DEF IInv, TypeOK, RowsHonest
  <2>4. /\ [rows[r] EXCEPT !.status = "PENDING"] \in Row
        /\ Honest(r, [rows[r] EXCEPT !.status = "PENDING"])
    BY <2>3, RowWithStatus DEF RowStatus, Honest
  <2>5. ChargedOnce' /\ RowsHonest' /\ NoChargeWhileCollecting'
    BY <1>10, TableKept DEF SubmitRead
  <2>6. CopiesHonest' /\ Earned' /\ ClosedBehind'
    BY <1>10, <2>2, <2>3, <2>4, PrepareKept DEF SubmitRead
  <2> QED
    BY <2>5, <2>6, <1>0, StepTyped DEF IInv
<1>11. ASSUME NEW p \in Calls, RejectRead(p)
      PROVE  IInv'
  <2>1. cur[p] \in Rows
    BY <1>11 DEF RejectRead, IInv, Working, WorkingPoints
  <2>2. PICK r \in FoundBy(p) :
          \/ Prepare(p, r, [rows[r] EXCEPT !.status = "REJECTED"])
          \/ Return(p)
    BY <1>11 DEF RejectRead
  <2>3. r \in Rows /\ rows[r] \in Row /\ Honest(r, rows[r])
    BY <2>1, FoundByRows DEF IInv, TypeOK, RowsHonest
  <2>4. /\ [rows[r] EXCEPT !.status = "REJECTED"] \in Row
        /\ Honest(r, [rows[r] EXCEPT !.status = "REJECTED"])
    BY <2>3, RowWithStatus DEF RowStatus, Honest
  <2>5. ChargedOnce' /\ RowsHonest' /\ NoChargeWhileCollecting'
    BY <1>11, TableKept DEF RejectRead
  <2>6. CopiesHonest' /\ Earned' /\ ClosedBehind'
    BY <1>11, <2>2, <2>3, <2>4, PrepareKept, ReturnKept DEF RejectRead
  <2> QED
    BY <2>5, <2>6, <1>0, StepTyped DEF IInv
<1>12. ASSUME NEW p \in Calls, MemberSave(p)
      PROVE  IInv'
  <2>1. cur[p] \in Rows /\ copy[p][cur[p]] \in Row
    BY <1>12 DEF MemberSave, IInv, TypeOK, Working, WorkingPoints
  <2>2. Honest(cur[p], copy[p][cur[p]])
    BY <2>1 DEF IInv, CopiesHonest
  <2>3. ChargedOnce' /\ RowsHonest' /\ NoChargeWhileCollecting'
    BY <1>12, <2>1, <2>2, SaveKept, TableKept DEF MemberSave
  <2>4. CopiesHonest' /\ Earned' /\ ClosedBehind'
    BY <1>12, ReturnKept DEF MemberSave
  <2> QED
    BY <2>3, <2>4, <1>0, StepTyped DEF IInv
<1>13. ASSUME NEW p \in Calls, ConfirmRead(p)
      PROVE  IInv'
  <2> DEFINE S == {r \in Participating : Placeable(rows[r].status)}
  <2>1. ChargedOnce' /\ RowsHonest' /\ NoChargeWhileCollecting'
    BY <1>13, TableKept DEF ConfirmRead
  <2>2. \/ Return(p)
        \/ copy' = [copy EXCEPT ![p] = CopiesOf(S)] /\ Goto(p, "confirmTx")
    BY <1>13 DEF ConfirmRead
  <2>3. UNCHANGED <<db, ledger>>
    BY <1>13 DEF ConfirmRead
  <2>4. pc[p] = "confirmRead"
    BY <1>13 DEF ConfirmRead
  <2> HIDE DEF S
  <2>5. ASSUME Return(p)
        PROVE  CopiesHonest' /\ Earned' /\ ClosedBehind'
    BY <2>3, <2>5, ReturnKept
  <2>6. ASSUME copy' = [copy EXCEPT ![p] = CopiesOf(S)] /\ Goto(p, "confirmTx") /\ cur' = cur
        PROVE  CopiesHonest' /\ Earned' /\ ClosedBehind'
    <3>1. CopiesHonest'
      BY <2>3, <2>6, ReadKept
    <3>2. Earned' /\ ClosedBehind'
      BY <2>3, <2>4, <2>6 DEF IInv, TypeOK, Earned, ClosedBehind, ClosedPoints, Closed
    <3> QED
      BY <3>1, <3>2
  <2> QED
    BY <1>13, <2>1, <2>2, <2>5, <2>6, <1>0, StepTyped DEF IInv, ConfirmRead
<1>14. ASSUME NEW p \in Calls, ConfirmTx(p)
      PROVE  IInv'
  <2>1. ChargedOnce' /\ RowsHonest' /\ NoChargeWhileCollecting'
    BY <1>14, TableKept DEF ConfirmTx, Closed
  <2>2. ASSUME Return(p) /\ UNCHANGED group
        PROVE  CopiesHonest' /\ Earned' /\ ClosedBehind'
    BY <1>14, <2>2, ReturnKept DEF ConfirmTx, Closed
  <2>3. ASSUME Closed' /\ Goto(p, "place") /\ UNCHANGED locals
        PROVE  CopiesHonest' /\ Earned' /\ ClosedBehind'
    BY <1>14, <2>3 DEF ConfirmTx, IInv, TypeOK, CopiesHonest, Honest, Earned,
                       ClosedBehind
  <2> QED
    BY <1>14, <2>1, <2>2, <2>3, <1>0, StepTyped DEF ConfirmTx, Closed, IInv
<1>15. ASSUME NEW p \in Calls, NEW r \in Rows, Submitting(p, r)
      PROVE  IInv'
  <2>1. /\ [copy[p][r] EXCEPT !.status = "SUBMITTING"] \in Row
        /\ Honest(r, [copy[p][r] EXCEPT !.status = "SUBMITTING"])
    <3>1. copy[p][r] \in Row /\ Honest(r, copy[p][r]) /\ "SUBMITTING" \in RowStatus
      BY CopyRow DEF IInv, CopiesHonest, RowStatus
    <3> QED
      BY <3>1, RowWithStatus DEF Honest
  <2>2. ChargedOnce' /\ RowsHonest' /\ NoChargeWhileCollecting'
    BY <1>15, <2>1, SaveKept, TableKept DEF Submitting
  <2>3. CopiesHonest' /\ Earned' /\ ClosedBehind'
    BY <1>15 DEF Submitting, IInv, TypeOK, CopiesHonest, Honest, Earned,
                 ClosedBehind, ClosedPoints, Closed
  <2> QED
    BY <2>2, <2>3, <1>0, StepTyped DEF IInv
<1>16. ASSUME NEW p \in Calls, PostOrder(p)
      PROVE  IInv'
  <2>1. cur[p] \in Rows /\ Closed /\ group' = group /\ rows' = rows
    BY <1>16 DEF PostOrder, IInv, Working, WorkingPoints, ClosedBehind, ClosedPoints
  <2>2. /\ \A r \in Rows : charges[r] = 1 => charges'[r] = 1
        /\ \A r \in Rows : charges[r] <= 1 => charges'[r] <= 1
        /\ refunded' = refunded
    BY <1>16, <2>1 DEF PostOrder, Bill, IInv, TypeOK
  <2>3. ChargedOnce' /\ RowsHonest' /\ NoChargeWhileCollecting'
    BY <2>1, <2>2 DEF IInv, ChargedOnce, RowsHonest, Honest, Closed,
                       NoChargeWhileCollecting
  <2>4. ASSUME UNCHANGED copy /\ Goto(p, "error")
        PROVE  CopiesHonest' /\ Earned' /\ ClosedBehind'
    BY <1>16, <2>1, <2>2, <2>4
    DEF PostOrder, IInv, TypeOK, CopiesHonest, Honest, Earned, ClosedBehind, Closed
  <2>5. ASSUME /\ Bill(cur[p]) /\ Goto(p, "paid")
               /\ copy' = [copy EXCEPT ![p][cur[p]].uid = TRUE]
        PROVE  CopiesHonest' /\ Earned' /\ ClosedBehind'
    <3>1. charges'[cur[p]] = 1
      <4>1. charges \in [Rows -> Nat] /\ charges[cur[p]] <= 1
        BY <2>1 DEF IInv, TypeOK, ChargedOnce
      <4> QED
        BY <2>1, <2>5, <4>1 DEF Bill
    <3>2. copy[p][cur[p]] \in Row
      BY <2>1, CopyRow DEF IInv
    <3>3. /\ \A q \in Calls, r \in Rows :
               q # p \/ r # cur[p] => copy'[q][r] = copy[q][r]
          /\ copy'[p][cur[p]] = [copy[p][cur[p]] EXCEPT !.uid = TRUE]
      BY <2>1, <2>5 DEF IInv, TypeOK
    <3>4. /\ copy'[p][cur[p]].uid = TRUE
          /\ copy'[p][cur[p]].status = copy[p][cur[p]].status
      BY <3>2, <3>3, RowWithUid
    <3>5. CopiesHonest'
      <4> SUFFICES ASSUME NEW q \in Calls, NEW r \in Rows
                   PROVE  Honest(r, copy[q][r])'
        BY DEF CopiesHonest
      <4>1. Honest(r, copy[q][r])
        BY DEF IInv, CopiesHonest
      <4>2. CASE q # p \/ r # cur[p]
        BY <2>2, <3>3, <4>1, <4>2 DEF Honest
      <4>3. CASE q = p /\ r = cur[p]
        BY <2>2, <3>1, <3>4, <4>1, <4>3 DEF Honest
      <4> QED
        BY <4>2, <4>3
    <3>6. Earned'
      <4>1. ASSUME NEW q \in Calls, q # p, pc[q] \in {"paid", "cancelPost", "cancelSave"}
            PROVE  cur[q] \in Rows /\ copy[q][cur[q]].uid
        BY <4>1 DEF IInv, Earned, Working, WorkingPoints
      <4>2. cur' = cur /\ pc' = [pc EXCEPT ![p] = "paid"] /\ pc \in [Calls -> Points]
        BY <1>16, <2>5 DEF PostOrder, Goto, IInv, TypeOK
      <4> QED
        BY <2>2, <3>3, <3>4, <4>1, <4>2 DEF IInv, Earned
    <3>7. ClosedBehind'
      BY <2>1, <2>5 DEF IInv, TypeOK, ClosedBehind, Closed
    <3> QED
      BY <3>5, <3>6, <3>7
  <2> QED
    BY <1>16, <2>3, <2>4, <2>5, <1>0, StepTyped DEF PostOrder, IInv
<1>17. ASSUME NEW p \in Calls, SavePaid(p)
      PROVE  IInv'
  <2>1. cur[p] \in Rows /\ copy[p][cur[p]].uid
    BY <1>17 DEF SavePaid, IInv, Working, WorkingPoints, Earned
  <2>2. /\ [copy[p][cur[p]] EXCEPT !.status = "PAID"] \in Row
        /\ Honest(cur[p], [copy[p][cur[p]] EXCEPT !.status = "PAID"])
    <3>1. /\ copy[p][cur[p]] \in Row /\ Honest(cur[p], copy[p][cur[p]])
          /\ "PAID" \in RowStatus
      BY <2>1, CopyRow DEF IInv, CopiesHonest, RowStatus
    <3> QED
      BY <2>1, <3>1, RowWithStatus DEF Honest
  <2>3. ChargedOnce' /\ RowsHonest' /\ NoChargeWhileCollecting'
    BY <1>17, <2>1, <2>2, SaveKept, TableKept DEF SavePaid
  <2>4. ASSUME NextRow(p)
        PROVE  CopiesHonest' /\ Earned' /\ ClosedBehind'
    BY <1>17, <2>4, NextRowKept DEF SavePaid
  <2>5. ASSUME UNCHANGED <<copy, cur>> /\ Goto(p, "error")
        PROVE  CopiesHonest' /\ Earned' /\ ClosedBehind'
    BY <1>17, <2>5 DEF SavePaid, IInv, TypeOK, CopiesHonest, Honest, Earned,
                       ClosedBehind, ClosedPoints, Closed
  <2> QED
    BY <1>17, <2>3, <2>4, <2>5, <1>0, StepTyped DEF SavePaid, IInv
<1>18. ASSUME NEW p \in Calls, SaveError(p)
      PROVE  IInv'
  <2>1. cur[p] \in Rows
    BY <1>18 DEF SaveError, IInv, Working, WorkingPoints
  <2>2. /\ [copy[p][cur[p]] EXCEPT !.status = "ERROR"] \in Row
        /\ Honest(cur[p], [copy[p][cur[p]] EXCEPT !.status = "ERROR"])
    <3>1. /\ copy[p][cur[p]] \in Row /\ Honest(cur[p], copy[p][cur[p]])
          /\ "ERROR" \in RowStatus
      BY <2>1, CopyRow DEF IInv, CopiesHonest, RowStatus
    <3> QED
      BY <3>1, RowWithStatus DEF Honest
  <2>3. ChargedOnce' /\ RowsHonest' /\ NoChargeWhileCollecting'
    BY <1>18, <2>1, <2>2, SaveKept, TableKept DEF SaveError
  <2>4. CopiesHonest' /\ Earned' /\ ClosedBehind'
    BY <1>18, NextRowKept, ReturnKept DEF SaveError, Closed
  <2> QED
    BY <2>3, <2>4, <1>0, StepTyped DEF IInv
<1>19. ASSUME NEW p \in Calls, ConfirmDone(p)
      PROVE  IInv'
  <2>1. Closed' \/ UNCHANGED group
    BY <1>19 DEF ConfirmDone, SaveGroupOrdered, Closed
  <2>2. ChargedOnce' /\ RowsHonest' /\ NoChargeWhileCollecting'
    BY <1>19, <2>1, TableKept DEF ConfirmDone
  <2>3. ASSUME Return(p)
        PROVE  CopiesHonest' /\ Earned' /\ ClosedBehind'
    BY <1>19, <2>1, <2>3, ReturnKept DEF ConfirmDone, Closed
  <2>4. ASSUME SaveGroupOrdered(p) /\ ~Return(p)
        PROVE  CopiesHonest' /\ Earned' /\ ClosedBehind'
    BY <1>19, <2>4 DEF ConfirmDone, SaveGroupOrdered, IInv, TypeOK, CopiesHonest,
                       Honest, Earned, ClosedBehind, Closed
  <2> QED
    BY <1>19, <2>2, <2>3, <2>4, <1>0, StepTyped DEF ConfirmDone, IInv
<1>20. ASSUME NEW p \in Calls, BookSave(p)
      PROVE  IInv'
  <2>1. ChargedOnce' /\ RowsHonest' /\ NoChargeWhileCollecting'
    BY <1>20, TableKept DEF BookSave, Closed
  <2>2. CopiesHonest' /\ Earned' /\ ClosedBehind'
    BY <1>20, ReturnKept DEF BookSave, Closed
  <2> QED
    BY <2>1, <2>2, <1>0, StepTyped DEF IInv
<1>21. ASSUME NEW p \in Calls, RetryRead(p)
      PROVE  IInv'
  <2> DEFINE S == Failed
  <2>1. ChargedOnce' /\ RowsHonest' /\ NoChargeWhileCollecting'
    BY <1>21, TableKept DEF RetryRead
  <2>2. \/ Return(p)
        \/ copy' = [copy EXCEPT ![p] = CopiesOf(S)] /\ Goto(p, "place")
    BY <1>21 DEF RetryRead
  <2>3. UNCHANGED <<db, ledger>>
    BY <1>21 DEF RetryRead
  <2>4. pc[p] = "retryRead"
    BY <1>21 DEF RetryRead
  <2> HIDE DEF S
  <2>5. ASSUME Return(p)
        PROVE  CopiesHonest' /\ Earned' /\ ClosedBehind'
    BY <2>3, <2>5, ReturnKept
  <2>6. ASSUME copy' = [copy EXCEPT ![p] = CopiesOf(S)] /\ Goto(p, "place") /\ cur' = cur
        PROVE  CopiesHonest' /\ Earned' /\ ClosedBehind'
    <3>1. CopiesHonest'
      BY <2>3, <2>6, ReadKept
    <3>2. Earned' /\ ClosedBehind'
      BY <2>3, <2>4, <2>6 DEF IInv, TypeOK, Earned, ClosedBehind, ClosedPoints, Closed
    <3> QED
      BY <3>1, <3>2
  <2> QED
    BY <1>21, <2>1, <2>2, <2>5, <2>6, <1>0, StepTyped DEF IInv, RetryRead
<1>22. ASSUME NEW p \in Calls, RetryCount(p)
      PROVE  IInv'
  <2>1. ChargedOnce' /\ RowsHonest' /\ NoChargeWhileCollecting'
    BY <1>22, TableKept DEF RetryCount
  <2>2. ASSUME Return(p)
        PROVE  CopiesHonest' /\ Earned' /\ ClosedBehind'
    BY <1>22, <2>2, ReturnKept DEF RetryCount
  <2>3. ASSUME Goto(p, "retrySave") /\ UNCHANGED locals
        PROVE  CopiesHonest' /\ Earned' /\ ClosedBehind'
    BY <1>22, <2>3 DEF RetryCount, IInv, TypeOK, CopiesHonest, Honest, Earned,
                       ClosedBehind, ClosedPoints, Closed
  <2> QED
    BY <1>22, <2>1, <2>2, <2>3, <1>0, StepTyped DEF RetryCount, IInv
<1>23. ASSUME NEW p \in Calls, RetrySave(p)
      PROVE  IInv'
  <2>1. Closed' \/ UNCHANGED group
    BY <1>23 DEF RetrySave, SaveGroupOrdered, Closed
  <2>2. ChargedOnce' /\ RowsHonest' /\ NoChargeWhileCollecting'
    BY <1>23, <2>1, TableKept DEF RetrySave
  <2>3. ASSUME Return(p)
        PROVE  CopiesHonest' /\ Earned' /\ ClosedBehind'
    BY <1>23, <2>1, <2>3, ReturnKept DEF RetrySave, Closed
  <2>4. ASSUME SaveGroupOrdered(p) /\ ~Return(p)
        PROVE  CopiesHonest' /\ Earned' /\ ClosedBehind'
    BY <1>23, <2>4 DEF RetrySave, SaveGroupOrdered, IInv, TypeOK, CopiesHonest,
                       Honest, Earned, ClosedBehind, Closed
  <2> QED
    BY <1>23, <2>2, <2>3, <2>4, <1>0, StepTyped DEF RetrySave, IInv
<1>24. ASSUME NEW p \in Calls, CancelPost(p)
      PROVE  IInv'
  <2>1. /\ UNCHANGED <<group, rows, charges>>
        /\ refunded' = refunded \cup {cur[p]} \/ refunded' = refunded
    BY <1>24 DEF CancelPost
  <2>2. ChargedOnce' /\ RowsHonest' /\ NoChargeWhileCollecting'
    BY <2>1 DEF IInv, ChargedOnce, RowsHonest, Honest, NoChargeWhileCollecting
  <2>3. ASSUME Return(p)
        PROVE  CopiesHonest' /\ Earned' /\ ClosedBehind'
    BY <1>24, <2>1, <2>3, ReturnKept DEF Closed
  <2>4. ASSUME /\ refunded' = refunded \cup {cur[p]}
               /\ Goto(p, "cancelSave") /\ UNCHANGED locals
        PROVE  CopiesHonest' /\ Earned' /\ ClosedBehind'
    BY <1>24, <2>1, <2>4 DEF CancelPost, IInv, TypeOK, CopiesHonest, Honest,
                            Earned, ClosedBehind, ClosedPoints, Closed
  <2> QED
    BY <1>24, <2>2, <2>3, <2>4, <1>0, StepTyped DEF CancelPost, IInv
<1>25. ASSUME NEW p \in Calls, CancelSave(p)
      PROVE  IInv'
  <2>1. cur[p] \in Rows /\ copy[p][cur[p]].uid /\ cur[p] \in refunded
    BY <1>25 DEF CancelSave, IInv, Working, WorkingPoints, Earned
  <2>2. /\ [copy[p][cur[p]] EXCEPT !.status = "CANCELLED_REFUND"] \in Row
        /\ Honest(cur[p], [copy[p][cur[p]] EXCEPT !.status = "CANCELLED_REFUND"])
    <3>1. /\ copy[p][cur[p]] \in Row /\ Honest(cur[p], copy[p][cur[p]])
          /\ "CANCELLED_REFUND" \in RowStatus
      BY <2>1, CopyRow DEF IInv, CopiesHonest, RowStatus
    <3> QED
      BY <2>1, <3>1, RowWithStatus DEF Honest
  <2>3. ChargedOnce' /\ RowsHonest' /\ NoChargeWhileCollecting'
    BY <1>25, <2>1, <2>2, SaveKept, TableKept DEF CancelSave
  <2>4. CopiesHonest' /\ Earned' /\ ClosedBehind'
    BY <1>25, ReturnKept DEF CancelSave, Closed
  <2> QED
    BY <2>3, <2>4, <1>0, StepTyped DEF IInv
<1> QED
  BY <1>1, <1>2, <1>3, <1>4, <1>5, <1>6, <1>7, <1>8, <1>9, <1>10, <1>11, <1>12,
     <1>13, <1>14, <1>15, <1>16, <1>17, <1>18, <1>19, <1>20, <1>21, <1>22, <1>23,
     <1>24, <1>25
  DEF Next, Begin, Continue

\* The inductive invariant holds in every state of the order flow.
LEMMA Invariant == Spec => []IInv
<1>1. IInv /\ [Next]_vars => IInv'
  BY StepInv
<1> QED
  BY InitInv, <1>1, PTL DEF Spec

\* No key is ever billed twice.
THEOREM NoDoubleCharge == Spec => []ChargedOnce
<1>1. IInv => ChargedOnce
  BY DEF IInv
<1> QED
  BY Invariant, <1>1, PTL

\* No row is shown as paid or refunded unless Sweetbook billed it.
THEOREM PaidRowsAreCharged == Spec => []PaidIsCharged
<1>1. IInv => PaidIsCharged
  BY DEF IInv, RowsHonest, Honest, PaidIsCharged
<1> QED
  BY Invariant, <1>1, PTL

\* No row is shown as refunded unless Sweetbook refunded it.
THEOREM RefundedRowsAreRefunded == Spec => []RefundIsReal
<1>1. IInv => RefundIsReal
  BY DEF IInv, RowsHonest, Honest, RefundIsReal
<1> QED
  BY Invariant, <1>1, PTL

\* Nothing is billed before the collection is closed.
THEOREM CollectingIsFree == Spec => []NoChargeWhileCollecting
<1>1. IInv => NoChargeWhileCollecting
  BY DEF IInv
<1> QED
  BY Invariant, <1>1, PTL

-----------------------------------------------------------------------------
(* Steps that change the group *)

\* The group is left alone, closed, or opened for the first time.
LEMMA GroupStep ==
  ASSUME [Next]_vars
  PROVE  \/ group' = group
         \/ Closed'
         \/ group = "NONE" /\ group' = "COLLECTING"
BY DEF Next, Begin, Continue, CreateCheck, SubmitCheck, RejectCheck,
       MemberCheck, ConfirmCheck, RetryCheck, CancelRead, CreateSave,
       SubmitRead, RejectRead, MemberSave, ConfirmRead, ConfirmTx, Submitting,
       PostOrder, SavePaid, SaveError, ConfirmDone, BookSave, RetryRead,
       RetryCount, RetrySave, SaveGroupOrdered, CancelPost, CancelSave, Crash,
       Closed, vars, db

\* A closed collection stays closed.
THEOREM ClosedForGood == Spec => CollectingNeverReopens
<1>1. [Next]_vars => [Closed => Closed']_vars
  BY GroupStep DEF Closed
<1>2. [Closed => Closed']_vars
        => [(group \in {"CONFIRMED", "ORDERED"})
              => (group' \in {"CONFIRMED", "ORDERED"})]_vars
  BY DEF Closed
<1> QED
  BY <1>1, <1>2, PTL DEF Spec, CollectingNeverReopens

-----------------------------------------------------------------------------
(* Orders implements Billing *)

\* Before the first request nothing is open, billed, repaid or known.
LEMMA InitBilling == Init => Abstract!Init
BY DEF Init, NoCopies, Absent, Abstract!Init

\* Saving one row makes its order known or forgotten.
LEMMA SaveBilling ==
  ASSUME IInv, IInv', NEW r \in Rows, NEW row, SaveRow(r, row),
         UNCHANGED <<group, ledger>>
  PROVE  Abstract!Next
<1>1. rows \in [Rows -> Row] /\ rows' = [rows EXCEPT ![r] = row]
  BY DEF IInv, TypeOK, SaveRow
<1>2. CASE row.uid
  <2>1. charges[r] = 1
    BY <1>1, <1>2 DEF IInv, RowsHonest, Honest, ledger
  <2>2. {x \in Rows : rows'[x].uid} = {x \in Rows : rows[x].uid} \cup {r}
    BY <1>1, <1>2
  <2> QED
    BY <2>1, <2>2 DEF Abstract!Next, Abstract!Learn, ledger
<1>3. CASE ~row.uid
  <2>1. {x \in Rows : rows'[x].uid} = {x \in Rows : rows[x].uid} \ {r}
    BY <1>1, <1>3
  <2> QED
    BY <2>1 DEF Abstract!Next, Abstract!Forget, ledger
<1> QED
  BY <1>2, <1>3

\* A step that moves the group, or nothing, and leaves rows and ledger alone.
LEMMA GroupBilling ==
  ASSUME IInv, [Next]_vars, UNCHANGED <<rows, ledger>>
  PROVE  [Abstract!Next]_(Abstract!ledgerVars)
<1>1. CASE group' = group
  BY <1>1 DEF Abstract!ledgerVars, ledger
<1>2. CASE Closed'
  BY <1>2 DEF Closed, Abstract!Next, Abstract!Close, ledger
<1>3. CASE group = "NONE" /\ group' = "COLLECTING"
  BY <1>3 DEF IInv, NoChargeWhileCollecting, Abstract!Next, Abstract!Open, ledger
<1> QED
  BY <1>1, <1>2, <1>3, GroupStep

\* Every step of the order flow is a step of Billing or changes nothing there.
LEMMA StepBilling ==
  ASSUME IInv, IInv', [Next]_vars
  PROVE  [Abstract!Next]_(Abstract!ledgerVars)
<1>1. CASE UNCHANGED <<rows, ledger>>
  BY <1>1, GroupBilling
<1>2. ASSUME NEW p \in Calls, MemberSave(p)
      PROVE  [Abstract!Next]_(Abstract!ledgerVars)
  <2>1. cur[p] \in Rows
    BY <1>2 DEF MemberSave, At, IInv, Working, WorkingPoints
  <2> QED
    BY <1>1, <1>2, <2>1, SaveBilling DEF MemberSave
<1>3. ASSUME NEW p \in Calls, NEW r \in Rows, Submitting(p, r)
      PROVE  [Abstract!Next]_(Abstract!ledgerVars)
  BY <1>1, <1>3, SaveBilling DEF Submitting
<1>4. ASSUME NEW p \in Calls, SavePaid(p)
      PROVE  [Abstract!Next]_(Abstract!ledgerVars)
  <2>1. cur[p] \in Rows
    BY <1>4 DEF SavePaid, At, IInv, Working, WorkingPoints
  <2> QED
    BY <1>1, <1>4, <2>1, SaveBilling DEF SavePaid
<1>5. ASSUME NEW p \in Calls, SaveError(p)
      PROVE  [Abstract!Next]_(Abstract!ledgerVars)
  <2>1. cur[p] \in Rows
    BY <1>5 DEF SaveError, At, IInv, Working, WorkingPoints
  <2> QED
    BY <1>1, <1>5, <2>1, SaveBilling DEF SaveError
<1>6. ASSUME NEW p \in Calls, CancelSave(p)
      PROVE  [Abstract!Next]_(Abstract!ledgerVars)
  <2>1. cur[p] \in Rows
    BY <1>6 DEF CancelSave, At, IInv, Working, WorkingPoints
  <2> QED
    BY <1>1, <1>6, <2>1, SaveBilling DEF CancelSave
<1>7. ASSUME NEW p \in Calls, PostOrder(p)
      PROVE  [Abstract!Next]_(Abstract!ledgerVars)
  <2>1. cur[p] \in Rows /\ Closed /\ UNCHANGED <<group, rows, refunded>>
    BY <1>7 DEF PostOrder, At, IInv, Working, WorkingPoints, ClosedBehind,
                ClosedPoints, db
  <2>2. Bill(cur[p]) \/ UNCHANGED charges
    BY <1>7 DEF PostOrder
  <2>3. CASE charges[cur[p]] = 0 /\ Bill(cur[p])
    <3>1. charges' = [charges EXCEPT ![cur[p]] = 1]
      BY <2>1, <2>3 DEF Bill, IInv, TypeOK
    <3> QED
      BY <2>1, <2>3, <3>1 DEF Closed, Abstract!Next, Abstract!Charge
  <2>4. CASE charges[cur[p]] # 0 /\ Bill(cur[p])
    <3>1. charges' = charges
      BY <2>1, <2>4 DEF Bill, IInv, TypeOK
    <3> QED
      BY <1>1, <2>1, <3>1 DEF ledger
  <2>5. CASE UNCHANGED charges
    BY <1>1, <2>1, <2>5 DEF ledger
  <2> QED
    BY <2>2, <2>3, <2>4, <2>5
<1>8. ASSUME NEW p \in Calls, CancelPost(p)
      PROVE  [Abstract!Next]_(Abstract!ledgerVars)
  <2>1. cur[p] \in Rows /\ copy[p][cur[p]].uid
    BY <1>8 DEF CancelPost, At, IInv, Working, WorkingPoints, Earned
  <2>2. charges[cur[p]] = 1
    BY <2>1 DEF IInv, CopiesHonest, Honest
  <2>3. /\ UNCHANGED <<group, rows, charges>>
        /\ refunded' = refunded \cup {cur[p]} \/ refunded' = refunded
    BY <1>8 DEF CancelPost, db
  <2>4. CASE refunded' = refunded
    BY <1>1, <2>3, <2>4 DEF ledger
  <2>5. CASE refunded' = refunded \cup {cur[p]}
    BY <2>1, <2>2, <2>3, <2>5 DEF Abstract!Next, Abstract!Refund
  <2> QED
    BY <2>3, <2>4, <2>5
<1>9. ASSUME NEW p \in Calls, Begin(p)
      PROVE  UNCHANGED <<rows, ledger>>
  BY <1>9 DEF Begin, CreateCheck, SubmitCheck, RejectCheck, MemberCheck,
              ConfirmCheck, RetryCheck, CancelRead, db
<1>10. ASSUME NEW p \in Calls,
              \/ CreateSave(p) \/ SubmitRead(p) \/ RejectRead(p)
              \/ ConfirmRead(p) \/ ConfirmTx(p) \/ ConfirmDone(p)
              \/ BookSave(p) \/ RetryRead(p) \/ RetryCount(p) \/ RetrySave(p)
       PROVE  UNCHANGED <<rows, ledger>>
  BY <1>10 DEF CreateSave, SubmitRead, RejectRead, ConfirmRead, ConfirmTx,
               ConfirmDone, BookSave, RetryRead, RetryCount, RetrySave, db
<1>11. Crash \/ UNCHANGED vars => UNCHANGED <<rows, ledger>>
  BY DEF Crash, vars, db
<1>12. ASSUME NEW p \in Calls, Continue(p)
       PROVE  [Abstract!Next]_(Abstract!ledgerVars)
  BY <1>1, <1>2, <1>3, <1>4, <1>5, <1>6, <1>7, <1>8, <1>10, <1>12 DEF Continue
<1> QED
  BY <1>1, <1>9, <1>11, <1>12 DEF Next

\* For any members, rows and handlers, what the order flow does to the ledger
\* is a behaviour of Billing.
THEOREM ImplementsBilling == Spec => KeepsBilling
<1>1. IInv /\ IInv' /\ [Next]_vars => [Abstract!Next]_(Abstract!ledgerVars)
  BY StepBilling
<1> QED
  BY Invariant, InitBilling, <1>1, PTL DEF Spec, KeepsBilling, Abstract!Spec
-----------------------------------------------------------------------------
(***************************************************************************)
(* One request at a time.  Copies are then never stale: what a handler has *)
(* found in the tables it still finds there when it saves, unless it died. *)
(***************************************************************************)
OneAtATime == \A p, q \in Calls : p = q

Present == {r \in Rows : rows[r] # Absent}

UpToDate(p) ==
  /\ pc[p] \in {"submitRead", "rejectRead", "memberSave"} => group = "COLLECTING"
  /\ pc[p] \in {"confirmRead", "confirmTx"} => group \in {"COLLECTING", "CONFIRMED"}
  /\ pc[p] = "bookSave" => group = "ORDERED"
  /\ pc[p] = "post" => rows[cur[p]].status = "SUBMITTING"
  /\ pc[p] \in {"post", "paid", "error", "cancelPost", "cancelSave"} =>
       cur[p] \in Present
  /\ pc[p] \in {"confirmTx", "place", "post", "paid", "error"} =>
       ListOf(p) \subseteq Present
  /\ pc[p] = "memberSave" =>
       LET u == Orderer[cur[p]] IN Existing(u) = {} \/ cur[p] \in Existing(u)

Tables ==
  /\ OpenRowsUnbilled
  /\ OneRowPerMember
  /\ book = "ORDERED" => group = "ORDERED"

SerialInv == Tables /\ \A p \in Calls : UpToDate(p)

\* A handler that is idle holds nothing that could be stale.
LEMMA ReturnUpToDate ==
  ASSUME IInv, NEW p \in Calls, Return(p)
  PROVE  UpToDate(p)'
BY DEF IInv, TypeOK, Return, Goto, UpToDate

\* Steps that leave the orders and the ledger alone, and the group as it is or
\* not yet ordered.
LEMMA QuietTables ==
  ASSUME Tables, UNCHANGED <<rows, charges, book>>,
         group' = group \/ group # "ORDERED" \/ group' = "ORDERED"
  PROVE  Tables'
BY DEF Tables, OpenRowsUnbilled, OneRowPerMember

\* The loop and cancelOrder save rows that exist, with a status that is settled
\* or on its way.
LEMMA SaveTables ==
  ASSUME IInv, Tables, NEW r \in Present, NEW row \in Row,
         row.status \notin {"ABSENT", "PENDING", "REJECTED"},
         SaveRow(r, row), UNCHANGED <<charges, group, book>>
  PROVE  Tables' /\ Present \subseteq Present' /\ rows'[r] = row
<1>1. /\ r \in Rows /\ rows \in [Rows -> Row] /\ rows' = [rows EXCEPT ![r] = row]
      /\ rows[r] # Absent /\ row # Absent
  BY AbsentRow DEF IInv, TypeOK, SaveRow, Present
<1>2. rows'[r] = row /\ \A s \in Rows \ {r} : rows'[s] = rows[s]
  BY <1>1
<1>3. Present' = Present
  BY <1>1, <1>2 DEF Present
<1>4. OpenRowsUnbilled'
  BY <1>2 DEF Tables, OpenRowsUnbilled
<1>5. OneRowPerMember'
  BY <1>1, <1>2 DEF Tables, OneRowPerMember
<1> QED
  BY <1>2, <1>3, <1>4, <1>5 DEF Tables

\* A request finds the tables as they are.
LEMMA BeginSerial ==
  ASSUME IInv, Tables, NEW p \in Calls, Begin(p)
  PROVE  Tables' /\ UpToDate(p)'
<1> USE DEF IInv, TypeOK
<1>1. Tables'
  <2>1. UNCHANGED <<rows, charges, book, group>>
    BY DEF Begin, CreateCheck, SubmitCheck, RejectCheck, MemberCheck,
           ConfirmCheck, RetryCheck, CancelRead, db, ledger
  <2> QED
    BY <2>1, QuietTables
<1>2. CASE \E u \in Members : CreateCheck(p, u)
  BY <1>1, <1>2 DEF CreateCheck, Goto, UpToDate
<1>3. CASE \E u \in Members : SubmitCheck(p, u) \/ RejectCheck(p, u)
  BY <1>1, <1>3 DEF SubmitCheck, RejectCheck, MemberCheck, Goto, UpToDate, db
<1>4. CASE ConfirmCheck(p) \/ RetryCheck(p)
  BY <1>1, <1>4 DEF ConfirmCheck, RetryCheck, Goto, UpToDate, db
<1>5. ASSUME NEW r \in Rows, CancelRead(p, r) PROVE UpToDate(p)'
  <2>1. r \in Present /\ rows' = rows
    BY <1>5, AbsentRow DEF CancelRead, Present, db
  <2>2. cur'[p] = r /\ pc'[p] \in {"cancelPost", "cancelSave"}
    BY <1>5 DEF CancelRead, Goto
  <2> QED
    BY <2>1, <2>2 DEF UpToDate, Present
<1> QED
  BY <1>1, <1>2, <1>3, <1>4, <1>5 DEF Begin

\* submitShipping and rejectOrder save the row they found, or a first one.
LEMMA MemberSerial ==
  ASSUME IInv, Tables, NEW p \in Calls, UpToDate(p),
         SubmitRead(p) \/ RejectRead(p) \/ MemberSave(p)
  PROVE  Tables' /\ UpToDate(p)'
<1> USE DEF IInv, TypeOK
<1>1. cur[p] \in Rows /\ group = "COLLECTING"
  BY DEF SubmitRead, RejectRead, MemberSave, At, Working, WorkingPoints, UpToDate
<1>2. ASSUME NEW r \in FoundBy(p), NEW row, Prepare(p, r, row),
             UNCHANGED <<db, ledger>>
      PROVE  Tables' /\ UpToDate(p)'
  <2>1. /\ UNCHANGED <<rows, charges, book, group>>
        /\ pc'[p] = "memberSave" /\ cur'[p] = r
    BY <1>2 DEF Prepare, Goto, db, ledger
  <2>2. Tables'
    BY <2>1, QuietTables
  <2>3. Existing(Orderer[r])' = Existing(Orderer[r])
    BY <2>1 DEF Existing
  <2>4. Existing(Orderer[r]) = {} \/ r \in Existing(Orderer[r])
    BY <1>1, <1>2, OrdererAssumption DEF FoundBy, Existing
  <2> QED
    BY <1>1, <2>1, <2>2, <2>3, <2>4 DEF UpToDate
<1>3. CASE SubmitRead(p)
  BY <1>2, <1>3 DEF SubmitRead
<1>4. CASE RejectRead(p)
  <2>1. UNCHANGED <<rows, charges, book, group>>
    BY <1>4 DEF RejectRead, db, ledger
  <2> QED
    BY <1>2, <1>4, <2>1, QuietTables, ReturnUpToDate DEF RejectRead
<1>5. CASE MemberSave(p)
  <2> DEFINE r == cur[p]
  <2>1. Return(p) /\ UNCHANGED <<group, book, charges>>
    BY <1>5 DEF MemberSave, ledger
  <2>2. CASE UNCHANGED rows
    BY <2>1, <2>2, QuietTables, ReturnUpToDate
  <2>3. CASE SaveRow(r, copy[p][r])
    <3>1. \A s \in Rows : charges'[s] = 0
      BY <1>1, <2>1 DEF NoChargeWhileCollecting
    <3>2. OpenRowsUnbilled'
      BY <3>1 DEF OpenRowsUnbilled
    <3>3. \A s \in Rows \ {r} : rows'[s] = rows[s]
      BY <1>1, <2>3 DEF SaveRow
    <3>4. Existing(Orderer[r]) = {} \/ r \in Existing(Orderer[r])
      BY <1>5 DEF MemberSave, At, UpToDate
    <3>5. ASSUME NEW s \in Rows \ {r}, rows[s] # Absent, Orderer[s] = Orderer[r]
          PROVE  FALSE
      <4>1. s \in Existing(Orderer[r])
        BY <3>5 DEF Existing
      <4>2. rows[r] # Absent
        BY <3>4, <4>1 DEF Existing
      <4> QED
        BY <1>1, <3>5, <4>2 DEF Tables, OneRowPerMember
    <3>6. OneRowPerMember'
      BY <1>1, <3>3, <3>5 DEF Tables, OneRowPerMember
    <3> QED
      BY <2>1, <3>2, <3>6, ReturnUpToDate DEF Tables
  <2> QED
    BY <1>5, <2>2, <2>3 DEF MemberSave
<1> QED
  BY <1>3, <1>4, <1>5

\* The loop that places orders works on rows that exist, and bills one that is
\* SUBMITTING.
LEMMA LoopSerial ==
  ASSUME IInv, Tables, NEW p \in Calls, UpToDate(p),
         \/ \E r \in Rows : Submitting(p, r)
         \/ PostOrder(p) \/ SavePaid(p) \/ SaveError(p)
  PROVE  Tables' /\ UpToDate(p)'
<1> USE DEF IInv, TypeOK
<1>1. ASSUME NEW r \in Rows, Submitting(p, r) PROVE Tables' /\ UpToDate(p)'
  <2>1. /\ r \in Present /\ ListOf(p) \subseteq Present
        /\ cur'[p] = r /\ copy' = copy /\ UNCHANGED <<charges, group, book>>
    BY <1>1 DEF Submitting, At, UpToDate, ledger
  <2>2. ListOf(p)' = ListOf(p)
    BY <2>1 DEF ListOf
  <2>3. CASE UNCHANGED rows /\ Goto(p, "error")
    BY <2>1, <2>2, <2>3, QuietTables DEF Goto, UpToDate, Present
  <2>4. CASE /\ SaveRow(r, [copy[p][r] EXCEPT !.status = "SUBMITTING"])
             /\ Goto(p, "post")
    <3> DEFINE row == [copy[p][r] EXCEPT !.status = "SUBMITTING"]
    <3>1. row \in Row /\ row.status = "SUBMITTING"
      BY RowWithStatus, CopyRow DEF RowStatus
    <3> HIDE DEF row
    <3>2. Tables' /\ Present \subseteq Present' /\ rows'[r] = row
      BY <2>1, <2>4, <3>1, SaveTables DEF row
    <3> QED
      BY <2>1, <2>2, <2>4, <3>1, <3>2 DEF Goto, UpToDate
  <2> QED
    BY <1>1, <2>3, <2>4 DEF Submitting
<1>2. CASE PostOrder(p)
  <2> DEFINE r == cur[p]
  <2>1. /\ r \in Present /\ rows[r].status = "SUBMITTING"
        /\ ListOf(p) \subseteq Present
        /\ UNCHANGED <<rows, group, book, cur>>
    BY <1>2 DEF PostOrder, At, UpToDate, db
  <2>2. \A s \in Rows \ {r} : charges'[s] = charges[s]
    BY <1>2 DEF PostOrder, Bill
  <2>3. Tables'
    BY <2>1, <2>2 DEF Tables, OpenRowsUnbilled, OneRowPerMember
  <2>4. pc'[p] \in {"paid", "error"} /\ ListOf(p)' \subseteq Present
    <3>1. r \in Rows /\ copy[p] \in [Rows -> Row]
      BY <2>1 DEF Present
    <3>2. \A s \in Rows \ {r} : copy'[p][s] = copy[p][s]
      BY <1>2, <3>1 DEF PostOrder
    <3>3. ListOf(p)' \subseteq ListOf(p) \cup {r}
      BY <3>2 DEF ListOf
    <3> QED
      BY <1>2, <2>1, <3>3 DEF PostOrder, Goto
  <2> QED
    BY <2>1, <2>3, <2>4 DEF UpToDate, Present
<1>3. ASSUME NEW status \in {"PAID", "ERROR"}, pc[p] \in {"paid", "error"},
             SaveRow(cur[p], [copy[p][cur[p]] EXCEPT !.status = status]),
             NextRow(p), UNCHANGED <<charges, group, book>>
      PROVE  Tables' /\ UpToDate(p)'
  <2> DEFINE r == cur[p]
             row == [copy[p][r] EXCEPT !.status = status]
  <2>1. r \in Present /\ r \in Rows /\ ListOf(p) \subseteq Present
    BY <1>3 DEF UpToDate, Present
  <2>2. row \in Row /\ row.status = status
    <3>1. status \in RowStatus /\ copy[p][r] \in Row
      BY <2>1, CopyRow DEF RowStatus
    <3> QED
      BY <3>1, RowWithStatus
  <2> HIDE DEF row
  <2>3. Tables' /\ Present \subseteq Present'
    BY <1>3, <2>1, <2>2, SaveTables DEF row
  <2>4. pc'[p] = "place" /\ ListOf(p)' \subseteq ListOf(p)
    BY <1>3, <2>1 DEF NextRow, Goto, ListOf
  <2> QED
    BY <2>1, <2>3, <2>4 DEF UpToDate
<1>4. CASE SavePaid(p)
  <2>1. pc[p] = "paid" /\ UNCHANGED <<charges, group, book>>
    BY <1>4 DEF SavePaid, At, ledger
  <2>2. CASE UNCHANGED <<rows, copy, cur>> /\ Goto(p, "error")
    BY <2>1, <2>2, QuietTables DEF Goto, UpToDate, Present, ListOf
  <2> QED
    BY <1>3, <1>4, <2>1, <2>2 DEF SavePaid
<1>5. CASE SaveError(p)
  <2>1. pc[p] = "error" /\ UNCHANGED <<charges, group, book>>
    BY <1>5 DEF SaveError, At, ledger
  <2>2. CASE UNCHANGED rows /\ Return(p)
    BY <2>1, <2>2, QuietTables, ReturnUpToDate
  <2> QED
    BY <1>3, <1>5, <2>1, <2>2 DEF SaveError
<1> QED
  BY <1>1, <1>2, <1>4, <1>5

\* What is left of createOrderGroup, confirmation, retry and cancellation.
LEMMA OtherSerial ==
  ASSUME IInv, Tables, NEW p \in Calls, UpToDate(p), Continue(p),
         ~SubmitRead(p), ~RejectRead(p), ~MemberSave(p),
         ~(\E r \in Rows : Submitting(p, r)), ~PostOrder(p), ~SavePaid(p),
         ~SaveError(p)
  PROVE  Tables' /\ UpToDate(p)'
<1> USE DEF IInv, TypeOK
<1>1. CASE CreateSave(p)
  BY <1>1, QuietTables, ReturnUpToDate DEF CreateSave, ledger
<1>2. ASSUME NEW S \in SUBSET Rows, copy' = [copy EXCEPT ![p] = CopiesOf(S)],
             rows' = rows
      PROVE  ListOf(p)' \subseteq Present
  BY <1>2 DEF ListOf, CopiesOf, Present
<1>3. CASE ConfirmRead(p) \/ RetryRead(p)
  <2>1. /\ UNCHANGED <<rows, charges, book, group>>
        /\ At(p, "confirmRead") \/ At(p, "retryRead")
    BY <1>3 DEF ConfirmRead, RetryRead, db, ledger
  <2>2. CASE Return(p)
    BY <2>1, <2>2, QuietTables, ReturnUpToDate
  <2>3. ASSUME NEW S \in SUBSET Rows, copy' = [copy EXCEPT ![p] = CopiesOf(S)],
               \/ Goto(p, "place")
               \/ Goto(p, "confirmTx") /\ At(p, "confirmRead")
        PROVE  Tables' /\ UpToDate(p)'
    <3>1. ListOf(p)' \subseteq Present'
      BY <1>2, <2>1, <2>3 DEF Present
    <3> QED
      BY <2>1, <2>3, <3>1, QuietTables DEF Goto, At, UpToDate
  <2>4. Participating \subseteq Rows /\ Failed \subseteq Rows
    BY DEF Participating, Failed
  <2>5. {r \in Participating : Placeable(rows[r].status)} \in SUBSET Rows
    BY <2>4
  <2> QED
    BY <1>3, <2>2, <2>3, <2>4, <2>5 DEF ConfirmRead, RetryRead
<1>4. CASE ConfirmTx(p)
  <2>1. group # "ORDERED" /\ UNCHANGED <<rows, charges, book>>
    BY <1>4 DEF ConfirmTx, At, UpToDate, ledger
  <2>2. CASE Return(p)
    BY <2>1, <2>2, QuietTables, ReturnUpToDate
  <2>3. CASE Goto(p, "place") /\ UNCHANGED locals
    BY <1>4, <2>1, <2>3, QuietTables
       DEF ConfirmTx, At, Goto, UpToDate, ListOf, Present, locals
  <2> QED
    BY <1>4, <2>2, <2>3 DEF ConfirmTx
<1>5. ASSUME SaveGroupOrdered(p), UNCHANGED <<rows, charges, book>>
      PROVE  Tables' /\ UpToDate(p)'
  BY <1>5, QuietTables, ReturnUpToDate DEF SaveGroupOrdered, Goto, UpToDate
<1>6. CASE ConfirmDone(p) \/ RetrySave(p)
  BY <1>5, <1>6, QuietTables, ReturnUpToDate DEF ConfirmDone, RetrySave, ledger
<1>7. CASE BookSave(p)
  <2>1. group = "ORDERED" /\ UNCHANGED <<group, rows, charges>> /\ Return(p)
    BY <1>7 DEF BookSave, At, UpToDate, ledger
  <2> QED
    BY <2>1, ReturnUpToDate DEF Tables, OpenRowsUnbilled, OneRowPerMember
<1>8. CASE RetryCount(p)
  BY <1>8, QuietTables, ReturnUpToDate DEF RetryCount, Goto, UpToDate, db, ledger
<1>9. CASE CancelPost(p)
  BY <1>9, QuietTables, ReturnUpToDate
     DEF CancelPost, At, Goto, UpToDate, Present, db, locals
<1>10. CASE CancelSave(p)
  <2>1. /\ cur[p] \in Present /\ cur[p] \in Rows /\ Return(p)
        /\ UNCHANGED <<charges, group, book>>
    BY <1>10 DEF CancelSave, At, UpToDate, Present, ledger
  <2>2. CASE UNCHANGED rows
    BY <2>1, <2>2, QuietTables, ReturnUpToDate
  <2>3. CASE SaveRow(cur[p], [copy[p][cur[p]] EXCEPT !.status = "CANCELLED_REFUND"])
    <3> DEFINE row == [copy[p][cur[p]] EXCEPT !.status = "CANCELLED_REFUND"]
    <3>1. row \in Row /\ row.status = "CANCELLED_REFUND"
      BY <2>1, RowWithStatus, CopyRow DEF RowStatus
    <3> HIDE DEF row
    <3> QED
      BY <2>1, <2>3, <3>1, SaveTables, ReturnUpToDate DEF row
  <2> QED
    BY <1>10, <2>2, <2>3 DEF CancelSave
<1> QED
  BY <1>1, <1>3, <1>4, <1>6, <1>7, <1>8, <1>9, <1>10 DEF Continue

\* A step of the order flow, when there is one handler.
LEMMA StepSerial ==
  ASSUME OneAtATime, IInv, SerialInv, [Next]_vars
  PROVE  SerialInv'
<1>1. CASE UNCHANGED vars
  BY <1>1 DEF vars, db, ledger, locals, SerialInv, Tables, OpenRowsUnbilled,
              OneRowPerMember, UpToDate, Present, ListOf, Existing
<1>2. CASE Crash
  <2>1. Tables'
    BY <1>2, QuietTables DEF Crash, SerialInv, db, ledger
  <2>2. \A p \in Calls : UpToDate(p)'
    BY <1>2 DEF Crash, UpToDate
  <2> QED
    BY <2>1, <2>2 DEF SerialInv
<1>3. ASSUME NEW p \in Calls, Begin(p) \/ Continue(p) PROVE SerialInv'
  <2>1. Tables /\ UpToDate(p)
    BY DEF SerialInv
  <2>2. Tables' /\ UpToDate(p)'
    BY <1>3, <2>1, BeginSerial, MemberSerial, LoopSerial, OtherSerial
  <2>3. \A q \in Calls : q = p
    BY DEF OneAtATime
  <2> QED
    BY <2>2, <2>3 DEF SerialInv
<1> QED
  BY <1>1, <1>2, <1>3 DEF Next

\* As long as requests come one at a time, the tables tell the truth, although
\* any call may fail and the process may die between any two steps.
THEOREM SerialInvariance == OneAtATime => (Spec => []SerialInv)
<1> SUFFICES ASSUME OneAtATime PROVE Spec => []SerialInv
  OBVIOUS
<1>1. Init => SerialInv
  BY AbsentRow
     DEF Init, SerialInv, Tables, OpenRowsUnbilled, OneRowPerMember, UpToDate,
         NoCopies
<1>2. IInv /\ SerialInv /\ [Next]_vars => SerialInv'
  BY StepSerial
<1> QED
  BY <1>1, <1>2, Invariant, PTL DEF Spec

\* One at a time, no order that can still be changed or declined is billed.
THEOREM SerialOpenUnbilled == OneAtATime => (Spec => []OpenRowsUnbilled)
<1>1. SerialInv => OpenRowsUnbilled
  BY DEF SerialInv, Tables
<1> QED
  BY <1>1, SerialInvariance, PTL

\* One at a time, no member comes to have a second order.
THEOREM SerialOneRow == OneAtATime => (Spec => []OneRowPerMember)
<1>1. SerialInv => OneRowPerMember
  BY DEF SerialInv, Tables
<1> QED
  BY <1>1, SerialInvariance, PTL

\* One at a time, a group that is ORDERED stays so, and its book never becomes
\* ORDERED before it.
THEOREM SerialOrderedFinal == OneAtATime => (Spec => OrderedIsFinal)
<1> SUFFICES ASSUME OneAtATime PROVE Spec => OrderedIsFinal
  OBVIOUS
<1> DEFINE Final == /\ group = "ORDERED" => group' = "ORDERED"
                    /\ book' = "ORDERED" => group' = "ORDERED"
<1>1. SerialInv /\ SerialInv' /\ [Next]_vars => [Final]_vars
  <2> SUFFICES ASSUME SerialInv, SerialInv', Next, group = "ORDERED"
               PROVE  group' = "ORDERED"
    BY DEF SerialInv, Tables
  <2>1. \A p \in Calls : ~At(p, "confirmTx")
    BY DEF SerialInv, UpToDate, At
  <2> QED
    BY <2>1 DEF Next, Begin, Continue, CreateCheck, SubmitCheck, RejectCheck,
       MemberCheck, ConfirmCheck, RetryCheck, CancelRead, CreateSave,
       SubmitRead, RejectRead, MemberSave, ConfirmRead, ConfirmTx, Submitting,
       PostOrder, SavePaid, SaveError, ConfirmDone, BookSave, RetryRead,
       RetryCount, RetrySave, SaveGroupOrdered, CancelPost, CancelSave, Crash, db
<1> QED
  BY <1>1, SerialInvariance, PTL DEF Spec, OrderedIsFinal
=============================================================================
