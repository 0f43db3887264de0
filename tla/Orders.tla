------------------------------- MODULE Orders -------------------------------
(***************************************************************************)
(* The group order of one book (orders.service.ts): members hand in their  *)
(* shipping details or decline, the initiator confirms, every remaining    *)
(* order is placed at Sweetbook under its idempotency key, failed orders   *)
(* are retried, and a paid order may be cancelled.                         *)
(*                                                                         *)
(* Requests are handled by Node.js: a handler runs without interruption    *)
(* from one await to the next, and any other handler may run in between.   *)
(* Each action below is one such stretch.  An entity a handler has read is *)
(* a copy, and Repository.save, taken as one step, leaves the row as the   *)
(* copy is, whatever other handlers wrote to it since.                     *)
(***************************************************************************)
EXTENDS Naturals, FiniteSets

CONSTANTS
  Members,    \* users who can take part in the order
  Rows,       \* identities of order rows, one idempotency key each (a bound)
  Orderer,    \* the member each row belongs to, once it is created
  BookOwner,  \* owner of a PERSONAL book, or Nobody for a SHARED one
  Nobody,     \* not a member
  NoRow,      \* not a row
  Calls,      \* request handlers that may be in progress at once (a bound)
  MayCrash    \* whether the server process may die

ASSUME MembersAssumption == Nobody \notin Members
ASSUME RowsAssumption == NoRow \notin Rows
ASSUME OrdererAssumption == Orderer \in [Rows -> Members]
ASSUME CrashAssumption == MayCrash \in BOOLEAN
ASSUME OwnerAssumption == BookOwner \in Members \cup {Nobody}

GroupStatus == {"NONE", "COLLECTING", "CONFIRMED", "ORDERED"}
RowStatus == {"ABSENT", "PENDING", "REJECTED", "SUBMITTING", "PAID",
              "CANCELLED_REFUND", "ERROR"}

(***************************************************************************)
(* uid says whether sweetbookOrderUid is set.  A key stands for one order  *)
(* at Sweetbook, so the row determines which uid that is.                  *)
(***************************************************************************)
Row == [status : RowStatus, uid : BOOLEAN]
Absent == [status |-> "ABSENT", uid |-> FALSE]

Points == {"idle", "createSave", "submitRead", "rejectRead", "memberSave",
           "confirmRead", "confirmTx", "retryRead", "place", "post", "paid",
           "error", "retrySave", "bookSave", "cancelPost", "cancelSave"}

VARIABLES
  group,     \* status of the book's order group, NONE before it exists
  book,      \* status of the book
  rows,      \* the orders table
  charges,   \* orders Sweetbook has accepted, and billed, under each key
  refunded,  \* keys whose order Sweetbook has cancelled and refunded
  pc,        \* where each handler stands
  op,        \* which loop a handler is in: confirm or retry
  cur,       \* the row a handler is working on
  copy,      \* the rows a handler holds copies of and has yet to deal with
  allOk      \* whether every order a handler tried so far succeeded

db == <<group, book, rows>>
ledger == <<charges, refunded>>
locals == <<op, cur, copy, allOk>>
vars == <<db, ledger, pc, locals>>

-----------------------------------------------------------------------------
NoCopies == [r \in Rows |-> Absent]

Init ==
  /\ group = "NONE" /\ book = "READY"
  /\ rows = NoCopies
  /\ charges = [r \in Rows |-> 0] /\ refunded = {}
  /\ pc = [p \in Calls |-> "idle"]
  /\ op = [p \in Calls |-> "none"]
  /\ cur = [p \in Calls |-> NoRow]
  /\ copy = [p \in Calls |-> NoCopies]
  /\ allOk = [p \in Calls |-> TRUE]

Existing(u) == {r \in Rows : Orderer[r] = u /\ rows[r] # Absent}
Free(u) == {r \in Rows : Orderer[r] = u /\ rows[r] = Absent
                         /\ \A p \in Calls : cur[p] # r}

\* PERSONAL books are ordered by their owner alone.
Allowed(u) == BookOwner \in {Nobody, u}

At(p, point) == pc[p] = point
Goto(p, point) == pc' = [pc EXCEPT ![p] = point]

\* The handler answers its request, or dies on an exception.
Return(p) ==
  /\ Goto(p, "idle")
  /\ op' = [op EXCEPT ![p] = "none"]
  /\ cur' = [cur EXCEPT ![p] = NoRow]
  /\ copy' = [copy EXCEPT ![p] = NoCopies]
  /\ allOk' = [allOk EXCEPT ![p] = TRUE]

\* Repository.save of the copy of row r that handler p holds.
SaveRow(r, row) == rows' = [rows EXCEPT ![r] = row]

\* The row the handler is working on leaves its list.
NextRow(p) ==
  /\ Goto(p, "place")
  /\ copy' = [copy EXCEPT ![p][cur[p]] = Absent]
  /\ cur' = [cur EXCEPT ![p] = NoRow]

ListOf(p) == {r \in Rows : copy[p][r] # Absent}

-----------------------------------------------------------------------------
(* createOrderGroup: one group per book, by the unique index on bookId *)

CreateCheck(p, u) ==
  /\ At(p, "idle") /\ Allowed(u)
  /\ book = "READY" /\ group = "NONE"
  /\ Goto(p, "createSave")
  /\ UNCHANGED <<db, ledger, locals>>

\* Fault: without the unique index a second group overwrites the first.
CreateSaveNoIndex(p) ==
  /\ At(p, "createSave")
  /\ group' = "COLLECTING"
  /\ Return(p)
  /\ UNCHANGED <<book, rows, ledger>>

\* The INSERT, or its failure on the unique index or the database.
CreateSave(p) ==
  /\ At(p, "createSave")
  /\ \/ group = "NONE" /\ group' = "COLLECTING"
     \/ UNCHANGED group
  /\ Return(p)
  /\ UNCHANGED <<book, rows, ledger>>

-----------------------------------------------------------------------------
(* submitShipping and rejectOrder: a member joins or declines *)

\* cur reserves the key a new row would take, so that the bound on Rows never
\* stops a handler half way; a member with no spare key has a row already.
MemberCheck(p, u, point) ==
  /\ At(p, "idle") /\ Allowed(u)
  /\ group = "COLLECTING"
  /\ \E r \in IF Free(u) # {} THEN Free(u) ELSE Existing(u) :
        cur' = [cur EXCEPT ![p] = r]
  /\ Goto(p, point)
  /\ UNCHANGED <<db, ledger, op, copy, allOk>>

SubmitCheck(p, u) == MemberCheck(p, u, "submitRead")
RejectCheck(p, u) == MemberCheck(p, u, "rejectRead")

\* Fault: the handler never looks for the member's earlier row.
FoundByNever(p) == {cur[p]}

\* The row findOne returns, any of the member's rows, or the one to create.
FoundBy(p) ==
  LET u == Orderer[cur[p]]
  IN  IF Existing(u) = {} THEN {cur[p]} ELSE Existing(u)

Prepare(p, r, row) ==
  /\ cur' = [cur EXCEPT ![p] = r]
  /\ copy' = [copy EXCEPT ![p][r] = row]
  /\ Goto(p, "memberSave")
  /\ UNCHANGED <<op, allOk>>

\* A row that was rejected, or is new, becomes PENDING; any other status is
\* kept while the address changes.
SubmitRead(p) ==
  /\ At(p, "submitRead")
  /\ \E r \in FoundBy(p) :
        Prepare(p, r, IF rows[r].status \in {"ABSENT", "REJECTED"}
                      THEN [rows[r] EXCEPT !.status = "PENDING"]
                      ELSE rows[r])
  /\ UNCHANGED <<db, ledger>>

RejectRead(p) ==
  /\ At(p, "rejectRead")
  /\ \E r \in FoundBy(p) :
        IF rows[r].status \in {"ABSENT", "PENDING", "REJECTED"}
        THEN Prepare(p, r, [rows[r] EXCEPT !.status = "REJECTED"])
        ELSE Return(p)
  /\ UNCHANGED <<db, ledger>>

MemberSave(p) ==
  /\ At(p, "memberSave")
  /\ SaveRow(cur[p], copy[p][cur[p]]) \/ UNCHANGED rows
  /\ Return(p)
  /\ UNCHANGED <<group, book, ledger>>

-----------------------------------------------------------------------------
(* confirmAndPlaceOrders, called by the initiator *)

\* Fault: the status guard is dropped, so an ordered group is confirmed again.
ConfirmCheckUnguarded(p) ==
  /\ At(p, "idle")
  /\ group # "NONE"
  /\ Goto(p, "confirmRead")
  /\ UNCHANGED <<db, ledger, locals>>

ConfirmCheck(p) ==
  /\ At(p, "idle")
  /\ group \in {"COLLECTING", "CONFIRMED"}
  /\ Goto(p, "confirmRead")
  /\ UNCHANGED <<db, ledger, locals>>

Participating == {r \in Rows : rows[r].status \notin {"ABSENT", "REJECTED"}}

\* The rows the loop will place.  Rows in any other status are reported as
\* successful without being looked at again.
Placeable(status) == status = "PENDING"

CopiesOf(S) == [r \in Rows |-> IF r \in S THEN rows[r] ELSE Absent]

ConfirmRead(p) ==
  /\ At(p, "confirmRead")
  /\ IF Participating = {}
     THEN Return(p)
     ELSE /\ copy' = [copy EXCEPT ![p] =
                        CopiesOf({r \in Participating : Placeable(rows[r].status)})]
          /\ op' = [op EXCEPT ![p] = "confirm"]
          /\ Goto(p, "confirmTx")
          /\ UNCHANGED <<cur, allOk>>
  /\ UNCHANGED <<db, ledger>>

\* Fault: the catch block rolls back and forgets to rethrow.
ConfirmTxSwallowed(p) ==
  /\ At(p, "confirmTx")
  /\ group' \in {group, "CONFIRMED"}
  /\ Goto(p, "place")
  /\ UNCHANGED <<book, rows, ledger, locals>>

\* The transaction that closes the collection, or its rollback.
ConfirmTx(p) ==
  /\ At(p, "confirmTx")
  /\ \/ /\ group' = "CONFIRMED"
        /\ Goto(p, "place")
        /\ UNCHANGED locals
     \/ UNCHANGED group /\ Return(p)
  /\ UNCHANGED <<book, rows, ledger>>

-----------------------------------------------------------------------------
(* The loop both callers share: SUBMITTING, POST /orders, PAID or ERROR *)

\* Fault: the order is posted without first being saved as SUBMITTING.
SubmittingUnmarked(p, r) ==
  /\ At(p, "place") /\ r \in ListOf(p)
  /\ cur' = [cur EXCEPT ![p] = r]
  /\ Goto(p, "post")
  /\ UNCHANGED <<db, ledger, op, copy, allOk>>

Submitting(p, r) ==
  /\ At(p, "place") /\ r \in ListOf(p)
  /\ cur' = [cur EXCEPT ![p] = r]
  /\ \/ SaveRow(r, [copy[p][r] EXCEPT !.status = "SUBMITTING"]) /\ Goto(p, "post")
     \/ UNCHANGED rows /\ Goto(p, "error")
  /\ UNCHANGED <<group, book, ledger, op, copy, allOk>>

\* Fault: no Idempotency-Key header, so a repeated request is a new order.
BillUnkeyed(r) == charges' = [charges EXCEPT ![r] = @ + 1]

\* Sweetbook bills a key once and answers a repeated key with the order it
\* already has.
Bill(r) == charges' = [charges EXCEPT ![r] = IF @ = 0 THEN 1 ELSE @]

\* Fault: a failed request is treated as an answered one.
PostOrderUnchecked(p) ==
  /\ At(p, "post")
  /\ Bill(cur[p]) \/ UNCHANGED charges
  /\ copy' = [copy EXCEPT ![p][cur[p]].uid = TRUE]
  /\ Goto(p, "paid")
  /\ UNCHANGED <<db, refunded, op, cur, allOk>>

\* POST /orders with the client's own retries: an answer, a refusal, or a
\* request that was carried out and whose answer was lost.
PostOrder(p) ==
  /\ At(p, "post")
  /\ \/ /\ Bill(cur[p])
        /\ copy' = [copy EXCEPT ![p][cur[p]].uid = TRUE]
        /\ Goto(p, "paid")
     \/ /\ Bill(cur[p]) \/ UNCHANGED charges
        /\ Goto(p, "error")
        /\ UNCHANGED copy
  /\ UNCHANGED <<db, refunded, op, cur, allOk>>

\* Fault: the loop does not move on after a paid row.
SavePaidAgain(p) ==
  /\ At(p, "paid")
  /\ SaveRow(cur[p], [copy[p][cur[p]] EXCEPT !.status = "PAID"])
  /\ Goto(p, "place")
  /\ UNCHANGED <<group, book, ledger, locals>>

SavePaid(p) ==
  /\ At(p, "paid")
  /\ \/ SaveRow(cur[p], [copy[p][cur[p]] EXCEPT !.status = "PAID"]) /\ NextRow(p)
     \/ UNCHANGED <<rows, copy, cur>> /\ Goto(p, "error")
  /\ UNCHANGED <<group, book, ledger, op, allOk>>

\* The catch block.  A second failure leaves the loop and the handler.
SaveError(p) ==
  /\ At(p, "error")
  /\ \/ /\ SaveRow(cur[p], [copy[p][cur[p]] EXCEPT !.status = "ERROR"])
        /\ NextRow(p)
        /\ allOk' = [allOk EXCEPT ![p] = FALSE]
        /\ UNCHANGED op
     \/ UNCHANGED rows /\ Return(p)
  /\ UNCHANGED <<group, book, ledger>>

SaveGroupOrdered(p) ==
  \/ /\ group' = "ORDERED"
     /\ Goto(p, "bookSave")
     /\ UNCHANGED locals
  \/ UNCHANGED group /\ Return(p)

\* allSuccess over the results, then the two closing saves.
ConfirmDone(p) ==
  /\ At(p, "place") /\ ListOf(p) = {} /\ op[p] = "confirm"
  /\ IF allOk[p] THEN SaveGroupOrdered(p) ELSE UNCHANGED group /\ Return(p)
  /\ UNCHANGED <<book, rows, ledger>>

BookSave(p) ==
  /\ At(p, "bookSave")
  /\ book' = "ORDERED" \/ UNCHANGED book
  /\ Return(p)
  /\ UNCHANGED <<group, rows, ledger>>

-----------------------------------------------------------------------------
(* retryFailedOrders, called by the initiator *)

RetryCheck(p) ==
  /\ At(p, "idle")
  /\ group = "CONFIRMED"
  /\ Goto(p, "retryRead")
  /\ UNCHANGED <<db, ledger, locals>>

Failed == {r \in Rows : rows[r].status = "ERROR"}

RetryRead(p) ==
  /\ At(p, "retryRead")
  /\ IF Failed = {}
     THEN Return(p)
     ELSE /\ copy' = [copy EXCEPT ![p] = CopiesOf(Failed)]
          /\ op' = [op EXCEPT ![p] = "retry"]
          /\ Goto(p, "place")
          /\ UNCHANGED <<cur, allOk>>
  /\ UNCHANGED <<db, ledger>>

\* Rows still in ERROR are counted in the table, not in this call's results.
RetryCount(p) ==
  /\ At(p, "place") /\ ListOf(p) = {} /\ op[p] = "retry"
  /\ IF Failed = {} THEN Goto(p, "retrySave") /\ UNCHANGED locals ELSE Return(p)
  /\ UNCHANGED <<db, ledger>>

RetrySave(p) ==
  /\ At(p, "retrySave")
  /\ SaveGroupOrdered(p)
  /\ UNCHANGED <<book, rows, ledger>>

-----------------------------------------------------------------------------
(* cancelOrder, called by the orderer *)

\* Fault: an unpaid order may be cancelled, and Sweetbook is always called.
CancelReadUnpaid(p, r) ==
  /\ At(p, "idle")
  /\ rows[r].status \in {"PENDING", "PAID"}
  /\ cur' = [cur EXCEPT ![p] = r]
  /\ copy' = [copy EXCEPT ![p][r] = rows[r]]
  /\ Goto(p, "cancelPost")
  /\ UNCHANGED <<db, ledger, op, allOk>>

CancelRead(p, r) ==
  /\ At(p, "idle")
  /\ rows[r].status = "PAID"
  /\ cur' = [cur EXCEPT ![p] = r]
  /\ copy' = [copy EXCEPT ![p][r] = rows[r]]
  /\ Goto(p, IF rows[r].uid THEN "cancelPost" ELSE "cancelSave")
  /\ UNCHANGED <<db, ledger, op, allOk>>

\* Fault: the failure of the cancel request is swallowed.
CancelPostSwallowed(p) ==
  /\ At(p, "cancelPost")
  /\ refunded' \in {refunded, refunded \cup {cur[p]}}
  /\ Goto(p, "cancelSave")
  /\ UNCHANGED <<db, charges, locals>>

\* Sweetbook cancels and refunds, or the call fails; a lost answer is a
\* failure of an order that was cancelled.
CancelPost(p) ==
  /\ At(p, "cancelPost")
  /\ \/ /\ refunded' = refunded \cup {cur[p]}
        /\ Goto(p, "cancelSave")
        /\ UNCHANGED locals
     \/ /\ refunded' \in {refunded, refunded \cup {cur[p]}}
        /\ Return(p)
  /\ UNCHANGED <<db, charges>>

\* Fault: the status of Sweetbook's code 80 is written instead of 81.
CancelSaveWrongStatus(p) ==
  /\ At(p, "cancelSave")
  /\ SaveRow(cur[p], [copy[p][cur[p]] EXCEPT !.status = "CANCELLED"])
  /\ Return(p)
  /\ UNCHANGED <<group, book, ledger>>

CancelSave(p) ==
  /\ At(p, "cancelSave")
  /\ \/ SaveRow(cur[p], [copy[p][cur[p]] EXCEPT !.status = "CANCELLED_REFUND"])
     \/ UNCHANGED rows
  /\ Return(p)
  /\ UNCHANGED <<group, book, ledger>>

-----------------------------------------------------------------------------
\* The server process dies: every handler is gone, the tables stay.
Crash ==
  /\ MayCrash
  /\ \E p \in Calls : pc[p] # "idle"
  /\ pc' = [p \in Calls |-> "idle"]
  /\ op' = [p \in Calls |-> "none"]
  /\ cur' = [p \in Calls |-> NoRow]
  /\ copy' = [p \in Calls |-> NoCopies]
  /\ allOk' = [p \in Calls |-> TRUE]
  /\ UNCHANGED <<db, ledger>>

\* A request arrives.
Begin(p) ==
  \/ \E u \in Members : CreateCheck(p, u) \/ SubmitCheck(p, u) \/ RejectCheck(p, u)
  \/ ConfirmCheck(p)
  \/ RetryCheck(p)
  \/ \E r \in Rows : CancelRead(p, r)

\* A handler in progress runs up to its next await.
Continue(p) ==
  \/ CreateSave(p)
  \/ SubmitRead(p)
  \/ RejectRead(p)
  \/ MemberSave(p)
  \/ ConfirmRead(p)
  \/ ConfirmTx(p)
  \/ \E r \in Rows : Submitting(p, r)
  \/ PostOrder(p)
  \/ SavePaid(p)
  \/ SaveError(p)
  \/ ConfirmDone(p)
  \/ BookSave(p)
  \/ RetryRead(p)
  \/ RetryCount(p)
  \/ RetrySave(p)
  \/ CancelPost(p)
  \/ CancelSave(p)

Next == Crash \/ \E p \in Calls : Begin(p) \/ Continue(p)

Spec == Init /\ [][Next]_vars

\* Promises that a started handler keeps running: the event loop resumes
\* every settled await, and every database and HTTP call has a timeout.
FairSpec == Spec /\ \A p \in Calls : WF_vars(Continue(p))
-----------------------------------------------------------------------------
(* Properties *)

\* Every variable has the type the entities and handlers give it.
TypeOK ==
  /\ group \in GroupStatus /\ book \in {"READY", "ORDERED"}
  /\ rows \in [Rows -> Row]
  /\ charges \in [Rows -> Nat] /\ refunded \subseteq Rows
  /\ pc \in [Calls -> Points]
  /\ op \in [Calls -> {"none", "confirm", "retry"}]
  /\ cur \in [Calls -> Rows \cup {NoRow}]
  /\ copy \in [Calls -> [Rows -> Row]]
  /\ allOk \in [Calls -> BOOLEAN]

\* However confirmations, retries, lost answers and crashes overlap, the key
\* a row was created with is billed at most once.
ChargedOnce == \A r \in Rows : charges[r] <= 1

\* A row with a Sweetbook uid stands for an order Sweetbook really billed,
\* and a row shown as paid or refunded has that uid: no handler, however
\* stale its copy, can make an unpaid order look paid.
PaidIsCharged ==
  \A r \in Rows :
    /\ rows[r].uid => charges[r] = 1
    /\ rows[r].status \in {"PAID", "CANCELLED_REFUND"} => rows[r].uid

\* A row shown as refunded was refunded by Sweetbook, although the refund is
\* requested in one step and recorded in a later one.
RefundIsReal ==
  \A r \in Rows : rows[r].status = "CANCELLED_REFUND" => r \in refunded

\* Nobody is billed while the collection is open: by the time a handler can
\* post an order, the transaction that closes the group has committed.
NoChargeWhileCollecting ==
  group \in {"NONE", "COLLECTING"} => \A r \in Rows : charges[r] = 0

\* A closed collection never reopens, whatever old copy of the group a
\* handler saves.
CollectingNeverReopens ==
  [][(group \in {"CONFIRMED", "ORDERED"}) => (group' \in {"CONFIRMED", "ORDERED"})]_vars

\* The order flow keeps the promises of Billing.
Abstract == INSTANCE Billing WITH
              Keys <- Rows,
              collecting <- (group = "COLLECTING"),
              billed <- charges,
              repaid <- refunded,
              known <- {r \in Rows : rows[r].uid}
KeepsBilling == Abstract!Spec

\* A row that is still open to change, or was declined, has not been billed.
OpenRowsUnbilled ==
  \A r \in Rows : rows[r].status \in {"ABSENT", "PENDING", "REJECTED"}
                    => charges[r] = 0

\* A member has one row in the group (submitShipping updates the row it
\* finds, and creates one only if it finds none).
OneRowPerMember ==
  \A r, s \in Rows : /\ rows[r] # Absent /\ rows[s] # Absent
                     /\ Orderer[r] = Orderer[s]
                     => r = s

\* An ordered group stays ordered and its book is never ordered without it.
OrderedIsFinal ==
  [][/\ group = "ORDERED" => group' = "ORDERED"
     /\ book' = "ORDERED" => group' = "ORDERED"]_vars

\* When the group is ORDERED, no order in it has failed.
OrderedHasNoFailure ==
  group = "ORDERED" => \A r \in Rows : rows[r].status # "ERROR"

\* Every request is answered: no schedule and no failure keeps a handler in
\* its loop for ever.
RequestsReturn == \A p \in Calls : pc[p] # "idle" ~> pc[p] = "idle"
=============================================================================
