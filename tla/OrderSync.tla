------------------------------ MODULE OrderSync ------------------------------
(***************************************************************************)
(* One order after it was posted to Sweetbook: how the status in our table *)
(* follows the status there.  Four writers share the row: the placing      *)
(* handler's last save, the webhook receiver (webhooks.controller.ts,      *)
(* webhook-dedup.service.ts, webhook-router.service.ts), the 30-minute     *)
(* cron (order-sync.cron.ts) and the status page's polling and cancelling  *)
(* (orders.service.ts).  As in Orders, every action is the stretch of a    *)
(* handler between two awaits, and a save writes back a whole copy.        *)
(*                                                                         *)
(* Sweetbook's side is external: a status code moves along Path, may be    *)
(* cancelled early, restored once and fail; each change is announced by a  *)
(* webhook that is delivered any number of times, in any order, or never.  *)
(***************************************************************************)
EXTENDS Naturals, Sequences, FiniteSets

CONSTANTS
  Path,      \* status codes of an order that runs its course, from PAID on
  Watched,   \* the event whose effects are counted
  Hooks,     \* webhook requests that may be in progress at once (a bound)
  MayCrash   \* whether the server process may die (once: a bound)

Codes == {20, 25, 30, 40, 45, 50, 60, 70, 80, 81, 90}
\* An order is accepted as PAID.
ASSUME PathAssumption == /\ Path \in Seq(Codes \ {80, 81, 90}) /\ Path # <<>>
                         /\ Path[1] = 20
ASSUME HooksAssumption == IsFiniteSet(Hooks)
ASSUME CrashAssumption == MayCrash \in BOOLEAN

Statuses == {"SUBMITTING", "PAID", "PDF_READY", "CONFIRMED", "IN_PRODUCTION",
             "ITEM_COMPLETED", "PRODUCTION_COMPLETE", "SHIPPED", "DELIVERED",
             "CANCELLED", "CANCELLED_REFUND", "ERROR"}
Unmapped == "UNMAPPED"

\* The table of docs/domains/orders.md, as orders.service.ts maps it.
mapSweetbookStatus(code) ==
  CASE code = 20 -> "PAID"           [] code = 25 -> "PDF_READY"
    [] code = 30 -> "CONFIRMED"      [] code = 40 -> "IN_PRODUCTION"
    [] code = 45 -> "ITEM_COMPLETED" [] code = 50 -> "PRODUCTION_COMPLETE"
    [] code = 60 -> "SHIPPED"        [] code = 70 -> "DELIVERED"
    [] code = 80 -> "CANCELLED"      [] code = 81 -> "CANCELLED_REFUND"
    [] code = 90 -> "ERROR"          [] OTHER -> Unmapped

\* Fault: the table stops before the last step of the delivery.
mapStatusCodeShort(code) ==
  IF code < 60 THEN mapSweetbookStatus(code) ELSE Unmapped

\* The table of the webhook router, which the cron uses.  Its comment cites the
\* same document, but its codes for a cancelled order are others, and 90 is one
\* of them.
mapStatusCode(code) ==
  CASE code = 90 -> "CANCELLED"
    [] code = 95 -> "CANCELLED_REFUND"
    [] code \in {80, 81} -> Unmapped
    [] OTHER -> mapSweetbookStatus(code)

Events == {"order.created", "order.cancelled", "order.restored",
           "production.confirmed", "production.started",
           "production.completed", "shipping.departed", "shipping.delivered"}

ASSUME WatchedAssumption == Watched \in Events

\* The event Sweetbook announces a code with, if any.
Announcing(code) ==
  CASE code = 20 -> {"order.created"}        [] code = 30 -> {"production.confirmed"}
    [] code = 40 -> {"production.started"}   [] code = 50 -> {"production.completed"}
    [] code = 60 -> {"shipping.departed"}    [] code = 70 -> {"shipping.delivered"}
    [] OTHER -> {}

\* The status each event's handler writes.
StatusOf(event) ==
  CASE event = "order.cancelled" -> "CANCELLED_REFUND"
    [] event \in {"order.created", "order.restored"} -> "PAID"
    [] event = "production.confirmed" -> "CONFIRMED"
    [] event = "production.started" -> "IN_PRODUCTION"
    [] event = "production.completed" -> "PRODUCTION_COMPLETE"
    [] event = "shipping.departed" -> "SHIPPED"
    [] event = "shipping.delivered" -> "DELIVERED"

\* The placing handler, the cron, and the orderer's page, which polls or
\* cancels, one request at a time (a bound).
Jobs == {"place", "cron", "page"}

VARIABLES
  remote,    \* status code of the order at Sweetbook
  seen,      \* codes it has had
  sent,      \* announcements it has made; each may be delivered at any time,
             \* any number of times, or never
  row,       \* our row: status, and whether sweetbookOrderUid is stored
  marked,    \* deliveries the dedup store has marked as processed
  handled,   \* how often the handler of Watched has taken effect
  hook,      \* webhook requests: where they stand and their event
  job,       \* the other writers: where they stand, and the status of their
             \* copy, or the one they are about to save
  crashed    \* whether the process has died once

sweetbook == <<remote, seen, sent>>
server == <<hook, job, crashed>>
vars == <<sweetbook, row, marked, handled, server>>

-----------------------------------------------------------------------------
IdleHook == [at |-> "idle", event |-> "order.created"]
IdleJob == [at |-> "idle", status |-> "PAID"]

\* The order was just accepted.  The placing handler holds the answer and
\* has yet to save it; uid is already there if this is a retry.
Init ==
  /\ remote = Path[1] /\ seen = {Path[1]}
  /\ sent = Announcing(Path[1])
  /\ row \in [status : {"SUBMITTING"}, uid : BOOLEAN]
  /\ marked = {}
  /\ handled = 0
  /\ hook = [h \in Hooks |-> IdleHook]
  /\ job = [j \in Jobs |-> IF j = "place" THEN [IdleJob EXCEPT !.at = "save"]
                                          ELSE IdleJob]
  /\ crashed = FALSE

\* A save of the copy with another status; every copy was found by its uid
\* or is the one that brings it.
Save(status) == row' = [status |-> status, uid |-> TRUE]

-----------------------------------------------------------------------------
(* Sweetbook (external) *)

Move(code, announcements) ==
  /\ remote' = code
  /\ seen' = seen \cup {code}
  /\ sent' = sent \cup announcements

Advance ==
  /\ \E i \in 1 .. Len(Path) - 1 :
       /\ remote = Path[i]
       /\ Move(Path[i + 1], Announcing(Path[i + 1]))
  /\ UNCHANGED <<row, marked, handled, server>>

Cancellable == remote \in {20, 25}

\* Cancelled by Sweetbook's own staff, at most once (a bound).
Withdraw ==
  /\ Cancellable /\ "order.cancelled" \notin sent
  /\ Move(81, {"order.cancelled"})
  /\ UNCHANGED <<row, marked, handled, server>>

Restore ==
  /\ remote = 81 /\ "order.restored" \notin sent
  /\ Move(20, {"order.restored"})
  /\ UNCHANGED <<row, marked, handled, server>>

Fail ==
  /\ remote \in {20, 25, 30, 40, 50}
  /\ Move(90, {})
  /\ UNCHANGED <<row, marked, handled, server>>

-----------------------------------------------------------------------------
(* handleSweetbook: check the delivery, mark it, route it *)

HookAt(h, at) == hook' = [hook EXCEPT ![h].at = at]
HookDone(h) == hook' = [hook EXCEPT ![h] = IdleHook]

HookCheck(h, e) ==
  /\ hook[h].at = "idle"
  /\ e \in sent \ marked
  /\ hook' = [hook EXCEPT ![h] = [IdleHook EXCEPT !.at = "mark", !.event = e]]
  /\ UNCHANGED <<sweetbook, row, marked, handled, job, crashed>>

\* Fault: the delivery is marked only after it was handled, and a crash or
\* a failure in between leaves it unmarked.
HookMarkLater(h) ==
  /\ hook[h].at = "mark"
  /\ HookAt(h, "find")
  /\ UNCHANGED <<sweetbook, row, marked, handled, job, crashed>>

HookMark(h) ==
  /\ hook[h].at = "mark"
  /\ \/ marked' = marked \cup {hook[h].event} /\ HookAt(h, "find")
     \/ UNCHANGED marked /\ HookDone(h)
  /\ UNCHANGED <<sweetbook, row, handled, job, crashed>>

\* findOne by sweetbookOrderUid; a row without it is not found, and neither
\* is anything when the query fails.
HookFind(h) ==
  /\ hook[h].at = "find"
  /\ \/ /\ row.uid
        /\ ~(hook[h].event = "order.created" /\ row.status # "SUBMITTING")
        /\ HookAt(h, "save")
     \/ HookDone(h)
  /\ UNCHANGED <<sweetbook, row, marked, handled, job, crashed>>

\* The event's handler: one save, then a notification to the orderer.
HookSave(h) ==
  /\ hook[h].at = "save"
  /\ \/ /\ Save(StatusOf(hook[h].event))
        /\ handled' = IF hook[h].event = Watched THEN handled + 1 ELSE handled
     \/ UNCHANGED <<row, handled>>
  /\ HookDone(h)
  /\ UNCHANGED <<sweetbook, marked, job, crashed>>

-----------------------------------------------------------------------------
(* The other writers *)

JobDone(j) == job' = [job EXCEPT ![j] = IdleJob]
JobAt(j, at, status) == job' = [job EXCEPT ![j] = [at |-> at, status |-> status]]

\* PAID, or ERROR when that save failed, or nothing when both failed.
PlaceSave ==
  /\ job["place"].at = "save"
  /\ Save("PAID") \/ Save("ERROR") \/ UNCHANGED row
  /\ JobDone("place")
  /\ UNCHANGED <<sweetbook, marked, handled, hook, crashed>>

\* Statuses the cron does not poll.
CronTerminal == {"DELIVERED", "CANCELLED", "CANCELLED_REFUND", "ERROR",
                 "PENDING", "REJECTED"}

\* Statuses the status page does not poll.
isTerminalStatus(status) ==
  status \in {"DELIVERED", "CANCELLED", "CANCELLED_REFUND", "ERROR"}

StartPolling(j) ==
  /\ job[j].at = "idle" /\ row.uid
  /\ JobAt(j, "get", row.status)
  /\ UNCHANGED <<sweetbook, row, marked, handled, hook, crashed>>

CronStart == row.status \notin CronTerminal /\ StartPolling("cron")
PollStart == ~isTerminalStatus(row.status) /\ StartPolling("page")

\* Fault: a code the table does not have is saved all the same.
FetchUnguarded(j, mapped) ==
  /\ job[j].at = "get"
  /\ JobAt(j, "save", mapped)
  /\ UNCHANGED <<sweetbook, row, marked, handled, hook, crashed>>

\* GET /orders/{uid} answers with the code of this moment.  There is something
\* to save only if it maps to another status than that of the copy, which
\* need not be the row's any more.
Fetch(j, mapped) ==
  /\ job[j].at = "get"
  /\ IF mapped \in {Unmapped, job[j].status}
     THEN JobDone(j)
     ELSE JobAt(j, "save", mapped)
  /\ UNCHANGED <<sweetbook, row, marked, handled, hook, crashed>>

Apply(j) ==
  /\ job[j].at = "save"
  /\ Save(job[j].status)
  /\ JobDone(j)
  /\ UNCHANGED <<sweetbook, marked, handled, hook, crashed>>

CronFetch == Fetch("cron", mapStatusCode(remote))
CronSave == Apply("cron")
PollFetch == Fetch("page", mapSweetbookStatus(remote))
PollSave == Apply("page")

\* The request or the save fails: the cron goes on with the next order, the
\* status page answers with what it has.
GiveUpPolling(j) ==
  /\ j \in {"cron", "page"} /\ job[j].at \in {"get", "save"}
  /\ JobDone(j)
  /\ UNCHANGED <<sweetbook, row, marked, handled, hook, crashed>>

CancelStart ==
  /\ job["page"].at = "idle"
  /\ row.status \in {"PAID", "PDF_READY"}
  /\ job' = [job EXCEPT !["page"].at = "cancelPost"]
  /\ UNCHANGED <<sweetbook, row, marked, handled, hook, crashed>>

\* Fault: the failure of the cancel request is swallowed.
CancelPostSwallowed ==
  /\ job["page"].at = "cancelPost"
  /\ job' = [job EXCEPT !["page"].at = "cancelSave"]
  /\ UNCHANGED <<sweetbook, row, marked, handled, hook, crashed>>

\* Carried out and answered, carried out with the answer lost, or refused.
CancelPost ==
  /\ job["page"].at = "cancelPost"
  /\ \/ /\ Cancellable /\ "order.cancelled" \notin sent
        /\ Move(81, {"order.cancelled"})
        /\ JobDone("page") \/ job' = [job EXCEPT !["page"].at = "cancelSave"]
     \/ UNCHANGED sweetbook /\ JobDone("page")
  /\ UNCHANGED <<row, marked, handled, hook, crashed>>

CancelSave ==
  /\ job["page"].at = "cancelSave"
  /\ Save("CANCELLED_REFUND") \/ UNCHANGED row
  /\ JobDone("page")
  /\ UNCHANGED <<sweetbook, marked, handled, hook, crashed>>

-----------------------------------------------------------------------------
\* The server process dies and with it every handler; the dedup store and
\* the tables stay.
Crash ==
  /\ MayCrash /\ ~crashed
  /\ crashed' = TRUE
  /\ hook' = [h \in Hooks |-> IdleHook]
  /\ job' = [j \in Jobs |-> IdleJob]
  /\ UNCHANGED <<sweetbook, row, marked, handled>>

Sweetbook == Advance \/ Withdraw \/ Restore \/ Fail
HookStep(h) == HookMark(h) \/ HookFind(h) \/ HookSave(h)
Receive == \E h \in Hooks : HookStep(h) \/ \E e \in Events : HookCheck(h, e)
Cron == CronStart \/ CronFetch \/ CronSave
Poll == PollStart \/ PollFetch \/ PollSave
Cancel == CancelStart \/ CancelPost \/ CancelSave

Next == \/ Sweetbook \/ Receive \/ PlaceSave \/ Cron \/ Poll \/ Cancel
        \/ \E j \in Jobs : GiveUpPolling(j)
        \/ Crash

Spec == Init /\ [][Next]_vars

(***************************************************************************)
(* Handlers keep running, the cron keeps firing, and a cron that keeps     *)
(* asking is answered and saves now and then.  Sweetbook owes nothing: no  *)
(* webhook need be delivered and no order need advance.                    *)
(***************************************************************************)
Fairness ==
  /\ \A h \in Hooks : WF_vars(HookStep(h))
  /\ WF_vars(PlaceSave) /\ WF_vars(PollFetch \/ PollSave)
  /\ WF_vars(CancelPost \/ CancelSave)
  /\ WF_vars(CronStart) /\ SF_vars(CronFetch) /\ SF_vars(CronSave)

FairSpec == Spec /\ Fairness
-----------------------------------------------------------------------------
(* Properties *)

TypeOK ==
  /\ remote \in Codes /\ seen \subseteq Codes
  /\ sent \subseteq Events
  /\ row \in [status : Statuses, uid : BOOLEAN]
  /\ marked \subseteq sent
  /\ handled \in Nat
  /\ hook \in [Hooks -> [at : {"idle", "mark", "find", "save"},
                         event : Events]]
  /\ job \in [Jobs -> [at : {"idle", "get", "save", "cancelPost",
                             "cancelSave"},
                       status : Statuses]]
  /\ crashed \in BOOLEAN

\* However often Sweetbook repeats a delivery and wherever the process dies, it
\* takes effect, and notifies the orderer, at most once for each request that was
\* in progress when it was marked: once, if requests come one at a time.  The mark
\* precedes the handling, but the check precedes the mark in a call of its own.
HandledOnce == handled <= Cardinality(Hooks)

\* As long as Sweetbook has not failed the order, the status we show is the one that
\* docs/domains/orders.md gives for a code the order really has or had there
\* (SUBMITTING and ERROR are also our own words for a placing that has not
\* succeeded): no stale copy, no cancellation whose answer was lost and no webhook
\* out of turn invents one.  A failed order (90) is left out because the cron, with
\* its own table, shows it as CANCELLED, which the document does not.
Documented == {mapSweetbookStatus(c) : c \in seen} \cup {"SUBMITTING", "ERROR"}
ShownWasTrue == 90 \notin seen => row.status \in Documented

\* An order whose placing was recorded and that was never cancelled ends up,
\* and stays, DELIVERED once Sweetbook has delivered it, even if every
\* webhook is lost, late or repeated and old copies are written back.
Recorded == job["place"].at = "idle" /\ row.uid /\ row.status # "ERROR"
DeliveredIsShown ==
  (remote = 70 /\ 81 \notin seen /\ Recorded) ~> [](row.status = "DELIVERED")
=============================================================================
