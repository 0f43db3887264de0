-------------------------- MODULE OrderSyncProofs --------------------------
(***************************************************************************)
(* Proofs about OrderSync, for every path of an order and any number of    *)
(* webhook requests: four writers save whole copies of one row, in any     *)
(* order, and the status they leave is still one the order had.            *)
(***************************************************************************)
EXTENDS OrderSync, FiniteSetTheorems, TLAPS

(***************************************************************************)
(* The inductive invariant.  What the row shows was said of a code the     *)
(* order had, by the table of whoever wrote it (RowShown); that survives a *)
(* save because every status on its way to the row was true when it was    *)
(* read, and what was true of the past stays true (seen only grows).  The  *)
(* two tables differ in what they say of 80, 81 and 90 only.  The          *)
(* number of times the watched delivery has been handled is bounded by     *)
(* counting the requests that still may handle it.                         *)
(***************************************************************************)
Shown == {mapSweetbookStatus(c) : c \in seen} \cup {mapStatusCode(c) : c \in seen}
           \cup {"SUBMITTING", "ERROR"}

RowShown == row.status \in Shown
RemoteSeen == remote \in seen /\ 20 \in seen
Announced == \A e \in sent : StatusOf(e) \in Shown

HooksHonest ==
  \A h \in Hooks : /\ hook[h].at # "idle" => hook[h].event \in sent
                   /\ hook[h].at \in {"find", "save"} => hook[h].event \in marked

JobsHonest ==
  \A j \in Jobs : /\ job[j].at = "save" => job[j].status \in Shown
                  /\ job[j].at = "cancelSave" => 81 \in seen

Busy == {h \in Hooks : hook[h].at # "idle" /\ hook[h].event = Watched}

Counted ==
  /\ handled + Cardinality(Busy) <= Cardinality(Hooks)
  /\ Watched \notin marked => handled = 0

IInv == /\ TypeOK /\ RemoteSeen /\ RowShown
        /\ Announced /\ HooksHonest /\ JobsHonest /\ Counted

-----------------------------------------------------------------------------
(* The tables of codes, statuses and events *)

\* Every code has a status in the table of orders.service.ts; the webhook
\* router's leaves two out.
LEMMA MapTypes ==
  ASSUME NEW c \in Codes
  PROVE  /\ mapSweetbookStatus(c) \in Statuses
         /\ mapStatusCode(c) \in Statuses \cup {Unmapped}
  BY DEF Codes, Statuses, mapSweetbookStatus, mapStatusCode, Unmapped

\* What an event says of the order is what the table calls the code that
\* Sweetbook announces by it.
LEMMA AnnouncingTrue ==
  ASSUME NEW c \in Codes, NEW e \in Announcing(c)
  PROVE  e \in Events /\ StatusOf(e) = mapSweetbookStatus(c)
  BY DEF Codes, Events, Announcing, StatusOf, mapSweetbookStatus

LEMMA StatusOfType ==
  ASSUME NEW e \in Events
  PROVE  StatusOf(e) \in Statuses
  BY DEF Events, StatusOf, Statuses

\* The codes of the path are codes.
LEMMA PathCodes ==
  ASSUME NEW i \in 1 .. Len(Path)
  PROVE  Path[i] \in Codes
  BY PathAssumption

\* What was true of the past stays true.
LEMMA ShownGrows ==
  ASSUME seen \subseteq seen'
  PROVE  Shown \subseteq Shown'
  BY DEF Shown

LEMMA SeenIsShown ==
  ASSUME NEW c \in seen
  PROVE  mapSweetbookStatus(c) \in Shown /\ mapStatusCode(c) \in Shown
  BY DEF Shown

\* An order that was accepted was PAID, and the one withdrawn refunded.
LEMMA PaidShown ==
  /\ 20 \in seen => "PAID" \in Shown
  /\ 81 \in seen => "CANCELLED_REFUND" \in Shown
  <1>1. mapSweetbookStatus(20) = "PAID" /\ mapSweetbookStatus(81) = "CANCELLED_REFUND"
    BY DEF mapSweetbookStatus
  <1> QED BY <1>1, SeenIsShown

-----------------------------------------------------------------------------
(* Requests in progress *)

\* There are finitely many, so they can be counted.
LEMMA BusyFinite ==
  /\ IsFiniteSet(Hooks) /\ IsFiniteSet(Busy) /\ Busy \subseteq Hooks
  /\ Cardinality(Hooks) \in Nat /\ Cardinality(Busy) \in Nat
  /\ Cardinality(Busy) <= Cardinality(Hooks)
  <1>1. Busy \subseteq Hooks
    BY DEF Busy
  <1> QED BY <1>1, HooksAssumption, FS_Subset, FS_CardinalityType

\* Fewer requests count for less.
LEMMA BusyShrinks ==
  ASSUME Counted, TypeOK, Busy' \subseteq Busy, handled' = handled,
         Watched \notin marked' => Watched \notin marked
  PROVE  Counted'
  <1>1. Cardinality(Busy') \in Nat /\ Cardinality(Busy') <= Cardinality(Busy)
    BY BusyFinite, FS_Subset, FS_CardinalityType
  <1> QED BY <1>1, BusyFinite DEF Counted, TypeOK

-----------------------------------------------------------------------------
(* Sweetbook *)

\* The order moves on at Sweetbook, and says so: what it announces is then true.
LEMMA MoveStep ==
  ASSUME IInv, NEW c \in Codes, NEW E \in SUBSET Events, Move(c, E),
         \A e \in E : StatusOf(e) \in {mapSweetbookStatus(c)},
         UNCHANGED <<row, marked, handled, server>>
  PROVE  IInv'
  <1>1. remote' = c /\ seen' = seen \cup {c} /\ sent' = sent \cup E
    BY DEF Move
  <1>2. Shown \subseteq Shown' /\ mapSweetbookStatus(c) \in Shown'
    BY <1>1, ShownGrows DEF Shown
  <1>3. TypeOK'
    BY <1>1 DEF IInv, TypeOK, server
  <1>4. RemoteSeen' /\ HooksHonest'
    BY <1>1 DEF IInv, RemoteSeen, HooksHonest, server
  <1>5. RowShown'
    BY <1>2 DEF IInv, RowShown, Shown
  <1>6. Announced'
    BY <1>1, <1>2 DEF IInv, Announced
  <1>7. JobsHonest'
    BY <1>1, <1>2 DEF IInv, JobsHonest, server
  <1>8. Counted'
    BY DEF IInv, Counted, Busy, server
  <1> QED BY <1>3, <1>4, <1>5, <1>6, <1>7, <1>8 DEF IInv

LEMMA SweetbookStep ==
  ASSUME IInv, Sweetbook
  PROVE  IInv'
  <1>1. ASSUME NEW i \in 1 .. Len(Path) - 1, Move(Path[i + 1], Announcing(Path[i + 1])),
               UNCHANGED <<row, marked, handled, server>>
        PROVE  IInv'
    <2>1. i + 1 \in 1 .. Len(Path)
      BY PathAssumption
    <2>2. Path[i + 1] \in Codes
      BY <2>1, PathCodes
    <2>3. Announcing(Path[i + 1]) \in SUBSET Events
          /\ \A e \in Announcing(Path[i + 1]) :
               StatusOf(e) \in {mapSweetbookStatus(Path[i + 1])}
      BY <2>2, AnnouncingTrue
    <2> QED BY <1>1, <2>2, <2>3, MoveStep
  <1>2. CASE Withdraw
    <2>1. 81 \in Codes /\ {"order.cancelled"} \in SUBSET Events
          /\ StatusOf("order.cancelled") = mapSweetbookStatus(81)
      BY DEF Codes, Events, StatusOf, mapSweetbookStatus
    <2> QED BY <1>2, <2>1, MoveStep DEF Withdraw
  <1>3. CASE Restore
    <2>1. 20 \in Codes /\ {"order.restored"} \in SUBSET Events
          /\ StatusOf("order.restored") = mapSweetbookStatus(20)
      BY DEF Codes, Events, StatusOf, mapSweetbookStatus
    <2> QED BY <1>3, <2>1, MoveStep DEF Restore
  <1>4. CASE Fail
    <2>1. 90 \in Codes
      BY DEF Codes
    <2> QED BY <1>4, <2>1, MoveStep DEF Fail
  <1> QED BY <1>1, <1>2, <1>3, <1>4 DEF Sweetbook, Advance

-----------------------------------------------------------------------------
(* Webhook requests *)

\* What a webhook request changes of its own.
LEMMA HookStepTyped ==
  ASSUME TypeOK, NEW h \in Hooks,
         \/ HookDone(h)
         \/ \E at \in {"find", "save"} : HookAt(h, at)
  PROVE  /\ hook' \in [Hooks -> [at : {"idle", "mark", "find", "save"}, event : Events]]
         /\ \A k \in Hooks \ {h} : hook'[k] = hook[k]
         /\ \/ hook'[h].at = "idle"
            \/ hook'[h].event = hook[h].event
  BY DEF TypeOK, HookDone, HookAt, IdleHook, Events

LEMMA HookCheckStep ==
  ASSUME IInv, NEW h \in Hooks, NEW e \in Events, HookCheck(h, e)
  PROVE  IInv'
  <1>1. /\ hook' = [hook EXCEPT ![h] = [IdleHook EXCEPT !.at = "mark", !.event = e]]
        /\ e \in sent /\ e \notin marked /\ hook[h].at = "idle"
        /\ UNCHANGED <<remote, seen, sent, row, marked, handled, job, crashed>>
    BY DEF HookCheck, sweetbook
  <1>2. /\ hook'[h].at = "mark" /\ hook'[h].event = e
        /\ \A k \in Hooks \ {h} : hook'[k] = hook[k]
    BY <1>1 DEF IInv, TypeOK, IdleHook
  <1>3. TypeOK'
    BY <1>1 DEF IInv, TypeOK, IdleHook
  <1>4. HooksHonest'
    BY <1>1, <1>2 DEF IInv, HooksHonest
  <1>5. RemoteSeen' /\ RowShown' /\ Announced' /\ JobsHonest'
    BY <1>1 DEF IInv, RemoteSeen, RowShown, Announced, JobsHonest, Shown
  <1>6. Counted'
    <2>1. CASE e = Watched
      <3>1. handled' = 0 /\ Watched \notin marked'
        BY <1>1, <2>1 DEF IInv, Counted
      <3>2. (Cardinality(Busy) <= Cardinality(Hooks))' /\ (Cardinality(Busy) \in Nat)'
        <4>1. Busy' \subseteq Hooks
          BY DEF Busy
        <4> QED BY <4>1, HooksAssumption, FS_Subset, FS_CardinalityType
      <3> QED BY <3>1, <3>2, BusyFinite DEF Counted
    <2>2. CASE e # Watched
      <3>1. Busy' \subseteq Busy
        BY <1>2, <2>2 DEF Busy
      <3> QED BY <1>1, <3>1, BusyShrinks DEF IInv
    <2> QED BY <2>1, <2>2
  <1> QED BY <1>3, <1>4, <1>5, <1>6 DEF IInv

LEMMA HookMarkStep ==
  ASSUME IInv, NEW h \in Hooks, HookMark(h) \/ HookFind(h)
  PROVE  IInv'
  <1>1. /\ UNCHANGED <<remote, seen, sent, row, handled, job, crashed>>
        /\ hook[h].at \in {"mark", "find"}
        /\ marked' \in {marked, marked \cup {hook[h].event}}
        /\ \/ HookDone(h)
           \/ /\ HookAt(h, "find") /\ marked' = marked \cup {hook[h].event}
              /\ hook[h].at = "mark"
           \/ HookAt(h, "save") /\ hook[h].at = "find"
    BY DEF HookMark, HookFind, sweetbook
  <1>2. /\ hook' \in [Hooks -> [at : {"idle", "mark", "find", "save"}, event : Events]]
        /\ \A k \in Hooks \ {h} : hook'[k] = hook[k]
        /\ hook'[h].at = "idle" \/ hook'[h].event = hook[h].event
    BY <1>1, HookStepTyped DEF IInv
  <1>3. hook[h].event \in sent
    BY <1>1 DEF IInv, HooksHonest
  <1>4. TypeOK'
    BY <1>1, <1>2, <1>3 DEF IInv, TypeOK
  <1>5. HooksHonest'
    <2>1. SUFFICES ASSUME NEW k \in Hooks
                   PROVE  /\ hook'[k].at # "idle" => hook'[k].event \in sent'
                          /\ hook'[k].at \in {"find", "save"} => hook'[k].event \in marked'
      BY DEF HooksHonest
    <2>2. CASE k # h
      BY <1>1, <1>2, <2>2 DEF IInv, HooksHonest
    <2>3. CASE k = h
      <3>1. hook[h].at = "find" => hook[h].event \in marked
        BY DEF IInv, HooksHonest
      <3>2. CASE HookDone(h)
        BY <2>3, <3>2 DEF HookDone, IdleHook, IInv, TypeOK
      <3>3. CASE ~HookDone(h)
        BY <1>1, <1>3, <2>3, <3>1, <3>3 DEF HookAt, IInv, TypeOK
      <3> QED BY <3>2, <3>3
    <2> QED BY <2>2, <2>3
  <1>6. RemoteSeen' /\ RowShown' /\ Announced' /\ JobsHonest'
    BY <1>1 DEF IInv, RemoteSeen, RowShown, Announced, JobsHonest, Shown
  <1>7. Counted'
    <2>1. Busy' \subseteq Busy
      BY <1>1, <1>2 DEF Busy
    <2> QED BY <1>1, <2>1, BusyShrinks DEF IInv
  <1> QED BY <1>4, <1>5, <1>6, <1>7 DEF IInv

\* The event's handler: its status is true of the order, and its request is then
\* counted among what was handled instead of what may be.
LEMMA HookSaveStep ==
  ASSUME IInv, NEW h \in Hooks, HookSave(h)
  PROVE  IInv'
  <1> DEFINE event == hook[h].event
  <1>1. /\ UNCHANGED <<remote, seen, sent, marked, job, crashed>>
        /\ hook[h].at = "save" /\ HookDone(h)
        /\ \/ /\ row' = [status |-> StatusOf(event), uid |-> TRUE]
              /\ handled' = IF event = Watched THEN handled + 1 ELSE handled
           \/ row' = row /\ handled' = handled
    BY DEF HookSave, Save, sweetbook
  <1>2. /\ hook' \in [Hooks -> [at : {"idle", "mark", "find", "save"}, event : Events]]
        /\ \A k \in Hooks \ {h} : hook'[k] = hook[k]
        /\ hook'[h].at = "idle"
    BY <1>1, HookStepTyped DEF IInv, HookDone, IdleHook, TypeOK
  <1>3. event \in sent /\ event \in marked /\ event \in Events
    BY <1>1 DEF IInv, HooksHonest, TypeOK
  <1>4. StatusOf(event) \in Shown /\ StatusOf(event) \in Statuses
    BY <1>3, StatusOfType DEF IInv, Announced
  <1>5. TypeOK'
    <2>1. row \in [status : Statuses, uid : BOOLEAN] /\ handled \in Nat
      BY DEF IInv, TypeOK
    <2>2. row' \in [status : Statuses, uid : BOOLEAN]
      <3> HIDE DEF event
      <3>1. [status |-> StatusOf(event), uid |-> TRUE]
              \in [status : Statuses, uid : BOOLEAN]
        BY <1>4
      <3> QED BY <1>1, <2>1, <3>1
    <2>3. handled' \in Nat
      BY <1>1, <2>1
    <2> QED BY <1>1, <1>2, <2>2, <2>3 DEF IInv, TypeOK
  <1>6. Shown' = Shown
    BY <1>1 DEF Shown
  <1>7. RowShown'
    BY <1>1, <1>4, <1>6 DEF IInv, RowShown, Shown
  <1>8. RemoteSeen' /\ Announced' /\ JobsHonest' /\ HooksHonest'
    BY <1>1, <1>2, <1>6 DEF IInv, RemoteSeen, Announced, JobsHonest, HooksHonest
  <1>9. Counted'
    <2>1. CASE event = Watched
      <3>1. h \in Busy /\ Busy' = Busy \ {h}
        BY <1>1, <1>2, <2>1 DEF Busy
      <3>2. Cardinality(Busy') = Cardinality(Busy) - 1
        BY <3>1, BusyFinite, FS_RemoveElement
      <3>3. handled' <= handled + 1 /\ handled \in Nat /\ handled' \in Nat
        BY <1>1, <1>5 DEF IInv, TypeOK
      <3>4. Watched \in marked'
        BY <1>1, <1>3, <2>1
      <3> QED BY <3>2, <3>3, <3>4, BusyFinite DEF IInv, Counted
    <2>2. CASE event # Watched
      <3>1. Busy' \subseteq Busy /\ handled' = handled
        BY <1>1, <1>2, <2>2 DEF Busy
      <3> QED BY <1>1, <3>1, BusyShrinks DEF IInv
    <2> QED BY <2>1, <2>2
  <1> QED BY <1>5, <1>7, <1>8, <1>9 DEF IInv

-----------------------------------------------------------------------------
(* The placing handler, the cron and the status page *)

JobState == [at : {"idle", "get", "save", "cancelPost", "cancelSave"}, status : Statuses]

LEMMA IdleJobType == IdleJob \in JobState /\ IdleJob.at = "idle" /\ IdleJob.status = "PAID"
  BY DEF IdleJob, JobState, Statuses

\* A step of one of them: it takes up something true, or saves something true.
LEMMA JobStep ==
  ASSUME IInv, NEW j \in Jobs, NEW new \in JobState, job' = [job EXCEPT ![j] = new],
         new.at = "save" => new.status \in Shown,
         new.at = "cancelSave" => 81 \in seen,
         \/ row' = row
         \/ \E status \in Statuses \cap Shown : Save(status),
         UNCHANGED <<sweetbook, marked, handled, hook, crashed>>
  PROVE  IInv'
  <1>1. /\ UNCHANGED <<remote, seen, sent>>
        /\ job'[j] = new /\ \A k \in Jobs \ {j} : job'[k] = job[k]
    BY DEF sweetbook, IInv, TypeOK
  <1>2. Shown' = Shown
    BY <1>1 DEF Shown
  <1>3. row' \in [status : Statuses, uid : BOOLEAN] /\ row'.status \in Shown
    <2>1. CASE row' = row
      BY <2>1 DEF IInv, TypeOK, RowShown, Shown
    <2>2. ASSUME NEW status \in Statuses \cap Shown, Save(status)
          PROVE  row' \in [status : Statuses, uid : BOOLEAN] /\ row'.status \in Shown
      BY <2>2 DEF Save
    <2> QED BY <2>1, <2>2
  <1>4. TypeOK'
    BY <1>1, <1>3 DEF IInv, TypeOK, JobState
  <1>5. JobsHonest'
    BY <1>1, <1>2 DEF IInv, JobsHonest
  <1>6. RowShown'
    BY <1>2, <1>3 DEF RowShown, Shown
  <1>7. RemoteSeen' /\ Announced' /\ HooksHonest' /\ Counted'
    BY <1>1, <1>2 DEF IInv, RemoteSeen, Announced, HooksHonest, Counted, Busy
  <1> QED BY <1>4, <1>5, <1>6, <1>7 DEF IInv

\* A handler that gives up or is done is idle again.
LEMMA JobDoneStep ==
  ASSUME IInv, NEW j \in Jobs, JobDone(j),
         \/ row' = row
         \/ \E status \in Statuses \cap Shown : Save(status),
         UNCHANGED <<sweetbook, marked, handled, hook, crashed>>
  PROVE  IInv'
  BY IdleJobType, JobStep DEF JobDone

\* PAID is what an accepted order was; ERROR is our own word.
LEMMA PlaceSaveStep ==
  ASSUME IInv, PlaceSave
  PROVE  IInv'
  <1>1. "PAID" \in Statuses \cap Shown /\ "ERROR" \in Statuses \cap Shown
    BY PaidShown DEF IInv, RemoteSeen, Statuses, Shown
  <1>2. "place" \in Jobs
    BY DEF Jobs
  <1> QED BY <1>1, <1>2, JobDoneStep DEF PlaceSave

\* The status the order has now is fetched and compared with an old copy.
LEMMA FetchStep ==
  ASSUME IInv, NEW j \in Jobs, NEW mapped \in Statuses \cup {Unmapped}, Fetch(j, mapped),
         mapped \in Shown
  PROVE  IInv'
  <1>1. row' = row /\ UNCHANGED <<sweetbook, marked, handled, hook, crashed>>
    BY DEF Fetch
  <1>2. CASE JobDone(j)
    BY <1>1, <1>2, JobDoneStep
  <1>3. CASE ~JobDone(j)
    <2> DEFINE new == [at |-> "save", status |-> mapped]
    <2>1. job' = [job EXCEPT ![j] = new] /\ mapped \in Statuses
      BY <1>3 DEF Fetch, JobAt
    <2>2. new \in JobState /\ new.at = "save" /\ new.status \in Shown
      BY <2>1 DEF JobState
    <2> HIDE DEF new
    <2> QED BY <1>1, <2>1, <2>2, JobStep
  <1> QED BY <1>2, <1>3

LEMMA StartPollingStep ==
  ASSUME IInv, NEW j \in Jobs, StartPolling(j)
  PROVE  IInv'
  <1> DEFINE new == [at |-> "get", status |-> row.status]
  <1>1. /\ job' = [job EXCEPT ![j] = new] /\ row' = row
        /\ UNCHANGED <<sweetbook, marked, handled, hook, crashed>>
    BY DEF StartPolling, JobAt
  <1>2. new \in JobState /\ new.at = "get"
    BY DEF JobState, IInv, TypeOK
  <1> HIDE DEF new
  <1> QED BY <1>1, <1>2, JobStep

LEMMA PollingStep ==
  ASSUME IInv, Cron \/ Poll
  PROVE  IInv'
  <1>1. /\ "cron" \in Jobs /\ "page" \in Jobs
        /\ mapStatusCode(remote) \in (Statuses \cup {Unmapped}) \cap Shown
        /\ mapSweetbookStatus(remote) \in Statuses \cap Shown
    BY MapTypes, SeenIsShown DEF IInv, TypeOK, RemoteSeen, Jobs
  <1>2. CASE CronStart \/ PollStart
    BY <1>1, <1>2, StartPollingStep DEF CronStart, PollStart
  <1>3. CASE CronFetch \/ PollFetch
    BY <1>1, <1>3, FetchStep DEF CronFetch, PollFetch
  <1>4. ASSUME NEW j \in Jobs, Apply(j) PROVE IInv'
    <2>1. job[j].status \in Statuses \cap Shown
      BY <1>4 DEF Apply, IInv, TypeOK, JobsHonest
    <2> QED BY <1>4, <2>1, JobDoneStep DEF Apply
  <1> QED BY <1>1, <1>2, <1>3, <1>4 DEF Cron, Poll, CronSave, PollSave

LEMMA GiveUpStep ==
  ASSUME IInv, NEW j \in Jobs, GiveUpPolling(j)
  PROVE  IInv'
  BY JobDoneStep DEF GiveUpPolling

\* The cancellation at Sweetbook comes before ours: by the time we save it, it is
\* true.
LEMMA CancelStep ==
  ASSUME IInv, Cancel
  PROVE  IInv'
  <1>1. "page" \in Jobs /\ job["page"] \in JobState
    BY DEF Jobs, IInv, TypeOK, JobState
  <1>2. CASE CancelStart
    <2> DEFINE new == [job["page"] EXCEPT !.at = "cancelPost"]
    <2>1. new \in JobState /\ new.at = "cancelPost"
      BY <1>1 DEF JobState
    <2>2. job' = [job EXCEPT !["page"] = new]
      BY <1>1, <1>2 DEF CancelStart, IInv, TypeOK
    <2> HIDE DEF new
    <2> QED BY <1>1, <1>2, <2>1, <2>2, JobStep DEF CancelStart
  <1>3. CASE CancelPost
    <2>1. CASE UNCHANGED sweetbook
      BY <1>1, <1>3, <2>1, JobDoneStep DEF CancelPost, Move, sweetbook
    <2>2. CASE ~UNCHANGED sweetbook
      <3>1. /\ remote' = 81 /\ seen' = seen \cup {81}
            /\ sent' = sent \cup {"order.cancelled"}
            /\ UNCHANGED <<row, marked, handled, hook, crashed>>
            /\ JobDone("page") \/ job' = [job EXCEPT !["page"].at = "cancelSave"]
        BY <1>3, <2>2 DEF CancelPost, Move
      <3>2. /\ job' \in [Jobs -> JobState]
            /\ \A k \in Jobs : \/ job'[k] = job[k]
                               \/ job'[k].at \in {"idle", "cancelSave"}
        BY <1>1, <3>1, IdleJobType DEF IInv, TypeOK, JobDone, JobState
      <3>3. Shown \subseteq Shown' /\ "CANCELLED_REFUND" \in Shown'
        BY <3>1, ShownGrows DEF Shown, mapSweetbookStatus
      <3>4. TypeOK'
        BY <3>1, <3>2 DEF IInv, TypeOK, JobState, Codes, Events
      <3>5. RemoteSeen' /\ HooksHonest' /\ Counted'
        BY <3>1 DEF IInv, RemoteSeen, HooksHonest, Counted, Busy
      <3>6. RowShown'
        BY <3>1, <3>3 DEF IInv, RowShown, Shown
      <3>7. Announced'
        BY <3>1, <3>3 DEF IInv, Announced, StatusOf
      <3>8. JobsHonest'
        BY <3>1, <3>2, <3>3 DEF IInv, JobsHonest
      <3> QED BY <3>4, <3>5, <3>6, <3>7, <3>8 DEF IInv
    <2> QED BY <2>1, <2>2
  <1>4. CASE CancelSave
    <2>1. "CANCELLED_REFUND" \in Statuses \cap Shown
      BY <1>1, <1>4, PaidShown DEF CancelSave, IInv, JobsHonest, Statuses
    <2> QED BY <1>1, <1>4, <2>1, JobDoneStep DEF CancelSave
  <1> QED BY <1>2, <1>3, <1>4 DEF Cancel

-----------------------------------------------------------------------------
(* The theorems *)

LEMMA CrashStep ==
  ASSUME IInv, Crash
  PROVE  IInv'
  <1>1. /\ UNCHANGED <<remote, seen, sent, row, marked, handled>> /\ crashed' = TRUE
        /\ hook' = [h \in Hooks |-> IdleHook] /\ job' = [j \in Jobs |-> IdleJob]
    BY DEF Crash, sweetbook
  <1>2. IdleHook \in [at : {"idle", "mark", "find", "save"}, event : Events]
        /\ IdleHook.at = "idle"
    BY DEF IdleHook, Events
  <1>3. TypeOK'
    BY <1>1, <1>2, IdleJobType DEF IInv, TypeOK, JobState
  <1>4. HooksHonest' /\ JobsHonest'
    BY <1>1, <1>2, IdleJobType DEF HooksHonest, JobsHonest
  <1>5. RemoteSeen' /\ RowShown' /\ Announced'
    BY <1>1 DEF IInv, RemoteSeen, RowShown, Announced, Shown
  <1>6. Counted'
    <2>1. Busy' \subseteq Busy
      BY <1>1, <1>2 DEF Busy
    <2> QED BY <1>1, <2>1, BusyShrinks DEF IInv
  <1> QED BY <1>3, <1>4, <1>5, <1>6 DEF IInv

LEMMA InitIInv == Init => IInv
  <1> SUFFICES ASSUME Init PROVE IInv
    OBVIOUS
  <1>1. /\ remote = 20 /\ seen = {20} /\ sent = {"order.created"}
        /\ row.status = "SUBMITTING" /\ row \in [status : Statuses, uid : BOOLEAN]
    BY PathAssumption DEF Init, Announcing, Statuses
  <1>2. \A h \in Hooks : hook[h] = IdleHook /\ hook[h].at = "idle"
    BY DEF Init, IdleHook
  <1>3. [IdleJob EXCEPT !.at = "save"] \in JobState
        /\ [IdleJob EXCEPT !.at = "save"].status = "PAID"
        /\ [IdleJob EXCEPT !.at = "save"].at = "save"
    BY IdleJobType DEF JobState
  <1>4. \A j \in Jobs : job[j].at \in {"idle", "save"} /\ job[j].status = "PAID"
    BY <1>3, IdleJobType DEF Init
  <1>5. TypeOK
    <2>1. hook \in [Hooks -> [at : {"idle", "mark", "find", "save"}, event : Events]]
      BY DEF Init, IdleHook, Events
    <2>2. job \in [Jobs -> JobState]
      BY <1>3, IdleJobType DEF Init
    <2>3. /\ remote \in Codes /\ seen \subseteq Codes /\ sent \subseteq Events
          /\ marked \subseteq sent /\ handled \in Nat /\ crashed \in BOOLEAN
      BY <1>1 DEF Init, Codes, Events
    <2> QED BY <1>1, <2>1, <2>2, <2>3 DEF TypeOK, JobState
  <1>6. RemoteSeen /\ RowShown
    BY <1>1 DEF RemoteSeen, RowShown, Shown
  <1>7. Announced
    BY <1>1, PaidShown DEF Announced, StatusOf
  <1>8. HooksHonest /\ JobsHonest
    BY <1>1, <1>2, <1>4, PaidShown DEF HooksHonest, JobsHonest
  <1>9. Counted
    BY BusyFinite DEF Init, Counted
  <1> QED BY <1>5, <1>6, <1>7, <1>8, <1>9 DEF IInv

LEMMA StepIInv == IInv /\ [Next]_vars => IInv'
  <1> SUFFICES ASSUME IInv, [Next]_vars PROVE IInv'
    OBVIOUS
  <1>1. CASE UNCHANGED vars
    <2>1. UNCHANGED <<remote, seen, sent, row, marked, handled, hook, job, crashed>>
      BY <1>1 DEF vars, sweetbook, server
    <2> QED BY <2>1 DEF IInv, TypeOK, RemoteSeen, RowShown, Announced, HooksHonest,
                        JobsHonest, Counted, Busy, Shown
  <1>2. CASE Sweetbook
    BY <1>2, SweetbookStep
  <1>3. CASE Receive
    BY <1>3, HookCheckStep, HookMarkStep, HookSaveStep DEF Receive, HookStep
  <1>4. CASE PlaceSave
    BY <1>4, PlaceSaveStep
  <1>5. CASE Cron \/ Poll
    BY <1>5, PollingStep
  <1>6. CASE Cancel
    BY <1>6, CancelStep
  <1>7. ASSUME NEW j \in Jobs, GiveUpPolling(j) PROVE IInv'
    BY <1>7, GiveUpStep
  <1>8. CASE Crash
    BY <1>8, CrashStep
  <1> QED BY <1>1, <1>2, <1>3, <1>4, <1>5, <1>6, <1>7, <1>8 DEF Next

\* The invariant holds in every reachable state.
THEOREM Invariance == Spec => []IInv
  BY InitIInv, StepIInv, PTL DEF Spec

\* Every variable keeps its type, and only what Sweetbook sent is marked.
THEOREM AlwaysTyped == Spec => []TypeOK
  <1>1. IInv => TypeOK
    BY DEF IInv
  <1> QED BY <1>1, Invariance, PTL

\* The tables agree on every code but the three of a cancelled or failed order, and
\* the cron's has no word for two of these.
LEMMA TablesAgree ==
  ASSUME NEW c \in Codes \ {90}
  PROVE  mapStatusCode(c) \in {mapSweetbookStatus(c), Unmapped}
  BY DEF Codes, mapStatusCode, mapSweetbookStatus

\* However stale the copies and however late, repeated or lost the webhooks: the
\* status shown is one the order had, as documented, unless it failed.
THEOREM AlwaysWasTrue == Spec => []ShownWasTrue
  <1>1. ASSUME IInv, 90 \notin seen PROVE row.status \in Documented
    <2>1. row.status \in Statuses /\ Unmapped \notin Statuses /\ seen \subseteq Codes \ {90}
      BY <1>1 DEF IInv, TypeOK, Statuses, Unmapped
    <2>2. CASE row.status \in {"SUBMITTING", "ERROR"}
      BY <2>2 DEF Documented
    <2>3. CASE \E c \in seen : row.status \in {mapSweetbookStatus(c), mapStatusCode(c)}
      <3>1. PICK c \in seen : row.status \in {mapSweetbookStatus(c), mapStatusCode(c)}
        BY <2>3
      <3>2. row.status = mapSweetbookStatus(c)
        BY <2>1, <3>1, TablesAgree
      <3> QED BY <3>2 DEF Documented
    <2> QED BY <1>1, <2>2, <2>3 DEF IInv, RowShown, Shown
  <1>2. IInv => ShownWasTrue
    BY <1>1 DEF ShownWasTrue
  <1> QED BY <1>2, Invariance, PTL

\* A delivery takes effect at most once for each request that may be in progress.
THEOREM AlwaysHandledOnce == Spec => []HandledOnce
  <1>1. IInv => HandledOnce
    BY BusyFinite DEF IInv, TypeOK, Counted, HandledOnce
  <1> QED BY <1>1, Invariance, PTL
=============================================================================
