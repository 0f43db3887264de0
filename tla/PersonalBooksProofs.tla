------------------------ MODULE PersonalBooksProofs ------------------------
(***************************************************************************)
(* Proofs about PersonalBooks, for every set of members, photos and        *)
(* handlers: what the generation of books, which looks its book up twice   *)
(* and makes the one at Sweetbook outside of any transaction, keeps while  *)
(* requests and jobs come one at a time; and that the threshold of a       *)
(* member's face only rises.                                               *)
(***************************************************************************)
EXTENDS PersonalBooks, FiniteSetTheorems, TLAPS

(***************************************************************************)
(* The inductive invariant.  Placed is what the locals of a handler are at *)
(* each of its points, however requests overlap.  Honest is what they say  *)
(* about the tables, which is true only while nothing overlaps: between    *)
(* the look-up and the commit the member still has no book, or still has   *)
(* the one that was found, and the threshold read is that of the anchor.   *)
(***************************************************************************)
WithMember == {"faces", "findBook", "post", "txFind", "commit", "findAnchor",
               "count", "saveAnchor", "register", "deleteAnchor"}
WithRow == {"exclude", "deleteBook", "removeBook"}
NoRowYet == {"idle", "nextMember", "faces", "findBook", "post", "txFind"}

Placed(c) ==
  /\ c.at \in WithMember => c.who \in Members
  /\ c.at \in WithRow => c.row \in Rows
  /\ c.at \in NoRowYet => c.row = NoRow
  /\ c.at = "exclude" => c.who \in Members
  /\ c.at \in {"txFind", "commit"} => c.uid \in Uids

\* A row of the table belongs to a member and names a book at Sweetbook.
RowsFilled == \A b \in Rows : There(b) => book[b].owner \in Members /\ book[b].uid \in Uids

Fresh(c) == RowsOf(c.who) = {} /\ remote[c.uid] = "live"

Honest(c) ==
  /\ c.at = "post" => RowsOf(c.who) = {}
  /\ c.at = "txFind" => Fresh(c) \/ RowsOf(c.who) # {}
  /\ c.at = "commit" =>
       IF c.row = NoRow THEN Fresh(c)
       ELSE c.row \in RowsOf(c.who) /\ book[c.row].status = "READY_TO_REVIEW"
  /\ c.at \in {"count", "register"} => c.level = anchor[c.who].level
  /\ c.at = "saveAnchor" => c.level >= anchor[c.who].level

\* A member has at most one personal book, of whatever status.
OneBook == \A b, d \in Rows :
             There(b) /\ There(d) /\ book[b].owner = book[d].owner => b = d

Alone == \A p, q \in Calls : ~At(p, "idle") /\ ~At(q, "idle") => p = q

CalmInv == calm => Alone /\ OneBook /\ \A p \in Calls : Honest(call[p])

IInv == TablesOK /\ RowsFilled /\ (\A p \in Calls : Placed(call[p])) /\ CalmInv

-----------------------------------------------------------------------------
(* Handlers and tables *)

\* A handler at rest, and the loop of the job between two members.
LEMMA IdleType ==
  /\ Idle \in Handler /\ Idle.at = "idle" /\ Placed(Idle)
  /\ \A todo \in SUBSET Members :
       LET c == [Idle EXCEPT !.at = "nextMember", !.inJob = TRUE, !.todo = todo]
       IN  c \in Handler /\ c.at = "nextMember" /\ Placed(c)
  <1>1. Idle \in Handler /\ Idle.at = "idle"
    BY LevelAssumption DEF Idle, Handler, Points, NoRow, NoUid
  <1>2. Placed(Idle)
    BY <1>1 DEF Idle, Placed, WithMember, WithRow, NoRowYet
  <1>3. ASSUME NEW todo \in SUBSET Members
        PROVE  LET c == [Idle EXCEPT !.at = "nextMember", !.inJob = TRUE, !.todo = todo]
               IN  c \in Handler /\ c.at = "nextMember" /\ Placed(c)
    BY <1>1, <1>2, <1>3 DEF Handler, Points, Placed, WithMember, WithRow, NoRowYet
  <1> QED BY <1>1, <1>2, <1>3

\* A handler before a question is put to it asks nothing of the tables.
LEMMA RestingHonest ==
  ASSUME NEW c, c.at \in {"idle", "nextMember", "exclude", "findAnchor", "deleteAnchor",
                          "deleteBook", "removeBook"}
  PROVE  Honest(c) /\ Honest(c)'
  BY DEF Honest

\* Whatever a handler ends with, it is at rest or back in the loop.
LEMMA FinishShape ==
  ASSUME TablesOK, NEW p \in Calls, Finish(p)
  PROVE  \E c \in Handler : /\ call' = [call EXCEPT ![p] = c]
                            /\ c.at \in {"idle", "nextMember"} /\ Placed(c)
  <1> DEFINE d == [Idle EXCEPT !.at = "nextMember", !.inJob = TRUE, !.todo = call[p].todo]
  <1>1. call[p] \in Handler /\ call[p].todo \in SUBSET Members
    BY DEF TablesOK, Handler
  <1>2. d \in Handler /\ d.at = "nextMember" /\ Placed(d)
    BY <1>1, IdleType
  <1>3. call' = [call EXCEPT ![p] = d] \/ call' = [call EXCEPT ![p] = Idle]
    BY DEF Finish, TablesOK
  <1> QED BY <1>2, <1>3, IdleType

\* How many of a member's matches are excluded is a number: there are finitely
\* many photos.
LEMMA LevelType ==
  ASSUME TablesOK, NEW m \in Members
  PROVE  TargetLevel(m) \in Nat /\ TargetLevel(m) <= MaxLevel
  <1>1. IsFiniteSet(Rows)
    BY PersonalBoundsAssumption, FS_Interval DEF Rows
  <1>2. IsFiniteSet(RowsOf(m) \X Photos)
    <2>1. RowsOf(m) \subseteq Rows
      BY DEF RowsOf
    <2>2. IsFiniteSet(RowsOf(m))
      BY <1>1, <2>1, FS_Subset
    <2> QED BY <2>2, PhotosAssumption, FS_Product
  <1>3. ExcludedMatches(m) \subseteq RowsOf(m) \X Photos
    BY DEF ExcludedMatches
  <1>4. ExcludedCount(m) \in Nat
    BY <1>2, <1>3, FS_Subset, FS_CardinalityType DEF ExcludedCount
  <1>5. ExcludedCount(m) \div PerLevel \in Nat
    BY <1>4, LevelAssumption
  <1> QED BY <1>5, LevelAssumption DEF TargetLevel

(***************************************************************************)
(* The step of one handler.  It keeps the invariant when its own locals    *)
(* and the tables are as they should be, and, while it is calm, when it is *)
(* the only one: then nobody else has read anything.                       *)
(***************************************************************************)
LEMMA HandlerStep ==
  ASSUME IInv, NEW p \in Calls, NEW c \in Handler,
         call' = [call EXCEPT ![p] = c], calm' \in BOOLEAN, calm' => calm,
         calm' => ~At(p, "idle") \/ Quiet,
         anchor' \in [Members -> [there : BOOLEAN, level : 0 .. MaxLevel]],
         book' \in [Rows -> Book],
         match' \in [Rows -> SUBSET Photos], excluded' \in [Rows -> SUBSET Photos],
         remote' \in [Uids -> {"none", "live", "gone"}],
         job' \in [state : {"none", "waiting", "active", "done", "failed"}, again : BOOLEAN],
         RowsFilled', Placed(c),
         calm' => OneBook' /\ Honest(c)'
  PROVE  IInv'
  <1>1. call'[p] = c /\ \A q \in Calls \ {p} : call'[q] = call[q]
    BY DEF IInv, TablesOK
  <1>2. TablesOK'
    BY DEF IInv, TablesOK
  <1>3. \A q \in Calls : Placed(call'[q])
    BY <1>1 DEF IInv
  <1>4. CalmInv'
    <2>1. SUFFICES ASSUME calm' PROVE Alone' /\ \A q \in Calls : Honest(call[q])'
      BY <1>1 DEF CalmInv, OneBook
    <2>2. Alone /\ \A q \in Calls \ {p} : At(q, "idle")
      BY <2>1 DEF IInv, CalmInv, Alone, Quiet
    <2>3. \A q \in Calls \ {p} : call'[q].at = "idle"
      BY <1>1, <2>2 DEF At
    <2>4. Alone'
      BY <2>3 DEF Alone, At
    <2>5. \A q \in Calls : Honest(call[q])'
      <3>1. TAKE q \in Calls
      <3>2. CASE q = p
        BY <1>1, <2>1, <3>2 DEF Honest
      <3>3. CASE q # p
        BY <2>3, <3>3, RestingHonest
      <3> QED BY <3>2, <3>3
    <2> QED BY <2>4, <2>5
  <1>5. (\A q \in Calls : Placed(call[q]))'
    BY <1>3 DEF Placed
  <1> QED BY <1>2, <1>4, <1>5 DEF IInv

\* ... in particular when it leaves the tables alone.
LEMMA LocalStep ==
  ASSUME IInv, NEW p \in Calls, NEW c \in Handler,
         call' = [call EXCEPT ![p] = c], calm' \in BOOLEAN, calm' => calm,
         calm' => ~At(p, "idle") \/ Quiet,
         UNCHANGED <<anchor, book, match, remote>>,
         excluded' \in [Rows -> SUBSET Photos],
         job' \in [state : {"none", "waiting", "active", "done", "failed"}, again : BOOLEAN],
         Placed(c), calm' => Honest(c)
  PROVE  IInv'
  <1>1. RowsFilled'
    BY DEF IInv, RowsFilled, There
  <1>2. calm' => OneBook'
    BY DEF IInv, CalmInv, OneBook, There
  <1>3. Honest(c)' <=> Honest(c)
    BY DEF Honest, Fresh, RowsOf, There
  <1>4. /\ anchor' \in [Members -> [there : BOOLEAN, level : 0 .. MaxLevel]]
        /\ book' \in [Rows -> Book] /\ match' \in [Rows -> SUBSET Photos]
        /\ remote' \in [Uids -> {"none", "live", "gone"}]
    BY DEF IInv, TablesOK
  <1> QED BY <1>1, <1>2, <1>3, <1>4, HandlerStep

\* A handler that ends leaves nothing behind that could be wrong.
LEMMA FinishStep ==
  ASSUME IInv, NEW p \in Calls, Finish(p), ~At(p, "idle"), UNCHANGED calm,
         UNCHANGED <<anchor, book, match, excluded, remote, job>>
  PROVE  IInv'
  <1>1. PICK c \in Handler : /\ call' = [call EXCEPT ![p] = c]
                             /\ c.at \in {"idle", "nextMember"} /\ Placed(c)
    BY FinishShape DEF IInv
  <1>2. Honest(c)
    BY <1>1, RestingHonest
  <1>3. /\ calm' \in BOOLEAN /\ (calm' => calm)
        /\ excluded' \in [Rows -> SUBSET Photos]
        /\ job' \in [state : {"none", "waiting", "active", "done", "failed"},
                    again : BOOLEAN]
    BY DEF IInv, TablesOK
  <1> QED BY <1>1, <1>2, <1>3, LocalStep

LEMMA ReturnStep ==
  ASSUME IInv, NEW p \in Calls, Return(p), ~At(p, "idle"), UNCHANGED calm,
         UNCHANGED <<anchor, book, match, remote>>,
         excluded' \in [Rows -> SUBSET Photos],
         job' \in [state : {"none", "waiting", "active", "done", "failed"}, again : BOOLEAN]
  PROVE  IInv'
  <1>1. Honest(Idle)
    BY DEF Honest, Idle
  <1>2. calm' \in BOOLEAN /\ (calm' => calm)
    BY DEF IInv, TablesOK
  <1> QED BY <1>1, <1>2, IdleType, LocalStep DEF Return

-----------------------------------------------------------------------------
(* Requests and the job *)

\* A request begins: if it is still calm then, nothing else is in progress.
Begins(p) == At(p, "idle") /\ calm' = (calm /\ Quiet)

\* The request, or the loop of the job, reads the anchor of the next member.
LEMMA FindOwnAnchorStep ==
  ASSUME IInv, NEW p \in Calls, NEW m \in Members, NEW c \in Handler,
         FindOwnAnchor(p, m, c), c.at \in {"idle", "nextMember"}, Placed(c),
         calm' \in BOOLEAN, calm' => calm, calm' => ~At(p, "idle") \/ Quiet,
         UNCHANGED <<anchor, book, match, excluded, remote, job>>
  PROVE  IInv'
  <1> DEFINE d == [c EXCEPT !.at = "faces", !.who = m, !.level = anchor[m].level]
  <1>1. /\ excluded' \in [Rows -> SUBSET Photos]
        /\ job' \in [state : {"none", "waiting", "active", "done", "failed"},
                     again : BOOLEAN]
    BY DEF IInv, TablesOK
  <1>2. CASE anchor[m].there
    <2>1. anchor[m].level \in 0 .. MaxLevel
      BY DEF IInv, TablesOK
    <2>2. /\ d \in Handler /\ d.at = "faces" /\ d.who = m /\ d.row = c.row
      BY <2>1 DEF Handler, Points
    <2>3. Placed(d) /\ Honest(d)
      BY <2>2 DEF Placed, Honest, WithMember, WithRow, NoRowYet
    <2>4. call' = [call EXCEPT ![p] = d]
      BY <1>2 DEF FindOwnAnchor
    <2> HIDE DEF d
    <2> QED BY <1>1, <2>2, <2>3, <2>4, LocalStep
  <1>3. CASE ~anchor[m].there
    <2>1. PICK e \in {c, Idle} : call' = [call EXCEPT ![p] = e]
      BY <1>3 DEF FindOwnAnchor
    <2>2. e \in Handler /\ e.at \in {"idle", "nextMember"}
      BY IdleType
    <2>3. Placed(e) /\ Honest(e)
      BY <2>2, IdleType DEF Honest
    <2> QED BY <1>1, <2>1, <2>2, <2>3, LocalStep
  <1> QED BY <1>2, <1>3

LEMMA GenerateMineStep ==
  ASSUME IInv, NEW p \in Calls, NEW m \in Members, GenerateMine(p, m), Begins(p)
  PROVE  IInv'
  <1>1. Idle \in Handler /\ Idle.at = "idle" /\ Placed(Idle)
    BY IdleType
  <1>2. calm' \in BOOLEAN /\ (calm' => calm) /\ (calm' => Quiet)
    BY DEF Begins, IInv, TablesOK
  <1>3. FindOwnAnchor(p, m, Idle) /\ UNCHANGED <<anchor, book, match, excluded, remote, job>>
    BY DEF GenerateMine
  <1> QED BY <1>1, <1>2, <1>3, FindOwnAnchorStep

\* The job is queued: nothing else happens.
LEMMA QueueJobStep ==
  ASSUME IInv, QueueJob
  PROVE  IInv'
  <1>1. TablesOK'
    BY DEF IInv, TablesOK, QueueJob
  <1> QED BY <1>1 DEF IInv, QueueJob, RowsFilled, There, CalmInv, Alone, At,
       OneBook, Honest, Fresh, RowsOf

LEMMA StartJobStep ==
  ASSUME IInv, NEW p \in Calls, StartJob(p), Begins(p)
  PROVE  IInv'
  <1> DEFINE c == [Idle EXCEPT !.at = "nextMember", !.todo = Members, !.inJob = TRUE]
  <1>1. c \in Handler /\ c.at = "nextMember" /\ c.row = NoRow
    BY IdleType DEF Idle, Handler, Points
  <1>2. Placed(c) /\ Honest(c)
    BY <1>1 DEF Placed, Honest, WithMember, WithRow, NoRowYet
  <1>3. calm' \in BOOLEAN /\ (calm' => calm) /\ (calm' => Quiet)
    BY DEF Begins, IInv, TablesOK
  <1>4. /\ excluded' \in [Rows -> SUBSET Photos]
        /\ job' \in [state : {"none", "waiting", "active", "done", "failed"},
                     again : BOOLEAN]
        /\ call' = [call EXCEPT ![p] = c]
        /\ UNCHANGED <<anchor, book, match, remote>>
    BY DEF IInv, TablesOK, StartJob
  <1> HIDE DEF c
  <1> QED BY <1>1, <1>2, <1>3, <1>4, LocalStep

\* The loop goes on with a member that is left.
LEMMA NextMemberStep ==
  ASSUME IInv, NEW p \in Calls, NextMember(p), UNCHANGED calm
  PROVE  IInv'
  <1>1. PICK m \in call[p].todo : FindOwnAnchor(p, m, [call[p] EXCEPT !.todo = @ \ {m}])
    BY DEF NextMember
  <1>2. call[p] \in Handler /\ call[p].at = "nextMember" /\ m \in Members
    BY DEF IInv, TablesOK, NextMember, At, Handler
  <1> DEFINE c == [call[p] EXCEPT !.todo = @ \ {m}]
  <1>3. c \in Handler /\ c.at = "nextMember" /\ c.row = call[p].row /\ c.who = call[p].who
        /\ c.uid = call[p].uid
    BY <1>2 DEF Handler
  <1>4. Placed(c)
    BY <1>2, <1>3 DEF IInv, Placed, WithMember, WithRow, NoRowYet
  <1>5. calm' \in BOOLEAN /\ (calm' => calm) /\ ~At(p, "idle")
    BY <1>2 DEF IInv, TablesOK, At
  <1>6. FindOwnAnchor(p, m, c) /\ UNCHANGED <<anchor, book, match, excluded, remote, job>>
    BY <1>1 DEF NextMember
  <1> HIDE DEF c
  <1> QED BY <1>2, <1>3, <1>4, <1>5, <1>6, FindOwnAnchorStep

\* The last member is done.
LEMMA EndJobStep ==
  ASSUME IInv, NEW p \in Calls, EndJob(p), UNCHANGED calm
  PROVE  IInv'
  BY ReturnStep DEF IInv, TablesOK, EndJob, At

-----------------------------------------------------------------------------
(* generateForMember *)

\* What is said of the handler in hand, which is in the middle of something.
LEMMA AtWork ==
  ASSUME IInv, NEW p \in Calls, ~At(p, "idle"), UNCHANGED calm
  PROVE  /\ call[p] \in Handler /\ Placed(call[p])
         /\ calm' => Honest(call[p]) /\ OneBook
         /\ calm' \in BOOLEAN /\ (calm' => calm)
         /\ job \in [state : {"none", "waiting", "active", "done", "failed"},
                     again : BOOLEAN]
         /\ excluded \in [Rows -> SUBSET Photos]
  BY DEF IInv, TablesOK, CalmInv

LEMMA ReadFacesStep ==
  ASSUME IInv, NEW p \in Calls, ReadFaces(p), UNCHANGED calm
  PROVE  IInv'
  <1> DEFINE found == {f \in Photos : Likeness[call[p].who][f] >= call[p].level}
             c == [call[p] EXCEPT !.at = "findBook", !.found = found, !.level = 0]
  <1>1. call[p].at = "faces" /\ ~At(p, "idle")
    BY DEF ReadFaces, At
  <1>2. UNCHANGED <<anchor, book, match, excluded, remote, job>>
    BY DEF ReadFaces
  <1>3. CASE Finish(p)
    BY <1>1, <1>2, <1>3, FinishStep
  <1>4. CASE ~Finish(p)
    <2>1. call' = [call EXCEPT ![p] = c]
      BY <1>4, AtWork DEF ReadFaces, IInv, TablesOK
    <2>2. /\ c \in Handler /\ c.at = "findBook" /\ c.who = call[p].who
          /\ c.row = call[p].row
      <3>1. found \in SUBSET Photos /\ 0 \in 0 .. MaxLevel
        BY LevelAssumption
      <3> HIDE DEF found
      <3> QED BY <1>1, <3>1, AtWork DEF Handler, Points
    <2>3. Placed(c) /\ Honest(c)
      BY <1>1, <2>2, AtWork DEF Placed, Honest, WithMember, WithRow, NoRowYet
    <2> HIDE DEF c
    <2> QED BY <1>1, <1>2, <2>1, <2>2, <2>3, AtWork, LocalStep
  <1> QED BY <1>3, <1>4

LEMMA FindBookStep ==
  ASSUME IInv, NEW p \in Calls, FindBook(p), UNCHANGED calm
  PROVE  IInv'
  <1>1. call[p].at = "findBook" /\ ~At(p, "idle")
    BY DEF FindBook, At
  <1>2. UNCHANGED <<anchor, book, match, excluded, remote, job>>
    BY DEF FindBook
  <1>3. CASE Finish(p)
    BY <1>1, <1>2, <1>3, FinishStep
  <1>4. CASE RowsOf(call[p].who) = {} /\ call' = [call EXCEPT ![p].at = "post"]
    <2> DEFINE c == [call[p] EXCEPT !.at = "post"]
    <2>1. call' = [call EXCEPT ![p] = c]
      BY <1>4, AtWork DEF IInv, TablesOK
    <2>2. /\ c \in Handler /\ c.at = "post" /\ c.who = call[p].who
          /\ c.row = call[p].row
      BY <1>1, AtWork DEF Handler, Points
    <2>3. Placed(c) /\ Honest(c)
      BY <1>1, <1>4, <2>2, AtWork DEF Placed, Honest, WithMember, WithRow, NoRowYet
    <2> HIDE DEF c
    <2> QED BY <1>1, <1>2, <2>1, <2>2, <2>3, AtWork, LocalStep
  <1>5. ASSUME NEW b \in RowsOf(call[p].who),
               call' = [call EXCEPT ![p].at = "txFind", ![p].uid = book[b].uid]
        PROVE  IInv'
    <2> DEFINE c == [call[p] EXCEPT !.at = "txFind", !.uid = book[b].uid]
    <2>1. call' = [call EXCEPT ![p] = c]
      BY <1>5, AtWork DEF IInv, TablesOK
    <2>2. book[b].uid \in Uids
      BY DEF IInv, RowsFilled, RowsOf
    <2>3. /\ c \in Handler /\ c.at = "txFind" /\ c.who = call[p].who
          /\ c.row = call[p].row /\ c.uid \in Uids
      BY <1>1, <2>2, AtWork DEF Handler, Points
    <2>4. Placed(c) /\ Honest(c)
      BY <1>1, <1>5, <2>3, AtWork DEF Placed, Honest, WithMember, WithRow, NoRowYet
    <2> HIDE DEF c
    <2> QED BY <1>1, <1>2, <2>1, <2>3, <2>4, AtWork, LocalStep
  <1> QED BY <1>3, <1>4, <1>5 DEF FindBook

\* A book made at Sweetbook takes nothing from the rows there are.
LEMMA PostStep ==
  ASSUME IInv, NEW p \in Calls, Post(p), UNCHANGED calm
  PROVE  IInv'
  <1>1. call[p].at = "post" /\ ~At(p, "idle")
    BY DEF Post, At
  <1>2. UNCHANGED <<anchor, book, match, excluded, job>>
    BY DEF Post
  <1>3. CASE UNCHANGED remote /\ Finish(p)
    BY <1>1, <1>2, <1>3, FinishStep
  <1>4. ASSUME NEW u \in Uids, remote' = [remote EXCEPT ![u] = "live"],
               \/ call' = [call EXCEPT ![p].at = "txFind", ![p].uid = u]
               \/ Finish(p)
        PROVE  IInv'
    <2>1. remote' \in [Uids -> {"none", "live", "gone"}] /\ remote'[u] = "live"
      BY <1>4 DEF IInv, TablesOK
    <2>2. RowsFilled' /\ (calm' => OneBook')
      BY <1>2, AtWork, <1>1 DEF IInv, RowsFilled, OneBook, There
    <2>3. /\ anchor' \in [Members -> [there : BOOLEAN, level : 0 .. MaxLevel]]
          /\ book' \in [Rows -> Book]
          /\ match' \in [Rows -> SUBSET Photos] /\ excluded' \in [Rows -> SUBSET Photos]
          /\ job' \in [state : {"none", "waiting", "active", "done", "failed"},
                       again : BOOLEAN]
      BY <1>2 DEF IInv, TablesOK
    <2>4. CASE Finish(p)
      <3>1. PICK c \in Handler : /\ call' = [call EXCEPT ![p] = c]
                                 /\ c.at \in {"idle", "nextMember"} /\ Placed(c)
        BY <2>4, FinishShape DEF IInv
      <3>2. Honest(c)'
        BY <3>1, RestingHonest
      <3> QED BY <1>1, <2>1, <2>2, <2>3, <3>1, <3>2, AtWork, HandlerStep
    <2>5. CASE call' = [call EXCEPT ![p].at = "txFind", ![p].uid = u]
      <3>0. [call[p] EXCEPT !.at = "txFind", !.uid = u] \in Handler
        BY <1>1, AtWork DEF Handler, Points
      <3>1. PICK c \in Handler : c = [call[p] EXCEPT !.at = "txFind", !.uid = u]
        BY <3>0
      <3>2. /\ call' = [call EXCEPT ![p] = c] /\ c.at = "txFind"
            /\ c.who = call[p].who /\ c.row = call[p].row /\ c.uid = u
        BY <2>5, <3>1, AtWork, <1>1 DEF IInv, TablesOK, Handler
      <3>3. Placed(c)
        BY <1>1, <3>2, AtWork DEF Placed, WithMember, WithRow, NoRowYet
      <3>4. calm' => Honest(c)'
        <4>1. RowsOf(c.who)' = RowsOf(c.who)
          BY <1>2 DEF RowsOf, There
        <4>2. calm' => RowsOf(c.who) = {}
          BY <1>1, <3>2, AtWork DEF Honest
        <4> QED BY <2>1, <3>2, <4>1, <4>2 DEF Honest, Fresh
      <3> QED BY <1>1, <2>1, <2>2, <2>3, <3>2, <3>3, <3>4, AtWork, HandlerStep
    <2> QED BY <1>4, <2>4, <2>5
  <1> QED BY <1>3, <1>4 DEF Post

\* The transaction looks again; while it is calm it finds what was there before.
LEMMA TxFindStep ==
  ASSUME IInv, NEW p \in Calls, TxFind(p), UNCHANGED calm
  PROVE  IInv'
  <1>1. call[p].at = "txFind" /\ ~At(p, "idle")
    BY DEF TxFind, At
  <1>2. UNCHANGED <<anchor, book, match, excluded, remote, job>>
    BY DEF TxFind
  <1>3. CASE Finish(p)
    BY <1>1, <1>2, <1>3, FinishStep
  <1>4. CASE RowsOf(call[p].who) = {} /\ call' = [call EXCEPT ![p].at = "commit"]
    <2> DEFINE c == [call[p] EXCEPT !.at = "commit"]
    <2>1. call' = [call EXCEPT ![p] = c]
      BY <1>4, AtWork DEF IInv, TablesOK
    <2>2. /\ c \in Handler /\ c.at = "commit" /\ c.who = call[p].who
          /\ c.row = call[p].row /\ c.uid = call[p].uid
      BY <1>1, AtWork DEF Handler, Points
    <2>3. Placed(c)
      BY <1>1, <2>2, AtWork DEF Placed, WithMember, WithRow, NoRowYet
    <2>4. calm' => Honest(c)
      BY <1>1, <1>4, <2>2, AtWork DEF Honest, Fresh, Placed, NoRowYet
    <2> HIDE DEF c
    <2> QED BY <1>1, <1>2, <2>1, <2>2, <2>3, <2>4, AtWork, LocalStep
  <1>5. ASSUME NEW b \in RowsOf(call[p].who), book[b].status = "READY_TO_REVIEW",
               call' = [call EXCEPT ![p].at = "commit", ![p].row = b,
                                    ![p].uid = book[b].uid]
        PROVE  IInv'
    <2> DEFINE c == [call[p] EXCEPT !.at = "commit", !.row = b, !.uid = book[b].uid]
    <2>1. call' = [call EXCEPT ![p] = c]
      BY <1>5, AtWork DEF IInv, TablesOK
    <2>2. book[b].uid \in Uids /\ b \in Rows /\ b # NoRow
      BY DEF IInv, RowsFilled, RowsOf, Rows, NoRow
    <2>3. /\ c \in Handler /\ c.at = "commit" /\ c.who = call[p].who
          /\ c.row = b /\ c.uid \in Uids
      BY <1>1, <2>2, AtWork DEF Handler, Points
    <2>4. Placed(c) /\ Honest(c)
      BY <1>1, <1>5, <2>2, <2>3, AtWork DEF Placed, Honest, WithMember, WithRow, NoRowYet
    <2> HIDE DEF c
    <2> QED BY <1>1, <1>2, <2>1, <2>3, <2>4, AtWork, LocalStep
  <1> QED BY <1>3, <1>4, <1>5 DEF TxFind

\* Of the rows the transaction may write: a new row follows those there are, and
\* while it is calm the member has no other book.
LEMMA RowsForMember ==
  ASSUME IInv, NEW p \in Calls, call[p].at = "commit", UNCHANGED calm,
         NEW b \in RowsFor(p)
  PROVE  /\ call[p].row = NoRow => b \in Rows /\ book[b].status = "none"
         /\ calm' => b \in Rows /\ RowsOf(call[p].who) \subseteq {b}
  <1>1. call[p].row = NoRow => b \in Rows /\ book[b].status = "none"
    BY DEF RowsFor, Rows
  <1>2. calm' => b \in Rows /\ RowsOf(call[p].who) \subseteq {b}
    <2>1. SUFFICES ASSUME calm' PROVE b \in Rows /\ RowsOf(call[p].who) \subseteq {b}
      OBVIOUS
    <2>2. Honest(call[p]) /\ OneBook
      BY <2>1, AtWork DEF At
    <2>3. CASE call[p].row = NoRow
      <3>1. RowsOf(call[p].who) = {}
        BY <2>2, <2>3 DEF Honest, Fresh
      <3>2. b \in Rows
        BY <1>1, <2>3
      <3> QED BY <3>1, <3>2
    <2>4. CASE call[p].row # NoRow
      <3>1. b \in RowsOf(call[p].who)
        BY <2>2, <2>4 DEF Honest, RowsFor
      <3>2. ASSUME NEW d \in RowsOf(call[p].who) PROVE d = b
        <4>1. /\ b \in Rows /\ There(b) /\ book[b].owner = call[p].who
              /\ d \in Rows /\ There(d) /\ book[d].owner = call[p].who
          BY <3>1, <3>2 DEF RowsOf
        <4>2. book[b].owner = book[d].owner
          BY <4>1
        <4> QED BY <2>1, <2>2, <4>1, <4>2 DEF OneBook
      <3> QED BY <3>1, <3>2 DEF RowsOf
    <2> QED BY <2>3, <2>4
  <1> QED BY <1>1, <1>2

\* The commit: the row it writes becomes, or stays, the only one of the member.
LEMMA CommitStep ==
  ASSUME IInv, NEW p \in Calls, Commit(p), UNCHANGED calm
  PROVE  IInv'
  <1>1. call[p].at = "commit" /\ ~At(p, "idle")
    BY DEF Commit, At
  <1>2. UNCHANGED <<anchor, remote, job>> /\ Finish(p)
    BY DEF Commit
  <1>3. CASE UNCHANGED <<book, match, excluded>>
    BY <1>1, <1>2, <1>3, FinishStep
  <1>4. ASSUME NEW b \in RowsFor(p),
               book' = [book EXCEPT ![b] = [status |-> "READY_TO_REVIEW",
                                            owner |-> call[p].who, uid |-> call[p].uid]],
               match' = [match EXCEPT ![b] = call[p].found],
               excluded' = [excluded EXCEPT ![b] = {}]
        PROVE  IInv'
    <2>1. /\ call[p].who \in Members /\ call[p].uid \in Uids
          /\ call[p].found \in SUBSET Photos
      BY <1>1, AtWork DEF Placed, WithMember, Handler
    <2>2. [status |-> "READY_TO_REVIEW", owner |-> call[p].who, uid |-> call[p].uid] \in Book
      BY <2>1 DEF Book, Statuses
    <2>3. /\ anchor' \in [Members -> [there : BOOLEAN, level : 0 .. MaxLevel]]
          /\ remote' \in [Uids -> {"none", "live", "gone"}]
          /\ job' \in [state : {"none", "waiting", "active", "done", "failed"},
                       again : BOOLEAN]
          /\ book' \in [Rows -> Book]
          /\ match' \in [Rows -> SUBSET Photos] /\ excluded' \in [Rows -> SUBSET Photos]
      BY <1>2, <1>4, <2>1, <2>2 DEF IInv, TablesOK
    <2>4. \A d \in Rows : \/ d # b /\ book'[d] = book[d]
                          \/ /\ d = b /\ book'[d].owner = call[p].who
                             /\ book'[d].uid = call[p].uid
      BY <1>4 DEF IInv, TablesOK
    <2>5. RowsFilled'
      BY <2>1, <2>4 DEF IInv, RowsFilled, There
    <2>6. calm' => OneBook'
      <3>1. SUFFICES ASSUME calm', NEW d \in Rows, NEW e \in Rows, There(d)', There(e)',
                            book'[d].owner = book'[e].owner
                     PROVE  d = e
        BY DEF OneBook
      <3>2. RowsOf(call[p].who) \subseteq {b} /\ OneBook
        BY <1>1, <1>4, <3>1, RowsForMember, AtWork
      <3>3. CASE d # b /\ e # b
        BY <2>4, <3>1, <3>2, <3>3 DEF OneBook, There
      <3>4. CASE d = b /\ e # b
        BY <2>4, <3>1, <3>2, <3>4 DEF RowsOf, There
      <3>5. CASE d # b /\ e = b
        BY <2>4, <3>1, <3>2, <3>5 DEF RowsOf, There
      <3> QED BY <3>3, <3>4, <3>5
    <2>7. PICK c \in Handler : /\ call' = [call EXCEPT ![p] = c]
                               /\ c.at \in {"idle", "nextMember"} /\ Placed(c)
      BY <1>2, FinishShape DEF IInv
    <2>8. Honest(c)'
      BY <2>7, RestingHonest
    <2> QED BY <1>1, <2>3, <2>5, <2>6, <2>7, <2>8, AtWork, HandlerStep
  <1> QED BY <1>3, <1>4 DEF Commit

-----------------------------------------------------------------------------
(* Exclusions and anchors *)

LEMMA ExcludeStartStep ==
  ASSUME IInv, NEW p \in Calls, NEW b \in Rows, ExcludeStart(p, b), Begins(p)
  PROVE  IInv'
  <1> DEFINE c == [Idle EXCEPT !.at = "exclude", !.row = b, !.who = book[b].owner]
  <1>1. book[b].owner \in Members
    BY DEF IInv, RowsFilled, ExcludeStart
  <1>2. c \in Handler /\ c.at = "exclude" /\ c.row = b /\ c.who \in Members
    BY <1>1, IdleType DEF Handler, Points
  <1>3. Placed(c) /\ Honest(c)
    BY <1>2 DEF Placed, Honest, WithMember, WithRow, NoRowYet
  <1>4. /\ calm' \in BOOLEAN /\ (calm' => calm) /\ (calm' => Quiet)
        /\ excluded' \in [Rows -> SUBSET Photos]
        /\ job' \in [state : {"none", "waiting", "active", "done", "failed"},
                     again : BOOLEAN]
    BY DEF Begins, IInv, TablesOK, ExcludeStart
  <1>5. call' = [call EXCEPT ![p] = c] /\ UNCHANGED <<anchor, book, match, remote>>
    BY DEF ExcludeStart
  <1> HIDE DEF c
  <1> QED BY <1>2, <1>3, <1>4, <1>5, LocalStep

LEMMA ExcludeStep ==
  ASSUME IInv, NEW p \in Calls, Exclude(p), UNCHANGED calm
  PROVE  IInv'
  <1>1. call[p].at = "exclude" /\ ~At(p, "idle")
    BY DEF Exclude, At
  <1>2. UNCHANGED <<anchor, book, match, remote, job>>
    BY DEF Exclude
  <1>3. CASE UNCHANGED excluded /\ Return(p)
    BY <1>1, <1>2, <1>3, ReturnStep, AtWork
  <1>4. ASSUME NEW f \in match[call[p].row],
               excluded' = [excluded EXCEPT ![call[p].row] = @ \cup {f}],
               call' = [call EXCEPT ![p].at = "findAnchor"]
        PROVE  IInv'
    <2> DEFINE c == [call[p] EXCEPT !.at = "findAnchor"]
    <2>1. call' = [call EXCEPT ![p] = c]
      BY <1>4, AtWork DEF IInv, TablesOK
    <2>2. call[p].row \in Rows /\ call[p].who \in Members
      BY <1>1, AtWork DEF Placed, WithRow
    <2>3. excluded' \in [Rows -> SUBSET Photos]
      BY <1>4, <2>2 DEF IInv, TablesOK
    <2>4. c \in Handler /\ c.at = "findAnchor" /\ c.who \in Members
      BY <1>1, <2>2, AtWork DEF Handler, Points
    <2>5. Placed(c) /\ Honest(c)
      BY <2>4 DEF Placed, Honest, WithMember, WithRow, NoRowYet
    <2> HIDE DEF c
    <2> QED BY <1>1, <1>2, <2>1, <2>3, <2>4, <2>5, AtWork, LocalStep
  <1> QED BY <1>3, <1>4 DEF Exclude

LEMMA FindAnchorStep ==
  ASSUME IInv, NEW p \in Calls, FindAnchor(p), UNCHANGED calm
  PROVE  IInv'
  <1> DEFINE c == [call[p] EXCEPT !.at = "count", !.level = anchor[call[p].who].level]
  <1>1. call[p].at = "findAnchor" /\ ~At(p, "idle")
    BY DEF FindAnchor, At
  <1>2. UNCHANGED <<anchor, book, match, excluded, remote, job>>
    BY DEF FindAnchor
  <1>3. CASE Return(p)
    BY <1>1, <1>2, <1>3, ReturnStep, AtWork
  <1>4. CASE ~Return(p)
    <2>1. call' = [call EXCEPT ![p] = c]
      BY <1>4, AtWork DEF IInv, TablesOK, FindAnchor
    <2>2. call[p].who \in Members
      BY <1>1, AtWork DEF Placed, WithMember
    <2>3. anchor[call[p].who].level \in 0 .. MaxLevel
      BY <2>2 DEF IInv, TablesOK
    <2>4. /\ c \in Handler /\ c.at = "count" /\ c.who = call[p].who
          /\ c.level = anchor[call[p].who].level
      BY <1>1, <2>3, AtWork DEF Handler, Points
    <2>5. Placed(c) /\ Honest(c)
      BY <2>2, <2>4 DEF Placed, Honest, WithMember, WithRow, NoRowYet
    <2> HIDE DEF c
    <2> QED BY <1>1, <1>2, <2>1, <2>4, <2>5, AtWork, LocalStep
  <1> QED BY <1>3, <1>4

LEMMA CountExcludedStep ==
  ASSUME IInv, NEW p \in Calls, CountExcluded(p), UNCHANGED calm
  PROVE  IInv'
  <1> DEFINE target == TargetLevel(call[p].who)
             c == [call[p] EXCEPT !.at = "saveAnchor", !.level = target]
  <1>1. call[p].at = "count" /\ ~At(p, "idle")
    BY DEF CountExcluded, At
  <1>2. UNCHANGED <<anchor, book, match, excluded, remote, job>>
    BY DEF CountExcluded
  <1>3. CASE Return(p)
    BY <1>1, <1>2, <1>3, ReturnStep, AtWork
  <1>4. CASE ~Return(p)
    <2>1. call' = [call EXCEPT ![p] = c] /\ target > call[p].level
      BY <1>4, AtWork DEF IInv, TablesOK, CountExcluded
    <2>2. call[p].who \in Members /\ call[p].level \in 0 .. MaxLevel
      BY <1>1, AtWork DEF Placed, WithMember, Handler
    <2>3. target \in 0 .. MaxLevel
      BY <2>2, LevelType, LevelAssumption DEF IInv
    <2> HIDE DEF target
    <2>4. /\ c \in Handler /\ c.at = "saveAnchor" /\ c.who = call[p].who
          /\ c.level = target
      BY <1>1, <2>3, AtWork DEF Handler, Points
    <2>5. Placed(c)
      BY <2>2, <2>4 DEF Placed, WithMember, WithRow, NoRowYet
    <2>6. calm' => Honest(c)
      BY <1>1, <2>1, <2>2, <2>3, <2>4, AtWork DEF Honest
    <2> HIDE DEF c
    <2> QED BY <1>1, <1>2, <2>1, <2>4, <2>5, <2>6, AtWork, LocalStep
  <1> QED BY <1>3, <1>4

\* A save of an anchor by the only handler: what is left is a table of anchors.
LEMMA AnchorStep ==
  ASSUME IInv, NEW p \in Calls, ~At(p, "idle"), UNCHANGED calm, Return(p),
         NEW there \in BOOLEAN, NEW level \in 0 .. MaxLevel,
         \/ anchor' = [anchor EXCEPT ![call[p].who] = [there |-> there, level |-> level]]
         \/ UNCHANGED anchor,
         UNCHANGED <<book, match, excluded, remote, job>>
  PROVE  IInv'
  <1>1. /\ anchor' \in [Members -> [there : BOOLEAN, level : 0 .. MaxLevel]]
        /\ book' \in [Rows -> Book]
        /\ match' \in [Rows -> SUBSET Photos] /\ excluded' \in [Rows -> SUBSET Photos]
        /\ remote' \in [Uids -> {"none", "live", "gone"}]
        /\ job' \in [state : {"none", "waiting", "active", "done", "failed"},
                     again : BOOLEAN]
    BY DEF IInv, TablesOK
  <1>2. RowsFilled' /\ (calm' => OneBook')
    BY AtWork DEF IInv, RowsFilled, OneBook, There
  <1>3. Honest(Idle)'
    BY DEF Idle, Honest
  <1> QED BY <1>1, <1>2, <1>3, IdleType, AtWork, HandlerStep DEF Return

LEMMA SaveAnchorStep ==
  ASSUME IInv, NEW p \in Calls, SaveAnchor(p) \/ RegisterCommit(p), UNCHANGED calm
  PROVE  IInv'
  <1>1. ~At(p, "idle") /\ Return(p) /\ UNCHANGED <<book, match, excluded, remote, job>>
    BY DEF SaveAnchor, RegisterCommit, At
  <1>2. call[p].level \in 0 .. MaxLevel
    BY <1>1, AtWork DEF Handler
  <1>3. \/ anchor' = [anchor EXCEPT ![call[p].who] = [there |-> TRUE, level |-> call[p].level]]
        \/ UNCHANGED anchor
    BY DEF SaveAnchor, RegisterCommit
  <1> QED BY <1>1, <1>2, <1>3, AnchorStep

LEMMA DeleteAnchorStep ==
  ASSUME IInv, NEW p \in Calls, DeleteAnchor(p), UNCHANGED calm
  PROVE  IInv'
  <1>1. ~At(p, "idle") /\ Return(p) /\ UNCHANGED <<book, match, excluded, remote, job>>
    BY DEF DeleteAnchor, At
  <1>2. 0 \in 0 .. MaxLevel
    BY LevelAssumption
  <1>3. \/ anchor' = [anchor EXCEPT ![call[p].who] = [there |-> FALSE, level |-> 0]]
        \/ UNCHANGED anchor
    BY DEF DeleteAnchor
  <1> QED BY <1>1, <1>2, <1>3, AnchorStep

\* A registration and a deletion of an anchor begin.
LEMMA AnchorRequestStep ==
  ASSUME IInv, NEW p \in Calls, NEW m \in Members,
         RegisterStart(p, m) \/ DeleteAnchorStart(p, m), Begins(p)
  PROVE  IInv'
  <1>1. anchor[m].level \in 0 .. MaxLevel
    BY DEF IInv, TablesOK
  <1> DEFINE c == IF RegisterStart(p, m)
                  THEN [Idle EXCEPT !.at = "register", !.who = m, !.level = anchor[m].level]
                  ELSE [Idle EXCEPT !.at = "deleteAnchor", !.who = m]
  <1>2. /\ c \in Handler /\ c.who = m
        /\ \/ c.at = "register" /\ c.level = anchor[m].level
           \/ c.at = "deleteAnchor"
    BY <1>1, IdleType DEF Handler, Points
  <1>3. Placed(c) /\ Honest(c)
    BY <1>2 DEF Placed, Honest, WithMember, WithRow, NoRowYet
  <1>4. /\ calm' \in BOOLEAN /\ (calm' => calm) /\ (calm' => Quiet)
        /\ excluded' \in [Rows -> SUBSET Photos]
        /\ job' \in [state : {"none", "waiting", "active", "done", "failed"},
                     again : BOOLEAN]
    BY DEF Begins, IInv, TablesOK, RegisterStart, DeleteAnchorStart
  <1>5. call' = [call EXCEPT ![p] = c] /\ UNCHANGED <<anchor, book, match, remote>>
    BY DEF RegisterStart, DeleteAnchorStart
  <1> HIDE DEF c
  <1> QED BY <1>2, <1>3, <1>4, <1>5, LocalStep

-----------------------------------------------------------------------------
(* Books moved on and deleted, and the crash *)

LEMMA BookMovesStep ==
  ASSUME IInv, BookMoves, calm' = (calm /\ Quiet)
  PROVE  IInv'
  <1>1. PICK b \in Rows, t \in Statuses : /\ <<book[b].status, t>> \in Moves
                                          /\ book' = [book EXCEPT ![b].status = t]
    BY DEF BookMoves
  <1>2. t \notin {"none", "deleted"} /\ book[b].status \notin {"none", "deleted"}
    BY <1>1 DEF Moves
  <1>3. book' \in [Rows -> Book]
    BY <1>1 DEF IInv, TablesOK, Book
  <1>4. \A d \in Rows : /\ book'[d].owner = book[d].owner /\ book'[d].uid = book[d].uid
                        /\ There(d)' <=> There(d)
    BY <1>1, <1>2 DEF IInv, TablesOK, Book, There
  <1>5. TablesOK'
    BY <1>3 DEF IInv, TablesOK, BookMoves
  <1>6. RowsFilled' /\ (calm => OneBook')
    BY <1>4 DEF IInv, RowsFilled, CalmInv, OneBook
  <1>7. (\A p \in Calls : Placed(call[p]))'
    BY DEF IInv, BookMoves, Placed
  <1>8. CalmInv'
    <2>1. SUFFICES ASSUME calm' PROVE Alone' /\ \A p \in Calls : Honest(call[p])'
      BY <1>6 DEF CalmInv, OneBook
    <2>2. \A p \in Calls : call'[p].at = "idle"
      BY <2>1 DEF BookMoves, Quiet, At
    <2> QED BY <2>2, RestingHonest DEF Alone, At, Honest
  <1> QED BY <1>5, <1>6, <1>7, <1>8 DEF IInv

LEMMA DeleteBookStartStep ==
  ASSUME IInv, NEW p \in Calls, NEW b \in Rows, DeleteBookStart(p, b), Begins(p)
  PROVE  IInv'
  <1> DEFINE c == [Idle EXCEPT !.at = "deleteBook", !.row = b, !.uid = book[b].uid]
  <1>1. book[b].uid \in Uids \cup {NoUid}
    BY DEF IInv, TablesOK, Book
  <1>2. c \in Handler /\ c.at = "deleteBook" /\ c.row = b
    BY <1>1, IdleType DEF Handler, Points
  <1>3. Placed(c) /\ Honest(c)
    BY <1>2 DEF Placed, Honest, WithMember, WithRow, NoRowYet
  <1>4. /\ calm' \in BOOLEAN /\ (calm' => calm) /\ (calm' => Quiet)
        /\ excluded' \in [Rows -> SUBSET Photos]
        /\ job' \in [state : {"none", "waiting", "active", "done", "failed"},
                     again : BOOLEAN]
    BY DEF Begins, IInv, TablesOK, DeleteBookStart
  <1>5. call' = [call EXCEPT ![p] = c] /\ UNCHANGED <<anchor, book, match, remote>>
    BY DEF DeleteBookStart
  <1> HIDE DEF c
  <1> QED BY <1>2, <1>3, <1>4, <1>5, LocalStep

\* Sweetbook's book is gone, the row still there.
LEMMA DeleteRemoteStep ==
  ASSUME IInv, NEW p \in Calls, DeleteRemote(p), UNCHANGED calm
  PROVE  IInv'
  <1>1. call[p].at = "deleteBook" /\ ~At(p, "idle")
    BY DEF DeleteRemote, At
  <1>2. UNCHANGED <<anchor, book, match, excluded, job>>
    BY DEF DeleteRemote
  <1>3. [call[p] EXCEPT !.at = "removeBook"] \in Handler
    BY <1>1, AtWork DEF Handler, Points
  <1>4. PICK c \in Handler : c = [call[p] EXCEPT !.at = "removeBook"]
    BY <1>3
  <1>5. call' = [call EXCEPT ![p] = c] /\ c.at = "removeBook" /\ c.row = call[p].row
    BY <1>1, <1>4, AtWork DEF DeleteRemote, IInv, TablesOK, Handler
  <1>6. Placed(c) /\ Honest(c)'
    BY <1>1, <1>5, AtWork DEF Placed, Honest, WithMember, WithRow, NoRowYet
  <1>7. /\ anchor' \in [Members -> [there : BOOLEAN, level : 0 .. MaxLevel]]
        /\ book' \in [Rows -> Book]
        /\ match' \in [Rows -> SUBSET Photos] /\ excluded' \in [Rows -> SUBSET Photos]
        /\ remote' \in [Uids -> {"none", "live", "gone"}]
        /\ job' \in [state : {"none", "waiting", "active", "done", "failed"},
                     again : BOOLEAN]
    BY <1>2 DEF IInv, TablesOK, DeleteRemote
  <1>8. RowsFilled' /\ (calm' => OneBook')
    BY <1>1, <1>2, AtWork DEF IInv, RowsFilled, OneBook, There
  <1> QED BY <1>1, <1>5, <1>6, <1>7, <1>8, AtWork, HandlerStep

LEMMA RemoveBookStep ==
  ASSUME IInv, NEW p \in Calls, RemoveBook(p), UNCHANGED calm
  PROVE  IInv'
  <1>1. call[p].at = "removeBook" /\ ~At(p, "idle") /\ Return(p)
    BY DEF RemoveBook, At
  <1>2. UNCHANGED <<anchor, remote, job>>
    BY DEF RemoveBook
  <1>3. [NoBook EXCEPT !.status = "deleted"] \in Book
    BY DEF NoBook, Book, Statuses
  <1>4. /\ anchor' \in [Members -> [there : BOOLEAN, level : 0 .. MaxLevel]]
        /\ book' \in [Rows -> Book]
        /\ match' \in [Rows -> SUBSET Photos] /\ excluded' \in [Rows -> SUBSET Photos]
        /\ remote' \in [Uids -> {"none", "live", "gone"}]
        /\ job' \in [state : {"none", "waiting", "active", "done", "failed"},
                     again : BOOLEAN]
    BY <1>2, <1>3 DEF IInv, TablesOK, RemoveBook
  <1>5. \A d \in Rows : ~There(d)' \/ book'[d] = book[d]
    BY <1>3 DEF IInv, TablesOK, RemoveBook, There, NoBook
  <1>6. RowsFilled' /\ (calm' => OneBook')
    BY <1>1, <1>5, AtWork DEF IInv, RowsFilled, OneBook, There
  <1>7. Honest(Idle)'
    BY DEF Idle, Honest
  <1> QED BY <1>1, <1>4, <1>6, <1>7, IdleType, AtWork, HandlerStep DEF Return

\* After a crash every handler is gone, and the job waits or has failed.
LEMMA CrashStep ==
  ASSUME IInv, Crash
  PROVE  IInv'
  <1>1. \A p \in Calls : call'[p] = Idle
    BY DEF Crash
  <1>2. TablesOK'
    BY IdleType DEF IInv, TablesOK, Crash
  <1>3. RowsFilled' /\ (calm => OneBook')
    BY DEF IInv, RowsFilled, CalmInv, OneBook, There, Crash
  <1>4. (\A p \in Calls : Placed(call[p]))'
    BY <1>1, IdleType DEF Placed
  <1>5. CalmInv'
    BY <1>1, <1>3, IdleType DEF CalmInv, Alone, At, Honest, OneBook, Crash
  <1> QED BY <1>2, <1>3, <1>4, <1>5 DEF IInv

-----------------------------------------------------------------------------
(* The theorems *)

LEMMA InitIInv == Init => IInv
  <1> SUFFICES ASSUME Init PROVE IInv
    OBVIOUS
  <1>1. NoBook \in Book /\ NoBook.status = "none"
    BY DEF NoBook, Book, Statuses
  <1>2. TablesOK
    <2>1. /\ anchor \in [Members -> [there : BOOLEAN, level : 0 .. MaxLevel]]
          /\ remote \in [Uids -> {"none", "live", "gone"}]
          /\ job \in [state : {"none", "waiting", "active", "done", "failed"},
                     again : BOOLEAN]
      BY LevelAssumption DEF Init
    <2>2. book \in [Rows -> Book] /\ match \in [Rows -> SUBSET Photos]
      BY <1>1 DEF Init
    <2>3. excluded \in [Rows -> SUBSET Photos]
      BY DEF Init
    <2>4. call \in [Calls -> Handler] /\ calm \in BOOLEAN
      BY IdleType DEF Init
    <2> QED BY <2>1, <2>2, <2>3, <2>4 DEF TablesOK
  <1>3. \A b \in Rows : ~There(b)
    BY <1>1 DEF Init, There
  <1>4. \A p \in Calls : call[p] = Idle /\ call[p].at = "idle"
    BY IdleType DEF Init
  <1>5. RowsFilled /\ OneBook
    BY <1>3 DEF RowsFilled, OneBook
  <1>6. CalmInv
    BY <1>4, <1>5 DEF CalmInv, Alone, At, Honest
  <1> QED BY <1>2, <1>4, <1>5, <1>6, IdleType DEF IInv

LEMMA RequestStep ==
  ASSUME IInv, NEW p \in Calls, Request(p) \/ StartJob(p), calm' = (calm /\ Quiet)
  PROVE  IInv'
  <1>1. Begins(p)
    BY DEF Begins, Request, StartJob, GenerateMine, RegisterStart, DeleteAnchorStart,
           ExcludeStart, DeleteBookStart
  <1>2. CASE StartJob(p)
    BY <1>1, <1>2, StartJobStep
  <1>3. ASSUME NEW m \in Members,
               GenerateMine(p, m) \/ RegisterStart(p, m) \/ DeleteAnchorStart(p, m)
        PROVE  IInv'
    BY <1>1, <1>3, GenerateMineStep, AnchorRequestStep
  <1>4. ASSUME NEW b \in Rows, ExcludeStart(p, b) \/ DeleteBookStart(p, b)
        PROVE  IInv'
    BY <1>1, <1>4, ExcludeStartStep, DeleteBookStartStep
  <1> QED BY <1>2, <1>3, <1>4 DEF Request

LEMMA ContinueStep ==
  ASSUME IInv, NEW p \in Calls, Continue(p), UNCHANGED calm
  PROVE  IInv'
  <1>1. CASE NextMember(p) \/ EndJob(p)
    BY <1>1, NextMemberStep, EndJobStep
  <1>2. CASE ReadFaces(p) \/ FindBook(p) \/ Post(p)
    BY <1>2, ReadFacesStep, FindBookStep, PostStep
  <1>3. CASE TxFind(p) \/ Commit(p)
    BY <1>3, TxFindStep, CommitStep
  <1>4. CASE Exclude(p) \/ FindAnchor(p) \/ CountExcluded(p)
    BY <1>4, ExcludeStep, FindAnchorStep, CountExcludedStep
  <1>5. CASE SaveAnchor(p) \/ RegisterCommit(p) \/ DeleteAnchor(p)
    BY <1>5, SaveAnchorStep, DeleteAnchorStep
  <1>6. CASE DeleteRemote(p) \/ RemoveBook(p)
    BY <1>6, DeleteRemoteStep, RemoveBookStep
  <1> QED BY <1>1, <1>2, <1>3, <1>4, <1>5, <1>6 DEF Continue

LEMMA StepIInv == IInv /\ [Next]_vars => IInv'
  <1> SUFFICES ASSUME IInv, [Next]_vars PROVE IInv'
    OBVIOUS
  <1>1. CASE UNCHANGED vars
    BY <1>1 DEF vars, IInv, TablesOK, RowsFilled, There, Placed, CalmInv, Alone, At,
                OneBook, Honest, Fresh, RowsOf
  <1>2. CASE Crash \/ QueueJob
    BY <1>2, CrashStep, QueueJobStep
  <1>3. CASE BookMoves /\ calm' = (calm /\ Quiet)
    BY <1>3, BookMovesStep
  <1>4. ASSUME NEW p \in Calls, Request(p) \/ StartJob(p), calm' = (calm /\ Quiet)
        PROVE  IInv'
    BY <1>4, RequestStep
  <1>5. ASSUME NEW p \in Calls, Continue(p), UNCHANGED calm
        PROVE  IInv'
    BY <1>5, ContinueStep
  <1> QED BY <1>1, <1>2, <1>3, <1>4, <1>5 DEF Next

\* The invariant holds in every reachable state.
THEOREM Invariance == Spec => []IInv
  BY InitIInv, StepIInv, PTL DEF Spec

(***************************************************************************)
(* Generations that do not overlap.  Deletions, exclusions, finalizations  *)
(* and the crash may: none of them gives a member a book.  A generation    *)
(* does, at its commit, and by then it claims that the member has no book  *)
(* but the one it is about to write; the claim is not disturbed, because   *)
(* the only step that could disturb it is the commit of another generation *)
(* for the same member.                                                    *)
(***************************************************************************)
Claim(c) == c.at = "commit" =>
              RowsOf(c.who) \subseteq (IF c.row = NoRow THEN {} ELSE {c.row})

ApartInv == /\ apart \in BOOLEAN
            /\ apart => Apart /\ OneBook /\ \A p \in Calls : Claim(call[p])

\* What a step does to a handler: it arrives at the commit by TxFind alone.
Reaches(p) ==
  /\ \A q \in Calls \ {p} : call'[q] = call[q]
  /\ call'[p].at = "commit" => TxFind(p)

LEMMA FinishReaches ==
  ASSUME IInv, NEW p \in Calls, Finish(p) \/ Return(p)
  PROVE  Reaches(p) /\ call'[p].at # "commit"
  <1>1. CASE Finish(p)
    <2>1. PICK c \in Handler : /\ call' = [call EXCEPT ![p] = c]
                               /\ c.at \in {"idle", "nextMember"} /\ Placed(c)
      BY <1>1, FinishShape DEF IInv
    <2> QED BY <2>1 DEF IInv, TablesOK, Reaches
  <1>2. CASE Return(p)
    BY <1>2, IdleType DEF Return, IInv, TablesOK, Reaches
  <1> QED BY <1>1, <1>2

LEMMA Arrives ==
  ASSUME IInv, NEW p \in Calls, NEW c, c.at # "commit", call' = [call EXCEPT ![p] = c]
  PROVE  Reaches(p)
  BY DEF IInv, TablesOK, Reaches

LEMMA FindOwnAnchorReaches ==
  ASSUME IInv, NEW p \in Calls, NEW m \in Members, NEW c \in Handler,
         c.at # "commit", FindOwnAnchor(p, m, c)
  PROVE  Reaches(p)
  <1> DEFINE d == [c EXCEPT !.at = "faces", !.who = m, !.level = anchor[m].level]
  <1>1. d.at = "faces" /\ Idle.at = "idle"
    BY IdleType DEF Handler
  <1> HIDE DEF d
  <1>2. \E e \in {d, c, Idle} : call' = [call EXCEPT ![p] = e]
    BY DEF FindOwnAnchor, d
  <1> QED BY <1>1, <1>2, Arrives

LEMMA BeginReaches ==
  ASSUME IInv, NEW p \in Calls, Request(p) \/ StartJob(p)
  PROVE  Reaches(p)
  <1>1. ASSUME NEW m \in Members, GenerateMine(p, m) PROVE Reaches(p)
    BY <1>1, IdleType, FindOwnAnchorReaches DEF GenerateMine
  <1>2. Idle \in Handler /\ \A q \in Calls : call[q] \in Handler
    BY IdleType DEF IInv, TablesOK
  <1>3. CASE StartJob(p)
    BY <1>2, <1>3 DEF StartJob, IInv, TablesOK, Reaches, Handler
  <1>4. ASSUME NEW m \in Members, RegisterStart(p, m) \/ DeleteAnchorStart(p, m)
        PROVE  Reaches(p)
    <2> DEFINE c == [Idle EXCEPT !.at = "register", !.who = m, !.level = anchor[m].level]
               d == [Idle EXCEPT !.at = "deleteAnchor", !.who = m]
    <2>1. c.at = "register" /\ d.at = "deleteAnchor"
      BY <1>2 DEF Handler
    <2>2. \E e \in {c, d} : call' = [call EXCEPT ![p] = e]
      BY <1>4 DEF RegisterStart, DeleteAnchorStart
    <2> HIDE DEF c, d
    <2> QED BY <2>1, <2>2, Arrives
  <1>5. ASSUME NEW b \in Rows, ExcludeStart(p, b) \/ DeleteBookStart(p, b)
        PROVE  Reaches(p)
    <2> DEFINE c == [Idle EXCEPT !.at = "exclude", !.row = b, !.who = book[b].owner]
               d == [Idle EXCEPT !.at = "deleteBook", !.row = b, !.uid = book[b].uid]
    <2>1. c.at = "exclude" /\ d.at = "deleteBook"
      BY <1>2 DEF Handler
    <2>2. \E e \in {c, d} : call' = [call EXCEPT ![p] = e]
      BY <1>5 DEF ExcludeStart, DeleteBookStart
    <2> HIDE DEF c, d
    <2> QED BY <2>1, <2>2, Arrives
  <1> QED BY <1>1, <1>3, <1>4, <1>5 DEF Request

LEMMA ContinueReaches ==
  ASSUME IInv, NEW p \in Calls, Continue(p)
  PROVE  Reaches(p)
  <1>1. call \in [Calls -> Handler]
    BY DEF IInv, TablesOK
  <1>2. CASE Finish(p) \/ Return(p)
    BY <1>2, FinishReaches
  <1>3. CASE NextMember(p)
    <2>1. PICK m \in call[p].todo : FindOwnAnchor(p, m, [call[p] EXCEPT !.todo = @ \ {m}])
      BY <1>3 DEF NextMember
    <2>2. /\ [call[p] EXCEPT !.todo = @ \ {m}] \in Handler /\ m \in Members
          /\ [call[p] EXCEPT !.todo = @ \ {m}].at # "commit"
      BY <1>1, <1>3 DEF NextMember, At, Handler
    <2> QED BY <2>1, <2>2, FindOwnAnchorReaches
  <1>4. CASE TxFind(p)
    BY <1>1, <1>2, <1>4 DEF TxFind, Reaches
  <1>5. CASE ReadFaces(p) \/ FindBook(p) \/ Post(p)
    BY <1>1, <1>2, <1>5 DEF ReadFaces, FindBook, Post, Reaches, Handler
  <1>6. CASE Exclude(p) \/ FindAnchor(p) \/ CountExcluded(p) \/ DeleteRemote(p)
    BY <1>1, <1>2, <1>6
       DEF Exclude, FindAnchor, CountExcluded, DeleteRemote, Reaches, Handler
  <1> QED
    BY <1>2, <1>3, <1>4, <1>5, <1>6
       DEF Continue, EndJob, Commit, SaveAnchor, RegisterCommit, DeleteAnchor, RemoveBook

\* A handler that has found what the member has claims it.
LEMMA TxFindClaims ==
  ASSUME IInv, NEW p \in Calls, TxFind(p), OneBook, call'[p].at = "commit"
  PROVE  Claim(call'[p]) /\ UNCHANGED book
  <1>1. call[p] \in Handler /\ call[p].row = NoRow
    BY DEF TxFind, At, IInv, TablesOK, Placed, NoRowYet
  <1>2. ~Finish(p)
    BY FinishReaches
  <1>3. CASE RowsOf(call[p].who) = {} /\ call' = [call EXCEPT ![p].at = "commit"]
    <2>1. call'[p].who = call[p].who
      BY <1>1, <1>3 DEF IInv, TablesOK, Handler
    <2> QED BY <1>3, <2>1 DEF Claim, TxFind
  <1>4. ASSUME NEW b \in RowsOf(call[p].who),
               call' = [call EXCEPT ![p].at = "commit", ![p].row = b, ![p].uid = book[b].uid]
        PROVE  Claim(call'[p]) /\ UNCHANGED book
    <2>1. call'[p].who = call[p].who /\ call'[p].row = b
      BY <1>1, <1>4 DEF IInv, TablesOK, Handler
    <2>2. b # NoRow
      BY DEF RowsOf, Rows, NoRow
    <2>3. RowsOf(call[p].who) \subseteq {b}
      BY DEF OneBook, RowsOf
    <2> QED BY <2>1, <2>2, <2>3 DEF Claim, TxFind
  <1> QED BY <1>2, <1>3, <1>4 DEF TxFind

\* Books only go, or stay with their members.
FewerBooks == \A b \in Rows : There(b)' => There(b) /\ book'[b].owner = book[b].owner

LEMMA FewerClaims ==
  ASSUME FewerBooks
  PROVE  /\ OneBook => OneBook'
         /\ \A m : RowsOf(m)' \subseteq RowsOf(m)
  BY DEF FewerBooks, OneBook, RowsOf

\* Of the steps of a handler, the commit alone gives a member a book.
LEMMA BooksStep ==
  ASSUME IInv, NEW p \in Calls, Request(p) \/ StartJob(p) \/ Continue(p), ~Commit(p)
  PROVE  FewerBooks
  <1>1. CASE RemoveBook(p)
    BY <1>1 DEF RemoveBook, NoBook, IInv, TablesOK, FewerBooks, There
  <1>2. CASE ~RemoveBook(p)
    <2>1. UNCHANGED book
      BY <1>2 DEF Request, StartJob, Continue, GenerateMine, RegisterStart,
           DeleteAnchorStart, ExcludeStart, DeleteBookStart, NextMember, EndJob,
           ReadFaces, FindBook, Post, TxFind, Exclude, FindAnchor, CountExcluded,
           SaveAnchor, RegisterCommit, DeleteAnchor, DeleteRemote
    <2> QED BY <2>1 DEF FewerBooks, There
  <1> QED BY <1>1, <1>2

\* The commit of the only generation for its member: its row is the only one, and
\* the other generations are for others.
LEMMA CommitClaims ==
  ASSUME IInv, NEW p \in Calls, Commit(p), Apart, OneBook, \A q \in Calls : Claim(call[q])
  PROVE  OneBook' /\ \A q \in Calls : Claim(call[q])'
  <1>1. /\ call[p].at = "commit" /\ \A q \in Calls \ {p} : call'[q] = call[q]
        /\ call'[p].at # "commit"
    BY FinishReaches DEF Commit, At, Reaches
  <1>2. ASSUME NEW q \in Calls \ {p}, call[q].at = "commit" PROVE call[q].who # call[p].who
    BY <1>1, <1>2 DEF Apart, Generating
  <1>3. CASE UNCHANGED book
    BY <1>1, <1>3 DEF OneBook, There, Claim, RowsOf
  <1>4. ASSUME NEW b \in RowsFor(p),
               book' = [book EXCEPT ![b] = [status |-> "READY_TO_REVIEW",
                                            owner |-> call[p].who, uid |-> call[p].uid]]
        PROVE  OneBook' /\ \A q \in Calls : Claim(call[q])'
    <2>1. RowsOf(call[p].who) \subseteq {b}
      BY <1>1 DEF Claim, RowsFor
    <2>2. \A d \in Rows : \/ d # b /\ book'[d] = book[d]
                          \/ d = b /\ book'[d].owner = call[p].who
      BY <1>4 DEF IInv, TablesOK
    <2>3. OneBook'
      BY <2>1, <2>2 DEF OneBook, There, RowsOf
    <2>4. ASSUME NEW q \in Calls, call'[q].at = "commit" PROVE Claim(call[q])'
      <3>1. q # p /\ call'[q] = call[q] /\ call[q].who # call[p].who
        BY <1>1, <1>2, <2>4
      <3>2. RowsOf(call[q].who)' \subseteq RowsOf(call[q].who)
        BY <2>2, <3>1 DEF RowsOf, There
      <3> QED BY <2>4, <3>1, <3>2 DEF Claim
    <2> QED BY <2>3, <2>4 DEF Claim
  <1> QED BY <1>3, <1>4 DEF Commit

LEMMA StepApartInv == IInv /\ ApartInv /\ [Next]_vars => ApartInv'
  <1> SUFFICES ASSUME IInv, ApartInv, [Next]_vars PROVE ApartInv'
    OBVIOUS
  <1>1. CASE UNCHANGED vars
    BY <1>1 DEF vars, ApartInv, Apart, Generating, OneBook, There, Claim, RowsOf
  <1>2. CASE Crash
    <2>1. /\ \A p \in Calls : call'[p].at = "idle"
          /\ UNCHANGED <<book, apart>>
      BY <1>2, IdleType DEF Crash
    <2> QED BY <2>1 DEF ApartInv, Apart, Generating, OneBook, There, Claim
  <1>3. CASE QueueJob
    BY <1>3 DEF QueueJob, ApartInv, Apart, Generating, OneBook, There, Claim, RowsOf
  <1>4. CASE BookMoves
    <2>1. UNCHANGED <<call, apart>>
      BY <1>4 DEF BookMoves
    <2>2. PICK b \in Rows, t \in Statuses : /\ <<book[b].status, t>> \in Moves
                                            /\ book' = [book EXCEPT ![b].status = t]
      BY <1>4 DEF BookMoves
    <2>3. book[b].status \notin {"none", "deleted"}
      BY <2>2 DEF Moves
    <2>4. FewerBooks
      BY <2>2, <2>3 DEF IInv, TablesOK, Book, FewerBooks, There
    <2> QED BY <2>1, <2>4, FewerClaims DEF ApartInv, Apart, Generating, Claim
  <1>5. ASSUME NEW p \in Calls, Request(p) \/ StartJob(p) \/ Continue(p),
               apart' = (apart /\ Apart')
        PROVE  ApartInv'
    <2>1. apart' \in BOOLEAN
      BY <1>5
    <2>2. SUFFICES ASSUME apart' PROVE OneBook' /\ \A q \in Calls : Claim(call[q])'
      BY <1>5, <2>1 DEF ApartInv
    <2>3. Apart /\ OneBook /\ \A q \in Calls : Claim(call[q])
      BY <1>5, <2>2 DEF ApartInv
    <2>4. CASE Commit(p)
      BY <2>3, <2>4, CommitClaims
    <2>5. CASE ~Commit(p)
      <3>1. FewerBooks /\ Reaches(p)
        BY <1>5, <2>5, BooksStep, BeginReaches, ContinueReaches
      <3>2. \A m : RowsOf(m)' \subseteq RowsOf(m)
        BY <3>1, FewerClaims
      <3>3. OneBook'
        BY <2>3, <3>1, FewerClaims
      <3>4. ASSUME NEW q \in Calls, call'[q].at = "commit" PROVE Claim(call[q])'
        <4>1. CASE call'[q] = call[q]
          BY <2>3, <3>2, <4>1 DEF Claim
        <4>2. CASE q = p /\ TxFind(p)
          <5>1. Claim(call'[p])
            BY <2>3, <3>4, <4>2, TxFindClaims
          <5> QED BY <3>2, <4>2, <5>1 DEF Claim
        <4> QED BY <3>1, <3>4, <4>1, <4>2 DEF Reaches
      <3> QED BY <3>3, <3>4 DEF Claim
    <2> QED BY <2>4, <2>5
  <1> QED BY <1>1, <1>2, <1>3, <1>4, <1>5 DEF Next

LEMMA ApartInvariance == Spec => []ApartInv
  <1>1. Init => ApartInv
    <2>1. Init => \A p \in Calls : call[p].at = "idle"
      BY IdleType DEF Init
    <2>2. Init => \A b \in Rows : ~There(b)
      BY DEF Init, There, NoBook
    <2> QED BY <2>1, <2>2 DEF Init, ApartInv, Apart, Generating, OneBook, Claim
  <1>2. IInv /\ ApartInv /\ [Next]_vars => ApartInv'
    BY StepApartInv
  <1> QED BY <1>1, <1>2, Invariance, PTL DEF Spec

\* Every variable keeps its type: the number of excluded matches, a count of the
\* database, always gives a level there is.
THEOREM AlwaysTyped == Spec => []TypeOK
  <1>1. IInv /\ ApartInv => TypeOK
    BY DEF IInv, ApartInv, TypeOK
  <1> QED BY <1>1, Invariance, ApartInvariance, PTL

\* A book in review is generated over and not doubled, whatever else goes on while
\* it is generated, unless that is another generation for the same member.
THEOREM AlwaysOneInReview == Spec => []OneBookInReview
  <1>1. ApartInv => OneBookInReview
    BY DEF ApartInv, OneBookInReview, OneBook, InReview, There
  <1> QED BY <1>1, ApartInvariance, PTL

(***************************************************************************)
(* A book comes into being, or back to the review, by a commit alone, and  *)
(* while it is calm that is a new row: its member had no book, and its     *)
(* book at Sweetbook was made just before, by the same handler.            *)
(***************************************************************************)
Appears(b) ==
  \/ ~There(b) /\ There(b)'
  \/ book[b].status # "READY_TO_REVIEW" /\ book'[b].status = "READY_TO_REVIEW"

LEMMA NewByCommit ==
  ASSUME IInv, [Next]_vars, calm', NEW b \in Rows, Appears(b)
  PROVE  book[b].status = "none" /\ remote[book'[b].uid] = "live"
  <1>1. ~UNCHANGED book
    BY DEF Appears, There
  <1>2. ~BookMoves
    <2>1. SUFFICES ASSUME BookMoves PROVE FALSE
      OBVIOUS
    <2>2. PICK d \in Rows, t \in Statuses : /\ <<book[d].status, t>> \in Moves
                                            /\ book' = [book EXCEPT ![d].status = t]
      BY <2>1 DEF BookMoves
    <2>3. t # "READY_TO_REVIEW" /\ book[d].status \notin {"none", "deleted"}
      BY <2>2 DEF Moves
    <2> QED BY <2>2, <2>3 DEF IInv, TablesOK, Book, Appears, There
  <1>3. \A p \in Calls : ~RemoveBook(p)
    BY <1>1 DEF IInv, TablesOK, RemoveBook, NoBook, Appears, There
  <1>4. PICK p \in Calls : Commit(p) /\ UNCHANGED calm
    BY <1>1, <1>2, <1>3
       DEF vars, Next, Crash, QueueJob, Request, StartJob, Continue, GenerateMine,
           RegisterStart, DeleteAnchorStart, ExcludeStart, DeleteBookStart, NextMember,
           EndJob, ReadFaces, FindBook, Post, TxFind, Exclude, FindAnchor, CountExcluded,
           SaveAnchor, RegisterCommit, DeleteAnchor, DeleteRemote
  <1>5. call[p].at = "commit" /\ Honest(call[p])
    BY <1>4, AtWork DEF Commit, At
  <1>6. PICK d \in RowsFor(p) :
          book' = [book EXCEPT ![d] = [status |-> "READY_TO_REVIEW",
                                       owner |-> call[p].who, uid |-> call[p].uid]]
    BY <1>1, <1>4 DEF Commit
  <1>7. d = b /\ book'[b].uid = call[p].uid
    BY <1>6 DEF IInv, TablesOK, Appears, There
  <1>8. call[p].row = NoRow
    <2>1. SUFFICES ASSUME call[p].row # NoRow PROVE FALSE
      OBVIOUS
    <2>2. b = call[p].row /\ book[b].status = "READY_TO_REVIEW"
      BY <1>5, <1>6, <1>7, <2>1 DEF Honest, RowsFor
    <2> QED BY <2>2 DEF Appears, There
  <1>9. book[b].status = "none"
    BY <1>4, <1>5, <1>6, <1>7, <1>8, RowsForMember
  <1>10. remote[call[p].uid] = "live"
    BY <1>5, <1>8 DEF Honest, Fresh
  <1> QED BY <1>7, <1>9, <1>10

\* The book a new row refers to is one Sweetbook has.
THEOREM NewBookAlwaysLive == Spec => NewBookIsLive
  <1>1. IInv /\ [Next]_vars =>
          [\A b \in Rows : calm' /\ ~There(b) /\ There(b)'
             => remote[book'[b].uid] = "live"]_vars
    BY NewByCommit DEF Appears
  <1> QED BY <1>1, Invariance, PTL DEF Spec, NewBookIsLive

\* A book whose finalization has begun is not generated again.
THEOREM FinalizedAlwaysKept == Spec => FinalizedIsKept
  <1>1. IInv /\ [Next]_vars =>
          [\A b \in Rows : calm' /\ book[b].status \notin {"none", "deleted", "READY_TO_REVIEW"}
             => book'[b].status # "READY_TO_REVIEW"]_vars
    BY NewByCommit DEF Appears
  <1> QED BY <1>1, Invariance, PTL DEF Spec, FinalizedIsKept

\* Only three steps write an anchor, and while it is calm the level they write is
\* the one the anchor has, or a higher one.
LEMMA LevelStep ==
  ASSUME IInv, [Next]_vars, NEW m \in Members, calm', anchor[m].there, anchor'[m].there
  PROVE  anchor'[m].level >= anchor[m].level
  <1>1. anchor[m].level \in Nat
    BY LevelAssumption DEF IInv, TablesOK
  <1>2. CASE UNCHANGED anchor
    BY <1>1, <1>2
  <1>3. CASE ~UNCHANGED anchor
    <2>1. PICK p \in Calls : /\ SaveAnchor(p) \/ RegisterCommit(p) \/ DeleteAnchor(p)
                             /\ UNCHANGED calm
      BY <1>3
         DEF vars, Next, Crash, QueueJob, Request, StartJob, Continue, GenerateMine,
             RegisterStart, DeleteAnchorStart, ExcludeStart, DeleteBookStart,
             NextMember, EndJob, ReadFaces, FindBook, Post, TxFind, Commit, Exclude,
             FindAnchor, CountExcluded, DeleteRemote, RemoveBook, BookMoves
    <2>2. ~At(p, "idle")
      BY <2>1 DEF SaveAnchor, RegisterCommit, DeleteAnchor, At
    <2>3. Honest(call[p]) /\ Placed(call[p]) /\ call[p].level \in Nat
      <3>1. Honest(call[p]) /\ Placed(call[p]) /\ call[p] \in Handler
        BY <2>1, <2>2, AtWork
      <3> QED BY <3>1, LevelAssumption DEF Handler
    <2>4. CASE DeleteAnchor(p)
      BY <1>3, <1>1, <2>4 DEF DeleteAnchor, IInv, TablesOK
    <2>5. CASE SaveAnchor(p) \/ RegisterCommit(p)
      <3>1. call[p].at \in {"saveAnchor", "register"} /\ call[p].who \in Members
        BY <2>3, <2>5 DEF SaveAnchor, RegisterCommit, At, Placed, WithMember
      <3>2. call[p].level >= anchor[call[p].who].level
        BY <2>3, <3>1 DEF Honest, IInv, TablesOK
      <3>3. anchor' = [anchor EXCEPT ![call[p].who] = [there |-> TRUE, level |-> call[p].level]]
        BY <1>3, <2>5 DEF SaveAnchor, RegisterCommit
      <3> QED BY <1>1, <3>1, <3>2, <3>3 DEF IInv, TablesOK
    <2> QED BY <2>1, <2>4, <2>5
  <1> QED BY <1>2, <1>3

\* The threshold a member's exclusions have raised is not lowered.
THEOREM ThresholdAlwaysRises == Spec => ThresholdRises
  <1>1. IInv /\ [Next]_vars =>
          [\A m \in Members : calm' /\ anchor[m].there /\ anchor'[m].there
             => anchor'[m].level >= anchor[m].level]_vars
    BY LevelStep
  <1> QED BY <1>1, Invariance, PTL DEF Spec, ThresholdRises
=============================================================================
