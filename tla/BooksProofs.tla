----------------------------- MODULE BooksProofs -----------------------------
(***************************************************************************)
(* Proofs about Books, for every set of pages, Sweetbook books and         *)
(* handlers.  The cover is a lock: adding it succeeds for one handler, and *)
(* only that handler sends pages to that Sweetbook book afterwards.        *)
(***************************************************************************)
EXTENDS Books, FiniteSetTheorems, TLAPS

\* A book, in the table or in a handler's hands, that claims to be READY.
Honest(b) == b.status = "READY" => b.uid \in Uids /\ remote[b.uid].final

\* Points at which a handler finalizes a Sweetbook book, whose uid it has.
UidPoints == {"finalizeRead", "uploading", "upload", "processing", "cover",
              "contents", "ready"}

\* Points at which a handler may be about to change the uid of its copy.
FreshPoints == {"createPost", "createSave", "retryDelete", "retryPost", "retrySave"}

Good(h) ==
  /\ Honest(h.book)
  /\ h.at \in UidPoints => h.book.uid \in Uids
  /\ h.at \in FreshPoints => h.book.status # "READY"
  /\ h.at = "ready" => remote[h.book.uid].final
  /\ h.at = "contents" =>
       /\ remote[h.book.uid].cover
       /\ \A g \in h.todo : remote[h.book.uid].asked[g] = 0

RemoteSound ==
  \A u \in Uids :
    /\ remote[u].cover \/ remote[u].final => remote[u].made
    /\ \A g \in Pages : remote[u].asked[g] > 0 => remote[u].cover

OnePrinter ==
  \A p, q \in Calls :
    p # q /\ At(p, "contents") /\ At(q, "contents") => uidOf(p) # uidOf(q)

IInv ==
  /\ TypeOK
  /\ RemoteSound
  /\ PrintedOnce
  /\ Honest(row)
  /\ \A p \in Calls : Good(call[p])
  /\ OnePrinter

-----------------------------------------------------------------------------
(* Types *)

\* An idle handler, and a book that was never created, have their types.
LEMMA IdleTyped == Idle \in Handler /\ NoBook \in Book /\ NotMade \in Remote
BY UidAssumption DEF Idle, Handler, NoBook, Book, Statuses, Points, NotMade, Remote

\* A handler's record stays one when it moves on.
LEMMA MoveTyped ==
  ASSUME NEW h \in Handler, NEW at \in Points
  PROVE  LET new == [h EXCEPT !.at = at]
         IN  /\ new \in Handler /\ new.at = at
             /\ new.book = h.book /\ new.pages = h.pages
             /\ new.todo = h.todo /\ new.blanks = h.blanks
BY DEF Handler

\* A new status makes of a book a book with the same uid.
LEMMA StatusTyped ==
  ASSUME NEW b \in Book, NEW s \in Statuses
  PROVE  LET new == [b EXCEPT !.status = s]
         IN  new \in Book /\ new.status = s /\ new.uid = b.uid
BY DEF Book

\* A new uid makes of a book a book with the same status.
LEMMA UidTyped ==
  ASSUME NEW b \in Book, NEW u \in Uids
  PROVE  LET new == [b EXCEPT !.uid = u]
         IN  new \in Book /\ new.status = b.status /\ new.uid = u
BY DEF Book

\* Moved(p): handler p takes a step, the others stand still.
Moved(p) ==
  /\ call' \in [Calls -> Handler]
  /\ \A q \in Calls \ {p} : call'[q] = call[q]

\* Where Goto leaves a handler.
LEMMA GotoMoves ==
  ASSUME TypeOK, NEW p \in Calls, NEW at \in Points, Goto(p, at)
  PROVE  /\ Moved(p)
         /\ call'[p].at = at /\ call'[p].book = call[p].book
         /\ call'[p].pages = call[p].pages /\ call'[p].todo = call[p].todo
         /\ call'[p].blanks = call[p].blanks
<1>1. call[p] \in Handler
  BY DEF TypeOK
<1>2. call' = [call EXCEPT ![p] = [call[p] EXCEPT !.at = at]]
  BY DEF Goto
<1> QED
  BY <1>1, <1>2, MoveTyped DEF TypeOK, Moved

\* A handler that returns is idle.
LEMMA ReturnMoves ==
  ASSUME TypeOK, NEW p \in Calls, Return(p)
  PROVE  Moved(p) /\ call'[p] = Idle
BY IdleTyped DEF TypeOK, Moved, Return

\* A request begins with a copy of the row.
LEMMA BeginMoves ==
  ASSUME TypeOK, NEW p \in Calls, NEW at \in Points, Begin(p, at)
  PROVE  /\ Moved(p)
         /\ call'[p].at = at /\ call'[p].book = row
<1>1. [Idle EXCEPT !.at = at, !.book = row] \in Handler
  BY IdleTyped DEF TypeOK, Handler
<1>2. /\ [Idle EXCEPT !.at = at, !.book = row].at = at
      /\ [Idle EXCEPT !.at = at, !.book = row].book = row
  BY DEF Idle
<1> QED
  BY <1>1, <1>2 DEF TypeOK, Moved, Begin

-----------------------------------------------------------------------------
(* What Sweetbook's answers keep *)

\* The types of everything but the handlers and Sweetbook's books.
DataTyped ==
  /\ row \in Book
  /\ pages \subseteq Pages
  /\ group \in {"none", "open", "confirmed"}
  /\ billed \in BOOLEAN
  /\ calm \in BOOLEAN

\* The step leaves Sweetbook's books sound, and every promise about them that
\* any handler or copy could hold stays true.
RemoteKept ==
  /\ remote' \in [Uids -> Remote]
  /\ RemoteSound'
  /\ PrintedOnce'
  /\ \A h \in Handler : Good(h) => Good(h)'
  /\ \A b \in Book : Honest(b) => Honest(b)'

\* Nothing is lost when nothing happens at Sweetbook.
LEMMA QuietKept ==
  ASSUME IInv, remote' = remote
  PROVE  RemoteKept
BY DEF IInv, TypeOK, RemoteKept, RemoteSound, PrintedOnce, Good, Honest

\* A new Sweetbook book is none that anybody has worked with.
LEMMA MakeKept ==
  ASSUME IInv, NEW u \in Uids, ~remote[u].made, MakeRemote(u)
  PROVE  RemoteKept
<1>1. /\ remote' \in [Uids -> Remote]
      /\ \A v \in Uids \ {u} : remote'[v] = remote[v]
      /\ ~remote'[u].cover /\ ~remote'[u].final
      /\ \A g \in Pages : remote'[u].asked[g] = 0
  <2>1. LET new == [NotMade EXCEPT !.made = TRUE]
        IN  /\ new \in Remote /\ ~new.cover /\ ~new.final
            /\ \A g \in Pages : new.asked[g] = 0
    BY DEF NotMade, Remote
  <2> QED
    BY <2>1 DEF IInv, TypeOK, MakeRemote
<1>2. ~remote[u].cover /\ ~remote[u].final
  BY DEF IInv, RemoteSound
<1>3. RemoteSound' /\ PrintedOnce'
  BY <1>1 DEF IInv, RemoteSound, PrintedOnce
<1>4. \A b \in Book : Honest(b) => Honest(b)'
  BY <1>1, <1>2 DEF Honest
<1>5. \A h \in Handler : Good(h) => Good(h)'
  BY <1>1, <1>2, <1>4 DEF Good, Handler, UidPoints
<1> QED
  BY <1>1, <1>3, <1>4, <1>5 DEF RemoteKept

\* Nor are made, cover, final and pages touched when a Sweetbook book is
\* deleted, or given a blank page.
LEMMA SameKept ==
  ASSUME IInv, remote' \in [Uids -> Remote],
         \A u \in Uids : /\ remote'[u].made = remote[u].made
                         /\ remote'[u].cover = remote[u].cover
                         /\ remote'[u].final = remote[u].final
                         /\ remote'[u].asked = remote[u].asked
  PROVE  RemoteKept
<1>1. RemoteSound' /\ PrintedOnce'
  BY DEF IInv, RemoteSound, PrintedOnce
<1>2. \A b \in Book : Honest(b) => Honest(b)'
  BY DEF Honest
<1>3. \A h \in Handler : Good(h) => Good(h)'
  BY <1>2 DEF Good, Handler, UidPoints
<1> QED
  BY <1>1, <1>2, <1>3 DEF RemoteKept

\* Deleting a Sweetbook book.
LEMMA DropKept ==
  ASSUME IInv, NEW u, DropRemote(u)
  PROVE  RemoteKept
<1>1. \A v \in Uids : remote[v] \in Remote
  BY DEF IInv, TypeOK
<1>2. remote' \in [Uids -> Remote]
  BY <1>1 DEF DropRemote, Remote, IInv, TypeOK
<1>3. \A v \in Uids : /\ remote'[v].made = remote[v].made
                      /\ remote'[v].cover = remote[v].cover
                      /\ remote'[v].final = remote[v].final
                      /\ remote'[v].asked = remote[v].asked
  BY <1>1 DEF DropRemote, Remote, IInv, TypeOK
<1> QED
  BY <1>2, <1>3, SameKept

\* A request is carried out a number of times, and at least once.
LEMMA RepeatsTyped == Repeats \subseteq Nat \ {0}
BY AttemptsAssumption DEF Repeats

\* Adding a blank page to one.
LEMMA BlankKept ==
  ASSUME IInv, NEW u \in Uids, NEW times \in Repeats, AddBlank(u, times)
  PROVE  RemoteKept
<1>1. \A v \in Uids : remote[v] \in Remote
  BY DEF IInv, TypeOK
<1>2. /\ remote' \in [Uids -> Remote]
      /\ \A v \in Uids : /\ remote'[v].made = remote[v].made
                         /\ remote'[v].cover = remote[v].cover
                         /\ remote'[v].final = remote[v].final
                         /\ remote'[v].asked = remote[v].asked
  <2> DEFINE count == remote[u].count + times
             again == remote[u].again \/ times > 1
             new == [remote[u] EXCEPT !.count = count, !.again = again]
  <2>1. count \in Nat
    BY <1>1, RepeatsTyped DEF Remote
  <2>2. again \in BOOLEAN
    OBVIOUS
  <2>3. remote' = [remote EXCEPT ![u] = new]
    BY DEF AddBlank
  <2> HIDE DEF count, again
  <2>4. /\ new \in Remote
        /\ new.made = remote[u].made /\ new.cover = remote[u].cover
        /\ new.final = remote[u].final /\ new.asked = remote[u].asked
    BY <1>1, <2>1, <2>2 DEF Remote
  <2> HIDE DEF new
  <2> QED
    BY <2>3, <2>4 DEF IInv, TypeOK
<1> QED
  BY <1>2, SameKept

\* Adding the cover, or finalizing, only makes more promises true.
LEMMA GrowKept ==
  ASSUME IInv, NEW u \in Uids, remote[u].made,
         remote' \in {[remote EXCEPT ![u].cover = TRUE],
                      [remote EXCEPT ![u].final = TRUE]}
  PROVE  RemoteKept
<1> DEFINE Grown == \A v \in Uids :
                      /\ remote'[v].made = remote[v].made
                      /\ remote[v].cover => remote'[v].cover
                      /\ remote[v].final => remote'[v].final
                      /\ remote'[v].asked = remote[v].asked
                      /\ v # u => remote'[v] = remote[v]
<1>1. remote \in [Uids -> Remote] /\ \A v \in Uids : remote[v] \in Remote
  BY DEF IInv, TypeOK
<1>2. remote' \in [Uids -> Remote] /\ Grown
  <2>1. CASE remote' = [remote EXCEPT ![u].cover = TRUE]
    BY <1>1, <2>1 DEF Remote
  <2>2. CASE remote' = [remote EXCEPT ![u].final = TRUE]
    BY <1>1, <2>2 DEF Remote
  <2> QED
    BY <2>1, <2>2
<1>3. Grown
  BY <1>2
<1>4. RemoteSound' /\ PrintedOnce'
  BY <1>3 DEF IInv, RemoteSound, PrintedOnce
<1>5. \A b \in Book : Honest(b) => Honest(b)'
  BY <1>3 DEF Honest
<1>6. \A h \in Handler : Good(h) => Good(h)'
  BY <1>3, <1>5 DEF Good, Handler, UidPoints
<1> QED
  BY <1>2, <1>4, <1>5, <1>6 DEF RemoteKept

-----------------------------------------------------------------------------
(* Steps of one handler *)

\* A step of handler p that ends at a good record, and not among the printers
\* of a Sweetbook book somebody else prints, keeps the invariant.
LEMMA MoveKept ==
  ASSUME IInv, NEW p \in Calls, Moved(p), RemoteKept, DataTyped', Honest(row)',
         Good(call[p])',
         call'[p].at = "contents" =>
           \A q \in Calls \ {p} :
             call[q].at = "contents" => call[q].book.uid # call'[p].book.uid
  PROVE  IInv'
<1>1. TypeOK'
  BY DEF TypeOK, DataTyped, Moved, RemoteKept
<1>2. \A q \in Calls : Good(call[q])'
  <2> SUFFICES ASSUME NEW q \in Calls PROVE Good(call[q])'
    OBVIOUS
  <2>1. CASE q = p
    BY <2>1
  <2>2. CASE q # p
    <3>1. call[q] \in Handler /\ Good(call[q]) /\ call'[q] = call[q]
      BY <2>2 DEF IInv, TypeOK, Moved
    <3> QED
      BY <3>1 DEF RemoteKept, Good, Honest
  <2> QED
    BY <2>1, <2>2
<1>3. OnePrinter'
  BY DEF IInv, OnePrinter, Moved, At, uidOf
<1> QED
  BY <1>1, <1>2, <1>3 DEF IInv, RemoteKept

\* A handler that returns keeps it.
LEMMA ReturnKept ==
  ASSUME IInv, NEW p \in Calls, Return(p), RemoteKept, DataTyped', Honest(row)'
  PROVE  IInv'
<1>1. Moved(p) /\ call'[p] = Idle
  BY ReturnMoves DEF IInv
<1>2. Good(call[p])'
  BY <1>1 DEF Good, Honest, Idle, NoBook, UidPoints, FreshPoints
<1> QED
  BY <1>1, <1>2, MoveKept DEF Idle

\* So does one that moves on with its copy, except to a point with promises of
\* its own.
LEMMA GotoKept ==
  ASSUME IInv, NEW p \in Calls, NEW at \in Points \ {"contents", "ready"},
         Goto(p, at), RemoteKept, DataTyped', Honest(row)',
         at \in UidPoints => uidOf(p) \in Uids,
         at \in FreshPoints => call[p].book.status # "READY"
  PROVE  IInv'
<1>1. /\ Moved(p)
      /\ call'[p].at = at /\ call'[p].book = call[p].book
  BY GotoMoves DEF IInv
<1>2. call[p].book \in Book /\ Honest(call[p].book)
  BY DEF IInv, TypeOK, Handler, Good
<1>3. Honest(call[p].book)'
  BY <1>1, <1>2 DEF RemoteKept, Honest
<1>4. Good(call[p])'
  BY <1>1, <1>3 DEF Good, uidOf
<1> QED
  BY <1>1, <1>4, MoveKept

\* So does a new request.
LEMMA BeginKept ==
  ASSUME IInv, NEW p \in Calls, NEW at \in Points \ {"contents", "ready"},
         Begin(p, at), remote' = remote, row' = row, DataTyped',
         at \in UidPoints => row.uid \in Uids,
         at \in FreshPoints => row.status # "READY"
  PROVE  IInv'
<1>1. Moved(p) /\ call'[p].at = at /\ call'[p].book = row
  BY BeginMoves DEF IInv
<1>2. Honest(row)' /\ RemoteKept
  BY QuietKept DEF IInv, Honest
<1>3. Good(call[p])'
  BY <1>1, <1>2 DEF Good, Honest
<1> QED
  BY <1>1, <1>2, <1>3, MoveKept

\* A status other than READY claims nothing.
LEMMA SaveHonest ==
  ASSUME IInv, NEW p \in Calls, NEW s \in Statuses \ {"READY"}, SaveAs(p, s)
  PROVE  row' \in Book /\ Honest(row)'
BY StatusTyped DEF IInv, TypeOK, Handler, SaveAs, Held, Honest

-----------------------------------------------------------------------------
(* Steps that change more of a handler than its point *)

\* POST /books gives the copy a new uid, while the copy is not READY.
LEMMA PostBookKept ==
  ASSUME IInv, NEW p \in Calls, NEW next \in {"createSave", "retrySave"},
         call[p].at \in FreshPoints, PostBook(p, next), row' = row, DataTyped'
  PROVE  IInv'
<1>1. call[p] \in Handler /\ call[p].book \in Book /\ call[p].book.status # "READY"
  BY DEF IInv, TypeOK, Handler, Good
<1>2. Honest(row) /\ call \in [Calls -> Handler]
  BY DEF IInv, TypeOK
<1>3. ASSUME NEW u \in Uids, ~remote[u].made, MakeRemote(u) PROVE RemoteKept
  BY <1>3, MakeKept
<1>4. ASSUME RemoteKept PROVE Honest(row)'
  BY <1>2, <1>4 DEF RemoteKept, DataTyped, Honest, IInv, TypeOK
<1>5. ASSUME NEW u \in Uids, RemoteKept,
             call' = [call EXCEPT ![p].at = next, ![p].book.uid = u]
      PROVE  IInv'
  <2> DEFINE b == [call[p].book EXCEPT !.uid = u]
             new == [call[p] EXCEPT !.at = next, !.book = b]
  <2>1. b \in Book /\ b.status # "READY"
    BY <1>1, UidTyped
  <2>2. call' = [call EXCEPT ![p] = new]
    BY <1>5
  <2>3. new \in Handler /\ new.at = next /\ new.book = b
    BY <1>1, <2>1 DEF Handler, Points
  <2> HIDE DEF b, new
  <2>4. Moved(p) /\ call'[p] = new
    BY <1>2, <2>2, <2>3 DEF Moved
  <2>5. Good(call[p])'
    BY <2>1, <2>3, <2>4 DEF Good, Honest, UidPoints
  <2> QED
    BY <1>4, <1>5, <2>3, <2>4, <2>5, MoveKept
<1>6. ASSUME Return(p), RemoteKept PROVE IInv'
  BY <1>4, <1>6, ReturnKept
<1>7. CASE UNCHANGED remote /\ Return(p)
  BY <1>6, <1>7, QuietKept
<1>8. CASE \E u \in Uids :
             /\ ~remote[u].made
             /\ MakeRemote(u)
             /\ \/ call' = [call EXCEPT ![p].at = next, ![p].book.uid = u]
                \/ Return(p)
  BY <1>3, <1>5, <1>6, <1>8
<1> QED
  BY <1>7, <1>8 DEF PostBook

\* Marking a book as being uploaded or processed claims nothing.
LEMMA MarkKept ==
  ASSUME IInv, NEW p \in Calls, NEW s \in {"UPLOADING", "PROCESSING"},
         NEW next \in {"upload", "cover"}, call[p].at \in UidPoints,
         Mark(p, s, next), UNCHANGED <<pages, remote, group, billed, calm>>
  PROVE  IInv'
<1>1. /\ call[p] \in Handler /\ call[p].book \in Book
      /\ call[p].book.uid \in Uids /\ s \in Statuses
  BY DEF IInv, TypeOK, Handler, Good, Statuses
<1>2. RemoteKept
  BY QuietKept
<1>3. CASE UNCHANGED row /\ Return(p)
  BY <1>2, <1>3, ReturnKept DEF IInv, TypeOK, DataTyped, Honest
<1>4. CASE /\ SaveAs(p, s)
           /\ call' = [call EXCEPT ![p].at = next, ![p].book.status = s]
  <2> DEFINE b == [call[p].book EXCEPT !.status = s]
             new == [call[p] EXCEPT !.at = next, !.book = b]
  <2>1. b \in Book /\ b.status = s /\ b.uid \in Uids
    BY <1>1, StatusTyped
  <2>2. call' = [call EXCEPT ![p] = new]
    BY <1>4
  <2>3. new \in Handler /\ new.at = next /\ new.book = b
    BY <1>1, <2>1 DEF Handler, Points
  <2>4. row' = b
    BY <1>4 DEF SaveAs, Held
  <2> HIDE DEF b, new
  <2>5. Moved(p) /\ call'[p] = new
    BY <2>2, <2>3 DEF Moved, IInv, TypeOK
  <2>6. Honest(row)' /\ Good(call[p])'
    BY <2>1, <2>3, <2>4, <2>5 DEF Good, Honest, FreshPoints
  <2>7. DataTyped'
    BY <2>1, <2>4 DEF DataTyped, IInv, TypeOK
  <2> QED
    BY <1>2, <2>3, <2>5, <2>6, <2>7, MoveKept
<1> QED
  BY <1>3, <1>4 DEF Mark

\* How many blank pages are added is a number.
LEMMA PaddingTyped == ASSUME NEW n \in Nat PROVE Padding(n) \in Nat
<1>1. calcTargetPageCount(n) \in Int
  BY SpecAssumption DEF calcTargetPageCount
<1> QED
  BY <1>1 DEF Padding

\* The cover is accepted for one handler only: whoever prints the same
\* Sweetbook book had added its cover before, and then this one is refused.
LEMMA CoverKept ==
  ASSUME IInv, NEW p \in Calls, PostCover(p), UNCHANGED calm
  PROVE  IInv'
<1> DEFINE u == uidOf(p)
           n == Padding(Cardinality(call[p].pages))
           new == [call[p] EXCEPT !.at = "contents", !.todo = call[p].pages,
                                  !.blanks = n]
<1>1. /\ call[p] \in Handler /\ call[p].book \in Book /\ u \in Uids
      /\ call[p].pages \subseteq Pages
      /\ Honest(call[p].book)
  BY DEF IInv, TypeOK, Handler, Good, PostCover, At, UidPoints, uidOf
<1>2. n \in Nat
  BY <1>1, PaddingTyped, PagesAssumption, FS_Subset, FS_CardinalityType
<1>3. /\ new \in Handler /\ new.at = "contents" /\ new.book = call[p].book
      /\ new.todo = call[p].pages
  BY <1>1, <1>2 DEF Handler, Points
<1>4. ASSUME AddCover(u)
      PROVE  /\ RemoteKept /\ ~remote[u].cover /\ remote'[u].cover
             /\ remote'[u].asked = remote[u].asked
  <2>1. remote[u].made /\ ~remote[u].cover /\ remote' = [remote EXCEPT ![u].cover = TRUE]
    BY <1>4 DEF AddCover, IsDraft
  <2>2. remote[u] \in Remote
    BY <1>1 DEF IInv, TypeOK
  <2>3. remote'[u].cover /\ remote'[u].asked = remote[u].asked
    BY <1>1, <2>1, <2>2 DEF Remote, IInv, TypeOK
  <2> QED
    BY <1>1, <2>1, <2>3, GrowKept
<1> HIDE DEF new, n, u
<1>5. ASSUME RemoteKept PROVE DataTyped' /\ Honest(row)'
  BY <1>5 DEF RemoteKept, DataTyped, Honest, IInv, TypeOK, PostCover
<1>6. CASE AddCover(u) /\ StartContents(p)
  <2>0. call' = [call EXCEPT ![p] = new]
    BY <1>6 DEF StartContents, new, n
  <2>1. Moved(p) /\ call'[p] = new
    BY <1>3, <2>0 DEF Moved, IInv, TypeOK
  <2>2. \A g \in Pages : remote[u].asked[g] = 0
    <3>1. remote[u] \in Remote
      BY <1>1 DEF IInv, TypeOK
    <3>2. \A g \in Pages : remote[u].asked[g] \in Nat
      BY <3>1 DEF Remote
    <3> QED
      BY <1>1, <1>4, <1>6, <3>2 DEF IInv, RemoteSound
  <2>3. Honest(call[p].book)'
    BY <1>1, <1>3, <1>4, <1>6, <2>1 DEF RemoteKept, Honest
  <2>4. Good(call[p])'
    BY <1>1, <1>3, <1>4, <1>6, <2>1, <2>2, <2>3 DEF Good, u, uidOf, FreshPoints
  <2>5. \A q \in Calls \ {p} :
          call[q].at = "contents" => call[q].book.uid # call'[p].book.uid
    BY <1>3, <1>4, <1>6, <2>1 DEF IInv, Good, u, uidOf
  <2> QED
    BY <1>4, <1>5, <1>6, <2>1, <2>4, <2>5, MoveKept
<1>7. CASE AddCover(u) /\ Return(p)
  BY <1>4, <1>5, <1>7, ReturnKept
<1>8. CASE UNCHANGED remote /\ Return(p)
  BY <1>5, <1>8, QuietKept, ReturnKept
<1> QED
  BY <1>6, <1>7, <1>8 DEF PostCover, addCover, u

\* A page is sent by the only handler that prints to its Sweetbook book, which
\* had not sent it yet; the others print to other books.
LEMMA PageKept ==
  ASSUME IInv, NEW p \in Calls, NEW g \in Pages,
         At(p, "contents"), g \in call[p].todo,
         NEW times \in Repeats, AddPage(uidOf(p), g, times),
         \/ call' = [call EXCEPT ![p].todo = @ \ {g}]
         \/ Return(p),
         UNCHANGED <<row, pages, group, billed, calm>>
  PROVE  IInv'
<1> DEFINE u == uidOf(p)
<1>1. /\ call[p] \in Handler /\ u \in Uids /\ u = call[p].book.uid
      /\ Good(call[p]) /\ call[p].at = "contents"
      /\ remote[u].cover /\ remote[u].asked[g] = 0
  BY DEF IInv, TypeOK, At, UidPoints, uidOf, Good
<1> HIDE DEF u
<1>2. /\ remote' \in [Uids -> Remote]
      /\ \A v \in Uids \ {u} : remote'[v] = remote[v]
      /\ remote'[u].made = remote[u].made /\ remote'[u].cover = remote[u].cover
      /\ remote'[u].final = remote[u].final
      /\ remote'[u].asked[g] = 1
      /\ \A k \in Pages \ {g} : remote'[u].asked[k] = remote[u].asked[k]
  <2> DEFINE asked == [remote[u].asked EXCEPT ![g] = @ + 1]
             count == remote[u].count + times
             again == remote[u].again \/ times > 1
             new == [remote[u] EXCEPT !.asked = asked, !.count = count,
                                      !.again = again]
  <2>1. remote[u] \in Remote /\ remote[u].asked \in [Pages -> Nat]
    BY <1>1 DEF IInv, TypeOK, Remote
  <2>2. /\ asked \in [Pages -> Nat] /\ asked[g] = 1
        /\ \A k \in Pages \ {g} : asked[k] = remote[u].asked[k]
    BY <1>1, <2>1
  <2>3. remote' = [remote EXCEPT ![u] = new]
    BY DEF AddPage, u
  <2>4. count \in Nat
    BY <1>1, RepeatsTyped DEF IInv, TypeOK, Remote
  <2>5. again \in BOOLEAN
    OBVIOUS
  <2> HIDE DEF asked, count, again
  <2>6. /\ new \in Remote /\ new.asked = asked /\ new.made = remote[u].made
        /\ new.cover = remote[u].cover /\ new.final = remote[u].final
    BY <2>1, <2>2, <2>4, <2>5 DEF Remote
  <2> HIDE DEF new
  <2>7. /\ remote' \in [Uids -> Remote] /\ remote'[u] = new
        /\ \A v \in Uids \ {u} : remote'[v] = remote[v]
    BY <1>1, <2>3, <2>6 DEF IInv, TypeOK
  <2> QED
    BY <2>2, <2>6, <2>7
<1>3. RemoteSound' /\ PrintedOnce'
  <2> SUFFICES ASSUME NEW v \in Uids
               PROVE  /\ remote'[v].cover \/ remote'[v].final => remote'[v].made
                      /\ \A k \in Pages : /\ remote'[v].asked[k] > 0 => remote'[v].cover
                                          /\ remote'[v].asked[k] <= 1
    BY DEF RemoteSound, PrintedOnce
  <2>1. /\ remote[v].cover \/ remote[v].final => remote[v].made
        /\ \A k \in Pages : /\ remote[v].asked[k] > 0 => remote[v].cover
                            /\ remote[v].asked[k] <= 1
    BY DEF IInv, RemoteSound, PrintedOnce
  <2>2. CASE v # u
    BY <1>2, <2>1, <2>2
  <2>3. CASE v = u
    <3> SUFFICES ASSUME NEW k \in Pages PROVE remote'[u].asked[k] <= 1
      BY <1>1, <1>2, <2>1, <2>3
    <3> QED
      BY <1>2, <2>1, <2>3
  <2> QED
    BY <2>2, <2>3
<1>4. Honest(row)' /\ \A b \in Book : Honest(b) => Honest(b)'
  BY <1>2 DEF IInv, TypeOK, Honest
<1>5. /\ Moved(p)
      /\ \/ call'[p] = Idle
         \/ /\ call'[p].at = "contents" /\ call'[p].book = call[p].book
            /\ call'[p].todo = call[p].todo \ {g}
  <2>1. CASE Return(p)
    BY <2>1, ReturnMoves DEF IInv
  <2>2. CASE call' = [call EXCEPT ![p].todo = @ \ {g}]
    BY <1>1, <2>2 DEF Moved, IInv, TypeOK, Handler
  <2> QED
    BY <2>1, <2>2
<1>6. Good(call[p])'
  <2>1. CASE call'[p] = Idle
    BY <2>1 DEF Good, Honest, Idle, NoBook, UidPoints, FreshPoints
  <2>2. CASE /\ call'[p].at = "contents" /\ call'[p].book = call[p].book
             /\ call'[p].todo = call[p].todo \ {g}
    <3>1. call[p].book \in Book /\ Honest(call[p].book) /\ call[p].todo \subseteq Pages
      BY <1>1 DEF Good, Handler
    <3>2. Honest(call[p].book)'
      BY <1>4, <2>2, <3>1 DEF Honest
    <3>3. \A k \in call'[p].todo : remote'[u].asked[k] = 0
      BY <1>1, <1>2, <2>2, <3>1 DEF Good
    <3> QED
      BY <1>1, <1>2, <2>2, <3>2, <3>3 DEF Good, FreshPoints
  <2> QED
    BY <1>5, <2>1, <2>2
<1>7. \A q \in Calls \ {p} : Good(call[q])'
  <2> SUFFICES ASSUME NEW q \in Calls \ {p} PROVE Good(call[q])'
    OBVIOUS
  <2>1. call'[q] = call[q] /\ call[q] \in Handler /\ Good(call[q])
    BY <1>5 DEF Moved, IInv, TypeOK
  <2>2. call[q].book \in Book /\ call[q].todo \subseteq Pages
    BY <2>1 DEF Handler
  <2>3. Honest(call[q].book)'
    BY <1>4, <2>1, <2>2 DEF Good, Honest
  <2>4. call[q].at = "contents" => call[q].book.uid \in Uids \ {u}
    BY <1>1, <2>1 DEF IInv, OnePrinter, At, uidOf, Good, UidPoints
  <2>5. call[q].at = "ready" => remote'[call[q].book.uid].final
    BY <1>2, <2>1 DEF Good, UidPoints
  <2> QED
    BY <1>2, <2>1, <2>3, <2>4, <2>5 DEF Good
<1>8. OnePrinter'
  BY <1>1, <1>5 DEF IInv, OnePrinter, At, uidOf, Moved, Idle
<1>9. TypeOK'
  BY <1>2, <1>5 DEF IInv, TypeOK, Moved
<1> QED
  BY <1>3, <1>4, <1>6, <1>7, <1>8, <1>9 DEF IInv

\* Padding neither disturbs the lock nor what has been printed.
LEMMA PostBlankKept ==
  ASSUME IInv, NEW p \in Calls, PostBlank(p), UNCHANGED calm
  PROVE  IInv'
<1>1. /\ call[p] \in Handler /\ uidOf(p) \in Uids /\ Good(call[p])
      /\ call[p].at = "contents" /\ call[p].blanks \in Nat \ {0}
  BY DEF IInv, TypeOK, PostBlank, At, UidPoints, uidOf, Good, Handler
<1>2. ASSUME RemoteKept PROVE DataTyped' /\ Honest(row)'
  BY <1>2 DEF RemoteKept, DataTyped, Honest, IInv, TypeOK, PostBlank
<1>3. ASSUME NEW times \in Repeats, AddBlank(uidOf(p), times),
             call' = [call EXCEPT ![p].blanks = @ - 1]
      PROVE  IInv'
  <2>1. RemoteKept
    BY <1>1, <1>3, BlankKept
  <2>2. /\ Moved(p) /\ call'[p].at = "contents" /\ call'[p].book = call[p].book
        /\ call'[p].todo = call[p].todo
    BY <1>1, <1>3 DEF Moved, IInv, TypeOK, Handler
  <2>3. Good(call[p])'
    BY <1>1, <2>1, <2>2 DEF RemoteKept, Good, Honest
  <2> QED
    BY <1>1, <1>2, <2>1, <2>2, <2>3, MoveKept DEF IInv, OnePrinter, At, uidOf
<1>4. ASSUME NEW times \in Repeats, AddBlank(uidOf(p), times), Return(p)
      PROVE  IInv'
  BY <1>1, <1>2, <1>4, BlankKept, ReturnKept
<1>5. CASE UNCHANGED remote /\ Return(p)
  BY <1>2, <1>5, QuietKept, ReturnKept
<1> QED
  BY <1>3, <1>4, <1>5 DEF PostBlank, addBlankContents

\* A handler comes to save READY only when Sweetbook has finalized its book.
LEMMA PostFinalizeKept ==
  ASSUME IInv, NEW p \in Calls, PostFinalize(p), UNCHANGED calm
  PROVE  IInv'
<1>1. /\ call[p] \in Handler /\ call[p].book \in Book /\ uidOf(p) \in Uids
      /\ Good(call[p])
  BY DEF IInv, TypeOK, PostFinalize, AllPosted, At, UidPoints, uidOf, Good, Handler
<1>2. ASSUME RemoteKept PROVE DataTyped' /\ Honest(row)'
  BY <1>2 DEF RemoteKept, DataTyped, Honest, IInv, TypeOK, PostFinalize
<1>3. ASSUME Finalize(uidOf(p)) PROVE RemoteKept /\ remote'[uidOf(p)].final
  <2>1. remote[uidOf(p)] \in Remote
    BY <1>1 DEF IInv, TypeOK
  <2>2. remote'[uidOf(p)].final
    BY <1>1, <1>3, <2>1 DEF Finalize, Remote, IInv, TypeOK
  <2> QED
    BY <1>1, <1>3, <2>2, GrowKept DEF Finalize
<1>4. CASE Finalize(uidOf(p)) /\ Goto(p, "ready")
  <2>1. /\ Moved(p) /\ call'[p].at = "ready" /\ call'[p].book = call[p].book
    BY <1>4, GotoMoves DEF IInv, Points
  <2>2. Honest(call[p].book)'
    BY <1>1, <1>3, <1>4, <2>1 DEF RemoteKept, Good, Honest
  <2>3. Good(call[p])'
    BY <1>1, <1>3, <1>4, <2>1, <2>2 DEF Good, uidOf, FreshPoints
  <2> QED
    BY <1>2, <1>3, <1>4, <2>1, <2>3, MoveKept
<1>5. CASE Goto(p, "failing") /\ (Finalize(uidOf(p)) \/ UNCHANGED remote)
  BY <1>2, <1>3, <1>5, QuietKept, GotoKept DEF Points, UidPoints, FreshPoints
<1> QED
  BY <1>4, <1>5 DEF PostFinalize, finalizeBook

\* READY is saved on a book Sweetbook has finalized.
LEMMA SaveReadyKept ==
  ASSUME IInv, NEW p \in Calls, SaveReady(p), UNCHANGED calm
  PROVE  IInv'
<1>1. RemoteKept /\ call[p] \in Handler /\ call[p].book \in Book /\ Good(call[p])
  BY QuietKept DEF SaveReady, IInv, TypeOK, Handler
<1>2. CASE SaveAs(p, "READY") /\ Return(p)
  <2>1. /\ row' \in Book /\ row'.uid = call[p].book.uid
    BY <1>1, <1>2, StatusTyped DEF SaveAs, Held, Statuses
  <2>2. DataTyped' /\ Honest(row)'
    BY <1>1, <2>1 DEF SaveReady, DataTyped, IInv, TypeOK, Honest, Good, At, UidPoints
  <2> QED
    BY <1>1, <1>2, <2>2, ReturnKept
<1>3. CASE UNCHANGED row /\ Goto(p, "failing")
  <2>1. DataTyped' /\ Honest(row)'
    BY <1>3 DEF SaveReady, DataTyped, IInv, TypeOK, Honest
  <2> QED
    BY <1>1, <1>3, <2>1, GotoKept DEF Points, UidPoints, FreshPoints
<1> QED
  BY <1>2, <1>3 DEF SaveReady

-----------------------------------------------------------------------------
(* The steps *)

\* The invariant holds before the book is created, and of a PERSONAL book just
\* generated.
LEMMA InitInv == Init => IInv
<1> SUFFICES ASSUME Init PROVE IInv
  OBVIOUS
<1>1. /\ row \in Book /\ row.status # "READY"
      /\ remote \in [Uids -> Remote]
      /\ \A u \in Uids : /\ ~remote[u].cover /\ ~remote[u].final
                         /\ \A g \in Pages : remote[u].asked[g] = 0
  <2>1. CASE Personal
    <3>1. PICK u \in Uids :
            /\ row = [status |-> "READY_TO_REVIEW", uid |-> u]
            /\ remote = [v \in Uids |-> [NotMade EXCEPT !.made = (v = u)]]
      BY <2>1 DEF Init
    <3>2. \A v \in Uids : LET new == [NotMade EXCEPT !.made = (v = u)]
                          IN  /\ new \in Remote /\ ~new.cover /\ ~new.final
                              /\ \A g \in Pages : new.asked[g] = 0
      BY DEF NotMade, Remote
    <3>3. row \in Book /\ row.status # "READY"
      BY <3>1 DEF Book, Statuses
    <3> QED
      BY <3>1, <3>2, <3>3
  <2>2. CASE ~Personal
    <3>1. /\ NotMade \in Remote /\ ~NotMade.cover /\ ~NotMade.final
          /\ \A g \in Pages : NotMade.asked[g] = 0
      BY DEF NotMade, Remote
    <3>2. row \in Book /\ row.status # "READY"
      BY <2>2, IdleTyped DEF Init, NoBook
    <3>3. remote = [u \in Uids |-> NotMade]
      BY <2>2 DEF Init
    <3> QED
      BY <3>1, <3>2, <3>3
  <2> QED
    BY <2>1, <2>2
<1>2. \A p \in Calls : call[p] = Idle /\ call[p] \in Handler
  BY IdleTyped DEF Init
<1>3. TypeOK
  BY <1>1, <1>2 DEF Init, TypeOK
<1>4. RemoteSound /\ PrintedOnce /\ Honest(row)
  BY <1>1 DEF RemoteSound, PrintedOnce, Honest
<1>5. \A p \in Calls : Good(call[p])
  BY <1>2 DEF Good, Honest, Idle, NoBook, UidPoints, FreshPoints
<1>6. OnePrinter
  BY <1>2 DEF OnePrinter, At, Idle
<1> QED
  BY <1>3, <1>4, <1>5, <1>6 DEF IInv

\* A handler's copy is typed and as honest as the row.
LEMMA CopyTyped ==
  ASSUME IInv, NEW p \in Calls
  PROVE  /\ call[p] \in Handler /\ call[p].at \in Points /\ Held(p) \in Book
         /\ uidOf(p) \in Uids \cup {NoUid}
         /\ call[p].pages \subseteq Pages /\ call[p].todo \subseteq Pages
         /\ Good(call[p]) /\ Honest(Held(p))
BY DEF IInv, TypeOK, Handler, Book, Held, uidOf, Good

\* Starting a request keeps the invariant.
LEMMA RequestKept ==
  ASSUME IInv, NEW p \in Calls, Request(p)
  PROVE  IInv'
<1>1. calm' \in BOOLEAN /\ row \in Book
  BY DEF Request, IInv, TypeOK
<1>2. ASSUME UNCHANGED <<row, pages, group, billed>> PROVE DataTyped'
  BY <1>1, <1>2 DEF IInv, TypeOK, DataTyped
<1>3. CASE CreateInsert(p)
  <2> DEFINE b == [NoBook EXCEPT !.status = "DRAFT"]
             new == [Idle EXCEPT !.at = "createPost", !.book = b]
  <2>1. b \in Book /\ b.status # "READY"
    BY UidAssumption DEF NoBook, Book, Statuses
  <2>2. row' = b /\ call' = [call EXCEPT ![p] = new]
    BY <1>3 DEF CreateInsert
  <2> HIDE DEF b
  <2>3. new \in Handler /\ new.at = "createPost" /\ new.book = b
    BY <2>1 DEF Handler, Idle, Points
  <2> HIDE DEF new
  <2>4. Moved(p) /\ call'[p] = new
    BY <2>2, <2>3 DEF Moved, IInv, TypeOK
  <2>5. Honest(row)' /\ Good(call[p])' /\ DataTyped'
    BY <1>1, <1>3, <2>1, <2>2, <2>3, <2>4
    DEF Honest, Good, DataTyped, UidPoints, CreateInsert, IInv, TypeOK
  <2> QED
    BY <1>3, <2>3, <2>4, <2>5, QuietKept, MoveKept DEF CreateInsert
<1>4. CASE AddStart(p)
  BY <1>2, <1>4, BeginKept DEF AddStart, Points, UidPoints, FreshPoints
<1>5. CASE PageStart(p)
  BY <1>2, <1>5, BeginKept DEF PageStart, Points, UidPoints, FreshPoints
<1>6. CASE EditStart(p)
  BY <1>2, <1>6, BeginKept DEF EditStart, Points, UidPoints, FreshPoints
<1>7. CASE DeleteCheck(p)
  <2>1. CASE row.uid = NoUid
    BY <1>2, <1>7, <2>1, BeginKept DEF DeleteCheck, Points, UidPoints, FreshPoints
  <2>2. CASE row.uid # NoUid
    BY <1>2, <1>7, <2>2, BeginKept DEF DeleteCheck, Points, UidPoints, FreshPoints
  <2> QED
    BY <2>1, <2>2
<1>8. CASE FinalizeCheck(p)
  <2>1. row.uid \in Uids
    BY <1>1, <1>8 DEF FinalizeCheck, Book
  <2> QED
    BY <1>2, <1>8, <2>1, BeginKept DEF FinalizeCheck, Points, FreshPoints
<1>9. CASE RetryCheck(p)
  <2>1. CASE row.uid = NoUid
    BY <1>2, <1>9, <2>1, BeginKept DEF RetryCheck, Points, UidPoints
  <2>2. CASE row.uid # NoUid
    BY <1>2, <1>9, <2>2, BeginKept DEF RetryCheck, Points, UidPoints
  <2> QED
    BY <2>1, <2>2
<1>10. CASE OrderCheck(p)
  BY <1>2, <1>10, BeginKept DEF OrderCheck, Points, UidPoints, FreshPoints
<1>11. CASE PlaceCheck(p)
  <2>1. DataTyped' /\ remote' = remote /\ row' = row
    BY <1>1, <1>11 DEF PlaceCheck, DataTyped, IInv, TypeOK
  <2>2. CASE group = "open"
    BY <1>11, <2>1, <2>2, BeginKept DEF PlaceCheck, Points, UidPoints, FreshPoints
  <2>3. CASE group # "open"
    BY <1>11, <2>1, <2>3, BeginKept DEF PlaceCheck, Points, UidPoints, FreshPoints
  <2> QED
    BY <2>2, <2>3
<1> QED
  BY <1>3, <1>4, <1>5, <1>6, <1>7, <1>8, <1>9, <1>10, <1>11 DEF Request

\* So does every step of a handler on its way.
LEMMA ContinueKept ==
  ASSUME IInv, NEW p \in Calls, Continue(p)
  PROVE  IInv'
<1>1. /\ calm' = calm /\ calm \in BOOLEAN /\ row \in Book /\ pages \subseteq Pages
      /\ group \in {"none", "open", "confirmed"} /\ billed \in BOOLEAN
      /\ Honest(row)
  BY DEF Continue, IInv, TypeOK
<1>2. /\ call[p] \in Handler /\ Held(p) \in Book
      /\ call[p].pages \subseteq Pages /\ call[p].todo \subseteq Pages
      /\ Good(call[p]) /\ Honest(Held(p))
  BY CopyTyped
<1>3. ASSUME UNCHANGED row, RemoteKept PROVE Honest(row)'
  BY <1>1, <1>3 DEF RemoteKept, Honest
<1>4. ASSUME UNCHANGED remote PROVE RemoteKept
  BY <1>4, QuietKept
<1>5. CASE CreatePost(p)
  <2>1. UNCHANGED calm /\ DataTyped'
    BY <1>1, <1>5 DEF CreatePost, DataTyped
  <2> QED
    BY <1>5, <2>1, PostBookKept DEF CreatePost, At, FreshPoints
<1>6. CASE SaveCopy(p)
  <2>1. DataTyped' /\ Honest(row)' /\ RemoteKept
    BY <1>1, <1>2, <1>4, <1>6 DEF SaveCopy, DataTyped, Honest
  <2> QED
    BY <1>6, <2>1, ReturnKept DEF SaveCopy
<1>7. CASE AddPages(p)
  <2>1. DataTyped' /\ Honest(row)' /\ RemoteKept
    BY <1>1, <1>3, <1>4, <1>7 DEF AddPages, DataTyped
  <2>2. CASE Goto(p, "saveCopy")
    BY <2>1, <2>2, GotoKept DEF Points, UidPoints, FreshPoints
  <2>3. CASE Return(p)
    BY <2>1, <2>3, ReturnKept
  <2> QED
    BY <1>7, <2>2, <2>3 DEF AddPages
<1>8. CASE FindPage(p)
  <2>1. DataTyped' /\ Honest(row)' /\ RemoteKept
    BY <1>1, <1>3, <1>4, <1>8 DEF FindPage, DataTyped
  <2>2. CASE Return(p)
    BY <2>1, <2>2, ReturnKept
  <2>3. ASSUME NEW g \in pages, NEW at \in {"deletePage", "updatePage"},
               call' = [call EXCEPT ![p].at = at, ![p].todo = {g}]
        PROVE  IInv'
    <3> DEFINE new == [call[p] EXCEPT !.at = at, !.todo = {g}]
    <3>1. new \in Handler /\ new.at = at /\ new.book = Held(p)
      BY <1>1, <1>2, <2>3 DEF Handler, Points, Held
    <3>2. call' = [call EXCEPT ![p] = new]
      BY <2>3
    <3> HIDE DEF new
    <3>3. Moved(p) /\ call'[p] = new
      BY <3>1, <3>2 DEF Moved, IInv, TypeOK
    <3>4. Good(call[p])'
      BY <1>2, <2>1, <3>1, <3>3
      DEF RemoteKept, Good, Honest, UidPoints, FreshPoints
    <3> QED
      BY <2>1, <2>3, <3>1, <3>3, <3>4, MoveKept
  <2> QED
    BY <1>8, <2>2, <2>3 DEF FindPage
<1>9. CASE DeletePage(p)
  <2>1. DataTyped' /\ Honest(row)' /\ RemoteKept
    BY <1>1, <1>3, <1>4, <1>9 DEF DeletePage, DataTyped
  <2>2. CASE Goto(p, "saveCopy")
    BY <2>1, <2>2, GotoKept DEF Points, UidPoints, FreshPoints
  <2>3. CASE Return(p)
    BY <2>1, <2>3, ReturnKept
  <2> QED
    BY <1>9, <2>2, <2>3 DEF DeletePage
<1>10. CASE UpdatePage(p)
  <2>1. DataTyped' /\ Honest(row)' /\ RemoteKept
    BY <1>1, <1>2, <1>3, <1>4, <1>10 DEF UpdatePage, DataTyped
  <2> QED
    BY <1>10, <2>1, ReturnKept DEF UpdatePage
<1>11. CASE DeleteRemote(p)
  <2>1. RemoteKept
    BY <1>4, <1>11, DropKept DEF DeleteRemote, deleteBook
  <2>2. DataTyped' /\ Honest(row)'
    BY <1>1, <1>3, <1>11, <2>1 DEF DeleteRemote, DataTyped
  <2> QED
    BY <1>11, <2>1, <2>2, GotoKept DEF DeleteRemote, Points, UidPoints, FreshPoints
<1>12. CASE DeletePages(p)
  <2>1. DataTyped' /\ Honest(row)' /\ RemoteKept
    BY <1>1, <1>3, <1>4, <1>12 DEF DeletePages, DataTyped
  <2>2. CASE Goto(p, "remove")
    BY <2>1, <2>2, GotoKept DEF Points, UidPoints, FreshPoints
  <2>3. CASE Return(p)
    BY <2>1, <2>3, ReturnKept
  <2> QED
    BY <1>12, <2>2, <2>3 DEF DeletePages
<1>13. CASE Remove(p)
  <2>1. [NoBook EXCEPT !.status = "DELETED"] \in Book
    BY IdleTyped, StatusTyped DEF Statuses
  <2>2. DataTyped' /\ Honest(row)' /\ RemoteKept
    BY <1>1, <1>3, <1>4, <1>13, <2>1 DEF Remove, DataTyped, Honest, NoBook
  <2> QED
    BY <1>13, <2>2, ReturnKept DEF Remove
<1>14. CASE FinalizeRead(p)
  <2>1. DataTyped' /\ Honest(row)' /\ RemoteKept
    BY <1>1, <1>3, <1>4, <1>14 DEF FinalizeRead, DataTyped
  <2>2. CASE Goto(p, "failing")
    BY <2>1, <2>2, GotoKept DEF Points, UidPoints, FreshPoints
  <2>3. CASE Return(p)
    BY <2>1, <2>3, ReturnKept
  <2>4. CASE call' = [call EXCEPT ![p].at = "uploading", ![p].pages = pages]
    <3> DEFINE new == [call[p] EXCEPT !.at = "uploading", !.pages = pages]
    <3>1. new \in Handler /\ new.at = "uploading" /\ new.book = Held(p)
      BY <1>1, <1>2 DEF Handler, Points, Held
    <3>2. call' = [call EXCEPT ![p] = new]
      BY <2>4
    <3> HIDE DEF new
    <3>3. Moved(p) /\ call'[p] = new
      BY <3>1, <3>2 DEF Moved, IInv, TypeOK
    <3>4. Held(p).uid \in Uids
      BY <1>2, <1>14 DEF FinalizeRead, At, Good, Held, UidPoints
    <3>5. Good(call[p])'
      BY <1>2, <2>1, <3>1, <3>3, <3>4 DEF RemoteKept, Good, Honest, FreshPoints
    <3> QED
      BY <2>1, <3>1, <3>3, <3>5, MoveKept
  <2> QED
    BY <1>14, <2>2, <2>3, <2>4 DEF FinalizeRead
<1>15. CASE MarkUploading(p)
  BY <1>1, <1>15, MarkKept DEF MarkUploading, At, UidPoints
<1>16. CASE Upload(p)
  <2>1. DataTyped' /\ Honest(row)' /\ RemoteKept
    BY <1>1, <1>3, <1>4, <1>16 DEF Upload, DataTyped
  <2>2. uidOf(p) \in Uids
    BY <1>2, <1>16 DEF Upload, At, Good, uidOf, UidPoints
  <2> QED
    BY <1>16, <2>1, <2>2, GotoKept
    DEF Upload, uploadPhotoToBook, Points, FreshPoints
<1>17. CASE MarkProcessing(p)
  BY <1>1, <1>17, MarkKept DEF MarkProcessing, At, UidPoints
<1>18. CASE PostCover(p)
  BY <1>1, <1>18, CoverKept
<1>19. ASSUME NEW g \in Pages, PostPage(p, g) PROVE IInv'
  <2>1. CASE UNCHANGED remote /\ Return(p)
    <3>1. DataTyped' /\ Honest(row)' /\ RemoteKept
      BY <1>1, <1>3, <1>4, <1>19, <2>1 DEF PostPage, DataTyped
    <3> QED
      BY <2>1, <3>1, ReturnKept
  <2>2. ASSUME NEW times \in Repeats, AddPage(uidOf(p), g, times),
               \/ call' = [call EXCEPT ![p].todo = @ \ {g}]
               \/ Return(p)
        PROVE  IInv'
    BY <1>1, <1>19, <2>2, PageKept DEF PostPage
  <2> QED
    BY <1>19, <2>1, <2>2 DEF PostPage, addContents
<1>20. CASE PostBlank(p)
  BY <1>1, <1>20, PostBlankKept
<1>21. CASE PostFinalize(p)
  BY <1>1, <1>21, PostFinalizeKept
<1>22. CASE SaveReady(p)
  BY <1>1, <1>22, SaveReadyKept
<1>23. CASE SaveFailed(p)
  <2>1. DataTyped' /\ Honest(row)' /\ RemoteKept
    BY <1>1, <1>3, <1>4, <1>23, SaveHonest DEF SaveFailed, DataTyped, Statuses
  <2> QED
    BY <1>23, <2>1, ReturnKept DEF SaveFailed
<1>24. CASE RetryDelete(p)
  <2>1. RemoteKept
    BY <1>4, <1>24, DropKept DEF RetryDelete, deleteBook
  <2>2. DataTyped' /\ Honest(row)'
    BY <1>1, <1>3, <1>24, <2>1 DEF RetryDelete, DataTyped
  <2>3. call[p].book.status # "READY"
    BY <1>2, <1>24 DEF RetryDelete, At, Good, FreshPoints
  <2> QED
    BY <1>24, <2>1, <2>2, <2>3, GotoKept DEF RetryDelete, Points, UidPoints
<1>25. CASE RetryPost(p)
  <2>1. UNCHANGED calm /\ DataTyped'
    BY <1>1, <1>25 DEF RetryPost, DataTyped
  <2> QED
    BY <1>25, <2>1, PostBookKept DEF RetryPost, At, FreshPoints
<1>26. CASE RetrySave(p)
  <2>1. DataTyped' /\ Honest(row)' /\ RemoteKept
    BY <1>1, <1>3, <1>4, <1>26, SaveHonest DEF RetrySave, DataTyped, Statuses
  <2> QED
    BY <1>26, <2>1, ReturnKept DEF RetrySave
<1>27. CASE OrderOpen(p)
  <2>1. DataTyped' /\ Honest(row)' /\ RemoteKept
    BY <1>1, <1>3, <1>4, <1>27 DEF OrderOpen, DataTyped
  <2> QED
    BY <1>27, <2>1, ReturnKept DEF OrderOpen
<1>28. CASE PlaceOrders(p)
  <2>1. DataTyped' /\ Honest(row)' /\ RemoteKept
    BY <1>1, <1>3, <1>4, <1>28 DEF PlaceOrders, DataTyped
  <2>2. CASE Goto(p, "groupSave")
    BY <2>1, <2>2, GotoKept DEF Points, UidPoints, FreshPoints
  <2>3. CASE Return(p)
    BY <2>1, <2>3, ReturnKept
  <2> QED
    BY <1>28, <2>2, <2>3 DEF PlaceOrders
<1>29. CASE GroupSave(p)
  <2>1. DataTyped' /\ Honest(row)' /\ RemoteKept
    BY <1>1, <1>3, <1>4, <1>29 DEF GroupSave, DataTyped
  <2>2. CASE Goto(p, "orderedSave")
    BY <2>1, <2>2, GotoKept DEF Points, UidPoints, FreshPoints
  <2>3. CASE Return(p)
    BY <2>1, <2>3, ReturnKept
  <2> QED
    BY <1>29, <2>2, <2>3 DEF GroupSave
<1>30. CASE OrderedSave(p)
  <2>1. DataTyped' /\ Honest(row)' /\ RemoteKept
    BY <1>1, <1>3, <1>4, <1>30, SaveHonest DEF OrderedSave, DataTyped, Statuses
  <2> QED
    BY <1>30, <2>1, ReturnKept DEF OrderedSave
<1> QED
  BY <1>5, <1>6, <1>7, <1>8, <1>9, <1>10, <1>11, <1>12, <1>13, <1>14, <1>15,
     <1>16, <1>17, <1>18, <1>19, <1>20, <1>21, <1>22, <1>23, <1>24, <1>25,
     <1>26, <1>27, <1>28, <1>29, <1>30
  DEF Continue

\* A crash forgets every handler, and with it every promise made to one.
LEMMA CrashKept ==
  ASSUME IInv, Crash
  PROVE  IInv'
<1>1. RemoteKept /\ UNCHANGED <<row, pages, remote, group, billed, calm>>
  BY QuietKept DEF Crash
<1>2. \A p \in Calls : call'[p] = Idle
  BY DEF Crash
<1>3. TypeOK'
  BY <1>1, IdleTyped DEF Crash, IInv, TypeOK
<1>4. \A p \in Calls : Good(call[p])'
  BY <1>2 DEF Good, Honest, Idle, NoBook, UidPoints, FreshPoints
<1>5. OnePrinter' /\ Honest(row)'
  BY <1>1, <1>2 DEF OnePrinter, At, Idle, Honest, IInv
<1> QED
  BY <1>1, <1>3, <1>4, <1>5 DEF IInv, RemoteKept

\* Whatever the creator's tabs, the server and Sweetbook do, IInv holds.
THEOREM Invariance == Spec => []IInv
<1>1. Init => IInv
  BY InitInv
<1>2. IInv /\ [Next]_vars => IInv'
  <2> SUFFICES ASSUME IInv, [Next]_vars PROVE IInv'
    OBVIOUS
  <2>1. CASE UNCHANGED vars
    BY <2>1 DEF vars, IInv, TypeOK, RemoteSound, PrintedOnce, Honest, Good,
                OnePrinter, At, uidOf
  <2>2. CASE Crash
    BY <2>2, CrashKept
  <2>3. ASSUME NEW p \in Calls, Request(p) \/ Continue(p) PROVE IInv'
    BY <2>3, RequestKept, ContinueKept
  <2> QED
    BY <2>1, <2>2, <2>3 DEF Next
<1> QED
  BY <1>1, <1>2, PTL DEF Spec

\* Every variable keeps the type the entities and handlers give it.
THEOREM TypeCorrect == Spec => []TypeOK
<1>1. IInv => TypeOK
  BY DEF IInv
<1> QED
  BY <1>1, Invariance, PTL

\* No page comes to one Sweetbook book with two calls, however many handlers
\* finalize it at once, fail in the middle, or are restarted.
THEOREM PagesPrintedOnce == Spec => []PrintedOnce
<1>1. IInv => PrintedOnce
  BY DEF IInv
<1> QED
  BY <1>1, Invariance, PTL

\* A book that is READY is one Sweetbook has finalized: no save of an old copy
\* pairs that status with a Sweetbook book that is still a draft.
THEOREM ReadyIsFinal == Spec => []ReadyWasFinalized
<1>1. IInv => ReadyWasFinalized
  BY UidAssumption DEF IInv, Honest, ReadyWasFinalized
<1> QED
  BY <1>1, Invariance, PTL

-----------------------------------------------------------------------------
(***************************************************************************)
(* The length of a book.  What the Sweetbook book has, and what the one    *)
(* handler that adds pages to it has yet to add, make up the length the    *)
(* book is padded to; a book without a cover has no pages, so every        *)
(* handler starts counting from nothing.                                   *)
(***************************************************************************)
Length(n) == n + Padding(n)

InStep(h) ==
  LET book == remote[h.book.uid]
  IN  /\ h.todo \subseteq h.pages
      /\ ~book.again =>
           book.count + Cardinality(h.todo) + h.blanks = Length(Cardinality(h.pages))

Accounted ==
  /\ \A u \in Uids : ~remote[u].cover => remote[u].count = 0
  /\ \A p \in Calls : At(p, "contents") => InStep(call[p])

(***************************************************************************)
(* One request at a time.  Once the book is taken, opened for ordering or  *)
(* billed, it and every copy of it is finished, and the handlers that may  *)
(* still be under way are the ones that save it as it is.                  *)
(***************************************************************************)
Finished == {"READY", "ORDERED"}
Taken == billed \/ group # "none"

OrderPoints == {"orderOpen", "place", "placeAgain", "groupSave", "orderedSave"}
SafePoints == OrderPoints \cup
  {"addPages", "findPage", "deletePage", "updatePage", "saveCopy",
   "deleteRemote", "deletePages", "remove"}

Alone == \A p, q \in Calls : p # q => At(p, "idle") \/ At(q, "idle")

Harmless(p) ==
  /\ Exists
  /\ Taken \/ call[p].at \in OrderPoints =>
       /\ row.status \in Finished
       /\ call[p].at \in SafePoints
       /\ Held(p).status \in Finished

Settled ==
  calm =>
    /\ Alone
    /\ Taken => row.status \in Finished \cup {"DELETED"}
    /\ \A p \in Calls : At(p, "idle") \/ Harmless(p)

-----------------------------------------------------------------------------
(* The arithmetic of padding *)

\* Rounding up to a multiple.
LEMMA RoundedUp ==
  ASSUME NEW a \in Nat, NEW d \in Nat \ {0}
  PROVE  (a % d) \in 0 .. d - 1 /\ (a + d - (a % d)) % d = 0
<1> DEFINE q == a \div d
           r == a % d
           b == a + d - r
           q2 == b \div d
           r2 == b % d
<1>1. q \in Int /\ r \in 0 .. d - 1 /\ a = d * q + r
  OBVIOUS
<1>2. b \in Int
  BY <1>1
<1>3. q2 \in Int /\ r2 \in 0 .. d - 1 /\ b = d * q2 + r2
  BY <1>2
<1>4. r2 = d * (q + 1 - q2)
  BY <1>1, <1>3
<1>5. q + 1 - q2 \in Int
  BY <1>1, <1>3
<1> HIDE DEF q, r, b, q2, r2
<1>6. r2 = 0
  <2> DEFINE k == q + 1 - q2
  <2>1. k \in Int /\ r2 = d * k /\ r2 >= 0 /\ r2 < d /\ d > 0
    BY <1>3, <1>4, <1>5
  <2> HIDE DEF k
  <2>2. CASE k >= 1
    <3>1. d * k >= d
      BY <2>1, <2>2
    <3> QED
      BY <2>1, <3>1
  <2>3. CASE k <= -1
    <3>1. d * k <= -d
      BY <2>1, <2>3
    <3> QED
      BY <2>1, <3>1
  <2>4. CASE k = 0
    BY <2>1, <2>4
  <2> QED
    BY <2>1, <2>2, <2>3, <2>4
<1>7. (a % d) \in 0 .. d - 1
  BY <1>1 DEF r
<1> QED
  BY <1>6, <1>7 DEF r2, b, r

\* A book with at most pageMax pages is padded to a length the specification
\* allows.
LEMMA PaddedFits ==
  ASSUME NEW n \in Nat, n <= PageMax
  PROVE  Fits(Length(n))
<1> DEFINE target == IF n < PageMin THEN PageMin ELSE n
           rem == (target - PageMin) % PageIncrement
           up == target + PageIncrement - rem
           rounded == IF rem = 0 THEN target ELSE up
<1>1. /\ target \in Nat /\ target - PageMin \in Nat
      /\ target >= PageMin /\ target >= n /\ target <= PageMax
  BY SpecAssumption
<1> HIDE DEF target
<1>2. /\ rem \in 0 .. PageIncrement - 1
      /\ ((target - PageMin) + PageIncrement - rem) % PageIncrement = 0
  <2> DEFINE a == target - PageMin
  <2>1. a \in Nat
    BY <1>1
  <2> HIDE DEF a
  <2>2. /\ (a % PageIncrement) \in 0 .. PageIncrement - 1
        /\ (a + PageIncrement - (a % PageIncrement)) % PageIncrement = 0
    BY <2>1, SpecAssumption, RoundedUp
  <2> QED
    BY <2>2 DEF a
<1>3. up - PageMin = (target - PageMin) + PageIncrement - rem
  BY <1>1, <1>2, SpecAssumption
<1>4. (up - PageMin) % PageIncrement = 0
  BY <1>2, <1>3
<1>5. up \in Nat /\ up >= target
  BY <1>1, <1>2, SpecAssumption
<1> HIDE DEF up
<1>6. /\ rounded \in Nat /\ rounded >= target
      /\ (rounded - PageMin) % PageIncrement = 0
  BY <1>1, <1>4, <1>5
<1> HIDE DEF rem, rounded
<1>7. calcTargetPageCount(n) = IF rounded > PageMax THEN PageMax ELSE rounded
  BY DEF calcTargetPageCount, target, rem, up, rounded
<1>8. Length(n) = calcTargetPageCount(n)
  BY <1>1, <1>6, <1>7, SpecAssumption DEF Length, Padding
<1> QED
  BY <1>1, <1>6, <1>7, <1>8, SpecAssumption DEF Fits

-----------------------------------------------------------------------------
(* The length of a book: every step *)

\* No handler starts adding pages or goes on doing so.
StandStill == \A q \in Calls : call'[q].at = "contents" => call'[q] = call[q]

\* A handler that goes anywhere but to the pages, returns or begins.
LEMMA ElsewhereStill ==
  ASSUME IInv, NEW p \in Calls,
         \/ \E at \in Points \ {"contents"} : Goto(p, at) \/ Begin(p, at)
         \/ Return(p)
  PROVE  StandStill
<1>1. Moved(p) /\ call'[p].at # "contents"
  <2>1. CASE Return(p)
    BY <2>1, ReturnMoves DEF IInv, Idle
  <2>2. CASE \E at \in Points \ {"contents"} : Goto(p, at) \/ Begin(p, at)
    BY <2>2, GotoMoves, BeginMoves DEF IInv
  <2> QED
    BY <2>1, <2>2
<1> QED
  BY <1>1 DEF Moved, StandStill

\* As long as nobody adds pages, the accounts are right; a Sweetbook book that
\* changes otherwise is one nobody adds pages to.
LEMMA StillAccounted ==
  ASSUME IInv, Accounted, StandStill,
         \A u \in Uids :
           \/ /\ remote'[u].count = remote[u].count
              /\ remote'[u].again = remote[u].again
              /\ ~remote'[u].cover => ~remote[u].cover
           \/ ~remote[u].cover /\ remote'[u].count = 0
  PROVE  Accounted'
<1>1. \A u \in Uids : ~remote'[u].cover => remote'[u].count = 0
  BY DEF Accounted
<1>2. ASSUME NEW q \in Calls, At(q, "contents")' PROVE InStep(call[q])'
  <2>1. call'[q] = call[q] /\ At(q, "contents") /\ InStep(call[q])
    BY <1>2 DEF StandStill, At, Accounted
  <2>2. call[q].book.uid \in Uids /\ remote[call[q].book.uid].cover
    BY <2>1 DEF IInv, Good, At, UidPoints
  <2>3. /\ remote'[call[q].book.uid].count = remote[call[q].book.uid].count
        /\ remote'[call[q].book.uid].again = remote[call[q].book.uid].again
    BY <2>2
  <2> QED
    BY <2>1, <2>3 DEF InStep
<1> QED
  BY <1>1, <1>2 DEF Accounted

LEMMA QuietAccounted ==
  ASSUME IInv, Accounted, StandStill, remote' = remote
  PROVE  Accounted'
BY StillAccounted

\* What Sweetbook does apart from adding pages.
LEMMA RemoteAccounted ==
  ASSUME IInv, Accounted, StandStill,
         \/ UNCHANGED remote
         \/ \E u \in Uids : ~remote[u].made /\ MakeRemote(u)
         \/ \E u : DropRemote(u)
         \/ \E u \in Uids : AddCover(u) \/ Finalize(u)
  PROVE  Accounted'
<1>0. remote \in [Uids -> Remote] /\ \A u \in Uids : remote[u] \in Remote
  BY DEF IInv, TypeOK
<1>1. CASE UNCHANGED remote
  BY <1>1, QuietAccounted
<1>2. ASSUME NEW u \in Uids, ~remote[u].made, MakeRemote(u) PROVE Accounted'
  <2>1. ~remote[u].cover
    BY <1>2 DEF IInv, RemoteSound
  <2>2. remote'[u].count = 0 /\ \A v \in Uids \ {u} : remote'[v] = remote[v]
    BY <1>0, <1>2 DEF MakeRemote, NotMade
  <2> QED
    BY <2>1, <2>2, StillAccounted
<1>3. ASSUME NEW u, DropRemote(u) PROVE Accounted'
  <2>1. \A v \in Uids : /\ remote'[v].count = remote[v].count
                        /\ remote'[v].again = remote[v].again
                        /\ remote'[v].cover = remote[v].cover
    BY <1>0, <1>3 DEF DropRemote, Remote
  <2> QED
    BY <2>1, StillAccounted
<1>4. ASSUME NEW u \in Uids, AddCover(u) \/ Finalize(u) PROVE Accounted'
  <2>1. \A v \in Uids : /\ remote'[v].count = remote[v].count
                        /\ remote'[v].again = remote[v].again
                        /\ ~remote'[v].cover => ~remote[v].cover
    <3>1. CASE AddCover(u)
      BY <1>0, <3>1 DEF AddCover, Remote
    <3>2. CASE Finalize(u)
      BY <1>0, <3>2 DEF Finalize, Remote
    <3> QED
      BY <1>4, <3>1, <3>2
  <2> QED
    BY <2>1, StillAccounted
<1> QED
  BY <1>1, <1>2, <1>3, <1>4

\* The handler that adds pages to a Sweetbook book disturbs no other's accounts:
\* nobody else adds pages to it.
LEMMA PrinterAccounted ==
  ASSUME IInv, Accounted, NEW p \in Calls, Moved(p), NEW u \in Uids,
         \A v \in Uids \ {u} : remote'[v] = remote[v],
         remote'[u].cover,
         \A q \in Calls \ {p} : At(q, "contents") => uidOf(q) # u,
         At(p, "contents")' => InStep(call[p])'
  PROVE  Accounted'
<1>1. \A v \in Uids : ~remote'[v].cover => remote'[v].count = 0
  BY DEF Accounted
<1>2. ASSUME NEW q \in Calls, At(q, "contents")', q # p PROVE InStep(call[q])'
  <2>1. call'[q] = call[q] /\ At(q, "contents") /\ InStep(call[q])
    BY <1>2 DEF Moved, At, Accounted
  <2>2. call[q].book.uid \in Uids \ {u}
    BY <1>2, <2>1 DEF IInv, Good, At, UidPoints, uidOf
  <2>3. remote'[call[q].book.uid] = remote[call[q].book.uid]
    BY <2>2
  <2> QED
    BY <2>1, <2>3 DEF InStep
<1> QED
  BY <1>1, <1>2 DEF Accounted

\* The pages of a book can be counted, and so can what is left of them.
LEMMA Countable ==
  ASSUME NEW S \in SUBSET Pages
  PROVE  IsFiniteSet(S) /\ Cardinality(S) \in Nat
BY PagesAssumption, FS_Subset, FS_CardinalityType

\* With the cover a handler begins to count: the Sweetbook book is empty.
LEMMA CoverAccounted ==
  ASSUME IInv, Accounted, NEW p \in Calls, PostCover(p)
  PROVE  Accounted'
<1> DEFINE u == uidOf(p)
<1>1. /\ call[p] \in Handler /\ u \in Uids /\ u = call[p].book.uid
      /\ call[p].pages \subseteq Pages
  BY DEF IInv, TypeOK, Handler, Good, PostCover, At, UidPoints, uidOf
<1> HIDE DEF u
<1>2. CASE Return(p) /\ (AddCover(u) \/ UNCHANGED remote)
  BY <1>1, <1>2, ElsewhereStill, RemoteAccounted
<1>3. CASE AddCover(u) /\ StartContents(p)
  <2> DEFINE n == Cardinality(call[p].pages)
             new == [call[p] EXCEPT !.at = "contents", !.todo = call[p].pages,
                                    !.blanks = Padding(n)]
  <2>1. n \in Nat /\ Padding(n) \in Nat
    BY <1>1, Countable, PaddingTyped
  <2>2. call' = [call EXCEPT ![p] = new]
    BY <1>3 DEF StartContents
  <2> HIDE DEF n
  <2>3. /\ new \in Handler /\ new.at = "contents" /\ new.book = call[p].book
        /\ new.todo = call[p].pages /\ new.pages = call[p].pages
        /\ new.blanks = Padding(n)
    BY <1>1, <2>1 DEF Handler, Points
  <2> HIDE DEF new
  <2>4. Moved(p) /\ call'[p] = new
    BY <2>2, <2>3 DEF Moved, IInv, TypeOK
  <2>5. /\ ~remote[u].cover /\ remote'[u].cover /\ remote'[u].count = 0
        /\ \A v \in Uids \ {u} : remote'[v] = remote[v]
    <3>1. remote[u] \in Remote /\ remote \in [Uids -> Remote]
      BY <1>1 DEF IInv, TypeOK
    <3>2. ~remote[u].cover /\ remote[u].count = 0
      BY <1>1, <1>3 DEF AddCover, Accounted
    <3> QED
      BY <1>1, <1>3, <3>1, <3>2 DEF AddCover, Remote
  <2>6. \A q \in Calls \ {p} : At(q, "contents") => uidOf(q) # u
    BY <2>5 DEF IInv, Good, At, uidOf
  <2>7. InStep(call[p])'
    BY <1>1, <2>1, <2>3, <2>4, <2>5 DEF InStep, Length, n
  <2> QED
    BY <1>1, <2>4, <2>5, <2>6, <2>7, PrinterAccounted
<1> QED
  BY <1>2, <1>3 DEF PostCover, addCover, u

\* What the handler of a Sweetbook book is entitled to assume while it adds
\* pages.
LEMMA PrinterFacts ==
  ASSUME IInv, Accounted, NEW p \in Calls, At(p, "contents")
  PROVE  /\ call[p] \in Handler /\ call[p].pages \subseteq Pages
         /\ uidOf(p) \in Uids /\ uidOf(p) = call[p].book.uid
         /\ remote \in [Uids -> Remote] /\ remote[uidOf(p)] \in Remote
         /\ remote[uidOf(p)].cover /\ InStep(call[p])
         /\ \A q \in Calls \ {p} : At(q, "contents") => uidOf(q) # uidOf(p)
<1>1. call[p] \in Handler /\ Good(call[p]) /\ remote \in [Uids -> Remote]
  BY DEF IInv, TypeOK
<1>2. uidOf(p) \in Uids /\ uidOf(p) = call[p].book.uid /\ remote[uidOf(p)].cover
  BY <1>1 DEF Good, At, UidPoints, uidOf
<1>3. \A q \in Calls \ {p} : At(q, "contents") => uidOf(q) # uidOf(p)
  BY DEF IInv, OnePrinter
<1> QED
  BY <1>1, <1>2, <1>3 DEF Accounted, Handler

\* Added once, a page moves from what is left to what is there; added again, it
\* is no longer counted on.
LEMMA PageAccounted ==
  ASSUME IInv, Accounted, NEW p \in Calls, NEW g \in Pages, PostPage(p, g)
  PROVE  Accounted'
<1> DEFINE u == uidOf(p)
           h == call[p]
<1>1. At(p, "contents") /\ g \in h.todo
  BY DEF PostPage
<1>2. /\ h \in Handler /\ h.pages \subseteq Pages /\ u \in Uids /\ u = h.book.uid
      /\ remote \in [Uids -> Remote] /\ remote[u] \in Remote
      /\ remote[u].cover /\ InStep(h)
      /\ \A q \in Calls \ {p} : At(q, "contents") => uidOf(q) # u
  BY <1>1, PrinterFacts
<1>3. CASE UNCHANGED remote /\ Return(p)
  BY <1>3, ElsewhereStill, QuietAccounted
<1>4. ASSUME NEW times \in Repeats, AddPage(u, g, times),
             \/ call' = [call EXCEPT ![p].todo = @ \ {g}]
             \/ Return(p)
      PROVE  Accounted'
  <2>1. times \in Nat \ {0}
    BY RepeatsTyped
  <2>2. /\ \A v \in Uids \ {u} : remote'[v] = remote[v]
        /\ remote'[u].cover = remote[u].cover
        /\ remote'[u].count = remote[u].count + times
        /\ remote'[u].again = (remote[u].again \/ times > 1)
    BY <1>2, <1>4 DEF AddPage, Remote
  <2>3. CASE Return(p)
    <3>1. Moved(p) /\ ~At(p, "contents")'
      BY <2>3, ReturnMoves DEF IInv, At, Idle
    <3> QED
      BY <1>2, <2>2, <3>1, PrinterAccounted
  <2>4. CASE call' = [call EXCEPT ![p].todo = @ \ {g}]
    <3> DEFINE new == [h EXCEPT !.todo = @ \ {g}]
    <3>1. /\ new \in Handler /\ new.book = h.book /\ new.pages = h.pages
          /\ new.todo = h.todo \ {g} /\ new.blanks = h.blanks
      BY <1>2 DEF Handler
    <3>2. call' = [call EXCEPT ![p] = new]
      BY <2>4
    <3> HIDE DEF new
    <3>3. Moved(p) /\ call'[p] = new
      BY <3>1, <3>2 DEF Moved, IInv, TypeOK
    <3>4. h.todo \subseteq h.pages
      BY <1>2 DEF InStep
    <3>5. /\ Cardinality(h.todo \ {g}) = Cardinality(h.todo) - 1
          /\ Cardinality(h.todo) \in Nat
      BY <1>1, <1>2, <3>4, Countable, FS_RemoveElement
    <3>6. ~remote'[u].again => times = 1 /\ ~remote[u].again
      <4>1. ~(times > 1) => times = 1
        BY <2>1
      <4>2. ~remote'[u].again => ~(times > 1) /\ ~remote[u].again
        BY <2>2, Zenon
      <4> QED
        BY <4>1, <4>2, Zenon
    <3>7. remote[u].count \in Nat /\ h.blanks \in Nat
      BY <1>2 DEF Remote, Handler
    <3>8. ~remote'[u].again =>
            remote'[u].count + Cardinality(new.todo) + new.blanks
              = Length(Cardinality(new.pages))
      BY <1>2, <2>2, <3>1, <3>5, <3>6, <3>7 DEF InStep
    <3>9. InStep(call[p])'
      BY <1>2, <3>1, <3>3, <3>4, <3>8 DEF InStep
    <3> QED
      BY <1>2, <2>2, <3>3, <3>9, PrinterAccounted
  <2> QED
    BY <1>4, <2>3, <2>4
<1> QED
  BY <1>3, <1>4 DEF PostPage, addContents

\* The same of a blank page.
LEMMA BlankAccounted ==
  ASSUME IInv, Accounted, NEW p \in Calls, PostBlank(p)
  PROVE  Accounted'
<1> DEFINE u == uidOf(p)
           h == call[p]
<1>1. At(p, "contents") /\ h.blanks > 0
  BY DEF PostBlank
<1>2. /\ h \in Handler /\ h.pages \subseteq Pages /\ u \in Uids /\ u = h.book.uid
      /\ remote \in [Uids -> Remote] /\ remote[u] \in Remote
      /\ remote[u].cover /\ InStep(h)
      /\ \A q \in Calls \ {p} : At(q, "contents") => uidOf(q) # u
  BY <1>1, PrinterFacts
<1>3. CASE UNCHANGED remote /\ Return(p)
  BY <1>3, ElsewhereStill, QuietAccounted
<1>4. ASSUME NEW times \in Repeats, AddBlank(u, times),
             \/ call' = [call EXCEPT ![p].blanks = @ - 1]
             \/ Return(p)
      PROVE  Accounted'
  <2>1. times \in Nat \ {0}
    BY RepeatsTyped
  <2>2. /\ \A v \in Uids \ {u} : remote'[v] = remote[v]
        /\ remote'[u].cover = remote[u].cover
        /\ remote'[u].count = remote[u].count + times
        /\ remote'[u].again = (remote[u].again \/ times > 1)
    BY <1>2, <1>4 DEF AddBlank, Remote
  <2>3. CASE Return(p)
    <3>1. Moved(p) /\ ~At(p, "contents")'
      BY <2>3, ReturnMoves DEF IInv, At, Idle
    <3> QED
      BY <1>2, <2>2, <3>1, PrinterAccounted
  <2>4. CASE call' = [call EXCEPT ![p].blanks = @ - 1]
    <3> DEFINE new == [h EXCEPT !.blanks = @ - 1]
    <3>1. /\ new \in Handler /\ new.book = h.book /\ new.pages = h.pages
          /\ new.todo = h.todo /\ new.blanks = h.blanks - 1
      BY <1>1, <1>2 DEF Handler
    <3>2. call' = [call EXCEPT ![p] = new]
      BY <2>4
    <3> HIDE DEF new
    <3>3. Moved(p) /\ call'[p] = new
      BY <3>1, <3>2 DEF Moved, IInv, TypeOK
    <3>4. h.todo \subseteq h.pages /\ Cardinality(h.todo) \in Nat
      BY <1>2, Countable DEF InStep
    <3>5. ~remote'[u].again => times = 1 /\ ~remote[u].again
      <4>1. ~(times > 1) => times = 1
        BY <2>1
      <4>2. ~remote'[u].again => ~(times > 1) /\ ~remote[u].again
        BY <2>2, Zenon
      <4> QED
        BY <4>1, <4>2, Zenon
    <3>6. remote[u].count \in Nat /\ h.blanks \in Nat
      BY <1>2 DEF Remote, Handler
    <3>7. ~remote'[u].again =>
            remote'[u].count + Cardinality(new.todo) + new.blanks
              = Length(Cardinality(new.pages))
      BY <1>2, <2>2, <3>1, <3>4, <3>5, <3>6 DEF InStep
    <3>8. InStep(call[p])'
      BY <1>2, <3>1, <3>3, <3>4, <3>7 DEF InStep
    <3> QED
      BY <1>2, <2>2, <3>3, <3>8, PrinterAccounted
  <2> QED
    BY <1>4, <2>3, <2>4
<1> QED
  BY <1>3, <1>4 DEF PostBlank, addBlankContents

\* A request that is starting adds no pages yet.
LEMMA RequestAccounted ==
  ASSUME IInv, Accounted, NEW p \in Calls, Request(p)
  PROVE  Accounted'
<1>1. CASE CreateInsert(p)
  <2>1. StandStill
    BY <1>1 DEF CreateInsert, Idle, StandStill, IInv, TypeOK
  <2> QED
    BY <1>1, <2>1, QuietAccounted DEF CreateInsert
<1>2. CASE \E at \in Points \ {"contents"} : Begin(p, at) /\ remote' = remote
  BY <1>2, ElsewhereStill, QuietAccounted
<1>3. CASE DeleteCheck(p) \/ RetryCheck(p) \/ PlaceCheck(p)
  <2>1. \E at \in {"deletePages", "deleteRemote", "retryPost", "retryDelete",
                   "place", "placeAgain"} : Begin(p, at) /\ remote' = remote
    BY <1>3 DEF DeleteCheck, RetryCheck, PlaceCheck
  <2> QED
    BY <1>2, <2>1 DEF Points
<1>4. CASE \/ AddStart(p) \/ PageStart(p) \/ EditStart(p)
           \/ FinalizeCheck(p) \/ OrderCheck(p)
  <2>1. \E at \in {"addPages", "findPage", "saveCopy", "finalizeRead",
                   "orderOpen"} : Begin(p, at) /\ remote' = remote
    BY <1>4 DEF AddStart, PageStart, EditStart, FinalizeCheck, OrderCheck
  <2> QED
    BY <1>2, <2>1 DEF Points
<1> QED
  BY <1>1, <1>3, <1>4 DEF Request

\* A step whose handler is not at the pages afterwards, and which adds none.
LEMMA OtherAccounted ==
  ASSUME IInv, Accounted, NEW p \in Calls, Continue(p),
         ~PostCover(p), ~(\E g \in Pages : PostPage(p, g)), ~PostBlank(p)
  PROVE  Accounted'
<1>0. /\ call \in [Calls -> Handler] /\ call[p] \in Handler
      /\ remote' = remote => UNCHANGED remote
  BY DEF IInv, TypeOK
<1>1. ASSUME NEW next \in Points \ {"contents"}, PostBook(p, next)
      PROVE  Accounted'
  <2>1. StandStill
    <3>1. CASE Return(p)
      BY <3>1, ElsewhereStill
    <3>2. ASSUME NEW u \in Uids,
                 call' = [call EXCEPT ![p].at = next, ![p].book.uid = u]
          PROVE  StandStill
      BY <1>0, <3>2 DEF StandStill, Handler
    <3> QED
      BY <1>1, <3>1, <3>2 DEF PostBook
  <2> QED
    BY <1>1, <2>1, RemoteAccounted DEF PostBook
<1>2. ASSUME NEW status, NEW next \in Points \ {"contents"}, Mark(p, status, next),
             UNCHANGED remote
      PROVE  Accounted'
  <2>1. StandStill
    <3>1. CASE Return(p)
      BY <3>1, ElsewhereStill
    <3>2. CASE call' = [call EXCEPT ![p].at = next, ![p].book.status = status]
      BY <1>0, <3>2 DEF StandStill, Handler
    <3> QED
      BY <1>2, <3>1, <3>2 DEF Mark
  <2> QED
    BY <1>2, <2>1, RemoteAccounted
<1>3. CASE FindPage(p)
  <2>1. StandStill
    <3>1. CASE Return(p)
      BY <3>1, ElsewhereStill
    <3>2. ASSUME NEW g \in pages, NEW at \in {"deletePage", "updatePage"},
                 call' = [call EXCEPT ![p].at = at, ![p].todo = {g}]
          PROVE  StandStill
      BY <1>0, <3>2 DEF StandStill, Handler
    <3> QED
      BY <1>3, <3>1, <3>2 DEF FindPage
  <2> QED
    BY <1>3, <2>1, QuietAccounted DEF FindPage
<1>4. CASE FinalizeRead(p)
  <2>1. StandStill
    <3>1. CASE Return(p) \/ Goto(p, "failing")
      BY <3>1, ElsewhereStill DEF Points
    <3>2. CASE call' = [call EXCEPT ![p].at = "uploading", ![p].pages = pages]
      BY <1>0, <3>2 DEF StandStill, Handler
    <3> QED
      BY <1>4, <3>1, <3>2 DEF FinalizeRead
  <2> QED
    BY <1>4, <2>1, QuietAccounted DEF FinalizeRead
<1>5. CASE CreatePost(p) \/ RetryPost(p)
  BY <1>1, <1>5 DEF CreatePost, RetryPost, Points
<1>6. CASE MarkUploading(p) \/ MarkProcessing(p)
  BY <1>2, <1>6 DEF MarkUploading, MarkProcessing, Points
<1>7. ASSUME \/ UNCHANGED remote
             \/ \E u : DropRemote(u)
             \/ \E u \in Uids : Finalize(u),
             \/ \E at \in Points \ {"contents"} : Goto(p, at)
             \/ Return(p)
      PROVE  Accounted'
  BY <1>7, ElsewhereStill, RemoteAccounted
<1>8. CASE \/ SaveCopy(p) \/ AddPages(p) \/ DeletePage(p) \/ UpdatePage(p)
           \/ DeletePages(p) \/ Remove(p) \/ SaveReady(p) \/ SaveFailed(p)
           \/ RetrySave(p) \/ OrderOpen(p) \/ GroupSave(p) \/ OrderedSave(p)
  <2>1. UNCHANGED remote
    BY <1>8 DEF SaveCopy, AddPages, DeletePage, UpdatePage, DeletePages, Remove,
                SaveReady, SaveFailed, RetrySave, OrderOpen, GroupSave, OrderedSave
  <2>2. \/ Return(p)
        \/ \E at \in {"saveCopy", "remove", "failing", "orderedSave"} : Goto(p, at)
    BY <1>8 DEF SaveCopy, AddPages, DeletePage, UpdatePage, DeletePages, Remove,
                SaveReady, SaveFailed, RetrySave, OrderOpen, GroupSave, OrderedSave
  <2> QED
    BY <1>7, <2>1, <2>2 DEF Points
<1>9. CASE PlaceOrders(p) \/ Upload(p)
  <2>1. UNCHANGED remote
    BY <1>9 DEF PlaceOrders, Upload
  <2>2. \/ Return(p)
        \/ \E at \in {"groupSave", "processing", "failing"} : Goto(p, at)
    BY <1>9 DEF PlaceOrders, Upload, uploadPhotoToBook
  <2> QED
    BY <1>7, <2>1, <2>2 DEF Points
<1>10. CASE DeleteRemote(p) \/ RetryDelete(p)
  <2>1. UNCHANGED remote \/ \E u : DropRemote(u)
    BY <1>10 DEF DeleteRemote, RetryDelete, deleteBook
  <2>2. \E at \in {"deletePages", "retryPost"} : Goto(p, at)
    BY <1>10 DEF DeleteRemote, RetryDelete
  <2> QED
    BY <1>7, <2>1, <2>2 DEF Points
<1>11. CASE PostFinalize(p)
  <2>1. uidOf(p) \in Uids
    BY <1>11, PrinterFacts DEF PostFinalize, AllPosted
  <2>2. \/ UNCHANGED remote
        \/ \E u \in Uids : Finalize(u)
    BY <1>11, <2>1 DEF PostFinalize, finalizeBook
  <2>3. \E at \in {"ready", "failing"} : Goto(p, at)
    BY <1>11 DEF PostFinalize, finalizeBook
  <2> QED
    BY <1>7, <2>2, <2>3 DEF Points
<1> QED
  BY <1>3, <1>4, <1>5, <1>6, <1>8, <1>9, <1>10, <1>11 DEF Continue

\* Whatever the tabs, the server and Sweetbook do, the accounts of every handler
\* that adds pages are right.
THEOREM AlwaysAccounted == Spec => []Accounted
<1>1. Init => Accounted
  <2> SUFFICES ASSUME Init PROVE Accounted
    OBVIOUS
  <2>1. \A u \in Uids : remote[u].count = 0
    BY DEF Init, NotMade
  <2>2. \A p \in Calls : ~At(p, "contents")
    BY DEF Init, At, Idle
  <2> QED
    BY <2>1, <2>2 DEF Accounted
<1>2. IInv /\ Accounted /\ [Next]_vars => Accounted'
  <2> SUFFICES ASSUME IInv, Accounted, [Next]_vars PROVE Accounted'
    OBVIOUS
  <2>1. CASE UNCHANGED vars
    BY <2>1 DEF vars, Accounted, InStep, At
  <2>2. CASE Crash
    BY <2>2, QuietAccounted DEF Crash, StandStill, Idle
  <2>3. ASSUME NEW p \in Calls, Request(p) PROVE Accounted'
    BY <2>3, RequestAccounted
  <2>4. ASSUME NEW p \in Calls, Continue(p) PROVE Accounted'
    BY <2>4, CoverAccounted, PageAccounted, BlankAccounted, OtherAccounted
  <2> QED
    BY <2>1, <2>2, <2>3, <2>4 DEF Next
<1> QED
  BY <1>1, <1>2, Invariance, PTL DEF Spec

\* A book that comes to its finalization has a length that the specification
\* allows, whatever crashed, failed or ran at the same time before, unless it
\* has too many pages of its own or the client's repeats added some twice.
THEOREM FinalizedBookFits == Spec => []TargetFits
<1>1. IInv /\ Accounted => TargetFits
  <2> SUFFICES ASSUME IInv, Accounted, NEW p \in Calls, AllPosted(p),
                      Cardinality(call[p].pages) <= PageMax,
                      ~remote[uidOf(p)].again
               PROVE  Fits(remote[uidOf(p)].count)
    BY DEF TargetFits
  <2> DEFINE n == Cardinality(call[p].pages)
  <2>1. /\ uidOf(p) = call[p].book.uid /\ remote[uidOf(p)] \in Remote
        /\ InStep(call[p]) /\ call[p].pages \subseteq Pages
    BY PrinterFacts DEF AllPosted
  <2>2. n \in Nat
    BY <2>1, Countable
  <2>3. Cardinality(call[p].todo) = 0 /\ call[p].blanks = 0
    BY FS_EmptySet DEF AllPosted
  <2>4. remote[uidOf(p)].count \in Nat
    BY <2>1 DEF Remote
  <2>5. remote[uidOf(p)].count = Length(n)
    BY <2>1, <2>3, <2>4 DEF InStep
  <2> QED
    BY <2>2, <2>5, PaddedFits
<1> QED
  BY <1>1, Invariance, AlwaysAccounted, PTL
-----------------------------------------------------------------------------
(* One request at a time *)

\* What the one busy handler has to leave behind.
Left(p) ==
  /\ Taken => row.status \in Finished \cup {"DELETED"}
  /\ At(p, "idle") \/ Harmless(p)

\* While the requests have come one at a time, only the busy handler matters.
LEMMA StepSettled ==
  ASSUME Settled, NEW p \in Calls, ~At(p, "idle"),
         \A q \in Calls \ {p} : call'[q] = call[q],
         calm' = calm,
         calm /\ Harmless(p) => Left(p)'
  PROVE  Settled'
<1> SUFFICES ASSUME calm PROVE Settled'
  BY DEF Settled
<1>1. \A q \in Calls \ {p} : At(q, "idle") /\ At(q, "idle")'
  BY DEF Settled, Alone, At
<1>2. Harmless(p)
  BY DEF Settled
<1>3. Left(p)'
  BY <1>2
<1>4. Alone'
  BY <1>1 DEF Alone
<1> QED
  BY <1>1, <1>3, <1>4 DEF Settled, Left

\* A request that comes alone finds a taken book finished, and so does not
\* finalize, retry or create it.
LEMMA RequestSettled ==
  ASSUME IInv, Settled, NEW p \in Calls, Request(p)
  PROVE  Settled'
<1> SUFFICES ASSUME calm, \A q \in Calls : At(q, "idle") PROVE Settled'
  BY DEF Settled, Request
<1>1. Taken => row.status \in Finished \cup {"DELETED"}
  BY DEF Settled
<1>2. ASSUME \A q \in Calls \ {p} : call'[q] = call[q], Left(p)'
      PROVE  Settled'
  <2>1. \A q \in Calls \ {p} : At(q, "idle")'
    BY <1>2 DEF At
  <2> QED
    BY <1>2, <2>1 DEF Settled, Left, Alone
<1>3. CASE CreateInsert(p)
  <2>1. /\ row.status = "NONE" /\ row'.status = "DRAFT"
        /\ call'[p].at = "createPost" /\ UNCHANGED <<group, billed>>
        /\ \A q \in Calls \ {p} : call'[q] = call[q]
    BY <1>3 DEF CreateInsert, NoBook, Idle, IInv, TypeOK
  <2>2. ~Taken /\ ~Taken'
    BY <1>1, <2>1 DEF Taken, Finished
  <2> QED
    BY <1>2, <2>1, <2>2 DEF Left, Harmless, Exists, OrderPoints
<1>4. ASSUME NEW at \in SafePoints, Begin(p, at), row' = row, Exists,
             Taken' \/ at \in OrderPoints => row.status \in Finished
      PROVE  Settled'
  <2>1. /\ \A q \in Calls \ {p} : call'[q] = call[q]
        /\ call'[p].at = at /\ Held(p)' = row
    BY <1>4, BeginMoves DEF IInv, Moved, Held, Points, SafePoints, OrderPoints
  <2> QED
    BY <1>2, <1>4, <2>1 DEF Left, Harmless, Exists
<1>5. ASSUME NEW at \in Points \ OrderPoints, Begin(p, at), row' = row, Exists,
             ~Taken'
      PROVE  Settled'
  <2>1. /\ \A q \in Calls \ {p} : call'[q] = call[q]
        /\ call'[p].at = at
    BY <1>5, BeginMoves DEF IInv, Moved
  <2> QED
    BY <1>2, <1>5, <2>1 DEF Left, Harmless, Exists
<1>6. CASE AddStart(p) \/ PageStart(p) \/ EditStart(p) \/ DeleteCheck(p)
  <2>1. \E at \in {"addPages", "findPage", "saveCopy", "deletePages",
                   "deleteRemote"} : Begin(p, at)
    BY <1>6 DEF AddStart, PageStart, EditStart, DeleteCheck
  <2>2. Exists /\ UNCHANGED <<row, group, billed>>
    BY <1>6 DEF AddStart, PageStart, EditStart, DeleteCheck, Begin
  <2>3. Taken' => row.status \in Finished
    BY <1>1, <2>2 DEF Taken, Exists
  <2> QED
    BY <1>4, <2>1, <2>2, <2>3 DEF SafePoints, OrderPoints
<1>7. CASE FinalizeCheck(p) \/ RetryCheck(p)
  <2>1. \E at \in {"finalizeRead", "retryPost", "retryDelete"} : Begin(p, at)
    BY <1>7 DEF FinalizeCheck, RetryCheck
  <2>2. /\ row.status \in {"DRAFT", "READY_TO_REVIEW", "FAILED"}
        /\ Exists /\ UNCHANGED <<row, group, billed>>
    BY <1>7 DEF FinalizeCheck, RetryCheck, Begin
  <2>3. ~Taken'
    BY <1>1, <2>2 DEF Taken, Finished
  <2> QED
    BY <1>5, <2>1, <2>2, <2>3 DEF Points, OrderPoints
<1>8. CASE OrderCheck(p)
  <2>1. Begin(p, "orderOpen") /\ row' = row /\ row.status = "READY" /\ Exists
    BY <1>8 DEF OrderCheck, Begin
  <2> QED
    BY <1>4, <2>1 DEF SafePoints, OrderPoints, Finished
<1>9. CASE PlaceCheck(p)
  <2>1. \E at \in {"place", "placeAgain"} : Begin(p, at)
    BY <1>9 DEF PlaceCheck
  <2>2. Exists /\ group # "none" /\ row' = row
    BY <1>9 DEF PlaceCheck, Begin
  <2>3. row.status \in Finished
    BY <1>1, <2>2 DEF Taken, Exists
  <2> QED
    BY <1>4, <2>1, <2>2, <2>3 DEF SafePoints, OrderPoints
<1> QED
  BY <1>3, <1>6, <1>7, <1>8, <1>9 DEF Request

\* The handlers that bring a book along have nothing to do with one that is
\* taken; those that may be under way then save a finished copy, or nothing.
LEMMA ContinueSettled ==
  ASSUME IInv, Settled, NEW p \in Calls, Continue(p)
  PROVE  Settled'
<1>0. /\ call \in [Calls -> Handler] /\ call[p] \in Handler
      /\ Held(p) \in Book /\ row \in Book /\ calm' = calm
  BY DEF IInv, TypeOK, Handler, Held, Continue
\* The handler moves on to a point that is no riskier, or returns.
<1>1. ASSUME NEW at \in Points, Goto(p, at)
      PROVE  /\ \A q \in Calls \ {p} : call'[q] = call[q]
             /\ call'[p].at = at /\ Held(p)' = Held(p)
  BY <1>1, GotoMoves DEF IInv, Moved, Held
<1>2. ASSUME Return(p)
      PROVE  /\ \A q \in Calls \ {p} : call'[q] = call[q]
             /\ At(p, "idle")'
  BY <1>2, ReturnMoves DEF IInv, Moved, At, Idle
\* Any step of a handler that has nothing to do with a taken book.
<1>3. ASSUME ~At(p, "idle"), call[p].at \notin SafePoints,
             \A q \in Calls \ {p} : call'[q] = call[q],
             call'[p].at \notin OrderPoints,
             row'.status \notin {"NONE", "DELETED"} \/ row' = row,
             UNCHANGED <<group, billed>>
      PROVE  Settled'
  <2>1. ASSUME Harmless(p) PROVE Left(p)'
    <3>1. ~Taken /\ Exists
      BY <1>3, <2>1 DEF Harmless
    <3>2. ~Taken' /\ Exists'
      BY <1>3, <3>1 DEF Taken, Exists
    <3> QED
      BY <1>3, <3>2 DEF Left, Harmless
  <2> QED
    BY <1>0, <1>3, <2>1, StepSettled
\* A step that leaves the book, and at most moves on among the safe points.
<1>4. ASSUME ~At(p, "idle"), call[p].at \in SafePoints, row' = row,
             \/ Return(p)
             \/ \E at \in SafePoints : /\ Goto(p, at)
                                       /\ at \in OrderPoints => call[p].at \in OrderPoints,
             UNCHANGED <<group, billed>> \/ call[p].at \in OrderPoints
      PROVE  Settled'
  <2>1. ASSUME Harmless(p) PROVE Left(p)'
    <3>1. Taken' \/ call[p].at \in OrderPoints =>
            row.status \in Finished /\ Held(p).status \in Finished
      BY <1>4, <2>1 DEF Harmless, Taken
    <3>2. CASE Return(p)
      BY <1>2, <1>4, <3>1, <3>2 DEF Left
    <3>3. ASSUME NEW at \in SafePoints, Goto(p, at),
                 at \in OrderPoints => call[p].at \in OrderPoints
          PROVE  Left(p)'
      <4>1. call'[p].at = at /\ Held(p)' = Held(p)
        BY <1>1, <3>3 DEF SafePoints, OrderPoints, Points
      <4>2. Exists /\ Exists'
        BY <1>4, <2>1 DEF Harmless, Exists
      <4> QED
        BY <1>4, <3>1, <3>3, <4>1, <4>2 DEF Left, Harmless
    <3> QED
      BY <1>4, <3>2, <3>3
  <2>2. \A q \in Calls \ {p} : call'[q] = call[q]
    BY <1>1, <1>2, <1>4 DEF SafePoints, OrderPoints, Points
  <2> QED
    BY <1>0, <1>4, <2>1, <2>2, StepSettled
\* A step that ends the handler with a save of its copy.
<1>5. ASSUME ~At(p, "idle"), call[p].at \in SafePoints, Return(p),
             UNCHANGED <<group, billed>>,
             \/ row' = row \/ row'.status = "DELETED"
             \/ row' = Held(p)
             \/ row'.status \in Finished
      PROVE  Settled'
  <2>1. ASSUME Harmless(p) PROVE Left(p)'
    <3>1. Taken' => row.status \in Finished /\ Held(p).status \in Finished
      BY <1>5, <2>1 DEF Harmless, Taken
    <3> QED
      BY <1>2, <1>5, <3>1 DEF Left
  <2> QED
    BY <1>0, <1>2, <1>5, <2>1, StepSettled
<1>6. CASE \/ CreatePost(p) \/ FinalizeRead(p) \/ MarkUploading(p)
           \/ MarkProcessing(p) \/ RetryPost(p)
  <2>1. /\ call[p].at \in {"createPost", "finalizeRead", "uploading", "processing",
                           "retryPost"}
        /\ UNCHANGED <<group, billed>>
    BY <1>6 DEF CreatePost, FinalizeRead, MarkUploading, MarkProcessing, RetryPost, At
  <2>2. row' = row \/ row'.status \in {"UPLOADING", "PROCESSING"}
    BY <1>0, <1>6 DEF CreatePost, FinalizeRead, MarkUploading, MarkProcessing,
                      RetryPost, Mark, SaveAs, Book
  <2>3. /\ \A q \in Calls \ {p} : call'[q] = call[q]
        /\ call'[p].at \in {"idle", "createSave", "uploading", "failing", "upload",
                            "cover", "retrySave"}
    <3>1. CASE Return(p)
      BY <1>2, <3>1 DEF At
    <3>2. CASE Goto(p, "failing")
      BY <1>1, <3>2 DEF Points
    <3>3. CASE call' = [call EXCEPT ![p].at = "uploading", ![p].pages = pages]
      BY <1>0, <3>3 DEF Handler
    <3>4. ASSUME NEW next \in {"createSave", "retrySave"}, NEW u,
                 call' = [call EXCEPT ![p].at = next, ![p].book.uid = u]
          PROVE  /\ \A q \in Calls \ {p} : call'[q] = call[q]
                 /\ call'[p].at = next
      BY <1>0, <3>4 DEF Handler
    <3>5. ASSUME NEW next \in {"upload", "cover"}, NEW status,
                 call' = [call EXCEPT ![p].at = next, ![p].book.status = status]
          PROVE  /\ \A q \in Calls \ {p} : call'[q] = call[q]
                 /\ call'[p].at = next
      BY <1>0, <3>5 DEF Handler
    <3>6. CASE CreatePost(p) \/ RetryPost(p)
      BY <3>1, <3>4, <3>6 DEF CreatePost, RetryPost, PostBook
    <3>7. CASE FinalizeRead(p)
      BY <3>1, <3>2, <3>3, <3>7 DEF FinalizeRead
    <3>8. CASE MarkUploading(p) \/ MarkProcessing(p)
      BY <3>1, <3>5, <3>8 DEF MarkUploading, MarkProcessing, Mark
    <3> QED
      BY <1>6, <3>6, <3>7, <3>8
  <2> QED
    BY <1>3, <2>1, <2>2, <2>3 DEF SafePoints, OrderPoints, At
<1>7. CASE \/ Upload(p) \/ PostCover(p) \/ (\E g \in Pages : PostPage(p, g))
           \/ PostBlank(p) \/ PostFinalize(p) \/ RetryDelete(p)
  <2>1. /\ call[p].at \in {"upload", "cover", "contents", "retryDelete"}
        /\ UNCHANGED <<row, group, billed>>
    BY <1>7 DEF Upload, PostCover, PostPage, PostBlank, PostFinalize, RetryDelete,
                AllPosted, At
  <2>2. /\ \A q \in Calls \ {p} : call'[q] = call[q]
        /\ call'[p].at \in {"idle", "processing", "failing", "contents", "ready",
                            "retryPost"}
    <3>1. CASE Return(p)
      BY <1>2, <3>1 DEF At
    <3>2. CASE \E at \in {"processing", "failing", "ready", "retryPost"} : Goto(p, at)
      BY <1>1, <3>2 DEF Points
    <3>3. CASE StartContents(p)
      BY <1>0, <3>3 DEF StartContents, Handler
    <3>4. ASSUME NEW g, call' = [call EXCEPT ![p].todo = @ \ {g}], At(p, "contents")
          PROVE  /\ \A q \in Calls \ {p} : call'[q] = call[q]
                 /\ call'[p].at = "contents"
      BY <1>0, <3>4 DEF Handler, At
    <3>5. CASE call' = [call EXCEPT ![p].blanks = @ - 1] /\ At(p, "contents")
      BY <1>0, <3>5 DEF Handler, At
    <3>6. CASE Upload(p) \/ RetryDelete(p) \/ PostFinalize(p)
      BY <3>2, <3>6 DEF Upload, uploadPhotoToBook, RetryDelete, PostFinalize,
                        finalizeBook
    <3>7. CASE PostCover(p)
      BY <3>1, <3>3, <3>7 DEF PostCover, addCover
    <3>8. CASE \E g \in Pages : PostPage(p, g)
      BY <3>1, <3>4, <3>8 DEF PostPage, addContents
    <3>9. CASE PostBlank(p)
      BY <3>1, <3>5, <3>9 DEF PostBlank, addBlankContents
    <3> QED
      BY <1>7, <3>6, <3>7, <3>8, <3>9
  <2> QED
    BY <1>3, <2>1, <2>2 DEF SafePoints, OrderPoints, At
<1>8. CASE SaveReady(p) \/ SaveFailed(p) \/ RetrySave(p) \/ (SaveCopy(p) /\ At(p, "createSave"))
  <2>1. /\ call[p].at \in {"ready", "failing", "retrySave", "createSave"}
        /\ UNCHANGED <<group, billed>>
    BY <1>8 DEF SaveReady, SaveFailed, RetrySave, SaveCopy, At
  <2>2. CASE ~(row' = Held(p) /\ At(p, "createSave"))
    <3>1. row' = row \/ row'.status \in {"READY", "FAILED", "DRAFT"}
      BY <1>0, <1>8, <2>2 DEF SaveReady, SaveFailed, RetrySave, SaveCopy, SaveAs, Book
    <3>2. /\ \A q \in Calls \ {p} : call'[q] = call[q]
          /\ call'[p].at \in {"idle", "failing"}
      BY <1>1, <1>2, <1>8 DEF SaveReady, SaveFailed, RetrySave, SaveCopy, Points, At
    <3> QED
      BY <1>3, <2>1, <3>1, <3>2 DEF SafePoints, OrderPoints, At
  <2>3. CASE row' = Held(p) /\ At(p, "createSave")
    <3>1. Return(p)
      BY <1>8, <2>3 DEF SaveReady, SaveFailed, RetrySave, SaveCopy, At
    <3>2. ASSUME Harmless(p) PROVE Left(p)'
      <4>1. ~Taken'
        BY <2>1, <2>3, <3>2 DEF Harmless, Taken, SafePoints, OrderPoints, At
      <4> QED
        BY <1>2, <3>1, <4>1 DEF Left
    <3> QED
      BY <1>0, <1>2, <2>3, <3>1, <3>2, StepSettled DEF At
  <2> QED
    BY <2>2, <2>3
<1>9. CASE SaveCopy(p) /\ At(p, "saveCopy")
  <2>1. /\ row' = row \/ row' = Held(p)
        /\ Return(p) /\ UNCHANGED <<group, billed>>
    BY <1>9 DEF SaveCopy
  <2> QED
    BY <1>5, <1>9, <2>1 DEF SafePoints, At
<1>10. CASE AddPages(p) \/ DeletePage(p) \/ UpdatePage(p) \/ DeleteRemote(p) \/ DeletePages(p)
  <2>1. /\ call[p].at \in {"addPages", "deletePage", "updatePage", "deleteRemote",
                           "deletePages"}
        /\ UNCHANGED <<row, group, billed>>
    BY <1>10 DEF AddPages, DeletePage, UpdatePage, DeleteRemote, DeletePages, At
  <2>2. \/ Return(p)
        \/ \E at \in {"saveCopy", "deletePages", "remove"} : Goto(p, at)
    BY <1>10 DEF AddPages, DeletePage, UpdatePage, DeleteRemote, DeletePages
  <2> QED
    BY <1>4, <2>1, <2>2 DEF SafePoints, OrderPoints, At
<1>11. CASE FindPage(p)
  <2>1. call[p].at = "findPage" /\ UNCHANGED <<row, group, billed>>
    BY <1>11 DEF FindPage, At
  <2>2. CASE Return(p)
    BY <1>4, <2>1, <2>2 DEF SafePoints, At
  <2>3. ASSUME NEW g \in pages, NEW at \in {"deletePage", "updatePage"},
               call' = [call EXCEPT ![p].at = at, ![p].todo = {g}]
        PROVE  Settled'
    <3>1. /\ \A q \in Calls \ {p} : call'[q] = call[q]
          /\ call'[p].at = at /\ Held(p)' = Held(p)
      BY <1>0, <2>3 DEF Handler, Held
    <3>2. ASSUME Harmless(p) PROVE Left(p)'
      <4>1. Exists' /\ Taken' = Taken
        BY <2>1, <3>2 DEF Harmless, Exists, Taken
      <4>2. at \in SafePoints \ OrderPoints
        BY DEF SafePoints, OrderPoints
      <4> QED
        BY <2>1, <3>1, <3>2, <4>1, <4>2 DEF Left, Harmless
    <3> QED
      BY <1>0, <2>1, <3>1, <3>2, StepSettled DEF At
  <2> QED
    BY <1>11, <2>2, <2>3 DEF FindPage
<1>12. CASE Remove(p)
  <2>1. At(p, "remove") /\ Return(p) /\ billed' = billed
    BY <1>12 DEF Remove
  <2>2. CASE UNCHANGED <<row, group>>
    BY <1>5, <2>1, <2>2 DEF SafePoints, At
  <2>3. CASE row'.status = "DELETED"
    <3>1. Left(p)'
      BY <1>2, <2>1, <2>3 DEF Left
    <3> QED
      BY <1>0, <1>2, <2>1, <3>1, StepSettled DEF At
  <2> QED
    BY <1>0, <1>12, <2>2, <2>3 DEF Remove, NoBook
<1>13. CASE OrderOpen(p) \/ PlaceOrders(p) \/ GroupSave(p)
  <2>1. /\ call[p].at \in {"orderOpen", "place", "placeAgain", "groupSave"}
        /\ row' = row
    BY <1>13 DEF OrderOpen, PlaceOrders, GroupSave, At
  <2>2. \/ Return(p)
        \/ \E at \in {"groupSave", "orderedSave"} : Goto(p, at)
    BY <1>13 DEF OrderOpen, PlaceOrders, GroupSave
  <2> QED
    BY <1>4, <2>1, <2>2 DEF SafePoints, OrderPoints, At
<1>14. CASE OrderedSave(p)
  <2>1. /\ row' = row \/ row'.status = "ORDERED"
        /\ At(p, "orderedSave") /\ Return(p) /\ UNCHANGED <<group, billed>>
    BY <1>0, <1>14 DEF OrderedSave, SaveAs, Book
  <2> QED
    BY <1>5, <2>1 DEF SafePoints, OrderPoints, At, Finished
<1>15. SaveCopy(p) => At(p, "createSave") \/ At(p, "saveCopy")
  BY DEF SaveCopy, At
<1> QED
  BY <1>6, <1>7, <1>8, <1>9, <1>10, <1>11, <1>12, <1>13, <1>14, <1>15 DEF Continue

\* While requests come one at a time, what Settled says of the book stays so.
THEOREM AlwaysSettled == Spec => []Settled
<1>1. Init => Settled
  <2> SUFFICES ASSUME Init PROVE Settled
    OBVIOUS
  <2>1. \A p \in Calls : At(p, "idle")
    BY DEF Init, At, Idle
  <2>2. ~Taken
    BY DEF Init, Taken
  <2> QED
    BY <2>1, <2>2 DEF Settled, Alone
<1>2. IInv /\ Settled /\ [Next]_vars => Settled'
  <2> SUFFICES ASSUME IInv, Settled, [Next]_vars PROVE Settled'
    OBVIOUS
  <2>1. CASE UNCHANGED vars
    BY <2>1 DEF vars, Settled, Alone, Taken, Harmless, Exists, Held, At
  <2>2. CASE Crash
    <3>1. \A p \in Calls : At(p, "idle")'
      BY <2>2 DEF Crash, At, Idle
    <3>2. UNCHANGED <<row, group, billed, calm>>
      BY <2>2 DEF Crash
    <3> QED
      BY <3>1, <3>2 DEF Settled, Alone, Taken
  <2>3. ASSUME NEW p \in Calls, Request(p) \/ Continue(p) PROVE Settled'
    BY <2>3, RequestSettled, ContinueSettled
  <2> QED
    BY <2>1, <2>2, <2>3 DEF Next
<1> QED
  BY <1>1, <1>2, Invariance, PTL DEF Spec

\* While requests come one at a time, a book of which copies have been billed
\* stays READY or ORDERED, whatever fails or is retried.
THEOREM BilledStaysReady == Spec => []BilledBookIsReady
<1>1. Settled => BilledBookIsReady
  BY DEF Settled, BilledBookIsReady, Taken, Finished, Exists
<1> QED
  BY <1>1, AlwaysSettled, PTL
=============================================================================
