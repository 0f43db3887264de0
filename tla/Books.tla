-------------------------------- MODULE Books --------------------------------
(***************************************************************************)
(* The life of one photo book (books.service.ts): its creator creates it,  *)
(* edits its pages, finalizes, retries, shares and deletes it, from as     *)
(* many tabs as they like, while the order service (orders.service.ts)     *)
(* opens and places the group order of the finished book.                  *)
(*                                                                         *)
(* As in Orders, every action is the stretch of a handler between two      *)
(* awaits, and a save writes back a whole copy of the book, or inserts it  *)
(* again if the row has been removed.                                      *)
(*                                                                         *)
(* Sweetbook keeps a book of its own for each POST /books.  It takes pages *)
(* only while that book is a draft, and one cover per book.                *)
(***************************************************************************)
EXTENDS Naturals, FiniteSets

CONSTANTS
  Pages,          \* page rows the book may have (a bound)
  Uids,           \* books Sweetbook may create for it (a bound)
  NoUid,          \* sweetbookBookUid is not set
  PageMin, PageMax, PageIncrement,   \* what the book specification allows
  Calls,          \* request handlers that may be in progress at once (a bound)
  Attempts,       \* how often the HTTP client sends one request: MAX_RETRIES + 1
  Personal,       \* whether the book is a PERSONAL one, generated already
  MayCrash        \* whether the server process may die

ASSUME PagesAssumption == IsFiniteSet(Pages)
ASSUME UidAssumption == NoUid \notin Uids
ASSUME SpecAssumption ==
  /\ PageMin \in Nat /\ PageMax \in Nat /\ PageIncrement \in Nat \ {0}
  /\ PageMin <= PageMax /\ (PageMax - PageMin) % PageIncrement = 0
ASSUME AttemptsAssumption == Attempts \in Nat \ {0}
ASSUME CrashAssumption == MayCrash \in BOOLEAN
ASSUME PersonalAssumption == Personal \in BOOLEAN

\* NONE and DELETED stand for a row that is not there yet, or no longer.
\* AUTO_GENERATING is never visible: the transaction that inserts a PERSONAL
\* book with it sets READY_TO_REVIEW before it commits.
Statuses == {"NONE", "DELETED", "DRAFT", "READY_TO_REVIEW", "UPLOADING",
             "PROCESSING", "READY", "ORDERED", "FAILED"}

Book == [status : Statuses, uid : Uids \cup {NoUid}]
NoBook == [status |-> "NONE", uid |-> NoUid]

Points == {"idle", "createPost", "createSave", "deleteRemote", "deletePages",
           "remove", "addPages", "findPage", "deletePage", "updatePage", "saveCopy",
           "finalizeRead", "uploading", "upload", "processing",
           "cover", "contents", "ready", "failing", "retryDelete", "retryPost",
           "retrySave", "orderOpen", "place", "placeAgain", "groupSave",
           "orderedSave"}

VARIABLES
  row,       \* the book: status and sweetbookBookUid
  pages,     \* its rows in book_pages
  remote,    \* the books at Sweetbook
  group,     \* the book's order group: none, open or confirmed
  billed,    \* whether copies of the book have been ordered and billed
  call,      \* request handlers
  calm       \* so far no two requests have overlapped

vars == <<row, pages, remote, group, billed, call, calm>>

-----------------------------------------------------------------------------
Idle == [at |-> "idle", book |-> NoBook, pages |-> {}, todo |-> {}, blanks |-> 0]

\* A Sweetbook book: what it has (count is its number of pages, blank ones
\* included), how many of our calls each page came with, and whether a page
\* was added more than once by one call.
NotMade == [made |-> FALSE, cover |-> FALSE, asked |-> [g \in Pages |-> 0],
            count |-> 0, again |-> FALSE, final |-> FALSE, gone |-> FALSE]

\* Nothing yet, or a PERSONAL book as personal-book.service.ts leaves it.
Init ==
  /\ IF Personal
     THEN \E u \in Uids :
            /\ row = [status |-> "READY_TO_REVIEW", uid |-> u]
            /\ remote = [v \in Uids |-> [NotMade EXCEPT !.made = (v = u)]]
     ELSE row = NoBook /\ remote = [u \in Uids |-> NotMade]
  /\ pages = {}
  /\ group = "none" /\ billed = FALSE
  /\ call = [p \in Calls |-> Idle]
  /\ calm = TRUE

Exists == row.status \notin {"NONE", "DELETED"}
At(p, at) == call[p].at = at
Goto(p, at) == call' = [call EXCEPT ![p].at = at]
Return(p) == call' = [call EXCEPT ![p] = Idle]
Held(p) == call[p].book
uidOf(p) == call[p].book.uid

\* findBookOrFail: a request begins with a copy of the book.
Begin(p, at) ==
  /\ At(p, "idle") /\ Exists
  /\ call' = [call EXCEPT ![p] = [Idle EXCEPT !.at = at, !.book = row]]

\* bookRepository.save of the handler's copy with another status.
SaveAs(p, status) == row' = [Held(p) EXCEPT !.status = status]

\* A status is set on the copy and saved, or the save fails and the exception
\* leaves the handler.
Mark(p, status, next) ==
  \/ /\ SaveAs(p, status)
     /\ call' = [call EXCEPT ![p].at = next, ![p].book.status = status]
  \/ UNCHANGED row /\ Return(p)

-----------------------------------------------------------------------------
(* Sweetbook (external) *)

\* A draft takes photos, a cover and pages.
IsDraft(u) == remote[u].made /\ ~remote[u].final /\ ~remote[u].gone

\* How many pages the book specification lets a book have.
Fits(n) == n >= PageMin /\ n <= PageMax /\ (n - PageMin) % PageIncrement = 0

MakeRemote(u) == remote' = [remote EXCEPT ![u] = [NotMade EXCEPT !.made = TRUE]]
DropRemote(u) == remote' = [remote EXCEPT ![u].gone = TRUE]
AddCover(u) ==
  /\ IsDraft(u) /\ ~remote[u].cover
  /\ remote' = [remote EXCEPT ![u].cover = TRUE]
AddPage(u, g, times) ==
  /\ IsDraft(u)
  /\ remote' = [remote EXCEPT ![u].asked[g] = @ + 1, ![u].count = @ + times,
                              ![u].again = @ \/ times > 1]
AddBlank(u, times) ==
  /\ IsDraft(u)
  /\ remote' = [remote EXCEPT ![u].count = @ + times, ![u].again = @ \/ times > 1]
\* Finalizing twice is answered as success.
Finalize(u) ==
  /\ remote[u].made /\ ~remote[u].gone
  /\ \/ remote[u].final
     \/ remote[u].cover /\ remote[u].count > 0 /\ Fits(remote[u].count)
  /\ remote' = [remote EXCEPT ![u].final = TRUE]

-----------------------------------------------------------------------------
(* The HTTP client, sweetbook.service.ts.  A call returns once the request    *)
(* has been answered, or throws, whether or not Sweetbook has carried it out. *)

\* An attempt that times out, or fails on the way or at Sweetbook, is repeated,
\* although it may have been carried out: a repeated POST of a page adds the
\* page again.  The cover is refused the second time, a photo, a finalization
\* and a deletion repeated change nothing, and POST /books has a key.
Repeats == 1 .. Attempts

uploadPhotoToBook(done, failed) == done \/ failed

addCover(u, done, failed) ==
  \/ AddCover(u) /\ (done \/ failed)
  \/ UNCHANGED remote /\ failed

addContents(u, g, done, failed) ==
  \/ \E times \in Repeats : AddPage(u, g, times) /\ (done \/ failed)
  \/ UNCHANGED remote /\ failed

addBlankContents(u, done, failed) ==
  \/ \E times \in Repeats : AddBlank(u, times) /\ (done \/ failed)
  \/ UNCHANGED remote /\ failed

finalizeBook(u, done, failed) ==
  \/ Finalize(u) /\ (done \/ failed)
  \/ UNCHANGED remote /\ failed

\* Its callers log the exception and go on.
deleteBook(u) == DropRemote(u) \/ UNCHANGED remote

-----------------------------------------------------------------------------
(* createBook *)

CreateInsert(p) ==
  /\ At(p, "idle") /\ row.status = "NONE"
  /\ row' = [NoBook EXCEPT !.status = "DRAFT"]
  /\ call' = [call EXCEPT ![p] = [Idle EXCEPT !.at = "createPost", !.book = row']]
  /\ UNCHANGED <<pages, remote, group, billed>>

\* POST /books: a new book and its uid, or a failure after which Sweetbook
\* may have a book nobody knows.
PostBook(p, next) ==
  \/ \E u \in Uids :
       /\ ~remote[u].made
       /\ MakeRemote(u)
       /\ \/ call' = [call EXCEPT ![p].at = next, ![p].book.uid = u]
          \/ Return(p)
  \/ UNCHANGED remote /\ Return(p)

CreatePost(p) ==
  /\ At(p, "createPost")
  /\ PostBook(p, "createSave")
  /\ UNCHANGED <<row, pages, group, billed>>

\* The tail of every operation that ends by saving its copy as it is:
\* createBook, addPages, deletePage.
SaveCopy(p) ==
  /\ call[p].at \in {"createSave", "saveCopy"}
  /\ row' = Held(p) \/ UNCHANGED row
  /\ Return(p)
  /\ UNCHANGED <<pages, remote, group, billed>>

-----------------------------------------------------------------------------
(* Editing: the creator may, whatever the status of the book *)

AddStart(p) ==
  /\ Begin(p, "addPages")
  /\ UNCHANGED <<row, pages, remote, group, billed>>

\* The new pages refer to the book, so inserting them fails if it is gone.
AddPages(p) ==
  /\ At(p, "addPages")
  /\ \/ /\ Exists
        /\ \E new \in SUBSET (Pages \ pages) \ {{}} : pages' = pages \cup new
        /\ Goto(p, "saveCopy")
     \/ UNCHANGED pages /\ Return(p)
  /\ UNCHANGED <<row, remote, group, billed>>

\* deletePage and updatePage read the book, then the page they work on.
PageStart(p) ==
  /\ Begin(p, "findPage")
  /\ UNCHANGED <<row, pages, remote, group, billed>>

FindPage(p) ==
  /\ At(p, "findPage")
  /\ \/ \E g \in pages, at \in {"deletePage", "updatePage"} :
          call' = [call EXCEPT ![p].at = at, ![p].todo = {g}]
     \/ Return(p)
  /\ UNCHANGED <<row, pages, remote, group, billed>>

DeletePage(p) ==
  /\ At(p, "deletePage")
  /\ \/ pages' = pages \ call[p].todo /\ Goto(p, "saveCopy")
     \/ UNCHANGED pages /\ Return(p)
  /\ UNCHANGED <<row, remote, group, billed>>

\* Saving a page that was deleted meanwhile inserts it again.
UpdatePage(p) ==
  /\ At(p, "updatePage")
  /\ \/ Exists /\ pages' = pages \cup call[p].todo
     \/ UNCHANGED pages
  /\ Return(p)
  /\ UNCHANGED <<row, remote, group, billed>>

\* updateCover and toggleShare change what no property looks at and save the
\* whole copy.
EditStart(p) ==
  /\ Begin(p, "saveCopy")
  /\ UNCHANGED <<row, pages, remote, group, billed>>

-----------------------------------------------------------------------------
(* deleteBook *)

Deletable == {"DRAFT", "FAILED", "READY_TO_REVIEW", "READY"}

DeleteCheck(p) ==
  /\ row.status \in Deletable
  /\ Begin(p, IF row.uid = NoUid THEN "deletePages" ELSE "deleteRemote")
  /\ UNCHANGED <<row, pages, remote, group, billed>>

\* A failure is logged and the deletion goes on.
DeleteRemote(p) ==
  /\ At(p, "deleteRemote")
  /\ deleteBook(uidOf(p))
  /\ Goto(p, "deletePages")
  /\ UNCHANGED <<row, pages, group, billed>>

DeletePages(p) ==
  /\ At(p, "deletePages")
  /\ \/ pages' = {} /\ Goto(p, "remove")
     \/ UNCHANGED pages /\ Return(p)
  /\ UNCHANGED <<row, remote, group, billed>>

\* The order group, its orders and the pages go with the book (ON DELETE
\* CASCADE).
Remove(p) ==
  /\ At(p, "remove")
  /\ \/ row' = [NoBook EXCEPT !.status = "DELETED"] /\ pages' = {} /\ group' = "none"
     \/ UNCHANGED <<row, pages, group>>
  /\ Return(p)
  /\ UNCHANGED <<remote, billed>>

-----------------------------------------------------------------------------
(* finalize *)

\* Fault: the status guard is dropped.
FinalizeCheckUnguarded(p) ==
  /\ row.uid # NoUid
  /\ Begin(p, "finalizeRead")
  /\ UNCHANGED <<row, pages, remote, group, billed>>

FinalizeCheck(p) ==
  /\ row.status \in {"DRAFT", "READY_TO_REVIEW"} /\ row.uid # NoUid
  /\ Begin(p, "finalizeRead")
  /\ UNCHANGED <<row, pages, remote, group, billed>>

\* The pages, the book specification and the templates are read; a theme
\* without templates fails the book, a failed request only the handler.
FinalizeRead(p) ==
  /\ At(p, "finalizeRead")
  /\ \/ pages # {} /\ call' = [call EXCEPT ![p].at = "uploading", ![p].pages = pages]
     \/ pages # {} /\ Goto(p, "failing")
     \/ Return(p)
  /\ UNCHANGED <<row, pages, remote, group, billed>>

MarkUploading(p) ==
  /\ At(p, "uploading")
  /\ Mark(p, "UPLOADING", "upload")
  /\ UNCHANGED <<pages, remote, group, billed>>

\* The loop over the photos of the pages, if they have any.
Upload(p) ==
  /\ At(p, "upload")
  /\ uploadPhotoToBook(Goto(p, "processing"), Goto(p, "failing"))
  /\ UNCHANGED <<row, pages, remote, group, billed>>

MarkProcessing(p) ==
  /\ At(p, "processing")
  /\ Mark(p, "PROCESSING", "cover")
  /\ UNCHANGED <<pages, remote, group, billed>>

\* The count to pad the book to: at least pageMin, whole increments above it,
\* at most pageMax.
calcTargetPageCount(current) ==
  LET target == IF current < PageMin THEN PageMin ELSE current
      remainder == (target - PageMin) % PageIncrement
      rounded == IF remainder = 0 THEN target
                 ELSE target + PageIncrement - remainder
  IN  IF rounded > PageMax THEN PageMax ELSE rounded

\* Fault: the padding loop starts one page late.
PaddingShort(current) ==
  LET target == calcTargetPageCount(current)
  IN  IF target > current + 1 THEN target - current - 1 ELSE 0

\* Blank pages after `current` pages; none if there are too many already.
Padding(current) ==
  LET target == calcTargetPageCount(current)
  IN  IF target > current THEN target - current ELSE 0

\* The cover is on: the pages are next, then the blank ones.
StartContents(p) ==
  call' = [call EXCEPT ![p].at = "contents", ![p].todo = call[p].pages,
                       ![p].blanks = Padding(Cardinality(call[p].pages))]

\* Fault: a failure to add the cover is logged and ignored.
PostCoverIgnored(p) ==
  /\ At(p, "cover")
  /\ addCover(uidOf(p), StartContents(p), StartContents(p))
  /\ UNCHANGED <<row, pages, group, billed>>

\* An exception of the cover, of a page or of a blank page is outside every try
\* block.
PostCover(p) ==
  /\ At(p, "cover")
  /\ addCover(uidOf(p), StartContents(p), Return(p))
  /\ UNCHANGED <<row, pages, group, billed>>

PostPage(p, g) ==
  /\ At(p, "contents") /\ g \in call[p].todo
  /\ addContents(uidOf(p), g, call' = [call EXCEPT ![p].todo = @ \ {g}], Return(p))
  /\ UNCHANGED <<row, pages, group, billed>>

\* Fault: the padding loop runs once too often.
PostBlankExtra(p) ==
  /\ At(p, "contents") /\ call[p].todo = {}
  /\ addBlankContents(uidOf(p), call' = [call EXCEPT ![p].blanks = @ - 1], Return(p))
  /\ UNCHANGED <<row, pages, group, billed>>

PostBlank(p) ==
  /\ At(p, "contents") /\ call[p].todo = {} /\ call[p].blanks > 0
  /\ addBlankContents(uidOf(p), call' = [call EXCEPT ![p].blanks = @ - 1], Return(p))
  /\ UNCHANGED <<row, pages, group, billed>>

AllPosted(p) == At(p, "contents") /\ call[p].todo = {} /\ call[p].blanks = 0

\* Fault: a rejected finalization goes unnoticed.
PostFinalizeUnchecked(p) ==
  /\ AllPosted(p)
  /\ finalizeBook(uidOf(p), Goto(p, "ready"), Goto(p, "ready"))
  /\ UNCHANGED <<row, pages, group, billed>>

PostFinalize(p) ==
  /\ AllPosted(p)
  /\ finalizeBook(uidOf(p), Goto(p, "ready"), Goto(p, "failing"))
  /\ UNCHANGED <<row, pages, group, billed>>

SaveReady(p) ==
  /\ At(p, "ready")
  /\ \/ SaveAs(p, "READY") /\ Return(p)
     \/ UNCHANGED row /\ Goto(p, "failing")
  /\ UNCHANGED <<pages, remote, group, billed>>

SaveFailed(p) ==
  /\ At(p, "failing")
  /\ SaveAs(p, "FAILED") \/ UNCHANGED row
  /\ Return(p)
  /\ UNCHANGED <<pages, remote, group, billed>>

-----------------------------------------------------------------------------
(* retryFinalize *)

RetryCheck(p) ==
  /\ row.status = "FAILED"
  /\ Begin(p, IF row.uid = NoUid THEN "retryPost" ELSE "retryDelete")
  /\ UNCHANGED <<row, pages, remote, group, billed>>

RetryDelete(p) ==
  /\ At(p, "retryDelete")
  /\ deleteBook(uidOf(p))
  /\ Goto(p, "retryPost")
  /\ UNCHANGED <<row, pages, group, billed>>

RetryPost(p) ==
  /\ At(p, "retryPost")
  /\ PostBook(p, "retrySave")
  /\ UNCHANGED <<row, pages, group, billed>>

RetrySave(p) ==
  /\ At(p, "retrySave")
  /\ SaveAs(p, "DRAFT") \/ UNCHANGED row
  /\ Return(p)
  /\ UNCHANGED <<pages, remote, group, billed>>

-----------------------------------------------------------------------------
(* The order service on this book: createOrderGroup, confirmAndPlaceOrders *)

OrderCheck(p) ==
  /\ row.status = "READY" /\ group = "none"
  /\ Begin(p, "orderOpen")
  /\ UNCHANGED <<row, pages, remote, group, billed>>

OrderOpen(p) ==
  /\ At(p, "orderOpen")
  /\ \/ Exists /\ group = "none" /\ group' = "open"
     \/ UNCHANGED group
  /\ Return(p)
  /\ UNCHANGED <<row, pages, remote, billed>>

\* confirmAndPlaceOrders up to its transaction, and retryFailedOrders up to
\* its loop.  The book is read whatever its status; only its uid is checked.
PlaceCheck(p) ==
  /\ group # "none" /\ row.uid # NoUid
  /\ Begin(p, IF group = "open" THEN "place" ELSE "placeAgain")
  /\ group' = "confirmed"
  /\ UNCHANGED <<row, pages, remote, billed>>

\* Some of the orders are billed.  The handler goes on if all it placed
\* succeeded; a second confirmation may find nothing left to place.
PlaceOrders(p) ==
  /\ call[p].at \in {"place", "placeAgain"}
  /\ \/ /\ remote[uidOf(p)].final /\ ~remote[uidOf(p)].gone
        /\ billed' = TRUE
        /\ Goto(p, "groupSave") \/ Return(p)
     \/ UNCHANGED billed /\ Return(p)
     \/ At(p, "placeAgain") /\ UNCHANGED billed /\ Goto(p, "groupSave")
  /\ UNCHANGED <<row, pages, remote, group>>

\* The group refers to the book, so saving it fails if the book is gone.
GroupSave(p) ==
  /\ At(p, "groupSave")
  /\ \/ Exists /\ group' = "confirmed" /\ Goto(p, "orderedSave")
     \/ UNCHANGED group /\ Return(p)
  /\ UNCHANGED <<row, pages, remote, billed>>

OrderedSave(p) ==
  /\ At(p, "orderedSave")
  /\ SaveAs(p, "ORDERED") \/ UNCHANGED row
  /\ Return(p)
  /\ UNCHANGED <<pages, remote, group, billed>>

-----------------------------------------------------------------------------
Crash ==
  /\ MayCrash
  /\ \E p \in Calls : ~At(p, "idle")
  /\ call' = [p \in Calls |-> Idle]
  /\ UNCHANGED <<row, pages, remote, group, billed, calm>>

Request(p) ==
  /\ \/ CreateInsert(p)
     \/ AddStart(p)
     \/ PageStart(p)
     \/ EditStart(p)
     \/ DeleteCheck(p)
     \/ FinalizeCheck(p)
     \/ RetryCheck(p)
     \/ OrderCheck(p)
     \/ PlaceCheck(p)
  /\ calm' = (calm /\ \A q \in Calls : At(q, "idle"))

Continue(p) ==
  /\ \/ CreatePost(p)
     \/ SaveCopy(p)
     \/ AddPages(p)
     \/ FindPage(p)
     \/ DeletePage(p)
     \/ UpdatePage(p)
     \/ DeleteRemote(p)
     \/ DeletePages(p)
     \/ Remove(p)
     \/ FinalizeRead(p)
     \/ MarkUploading(p)
     \/ Upload(p)
     \/ MarkProcessing(p)
     \/ PostCover(p)
     \/ \E g \in Pages : PostPage(p, g)
     \/ PostBlank(p)
     \/ PostFinalize(p)
     \/ SaveReady(p)
     \/ SaveFailed(p)
     \/ RetryDelete(p)
     \/ RetryPost(p)
     \/ RetrySave(p)
     \/ OrderOpen(p)
     \/ PlaceOrders(p)
     \/ GroupSave(p)
     \/ OrderedSave(p)
  /\ UNCHANGED calm

Next == Crash \/ \E p \in Calls : Request(p) \/ Continue(p)

Spec == Init /\ [][Next]_vars

\* The event loop resumes every handler whose await has settled, and every
\* database and HTTP call settles.
FairSpec == Spec /\ \A p \in Calls : WF_vars(Continue(p))
-----------------------------------------------------------------------------
(* Properties *)

Remote == [made : BOOLEAN, cover : BOOLEAN, asked : [Pages -> Nat],
           count : Nat, again : BOOLEAN, final : BOOLEAN, gone : BOOLEAN]
Handler == [at : Points, book : Book, pages : SUBSET Pages,
            todo : SUBSET Pages, blanks : Nat]

\* Every variable has the type the entities and handlers give it.
TypeOK ==
  /\ row \in Book
  /\ pages \subseteq Pages
  /\ remote \in [Uids -> Remote]
  /\ group \in {"none", "open", "confirmed"}
  /\ billed \in BOOLEAN
  /\ call \in [Calls -> Handler]
  /\ calm \in BOOLEAN

\* However often finalize is clicked, retried or interrupted, no page comes to
\* one Sweetbook book with two calls: the single cover each book accepts lets
\* one handler through to the loop that sends the pages.  (The client's repeats
\* of one call may add it again.)
PrintedOnce == \A u \in Uids, g \in Pages : remote[u].asked[g] <= 1

\* A book offered for ordering is one Sweetbook finalized, although edits,
\* retries and other finalizations save old copies over it.
ReadyWasFinalized ==
  row.status = "READY" => row.uid # NoUid /\ remote[row.uid].final

\* When a handler comes to the finalization, the Sweetbook book has a number of
\* pages that the specification allows, whatever other handlers and crashes
\* left behind, unless our book had more than pageMax to begin with or a
\* repeated request added a page again.
TargetFits ==
  \A p \in Calls :
    LET book == remote[uidOf(p)]
    IN  AllPosted(p) /\ Cardinality(call[p].pages) <= PageMax /\ ~book.again
          => Fits(book.count)

\* While requests come one at a time, failures and crashes included, a book of
\* which copies have been billed stays finished: nothing puts it back to being
\* edited, finalized or retried.
BilledBookIsReady ==
  calm /\ billed /\ Exists => row.status \in {"READY", "ORDERED"}

\* A finalization ends with the book READY or FAILED (or deleted), at
\* whichever stage it fails.
FinalizeSettles ==
  row.status \in {"UPLOADING", "PROCESSING"}
    ~> row.status \notin {"UPLOADING", "PROCESSING"}
=============================================================================
