-------------------------------- MODULE Editor --------------------------------
(***************************************************************************)
(* The book editor (pages/BookEditorPage.jsx) and the page endpoints of    *)
(* books.service.ts: a list of pages read some time ago, the mutations     *)
(* made from it, and the finalisation of the book.  Requests may be        *)
(* carried out in another order than they were sent, and fail; an answer   *)
(* that is lost is a failure to the editor.                                *)
(*                                                                         *)
(* Of a page only its number is followed: templates, captions, photos and  *)
(* edits not yet saved are left out.  The saved cover is the first entry   *)
(* of the list, with id -1 and number 0, when it has a photo.              *)
(***************************************************************************)
EXTENDS Integers, FiniteSets

CONSTANTS
  MaxPages,   \* pages ever made (a bound)
  PageMin,    \* the fewest pages of the book's specification
  Covers,     \* cover templates with their parameters, all with a photo
  NoCover,    \* none: the theme's own cover is printed
  Calls,      \* requests that may be in progress at once (a bound)
  MaxActs     \* times the user does something to the book (a bound)

ASSUME PagesAssumption == MaxPages \in Nat /\ PageMin \in Nat \ {0}
ASSUME ActsAssumption == MaxActs \in Nat
ASSUME CoverAssumption == NoCover \notin Covers

Ids == 1 .. MaxPages
CoverId == -1
Absent == -1       \* the number of a page that is not there

VARIABLES
  num,        \* the pages at the server: pageNumber by id
  made,       \* ids given so far
  cover,      \* the cover saved for the book
  status,
  list,       \* the last answer of getBookPages
  known,      \* the status in the last answer of getBook
  picked,     \* coverTemplateUid and coverParams of the editor, if there are any yet
  call,       \* the requests in progress
  latest,     \* the request updatePage.mutate was last called for
  chosen,     \* the cover on the screen when the last finalisation was asked for
  printed,    \* the cover of the finalised book
  acts,       \* times the user has done something
  calm        \* see Calmly

vars == <<num, made, cover, status, list, known, picked, call, latest,
          chosen, printed, acts, calm>>

server == <<num, made, cover, status, printed>>

Rows == {id \in Ids : num[id] # Absent}

\* getBookPages: the rows in the order of their numbers, behind the saved cover.
\* What matters of the order is which number each entry shows.
Listing ==
  [id \in Ids \cup {CoverId} |->
     IF id = CoverId THEN IF cover = NoCover THEN Absent ELSE 0 ELSE num[id]]
Listed == {id \in DOMAIN list : list[id] # Absent}

\* A request that is sent: for a page or a number of pages, and what is to follow
\* it; or for a cover.
Asked(op, id, n, next, nextNum, k) ==
  [at |-> "sent", op |-> op, id |-> id, num |-> n, next |-> next,
   nextNum |-> nextNum, cover |-> k]

NoCall == [Asked("idle", 0, 0, 0, 0, NoCover) EXCEPT !.at = "idle"]

Idle(c) == call[c].at = "idle"
Running(ops) == {c \in Calls : ~Idle(c) /\ call[c].op \in ops}
Updates == {"save", "swap", "swapBack"}    \* what updatePage.mutate is called for
Send(c, op, id, n, next, nextNum, k) ==
  call' = [call EXCEPT ![c] = Asked(op, id, n, next, nextNum, k)]

\* So far no two requests of one kind have overlapped and none has failed, no
\* page has been deleted, and pages have changed places with one another, not
\* with the cover, and only on a list that showed their numbers as they were.
Calmly(holds) == calm' = (calm /\ holds)

Init ==
  /\ num = [id \in Ids |-> Absent]
  /\ made = 0
  /\ cover = NoCover
  /\ status = "DRAFT"
  /\ list = Listing
  /\ known = "DRAFT"
  /\ picked \in Covers \cup {NoCover}
  /\ call = [c \in Calls |-> NoCall]
  /\ latest \in Calls
  /\ chosen = NoCover
  /\ printed = NoCover
  /\ acts = 0
  /\ calm = TRUE

-----------------------------------------------------------------------------
(* The user, while the book is a draft as far as the editor knows *)

\* handleSaveParams, handlePhotoSelect.
SavePage(c, id) ==
  /\ known = "DRAFT" /\ id \in Listed /\ Idle(c)
  /\ Send(c, "save", id, 0, 0, 0, NoCover)
  /\ latest' = c
  /\ Calmly(Running(Updates) = {})
  /\ UNCHANGED <<server, list, known, picked, chosen>>

\* Fault: both pages are given the number of the first.
SwapPagesSame(c, a, b) ==
  /\ known = "DRAFT" /\ {a, b} \subseteq Listed /\ a # b /\ Idle(c)
  /\ Send(c, "swap", a, list[b], b, list[b], NoCover)
  /\ latest' = c
  /\ Calmly(Running(Updates) = {} /\ CoverId \notin {a, b} /\ list = Listing)
  /\ UNCHANGED <<server, list, known, picked, chosen>>

\* handleSwapPages, handleDrop: the first page is given the number of the second;
\* once that is answered, the second the number of the first.
SwapPages(c, a, b) ==
  /\ known = "DRAFT" /\ {a, b} \subseteq Listed /\ a # b /\ Idle(c)
  /\ Send(c, "swap", a, list[b], b, list[a], NoCover)
  /\ latest' = c
  /\ Calmly(Running(Updates) = {} /\ CoverId \notin {a, b} /\ list = Listing)
  /\ UNCHANGED <<server, list, known, picked, chosen>>

\* handleAddPageWithTemplate, handleBulkAdd, fillTestData.
AddPages(c, n) ==
  /\ known = "DRAFT" /\ Idle(c)
  /\ Send(c, "add", 0, n, 0, 0, NoCover)
  /\ Calmly(Running({"add"}) = {})
  /\ UNCHANGED <<server, list, known, picked, latest, chosen>>

DeletePage(c, id) ==
  /\ known = "DRAFT" /\ id \in Listed /\ Idle(c)
  /\ Send(c, "delete", id, 0, 0, 0, NoCover)
  /\ Calmly(FALSE)
  /\ UNCHANGED <<server, list, known, picked, latest, chosen>>

\* CoverComposer; also the first template, as soon as the templates are there.
PickCover ==
  /\ \E k \in Covers \ {picked} : picked' = k
  /\ UNCHANGED <<server, list, known, call, latest, chosen, acts, calm>>

\* Fault: the book is finalised without saving its cover first.
FinalizeAtOnce(c) ==
  /\ known = "DRAFT" /\ Idle(c)
  /\ Running({"finalize"}) = {}
  /\ Cardinality(Listed) >= PageMin
  /\ Send(c, "finalize", 0, 0, 0, 0, NoCover)
  /\ chosen' = picked
  /\ Calmly(Running({"setCover"}) = {})
  /\ UNCHANGED <<server, list, known, picked, latest>>

\* handleFinalize: the button waits for a finalisation that is running, but not
\* for the saving of the cover before it, which is left out if none is picked yet.
\* The cover counts as a page.
Finalize(c) ==
  /\ known = "DRAFT" /\ Idle(c)
  /\ Running({"finalize"}) = {}
  /\ Cardinality(Listed) >= PageMin
  /\ \/ picked # NoCover /\ Send(c, "setCover", 0, 0, 0, 0, picked)
     \/ picked = NoCover /\ Send(c, "finalize", 0, 0, 0, 0, NoCover)
  /\ chosen' = picked
  /\ Calmly(Running({"setCover"}) = {})
  /\ UNCHANGED <<server, list, known, picked, latest>>

-----------------------------------------------------------------------------
(* The server; the finer steps of a finalisation are those of module Books *)

Carried(c) == call' = [call EXCEPT ![c].at = "answered"]
Refused(c) == call' = [call EXCEPT ![c].at = "refused"]
At(c, ops) == call[c].at = "sent" /\ call[c].op \in ops

\* updatePage: the status of the book is not looked at.
UpdatePage(c) ==
  /\ At(c, Updates)
  /\ IF call[c].id \in Rows
     THEN /\ num' = IF call[c].op = "save" THEN num
                    ELSE [num EXCEPT ![call[c].id] = call[c].num]
          /\ Carried(c)
     ELSE Refused(c) /\ UNCHANGED num
  /\ UNCHANGED <<made, cover, status, printed, list, known, picked, latest,
                 chosen, acts, calm>>

\* addPages: the new pages are numbered on from the number of pages there are.
AppendPages(c) ==
  /\ At(c, {"add"})
  /\ made + call[c].num <= MaxPages
  /\ LET count == Cardinality(Rows) IN
     num' = [id \in Ids |-> IF id > made /\ id <= made + call[c].num
                            THEN count + id - made ELSE num[id]]
  /\ made' = made + call[c].num
  /\ Carried(c)
  /\ UNCHANGED <<cover, status, printed, list, known, picked, latest, chosen,
                 acts, calm>>

\* deletePage: the pages behind it keep their numbers.
RemovePage(c) ==
  /\ At(c, {"delete"})
  /\ IF call[c].id \in Rows
     THEN num' = [num EXCEPT ![call[c].id] = Absent] /\ Carried(c)
     ELSE Refused(c) /\ UNCHANGED num
  /\ UNCHANGED <<made, cover, status, printed, list, known, picked, latest,
                 chosen, acts, calm>>

\* updateCover
UpdateCover(c) ==
  /\ At(c, {"setCover"})
  /\ cover' = call[c].cover
  /\ Carried(c)
  /\ UNCHANGED <<num, made, status, printed, list, known, picked, latest,
                 chosen, acts, calm>>

FinalizeBook(c) ==
  /\ At(c, {"finalize"})
  /\ IF status = "DRAFT" /\ Rows # {}
     THEN /\ status' = "READY"
          /\ printed' = cover
          /\ Carried(c)
     ELSE Refused(c) /\ UNCHANGED <<status, printed>>
  /\ UNCHANGED <<num, made, cover, list, known, picked, latest, chosen, acts, calm>>

-----------------------------------------------------------------------------
(* The answers *)

\* The second half of a swap is sent by the callback given to mutate, which is
\* called only for the latest request of its mutation; the finalisation follows
\* the cover it waited for; once it is answered the editor is left.
Answered(c) ==
  /\ call[c].at = "answered"
  /\ CASE call[c].op = "setCover" -> Send(c, "finalize", 0, 0, 0, 0, NoCover)
       [] call[c].op = "swap" /\ latest = c ->
            Send(c, "swapBack", call[c].next, call[c].nextNum, 0, 0, NoCover)
       [] OTHER -> call' = [call EXCEPT ![c] = NoCall]
  /\ known' = IF call[c].op = "finalize" THEN "READY" ELSE known
  /\ UNCHANGED <<server, list, picked, latest, chosen, acts, calm>>

\* The request is refused, is lost, or its answer is.
Failed(c) ==
  /\ call[c].at \in {"sent", "answered", "refused"}
  /\ call' = [call EXCEPT ![c] = NoCall]
  /\ Calmly(FALSE)
  /\ UNCHANGED <<server, list, known, picked, latest, chosen, acts>>

\* The queries of the editor are answered (module QueryCache says when).
Refetch ==
  /\ list' = Listing
  /\ known' = status
  /\ <<list', known'>> # <<list, known>>
  /\ UNCHANGED <<server, picked, call, latest, chosen, acts, calm>>

UserActs(c) ==
  /\ acts < MaxActs /\ acts' = acts + 1
  /\ \/ \E id \in DOMAIN list : SavePage(c, id)
     \/ \E a, b \in DOMAIN list : SwapPages(c, a, b)
     \/ \E n \in 1 .. 2 : AddPages(c, n)
     \/ \E id \in DOMAIN list : DeletePage(c, id)
     \/ Finalize(c)

ServerActs(c) ==
  \/ UpdatePage(c)
  \/ AppendPages(c)
  \/ RemovePage(c)
  \/ UpdateCover(c)
  \/ FinalizeBook(c)

Next ==
  \/ PickCover
  \/ Refetch
  \/ \E c \in Calls : UserActs(c) \/ ServerActs(c) \/ Answered(c) \/ Failed(c)

Spec == Init /\ [][Next]_vars
-----------------------------------------------------------------------------
(* Properties *)

\* While no request is under way that changes numbers, no two pages of a book
\* have the same number, and so their order is known: provided that updates and
\* additions were made one at a time, none failed, no page was deleted, and pages
\* were swapped with one another on an up-to-date list (handleSwapPages, handleDrop, addPages).
NumbersDistinct ==
  (calm /\ Running(Updates \cup {"add"}) = {})
    => \A a, b \in Rows : a # b => num[a] # num[b]

\* The finalised book has the cover that was on the screen when it was asked for,
\* whatever the user has picked since (handleFinalize, updateCover).
CoverAsChosen == calm /\ status = "READY" => printed = chosen
=============================================================================
