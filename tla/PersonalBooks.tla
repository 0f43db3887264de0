---------------------------- MODULE PersonalBooks ----------------------------
(***************************************************************************)
(* Personal books (personal-book.service.ts): from the faces on the photos *)
(* of a group a book is generated for each member who has registered a     *)
(* face anchor (face-anchor.service.ts), by the member's own request or by *)
(* a job over the whole group (personal-book.processor.ts).  Photos the    *)
(* member then excludes raise the threshold of the next match.             *)
(*                                                                         *)
(* The photos stay as they are (Photos deletes them; a commit that fails   *)
(* here stands for a photo that is gone).  Finalization and ordering are   *)
(* one step each, Books has their detail; retryFinalize, from which a book *)
(* comes back as a draft, is in Books alone.                               *)
(***************************************************************************)
EXTENDS Integers, FiniteSets

CONSTANTS
  Members,
  Photos,        \* photos of the group on which faces were found
  Likeness,      \* Likeness[m][f]: the highest level at which f matches m, or -1
  MinPages,      \* MIN_PAGES
  MaxLevel,      \* the level that stands for threshold 0.8
  PerLevel,      \* exclusions that raise the threshold by one level
  MaxRows,       \* books ever inserted (a bound)
  MaxUids,       \* books ever made by Sweetbook (a bound)
  NoMember,
  Calls,         \* handlers that may be in progress at once (a bound)
  MayCrash       \* whether the server process may die

ASSUME PhotosAssumption == IsFiniteSet(Photos)
ASSUME MinPagesAssumption == MinPages \in Nat \ {0}
ASSUME LevelAssumption == MaxLevel \in Nat /\ PerLevel \in Nat \ {0}
ASSUME LikenessAssumption == Likeness \in [Members -> [Photos -> -1 .. MaxLevel]]
ASSUME NothingAssumption == NoMember \notin Members
ASSUME PersonalBoundsAssumption == MaxRows \in Nat /\ MaxUids \in Nat
ASSUME PersonalCrashAssumption == MayCrash \in BOOLEAN

Rows == 1 .. MaxRows
Uids == 1 .. MaxUids
NoRow == 0
NoUid == 0

\* LOCKED stands for UPLOADING, PROCESSING and ORDERED, READY for FAILED too:
\* all of them are refused here, and the latter two can be deleted.
Statuses == {"none", "deleted", "READY_TO_REVIEW", "LOCKED", "READY"}
Book == [status : Statuses, owner : Members \cup {NoMember}, uid : Uids \cup {NoUid}]
NoBook == [status |-> "none", owner |-> NoMember, uid |-> NoUid]

Points == {"idle", "nextMember", "faces", "findBook", "post", "txFind", "commit",
           "exclude", "findAnchor", "count", "saveAnchor", "register",
           "deleteAnchor", "deleteBook", "removeBook"}

VARIABLES
  anchor,     \* each member's face anchor and the level of its threshold
  book,       \* rows of books of type PERSONAL
  match,      \* their rows of personal_book_matches
  excluded,   \* those of them excluded by the member
  remote,     \* the books at Sweetbook: not made, live or gone
  job,        \* the group's generation job, and whether it was delivered again
  call,       \* handlers
  calm,       \* so far no two of them have overlapped
  apart       \* so far no two of them were generating for one member

vars == <<anchor, book, match, excluded, remote, job, call, calm, apart>>

-----------------------------------------------------------------------------
Idle == [at |-> "idle", who |-> NoMember, todo |-> {}, inJob |-> FALSE,
         level |-> 0, found |-> {}, row |-> NoRow, uid |-> NoUid]

Init ==
  /\ anchor = [m \in Members |-> [there |-> FALSE, level |-> 0]]
  /\ book = [b \in Rows |-> NoBook]
  /\ match = [b \in Rows |-> {}]
  /\ excluded = [b \in Rows |-> {}]
  /\ remote = [u \in Uids |-> "none"]
  /\ job = [state |-> "none", again |-> FALSE]
  /\ call = [p \in Calls |-> Idle]
  /\ calm = TRUE /\ apart = TRUE

There(b) == book[b].status \notin {"none", "deleted"}
\* Fault: the look-up is for a book being generated, a status that is never visible.
RowsGenerating(m) == {b \in Rows : book[b].status = "AUTO_GENERATING" /\ book[b].owner = m}
RowsOf(m) == {b \in Rows : There(b) /\ book[b].owner = m}
At(p, at) == call[p].at = at
Return(p) == call' = [call EXCEPT ![p] = Idle]

\* The next member of the group, whatever became of this one, or the answer.
Finish(p) ==
  call' = [call EXCEPT ![p] =
             IF @.inJob THEN [Idle EXCEPT !.at = "nextMember", !.inJob = TRUE,
                                          !.todo = call[p].todo]
             ELSE Idle]

-----------------------------------------------------------------------------
(* generateForMember *)

\* The anchor is read first: without one the member is skipped.
FindOwnAnchor(p, m, c) ==
  IF anchor[m].there
  THEN call' = [call EXCEPT ![p] = [c EXCEPT !.at = "faces", !.who = m,
                                             !.level = anchor[m].level]]
  ELSE call' = [call EXCEPT ![p] = IF c.inJob THEN c ELSE Idle]

GenerateMine(p, m) ==
  /\ At(p, "idle") /\ anchor[m].there
  /\ FindOwnAnchor(p, m, Idle)
  /\ UNCHANGED <<anchor, book, match, excluded, remote, job>>

\* The owner queues a job; a worker takes it and reads the members.
QueueJob ==
  /\ job.state = "none"
  /\ job' = [job EXCEPT !.state = "waiting"]
  /\ UNCHANGED <<anchor, book, match, excluded, remote, call, calm, apart>>

StartJob(p) ==
  /\ At(p, "idle") /\ job.state = "waiting"
  /\ job' = [job EXCEPT !.state = "active"]
  /\ call' = [call EXCEPT ![p] = [Idle EXCEPT !.at = "nextMember",
                                              !.todo = Members, !.inJob = TRUE]]
  /\ UNCHANGED <<anchor, book, match, excluded, remote>>

NextMember(p) ==
  /\ At(p, "nextMember")
  /\ \E m \in call[p].todo : FindOwnAnchor(p, m, [call[p] EXCEPT !.todo = @ \ {m}])
  /\ UNCHANGED <<anchor, book, match, excluded, remote, job>>

EndJob(p) ==
  /\ At(p, "nextMember") /\ call[p].todo = {}
  /\ job' = [job EXCEPT !.state = "done"]
  /\ Return(p)
  /\ UNCHANGED <<anchor, book, match, excluded, remote>>

\* The photos with a face like enough; MAX_PHOTOS is never reached here.
ReadFaces(p) ==
  LET found == {f \in Photos : Likeness[call[p].who][f] >= call[p].level} IN
  /\ At(p, "faces")
  /\ IF Cardinality(found) < MinPages
     THEN Finish(p)
     ELSE call' = [call EXCEPT ![p].at = "findBook", ![p].found = found,
                               ![p].level = 0]
  /\ UNCHANGED <<anchor, book, match, excluded, remote, job>>

\* Any personal book of the member; without one Sweetbook is asked for a book,
\* with one its uid is taken over.  The templates are read from Sweetbook too.
FindBook(p) ==
  /\ At(p, "findBook")
  /\ \/ /\ RowsOf(call[p].who) = {}
        /\ call' = [call EXCEPT ![p].at = "post"]
     \/ \E b \in RowsOf(call[p].who) :
          call' = [call EXCEPT ![p].at = "txFind", ![p].uid = book[b].uid]
     \/ Finish(p)
  /\ UNCHANGED <<anchor, book, match, excluded, remote, job>>

\* Fault: the idempotency key names the member alone, so an earlier book comes back.
PostSameKey(p) ==
  /\ At(p, "post")
  /\ \/ \E u \in Uids :
          /\ IF \E v \in Uids : remote[v] # "none"
             THEN remote[u] # "none" /\ UNCHANGED remote
             ELSE remote' = [remote EXCEPT ![u] = "live"]
          /\ call' = [call EXCEPT ![p].at = "txFind", ![p].uid = u]
     \/ UNCHANGED remote /\ Finish(p)
  /\ UNCHANGED <<anchor, book, match, excluded, job>>

\* POST /books, whose answer may be lost.
Post(p) ==
  /\ At(p, "post")
  /\ \/ \E u \in Uids :
          /\ \A v \in Uids : remote[v] = "none" <=> v >= u
          /\ remote' = [remote EXCEPT ![u] = "live"]
          /\ \/ call' = [call EXCEPT ![p].at = "txFind", ![p].uid = u]
             \/ Finish(p)
     \/ UNCHANGED remote /\ Finish(p)
  /\ UNCHANGED <<anchor, book, match, excluded, job>>

\* Fault: the transaction does not look at the status.
TxFindAnyStatus(p) ==
  /\ At(p, "txFind")
  /\ \/ /\ RowsOf(call[p].who) = {}
        /\ call' = [call EXCEPT ![p].at = "commit"]
     \/ \E b \in RowsOf(call[p].who) :
          call' = [call EXCEPT ![p].at = "commit", ![p].row = b,
                               ![p].uid = book[b].uid]
  /\ UNCHANGED <<anchor, book, match, excluded, remote, job>>

\* The transaction reads the member's book again, and refuses one that is past
\* the review.
TxFind(p) ==
  /\ At(p, "txFind")
  /\ \/ /\ RowsOf(call[p].who) = {}
        /\ call' = [call EXCEPT ![p].at = "commit"]
     \/ \E b \in RowsOf(call[p].who) :
          IF book[b].status = "READY_TO_REVIEW"
          THEN call' = [call EXCEPT ![p].at = "commit", ![p].row = b,
                                    ![p].uid = book[b].uid]
          ELSE Finish(p)
  /\ UNCHANGED <<anchor, book, match, excluded, remote, job>>

\* The row to write: the one read, inserted again if it is gone, or a new one.
RowsFor(p) == IF call[p].row = NoRow
              THEN {b \in Rows : \A d \in Rows : book[d].status = "none" <=> d >= b}
              ELSE {call[p].row}

\* The copy is saved, the old matches go and the new ones come; a uid is unique.
\* AUTO_GENERATING is never visible.
Commit(p) ==
  LET c == call[p] IN
  /\ At(p, "commit")
  /\ \/ \E b \in RowsFor(p) :
          /\ \A d \in Rows \ {b} : There(d) => book[d].uid # c.uid
          /\ book' = [book EXCEPT ![b] = [status |-> "READY_TO_REVIEW",
                                          owner |-> c.who, uid |-> c.uid]]
          /\ match' = [match EXCEPT ![b] = c.found]
          /\ excluded' = [excluded EXCEPT ![b] = {}]
     \/ UNCHANGED <<book, match, excluded>>
  /\ Finish(p)
  /\ UNCHANGED <<anchor, remote, job>>

-----------------------------------------------------------------------------
(* excludeMatch, adjustThresholdOnExclusion *)

ExcludeStart(p, b) ==
  /\ At(p, "idle") /\ There(b)
  /\ call' = [call EXCEPT ![p] = [Idle EXCEPT !.at = "exclude", !.row = b,
                                              !.who = book[b].owner]]
  /\ UNCHANGED <<anchor, book, match, excluded, remote, job>>

\* The match is marked, then the photo's pages are deleted.
Exclude(p) ==
  /\ At(p, "exclude")
  /\ \/ /\ \E f \in match[call[p].row] :
             excluded' = [excluded EXCEPT ![call[p].row] = @ \cup {f}]
        /\ call' = [call EXCEPT ![p].at = "findAnchor"]
     \/ UNCHANGED excluded /\ Return(p)
  /\ UNCHANGED <<anchor, book, match, remote, job>>

FindAnchor(p) ==
  /\ At(p, "findAnchor")
  /\ IF anchor[call[p].who].there
     THEN call' = [call EXCEPT ![p].at = "count",
                               ![p].level = anchor[call[p].who].level]
     ELSE Return(p)
  /\ UNCHANGED <<anchor, book, match, excluded, remote, job>>

\* The matches of the member's books that are excluded.
ExcludedMatches(m) == {x \in RowsOf(m) \X Photos : x[2] \in excluded[x[1]]}
ExcludedCount(m) == Cardinality(ExcludedMatches(m))

\* min(0.8, 0.6 + floor(excludedCount / 3) * 0.03), in levels of 0.03.
TargetLevel(m) ==
  LET n == ExcludedCount(m) \div PerLevel IN IF n < MaxLevel THEN n ELSE MaxLevel

\* Only a higher threshold than the one read is saved.
CountExcluded(p) ==
  LET target == TargetLevel(call[p].who) IN
  /\ At(p, "count")
  /\ IF target > call[p].level
     THEN call' = [call EXCEPT ![p].at = "saveAnchor", ![p].level = target]
     ELSE Return(p)
  /\ UNCHANGED <<anchor, book, match, excluded, remote, job>>

\* An anchor deleted meanwhile is inserted again.
SaveAnchor(p) ==
  /\ At(p, "saveAnchor")
  /\ \/ anchor' = [anchor EXCEPT ![call[p].who] = [there |-> TRUE, level |-> call[p].level]]
     \/ UNCHANGED anchor
  /\ Return(p)
  /\ UNCHANGED <<book, match, excluded, remote, job>>

-----------------------------------------------------------------------------
(* registerAnchor, deleteAnchor *)

\* Fault: every registration begins at 0.6.
RegisterStartOver(p, m) ==
  /\ At(p, "idle")
  /\ call' = [call EXCEPT ![p] = [Idle EXCEPT !.at = "register", !.who = m]]
  /\ UNCHANGED <<anchor, book, match, excluded, remote, job>>

\* One face on each of three to five photos, stored one by one; then a
\* transaction that reads the anchor there is.
RegisterStart(p, m) ==
  /\ At(p, "idle")
  /\ call' = [call EXCEPT ![p] = [Idle EXCEPT !.at = "register", !.who = m,
                                              !.level = anchor[m].level]]
  /\ UNCHANGED <<anchor, book, match, excluded, remote, job>>

\* Its copy is saved with the new embedding and the threshold as it was read;
\* a new anchor begins at 0.6.
RegisterCommit(p) ==
  /\ At(p, "register")
  /\ \/ anchor' = [anchor EXCEPT ![call[p].who] = [there |-> TRUE, level |-> call[p].level]]
     \/ UNCHANGED anchor
  /\ Return(p)
  /\ UNCHANGED <<book, match, excluded, remote, job>>

DeleteAnchorStart(p, m) ==
  /\ At(p, "idle") /\ anchor[m].there
  /\ call' = [call EXCEPT ![p] = [Idle EXCEPT !.at = "deleteAnchor", !.who = m]]
  /\ UNCHANGED <<anchor, book, match, excluded, remote, job>>

\* The sample files go first, their failure being ignored.
DeleteAnchor(p) ==
  /\ At(p, "deleteAnchor")
  /\ \/ anchor' = [anchor EXCEPT ![call[p].who] = [there |-> FALSE, level |-> 0]]
     \/ UNCHANGED anchor
  /\ Return(p)
  /\ UNCHANGED <<book, match, excluded, remote, job>>

-----------------------------------------------------------------------------
(* What Books does meanwhile *)

\* finalize and the order service move a book on.
Moves == {<<"READY_TO_REVIEW", "LOCKED">>, <<"LOCKED", "READY">>, <<"READY", "LOCKED">>}

BookMoves ==
  /\ \E b \in Rows, s \in Statuses :
       /\ <<book[b].status, s>> \in Moves
       /\ book' = [book EXCEPT ![b].status = s]
  /\ UNCHANGED <<anchor, match, excluded, remote, job, call, apart>>

-----------------------------------------------------------------------------
(* deleteBook of books.service.ts *)

DeleteBookStart(p, b) ==
  /\ At(p, "idle") /\ book[b].status \in {"READY_TO_REVIEW", "READY"}
  /\ call' = [call EXCEPT ![p] = [Idle EXCEPT !.at = "deleteBook", !.row = b,
                                              !.uid = book[b].uid]]
  /\ UNCHANGED <<anchor, book, match, excluded, remote, job>>

\* Sweetbook's book goes first, and a failure of that is ignored.
DeleteRemote(p) ==
  /\ At(p, "deleteBook")
  /\ \/ remote' = [remote EXCEPT ![call[p].uid] = "gone"]
     \/ UNCHANGED remote
  /\ call' = [call EXCEPT ![p].at = "removeBook"]
  /\ UNCHANGED <<anchor, book, match, excluded, job>>

\* The row's matches go with it.
RemoveBook(p) ==
  /\ At(p, "removeBook")
  /\ \/ /\ book' = [book EXCEPT ![call[p].row] = [NoBook EXCEPT !.status = "deleted"]]
        /\ match' = [match EXCEPT ![call[p].row] = {}]
        /\ excluded' = [excluded EXCEPT ![call[p].row] = {}]
     \/ UNCHANGED <<book, match, excluded>>
  /\ Return(p)
  /\ UNCHANGED <<anchor, remote, job>>

-----------------------------------------------------------------------------
\* The process dies; Bull delivers the job it was working on once more.
Crash ==
  /\ MayCrash
  /\ \E p \in Calls : ~At(p, "idle")
  /\ call' = [p \in Calls |-> Idle]
  /\ job' = IF job.state # "active" THEN job
            ELSE [state |-> IF job.again THEN "failed" ELSE "waiting", again |-> TRUE]
  /\ UNCHANGED <<anchor, book, match, excluded, remote, calm, apart>>

Quiet == \A p \in Calls : At(p, "idle")

\* generateForMember has begun and not yet returned.
Generating(p) == call[p].at \in {"faces", "findBook", "post", "txFind", "commit"}
Apart == \A p, q \in Calls :
           Generating(p) /\ Generating(q) /\ call[p].who = call[q].who => p = q

Request(p) ==
  \/ \E m \in Members :
       \/ GenerateMine(p, m)
       \/ RegisterStart(p, m)
       \/ DeleteAnchorStart(p, m)
  \/ \E b \in Rows : ExcludeStart(p, b) \/ DeleteBookStart(p, b)

Continue(p) ==
  \/ NextMember(p)
  \/ EndJob(p)
  \/ ReadFaces(p)
  \/ FindBook(p)
  \/ Post(p)
  \/ TxFind(p)
  \/ Commit(p)
  \/ Exclude(p)
  \/ FindAnchor(p)
  \/ CountExcluded(p)
  \/ SaveAnchor(p)
  \/ RegisterCommit(p)
  \/ DeleteAnchor(p)
  \/ DeleteRemote(p)
  \/ RemoveBook(p)

Next ==
  \/ Crash
  \/ QueueJob
  \/ BookMoves /\ calm' = (calm /\ Quiet)
  \/ \E p \in Calls :
       /\ \/ (Request(p) \/ StartJob(p)) /\ calm' = (calm /\ Quiet)
          \/ Continue(p) /\ UNCHANGED calm
       /\ apart' = (apart /\ Apart')

Spec == Init /\ [][Next]_vars

-----------------------------------------------------------------------------
(* Properties *)

Handler == [at : Points, who : Members \cup {NoMember}, todo : SUBSET Members,
            inJob : BOOLEAN, level : 0 .. MaxLevel, found : SUBSET Photos,
            row : Rows \cup {NoRow}, uid : Uids \cup {NoUid}]

TablesOK ==
  /\ anchor \in [Members -> [there : BOOLEAN, level : 0 .. MaxLevel]]
  /\ book \in [Rows -> Book]
  /\ match \in [Rows -> SUBSET Photos]
  /\ excluded \in [Rows -> SUBSET Photos]
  /\ remote \in [Uids -> {"none", "live", "gone"}]
  /\ job \in [state : {"none", "waiting", "active", "done", "failed"}, again : BOOLEAN]
  /\ call \in [Calls -> Handler]
  /\ calm \in BOOLEAN

\* Every variable has the type the entities and handlers give it.
TypeOK == TablesOK /\ apart \in BOOLEAN

\* A book in review is generated over, not doubled, as
\* docs/domains/books/personal-book.md has it: no index of the database says so,
\* only two look-ups of one generation, before and after the call to Sweetbook, with
\* the member's deletions, finalizations and exclusions, failures and crashes in
\* between.  What it takes is that no two generations for one member overlap.
InReview(b) == book[b].status = "READY_TO_REVIEW"
OneBookInReview ==
  apart => \A b, d \in Rows :
             InReview(b) /\ InReview(d) /\ book[b].owner = book[d].owner => b = d

\* While requests and jobs come one at a time, failures and crashes included, the
\* book a new row refers to is one Sweetbook still has, although it is made, and
\* deleted, apart from the row.
NewBookIsLive ==
  [][\A b \in Rows : calm' /\ ~There(b) /\ There(b)'
       => remote[book'[b].uid] = "live"]_vars

\* ... and a book whose finalization has begun is not generated again.
FinalizedIsKept ==
  [][\A b \in Rows : calm' /\ book[b].status \notin {"none", "deleted", "READY_TO_REVIEW"}
       => book'[b].status # "READY_TO_REVIEW"]_vars

\* ... and the threshold a member's exclusions have raised is not lowered by
\* later generations, registrations or exclusions.
ThresholdRises ==
  [][\A m \in Members : calm' /\ anchor[m].there /\ anchor'[m].there
       => anchor'[m].level >= anchor[m].level]_vars
=============================================================================
