# Group photo books: a TLA+ model

The repository is a service in which a group of people collects photos, makes a
photo book of them and orders it together. The back end
(`src/sweet_book_project_be`, NestJS, PostgreSQL through TypeORM, Redis, Bull
queues) holds the state; the front end (`src/sweet_book_project_fe`, React with
React Query) keeps copies of it and calls its API; Sweetbook, an external
company, prints, bills and ships.

This directory holds TLA+ modules translated from that code, the configurations
with which TLC checks them on small instances, and proofs that TLAPS checks for
every instance. `PROJECT.json` maps every definition to its lines of source.

## 1. The system

| Component | State it keeps | Operations | What is hard | Modules |
|---|---|---|---|---|
| orders (`domains/orders`) | order group of a book, one order row per participating member | create group, submit shipping, decline, confirm and place, retry, cancel, poll status | money: overlapping requests, stale copies, lost answers, crashes between the charge and the save | `Billing`, `Orders` |
| webhooks (`domains/webhooks`) | dedup marks in Redis (24 h) | verify, deduplicate, route 8 kinds of event | deliveries lost, repeated, out of order, concurrent | `OrderSync` |
| order-sync cron | none | every 30 minutes, ask Sweetbook for each open order and save the mapped status | writes over webhooks; disagreeing status tables | `OrderSync` |
| Sweetbook client (`external/sweetbook`) | none | HTTP calls, retried up to three times | a repeated POST after a timeout | `Books`, and in the modules of its other callers |
| books (`domains/books`) | book and its pages | create, edit pages, set cover, finalize, retry, delete, share | a finalize of dozens of remote calls that may stop anywhere; edits and deletion meanwhile | `Books` |
| personal books | one book per member, matches, exclusions | generate (request or Bull job), exclude a match, learn the threshold | duplicate and redelivered jobs; the remote book is created outside the transaction | `PersonalBooks` |
| face anchors | one anchor and threshold per member | register, delete | registration against threshold learning | `PersonalBooks` |
| groups | group, member rows with a role | create, join, leave, remove, transfer, edit, dissolve | ownership is stored twice and saved in several steps | `Groups` |
| cover voting | candidates, votes | propose, edit, vote, delete, confirm | membership checked awaits before it is used; vote read, then written | `CoverVoting` |
| auth and tokens | a refresh token per user in Redis, cookies per browser | log in, refresh, log out | rotation with parallel refreshes, several browsers | `Sessions` |
| photos, kakao import | photo rows, stored files | upload, import, edit, delete | two stores without a transaction; stopping half way | `Photos` |
| face detection | Bull queue, faces | detect in the background | work on rows that are gone; a worker that dies; errors swallowed | `Photos` |
| front end: queries and mutations | React Query's cache | fetch, mutate, invalidate | a key somebody forgot; an answer overtaken by a write | `Hooks`, `QueryCache` |
| front end: book editor | list of pages, cover picked, requests in progress | save, swap, add, delete, finalize | a swap is two requests; the list is old; answers overtake each other | `Editor` |
| users, reminder cron, activities, email, face-api, openai | rows of users; notification rows; an append-only feed; none | profile, password, withdraw; remind once a day; record; call out | section 7 | none, or through `Hooks` |

Components meet in the database: orders refer to a book and disappear with it
(`ON DELETE CASCADE`), webhooks and the cron write the orders the order service
placed, a confirmed order marks its book as ordered, cover voting asks the
membership of the group, the generation of a personal book reads the faces that
detection stored. The front end meets the back end in the tables that a query
reads and a mutation writes.

What makes each component correct is stated as properties below. `PROJECT.json`
lists the hazards of the code, each with its line and the properties that would
notice it going wrong.

## 2. How code becomes actions

Node.js runs one handler at a time and switches between handlers only at an
`await`. An action is therefore one stretch of a handler, from one await to the
next, with every statement in it; `pc` (Orders) or `at` (elsewhere) says at which
await a handler stands, and the entities it has read are kept as the copies they
are. Guards are the code's early returns.

* `Repository.save(entity)` leaves the row as the entity in memory is, and inserts
  it again if the row is gone. It is one action. (TypeORM reads the row, computes
  the difference and updates; a write of another request between those two is not
  modelled.)
* A database call that fails is a disjunct that changes nothing and takes the
  handler's error path.
* An HTTP call to Sweetbook has the outcomes the caller can tell apart and, for
  the failing one, both possibilities on the other side: carried out or not. The
  client's own retries and its 30 s timeout are inside that action. Where a
  repeated attempt makes a difference at Sweetbook (`addContents`) the action
  says how often the request was carried out; where it does not (orders have an
  idempotency key, a second cover is refused, finalizing and cancelling twice is
  answered like once) the repetitions are one outcome.
* Sweetbook itself is external and modelled by what the code relies on: a key is
  billed once and answered with the same order, a status code moves along the
  table in `docs/domains/orders.md`. Bull is external too: a job is delivered, and
  delivered once more if its worker died. So is React Query, by its documented
  behaviour.
* A crash removes every handler and keeps the tables, the files and Redis.
* `calm` is history, in the modules that have it: so far no two requests have
  overlapped (and, where said, none was lost). A property that starts with `calm`
  is one the code has for requests one at a time, with failures and crashes. It
  does not speak of overlapping requests: without `calm` TLC finds each of them
  violated by two that overlap, and section 6 says how ("Overlapping requests").
  `apart`, of `PersonalBooks`, is a weaker history: no two generations for one
  member have overlapped, whatever else has.

Operators whose comment begins with "Fault:" are not part of the
specification. Each is a plausible mistake in the definition that follows it and
serves to show that a property notices it.

## 3. Modules

| Module | What it is |
|---|---|
| `Billing` | abstract: what the order flow promises about money |
| `Orders`, `MCOrders`, `OrdersProofs` | the group order of one book (`orders.service.ts`), all request handlers; it implements `Billing` |
| `OrderSync`, `MCOrderSync`, `OrderSyncProofs` | one order after placing: webhooks, cron, polling, cancelling |
| `Books`, `MCBooks`, `BooksProofs` | one photo book (`books.service.ts`) from creation to deletion, with the steps of the order service that read or write it |
| `PersonalBooks`, `MCPersonalBooks`, `PersonalBooksProofs` | the personal books of a group, their generation, and the face anchors |
| `Groups` | the membership of one group |
| `CoverVoting`, `MCGroups`, `GroupsProofs` | `CoverVoting` extends `Groups`: requests of both interleave on the same membership |
| `Photos`, `PhotosProofs` | photos, their files, and the detection of faces |
| `Sessions`, `SessionsProofs` | the sessions of one user in several browsers |
| `Hooks` | data: every query, mutation and page of the front end |
| `QueryCache` | one query on one page, any of those in `Hooks` |
| `Editor`, `MCEditor` | the book editor and the page endpoints |
| `FrontEndProofs` | what is proved of the editor and of `QueryCache` |

`MC` modules only hold the values and symmetries of their instances.

### Orders

State: `group` and `book` (status columns), `rows` (the orders table: status and
whether `sweetbookOrderUid` is set), the external ledger `charges` and
`refunded`, and per handler its point, loop, current row, copies and result.
A row's identity stands for its idempotency key, and for the uid Sweetbook
answers that key with.

`CreateCheck`/`CreateSave` are `createOrderGroup`; `SubmitCheck`, `SubmitRead`,
`MemberSave` are `submitShipping`; `RejectCheck`, `RejectRead`, `MemberSave` are
`rejectOrder`; `ConfirmCheck`, `ConfirmRead`, `ConfirmTx` open
`confirmAndPlaceOrders`, `RetryCheck`, `RetryRead` open `retryFailedOrders`, and
both share the loop `Submitting`, `PostOrder`, `SavePaid`, `SaveError`, after
which `ConfirmDone`/`BookSave` or `RetryCount`/`RetrySave`/`BookSave` close it;
`CancelRead`, `CancelPost`, `CancelSave` are `cancelOrder`.

Left out: notifications, activities and estimates (their failures are logged or
come after the last change of state); requests by users who are refused before
any effect; statuses after PAID, which are `OrderSync`'s subject.

### OrderSync

State: Sweetbook's side (`remote` code, codes `seen`, announcements `sent`), our
`row`, the dedup store `marked`, webhook requests `hook`, and the other writers
`job` (the placing handler's last save, the cron, the status page). Every event
handler of the router is `HookSave` with the status `StatusOf` gives; the two
status tables are `mapSweetbookStatus` (orders service) and `mapStatusCode`
(router, used by the cron), each as its code has it.

`Path` is the course of an order that nothing disturbs. It begins with 20, the code
of an accepted order (a row is watched from then on), and its length is free.
`HandledOnce` counts the requests in progress: the dedup check and the mark are
two Redis calls, so as many requests as carry one delivery at once may handle it,
and no more, however often it is repeated later.

`ShownWasTrue` measures the row by the table of the order service, which is that of
`docs/domains/orders.md`, and not by the cron's, which differs (section 6): unless
the order has failed at Sweetbook, the status shown is the documented one of a code
the order has or had, or our own SUBMITTING or ERROR. Only a failed order (90) is left
out, because there the cron does show another.

`TypeOK` of this module is proved (section 5) and not part of a run: the time of
`SyncOrder` goes to its liveness property.

Left out: signature and timestamp verification, tracking numbers, the 60 s
cooldown of the status page (it only delays a poll), the expiry of dedup marks.

### Books

State: the `row` (status and `sweetbookBookUid`), the set of its `pages`, the
books `remote` that Sweetbook made for it (cover, how often each page was sent,
blank pages, finalized, deleted), the `group` that orders it and whether copies
were `billed`, and per handler its point, its copy of the book, the pages it read
and what it has still to send. `calm` is history: no two requests have
overlapped so far.

`CreateInsert`, `CreatePost`, `SaveCopy` are `createBook`; `AddStart`,
`AddPages`, `SaveCopy` are `addPages`; `PageStart`, `FindPage` and `DeletePage`
or `UpdatePage` are `deletePage` and `updatePage`; `EditStart`, `SaveCopy` are
`updateCover` and `toggleShare`; `DeleteCheck` to `Remove` are `deleteBook`;
`FinalizeCheck`, `FinalizeRead`, `MarkUploading`, `Upload`, `MarkProcessing`,
`PostCover`, `PostPage`, `PostBlank`, `PostFinalize`, `SaveReady`, `SaveFailed`
are `finalize`, with `calcTargetPageCount` and `Padding` for its arithmetic;
`RetryCheck` to `RetrySave` are `retryFinalize`; `OrderCheck` to `OrderedSave`
are what `orders.service.ts` does with the book. `uploadPhotoToBook`, `addCover`,
`addContents`, `finalizeBook` and `deleteBook` are the functions of the HTTP client
with those names: each is what may have happened at Sweetbook by the time it
returns or throws. The two try blocks of
`finalize` are the paths to `failing`; everything between them leaves the
handler by an exception and writes nothing.

Left out: what covers and pages look like, the order of the pages, the share
flag and code, prices, `pageCount` (shown, never decided upon), and the status
AUTO_GENERATING, which is never visible outside the transaction that sets it.
Pages are sent in any order (the code's order is one of them). A request for a page or
a blank may be carried out up to `Attempts` times (the client sends it again after
a timeout, with no key); `again` remembers that it was. Whether the body of such a
repeated multipart request still reaches Sweetbook depends on the form's stream,
so both outcomes are allowed. If it does, the book is longer than `finalize` has
reckoned and Sweetbook may refuse the finalization. `PrintedOnce` is therefore about calls, and
`TargetFits` about books to which no attempt was repeated. Consecutive reads with
no decision between them are one step. A book is created once; a deleted book
that a stale `save` inserts again is modelled (the row becomes what the copy
was), its new primary key is not.

### PersonalBooks

State: each member's `anchor` with the level of its threshold, the rows `book`
with their `match`es and those `excluded`, the books `remote` at Sweetbook, the
group's `job`, and the handlers. Likeness of a member and a photo is a constant
in as many levels as the threshold has; a photo matches when it is like enough.

`GenerateMine`, and `QueueJob` with `StartJob` and `NextMember`, are the two ways
into `generateForMember`: `FindOwnAnchor`, `ReadFaces`, `FindBook`, `Post`,
`TxFind`, `Commit`. `ExcludeStart`, `Exclude`, `FindAnchor`, `CountExcluded`,
`SaveAnchor` are `excludeMatch` with `adjustThreshold`; `RegisterStart`,
`RegisterCommit`, `DeleteAnchorStart`, `DeleteAnchor` are the face anchors;
`DeleteBookStart`, `DeleteRemote`, `RemoveBook` are `deleteBook`, and `BookMoves` stands for finalization and ordering, whose
detail is in `Books`. The job may be delivered a second time after a crash.
`ExcludedMatches` is the number of exclusions that `adjustThreshold` counts.

`OneBookInReview` speaks of books in review, which the document too has
generated over; what should become of a later one is section 6's subject. A
generation is between its two look-ups while `Generating`. As long as no two for one
member are, other requests and the moves of books may come in between.

Left out: scores and layout, the limit on photos per book (never reached by the
instance), other members' matches in the same photo. `TypeOK` is proved (section 5)
and not part of a run.

### Groups and CoverVoting

State of `Groups`: the row of `groups` (owner and status), each user's row of
`group_members`, and per request its point and its copies. `everOwner` and
`founded` are history. Ownership is recorded in `groups.ownerId` and again as a
role; most of the service asks the first, `leaveGroup`, cover voting and the order
service ask the second. Every request reads, checks and saves in separate actions
(`JoinStart`, `JoinFind`, `JoinSave`; `LeaveStart` or `RemoveStart`, `RemoveFind`,
`Remove`; `TransferStart`, `TransferFind`, `TransferBegin`, `TransferCommit`), and
every save writes a whole copy. Creating a group is two saves without a
transaction (`CreateGroup`, `CreateMember`), a transfer is three within one.

`CoverVoting` adds candidates, `votes` and the users whose confirmation was
recorded. A request asks for the caller's membership first; `OneOf` lets a step be
one of the group's or one of the voting's, and `CoverCrash` ends both kinds.

Left out: names, invite codes, cover images and notifications.

### Photos

State: `row`, `store` (none, some or all of a photo's three files) and `job` with
its `faces`: three stores that no transaction joins. `UploadStart`/`ImportStart`,
`StoreFiles`, `InsertRow`, `UploadEnd` are `uploadPhotos` and the import of a
KakaoTalk archive, whose photos have no uploader; `DeleteStart`, `RemoveFiles`,
`RemoveRow` and `UpdateStart`, `UpdateSave` are `deletePhoto` and `updatePhoto`; `Enqueue`, `TakeJob`,
`Detect`, `StoreFaces`, `FinishJob` are the queue and its worker. A worker that
dies leaves a job that Bull delivers again (`stalled`); a process whose face models
did not load (`ready`) skips detection.

Left out: sizes, EXIF, chapters, rankings (read, never decided upon), how an
archive is unpacked and recognised, and what a face looks like.

### Sessions

State: the server's clock, the token Redis holds for the user, each browser's two
cookies, and the requests in progress with the interceptor of `lib/axios.js`:
a call that is refused refreshes once and is tried again, calls of one page do so
side by side and share nothing. A token is known by the second it was signed
in, because its payload has nothing else that differs; two of one second are the
same token. Answers may be lost. A refused password is a 401 like any other
(`LoginCheck`): the interceptor refreshes whatever session the browser still has and
sends the sign-in again.

Left out: the exchange with OAuth providers, password reset, and which endpoint a
request is for.

### Hooks and QueryCache

`Hooks` is data: for each query its key and the tables its endpoint reads, for each
mutation the tables its endpoint writes and the keys it invalidates, and for each
page the queries it shows and the mutations it offers. Keys are sequences, so that
invalidation by prefix is what React Query does. `Left` names the pairs of a
mutation and a query on one page where the mutation writes what the query reads
and does not tell it: each is a divergence of section 6.

`QueryCache` takes any page and any of its queries (the initial states are all
pairs) and follows that query's data by version: mounting, staleness, fetching,
the one retry of `lib/queryClient.js`, invalidation, mutations in any order,
answers lost, writes of others. It records in `missed` what React Query does
not promise: an invalidation during a fetch that cannot be cancelled.
Its specification is `CacheSpec`, so that `FrontEndProofs` can extend it together
with `Editor`.

Left out: signing in, up and out (they set or clear the cache themselves),
`useFaceModelHealth` and `usePersonalBookJob` (polled), what a page looks like.

### Editor

State at the server: the page rows' numbers, the cover and the status; in the
browser: the list last fetched, the status last seen, the cover picked, and the
requests in progress, of which `latest` is the one React Query's
`updatePage.mutate` will call back for. A swap is two requests, the second sent
from the callback of the first; the cover is an entry of the list with id -1 and
number 0; finalizing sets the cover first, or goes straight to the book if no cover
is picked (neither by the user nor by the theme). The user's acts are `SavePage`,
`SwapPages`, `AddPages`, `DeletePage`, `Finalize` and `PickCover`, the server carries requests out in any order, and an
answer that is lost is a failure.

`calm` says what a careful user does: updates one at a time and additions one at a
time, none of them failing, swaps from an up-to-date list and not with the cover,
no deletions, one finalization at a time. The theorems say that this is enough.

Left out: templates, captions, photo slots and parameters not yet saved.

## 4. What the runs check

State counts are distinct states.

| Run | Instance | Question and answer |
|---|---|---|
| `OrdersRaces` | 2 members, 1 row each, 2 overlapping handlers, crash | 1,466,930 states. No key is billed twice, a row shown as paid was billed, one shown as refunded was refunded, nothing is billed while collecting, the collection never reopens, and the flow implements `Billing` |
| `OrdersSerial` | 3 rows of 2 members, 1 handler at a time, failures and crash | a row open to change is never billed, a member has one row, an ordered group stays ordered, every request ends |
| `OrdersReconfirm` | 2 rows, 1 handler | violated: `OrderedHasNoFailure` (section 6) |
| `SyncOrder` | one order along 20, 25, 60, 70, with cancellation, failure and restoration, 1 webhook request at a time, crash | 730,726 states. A delivery takes effect once (there is one request at a time); unless Sweetbook failed the order, the status shown is a documented one of a code it has had; a recorded order that is delivered is shown as DELIVERED for good |
| `BooksRaces` | 1 page, specification of exactly 2 pages (so one blank is padded), 2 attempts per request, 2 Sweetbook books, 2 overlapping handlers, crash, symmetric handlers and uids | 3.7 million states. No page is sent by two calls to a Sweetbook book; READY only if Sweetbook finalized; the padded count fits; with requests one at a time a billed book stays finished |
| `BooksStuck` | PERSONAL book, 2 pages, 1 to 3 pages in steps of 2, 1 handler | violated: `FinalizeSettles` |
| `GroupsVoting` | 2 users, 3 ids of member rows, 1 candidate, 2 overlapping requests, crash, symmetric users and handlers | under every interleaving only somebody who was given the group has the owner's role, a cover is confirmed only by somebody who owned the group, no vote outlives its candidate; with requests one at a time there is one owner, and what is deleted stays deleted |
| `Photos` | 2 photos, 2 overlapping requests, the worker, crash | a photo nobody has begun to delete has its files, faces are stored only of photos that are there and once (twice if the worker died), and the queue empties |
| `PersonalBooks` | 1 member, 2 photos, 1 step of the threshold after 2 exclusions, 2 rows, 2 uids, 2 overlapping handlers, a redelivered job, crash, symmetric handlers | 7.6 million states. A book in review is generated over and not doubled, as long as no two generations for one member overlap; with requests one at a time a generated row names a live Sweetbook book, a finished book is left alone and the threshold only rises |
| `Sessions` | 2 browsers, 2 requests, access tokens of 1 second, 3 seconds, answers lost | 1.76 million states. With requests one at a time the browser signed in last stays signed in, and a sign-out is for good; every request ends under any interleaving |
| `QueryCache` | every page with each of its queries, 2 mutations at once, 4 versions | 4.3 million states. A page that is quiet shows what its user's answered mutations wrote, except for `Left` |
| `Editor` | 3 pages, at least 2, 2 covers, 2 requests at once, 5 acts of the user, symmetric requests and covers | 1.67 million states. A careful user never sees two pages with one number, and gets the cover that was on the screen |

**Bounds.** Two handlers, because every hazard of these services is one handler
writing what another has read; the theorems of section 5 remove the bound for the
properties that matter most. In `Orders`, two rows or members, because the
properties relate a row to itself, to its siblings (one failed, one paid) and to
the group; `OrdersSerial` has three so that one member may own two. In `Books`,
two uids, so that a retry leaves an old Sweetbook book behind while another
handler still works with it; one page suffices for `PrintedOnce` and for padding
by one, and the theorems take care of any number of pages and any specification.
`MAX_RETRIES` is 3, hence four attempts in the code; two are enough for a request
to be carried out more often than it was sent. In `OrderSync` a webhook event
occurs once and may be delivered without limit. In `Groups` two users are an owner
and a successor, three row ids let a user leave and come back; a third user adds
only another successor. In `Photos` two photos are what one request handles one
after the other and two requests share. In `PersonalBooks` two rows and uids are
the second book that must not come to be, one step of the threshold is enough to
be overwritten. In `Sessions` an access token lives one second so that both the
first and the second one run out within three. In `QueryCache` a version more than
the mutations can make leaves room for a write of somebody else. In `Editor` three
pages let a swap leave a page beside it, and five acts are two swaps, an addition
and a finalization. The server dies at most once in `OrderSync` and without limit
elsewhere.

**Deadlock** is checked for `Sessions` and `QueryCache`, which never stop. In
the other runs it is not: a group whose orders are settled, an order at its end,
a deleted book, a dissolved group and photos that have come and gone take no
further requests, and in `PersonalBooks` and `Editor` the instance runs out.

**Fairness.** `WF(Continue(p))` in `Orders`, `Books`, `Photos` and `Sessions`: the
event loop resumes a handler whose await has settled, and every database call and
HTTP call settles (the clients have timeouts). Requests and crashes have none. In
`Photos` a promise to enqueue and the worker have weak fairness and taking a job has strong
fairness: Bull hands its jobs out in turn, and one job waits while another is taken.
In `OrderSync` the webhook requests, the placing handler and the status page have
weak fairness likewise; the cron starts for ever (`WF`, it is a timer) and its
fetch and save have strong fairness: an attempt that fails is repeated every 30
minutes and is assumed not to fail for ever. Nothing is owed by Sweetbook: no
webhook need arrive and no order need advance.

## 5. What is proved

TLAPS checks the theorems for all members, rows, pages, photos, users, browsers,
webhook requests and any number of handlers. They rest on the named assumptions
of the modules only: markers are not values (`UidAssumption`, ...), a row has an
orderer, pages and photos are finite sets (so are the webhook requests, which are
counted), limits are naturals, the page increment is positive, the course of an
order begins with code 20. Every assumption is evaluated in a run.

Every invariant and action property of the passing runs is a theorem; three of them
under a hypothesis that is the question of the run itself (`OrdersProofs`, below),
one under a fact about data (`FrontEndProofs`).

`OrdersProofs`: `TypeCorrect`, `NoDoubleCharge`, `PaidRowsAreCharged`,
`RefundedRowsAreRefunded`, `CollectingIsFree`, `ClosedForGood`,
`ImplementsBilling`. The invariants speak of the table, but a handler replaces a
row by a copy it read long ago, so none is inductive alone. `IInv` adds that
every copy is as honest as the table (`CopiesHonest`: what it claims about the
ledger is true, and stays true, because charges and refunds only grow), that a
copy about to claim more has already earned it (`Earned`), and that handlers
past the closing transaction find the group closed (`ClosedBehind`).
The last gives `CollectingIsFree`; the key's single charge gives
`NoDoubleCharge`; the refinement maps every step to a step of `Billing` or a
stutter.

`SerialOpenUnbilled`, `SerialOneRow` and `SerialOrderedFinal` have the hypothesis
`OneAtATime`, that there is one handler at most. `OrdersSerial` is such an
instance, with failures and crashes. The hypothesis cannot be spared: with two
overlapping handlers TLC finds each of the three violated (a double submission, a
late save of a member, a late second confirmation). `SerialInv` says that the copies of the one
handler are never stale (`UpToDate`: the group it has checked is still so, the
rows of its loop are there, the row it will save is the member's only one), which
is what overlapping requests take away.

`OrderSyncProofs`: `AlwaysTyped`, `AlwaysWasTrue`, `AlwaysHandledOnce`. The conclusion of `AlwaysWasTrue` is
about the documented table: unless the order has failed (90), the row shows what that
table calls a code the order has had. The row does because everything that may be
written on it does: `IInv` says that the events announced, those being handled and
the statuses that cron, status page and cancellation hold in their hands all stand
for such codes in one of the code's two tables (`Shown`, `RowShown`), a set that only
grows, and by `TablesAgree` the tables call every code but 90 the same as far as
both have it. `AlwaysHandledOnce` counts: the deliveries handled and those
being handled are together no more than the requests (`Counted`), because none
passes the check once the mark is there, and a request that is done does not pass
it again.

`BooksProofs`: `TypeCorrect`, `PagesPrintedOnce`, `ReadyIsFinal`. Two finalize
handlers may both pass the status check, so nothing in our own state keeps them
apart. What does is Sweetbook's refusal of a second cover: `IInv` states that at
most one handler is in the sending loop for a Sweetbook book (`OnePrinter`), that
such a book has its cover, and that the pages that handler has still to send
were never sent (`Good`). `ReadyIsFinal` needs that every copy that says READY
names a finalized book, and that a copy whose uid is about to change does not
say READY (`FreshPoints`).

`FinalizedBookFits` is about arithmetic: `Accounted` states that what the Sweetbook
book has and what its one printer has still to send make up the length it is padded
to, and `PaddedFits` that this length is allowed, for every number of pages up to
`pageMax` and every specification. `AlwaysAccounted` rests on `OnePrinter`: it is the
cover that makes the counting of one handler right in spite of others.

`BilledStaysReady` is about requests one at a time, the `calm` of the model: `Settled`
states that once copies were ordered or billed the book and the copy in the hand of
the one busy handler are READY or ORDERED, and that the handler is at a point from
which it writes nothing else (`SafePoints`).

`PersonalBooksProofs`: `AlwaysTyped`, `AlwaysOneInReview`, and for requests one at a
time `NewBookAlwaysLive`, `FinalizedAlwaysKept`, `ThresholdAlwaysRises`.
`AlwaysOneInReview` holds as long as generations for one member do not overlap: its
invariant `ApartInv` says what the one generation for a member may rely on from its
second look-up to the commit. `CalmInv` says there is one busy handler (`Alone`) and what it knows holds still
(`Honest`): before the call to Sweetbook the member has no book, before the commit
the member has none and the new uid is live, or the book found is in review; a
threshold read is the one stored. The action properties follow from it and from
which steps move a book to another state at all (`NewByCommit`).

`GroupsProofs`: `TypeAlwaysOK`, `RoleWasAlwaysGiven`, `AlwaysConfirmedByOwner`,
`VotesAlwaysCount` hold under every interleaving. Their invariant has two halves,
`GroupSafe` and `CoverSafe`, which meet only in `everOwner`: it grows, so what one
half knows of it the other cannot take away. `AlwaysOneOwner` and
`AlwaysDeletedForGood` need `CalmInv`: while requests come one at a time there is
one handler at most, its copies are the rows themselves (`FreshFor`, `FreshVote`),
and owner and role differ only before the creation has come to its end.

`PhotosProofs`: `TypeAlwaysOK`, `KeptPhotosHaveFiles`, `FacesAlwaysOfPhotosThere`,
`FacesAlwaysOnce`. `IInv` says what a handler knows of the photos it has still
to deal with (`Good`), that a photo is brought in by one handler (`OneBringer`),
that only a doomed row is deleted, and that the faces of a photo are bounded by the
deliveries of its job that are over (`FaceBound`).

`SessionsProofs`: `SessionAlwaysHolds`, `SignedOutAlwaysStays`. While requests
come one at a time, the one that is going on accounts for any difference
between Redis and the cookies (`Alone`); between requests there is none (`Held`).

`FrontEndProofs`: of the editor `NumbersAlwaysDistinct` and `CoverAlwaysAsChosen`.
Numbers are distinct except while a swap is half done, when two pages share one;
then there is one request that will give the other its number (`NumInv`, with
`Perfect` numberings and the `Half` of a swap). The new page's number is the count
of pages plus one, which is free because, without deletions, the numbers are 1 to
the count.

Of the query cache `QuietIsFresh`: if every hook tells the queries of its page what
it changes (`EveryHookTells`), a quiet page shows what its own mutations wrote, for
any number of mutations at once and any number of writes. The invariant is `Coming`:
as long as nothing was missed, what the mutations wrote is shown, or an answer, a
fetch that reads late enough, or the next mount will still bring it.
`EveryHookTells` says nothing about a behaviour and has no constant in it: it
compares the keys and tables listed in `Hooks`. TLC has to settle it, and does: the
`QueryCache` run begins with every page and each of its queries and takes every
mutation the page offers, and a single hook that did not tell would show there.

Only model-checked: the four liveness properties (`RequestsReturn`,
`DeliveredIsShown`, `QueueDrains`, `RequestsEnd`), since fairness and ENABLED are out
of the prover's reach, and `EveryHookTells`, a table of some hundred entries.
`OrderedHasNoFailure` and `FinalizeSettles` are not theorems because they are false
(section 6).

## 6. Where code and documentation disagree

Two of these are runs that TLC shows violated; the others were read off the code
while it was translated, and are the reason why a property is stated for `calm`
behaviours or excludes a pair.

Orders and books:

* **Second confirmation** (`OrdersReconfirm`). The comment at
  `orders.service.ts:395` says the group becomes ORDERED when every order has
  succeeded. Confirming a second time skips rows that are not PENDING and counts
  them as successes: ORDERED with an order in ERROR, which can no longer be
  retried.
* **Stuck finalization** (`BooksStuck`). `docs/domains/books.md:157` says FAILED
  at whichever stage it fails; a failing cover, page or blank page leaves the book
  PROCESSING, which no operation leaves.
* **Failed order.** The cron's table (`webhook-router.service.ts:338`) cites
  `docs/domains/orders.md`, whose lines 55-57 call 80 CANCELLED, 81 CANCELLED_REFUND
  and 90 ERROR. The cron calls 90 CANCELLED, so an order that failed at Sweetbook is
  shown as cancelled by one part of the service and as ERROR by the other.
  `ShownWasTrue` leaves such orders out for this reason.
* **Double submission.** `submitShipping` promises to update an existing row
  (`orders.service.ts:238`); two overlapping submissions insert two, with two keys,
  and both are billed.
* **Lost cancellation.** The same table has no 80 and 81 at all (and a 95 of its own);
  the docs and the table of the order service have both. A cancellation whose webhook is
  lost is never shown, though the cron is said to correct it.
* **Concurrent duplicates.** Dedup check and mark are two Redis calls; two requests
  with one delivery id are both handled. `SyncOrder` therefore has one webhook
  request at a time.
* **Deleting a billed book.** A book with one failed order stays READY, hence
  deletable (`books.service.ts:187`), and the paid orders are deleted with it.
* **Editing a finished book.** `docs/domains/books.md:160` says a finalized book
  is not edited; the endpoints for pages and cover do not look at the status.

Personal books, groups, users:

* **Regenerating.** `docs/domains/books/personal-book.md:125` says that a book past
  AUTO_GENERATING and READY_TO_REVIEW is not overwritten but a new book is made.
  The code refuses instead (`personal-book.service.ts:258-271`): it looks the
  member's personal book up whatever its status, so there is no second one
  unless generations overlap.
  `OneBookInReview` therefore says nothing of books past review.
* **Overlapping generations** make two rows for a member; a generation whose copy
  is old saves DRAFT over UPLOADING; a commit that fails leaves a row whose Sweetbook
  book was deleted; registering an anchor while an exclusion raises its threshold
  lowers it again.
* **Leaving during an order.** `docs/domains/groups.md` refuses to leave, remove or
  dissolve while an order is going on; the service does not ask.
* **One vote per member.** `docs/domains/books.md` gives a member one vote; the code
  keeps one per member and candidate.
* **Withdrawn accounts.** A save of an older copy of the user, or an OAuth sign-in,
  restores an account that `docs/domains/users.md` calls closed; two requests with one
  reset token may both pass, since it is read and deleted in two calls.

Overlapping requests (where the code reads and saves in two awaits; the properties
about these are for requests one at a time, and TLC shows each violated by two that
overlap):

* A late second confirmation puts an ORDERED group back to CONFIRMED.
* An edit that read a book before its finalization saves the old status over the
  READY one, which by then may be billed.
* Two hand-overs, or a hand-over and a departure, leave `ownerId` and the roles
  apart; an edit that read the group before its dissolution brings it back.
* A refresh that overlaps another, or a sign-in elsewhere, leaves the browser with
  a token Redis no longer holds; one that overlaps a sign-out makes a session again.

Front end:

* **`Left`.** Uploading, importing and deleting photos leaves the group's photo
  count, detection progress and activities as they were; finalizing and ordering
  leave the unread count until its next poll; joining leaves the invitation,
  withdrawing the signed-in user.
* `useKakaoImport` invalidates `['chapters']`, a key no query has;
  `useUpdateGroupStatus` calls a route no controller has; generating for a group
  invalidates when the job is queued, not when it has ended; finalizing does not
  invalidate the group's list of books.
* **Swapping.** Another update sent before the first half is answered takes its
  callback, so the second half is never sent; a swap with the cover gives a page
  number 0 and asks the server for page -1; a page added after a deletion gets a
  number that is taken, as `deletePage` does not renumber.
* **Finalizing.** Pressing the button again, or picking another cover, while the first
  finalization is under way lets the two overtake each other; `CoverAsChosen` is about
  one at a time. The count that enables the button includes the cover; the
  comment at `BookEditorPage.jsx:625` says that a swap changes only what is shown,
  for want of a `pageNumber` in the API, which has it.

## 7. Not modelled, and why

* Rows of users, password, withdrawal and password reset: each reads and saves one
  row on which no modelled decision depends; their writes are in `Hooks`.
* The exchange with OAuth providers, email, face-api, openai: calls to other
  services; they appear as outcomes of the calls that use them.
* The reminder cron inserts rows that nothing else decides upon; activities are
  inserts whose failure every caller swallows.
* Configuration, guards, filters, migrations, seeds: wiring, schema and
  demonstration data. Unique indexes and cascades are modelled where a component
  relies on them.
* Presentation: pages, forms and viewers are markup over the hooks.
* Within the modelled components: the signature and timestamp check of webhooks
  (no state), tracking numbers, estimates and prices, requests refused before they
  change anything, and the gap inside TypeORM's `save` between its SELECT and its
  UPDATE.

## 8. Plan

| Module | Aim |
|---|---|
| `GroupsProofs`, `SessionsProofs` | `OneOwner` and `SessionHolds` as steps of an abstract specification |
| `OrdersProofs` | which pairs of overlapping requests leave `OpenRowsUnbilled` true |
| `Accounts` | users' rows with their stale copies, withdrawal, password reset: a reset token is used once |
| `Reminder` | the daily cron: one reminder a day per instance |

An abstract specification like `Billing` is worth stating for groups (a set of
members with one owner) and for sessions (a user signed in, in one browser).
