--------------------------- MODULE FrontEndProofs ---------------------------
(***************************************************************************)
(* Proofs about Editor, for every number of pages, requests and actions of *)
(* the user: the cover that is printed, and the numbers of the pages,      *)
(* which a swap that is half done leaves equal for a while.  Then about    *)
(* QueryCache, for every number of mutations and writes.                   *)
(***************************************************************************)
EXTENDS Editor, QueryCache, FiniteSetTheorems, TLAPS

Ops == {"idle", "save", "swap", "swapBack", "add", "delete", "setCover", "finalize"}

Request == [at : {"idle", "sent", "answered", "refused"}, op : Ops, id : Int,
            num : Int, next : Int, nextNum : Int, cover : Covers \cup {NoCover}]

Typed ==
  /\ num \in [Ids -> Int]
  /\ made \in Int /\ made <= MaxPages
  /\ list \in [Ids \cup {CoverId} -> Int]
  /\ picked \in Covers \cup {NoCover}
  /\ call \in [Calls -> Request]

-----------------------------------------------------------------------------
(* The cover *)

Ordering(c) == ~Idle(c) /\ call[c].op \in {"setCover", "finalize"}

\* Of the requests of a finalisation there is one at a time, and the cover is on
\* its way or saved before the book is finalised.
CoverInv ==
  calm =>
    /\ \A c, d \in Calls : Ordering(c) /\ Ordering(d) => c = d
    /\ \A c \in Calls : ~Idle(c) /\ call[c].op = "setCover" =>
         /\ status = "DRAFT"
         /\ call[c].at = "sent" => call[c].cover = chosen
         /\ call[c].at = "answered" => cover = chosen
    /\ \A c \in Calls : At(c, {"finalize"}) => status = "DRAFT" /\ cover = chosen
    /\ status # "DRAFT" =>
         /\ printed = chosen
         /\ known # "DRAFT" \/ \E c \in Calls : ~Idle(c) /\ call[c].op = "finalize"

\* As long as no cover has been picked none is saved or on its way.
Unpicked ==
  picked = NoCover =>
    /\ cover = NoCover
    /\ \A c \in Calls : Idle(c) \/ call[c].op # "setCover"

-----------------------------------------------------------------------------
(* The numbers *)

Updating(c) == ~Idle(c) /\ call[c].op \in Updates

\* The numbers 1 to m in some order.
Perfect(n, m) ==
  \A i \in 1 .. m : /\ n[i] \in 1 .. m
                    /\ \A j \in 1 .. m : i # j => n[i] # n[j]

\* A swap whose first page has its new number and whose second has not.
Half(c) ==
  \/ call[c].op = "swap" /\ call[c].at \in {"answered", "refused"}
  \/ call[c].op = "swapBack" /\ call[c].at = "sent"

RequestOK(c) ==
  LET r == call[c] IN
  /\ r.op = "swap" /\ r.at = "sent" =>
       /\ r.id \in 1 .. made /\ r.next \in 1 .. made /\ r.id # r.next
       /\ r.num = num[r.next] /\ r.nextNum = num[r.id]
  /\ r.op = "swap" /\ r.at \in {"answered", "refused"} =>
       r.next \in 1 .. made /\ Perfect([num EXCEPT ![r.next] = r.nextNum], made)
  /\ r.op = "swapBack" /\ r.at = "sent" =>
       r.id \in 1 .. made /\ Perfect([num EXCEPT ![r.id] = r.num], made)
  /\ r.op = "add" => r.num \in Nat

NumInv ==
  calm =>
    /\ made \in Nat
    /\ \A id \in Ids : num[id] # Absent <=> id <= made
    /\ \A c, d \in Calls : Updating(c) /\ Updating(d) => c = d
    /\ \A c \in Calls : Updating(c) => latest = c
    /\ \A c \in Calls : ~Idle(c) => call[c].op # "delete"
    /\ \A c \in Calls : ~Idle(c) => RequestOK(c)
    /\ (\A c \in Calls : ~Half(c)) => Perfect(num, made)

IInv == Typed /\ CoverInv /\ NumInv

-----------------------------------------------------------------------------
\* The record of a request has its type, field by field.
LEMMA AskedType ==
  ASSUME NEW op \in Ops, NEW id \in Int, NEW n \in Int, NEW next \in Int,
         NEW nextNum \in Int, NEW k \in Covers \cup {NoCover}
  PROVE  LET r == Asked(op, id, n, next, nextNum, k)
         IN  /\ r \in Request /\ r.at = "sent" /\ r.op = op /\ r.id = id
             /\ r.num = n /\ r.next = next /\ r.nextNum = nextNum /\ r.cover = k
  BY DEF Request, Asked

\* So has that of none.
LEMMA NoCallType == NoCall \in Request /\ NoCall.at = "idle" /\ NoCall.op = "idle"
  BY DEF NoCall, Asked, Request, Ops

\* At the start there is nothing to number and nothing to print.
LEMMA InitIInv == Init => IInv
  <1> SUFFICES ASSUME Init PROVE IInv
    OBVIOUS
  <1>1. \A c \in Calls : call[c].at = "idle" /\ call[c].op = "idle"
    BY NoCallType DEF Init
  <1>2. Typed
    <2>1. CoverId \notin Ids /\ Ids \subseteq Int
      BY PagesAssumption DEF CoverId, Ids
    <2>2. num \in [Ids -> Int] /\ made = 0 /\ made <= MaxPages
      BY PagesAssumption DEF Init, Absent
    <2>3. list \in [Ids \cup {CoverId} -> Int]
      BY <2>2 DEF Init, Listing, Absent
    <2> QED BY <2>2, <2>3, NoCallType DEF Init, Typed
  <1>3. CoverInv
    BY <1>1 DEF Init, CoverInv, Ordering, Idle, At
  <1>4. NumInv
    <2>1. \A id \in Ids : ~(num[id] # Absent) /\ ~(id <= made)
      BY PagesAssumption DEF Init, Ids, Absent
    <2>2. Perfect(num, made)
      BY DEF Init, Perfect
    <2> QED BY <1>1, <2>1, <2>2 DEF Init, NumInv, Updating, Idle
  <1> QED BY <1>2, <1>3, <1>4 DEF IInv

\* What a step that changes one request leaves of the cover's part.
LEMMA CoverKept ==
  ASSUME Typed, CoverInv, NEW c \in Calls, NEW r \in Request,
         call' = [call EXCEPT ![c] = r],
         calm' => calm, UNCHANGED <<cover, status, chosen, printed>>,
         known' # known => known' # "DRAFT",
         calm' => call[c].op \notin {"setCover", "finalize"} \/ Idle(c),
         calm' => r.op \notin {"setCover", "finalize"} \/ r.at = "idle"
  PROVE  CoverInv'
  <1>1. call'[c] = r /\ \A d \in Calls \ {c} : call'[d] = call[d]
    BY DEF Typed
  <1> QED BY <1>1 DEF CoverInv, Ordering, Idle, At

\* What a step that changes one request leaves of the numbers' part.
LEMMA NumKept ==
  ASSUME Typed, NumInv, NEW c \in Calls, NEW r \in Request,
         call' = [call EXCEPT ![c] = r],
         calm' => calm, UNCHANGED <<num, made, latest>>,
         calm' => Idle(c) \/ call[c].op \notin Updates,
         calm' => r.at = "idle" \/ r.op \notin Updates \cup {"delete"},
         calm' => (r.op = "add" => r.num \in Nat)
  PROVE  NumInv'
  <1>1. call'[c] = r /\ \A d \in Calls \ {c} : call'[d] = call[d]
    BY DEF Typed
  <1>2. CASE calm'
    <2>1. ~Updating(c) /\ ~Updating(c)' /\ calm
      BY <1>1, <1>2 DEF Updating, Idle
    <2>2. \A d \in Calls : Updating(d)' <=> Updating(d)
      BY <1>1, <2>1 DEF Updating, Idle
    <2>3. \A d \in Calls : Half(d) => Updating(d)
      BY DEF Typed, Half, Updating, Idle, Updates, Request
    <2>4. \A d \in Calls : Half(d)' <=> Half(d)
      BY <1>1, <2>1, <2>3 DEF Half, Updating, Idle, Updates
    <2>5. ASSUME NEW d \in Calls, ~Idle(d)' PROVE RequestOK(d)' /\ call'[d].op # "delete"
      <3>1. CASE d = c
        BY <1>1, <1>2, <2>5, <3>1 DEF RequestOK, Updates, Idle
      <3>2. CASE d # c
        BY <1>1, <2>1, <2>5, <3>2 DEF NumInv, RequestOK, Idle
      <3> QED BY <3>1, <3>2
    <2> QED BY <2>1, <2>2, <2>4, <2>5 DEF NumInv
  <1>3. CASE ~calm'
    BY <1>3 DEF NumInv
  <1> QED BY <1>2, <1>3

-----------------------------------------------------------------------------
(* What the user does *)

\* A request that is sent keeps its type.
LEMMA SendTyped ==
  ASSUME Typed, NEW c \in Calls, NEW op \in Ops, NEW id \in Int, NEW n \in Int,
         NEW next \in Int, NEW nextNum \in Int, NEW k \in Covers \cup {NoCover},
         Send(c, op, id, n, next, nextNum, k), UNCHANGED <<num, made, list, picked>>
  PROVE  Typed'
  BY AskedType DEF Typed, Send

\* Entries of the list have numbers, and those that are pages, ids.
LEMMA ListTyped ==
  ASSUME Typed, NEW a \in Listed
  PROVE  a \in Int /\ a \in Ids \cup {CoverId} /\ list[a] \in Int
  BY PagesAssumption DEF Typed, Listed, Ids, CoverId

\* updatePage.mutate for the photos and texts of a page.
LEMMA SaveStep ==
  ASSUME IInv, NEW c \in Calls, NEW id \in DOMAIN list, SavePage(c, id)
  PROVE  IInv'
  <1> DEFINE r == Asked("save", id, 0, 0, 0, NoCover)
  <1>0. Typed /\ CoverInv /\ NumInv /\ id \in Int
    BY ListTyped DEF IInv, SavePage
  <1>1. r \in Request /\ r.at = "sent" /\ r.op = "save"
    BY <1>0, AskedType DEF Ops
  <1>2. /\ call' = [call EXCEPT ![c] = r] /\ Idle(c) /\ latest' = c
        /\ calm' = (calm /\ Running(Updates) = {})
        /\ UNCHANGED <<num, made, cover, status, printed, list, known, picked, chosen>>
    BY DEF SavePage, Send, Calmly, server
  <1> HIDE DEF r
  <1>3. Typed'
    BY <1>0, <1>1, <1>2 DEF Typed
  <1>4. CoverInv'
    BY <1>0, <1>1, <1>2, CoverKept
  <1>5. call'[c] = r /\ \A d \in Calls \ {c} : call'[d] = call[d]
    BY <1>0, <1>2 DEF Typed
  <1>6. NumInv'
    <2>1. CASE calm'
      <3>1. calm /\ \A d \in Calls : ~Updating(d)
        BY <1>2, <2>1 DEF Running, Updating
      <3>2. \A d \in Calls : Updating(d)' => d = c
        BY <1>5, <3>1 DEF Updating, Idle
      <3>3. \A d \in Calls : ~Half(d) /\ ~Half(d)'
        BY <1>0, <1>1, <1>5, <3>1 DEF Half, Updating, Idle, Updates
      <3>4. ASSUME NEW d \in Calls, ~Idle(d)'
            PROVE  RequestOK(d)' /\ call'[d].op # "delete"
        <4>1. CASE d = c
          BY <1>1, <1>5, <4>1 DEF RequestOK
        <4>2. CASE d # c
          BY <1>0, <1>2, <1>5, <3>1, <3>4, <4>2 DEF NumInv, RequestOK, Idle
        <4> QED BY <4>1, <4>2
      <3> QED BY <1>0, <1>2, <3>1, <3>2, <3>3, <3>4 DEF NumInv
    <2>2. CASE ~calm'
      BY <2>2 DEF NumInv
    <2> QED BY <2>1, <2>2
  <1> QED BY <1>3, <1>4, <1>6 DEF IInv

\* The first half of a swap: on an up-to-date list both entries are pages, and the
\* numbers it carries are theirs.
LEMMA SwapStep ==
  ASSUME IInv, NEW c \in Calls, NEW a \in DOMAIN list, NEW b \in DOMAIN list,
         SwapPages(c, a, b)
  PROVE  IInv'
  <1> DEFINE r == Asked("swap", a, list[b], b, list[a], NoCover)
  <1>0. /\ Typed /\ CoverInv /\ NumInv /\ a \in Listed /\ b \in Listed /\ a # b
        /\ a \in Int /\ b \in Int /\ list[a] \in Int /\ list[b] \in Int
    BY ListTyped DEF IInv, SwapPages
  <1>1. /\ r \in Request /\ r.at = "sent" /\ r.op = "swap" /\ r.id = a
        /\ r.num = list[b] /\ r.next = b /\ r.nextNum = list[a]
    BY <1>0, AskedType DEF Ops
  <1>2. /\ call' = [call EXCEPT ![c] = r] /\ Idle(c) /\ latest' = c
        /\ calm' = (calm /\ Running(Updates) = {} /\ CoverId \notin {a, b}
                         /\ list = Listing)
        /\ UNCHANGED <<num, made, cover, status, printed, list, known, picked, chosen>>
    BY DEF SwapPages, Send, Calmly, server
  <1> HIDE DEF r
  <1>3. Typed'
    BY <1>0, <1>1, <1>2 DEF Typed
  <1>4. CoverInv'
    BY <1>0, <1>1, <1>2, CoverKept
  <1>5. call'[c] = r /\ \A d \in Calls \ {c} : call'[d] = call[d]
    BY <1>0, <1>2 DEF Typed
  <1>6. NumInv'
    <2>1. CASE calm'
      <3>1. calm /\ \A d \in Calls : ~Updating(d)
        BY <1>2, <2>1 DEF Running, Updating
      <3>2. \A d \in Calls : Updating(d)' => d = c
        BY <1>5, <3>1 DEF Updating, Idle
      <3>3. \A d \in Calls : ~Half(d) /\ ~Half(d)'
        BY <1>0, <1>1, <1>5, <3>1 DEF Half, Updating, Idle, Updates
      <3>4. /\ a \in Ids /\ b \in Ids /\ list[a] = num[a] /\ list[b] = num[b]
            /\ num[a] # Absent /\ num[b] # Absent
        <4>1. a \in Ids /\ b \in Ids
          BY <1>0, <1>2, <2>1, ListTyped
        <4>2. a # CoverId /\ b # CoverId
          BY <1>2, <2>1
        <4>3. list[a] # Absent /\ list[b] # Absent
          BY <1>0 DEF Listed
        <4>4. list[a] = num[a] /\ list[b] = num[b]
          BY <1>2, <2>1, <4>1, <4>2 DEF Listing
        <4> QED BY <4>1, <4>3, <4>4
      <3>5. a \in 1 .. made /\ b \in 1 .. made
        BY <1>0, <3>1, <3>4, PagesAssumption DEF NumInv, Ids, Typed
      <3>6. ASSUME NEW d \in Calls, ~Idle(d)'
            PROVE  RequestOK(d)' /\ call'[d].op # "delete"
        <4>1. CASE d = c
          BY <1>0, <1>1, <1>2, <1>5, <3>4, <3>5, <4>1 DEF RequestOK
        <4>2. CASE d # c
          BY <1>0, <1>2, <1>5, <3>1, <3>6, <4>2 DEF NumInv, RequestOK, Idle
        <4> QED BY <4>1, <4>2
      <3> QED BY <1>0, <1>2, <3>1, <3>2, <3>3, <3>6 DEF NumInv
    <2>2. CASE ~calm'
      BY <2>2 DEF NumInv
    <2> QED BY <2>1, <2>2
  <1> QED BY <1>3, <1>4, <1>6 DEF IInv

\* New pages are asked for.
LEMMA AddStep ==
  ASSUME IInv, NEW c \in Calls, NEW n \in 1 .. 2, AddPages(c, n)
  PROVE  IInv'
  <1> DEFINE r == Asked("add", 0, n, 0, 0, NoCover)
  <1>0. Typed /\ CoverInv /\ NumInv
    BY DEF IInv
  <1>1. r \in Request /\ r.at = "sent" /\ r.op = "add" /\ r.num = n /\ n \in Nat
    BY AskedType DEF Ops
  <1>2. /\ call' = [call EXCEPT ![c] = r] /\ Idle(c)
        /\ calm' = (calm /\ Running({"add"}) = {})
        /\ UNCHANGED <<num, made, cover, status, printed, list, known, picked, latest,
                       chosen>>
    BY DEF AddPages, Send, Calmly, server
  <1> HIDE DEF r
  <1>3. Typed'
    BY <1>0, SendTyped DEF AddPages, server, Ops
  <1>4. CoverInv'
    BY <1>0, <1>1, <1>2, CoverKept
  <1>5. NumInv'
    BY <1>0, <1>1, <1>2, NumKept DEF Updates
  <1> QED BY <1>3, <1>4, <1>5 DEF IInv

\* A page's deletion is asked for: it is calm no more.
LEMMA DeleteStep ==
  ASSUME IInv, NEW c \in Calls, NEW id \in DOMAIN list, DeletePage(c, id)
  PROVE  IInv'
  <1>1. Typed /\ id \in Int /\ ~calm'
    BY ListTyped DEF IInv, DeletePage, Calmly
  <1>2. Typed'
    BY <1>1, SendTyped DEF DeletePage, server, Ops
  <1> QED BY <1>1, <1>2 DEF IInv, CoverInv, NumInv

\* The finalisation is asked for: the cover on the screen is sent first, if there
\* is one.
LEMMA FinalizeStep ==
  ASSUME IInv, Unpicked, NEW c \in Calls, Finalize(c)
  PROVE  IInv'
  <1>0. Typed /\ CoverInv /\ NumInv
    BY DEF IInv, Typed
  <1>1. PICK r \in Request :
          /\ call' = [call EXCEPT ![c] = r] /\ r.at = "sent"
          /\ \/ r.op = "setCover" /\ r.cover = picked
             \/ r.op = "finalize" /\ picked = NoCover
    <2>1. CASE picked # NoCover /\ Send(c, "setCover", 0, 0, 0, 0, picked)
      <3> DEFINE r == Asked("setCover", 0, 0, 0, 0, picked)
      <3>1. r \in Request /\ r.at = "sent" /\ r.op = "setCover" /\ r.cover = picked
        BY <1>0, AskedType DEF Typed, Ops
      <3>2. call' = [call EXCEPT ![c] = r]
        BY <2>1 DEF Send
      <3> HIDE DEF r
      <3> QED BY <3>1, <3>2
    <2>2. CASE picked = NoCover /\ Send(c, "finalize", 0, 0, 0, 0, NoCover)
      <3> DEFINE r == Asked("finalize", 0, 0, 0, 0, NoCover)
      <3>1. r \in Request /\ r.at = "sent" /\ r.op = "finalize"
        BY AskedType DEF Ops
      <3>2. call' = [call EXCEPT ![c] = r]
        BY <2>2 DEF Send
      <3> HIDE DEF r
      <3> QED BY <2>2, <3>1, <3>2
    <2> QED BY <2>1, <2>2 DEF Finalize
  <1>2. /\ Idle(c) /\ known = "DRAFT"
        /\ Running({"finalize"}) = {} /\ chosen' = picked
        /\ calm' = (calm /\ Running({"setCover"}) = {})
        /\ UNCHANGED <<num, made, cover, status, printed, list, known, picked, latest>>
    BY DEF Finalize, Calmly, server
  <1>3. Typed'
    BY <1>0, <1>1, <1>2 DEF Typed
  <1>4. NumInv'
    BY <1>0, <1>1, <1>2, NumKept DEF Updates
  <1>5. call'[c] = r /\ \A d \in Calls \ {c} : call'[d] = call[d]
    BY <1>0, <1>1 DEF Typed
  <1>6. CoverInv'
    <2>1. CASE calm'
      <3>1. calm /\ \A d \in Calls : ~Ordering(d)
        BY <1>2, <2>1 DEF Running, Ordering
      <3>2. status = "DRAFT"
        BY <1>0, <1>2, <3>1 DEF CoverInv, Ordering
      <3>3. \A d \in Calls \ {c} : ~Ordering(d)'
        BY <1>5, <3>1 DEF Ordering, Idle
      <3>4. \A d \in Calls \ {c} : ~At(d, {"finalize"})'
        BY <1>5, <3>1 DEF Ordering, Idle, At
      <3>5. r.op = "finalize" => cover' = chosen'
        BY <1>1, <1>2 DEF Unpicked
      <3> QED BY <1>1, <1>2, <1>5, <3>2, <3>3, <3>4, <3>5 DEF CoverInv, Ordering, At
    <2>2. CASE ~calm'
      BY <2>2 DEF CoverInv
    <2> QED BY <2>1, <2>2
  <1> QED BY <1>3, <1>4, <1>6 DEF IInv

\* Any of them.
LEMMA UserStep ==
  ASSUME IInv, Unpicked, NEW c \in Calls, UserActs(c)
  PROVE  IInv'
  BY SaveStep, SwapStep, AddStep, DeleteStep, FinalizeStep DEF UserActs

-----------------------------------------------------------------------------
(* What the server does *)

\* The record of a request that is carried out or refused.
LEMMA MovedType ==
  ASSUME Typed, NEW c \in Calls, NEW at \in {"answered", "refused"}
  PROVE  LET r == [call[c] EXCEPT !.at = at]
         IN  /\ r \in Request /\ r.at = at /\ r.op = call[c].op /\ r.id = call[c].id
             /\ r.num = call[c].num /\ r.next = call[c].next
             /\ r.nextNum = call[c].nextNum /\ r.cover = call[c].cover
  BY DEF Typed, Request

\* Numbering on from m pages keeps the numbers perfect.
LEMMA Extend ==
  ASSUME NEW n, NEW k, NEW m \in Nat, NEW l \in Nat, Perfect(n, m), m <= l,
         \A i \in 1 .. m : k[i] = n[i],
         \A i \in 1 .. l : i > m => k[i] = i
  PROVE  Perfect(k, l)
  <1>1. \A i \in 1 .. l : i \in 1 .. m \/ (i > m /\ k[i] = i)
    OBVIOUS
  <1>2. \A i \in 1 .. m : k[i] \in 1 .. m
    BY DEF Perfect
  <1>3. ASSUME NEW i \in 1 .. l PROVE k[i] \in 1 .. l
    BY <1>1, <1>2
  <1>4. ASSUME NEW i \in 1 .. l, NEW j \in 1 .. l, i # j PROVE k[i] # k[j]
    <2>1. CASE i \in 1 .. m /\ j \in 1 .. m
      BY <1>4, <2>1 DEF Perfect
    <2>2. CASE i > m \/ j > m
      BY <1>1, <1>2, <1>4, <2>2
    <2> QED BY <2>1, <2>2
  <1> QED BY <1>3, <1>4 DEF Perfect

\* A swap that is half done is perfect but for the second page.
LEMMA HalfSwap ==
  ASSUME Typed, NEW a \in 1 .. made, NEW b \in 1 .. made, a # b, Perfect(num, made)
  PROVE  Perfect([[num EXCEPT ![a] = num[b]] EXCEPT ![b] = num[a]], made)
  <1>1. 1 .. made \subseteq Ids
    BY PagesAssumption DEF Typed, Ids
  <1> DEFINE k == [[num EXCEPT ![a] = num[b]] EXCEPT ![b] = num[a]]
  <1>2. k[a] = num[b] /\ k[b] = num[a] /\ \A i \in 1 .. made : i \notin {a, b} => k[i] = num[i]
    BY <1>1 DEF Typed
  <1> HIDE DEF k
  <1>3. Perfect(k, made)
    BY <1>2 DEF Perfect
  <1> QED BY <1>3 DEF k

\* updatePage.
LEMMA UpdateStep ==
  ASSUME IInv, NEW c \in Calls, UpdatePage(c)
  PROVE  IInv'
  <1> DEFINE o == call[c]
  <1>0. /\ Typed /\ CoverInv /\ NumInv /\ o \in Request /\ o.at = "sent"
        /\ o.op \in Updates /\ Updating(c)
    BY DEF IInv, Typed, UpdatePage, At, Updating, Idle
  <1>1. UNCHANGED <<made, cover, status, printed, list, known, picked, latest, chosen,
                    calm>>
    BY DEF UpdatePage
  <1>2. PICK at \in {"answered", "refused"} :
          /\ call' = [call EXCEPT ![c].at = at]
          /\ \/ /\ o.id \in Rows /\ at = "answered"
                /\ num' = IF o.op = "save" THEN num ELSE [num EXCEPT ![o.id] = o.num]
             \/ o.id \notin Rows /\ at = "refused" /\ num' = num
    BY DEF UpdatePage, Carried, Refused
  <1> DEFINE r == [o EXCEPT !.at = at]
  <1>3. /\ r \in Request /\ r.at = at /\ r.op = o.op /\ r.id = o.id /\ r.num = o.num
        /\ r.next = o.next /\ r.nextNum = o.nextNum
    BY <1>0, MovedType
  <1>4. call' = [call EXCEPT ![c] = r]
    BY <1>2
  <1> HIDE DEF r
  <1>5. call'[c] = r /\ \A d \in Calls \ {c} : call'[d] = call[d]
    BY <1>0, <1>4 DEF Typed
  <1>6. num' \in [Ids -> Int]
    BY <1>0, <1>2 DEF Typed, Request
  <1>7. Typed'
    BY <1>0, <1>1, <1>3, <1>4, <1>6 DEF Typed
  <1>8. CoverInv'
    BY <1>0, <1>1, <1>3, <1>4, CoverKept DEF Updates
  <1>9. NumInv'
    <2> SUFFICES ASSUME calm PROVE NumInv'
      BY <1>1 DEF NumInv
    <2>1. /\ \A d \in Calls \ {c} : ~Updating(d)
          /\ RequestOK(c) /\ 1 .. made \subseteq Ids
          /\ \A id \in Ids : num[id] # Absent <=> id \in 1 .. made
      BY <1>0, PagesAssumption DEF NumInv, Updating, Typed, Ids
    <2>2. \A d \in Calls \ {c} : ~Half(d) /\ ~Half(d)' /\ (~Idle(d)' => RequestOK(d)')
      BY <1>0, <1>5, <2>1 DEF NumInv, Half, RequestOK, Updating, Updates, Idle
    <2>3. o.op # "save" => o.id \in Rows
      BY <1>0, <2>1 DEF RequestOK, Rows, Updates
    <2>4. CASE num' = num /\ o.op = "save"
      <3>1. ~Half(c) /\ ~Half(c)' /\ RequestOK(c)'
        BY <1>3, <1>5, <2>4 DEF Half, RequestOK
      <3>2. \A d \in Calls : Updating(d)' => Updating(d)
        BY <1>0, <1>5 DEF Updating, Idle
      <3>3. Perfect(num, made)
        BY <1>0, <2>2, <3>1 DEF NumInv
      <3>4. \A d \in Calls : ~Idle(d)' => RequestOK(d)' /\ call'[d].op # "delete"
        BY <1>0, <1>3, <1>5, <2>2, <3>1 DEF NumInv, Idle, Updates
      <3> QED BY <1>0, <1>1, <2>4, <3>2, <3>3, <3>4 DEF NumInv
    <2>5. CASE o.op \in {"swap", "swapBack"}
      <3>1. at = "answered" /\ num' = [num EXCEPT ![o.id] = o.num] /\ o.id \in 1 .. made
        BY <1>2, <2>1, <2>3, <2>5 DEF Rows
      <3>2. \A d \in Calls : Updating(d)' => Updating(d)
        BY <1>0, <1>5 DEF Updating, Idle
      <3>3. \A d \in Calls : ~Idle(d)' => call'[d].op # "delete"
        BY <1>0, <1>3, <1>5 DEF NumInv, Idle, Updates
      <3>4. CASE o.op = "swap"
        <4>1. /\ o.next \in 1 .. made /\ o.id # o.next
              /\ o.num = num[o.next] /\ o.nextNum = num[o.id] /\ ~Half(c)
          BY <1>0, <2>1, <3>4 DEF RequestOK, Half
        <4>2. Perfect(num, made)
          BY <1>0, <2>2, <4>1 DEF NumInv
        <4>3. Perfect([num' EXCEPT ![o.next] = o.nextNum], made)
          BY <1>0, <3>1, <4>1, <4>2, HalfSwap
        <4>4. RequestOK(c)'
          BY <1>1, <1>3, <1>5, <3>1, <3>4, <4>1, <4>3 DEF RequestOK
        <4>5. \A id \in Ids : num'[id] # Absent <=> id <= made
          BY <1>0, <2>1, <3>1, <4>1, <4>2 DEF Perfect, Typed, Absent, NumInv
        <4>6. Half(c)'
          BY <1>3, <1>5, <3>1, <3>4 DEF Half
        <4> QED BY <1>0, <1>1, <2>2, <3>2, <3>3, <4>4, <4>5, <4>6 DEF NumInv
      <3>5. CASE o.op = "swapBack"
        <4>1. Perfect(num', made)
          BY <1>0, <2>1, <3>1, <3>5 DEF RequestOK
        <4>2. RequestOK(c)' /\ ~Half(c)'
          BY <1>3, <1>5, <3>1, <3>5 DEF RequestOK, Half
        <4>3. num'[o.id] = o.num /\ o.num \in 1 .. made
          BY <1>0, <2>1, <3>1, <4>1 DEF Perfect, Typed
        <4>4. \A id \in Ids : num'[id] # Absent <=> id <= made
          BY <1>0, <2>1, <3>1, <4>3 DEF Typed, Absent, NumInv
        <4> QED BY <1>0, <1>1, <2>2, <3>2, <3>3, <4>1, <4>2, <4>4 DEF NumInv
      <3> QED BY <2>5, <3>4, <3>5
    <2> QED BY <1>0, <1>2, <2>4, <2>5 DEF Updates
  <1> QED BY <1>7, <1>8, <1>9 DEF IInv

\* What the end of a request leaves of the numbers' part, when no swap is half done.
LEMMA NumEnds ==
  ASSUME Typed, NumInv, NEW c \in Calls, call' = [call EXCEPT ![c] = NoCall],
         calm' => calm, UNCHANGED <<num, made, latest>>, calm' => ~Half(c)
  PROVE  NumInv'
  <1>1. call'[c] = NoCall /\ \A d \in Calls \ {c} : call'[d] = call[d]
    BY NoCallType DEF Typed
  <1>2. CASE calm'
    <2>1. calm /\ ~Half(c)
      BY <1>2
    <2>2. \A d \in Calls : Updating(d)' => Updating(d)
      BY <1>1, NoCallType DEF Updating, Idle
    <2>3. \A d \in Calls : Half(d)' <=> Half(d)
      BY <1>1, <2>1, NoCallType DEF Half
    <2>4. \A d \in Calls : ~Idle(d)' => RequestOK(d)' /\ call'[d].op # "delete"
      BY <1>1, <2>1, NoCallType DEF NumInv, RequestOK, Idle
    <2> QED BY <2>1, <2>2, <2>3, <2>4 DEF NumInv
  <1>3. CASE ~calm'
    BY <1>3 DEF NumInv
  <1> QED BY <1>2, <1>3

\* addPages.  In a book whose pages are numbered 1 to made, the number of a new
\* page is its id.
LEMMA AppendStep ==
  ASSUME IInv, NEW c \in Calls, AppendPages(c)
  PROVE  IInv'
  <1> DEFINE o == call[c]
             r == [o EXCEPT !.at = "answered"]
             l == made + o.num
  <1>0. /\ Typed /\ CoverInv /\ NumInv /\ o \in Request /\ o.op = "add" /\ ~Idle(c)
        /\ l \in Int /\ l <= MaxPages
    BY DEF IInv, Typed, AppendPages, At, Idle, Request
  <1>1. r \in Request /\ r.at = "answered" /\ r.op = "add" /\ r.num = o.num
    BY <1>0, MovedType
  <1>2. /\ call' = [call EXCEPT ![c] = r] /\ made' = l
        /\ num' = [id \in Ids |-> IF id > made /\ id <= l
                                  THEN Cardinality(Rows) + id - made ELSE num[id]]
        /\ UNCHANGED <<cover, status, printed, list, known, picked, latest, chosen, calm>>
    BY DEF AppendPages, Carried
  <1>3. Ids \subseteq Int /\ IsFiniteSet(Ids)
    BY FS_Interval, PagesAssumption DEF Ids
  <1>4. Cardinality(Rows) \in Nat
    <2>1. IsFiniteSet(Rows)
      BY <1>3, FS_Subset DEF Rows
    <2> QED BY <2>1, FS_CardinalityType
  <1> HIDE DEF r, l
  <1>5. Typed'
    <2>1. num' \in [Ids -> Int]
      BY <1>0, <1>2, <1>3, <1>4 DEF Typed
    <2> QED BY <1>0, <1>1, <1>2, <2>1 DEF Typed
  <1>6. CoverInv'
    BY <1>0, <1>1, <1>2, CoverKept
  <1>7. call'[c] = r /\ \A d \in Calls \ {c} : call'[d] = call[d]
    BY <1>0, <1>2 DEF Typed
  <1>8. NumInv'
    <2> SUFFICES ASSUME calm PROVE NumInv'
      BY <1>2 DEF NumInv
    <2>1. /\ made \in Nat /\ o.num \in Nat /\ l \in Nat /\ made <= l
          /\ l = made + o.num
      <3>1. RequestOK(c) /\ made \in Nat
        BY <1>0 DEF NumInv
      <3>2. o.num \in Nat
        BY <1>0, <3>1 DEF RequestOK
      <3> QED BY <3>1, <3>2 DEF l
    <2>2. Rows = 1 .. made
      BY <1>0, <2>1, PagesAssumption DEF NumInv, Rows, Ids, Typed
    <2>3. Cardinality(Rows) = made
      <3>1. made \in Int /\ 1 \in Int
        BY <2>1
      <3>2. Cardinality(1 .. made) = IF 1 > made THEN 0 ELSE made - 1 + 1
        BY <3>1, FS_Interval
      <3> QED BY <2>1, <2>2, <3>2
    <2>4. 1 .. l \subseteq Ids /\ 1 .. made \subseteq Ids
      BY <1>0, <2>1, PagesAssumption DEF Ids
    <2>5. /\ \A i \in 1 .. made : num'[i] = num[i]
          /\ \A i \in 1 .. l : i > made => num'[i] = i
          /\ \A i \in Ids : ~(i <= l) => num'[i] = num[i]
      BY <1>2, <2>1, <2>3, <2>4
    <2>6. \A i \in Ids : num'[i] # Absent <=> i <= l
      <3>1. \A i \in Ids : i >= 1
        BY DEF Ids
      <3>2. \A i \in Ids : i \in 1 .. made \/ (i \in 1 .. l /\ i > made) \/ ~(i <= l)
        BY <1>3, <2>1, <3>1
      <3>3. \A i \in Ids : num[i] # Absent <=> i <= made
        BY <1>0 DEF NumInv
      <3> SUFFICES ASSUME NEW i \in Ids PROVE num'[i] # Absent <=> i <= l
        OBVIOUS
      <3>4. i \in Int /\ i >= 1 /\ Absent = -1
        BY <1>3, <3>1 DEF Absent
      <3>5. CASE i \in 1 .. made
        BY <2>1, <2>5, <3>3, <3>4, <3>5
      <3>6. CASE i \in 1 .. l /\ i > made
        BY <2>1, <2>5, <3>4, <3>6
      <3>7. CASE ~(i <= l)
        BY <2>1, <2>5, <3>3, <3>4, <3>7
      <3> QED BY <3>2, <3>5, <3>6, <3>7
    <2>7. ASSUME NEW k \in 1 .. made, NEW v, Perfect([num EXCEPT ![k] = v], made)
          PROVE  Perfect([num' EXCEPT ![k] = v], l)
      <3> DEFINE p == [num EXCEPT ![k] = v]
                 q == [num' EXCEPT ![k] = v]
      <3>1. \A i \in 1 .. made : q[i] = p[i]
        BY <1>0, <1>5, <2>4, <2>5 DEF Typed
      <3>2. \A i \in 1 .. l : i > made => q[i] = i
        BY <1>5, <2>1, <2>4, <2>5 DEF Typed
      <3> HIDE DEF p, q
      <3>3. Perfect(p, made)
        BY <2>7 DEF p
      <3>4. Perfect(q, l)
        BY <2>1, <3>1, <3>2, <3>3, Extend
      <3> QED BY <3>4 DEF q
    <2>8. \A d \in Calls : (Updating(d)' <=> Updating(d)) /\ (Half(d)' <=> Half(d))
      BY <1>0, <1>1, <1>7 DEF Updating, Half, Idle, Updates
    <2>9. ASSUME NEW d \in Calls, ~Idle(d)'
          PROVE  RequestOK(d)' /\ call'[d].op # "delete"
      <3>1. CASE d = c
        BY <1>1, <1>7, <2>1, <3>1 DEF RequestOK
      <3>2. CASE d # c
        <4>1. call'[d] = call[d] /\ RequestOK(d) /\ call[d].op # "delete"
          BY <1>0, <1>7, <2>9, <3>2 DEF NumInv, Idle
        <4>2. \A i \in 1 .. made : i \in 1 .. l
          BY <2>1
        <4> QED BY <1>2, <2>5, <2>7, <4>1, <4>2 DEF RequestOK
      <3> QED BY <3>1, <3>2
    <2>10. (\A d \in Calls : ~Half(d)) => Perfect(num', l)
      BY <1>0, <2>1, <2>5, Extend DEF NumInv
    <2> QED BY <1>0, <1>2, <2>1, <2>6, <2>8, <2>9, <2>10 DEF NumInv
  <1> QED BY <1>5, <1>6, <1>8 DEF IInv

\* deletePage: while it is calm nothing is deleted.
LEMMA RemoveStep ==
  ASSUME IInv, NEW c \in Calls, RemovePage(c)
  PROVE  IInv'
  <1>0. Typed /\ CoverInv /\ NumInv /\ ~Idle(c) /\ call[c].op = "delete"
    BY DEF IInv, RemovePage, At, Idle
  <1>1. ~calm /\ ~calm'
    BY <1>0 DEF NumInv, RemovePage
  <1>2. PICK at \in {"answered", "refused"} : call' = [call EXCEPT ![c].at = at]
    BY DEF RemovePage, Carried, Refused
  <1>3. [call[c] EXCEPT !.at = at] \in Request
    BY <1>0, MovedType
  <1>4. num' \in [Ids -> Int]
    BY <1>0 DEF RemovePage, Typed, Absent
  <1>5. Typed'
    BY <1>0, <1>2, <1>3, <1>4 DEF RemovePage, Typed
  <1> QED BY <1>1, <1>5 DEF IInv, CoverInv, NumInv

\* updateCover.
LEMMA CoverStep ==
  ASSUME IInv, NEW c \in Calls, UpdateCover(c)
  PROVE  IInv'
  <1> DEFINE o == call[c]
             r == [o EXCEPT !.at = "answered"]
  <1>0. /\ Typed /\ CoverInv /\ NumInv /\ o \in Request /\ o.op = "setCover" /\ o.at = "sent"
        /\ Ordering(c)
    BY DEF IInv, Typed, UpdateCover, At, Idle, Ordering
  <1>1. r \in Request /\ r.at = "answered" /\ r.op = "setCover"
    BY <1>0, MovedType
  <1>2. /\ call' = [call EXCEPT ![c] = r] /\ cover' = o.cover
        /\ UNCHANGED <<num, made, status, printed, list, known, picked, latest, chosen, calm>>
    BY DEF UpdateCover, Carried
  <1> HIDE DEF r
  <1>3. Typed'
    BY <1>0, <1>1, <1>2 DEF Typed
  <1>4. NumInv'
    BY <1>0, <1>1, <1>2, NumKept DEF Updates
  <1>5. call'[c] = r /\ \A d \in Calls \ {c} : call'[d] = call[d]
    BY <1>0, <1>2 DEF Typed
  <1>6. CoverInv'
    <2> SUFFICES ASSUME calm PROVE CoverInv'
      BY <1>2 DEF CoverInv
    <2>1. \A d \in Calls : Ordering(d)' <=> Ordering(d)
      BY <1>0, <1>1, <1>5 DEF Ordering, Idle
    <2>2. status = "DRAFT" /\ o.cover = chosen /\ \A d \in Calls \ {c} : ~Ordering(d)
      BY <1>0 DEF CoverInv, Ordering
    <2>3. \A d \in Calls : ~At(d, {"finalize"})'
      BY <1>1, <1>5, <2>2 DEF At, Ordering, Idle
    <2> QED BY <1>0, <1>1, <1>2, <1>5, <2>1, <2>2, <2>3 DEF CoverInv, Ordering
  <1> QED BY <1>3, <1>4, <1>6 DEF IInv

\* finalize: the cover that is printed is the one saved.
LEMMA PrintStep ==
  ASSUME IInv, NEW c \in Calls, FinalizeBook(c)
  PROVE  IInv'
  <1> DEFINE o == call[c]
  <1>0. /\ Typed /\ CoverInv /\ NumInv /\ o \in Request /\ o.op = "finalize"
        /\ At(c, {"finalize"}) /\ Ordering(c)
    BY DEF IInv, Typed, FinalizeBook, At, Idle, Ordering
  <1>1. UNCHANGED <<num, made, cover, list, known, picked, latest, chosen, calm>>
    BY DEF FinalizeBook
  <1>2. PICK at \in {"answered", "refused"} :
          /\ call' = [call EXCEPT ![c].at = at]
          /\ \/ status' = "READY" /\ printed' = cover
             \/ UNCHANGED <<status, printed>>
    BY DEF FinalizeBook, Carried, Refused
  <1> DEFINE r == [o EXCEPT !.at = at]
  <1>3. r \in Request /\ r.at = at /\ r.op = "finalize"
    BY <1>0, MovedType
  <1>4. call' = [call EXCEPT ![c] = r]
    BY <1>2
  <1> HIDE DEF r
  <1>5. Typed'
    BY <1>0, <1>1, <1>3, <1>4 DEF Typed
  <1>6. NumInv'
    BY <1>0, <1>1, <1>3, <1>4, NumKept DEF Updates
  <1>7. call'[c] = r /\ \A d \in Calls \ {c} : call'[d] = call[d]
    BY <1>0, <1>4 DEF Typed
  <1>8. CoverInv'
    <2> SUFFICES ASSUME calm PROVE CoverInv'
      BY <1>1 DEF CoverInv
    <2>1. \A d \in Calls : Ordering(d)' <=> Ordering(d)
      BY <1>0, <1>3, <1>7 DEF Ordering, Idle
    <2>2. cover = chosen /\ \A d \in Calls \ {c} : ~Ordering(d)
      BY <1>0 DEF CoverInv
    <2>3. \A d \in Calls : ~(~Idle(d)' /\ call'[d].op = "setCover")
      BY <1>3, <1>7, <2>2 DEF Ordering, Idle
    <2>4. \A d \in Calls : ~At(d, {"finalize"})'
      BY <1>3, <1>7, <2>2 DEF At, Ordering, Idle
    <2>5. status' # "DRAFT" => printed' = chosen
      BY <1>0, <1>2, <2>2 DEF CoverInv
    <2>6. ~Idle(c)' /\ call'[c].op = "finalize"
      BY <1>3, <1>7 DEF Idle
    <2>7. \A d, e \in Calls : Ordering(d) /\ Ordering(e) => d = e
      BY <1>0 DEF CoverInv
    <2> QED BY <1>1, <2>1, <2>3, <2>4, <2>5, <2>6, <2>7 DEF CoverInv
  <1> QED BY <1>5, <1>6, <1>8 DEF IInv

\* Any of them.
LEMMA ServerStep ==
  ASSUME IInv, NEW c \in Calls, ServerActs(c)
  PROVE  IInv'
  BY UpdateStep, AppendStep, RemoveStep, CoverStep, PrintStep DEF ServerActs

-----------------------------------------------------------------------------
(* The answers *)

\* What follows an answer: the finalisation after the cover, the second half of a
\* swap, or nothing.
LEMMA AnsweredStep ==
  ASSUME IInv, NEW c \in Calls, Answered(c)
  PROVE  IInv'
  <1> DEFINE o == call[c]
  <1>0. /\ Typed /\ CoverInv /\ NumInv /\ o \in Request /\ o.at = "answered" /\ ~Idle(c)
        /\ o.id \in Int /\ o.num \in Int /\ o.next \in Int /\ o.nextNum \in Int
    BY DEF IInv, Typed, Answered, Idle, Request
  <1>1. /\ UNCHANGED <<num, made, cover, status, printed, list, picked, latest, chosen, calm>>
        /\ known' = IF o.op = "finalize" THEN "READY" ELSE known
    BY DEF Answered, server
  <1>2. CASE o.op = "setCover"
    <2> DEFINE r == Asked("finalize", 0, 0, 0, 0, NoCover)
    <2>1. r \in Request /\ r.at = "sent" /\ r.op = "finalize"
      BY AskedType DEF Ops
    <2>2. call' = [call EXCEPT ![c] = r]
      BY <1>2 DEF Answered, Send
    <2> HIDE DEF r
    <2>3. Typed'
      BY <1>0, <1>1, <2>1, <2>2 DEF Typed
    <2>4. NumInv'
      BY <1>0, <1>1, <1>2, <2>1, <2>2, NumKept DEF Updates
    <2>5. call'[c] = r /\ \A d \in Calls \ {c} : call'[d] = call[d]
      BY <1>0, <2>2 DEF Typed
    <2>6. CoverInv'
      <3> SUFFICES ASSUME calm PROVE CoverInv'
        BY <1>1 DEF CoverInv
      <3>1. Ordering(c) /\ \A d \in Calls : Ordering(d)' <=> Ordering(d)
        BY <1>0, <1>2, <2>1, <2>5 DEF Ordering, Idle
      <3>2. /\ status = "DRAFT" /\ cover = chosen
            /\ \A d, e \in Calls : Ordering(d) /\ Ordering(e) => d = e
        BY <1>0, <1>2 DEF CoverInv
      <3>3. \A d \in Calls : ~(~Idle(d)' /\ call'[d].op = "setCover")
        BY <2>1, <2>5, <3>1, <3>2 DEF Ordering, Idle
      <3> QED BY <1>1, <3>1, <3>2, <3>3 DEF CoverInv
    <2> QED BY <2>3, <2>4, <2>6 DEF IInv
  <1>3. CASE o.op = "swap" /\ latest = c
    <2> DEFINE r == Asked("swapBack", o.next, o.nextNum, 0, 0, NoCover)
    <2>1. /\ r \in Request /\ r.at = "sent" /\ r.op = "swapBack" /\ r.id = o.next
          /\ r.num = o.nextNum
      <3>1. NoCover \in Covers \cup {NoCover} /\ "swapBack" \in Ops
        BY DEF Ops
      <3>2. o.next \in Int /\ o.nextNum \in Int /\ 0 \in Int
        BY <1>0
      <3> HIDE DEF o
      <3> QED BY <3>1, <3>2, AskedType
    <2>2. call' = [call EXCEPT ![c] = r]
      BY <1>3 DEF Answered, Send
    <2> HIDE DEF r
    <2>3. Typed'
      BY <1>0, <1>1, <2>1, <2>2 DEF Typed
    <2>4. CoverInv'
      BY <1>0, <1>1, <1>3, <2>1, <2>2, CoverKept
    <2>5. call'[c] = r /\ \A d \in Calls \ {c} : call'[d] = call[d]
      BY <1>0, <2>2 DEF Typed
    <2>6. NumInv'
      <3> SUFFICES ASSUME calm PROVE NumInv'
        BY <1>1 DEF NumInv
      <3>1. \A d \in Calls : (Updating(d)' <=> Updating(d)) /\ (Half(d)' <=> Half(d))
        BY <1>0, <1>3, <2>1, <2>5 DEF Updating, Half, Idle, Updates
      <3>2. RequestOK(c)
        BY <1>0 DEF NumInv
      <3>3. RequestOK(c)'
        BY <1>0, <1>1, <1>3, <2>1, <2>5, <3>2 DEF RequestOK
      <3>4. \A d \in Calls : ~Idle(d)' => RequestOK(d)' /\ call'[d].op # "delete"
        BY <1>0, <1>1, <2>1, <2>5, <3>3 DEF NumInv, RequestOK, Idle
      <3> QED BY <1>0, <1>1, <3>1, <3>4 DEF NumInv
    <2> QED BY <2>3, <2>4, <2>6 DEF IInv
  <1>4. CASE o.op # "setCover" /\ ~(o.op = "swap" /\ latest = c)
    <2>1. call' = [call EXCEPT ![c] = NoCall]
      BY <1>4 DEF Answered
    <2>2. Typed'
      BY <1>0, <1>1, <2>1, NoCallType DEF Typed
    <2>3. calm => ~Half(c)
      BY <1>0, <1>4 DEF NumInv, Half, Updating, Updates
    <2>4. NumInv'
      BY <1>0, <1>1, <2>1, <2>3, NumEnds
    <2>5. CASE o.op # "finalize"
      BY <1>0, <1>1, <1>4, <2>1, <2>2, <2>4, <2>5, CoverKept, NoCallType DEF IInv
    <2>6. CASE o.op = "finalize"
      <3>1. call'[c] = NoCall /\ \A d \in Calls \ {c} : call'[d] = call[d]
        BY <1>0, <2>1 DEF Typed
      <3>2. CoverInv'
        <4> SUFFICES ASSUME calm PROVE CoverInv'
          BY <1>1 DEF CoverInv
        <4>1. Ordering(c) /\ \A d, e \in Calls : Ordering(d) /\ Ordering(e) => d = e
          BY <1>0, <2>6 DEF CoverInv, Ordering
        <4>2. \A d \in Calls : ~Ordering(d)' /\ ~At(d, {"finalize"})'
          BY <3>1, <4>1, NoCallType DEF Ordering, Idle, At
        <4>3. status # "DRAFT" => printed = chosen
          BY <1>0 DEF CoverInv
        <4> QED BY <1>1, <2>6, <4>2, <4>3 DEF CoverInv, Ordering
      <3> QED BY <2>2, <2>4, <3>2 DEF IInv
    <2> QED BY <2>5, <2>6
  <1> QED BY <1>2, <1>3, <1>4

\* A failure: it is calm no more.
LEMMA FailedStep ==
  ASSUME IInv, NEW c \in Calls, Failed(c)
  PROVE  IInv'
  <1>1. Typed /\ ~calm' /\ call' = [call EXCEPT ![c] = NoCall]
    BY DEF IInv, Failed, Calmly
  <1>2. Typed'
    BY <1>1, NoCallType DEF Typed, Failed, server
  <1> QED BY <1>1, <1>2 DEF IInv, CoverInv, NumInv

\* The queries are answered: nothing but what the editor knows is changed.
LEMMA RefetchStep ==
  ASSUME IInv, Refetch
  PROVE  IInv'
  <1>0. /\ Typed /\ CoverInv /\ NumInv /\ list' = Listing /\ known' = status
        /\ UNCHANGED <<num, made, cover, status, printed, picked, call, latest, chosen, calm>>
    BY DEF IInv, Refetch, server
  <1>1. Typed'
    <2>1. CoverId \notin Ids
      BY DEF CoverId, Ids
    <2>2. Listing \in [Ids \cup {CoverId} -> Int]
      BY <1>0, <2>1 DEF Listing, Typed, Absent
    <2> QED BY <1>0, <2>2 DEF Typed
  <1>2. CoverInv'
    BY <1>0 DEF CoverInv, Ordering, Idle, At
  <1>3. NumInv'
    BY <1>0 DEF NumInv, Updating, Half, RequestOK, Idle
  <1> QED BY <1>1, <1>2, <1>3 DEF IInv

\* Another cover is put on the screen.
LEMMA PickStep ==
  ASSUME IInv, PickCover
  PROVE  IInv'
  <1>0. /\ Typed /\ CoverInv /\ NumInv /\ picked' \in Covers \cup {NoCover}
        /\ UNCHANGED <<num, made, cover, status, printed, list, known, call, latest, chosen,
                       calm>>
    BY DEF IInv, PickCover, server
  <1>1. Typed'
    BY <1>0 DEF Typed
  <1>2. CoverInv' /\ NumInv'
    BY <1>0 DEF CoverInv, Ordering, Idle, At, NumInv, Updating, Half, RequestOK
  <1> QED BY <1>1, <1>2 DEF IInv

-----------------------------------------------------------------------------
(* The cover that nobody has picked *)

\* Requests for a cover are sent only once one is picked.
Unsought(c) ==
  /\ \A d \in Calls \ {c} : call'[d] = call[d]
  /\ Idle(c)' \/ call'[c].op # "setCover" \/ picked # NoCover
     \/ (call[c].op = "setCover" /\ ~Idle(c))

LEMMA SendUnsought ==
  ASSUME Typed, NEW c \in Calls, NEW op, NEW id, NEW n, NEW next, NEW nextNum, NEW k,
         Send(c, op, id, n, next, nextNum, k), op # "setCover" \/ picked # NoCover
  PROVE  Unsought(c)
  BY DEF Typed, Send, Asked, Unsought

LEMMA MovedUnsought ==
  ASSUME Typed, NEW c \in Calls, call[c].at = "sent", Carried(c) \/ Refused(c)
  PROVE  Unsought(c)
  BY DEF Typed, Request, Carried, Refused, Unsought, Idle

LEMMA StepUnpicked == Typed /\ Unpicked /\ [Next]_vars => Unpicked'
  <1> SUFFICES ASSUME Typed, Unpicked, [Next]_vars PROVE Unpicked'
    OBVIOUS
  <1>1. CASE UNCHANGED vars
    BY <1>1 DEF vars, Unpicked, Idle
  <1>2. CASE PickCover
    BY <1>2, CoverAssumption DEF PickCover, Unpicked
  <1>3. CASE Refetch
    BY <1>3 DEF Refetch, server, Unpicked, Idle
  <1>4. ASSUME NEW c \in Calls, UserActs(c) \/ ServerActs(c) \/ Answered(c) \/ Failed(c)
        PROVE  Unpicked'
    <2>1. Unsought(c)
      <3>1. CASE UserActs(c)
        BY <3>1, SendUnsought DEF UserActs, SavePage, SwapPages, AddPages, DeletePage, Finalize
      <3>2. CASE ServerActs(c)
        BY <3>2, MovedUnsought
           DEF ServerActs, At, UpdatePage, AppendPages, RemovePage, UpdateCover, FinalizeBook
      <3>3. CASE Answered(c) \/ Failed(c)
        <4>1. CASE call' = [call EXCEPT ![c] = NoCall]
          BY <4>1, NoCallType DEF Typed, Unsought, Idle
        <4>2. CASE call' # [call EXCEPT ![c] = NoCall]
          BY <3>3, <4>2, SendUnsought DEF Answered, Failed
        <4> QED BY <4>1, <4>2
      <3> QED BY <1>4, <3>1, <3>2, <3>3
    <2>2. picked' = picked
      BY <1>4 DEF UserActs, SavePage, SwapPages, AddPages, DeletePage, Finalize, ServerActs,
           UpdatePage, AppendPages, RemovePage, UpdateCover, FinalizeBook, Answered, Failed
    <2>3. cover' = cover \/ UpdateCover(c)
      BY <1>4 DEF UserActs, SavePage, SwapPages, AddPages, DeletePage, Finalize, ServerActs,
           UpdatePage, AppendPages, RemovePage, FinalizeBook, Answered, Failed, server
    <2>4. UpdateCover(c) => picked # NoCover
      BY DEF UpdateCover, At, Unpicked, Idle
    <2> QED BY <2>1, <2>2, <2>3, <2>4 DEF Unsought, Unpicked, Idle
  <1> QED BY <1>1, <1>2, <1>3, <1>4 DEF Next

-----------------------------------------------------------------------------
\* Every step keeps the invariant.
LEMMA NextIInv == IInv /\ Unpicked /\ [Next]_vars => IInv'
  <1> SUFFICES ASSUME IInv, Unpicked, [Next]_vars PROVE IInv'
    OBVIOUS
  <1>1. CASE Next
    BY <1>1, PickStep, RefetchStep, UserStep, ServerStep, AnsweredStep, FailedStep DEF Next
  <1>2. CASE UNCHANGED vars
    BY <1>2 DEF vars, IInv, Typed, CoverInv, Ordering, Idle, At, NumInv, Updating, Half,
                RequestOK
  <1> QED BY <1>1, <1>2

\* The strengthening of both properties: of a finalisation one request at a time,
\* with the cover saved before it, if one is picked; and numbers that are 1 to made
\* but for one half of one swap (handleFinalize, handleSwapPages, addPages).
THEOREM Inductive == Spec => [](IInv /\ Unpicked)
  <1>1. Init => IInv /\ Unpicked
    BY InitIInv, NoCallType DEF Init, Unpicked, Idle
  <1>2. IInv /\ Unpicked /\ [Next]_vars => (IInv /\ Unpicked)'
    BY NextIInv, StepUnpicked DEF IInv
  <1> QED BY <1>1, <1>2, PTL DEF Spec

\* The finalised book has the cover that was on the screen when it was asked for,
\* however many requests, pages and covers there are (handleFinalize, updateCover).
THEOREM CoverAlwaysAsChosen == Spec => []CoverAsChosen
  <1>1. IInv => CoverAsChosen
    BY DEF IInv, CoverInv, CoverAsChosen
  <1> QED BY <1>1, Inductive, PTL

\* No two pages have one number when no request is under way that changes numbers,
\* whatever the pages that were added and swapped before (updatePage, addPages).
THEOREM NumbersAlwaysDistinct == Spec => []NumbersDistinct
  <1>1. IInv => NumbersDistinct
    <2> SUFFICES ASSUME IInv, calm, Running(Updates \cup {"add"}) = {},
                        NEW a \in Rows, NEW b \in Rows, a # b
                 PROVE  num[a] # num[b]
      BY DEF NumbersDistinct
    <2>1. \A c \in Calls : ~Half(c)
      BY DEF IInv, Typed, Request, Running, Half, Updates, Idle
    <2>2. Perfect(num, made)
      BY <2>1 DEF IInv, NumInv
    <2>3. a \in 1 .. made /\ b \in 1 .. made
      BY PagesAssumption DEF IInv, Typed, NumInv, Rows, Ids
    <2> QED BY <2>2, <2>3 DEF Perfect
  <1> QED BY <1>1, Inductive, PTL
-----------------------------------------------------------------------------
(***************************************************************************)
(* The query cache.  As long as no invalidation and no answer has been     *)
(* missed, what the mutations of the page have written is shown, or some   *)
(* step that will bring it is still to come: an answer that tells the      *)
(* query, a fetch that has yet to read, or read late enough, or the next   *)
(* mount.                                                                  *)
(***************************************************************************)

\* Every mutation of a page invalidates all it changes there, apart from the
\* pairs of Left.  There is no constant in it: it is true or false of Hooks, and
\* a pair for which it fails is one for which FreshWhenQuiet does.
EveryHookTells ==
  \A page \in Screens :
    \A q \in page.shows, m \in page.starts :
      Touches(m, q) /\ <<m, q>> \notin Left => Tells(m, q)

Mutations == {"none"} \cup UNION {page.starts : page \in Screens}

CacheTyped ==
  /\ screen \in Screens /\ query \in screen.shows
  /\ version \in Nat /\ due \in Nat /\ shown \in Nat
  /\ stale \in BOOLEAN /\ mounted \in BOOLEAN /\ missed \in BOOLEAN
  /\ fetch \in [at : {"none", "sent", "answered"}, got : Nat, retried : BOOLEAN]
  /\ mut \in [Requests -> [at : {"idle", "sent", "answered"}, name : Mutations]]

\* A mutation of the page that was answered, and whose onSuccess is to tell the
\* query.
Owes(c) ==
  /\ mut[c].at = "answered" /\ Touches(mut[c].name, query)
  /\ <<mut[c].name, query>> \notin Left

\* What the user's mutations wrote is in the cache or will be.
Coming ==
  \/ shown >= due
  \/ \E c \in Requests : Owes(c)
  \/ fetch.at = "sent"
  \/ fetch.at = "answered" /\ fetch.got >= due
  \/ stale /\ ~mounted /\ fetch.at = "none"

CacheInv ==
  /\ CacheTyped
  /\ \A c \in Requests : mut[c].at # "idle" => mut[c].name \in screen.starts
  /\ due <= version /\ shown <= version
  /\ fetch.at = "answered" => fetch.got <= version /\ fetch.got >= shown
  /\ ~missed => Coming

\* Steps that leave the mutations alone: page, timers, fetches, other users.
LEMMA FetchKept ==
  ASSUME CacheInv,
         \/ Mount \/ Unmount \/ Age \/ OthersWrite
         \/ FetchRead \/ FetchLands \/ FetchFails
  PROVE  CacheInv'
<1> USE DEF CacheInv, CacheTyped, NoFetch, Sent
<1>0. (\E c \in Requests : Owes(c)) => (\E c \in Requests : Owes(c))'
  BY DEF Owes, Mount, Unmount, Age, OthersWrite,
         FetchRead, FetchLands, FetchFails
<1>1. CASE Mount
  <2>1. CASE stale /\ fetch.at = "none"
    BY <1>1, <2>1 DEF Mount, Coming
  <2>2. CASE ~(stale /\ fetch.at = "none")
    <3>1. fetch' = fetch
      BY <1>1, <2>2 DEF Mount
    <3> QED
      BY <1>0, <1>1, <2>2, <3>1 DEF Mount, Coming
  <2> QED
    BY <2>1, <2>2
<1>2. CASE Unmount
  <2>1. /\ mounted /\ mounted' = FALSE
        /\ UNCHANGED <<screen, query, version, due, shown, stale, fetch, mut, missed>>
    BY <1>2 DEF Unmount
  <2>2. Coming => Coming'
    BY <1>0, <2>1 DEF Coming
  <2> QED
    BY <2>1, <2>2
<1>3. CASE Age
  <2>1. /\ stale' = TRUE /\ shown' \in {shown, 0}
        /\ mounted \/ fetch.at # "none" => shown' = shown
        /\ UNCHANGED <<screen, query, version, due, mounted, fetch, mut, missed>>
    BY <1>3 DEF Age
  <2>2. Coming => Coming'
    BY <1>0, <2>1 DEF Coming
  <2> QED
    BY <2>1, <2>2
<1>4. CASE FetchRead
  <2>1. /\ fetch.at = "sent" /\ fetch'.at = "answered" /\ fetch'.got = version
        /\ fetch' \in [at : {"none", "sent", "answered"}, got : Nat, retried : BOOLEAN]
        /\ UNCHANGED <<screen, query, version, due, shown, stale, mounted, mut, missed>>
    BY <1>4 DEF FetchRead
  <2> QED
    BY <2>1 DEF Coming
<1>5. CASE FetchLands
  <2>1. /\ fetch.at = "answered" /\ fetch'.at = "none" /\ shown' = fetch.got
        /\ fetch' \in [at : {"none", "sent", "answered"}, got : Nat, retried : BOOLEAN]
        /\ stale' = FALSE
        /\ UNCHANGED <<screen, query, version, due, mounted, mut, missed>>
    BY <1>5 DEF FetchLands
  <2>2. Coming => Coming'
    BY <1>0, <2>1 DEF Coming
  <2> QED
    BY <2>1, <2>2
<1>6. CASE FetchFails
  BY <1>0, <1>6 DEF FetchFails, LastTry, Coming
<1>7. CASE OthersWrite
  BY <1>0, <1>7 DEF OthersWrite, Coming
<1> QED
  BY <1>1, <1>2, <1>3, <1>4, <1>5, <1>6, <1>7

\* Mutations: one that changes the query tells it when it is answered.
LEMMA MutationKept ==
  ASSUME EveryHookTells, CacheInv, NEW c \in Requests,
         Mutate(c) \/ Apply(c) \/ Settle(c) \/ Fail(c)
  PROVE  CacheInv'
<1> USE DEF CacheInv, CacheTyped, NoFetch, Sent, NoMutation
<1>1. CASE Mutate(c)
  <2>1. PICK m \in screen.starts :
          mut' = [mut EXCEPT ![c] = [at |-> "sent", name |-> m]]
    BY <1>1 DEF Mutate
  <2>2. m \in Mutations
    BY DEF Mutations
  <2>3. (\E d \in Requests : Owes(d)) => (\E d \in Requests : Owes(d))'
    BY <1>1, <2>1 DEF Owes, Mutate
  <2> QED
    BY <1>1, <2>1, <2>2, <2>3 DEF Mutate, Coming
<1>2. CASE Apply(c)
  <2>1. /\ mut[c].at = "sent" /\ mut'[c].at = "answered"
        /\ mut'[c].name = mut[c].name
        /\ mut' \in [Requests -> [at : {"idle", "sent", "answered"}, name : Mutations]]
        /\ \A d \in Requests \ {c} : mut'[d] = mut[d]
    BY <1>2 DEF Apply
  <2>2. (\E d \in Requests : Owes(d)) => (\E d \in Requests : Owes(d))'
    BY <1>2, <2>1 DEF Owes, Apply
  <2>3. due' = due \/ Owes(c)'
    BY <1>2, <2>1 DEF Owes, Apply
  <2>4. Coming => Coming'
    BY <1>2, <2>2, <2>3 DEF Apply, Coming
  <2> QED
    BY <1>2, <2>1, <2>4 DEF Apply
<1>3. CASE Settle(c)
  <2>1. /\ mut[c].at = "answered" /\ mut[c].name \in screen.starts
        /\ mut' = [mut EXCEPT ![c] = NoMutation]
    BY <1>3 DEF Settle
  <2>2. /\ mut' \in [Requests -> [at : {"idle", "sent", "answered"}, name : Mutations]]
        /\ \A d \in Requests \ {c} : mut'[d] = mut[d]
        /\ mut'[c].at = "idle"
    BY <2>1 DEF Mutations
  <2>3. \A d \in Requests \ {c} : Owes(d) => Owes(d)'
    BY <1>3, <2>2 DEF Owes, Settle
  <2>4. CASE Tells(mut[c].name, query)
    <3>1. CASE Uncancelled
      <4>1. missed' /\ fetch' = fetch /\ UNCHANGED <<screen, query, version, due, shown>>
            /\ stale' = TRUE /\ mounted' = mounted
        BY <1>3, <2>4, <3>1 DEF Settle
      <4> QED
        BY <2>2, <4>1
    <3>2. CASE ~Uncancelled
      <4>1. missed' = missed /\ UNCHANGED <<screen, query, version, due, shown, mounted>>
            /\ stale' = TRUE /\ fetch' = IF mounted THEN Sent ELSE fetch
        BY <1>3, <2>4, <3>2 DEF Settle
      <4>2. CASE mounted
        BY <2>2, <4>1, <4>2 DEF Coming
      <4>3. CASE ~mounted
        BY <2>2, <3>2, <4>1, <4>3 DEF Coming, Uncancelled
      <4> QED
        BY <4>2, <4>3
    <3> QED
      BY <3>1, <3>2
  <2>5. CASE ~Tells(mut[c].name, query)
    <3>1. ~Owes(c)
      BY <2>1, <2>5 DEF Owes, EveryHookTells
    <3> QED
      BY <1>3, <2>2, <2>3, <2>5, <3>1 DEF Settle, Coming
  <2> QED
    BY <2>4, <2>5
<1>4. CASE Fail(c)
  <2>1. /\ mut' \in [Requests -> [at : {"idle", "sent", "answered"}, name : Mutations]]
        /\ \A d \in Requests \ {c} : mut'[d] = mut[d]
        /\ mut'[c].at = "idle"
    BY <1>4 DEF Fail, Mutations
  <2>2. \A d \in Requests \ {c} : Owes(d) => Owes(d)'
    BY <1>4, <2>1 DEF Owes, Fail
  <2>3. mut[c].at # "answered" => ~Owes(c)
    BY DEF Owes
  <2> QED
    BY <1>4, <2>1, <2>2, <2>3 DEF Fail, Coming
<1> QED
  BY <1>1, <1>2, <1>3, <1>4

\* The cache keeps the invariant, if the hooks do their part.
LEMMA CacheInvariance == EveryHookTells => (CacheSpec => []CacheInv)
<1> SUFFICES ASSUME EveryHookTells PROVE CacheSpec => []CacheInv
  OBVIOUS
<1>1. CacheInit => CacheInv
  <2> SUFFICES ASSUME CacheInit PROVE CacheInv
    OBVIOUS
  <2>1. CacheTyped
    BY DEF CacheInit, CacheTyped, NoFetch, NoMutation, Mutations
  <2>2. /\ \A c \in Requests : mut[c].at = "idle"
        /\ fetch.at = "none"
    BY DEF CacheInit, NoFetch, NoMutation
  <2>3. Coming
    BY <2>2 DEF CacheInit, Coming
  <2> QED
    BY <2>1, <2>2, <2>3 DEF CacheInit, CacheInv
<1>2. CacheInv /\ [CacheNext]_cacheVars => CacheInv'
  <2> SUFFICES ASSUME CacheInv, [CacheNext]_cacheVars PROVE CacheInv'
    OBVIOUS
  <2>1. CASE UNCHANGED cacheVars
    BY <2>1 DEF cacheVars, CacheInv, CacheTyped, Coming, Owes
  <2> QED
    BY <2>1, FetchKept, MutationKept DEF CacheNext
<1> QED
  BY <1>1, <1>2, PTL DEF CacheSpec

\* Whatever is mounted, left, refetched, retried or grows old, and however many
\* mutations overlap, a quiet page shows what its own mutations have written.
THEOREM QuietIsFresh == EveryHookTells => (CacheSpec => []FreshWhenQuiet)
<1>1. CacheInv => FreshWhenQuiet
  <2> SUFFICES ASSUME CacheInv, mounted, ~missed, fetch = NoFetch,
                      \A c \in Requests : mut[c] = NoMutation
               PROVE  shown >= due
    BY DEF FreshWhenQuiet
  <2>1. fetch.at = "none" /\ \A c \in Requests : ~Owes(c)
    BY DEF NoFetch, NoMutation, Owes
  <2> QED
    BY <2>1 DEF CacheInv, Coming
<1> QED
  BY <1>1, CacheInvariance, PTL
=============================================================================
