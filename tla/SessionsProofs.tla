--------------------------- MODULE SessionsProofs ---------------------------
(***************************************************************************)
(* Proofs about Sessions, for every set of browsers and requests: while    *)
(* requests come one at a time, the one that is going on accounts for any  *)
(* difference between Redis and the cookies.                               *)
(***************************************************************************)
EXTENDS Sessions, TLAPS

\* Redis holds the token of the browser that got the last pair, if any.
Held == stored # 0 => latest # NoBrowser /\ cookie[latest] = stored

\* What a request that is going on knows, while it is the only one.
Alone(q) ==
  /\ req[q].at \in {"refreshed", "loggedIn"} => stored = req[q].token
  /\ At(q, "loggedOut") => stored = 0
  /\ req[q].at \notin {"refreshed", "loggedIn", "loggedOut"} => Held
  /\ req[q].at \in {"sign", "store"} => stored # 0

CalmInv ==
  calm =>
    /\ \A p, q \in Requests : ~At(p, "idle") /\ ~At(q, "idle") => p = q
    /\ \A q \in Requests : ~At(q, "idle") => Alone(q)
    /\ Quiet => Held

FromBrowser == \A q \in Requests : ~At(q, "idle") =>
                 req[q].from \in Browsers /\ req[q].what # "idle"

IInv == TypeOK /\ FromBrowser /\ CalmInv

\* The record of a request has its type, field by field.
LEMMA RequestType ==
  /\ \A at \in Points, what \in {"idle", "sent", "login", "logout"},
        from \in Browsers \cup {NoBrowser}, retry \in BOOLEAN, token \in Token :
       Sent(at, what, from, retry, token) \in Request
  /\ \A at, what, from, retry, token :
       LET r == Sent(at, what, from, retry, token)
       IN  /\ r.at = at /\ r.what = what /\ r.from = from /\ r.retry = retry
           /\ r.token = token
  BY DEF Request, Sent

\* So has the idle one.
LEMMA IdleType == Idle \in Request /\ Idle.at = "idle" /\ 0 \in Token
  BY TimeAssumption DEF Idle, Sent, Request, Points, Token

\* At the start nobody is signed in.
LEMMA InitIInv == Init => IInv
  <1> SUFFICES ASSUME Init PROVE IInv
    OBVIOUS
  <1>1. now \in Token /\ req \in [Requests -> Request]
    BY IdleType, TimeAssumption DEF Init, Token
  <1>2. TypeOK
    BY <1>1, IdleType DEF Init, TypeOK
  <1>3. \A q \in Requests : At(q, "idle")
    BY IdleType DEF Init, At
  <1>4. FromBrowser /\ CalmInv
    BY <1>3 DEF FromBrowser, CalmInv, Init, Held
  <1> QED BY <1>2, <1>4 DEF IInv

\* One request moves, and what it leaves behind is accounted for.
LEMMA Moves ==
  ASSUME IInv, NEW q \in Requests, NEW r \in Request, req' = [req EXCEPT ![q] = r],
         now' \in Token, stored' \in Token, latest' \in Browsers \cup {NoBrowser},
         access' \in [Browsers -> Token], cookie' \in [Browsers -> Token],
         calm' \in BOOLEAN,
         r.at # "idle" => r.from \in Browsers /\ r.what # "idle",
         calm' =>
           /\ calm
           /\ \A p \in Requests \ {q} : At(p, "idle")
           /\ r.at \in {"refreshed", "loggedIn"} => stored' = r.token
           /\ r.at = "loggedOut" => stored' = 0
           /\ r.at \notin {"refreshed", "loggedIn", "loggedOut"} => Held'
           /\ r.at \in {"sign", "store"} => stored' # 0
  PROVE  IInv'
  <1>0. TypeOK /\ FromBrowser
    BY DEF IInv
  <1>1. req'[q] = r /\ \A p \in Requests \ {q} : req'[p] = req[p]
    BY <1>0 DEF TypeOK
  <1>2. TypeOK'
    BY <1>0 DEF TypeOK
  <1>3. FromBrowser'
    BY <1>0, <1>1 DEF FromBrowser, At
  <1>4. CalmInv'
    <2> SUFFICES ASSUME calm'
                 PROVE  /\ \A p, s \in Requests :
                             ~At(p, "idle")' /\ ~At(s, "idle")' => p = s
                        /\ \A p \in Requests : ~At(p, "idle")' => Alone(p)'
                        /\ Quiet' => Held'
      BY DEF CalmInv
    <2>1. \A p \in Requests \ {q} : At(p, "idle")'
      BY <1>1 DEF At
    <2>2. Alone(q)'
      BY <1>1 DEF Alone, At
    <2>3. Quiet' => Held'
      BY <1>1 DEF Quiet, At
    <2> QED BY <2>1, <2>2, <2>3
  <1> QED BY <1>2, <1>3, <1>4 DEF IInv

-----------------------------------------------------------------------------
\* A request begins: when there is no other, or it is calm no more.
LEMMA BeginStep ==
  ASSUME IInv, NEW q \in Requests, NEW b \in Browsers,
         NEW at \in {"sent", "login", "logout"}, NEW t \in Token,
         Begin(q, b, at, t), UNCHANGED <<now, stored, access, cookie, latest>>
  PROVE  IInv'
  <1> DEFINE r == Sent(at, at, b, FALSE, t)
  <1>1. /\ r \in Request /\ r.at = at /\ r.from = b /\ r.what = at
    <2>1. /\ at \in Points /\ at \in {"idle", "sent", "login", "logout"}
          /\ b \in Browsers \cup {NoBrowser}
      BY DEF Points
    <2>2. r \in Request
      BY <2>1 DEF Request, Sent
    <2>3. r.at = at /\ r.from = b /\ r.what = at
      BY DEF Sent
    <2> QED BY <2>2, <2>3
  <1>2. req' = [req EXCEPT ![q] = r] /\ calm' = (calm /\ Quiet)
    BY DEF Begin
  <1> HIDE DEF r
  <1>3. calm' => calm /\ Held' /\ \A p \in Requests : At(p, "idle")
    BY <1>2 DEF IInv, CalmInv, Quiet, Held
  <1>4. TypeOK /\ calm' \in BOOLEAN
    BY <1>2 DEF IInv, TypeOK
  <1> QED BY <1>1, <1>2, <1>3, <1>4, Moves DEF TypeOK

\* A request goes on.  What it does to Redis and the cookies, if anything, is
\* what its next point accounts for.
LEMMA ContinueStep ==
  ASSUME IInv, NEW q \in Requests, Continue(q)
  PROVE  /\ IInv'
         /\ calm' /\ stored = 0 /\ stored' # 0 => At(q, "loginStore")
  <1> DEFINE c == req[q]
  <1>0. /\ TypeOK /\ c \in Request /\ c.token \in Token /\ UNCHANGED <<now, calm>>
        /\ c.at # "idle" /\ c.from \in Browsers /\ c.what # "idle"
        /\ c.what \in {"idle", "sent", "login", "logout"} /\ c.retry \in BOOLEAN
    <2>1. TypeOK /\ c.at # "idle" /\ UNCHANGED <<now, calm>>
      BY DEF IInv, Continue, Answer, Refused, Refreshed, NotRefreshed,
             VerifyRefreshToken, LoginCheck, Sign, StoreRefreshToken, LoggedIn,
             LogoutGuard, Revoke, LoggedOut, At
    <2> QED BY <2>1 DEF IInv, TypeOK, FromBrowser, At, Request
  <1>1. calm => Alone(q) /\ \A p \in Requests \ {q} : At(p, "idle")
    BY <1>0 DEF IInv, CalmInv, At
  \* A request that moves on, with or without another token, or comes to its end,
  \* while Redis and the cookies stay as they are.
  <1>2. ASSUME NEW at \in Points, NEW retry \in BOOLEAN, NEW t \in Token,
               \/ Carry(q, at, retry, t)
               \/ Go(q, at) /\ t = c.token
               \/ End(q) /\ at = "idle",
               UNCHANGED <<stored, access, cookie, latest>>,
               at \notin {"refreshed", "loggedIn", "loggedOut"},
               c.at \notin {"refreshed", "loggedIn", "loggedOut"},
               calm /\ at \in {"sign", "store"} => stored # 0
        PROVE  IInv'
    <2>1. PICK r \in Request :
            /\ req' = [req EXCEPT ![q] = r] /\ r.at = at
            /\ r.at # "idle" => r.from = c.from /\ r.what = c.what
      <3>1. CASE Carry(q, at, retry, t)
        <4> DEFINE r == Sent(at, c.what, c.from, retry, t)
        <4>1. r \in Request /\ r.at = at /\ r.from = c.from /\ r.what = c.what
          BY <1>0, RequestType
        <4>2. req' = [req EXCEPT ![q] = r]
          BY <3>1 DEF Carry
        <4> HIDE DEF r
        <4> QED BY <4>1, <4>2
      <3>2. CASE Go(q, at)
        <4> DEFINE r == [c EXCEPT !.at = at]
        <4>1. r \in Request /\ r.at = at /\ r.from = c.from /\ r.what = c.what
          BY <1>0 DEF Request
        <4>2. req' = [req EXCEPT ![q] = r]
          BY <3>2 DEF Go
        <4> HIDE DEF r
        <4> QED BY <4>1, <4>2
      <3>3. CASE End(q) /\ at = "idle"
        BY <3>3, IdleType DEF End
      <3> QED BY <1>2, <3>1, <3>2, <3>3
    <2>2. calm => Held'
      BY <1>1, <1>2 DEF Alone, Held
    <2> HIDE DEF c
    <2> QED BY <1>0, <1>1, <1>2, <2>1, <2>2, Moves DEF TypeOK
  <1>3. ASSUME Answer(q) \/ NotRefreshed(q) \/ LoginCheck(q) \/ LogoutGuard(q)
        PROVE  IInv' /\ UNCHANGED stored
    <2>1. /\ UNCHANGED <<stored, access, cookie, latest>>
          /\ End(q) \/ Go(q, "refused") \/ Go(q, "loginSign") \/ Go(q, "revoke")
          /\ c.at \in {"sent", "noRefresh", "login", "logout"}
      BY <1>3 DEF Answer, NotRefreshed, LoginCheck, LogoutGuard, At
    <2> QED BY <1>0, <1>2, <2>1 DEF Points
  <1>4. ASSUME Refused(q)
        PROVE  IInv' /\ UNCHANGED stored
    <2>1. /\ UNCHANGED <<stored, access, cookie, latest>> /\ c.at = "refused"
          /\ End(q) \/ Carry(q, "refresh", TRUE, cookie[c.from])
      BY <1>4 DEF Refused, At
    <2>2. cookie[c.from] \in Token
      BY <1>0 DEF TypeOK
    <2> QED BY <1>0, <1>2, <2>1, <2>2 DEF Points
  <1>5. ASSUME VerifyRefreshToken(q)
        PROVE  IInv' /\ UNCHANGED stored
    <2>1. /\ UNCHANGED <<stored, access, cookie, latest>> /\ c.at = "refresh"
          /\ (stored # 0 /\ Go(q, "sign")) \/ Go(q, "noRefresh")
      BY <1>5 DEF VerifyRefreshToken, At
    <2> QED BY <1>0, <1>2, <2>1 DEF Points
  <1>6. ASSUME Sign(q)
        PROVE  IInv' /\ UNCHANGED stored
    <2>1. /\ UNCHANGED <<stored, access, cookie, latest>> /\ c.at \in {"sign", "loginSign"}
          /\ \/ c.at = "sign" /\ Carry(q, "store", c.retry, now)
             \/ Carry(q, "loginStore", c.retry, now)
      BY <1>6 DEF Sign, At
    <2>2. calm /\ c.at = "sign" => stored # 0
      BY <1>1 DEF Alone
    <2>3. now \in Token
      BY <1>0 DEF TypeOK
    <2> QED BY <1>0, <1>2, <2>1, <2>2, <2>3 DEF Points
  <1>7. ASSUME StoreRefreshToken(q)
        PROVE  /\ IInv'
               /\ calm /\ stored = 0 => At(q, "loginStore")
    <2>1. PICK at \in {"refreshed", "loggedIn"} :
            Go(q, at) /\ stored' = c.token /\ UNCHANGED <<access, cookie, latest>>
      BY <1>7 DEF StoreRefreshToken
    <2> DEFINE r == [c EXCEPT !.at = at]
    <2>2. /\ r \in Request /\ r.at = at /\ r.from = c.from /\ r.what = c.what
          /\ r.token = c.token
      BY <1>0 DEF Request, Points
    <2>3. req' = [req EXCEPT ![q] = r]
      BY <2>1 DEF Go
    <2> HIDE DEF r, c
    <2>4. IInv'
      BY <1>0, <1>1, <2>1, <2>2, <2>3, Moves DEF TypeOK
    <2>5. calm /\ c.at = "store" => stored # 0
      BY <1>1 DEF Alone, c
    <2> QED BY <1>7, <2>4, <2>5 DEF StoreRefreshToken, At, c
  \* The pair reaches the browser.
  <1>8. ASSUME NEW at \in Points,
               \/ Go(q, at) /\ at \in {"sent", "login", "logout"}
               \/ End(q) /\ at = "idle",
               c.at \in {"refreshed", "loggedIn"},
               access' = [access EXCEPT ![c.from] = c.token],
               cookie' = [cookie EXCEPT ![c.from] = c.token],
               latest' = c.from, UNCHANGED stored
        PROVE  IInv'
    <2>1. /\ access' \in [Browsers -> Token] /\ cookie' \in [Browsers -> Token]
          /\ cookie'[c.from] = c.token /\ latest' \in Browsers
      BY <1>0, <1>8 DEF TypeOK
    <2>2. calm => Held'
      BY <1>0, <1>1, <1>8, <2>1, BrowserAssumption DEF Alone, Held
    <2>3. PICK r \in Request :
            /\ req' = [req EXCEPT ![q] = r]
            /\ r.at \in {"idle", "sent", "login", "logout"}
            /\ r.at # "idle" => r.from = c.from /\ r.what = c.what
      <3>1. CASE Go(q, at) /\ at \in {"sent", "login", "logout"}
        <4> DEFINE r == [c EXCEPT !.at = at]
        <4>1. r \in Request /\ r.at = at /\ r.from = c.from /\ r.what = c.what
          BY <1>0 DEF Request
        <4>2. req' = [req EXCEPT ![q] = r]
          BY <3>1 DEF Go
        <4> HIDE DEF r
        <4> QED BY <3>1, <4>1, <4>2
      <3>2. CASE End(q)
        BY <3>2, IdleType DEF End
      <3> QED BY <1>8, <3>1, <3>2
    <2> HIDE DEF c
    <2> QED BY <1>0, <1>1, <1>8, <2>1, <2>2, <2>3, Moves DEF TypeOK
  <1>9. ASSUME Refreshed(q)
        PROVE  IInv' /\ UNCHANGED stored
    <2>1. c.what \in {"sent", "login", "logout"} /\ c.what \in Points
      BY <1>0 DEF Points
    <2> QED BY <1>8, <1>9, <2>1 DEF Refreshed, At
  <1>10. ASSUME LoggedIn(q)
         PROVE  IInv' /\ UNCHANGED stored
    BY <1>8, <1>10 DEF LoggedIn, At, Points
  <1>11. ASSUME Revoke(q)
         PROVE  IInv' /\ stored' = 0
    <2>1. Go(q, "loggedOut") /\ stored' = 0 /\ UNCHANGED <<access, cookie, latest>>
      BY <1>11 DEF Revoke
    <2> DEFINE r == [c EXCEPT !.at = "loggedOut"]
    <2>2. r \in Request /\ r.at = "loggedOut" /\ r.from = c.from /\ r.what = c.what
      BY <1>0 DEF Request, Points
    <2>3. req' = [req EXCEPT ![q] = r]
      BY <2>1 DEF Go
    <2> HIDE DEF r, c
    <2> QED BY <1>0, <1>1, <2>1, <2>2, <2>3, IdleType, Moves DEF TypeOK
  <1>12. ASSUME LoggedOut(q)
         PROVE  IInv' /\ UNCHANGED stored
    <2>1. /\ access' = [access EXCEPT ![c.from] = 0]
          /\ cookie' = [cookie EXCEPT ![c.from] = 0]
          /\ req' = [req EXCEPT ![q] = Idle] /\ UNCHANGED <<stored, latest>>
          /\ c.at = "loggedOut"
      BY <1>12 DEF LoggedOut, End, At
    <2>2. access' \in [Browsers -> Token] /\ cookie' \in [Browsers -> Token]
      BY <1>0, <2>1, IdleType DEF TypeOK
    <2>3. calm => Held'
      BY <1>1, <2>1 DEF Alone, At, Held
    <2> HIDE DEF c
    <2> QED BY <1>0, <1>1, <2>1, <2>2, <2>3, IdleType, Moves DEF TypeOK
  <1> QED BY <1>0, <1>3, <1>4, <1>5, <1>6, <1>7, <1>9, <1>10, <1>11, <1>12 DEF Continue

\* Every step keeps the invariant, and only a sign-in makes a session.
LEMMA Step ==
  ASSUME IInv, [Next]_vars
  PROVE  /\ IInv'
         /\ calm' /\ stored = 0 /\ stored' # 0 => \E q \in Requests : At(q, "loginStore")
  <1>0. TypeOK
    BY DEF IInv
  <1>1. CASE Tick
    <2>1. /\ now' \in Token
          /\ UNCHANGED <<stored, access, cookie, req, latest, calm>>
      BY <1>0, <1>1, TimeAssumption DEF Tick, TypeOK, Token
    <2> QED BY <2>1 DEF IInv, TypeOK, FromBrowser, CalmInv, Alone, Held, Quiet, At
  <1>2. ASSUME NEW q \in Requests, Lose(q)
        PROVE  IInv' /\ UNCHANGED stored
    BY <1>0, <1>2, IdleType, Moves DEF Lose, End, TypeOK
  <1>3. ASSUME NEW q \in Requests, NEW b \in Browsers,
               Call(q, b) \/ Login(q, b) \/ Logout(q, b)
        PROVE  IInv' /\ UNCHANGED stored
    <2>1. access[b] \in Token /\ 0 \in Token
      BY <1>0, IdleType DEF TypeOK
    <2> QED BY <1>3, <2>1, BeginStep DEF Call, Login, Logout
  <1>4. CASE UNCHANGED vars
    BY <1>4 DEF vars, IInv, TypeOK, FromBrowser, CalmInv, Alone, Held, Quiet, At
  <1> QED BY <1>1, <1>2, <1>3, <1>4, ContinueStep DEF Next, Tick

-----------------------------------------------------------------------------
\* The strengthening is an invariant.
THEOREM Inductive == Spec => []IInv
  <1>1. IInv /\ [Next]_vars => IInv'
    BY Step
  <1> QED BY <1>1, InitIInv, PTL DEF Spec

\* While requests come one at a time and are answered, the browser that got the
\* last pair of tokens can refresh it.
THEOREM SessionAlwaysHolds == Spec => []SessionHolds
  <1>1. IInv => SessionHolds
    BY DEF IInv, CalmInv, SessionHolds, Held
  <1> QED BY <1>1, Inductive, PTL

\* A sign-out ends the session everywhere, until somebody signs in.
THEOREM SignedOutAlwaysStays == Spec => SignedOutStays
  <1>1. IInv /\ [Next]_vars =>
          [calm' /\ stored = 0 /\ stored' # 0 => \E q \in Requests : At(q, "loginStore")]_vars
    BY Step
  <1> QED BY <1>1, Inductive, PTL DEF Spec, SignedOutStays
=============================================================================
