------------------------------- MODULE Sessions -------------------------------
(***************************************************************************)
(* Sessions (auth.service.ts, token.service.ts, auth.controller.ts and the *)
(* front end's lib/axios.js) of one user: the browsers they are signed in  *)
(* with, the token pair in each browser's cookies, and the one refresh     *)
(* token that Redis keeps per user.  A call that is refused for want of a  *)
(* valid access token makes the browser refresh the pair once and try the  *)
(* call again; several calls of a page do so side by side.                 *)
(*                                                                         *)
(* A token is known by the second it was signed in: its payload holds      *)
(* nothing else that differs, so two tokens of one second are the same.    *)
(* 0 is no token.                                                          *)
(***************************************************************************)
EXTENDS Naturals, FiniteSets

CONSTANTS
  Browsers,
  NoBrowser,
  Requests,     \* requests that may be in progress at once (a bound)
  AccessLife,   \* JWT_ACCESS_EXPIRES, in seconds
  MaxTime,      \* the last second (a bound); refresh tokens outlive it
  Lossy         \* whether requests and answers may be lost

ASSUME BrowserAssumption == NoBrowser \notin Browsers
ASSUME TimeAssumption == AccessLife \in Nat \ {0} /\ MaxTime \in Nat \ {0}
ASSUME LossAssumption == Lossy \in BOOLEAN

Token == 0 .. MaxTime

Points == {"idle", "sent", "refused", "refresh", "sign", "store", "refreshed",
           "noRefresh", "login", "loginSign", "loginStore", "loggedIn", "logout",
           "revoke", "loggedOut"}

VARIABLES
  now,        \* the clock of the server, in seconds
  stored,     \* refresh:<user> in Redis
  access,     \* each browser's access cookie, by the second it was signed
  cookie,     \* each browser's refresh cookie
  req,        \* requests in progress
  latest,     \* the browser that was the last to be given a pair
  calm        \* so far no two requests overlapped and no answer was lost

vars == <<now, stored, access, cookie, req, latest, calm>>

\* A request: the endpoint it is for, its browser, whether it is tried again,
\* and the token it presents or brings back.
Sent(at, what, from, retry, token) ==
  [at |-> at, what |-> what, from |-> from, retry |-> retry, token |-> token]

Idle == Sent("idle", "idle", NoBrowser, FALSE, 0)

Init ==
  /\ now = 1
  /\ stored = 0
  /\ access = [b \in Browsers |-> 0]
  /\ cookie = [b \in Browsers |-> 0]
  /\ req = [q \in Requests |-> Idle]
  /\ latest = NoBrowser
  /\ calm = TRUE

At(q, at) == req[q].at = at
Go(q, at) == req' = [req EXCEPT ![q].at = at]
Carry(q, at, retry, t) ==
  req' = [req EXCEPT ![q] = Sent(at, req[q].what, req[q].from, retry, t)]
End(q) == req' = [req EXCEPT ![q] = Idle]
Quiet == \A q \in Requests : At(q, "idle")

Begin(q, b, at, t) ==
  /\ At(q, "idle")
  /\ req' = [req EXCEPT ![q] = Sent(at, at, b, FALSE, t)]
  /\ calm' = (calm /\ Quiet)

\* JwtStrategy: the token was signed here and has not expired.  Cookies live as
\* long as their tokens.
Valid(t) == t # 0 /\ now - t < AccessLife

-----------------------------------------------------------------------------
(* A call of the page, and the interceptor of lib/axios.js *)

Call(q, b) ==
  /\ Begin(q, b, "sent", access[b])
  /\ UNCHANGED <<now, stored, access, cookie, latest>>

Answer(q) ==
  /\ At(q, "sent")
  /\ IF Valid(req[q].token) THEN End(q) ELSE Go(q, "refused")
  /\ UNCHANGED <<now, stored, access, cookie, latest, calm>>

\* 401: POST /auth/refresh with the cookie there is now; a call that has been
\* tried again is given up.
Refused(q) ==
  /\ At(q, "refused")
  /\ IF req[q].retry THEN End(q)
     ELSE Carry(q, "refresh", TRUE, cookie[req[q].from])
  /\ UNCHANGED <<now, stored, access, cookie, latest, calm>>

\* The answer brings the new pair of cookies, and the call goes out again.
Refreshed(q) ==
  LET r == req[q] IN
  /\ At(q, "refreshed")
  /\ access' = [access EXCEPT ![r.from] = r.token]
  /\ cookie' = [cookie EXCEPT ![r.from] = r.token]
  /\ latest' = r.from
  /\ Go(q, r.what)
  /\ UNCHANGED <<now, stored, calm>>

\* Fault: a refused refresh is itself refreshed.
NotRefreshedLoop(q) ==
  /\ At(q, "noRefresh")
  /\ Carry(q, "refresh", TRUE, cookie[req[q].from])
  /\ UNCHANGED <<now, stored, access, cookie, latest, calm>>

\* The refusal of a refresh is final, and leaves the cookies as they are.
NotRefreshed(q) ==
  /\ At(q, "noRefresh")
  /\ End(q)
  /\ UNCHANGED <<now, stored, access, cookie, latest, calm>>

-----------------------------------------------------------------------------
(* refresh, login, logout: verifyRefreshToken, issueTokens, revokeRefreshToken *)

\* Fault: any token signed here is good.
VerifySignature(q) ==
  /\ At(q, "refresh")
  /\ Go(q, IF req[q].token # 0 THEN "sign" ELSE "noRefresh")
  /\ UNCHANGED <<now, stored, access, cookie, latest, calm>>

\* Only the token Redis holds is good.
VerifyRefreshToken(q) ==
  /\ At(q, "refresh")
  /\ IF req[q].token # 0 /\ stored = req[q].token THEN Go(q, "sign")
     ELSE Go(q, "noRefresh")
  /\ UNCHANGED <<now, stored, access, cookie, latest, calm>>

Sign(q) ==
  /\ req[q].at \in {"sign", "loginSign"}
  /\ Carry(q, IF At(q, "sign") THEN "store" ELSE "loginStore", req[q].retry, now)
  /\ UNCHANGED <<now, stored, access, cookie, latest, calm>>

\* Fault: the token stored at the sign-in stays, whatever is issued later.
StoreAtLogin(q) ==
  /\ req[q].at \in {"store", "loginStore"}
  /\ stored' = IF At(q, "store") /\ stored # 0 THEN stored ELSE req[q].token
  /\ Go(q, IF At(q, "store") THEN "refreshed" ELSE "loggedIn")
  /\ UNCHANGED <<now, access, cookie, latest, calm>>

\* The new token takes the place of the user's old one, whoever held it.
StoreRefreshToken(q) ==
  /\ req[q].at \in {"store", "loginStore"}
  /\ stored' = req[q].token
  /\ Go(q, IF At(q, "store") THEN "refreshed" ELSE "loggedIn")
  /\ UNCHANGED <<now, access, cookie, latest, calm>>

\* Sign-up, password and OAuth sign-in.
Login(q, b) ==
  /\ Begin(q, b, "login", 0)
  /\ UNCHANGED <<now, stored, access, cookie, latest>>

\* A wrong password is a 401 like any other: the interceptor refreshes the pair
\* the browser may still have and sends the sign-in again.
LoginCheck(q) ==
  /\ At(q, "login")
  /\ Go(q, "loginSign") \/ Go(q, "refused")
  /\ UNCHANGED <<now, stored, access, cookie, latest, calm>>

LoggedIn(q) ==
  LET r == req[q] IN
  /\ At(q, "loggedIn")
  /\ access' = [access EXCEPT ![r.from] = r.token]
  /\ cookie' = [cookie EXCEPT ![r.from] = r.token]
  /\ latest' = r.from
  /\ End(q)
  /\ UNCHANGED <<now, stored, calm>>

\* POST /auth/logout is behind the guard, so it may be refreshed first.
Logout(q, b) ==
  /\ Begin(q, b, "logout", access[b])
  /\ UNCHANGED <<now, stored, access, cookie, latest>>

LogoutGuard(q) ==
  /\ At(q, "logout")
  /\ Go(q, IF Valid(req[q].token) THEN "revoke" ELSE "refused")
  /\ UNCHANGED <<now, stored, access, cookie, latest, calm>>

Revoke(q) ==
  /\ At(q, "revoke")
  /\ stored' = 0
  /\ Go(q, "loggedOut")
  /\ UNCHANGED <<now, access, cookie, latest, calm>>

LoggedOut(q) ==
  LET b == req[q].from IN
  /\ At(q, "loggedOut")
  /\ access' = [access EXCEPT ![b] = 0]
  /\ cookie' = [cookie EXCEPT ![b] = 0]
  /\ End(q)
  /\ UNCHANGED <<now, stored, latest, calm>>

-----------------------------------------------------------------------------
\* The browser gives a request up after its timeout, or the handler fails:
\* what the server has done so far stays.
Lose(q) ==
  /\ Lossy /\ ~At(q, "idle")
  /\ End(q)
  /\ calm' = FALSE
  /\ UNCHANGED <<now, stored, access, cookie, latest>>

Tick ==
  /\ now < MaxTime
  /\ now' = now + 1
  /\ UNCHANGED <<stored, access, cookie, req, latest, calm>>

Continue(q) ==
  \/ Answer(q)
  \/ Refused(q)
  \/ Refreshed(q)
  \/ NotRefreshed(q)
  \/ VerifyRefreshToken(q)
  \/ LoginCheck(q)
  \/ Sign(q)
  \/ StoreRefreshToken(q)
  \/ LoggedIn(q)
  \/ LogoutGuard(q)
  \/ Revoke(q)
  \/ LoggedOut(q)

Next ==
  \/ Tick
  \/ \E q \in Requests :
       \/ Continue(q)
       \/ Lose(q)
       \/ \E b \in Browsers : Call(q, b) \/ Login(q, b) \/ Logout(q, b)

Spec == Init /\ [][Next]_vars
\* Every request is answered, refused or given up.
FairSpec == Spec /\ \A q \in Requests : WF_vars(Continue(q))

-----------------------------------------------------------------------------
(* Properties *)

Request == [at : Points, what : {"idle", "sent", "login", "logout"},
            from : Browsers \cup {NoBrowser}, retry : BOOLEAN, token : Token]

\* Every variable has the type the code gives it.
TypeOK ==
  /\ now \in Token
  /\ stored \in Token
  /\ access \in [Browsers -> Token]
  /\ cookie \in [Browsers -> Token]
  /\ req \in [Requests -> Request]
  /\ latest \in Browsers \cup {NoBrowser}
  /\ calm \in BOOLEAN

\* While requests come one at a time and are answered, the browser that got the
\* last pair can refresh it, through all rotations and sign-ins elsewhere: what
\* Redis holds is what its cookie holds, until someone signs out.
SessionHolds ==
  calm /\ Quiet /\ stored # 0 => latest # NoBrowser /\ cookie[latest] = stored

\* ... and a sign-out ends the session everywhere: from then on only a sign-in,
\* and no refresh from another browser, makes a session.
SignedOutStays ==
  [][calm' /\ stored = 0 /\ stored' # 0 => \E q \in Requests : At(q, "loginStore")]_vars

\* A call that finds its token expired comes to an end: refreshed and tried
\* again once, or refused, and never in a loop of refreshes.
RequestsEnd == \A q \in Requests : ~At(q, "idle") ~> At(q, "idle")
=============================================================================
