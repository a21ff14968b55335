----------------------------- MODULE WebSession -----------------------------
(***************************************************************************)
(* The session of the web application (apps/web/src: middleware.ts, the    *)
(* proxy and the routes under api/auth) with the tokens it is made of      *)
(* (routers/auth.py).                                                      *)
(*                                                                         *)
(* All of a session is in one encrypted cookie: an access token, a refresh *)
(* token, and when the access token expires.  The server that decrypts it  *)
(* keeps nothing.  A browser sends requests in parallel, each with the     *)
(* cookie of the moment, and takes their answers in any order.  Three      *)
(* lifetimes run against each other: the access token's, the refresh       *)
(* token's, which is not revoked when it is exchanged, and the cookie's,   *)
(* which slides.  Requests take seconds, lifetimes are days: no day ends   *)
(* while a request is under way.                                           *)
(***************************************************************************)
EXTENDS Naturals

CONSTANTS
  Calls,         \* requests that may be under way at the same time
  AccessLife,    \* days an access token is valid
  CookieLife,    \* days until the browser drops the cookie
  RefreshLife,   \* days a refresh token is valid
  LastDay,       \* bound on the days that pass
  None

VARIABLES
  today,
  cookie,        \* cinevault_session in the browser
  call,          \* what each request does
  visited        \* the day of the last visit that was answered well (history)

vars == <<today, cookie, call, visited>>

\* access: when the access token expires (expires_at); token: the day on which the
\* refresh token was issued; until: when the browser drops the cookie.
Session == [access : 0..LastDay + AccessLife, token : 0..LastDay, until : 0..LastDay + CookieLife]

SessionAssumption ==
  /\ {AccessLife, CookieLife, RefreshLife, LastDay} \subseteq Nat \ {0}
  /\ AccessLife < CookieLife /\ CookieLife <= RefreshLife
  /\ None \notin Session

Keep == {}
Delete == {None}
Idle == [at |-> "idle", kind |-> "none", session |-> None, set |-> Keep, failed |-> FALSE]

TypeOK ==
  /\ today \in 0..LastDay /\ visited \in 0..LastDay
  /\ cookie \in Session \cup {None}
  /\ call \in [Calls -> [at : {"idle", "sent", "exchange", "answer"},
                         kind : {"none", "page", "proxy", "refresh", "login", "logout"},
                         session : Session \cup {None},                   \* the cookie that was sent
                         set : {Keep, Delete} \cup {{s} : s \in Session},   \* Set-Cookie of the answer
                         failed : BOOLEAN]]

Init ==
  /\ today = 0 /\ visited = 0
  /\ cookie = None
  /\ call = [q \in Calls |-> Idle]

\* Mutant of NewSession: the cookie ends with the access token.
NewSessionShort ==
  [access |-> today + AccessLife, token |-> today, until |-> today + AccessLife]

\* What login, registration and an exchange put into the cookie: the real expiry of
\* the access token inside, the longer one on the cookie itself.
NewSession ==
  [access |-> today + AccessLife, token |-> today, until |-> today + CookieLife]

\* A page, a call through the proxy, a refresh, a login or a logout.
Send(q, kind) ==
  /\ call[q].at = "idle"
  /\ call' = [call EXCEPT ![q] = [Idle EXCEPT !.at = "sent", !.kind = kind, !.session = cookie]]
  /\ UNCHANGED <<today, cookie, visited>>

AnswerWith(q, set, failed) ==
  /\ call' = [call EXCEPT ![q].at = "answer", ![q].set = set, ![q].failed = failed]
  /\ UNCHANGED <<today, cookie, visited>>

GoOn(q) ==
  /\ call' = [call EXCEPT ![q].at = "exchange"]
  /\ UNCHANGED <<today, cookie, visited>>

\* middleware: a page of a protected route is shown to a valid session; an expired
\* one is exchanged; without one the cookie is deleted and the login page shown.
Middleware(q) ==
  /\ call[q].at = "sent" /\ call[q].kind = "page"
  /\ LET s == call[q].session
     IN IF s = None THEN AnswerWith(q, Delete, FALSE)
        ELSE IF today < s.access THEN AnswerWith(q, Keep, FALSE)
        ELSE GoOn(q)

\* resolveAccessToken of the proxy: without a session the call is anonymous.
Forward(q) ==
  /\ call[q].at = "sent" /\ call[q].kind = "proxy"
  /\ LET s == call[q].session
     IN IF s = None \/ today < s.access THEN AnswerWith(q, Keep, FALSE) ELSE GoOn(q)

\* POST /api/auth/refresh exchanges whatever session there is.
RefreshRoute(q) ==
  /\ call[q].at = "sent" /\ call[q].kind = "refresh"
  /\ IF call[q].session = None THEN AnswerWith(q, Keep, FALSE) ELSE GoOn(q)

\* POST /v1/auth/refresh checks that the token has not expired and issues two new
\* ones.  The proxy sets the cookie only if the API answers the call as well.
Exchanged(q) ==
  /\ call[q].at = "exchange"
  /\ today < call[q].session.token + RefreshLife
  /\ \/ AnswerWith(q, {NewSession}, FALSE)
     \/ call[q].kind = "proxy" /\ AnswerWith(q, Keep, TRUE)

\* The token has expired, or the API is out of reach or too slow: "destroy the
\* session and require login"; but the proxy leaves the cookie as it is.
NotExchanged(q) ==
  /\ call[q].at = "exchange"
  /\ AnswerWith(q, IF call[q].kind = "proxy" THEN Keep ELSE Delete,
                today < call[q].session.token + RefreshLife)

\* The credentials are accepted or not.
Login(q) ==
  /\ call[q].at = "sent" /\ call[q].kind = "login"
  /\ AnswerWith(q, {NewSession}, FALSE) \/ AnswerWith(q, Keep, TRUE)

Logout(q) ==
  /\ call[q].at = "sent" /\ call[q].kind = "logout"
  /\ AnswerWith(q, Delete, FALSE)

\* The browser takes an answer.
Receive(q) ==
  /\ call[q].at = "answer"
  /\ cookie' \in IF call[q].set = Keep THEN {cookie} ELSE call[q].set
  /\ visited' = IF /\ call[q].set # Delete /\ ~call[q].failed
                   /\ call[q].session # None \/ call[q].kind = "login"
                THEN today ELSE visited
  /\ call' = [call EXCEPT ![q] = Idle]
  /\ UNCHANGED today

\* The answer is lost or nobody waits for it any more.
Leave(q) ==
  /\ call[q].at = "answer"
  /\ call' = [call EXCEPT ![q] = Idle]
  /\ UNCHANGED <<today, cookie, visited>>

\* A day passes; the browser drops a cookie whose time has come.
NextDay ==
  /\ today < LastDay /\ \A q \in Calls : call[q].at = "idle"
  /\ today' = today + 1
  /\ cookie' = IF cookie # None /\ cookie.until <= today' THEN None ELSE cookie
  /\ UNCHANGED <<call, visited>>

Next ==
  \/ NextDay
  \/ \E q \in Calls :
       \/ \E kind \in {"page", "proxy", "refresh", "login", "logout"} : Send(q, kind)
       \/ Middleware(q) \/ Forward(q) \/ RefreshRoute(q) \/ Exchanged(q) \/ NotExchanged(q)
       \/ Login(q) \/ Logout(q) \/ Receive(q) \/ Leave(q)

Spec == Init /\ [][Next]_vars
-----------------------------------------------------------------------------
(* Properties *)

Received(q) == call[q].at = "answer" /\ call'[q] = Idle

\* "users were silently logged out at access-token expiry" (api/auth/refresh): not
\* any more.  However calls overlap, each with an exchange of its own, a browser
\* loses its session only when it is logged out, when the API was out of reach,
\* through a page that was asked for without a session, or after it stayed away for
\* more than the cookie's life less an access token's: the refresh token in the
\* cookie never expires before the cookie.
StaysSignedIn ==
  [][cookie # None /\ cookie' = None =>
       \/ today' > visited + CookieLife - AccessLife
       \/ \E q \in Calls : /\ Received(q)
                           /\ call[q].kind = "logout" \/ call[q].session = None \/ call[q].failed]_vars

\* Only a login brings a session.  It does not: see README.md.
OnlyLoginSignsIn ==
  [][cookie = None /\ cookie' # None => \E q \in Calls : Received(q) /\ call[q].kind = "login"]_vars
=============================================================================
