---------------------------- MODULE MobileSession ----------------------------
(***************************************************************************)
(* The session of the mobile app (core/network/api_client.dart,            *)
(* core/storage/secure_storage.dart, auth_repository_impl.dart,            *)
(* auth_provider.dart) with the token endpoints it talks to                *)
(* (routers/auth.py).                                                      *)
(*                                                                         *)
(* The app's tasks interleave wherever they await, and secure storage is   *)
(* written and cleared one key at a time.  A token is its user's: refresh  *)
(* tokens are not revoked when they are exchanged, and an access token may *)
(* expire whenever a request is under way.                                 *)
(***************************************************************************)
EXTENDS Naturals, Sequences

CONSTANTS
  Users,
  Clients,       \* ApiClient objects: most data sources make one of their own
  Tasks,         \* tasks that may be under way at the same time
  None

ASSUME SessionAssumption == None \notin Users \cup Clients \cup Tasks

VARIABLES
  storage,       \* what is under the keys of SecureStorageService
  screen,        \* AuthState: who the app shows as signed in
  outbox,        \* whose mutations wait in the outbox (OfflineSync)
  misfiled,      \* somebody's mutations went to another account (history)
  refreshing,    \* _refreshFuture of each client: the task that refreshes
  task           \* what each task does

vars == <<storage, screen, outbox, misfiled, refreshing, task>>

Keys == <<"access", "refresh", "user">>
Someone == Users \cup {None}

Idle == [at |-> "idle", op |-> "none", client |-> None, user |-> None, tries |-> 0, key |-> 1]
Task == [at : {"idle", "sent", "wait", "read", "post", "save", "clear", "retry"},
         op : {"none", "request", "login", "logout"},
         client : Clients \cup {None},
         user : Someone,            \* whose token is sent or saved
         tries : 0..3, key : 1..3]

TypeOK ==
  /\ storage \in [access : Someone, refresh : Someone, user : Someone]
  /\ screen \in Someone
  /\ outbox \subseteq Users
  /\ misfiled \in BOOLEAN
  /\ refreshing \in [Clients -> Tasks \cup {None}]
  /\ task \in [Tasks -> Task]

Init ==
  /\ storage = [access |-> None, refresh |-> None, user |-> None]
  /\ screen = None
  /\ outbox = {}
  /\ misfiled = FALSE
  /\ refreshing = [c \in Clients |-> None]
  /\ task = [q \in Tasks |-> Idle]

Waiting(c) == {q \in Tasks : task[q].at = "wait" /\ task[q].client = c}

\* Whoever waits for the refresh of client c goes on with task q.
Resume(q, c, at) ==
  /\ refreshing' = [refreshing EXCEPT ![c] = None]
  /\ task' = [p \in Tasks |-> IF p = q \/ p \in Waiting(c)
                              THEN [task[p] EXCEPT !.at = at, !.key = 1] ELSE task[p]]
-----------------------------------------------------------------------------
(* Requests *)

\* onRequest attaches the access token there is.
Send(q, c) ==
  /\ task[q].at = "idle"
  /\ task' = [task EXCEPT ![q] = [Idle EXCEPT !.at = "sent", !.op = "request", !.client = c,
                                              !.user = storage.access, !.tries = 1]]
  /\ UNCHANGED <<storage, screen, outbox, misfiled, refreshing>>

\* The user edits the library: the mutation waits in the outbox.
Edit ==
  /\ screen # None
  /\ outbox' = outbox \cup {screen}
  /\ UNCHANGED <<storage, screen, misfiled, refreshing, task>>

\* The request is answered, well or with an error that is not a 401.  A push
\* delivers the outbox to the account of the token.
Answer(q) ==
  /\ task[q].at = "sent" /\ task[q].user # None
  /\ \/ UNCHANGED <<outbox, misfiled>>
     \/ outbox' = {} /\ misfiled' = (misfiled \/ ~(outbox \subseteq {task[q].user}))
  /\ task' = [task EXCEPT ![q] = Idle]
  /\ UNCHANGED <<storage, screen, refreshing>>

\* Mutant of Unauthorized: a request that was sent again refreshes again.
UnauthorizedAgain(q) ==
  /\ task[q].at = "sent"
  /\ LET c == task[q].client
     IN IF refreshing[c] # None
        THEN task' = [task EXCEPT ![q].at = "wait"] /\ UNCHANGED refreshing
        ELSE /\ task' = [task EXCEPT ![q].at = "read"]
             /\ refreshing' = [refreshing EXCEPT ![c] = q]
  /\ UNCHANGED <<storage, screen, outbox, misfiled>>

\* Mutant of Unauthorized: every request refreshes by itself.
UnauthorizedAlone(q) ==
  /\ task[q].at = "sent"
  /\ IF task[q].tries = 2
     THEN task' = [task EXCEPT ![q].at = "clear", ![q].key = 1] /\ UNCHANGED refreshing
     ELSE /\ task' = [task EXCEPT ![q].at = "read"]
          /\ refreshing' = [refreshing EXCEPT ![task[q].client] = q]
  /\ UNCHANGED <<storage, screen, outbox, misfiled>>

\* onError, 401: a request that was sent again already clears the session; any
\* other waits for the client's refresh, which it starts if there is none.
Unauthorized(q) ==
  /\ task[q].at = "sent"
  /\ LET c == task[q].client
     IN IF task[q].tries = 2
        THEN task' = [task EXCEPT ![q].at = "clear", ![q].key = 1] /\ UNCHANGED refreshing
        ELSE IF refreshing[c] # None
        THEN task' = [task EXCEPT ![q].at = "wait"] /\ UNCHANGED refreshing
        ELSE /\ task' = [task EXCEPT ![q].at = "read"]
             /\ refreshing' = [refreshing EXCEPT ![c] = q]
  /\ UNCHANGED <<storage, screen, outbox, misfiled>>

\* Mutant of ReadRefresh: the client refreshes with the session its request
\* was sent in.
ReadRefreshCached(q) ==
  /\ task[q].at = "read"
  /\ IF task[q].user = None
     THEN Resume(q, task[q].client, "clear")
     ELSE task' = [task EXCEPT ![q].at = "post"] /\ UNCHANGED refreshing
  /\ UNCHANGED <<storage, screen, outbox, misfiled>>

\* _performRefresh reads the refresh token; without one it fails at once.
ReadRefresh(q) ==
  /\ task[q].at = "read"
  /\ IF storage.refresh = None
     THEN Resume(q, task[q].client, "clear")
     ELSE /\ task' = [task EXCEPT ![q].at = "post", ![q].user = storage.refresh]
          /\ UNCHANGED refreshing
  /\ UNCHANGED <<storage, screen, outbox, misfiled>>

\* POST /v1/auth/refresh returns a new pair of tokens for the user,
Exchanged(q) ==
  /\ task[q].at = "post"
  /\ task' = [task EXCEPT ![q].at = "save", ![q].key = 1]
  /\ UNCHANGED <<storage, screen, outbox, misfiled, refreshing>>

\* Mutant of Refused: only the task that refreshed hears of the failure.
RefusedAlone(q) ==
  /\ task[q].at = "post"
  /\ task' = [task EXCEPT ![q].at = "clear", ![q].key = 1]
  /\ refreshing' = [refreshing EXCEPT ![task[q].client] = None]
  /\ UNCHANGED <<storage, screen, outbox, misfiled>>

\* refuses, or is out of reach: the same to the app.
Refused(q) ==
  /\ task[q].at = "post"
  /\ Resume(q, task[q].client, "clear")
  /\ UNCHANGED <<storage, screen, outbox, misfiled>>

\* saveTokens writes key by key.  After the last one the requests are sent
\* again, or the login is complete.
SaveKey(q) ==
  /\ task[q].at = "save"
  /\ storage' = [storage EXCEPT ![Keys[task[q].key]] = task[q].user]
  /\ IF task[q].key < Len(Keys)
     THEN task' = [task EXCEPT ![q].key = @ + 1] /\ UNCHANGED <<screen, refreshing>>
     ELSE IF task[q].op = "login"
     THEN task' = [task EXCEPT ![q] = Idle] /\ screen' = task[q].user /\ UNCHANGED refreshing
     ELSE Resume(q, task[q].client, "retry") /\ UNCHANGED screen
  /\ UNCHANGED <<outbox, misfiled>>

\* The request is sent again with the token there is; without one its error is
\* returned.
Retry(q) ==
  /\ task[q].at = "retry"
  /\ IF storage.access = None
     THEN task' = [task EXCEPT ![q] = Idle]
     ELSE task' = [task EXCEPT ![q].at = "sent", ![q].user = storage.access, ![q].tries = 2]
  /\ UNCHANGED <<storage, screen, outbox, misfiled, refreshing>>

\* clearSession deletes key by key.  No client is given an onUnauthorized: what
\* the screen shows and what waits in the outbox stay, unless this is a logout.
ClearKey(q) ==
  /\ task[q].at = "clear"
  /\ storage' = [storage EXCEPT ![Keys[task[q].key]] = None]
  /\ IF task[q].key < Len(Keys)
     THEN task' = [task EXCEPT ![q].key = @ + 1] /\ UNCHANGED <<screen, outbox>>
     ELSE /\ task' = [task EXCEPT ![q] = Idle]
          /\ IF task[q].op = "logout" THEN screen' = None /\ outbox' = {}
             ELSE UNCHANGED <<screen, outbox>>
  /\ UNCHANGED <<misfiled, refreshing>>
-----------------------------------------------------------------------------
(* Login, logout, restart *)

\* The login form and the menu are disabled while one of them is under way.
Undisturbed == \A q \in Tasks : task[q].op \notin {"login", "logout"}

\* The credentials are accepted; a login that fails changes nothing.
Login(q, u) ==
  /\ task[q].at = "idle" /\ screen = None /\ Undisturbed
  /\ task' = [task EXCEPT ![q] = [Idle EXCEPT !.at = "save", !.op = "login", !.user = u]]
  /\ UNCHANGED <<storage, screen, outbox, misfiled, refreshing>>

Logout(q) ==
  /\ task[q].at = "idle" /\ screen # None /\ Undisturbed
  /\ task' = [task EXCEPT ![q] = [Idle EXCEPT !.at = "clear", !.op = "logout"]]
  /\ UNCHANGED <<storage, screen, outbox, misfiled, refreshing>>

\* The app is killed and started: checkSession shows whoever has a token.
Restart ==
  /\ task' = [q \in Tasks |-> Idle]
  /\ refreshing' = [c \in Clients |-> None]
  /\ screen' = storage.access
  /\ UNCHANGED <<storage, outbox, misfiled>>

Step(q) ==
  \/ Answer(q) \/ Unauthorized(q) \/ ReadRefresh(q) \/ Exchanged(q) \/ Refused(q)
  \/ SaveKey(q) \/ Retry(q) \/ ClearKey(q)

Next ==
  \/ Edit \/ Restart
  \/ \E q \in Tasks :
       \/ \E c \in Clients : Send(q, c)
       \/ \E u \in Users : Login(q, u)
       \/ Logout(q) \/ Step(q)

\* The network layer has timeouts: every request is answered or fails.
Spec == Init /\ [][Next]_vars /\ \A q \in Tasks : WF_vars(Step(q))
-----------------------------------------------------------------------------
(* Properties *)

\* One refresh at a time, and never one that nobody waits for: whoever exchanges
\* a client's refresh token is the task its other requests wait for.
OneRefresh ==
  \A q \in Tasks :
    /\ task[q].op = "request" /\ task[q].at \in {"read", "post", "save"}
         => refreshing[task[q].client] = q
    /\ task[q].at = "wait" => refreshing[task[q].client] # None

\* No request hangs, however refreshes fail and are shared: not in a circle of
\* refreshing and sending again, nor waiting for a refresh that is over.
RequestsEnd == \A q \in Tasks : task[q].at # "idle" ~> task[q].at = "idle"

NoTokens == storage.access = None /\ storage.refresh = None

\* Tasks that hold tokens which they are going to store.
Storing == {q \in Tasks : task[q].at \in {"post", "save"}}

\* Without tokens no refresh begins.  What stores a session again is a login, or a
\* refresh that was under way when the last token was deleted; each of these ends,
\* and no request, late answer or restart adds one.
SignedOutStays ==
  [][NoTokens => \/ \E q \in Tasks, u \in Users : Login(q, u)
                 \/ /\ Storing' \subseteq Storing
                    /\ NoTokens' \/ \E q \in Storing : SaveKey(q)]_vars

\* "Session tokens must be cleared" by a logout (auth_lifecycle_phase2_test.dart:433):
\* once they are, and the login screen is shown, no session is stored until a login.
LogoutClears == [][NoTokens /\ screen = None /\ Undisturbed => storage'.access = None]_vars

\* Mutations are delivered to the account of the person who made them: "User B cannot
\* submit User A's mutations" (auth_lifecycle_phase2_test.dart:440).  It does not hold
\* when a session ends without a logout.
OwnAccount == ~misfiled

\* Storage holds the tokens of one session or nothing when no task is under way.
WholeSession ==
  (\A q \in Tasks : task[q].at = "idle") =>
    storage.access = storage.refresh /\ storage.refresh = storage.user
=============================================================================
