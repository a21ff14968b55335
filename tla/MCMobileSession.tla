--------------------------- MODULE MCMobileSession ---------------------------
(***************************************************************************)
(* Instance for TLC of the two clients' sessions, MobileSession and        *)
(* WebSession, which share nothing: each behaviour is about one of them.   *)
(***************************************************************************)
EXTENDS MobileSession, TLC

CONSTANTS Calls, AccessLife, CookieLife, RefreshLife, LastDay

VARIABLES today, cookie, call, visited
VARIABLE focus

web == <<today, cookie, call, visited>>

W == INSTANCE WebSession

ASSUME W!SessionAssumption

MCInit == Init /\ W!Init /\ focus \in {"app", "web"}

MCNext ==
  /\ UNCHANGED focus
  /\ \/ focus = "app" /\ Next /\ UNCHANGED web
     \/ focus = "web" /\ W!Next /\ UNCHANGED vars

MCSpec == MCInit /\ [][MCNext]_<<vars, web, focus>> /\ \A q \in Tasks : WF_vars(Step(q))

\* The property of the web session, see WebSession.
StaysSignedIn == W!StaysSignedIn
=============================================================================
