--------------------------- MODULE SessionProofs ---------------------------
(***************************************************************************)
(* Safety of the two clients' sessions: of the mobile app for any number   *)
(* of users, tasks and clients, and of the web application for any number  *)
(* of parallel requests, any lifetimes in their order and any number of    *)
(* days.  In the app, Kinds says which operation a task that stands        *)
(* somewhere can be of: only a request refreshes, and it has a client.  In *)
(* the browser, WebInv says of every session that is kept or under way     *)
(* that it was made in one piece, as far from its end as it then was.      *)
(***************************************************************************)
EXTENDS MCMobileSession, TLAPS

-----------------------------------------------------------------------------
(* The mobile session *)

Kinds ==
  \A q \in Tasks :
    /\ task[q].op = "request" => task[q].client \in Clients
    /\ task[q].at \in {"sent", "wait", "read", "post", "retry"} => task[q].op = "request"
    /\ task[q].at = "save" => task[q].op \in {"request", "login"}
    /\ task[q].at \in {"save", "post"} => task[q].user \in Users
    /\ task[q].at # "idle" => task[q].op # "none"

IInv == TypeOK /\ Kinds /\ OneRefresh

\* What a step may do to one task q and leave the refreshes alone: as it goes on,
\* it is no longer, or still, the task its client's requests wait for.
Moves(q, t) ==
  /\ task' = [task EXCEPT ![q] = t]
  /\ t \in Task
  /\ t.op = "request" => t.client \in Clients
  /\ t.at \in {"sent", "wait", "read", "post", "retry"} => t.op = "request"
  /\ t.at = "save" => t.op \in {"request", "login"}
  /\ t.at \in {"save", "post"} => t.user \in Users
  /\ t.at # "idle" => t.op # "none"

-----------------------------------------------------------------------------
(* Lemmas on tasks *)

LEMMA KeysKnown == Len(Keys) = 3 /\ Keys[1] = "access" /\ Keys[2] = "refresh" /\ Keys[3] = "user"
  BY DEF Keys

LEMMA Bounds == 1 \in 1..3 /\ 0 \in 0..3 /\ 1 \in 0..3 /\ 2 \in 0..3
  OBVIOUS

\* A task that neither waits nor refreshes is free to go anywhere but there, and
\* one that refreshes may go on refreshing.
LEMMA Moved ==
  ASSUME IInv, NEW q \in Tasks, NEW t, Moves(q, t), UNCHANGED refreshing,
         t.op = "request" /\ t.at \in {"read", "post", "save"} => refreshing[t.client] = q,
         t.at = "wait" => refreshing[t.client] # None
  PROVE  Kinds' /\ OneRefresh' /\ task' \in [Tasks -> Task] /\ refreshing' \in [Clients -> Tasks \cup {None}]
<1>1. task' \in [Tasks -> Task] /\ refreshing' \in [Clients -> Tasks \cup {None}]
  BY DEF IInv, TypeOK, Moves
<1>2. task'[q] = t /\ \A p \in Tasks \ {q} : task'[p] = task[p]
  BY DEF IInv, TypeOK, Moves
<1>3. Kinds'
  BY <1>2 DEF IInv, Kinds, Moves
<1>4. OneRefresh'
  BY <1>2 DEF IInv, OneRefresh
<1> QED
  BY <1>1, <1>3, <1>4

\* The refresh of client c is over: those that waited for it go on with q.
LEMMA Resumed ==
  ASSUME IInv, NEW q \in Tasks, task[q].op = "request", task[q].at \in {"read", "post", "save"},
         NEW at \in {"clear", "retry"}, Resume(q, task[q].client, at)
  PROVE  Kinds' /\ OneRefresh' /\ task' \in [Tasks -> Task] /\ refreshing' \in [Clients -> Tasks \cup {None}]
         /\ \A p \in Tasks : task'[p].at \in {"post", "save"} => task[p].at \in {"post", "save"}
<1> DEFINE c == task[q].client
<1>1. c \in Clients /\ refreshing[c] = q
  BY DEF IInv, Kinds, OneRefresh
<1>2. /\ refreshing' = [refreshing EXCEPT ![c] = None]
      /\ task' = [p \in Tasks |-> IF p = q \/ p \in Waiting(c)
                                  THEN [task[p] EXCEPT !.at = at, !.key = 1] ELSE task[p]]
  BY DEF Resume
<1>3. \A p \in Waiting(c) : p \in Tasks /\ task[p].op = "request" /\ task[p].client = c
  BY DEF Waiting, IInv, Kinds
<1>4. \A p \in Tasks \ (Waiting(c) \cup {q}) : task'[p] = task[p]
  BY <1>2
<1>5. \A p \in Waiting(c) \cup {q} :
        /\ task'[p] \in Task /\ task'[p].at = at
        /\ task'[p].op = task[p].op /\ task'[p].client = task[p].client
  <2> SUFFICES ASSUME NEW p \in Waiting(c) \cup {q}
               PROVE  /\ task'[p] \in Task /\ task'[p].at = at
                      /\ task'[p].op = task[p].op /\ task'[p].client = task[p].client
    OBVIOUS
  <2>1. task[p] \in Task /\ task'[p] = [task[p] EXCEPT !.at = at, !.key = 1]
    BY <1>2, <1>3 DEF IInv, TypeOK
  <2> QED
    BY <2>1, Bounds DEF Task
<1> HIDE DEF c
<1>6. task' \in [Tasks -> Task]
  BY <1>2, <1>4, <1>5 DEF IInv, TypeOK
<1>7. refreshing' \in [Clients -> Tasks \cup {None}]
  BY <1>2 DEF IInv, TypeOK
<1>8. Kinds'
  BY <1>3, <1>4, <1>5 DEF IInv, Kinds
<1>9. ASSUME NEW p \in Tasks \ (Waiting(c) \cup {q}),
             task[p].op = "request", task[p].at \in {"read", "post", "save", "wait"}
      PROVE  task[p].client # c /\ refreshing'[task[p].client] = refreshing[task[p].client]
  <2>1. task[p].client # c
    BY <1>1, <1>9, SessionAssumption DEF IInv, OneRefresh, Waiting, c
  <2> QED
    BY <1>2, <1>9, <2>1 DEF IInv, TypeOK, Kinds
<1>10. OneRefresh'
  BY <1>4, <1>5, <1>9 DEF IInv, OneRefresh, Kinds
<1>11. \A p \in Tasks : task'[p].at \in {"post", "save"} => task[p].at \in {"post", "save"}
  BY <1>4, <1>5
<1> QED
  BY <1>6, <1>7, <1>8, <1>10, <1>11

\* A key of the storage is written: the rest of it stays.
LEMMA Stored ==
  ASSUME TypeOK, NEW i \in 1..3, NEW u \in Someone, storage' = [storage EXCEPT ![Keys[i]] = u]
  PROVE  /\ storage' \in [access : Someone, refresh : Someone, user : Someone]
         /\ u = None /\ storage.access = None => storage'.access = None
         /\ u = None /\ storage.refresh = None => storage'.refresh = None
<1>1. Keys[i] \in {"access", "refresh", "user"}
  BY KeysKnown
<1> QED
  BY <1>1 DEF TypeOK
-----------------------------------------------------------------------------
(* Each step *)

LEMMA InitSafe == ASSUME Init PROVE IInv
<1>1. \A q \in Tasks : task[q] = Idle
  BY DEF Init
<1>2. Idle \in Task /\ Idle.at = "idle" /\ Idle.op = "none"
  BY Bounds DEF Idle, Task, Someone
<1>3. TypeOK
  BY <1>2 DEF Init, TypeOK, Someone
<1> QED
  BY <1>1, <1>2, <1>3 DEF IInv, Kinds, OneRefresh

LEMMA StepSafe == ASSUME IInv, [Next]_vars PROVE IInv'
<1> USE DEF IInv
<1>1. ASSUME Edit PROVE IInv'
  BY <1>1 DEF Edit, TypeOK, Kinds, OneRefresh, Someone
<1>2. ASSUME Restart PROVE IInv'
  <2>1. TypeOK'
    BY <1>2 DEF Restart, TypeOK, Idle, Task, Someone
  <2>2. \A q \in Tasks : task'[q] = Idle
    BY <1>2 DEF Restart
  <2> QED
    BY <2>1, <2>2 DEF Kinds, OneRefresh, Idle
<1>3. ASSUME NEW q \in Tasks, NEW c \in Clients, Send(q, c) PROVE IInv'
  <2> DEFINE t == [Idle EXCEPT !.at = "sent", !.op = "request", !.client = c,
                                !.user = storage.access, !.tries = 1]
  <2>1. Moves(q, t) /\ UNCHANGED <<storage, screen, outbox, misfiled, refreshing>>
    BY <1>3, Bounds DEF Send, Moves, Idle, Task, TypeOK
  <2>2. t.at = "sent"
    BY DEF Idle
  <2> HIDE DEF t
  <2> QED
    BY <2>1, <2>2, Moved DEF TypeOK
<1>4. ASSUME NEW q \in Tasks, NEW u \in Users, Login(q, u) PROVE IInv'
  <2> DEFINE t == [Idle EXCEPT !.at = "save", !.op = "login", !.user = u]
  <2>1. Moves(q, t) /\ UNCHANGED <<storage, screen, outbox, misfiled, refreshing>>
    BY <1>4, Bounds DEF Login, Moves, Idle, Task, Someone
  <2>2. t.op = "login" /\ t.at = "save"
    BY DEF Idle
  <2> HIDE DEF t
  <2> QED
    BY <2>1, <2>2, Moved DEF TypeOK
<1>5. ASSUME NEW q \in Tasks, Logout(q) PROVE IInv'
  <2> DEFINE t == [Idle EXCEPT !.at = "clear", !.op = "logout"]
  <2>1. Moves(q, t) /\ UNCHANGED <<storage, screen, outbox, misfiled, refreshing>>
    BY <1>5, Bounds DEF Logout, Moves, Idle, Task, Someone
  <2>2. t.op = "logout" /\ t.at = "clear"
    BY DEF Idle
  <2> HIDE DEF t
  <2> QED
    BY <2>1, <2>2, Moved DEF TypeOK
<1>6. ASSUME NEW q \in Tasks, Answer(q) PROVE IInv'
  <2>1. Moves(q, Idle) /\ UNCHANGED <<storage, screen, refreshing>>
    BY <1>6 DEF Answer, Moves, Idle, Task, Someone
  <2>2. outbox' \subseteq Users /\ misfiled' \in BOOLEAN
    BY <1>6 DEF Answer, TypeOK
  <2> QED
    BY <2>1, <2>2, Moved DEF TypeOK, Idle
<1>7. ASSUME NEW q \in Tasks, Unauthorized(q) PROVE IInv'
  <2> DEFINE c == task[q].client
  <2>1. task[q] \in Task /\ task[q].op = "request" /\ c \in Clients
    BY <1>7 DEF Unauthorized, TypeOK, Kinds
  <2>2. UNCHANGED <<storage, screen, outbox, misfiled>>
    BY <1>7 DEF Unauthorized
  <2>3. CASE task[q].tries = 2
    <3> DEFINE t == [task[q] EXCEPT !.at = "clear", !.key = 1]
    <3>1. Moves(q, t) /\ t.at = "clear" /\ UNCHANGED refreshing
      BY <1>7, <2>1, <2>3, Bounds DEF Unauthorized, Moves, Task
    <3> HIDE DEF t
    <3> QED
      BY <2>2, <3>1, Moved DEF TypeOK
  <2>4. CASE task[q].tries # 2 /\ refreshing[c] # None
    <3> DEFINE t == [task[q] EXCEPT !.at = "wait"]
    <3>1. Moves(q, t) /\ t.at = "wait" /\ t.client = c /\ UNCHANGED refreshing
      BY <1>7, <2>1, <2>4 DEF Unauthorized, Moves, Task
    <3> HIDE DEF t
    <3> QED
      BY <2>2, <2>4, <3>1, Moved DEF TypeOK
  <2>5. CASE task[q].tries # 2 /\ refreshing[c] = None
    <3> DEFINE t == [task[q] EXCEPT !.at = "read"]
    <3>1. Moves(q, t) /\ t.at = "read" /\ t.client = c /\ refreshing' = [refreshing EXCEPT ![c] = q]
      BY <1>7, <2>1, <2>5 DEF Unauthorized, Moves, Task
    <3> HIDE DEF t
    <3>2. task'[q] = t /\ \A p \in Tasks \ {q} : task'[p] = task[p]
      BY <3>1 DEF Moves, TypeOK
    <3>3. TypeOK'
      BY <2>1, <2>2, <3>1 DEF TypeOK, Moves
    <3>4. Kinds'
      BY <3>1, <3>2 DEF Kinds, Moves
    <3>5. ASSUME NEW p \in Tasks \ {q}, task[p].op = "request", task[p].at \in {"read", "post", "save", "wait"}
          PROVE  refreshing'[task[p].client] = refreshing[task[p].client]
      <4>1. task[p].client # c
        BY <2>5, <3>5, SessionAssumption DEF OneRefresh
      <4> QED
        BY <3>1, <3>5, <4>1 DEF TypeOK, Kinds
    <3>6. refreshing'[c] = q
      BY <2>1, <3>1 DEF TypeOK
    <3>7. OneRefresh'
      BY <3>1, <3>2, <3>5, <3>6 DEF OneRefresh, Kinds
    <3> QED
      BY <3>3, <3>4, <3>7
  <2> QED
    BY <2>3, <2>4, <2>5
<1>8. ASSUME NEW q \in Tasks, ReadRefresh(q) PROVE IInv'
  <2>1. task[q] \in Task /\ task[q].op = "request" /\ task[q].client \in Clients /\ task[q].at = "read"
    BY <1>8 DEF ReadRefresh, TypeOK, Kinds
  <2>2. UNCHANGED <<storage, screen, outbox, misfiled>>
    BY <1>8 DEF ReadRefresh
  <2>3. CASE storage.refresh = None
    <3>1. Resume(q, task[q].client, "clear")
      BY <1>8, <2>3 DEF ReadRefresh
    <3> QED
      BY <2>1, <2>2, <3>1, Resumed DEF TypeOK
  <2>4. CASE storage.refresh # None
    <3> DEFINE t == [task[q] EXCEPT !.at = "post", !.user = storage.refresh]
    <3>1. storage.refresh \in Users
      BY <2>4 DEF TypeOK, Someone
    <3>2. Moves(q, t) /\ t.at = "post" /\ t.client = task[q].client /\ UNCHANGED refreshing
      BY <1>8, <2>1, <2>4, <3>1 DEF ReadRefresh, Moves, Task, Someone
    <3>3. refreshing[task[q].client] = q
      BY <2>1 DEF OneRefresh
    <3> HIDE DEF t
    <3> QED
      BY <2>2, <3>2, <3>3, Moved DEF TypeOK
  <2> QED
    BY <2>3, <2>4
<1>9. ASSUME NEW q \in Tasks, Exchanged(q) PROVE IInv'
  <2> DEFINE t == [task[q] EXCEPT !.at = "save", !.key = 1]
  <2>1. task[q] \in Task /\ task[q].op = "request" /\ task[q].client \in Clients /\ task[q].at = "post"
        /\ task[q].user \in Users
    BY <1>9 DEF Exchanged, TypeOK, Kinds
  <2>2. /\ Moves(q, t) /\ t.at = "save" /\ t.client = task[q].client
        /\ UNCHANGED <<storage, screen, outbox, misfiled, refreshing>>
    BY <1>9, <2>1, Bounds DEF Exchanged, Moves, Task
  <2>3. refreshing[task[q].client] = q
    BY <2>1 DEF OneRefresh
  <2> HIDE DEF t
  <2> QED
    BY <2>2, <2>3, Moved DEF TypeOK
<1>10. ASSUME NEW q \in Tasks, Refused(q) PROVE IInv'
  <2>1. task[q].op = "request" /\ task[q].at = "post"
    BY <1>10 DEF Refused, Kinds
  <2> QED
    BY <1>10, <2>1, Resumed DEF Refused, TypeOK
<1>11. ASSUME NEW q \in Tasks, SaveKey(q) PROVE IInv'
  <2>1. task[q] \in Task /\ task[q].at = "save" /\ task[q].op \in {"request", "login"} /\ task[q].user \in Users
    BY <1>11 DEF SaveKey, TypeOK, Kinds
  <2>2. storage' \in [access : Someone, refresh : Someone, user : Someone] /\ UNCHANGED <<outbox, misfiled>>
    BY <1>11, <2>1, Stored DEF SaveKey, Task, Someone
  <2>3. CASE task[q].key < 3
    <3> DEFINE t == [task[q] EXCEPT !.key = @ + 1]
    <3>1. /\ Moves(q, t) /\ t.at = "save" /\ t.client = task[q].client /\ t.op = task[q].op
          /\ UNCHANGED <<screen, refreshing>>
      <4>1. task' = [task EXCEPT ![q] = t] /\ UNCHANGED <<screen, refreshing>>
        BY <1>11, <2>3, KeysKnown DEF SaveKey
      <4>2. t \in Task /\ t.at = "save" /\ t.client = task[q].client /\ t.op = task[q].op /\ t.user = task[q].user
        BY <2>1, <2>3 DEF Task
      <4> HIDE DEF t
      <4> QED
        BY <2>1, <4>1, <4>2 DEF Moves, Kinds
    <3>2. task[q].op = "request" => refreshing[task[q].client] = q
      BY <2>1 DEF OneRefresh
    <3> HIDE DEF t
    <3> QED
      BY <2>2, <3>1, <3>2, Moved DEF TypeOK
  <2>4. CASE ~(task[q].key < 3) /\ task[q].op = "login"
    <3>1. task' = [task EXCEPT ![q] = Idle] /\ screen' = task[q].user /\ UNCHANGED refreshing
      BY <1>11, <2>4, KeysKnown DEF SaveKey
    <3>2. Moves(q, Idle) /\ screen' \in Someone
      BY <2>1, <3>1 DEF Moves, Idle, Task, Someone
    <3> QED
      BY <2>2, <3>1, <3>2, Moved DEF TypeOK, Idle
  <2>5. CASE ~(task[q].key < 3) /\ task[q].op = "request"
    <3>1. Resume(q, task[q].client, "retry") /\ UNCHANGED screen
      BY <1>11, <2>5, KeysKnown DEF SaveKey
    <3> QED
      BY <2>1, <2>2, <2>5, <3>1, Resumed DEF TypeOK
  <2> QED
    BY <2>1, <2>3, <2>4, <2>5
<1>12. ASSUME NEW q \in Tasks, Retry(q) PROVE IInv'
  <2>1. task[q] \in Task /\ task[q].op = "request" /\ task[q].client \in Clients
    BY <1>12 DEF Retry, TypeOK, Kinds
  <2>2. UNCHANGED <<storage, screen, outbox, misfiled, refreshing>>
    BY <1>12 DEF Retry
  <2>3. CASE storage.access = None
    <3>1. Moves(q, Idle)
      BY <1>12, <2>3 DEF Retry, Moves, Idle, Task, Someone
    <3> QED
      BY <2>2, <3>1, Moved DEF TypeOK, Idle
  <2>4. CASE storage.access # None
    <3> DEFINE t == [task[q] EXCEPT !.at = "sent", !.user = storage.access, !.tries = 2]
    <3>1. Moves(q, t) /\ t.at = "sent"
      BY <1>12, <2>1, <2>4, Bounds DEF Retry, Moves, Task, TypeOK
    <3> HIDE DEF t
    <3> QED
      BY <2>2, <3>1, Moved DEF TypeOK
  <2> QED
    BY <2>3, <2>4
<1>13. ASSUME NEW q \in Tasks, ClearKey(q) PROVE IInv'
  <2>1. task[q] \in Task /\ task[q].at = "clear"
    BY <1>13 DEF ClearKey, TypeOK
  <2>2. storage' \in [access : Someone, refresh : Someone, user : Someone] /\ UNCHANGED <<misfiled, refreshing>>
    BY <1>13, <2>1, Stored DEF ClearKey, Task, Someone
  <2>3. screen' \in Someone /\ outbox' \subseteq Users
    BY <1>13 DEF ClearKey, TypeOK, Someone
  <2>4. CASE task[q].key < 3
    <3> DEFINE t == [task[q] EXCEPT !.key = @ + 1]
    <3>1. task' = [task EXCEPT ![q] = t]
      BY <1>13, <2>4, KeysKnown DEF ClearKey
    <3>2. t \in Task /\ t.at = "clear" /\ t.client = task[q].client /\ t.op = task[q].op
      BY <2>1, <2>4 DEF Task
    <3> HIDE DEF t
    <3>3. Moves(q, t)
      BY <2>1, <3>1, <3>2 DEF Moves, Kinds
    <3> QED
      BY <2>2, <2>3, <3>2, <3>3, Moved DEF TypeOK
  <2>5. CASE ~(task[q].key < 3)
    <3>1. Moves(q, Idle)
      BY <1>13, <2>5, KeysKnown DEF ClearKey, Moves, Idle, Task, Someone
    <3> QED
      BY <2>2, <2>3, <3>1, Moved DEF TypeOK, Idle
  <2> QED
    BY <2>4, <2>5
<1>14. ASSUME UNCHANGED vars PROVE IInv'
  BY <1>14 DEF vars, TypeOK, Kinds, OneRefresh
<1> QED
  BY <1>1, <1>2, <1>3, <1>4, <1>5, <1>6, <1>7, <1>8, <1>9, <1>10, <1>11, <1>12, <1>13, <1>14 DEF Next, Step

LEMMA Safety == Spec => []IInv
  BY InitSafe, StepSafe, PTL DEF Spec

\* What a step other than a login does in a state without tokens.
StaysOut == Storing' \subseteq Storing /\ (NoTokens' \/ \E q \in Storing : SaveKey(q))

LEMMA SignedOutStep ==
  ASSUME IInv, [Next]_vars, NoTokens, ~ \E q \in Tasks, u \in Users : Login(q, u)
  PROVE  StaysOut
<1> USE DEF IInv, NoTokens, Storing, StaysOut
<1>1. CASE Edit
  BY <1>1 DEF Edit
<1>2. CASE Restart
  BY <1>2 DEF Restart, Idle
<1>3. ASSUME NEW q \in Tasks, NEW c \in Clients, Send(q, c) PROVE StaysOut
  BY <1>3 DEF Send, Idle, TypeOK
<1>4. ASSUME NEW q \in Tasks, Logout(q) PROVE StaysOut
  BY <1>4 DEF Logout, Idle, TypeOK
<1>5. ASSUME NEW q \in Tasks, Answer(q) PROVE StaysOut
  BY <1>5 DEF Answer, Idle, TypeOK
<1>6. ASSUME NEW q \in Tasks, Unauthorized(q) PROVE StaysOut
  <2>1. UNCHANGED storage
    BY <1>6 DEF Unauthorized
  <2>2. \E at \in {"clear", "wait", "read"} :
          task' = [task EXCEPT ![q].at = at] \/ task' = [task EXCEPT ![q].at = at, ![q].key = 1]
    BY <1>6 DEF Unauthorized
  <2>3. task[q] \in Task
    BY DEF TypeOK
  <2>4. \A p \in Tasks \ {q} : task'[p] = task[p]
    BY <2>2 DEF TypeOK
  <2>5. task'[q].at \in {"clear", "wait", "read"}
    BY <2>2, <2>3 DEF TypeOK, Task
  <2> QED
    BY <2>1, <2>4, <2>5
<1>7. ASSUME NEW q \in Tasks, ReadRefresh(q) PROVE StaysOut
  <2>1. task[q].at = "read" /\ task[q].op = "request" /\ storage' = storage
    BY <1>7 DEF ReadRefresh, Kinds
  <2>2. Resume(q, task[q].client, "clear")
    BY <1>7 DEF ReadRefresh
  <2> QED
    BY <2>1, <2>2, Resumed
<1>8. ASSUME NEW q \in Tasks, Retry(q) PROVE StaysOut
  BY <1>8 DEF Retry, Idle, TypeOK
<1>9. ASSUME NEW q \in Tasks, ClearKey(q) PROVE StaysOut
  <2>1. task[q] \in Task
    BY DEF TypeOK
  <2>2. storage'.access = None /\ storage'.refresh = None
    BY <1>9, <2>1, Stored DEF ClearKey, Task, Someone
  <2>3. \A p \in Tasks : task'[p].at \in {"post", "save"} => task[p].at \in {"post", "save"}
    BY <1>9, <2>1 DEF ClearKey, Idle, TypeOK, Task
  <2> QED
    BY <2>2, <2>3
<1>10. CASE UNCHANGED vars
  BY <1>10 DEF vars
<1>11. ASSUME NEW q \in Tasks, Exchanged(q) PROVE StaysOut
  BY <1>11 DEF Exchanged, TypeOK
<1>12. ASSUME NEW q \in Tasks, Refused(q) PROVE StaysOut
  <2>1. task[q].at = "post" /\ task[q].op = "request" /\ storage' = storage
    BY <1>12 DEF Refused, Kinds
  <2>2. Resume(q, task[q].client, "clear")
    BY <1>12 DEF Refused
  <2> QED
    BY <2>1, <2>2, Resumed
<1>13. ASSUME NEW q \in Tasks, SaveKey(q) PROVE StaysOut
  <2>1. task[q].at = "save" /\ task[q].op \in {"request", "login"}
    BY <1>13 DEF SaveKey, Kinds
  <2>2. \A p \in Tasks : task'[p].at \in {"post", "save"} => task[p].at \in {"post", "save"}
    <3>1. CASE task' = [task EXCEPT ![q].key = @ + 1] \/ task' = [task EXCEPT ![q] = Idle]
      BY <2>1, <3>1 DEF TypeOK, Idle
    <3>2. CASE task[q].op = "request" /\ Resume(q, task[q].client, "retry")
      BY <2>1, <3>2, Resumed
    <3> QED
      BY <1>13, <2>1, <3>1, <3>2 DEF SaveKey
  <2> QED
    BY <1>13, <2>1, <2>2
<1> QED
  BY <1>1, <1>2, <1>3, <1>4, <1>5, <1>6, <1>7, <1>8, <1>9, <1>10, <1>11, <1>12, <1>13 DEF Next, Step
-----------------------------------------------------------------------------
(* Theorems *)

\* api_client.dart, _handle401: in every state, whoever exchanges the refresh token
\* of a client is the task that its other requests wait for, and none waits for
\* nobody.
THEOREM RefreshedOnce == Spec => []OneRefresh
  BY Safety, PTL DEF IInv

\* secure_storage.dart, clearSession and saveTokens: without tokens only a login, or a
\* refresh that was under way before, stores a session, and no further refresh begins.
THEOREM SignedOutForGood == Spec => SignedOutStays
<1>1. ASSUME IInv, [Next]_vars
      PROVE  [NoTokens => (\E q \in Tasks, u \in Users : Login(q, u)) \/ StaysOut]_vars
  BY <1>1, SignedOutStep
<1> QED
  BY <1>1, Safety, PTL DEF Spec, SignedOutStays, StaysOut

-----------------------------------------------------------------------------
(* The web session *)

\* A session as it was put together on the day of its refresh token, and whose
\* cookie the browser would still keep.
Made(s) ==
  /\ s.access = s.token + AccessLife /\ s.until = s.token + CookieLife
  /\ s.token <= today /\ today < s.until

\* What an answer with this Set-Cookie may be the answer to.
Apt(kind, session, set, failed) ==
  \/ /\ set = W!Keep
     /\ \/ failed
        \/ session = None /\ kind # "login"
        \/ session # None /\ today < session.access
  \/ set = W!Delete /\ (kind = "logout" \/ session = None \/ failed)
  \/ set = {W!NewSession}

\* A call carries a session that the browser has or had earlier today.
Carries(c) ==
  /\ c.session # None => Made(c.session) /\ (cookie # None => cookie = c.session \/ cookie.token = today)
  /\ c.at = "idle" => c.session = None
  /\ c.at = "exchange" => c.session # None /\ c.kind \in {"page", "proxy", "refresh"}
  /\ c.at = "answer" => Apt(c.kind, c.session, c.set, c.failed)

\* The cookie of someone who visited on a day stays for all but an access token's
\* life of its own.
Lasting == cookie # None => Made(cookie) /\ visited + CookieLife < cookie.until + AccessLife

WebInv ==
  /\ W!TypeOK /\ visited <= today
  /\ Lasting
  /\ \A q \in Calls : Carries(call[q])

WebCall == [at : {"idle", "sent", "exchange", "answer"},
            kind : {"none", "page", "proxy", "refresh", "login", "logout"},
            session : W!Session \cup {None},
            set : {W!Keep, W!Delete} \cup {{s} : s \in W!Session},
            failed : BOOLEAN]

LEMMA WebDays ==
  ASSUME W!SessionAssumption, W!TypeOK
  PROVE  /\ AccessLife \in Nat \ {0} /\ CookieLife \in Nat \ {0} /\ RefreshLife \in Nat \ {0} /\ LastDay \in Nat \ {0}
         /\ AccessLife < CookieLife /\ CookieLife <= RefreshLife
         /\ today \in Nat /\ today <= LastDay /\ visited \in Nat
         /\ \A s \in W!Session : s.access \in Nat /\ s.token \in Nat /\ s.until \in Nat
         /\ None \notin W!Session
  BY DEF W!SessionAssumption, W!TypeOK, W!Session

LEMMA WebTyped ==
  ASSUME W!TypeOK
  PROVE  call \in [Calls -> WebCall] /\ cookie \in W!Session \cup {None}
  BY DEF W!TypeOK, WebCall

LEMMA NewMade ==
  ASSUME W!SessionAssumption, W!TypeOK
  PROVE  /\ W!NewSession \in W!Session /\ Made(W!NewSession) /\ W!NewSession # None
         /\ W!NewSession.token = today /\ W!NewSession.until = today + CookieLife
<1>1. W!NewSession \in W!Session
  BY WebDays DEF W!NewSession, W!Session
<1> QED
  BY <1>1, WebDays DEF W!NewSession, Made

\* Only one call changes, and to what it may be.
LEMMA WebMoved ==
  ASSUME W!SessionAssumption, WebInv, NEW q \in Calls, NEW c \in WebCall,
         call' = [call EXCEPT ![q] = c], Carries(c), UNCHANGED <<today, cookie, visited>>
  PROVE  WebInv'
<1>1. call \in [Calls -> WebCall]
  BY WebTyped DEF WebInv
<1>2. W!TypeOK'
  BY <1>1 DEF WebInv, W!TypeOK, WebCall
<1>3. \A p \in Calls : Carries(call'[p])
  BY <1>1 DEF WebInv
<1>4. W!NewSession' = W!NewSession
  BY DEF W!NewSession
<1>5. \A p \in Calls : Carries(call[p])'
  BY <1>3, <1>4 DEF Carries, Made, Apt, W!Keep, W!Delete
<1> QED
  BY <1>2, <1>5 DEF WebInv, Lasting, Made

LEMMA WebAnswered ==
  ASSUME W!SessionAssumption, WebInv, NEW q \in Calls, NEW set, NEW failed \in BOOLEAN,
         W!AnswerWith(q, set, failed), Apt(call[q].kind, call[q].session, set, failed)
  PROVE  WebInv'
<1>1. call[q] \in WebCall
  BY WebTyped DEF WebInv
<1>2. set \in {W!Keep, W!Delete} \cup {{s} : s \in W!Session}
  BY NewMade DEF WebInv, Apt
<1> DEFINE c == [call[q] EXCEPT !.at = "answer", !.set = set, !.failed = failed]
<1>3. c \in WebCall
  BY <1>1, <1>2 DEF WebCall
<1>4. /\ c.at = "answer" /\ c.set = set /\ c.failed = failed
      /\ c.kind = call[q].kind /\ c.session = call[q].session
  BY <1>1 DEF WebCall
<1>5. Carries(call[q])
  BY DEF WebInv
<1>6. Carries(c)
  <2> HIDE DEF c
  <2> QED
    BY <1>4, <1>5 DEF Carries
<1>7. call' = [call EXCEPT ![q] = c] /\ UNCHANGED <<today, cookie, visited>>
  BY WebTyped DEF W!AnswerWith, WebInv
<1> HIDE DEF c
<1> QED
  BY <1>3, <1>6, <1>7, WebMoved

LEMMA WebGoesOn ==
  ASSUME W!SessionAssumption, WebInv, NEW q \in Calls, W!GoOn(q),
         call[q].kind \in {"page", "proxy", "refresh"}, call[q].session # None
  PROVE  WebInv'
<1> DEFINE c == [call[q] EXCEPT !.at = "exchange"]
<1>1. call[q] \in WebCall
  BY WebTyped DEF WebInv
<1>2. c \in WebCall /\ c.at = "exchange" /\ c.kind = call[q].kind /\ c.session = call[q].session
  BY <1>1 DEF WebCall
<1>3. Carries(call[q])
  BY DEF WebInv
<1>4. call' = [call EXCEPT ![q] = c] /\ UNCHANGED <<today, cookie, visited>>
  BY WebTyped DEF W!GoOn, WebInv
<1> HIDE DEF c
<1>5. Carries(c)
  BY <1>2, <1>3 DEF Carries
<1> QED
  BY <1>2, <1>4, <1>5, WebMoved

LEMMA IdleCall == W!Idle \in WebCall /\ Carries(W!Idle) /\ W!Idle.session = None /\ W!Idle.at = "idle"
  BY DEF W!Idle, WebCall, Carries

\* An exchange never finds the refresh token expired: it outlives the cookie.
LEMMA TokenLives ==
  ASSUME W!SessionAssumption, WebInv, NEW q \in Calls, call[q].session # None
  PROVE  today < call[q].session.token + RefreshLife
<1>1. call[q].session \in W!Session /\ Made(call[q].session)
  BY WebTyped DEF WebInv, WebCall, Carries
<1> QED
  BY <1>1, WebDays DEF WebInv, Made

LEMMA WebReceived ==
  ASSUME W!SessionAssumption, WebInv, NEW q \in Calls, W!Receive(q)
  PROVE  WebInv'
<1>1. call[q] \in WebCall /\ Carries(call[q]) /\ call[q].at = "answer"
  BY WebTyped DEF WebInv, W!Receive
<1>2. Apt(call[q].kind, call[q].session, call[q].set, call[q].failed)
  BY <1>1 DEF Carries
<1>3. UNCHANGED today /\ call' = [call EXCEPT ![q] = W!Idle] /\ call' \in [Calls -> WebCall]
  BY IdleCall, WebTyped DEF W!Receive, WebInv
<1>4. \/ cookie' = cookie /\ call[q].set = W!Keep
      \/ cookie' = None /\ call[q].set = W!Delete
      \/ cookie' = W!NewSession /\ call[q].set = {W!NewSession}
  BY <1>2 DEF W!Receive, Apt, W!Keep, W!Delete
<1>5. visited' = today \/ visited' = visited
  BY DEF W!Receive
<1>6. W!TypeOK' /\ visited' <= today'
  BY <1>3, <1>4, <1>5, NewMade, WebDays DEF WebInv, W!TypeOK, WebCall
<1>7. Lasting'
  <2>1. CASE cookie' = None
    BY <2>1 DEF Lasting
  <2>2. CASE cookie' = W!NewSession
    BY <2>2, <1>3, <1>5, NewMade, WebDays DEF WebInv, Lasting, Made
  <2>3. CASE cookie' = cookie /\ call[q].set = W!Keep /\ cookie # None
    <3>1. cookie \in W!Session /\ Made(cookie)
      BY <2>3, WebTyped DEF WebInv, Lasting
    <3>2. CASE visited' = visited
      BY <2>3, <3>2, <1>3 DEF WebInv, Lasting, Made
    <3>3. CASE visited' # visited
      <4>1. ~call[q].failed /\ (call[q].session # None \/ call[q].kind = "login")
        BY <3>3 DEF W!Receive
      <4>2. call[q].session # None /\ today < call[q].session.access
        BY <4>1, <1>2, <2>3, NewMade DEF Apt, W!Keep, W!Delete
      <4>3. call[q].session \in W!Session /\ Made(call[q].session)
              /\ (cookie = call[q].session \/ cookie.token = today)
        BY <4>2, <1>1, <2>3 DEF Carries, WebCall
      <4>4. today + CookieLife < cookie.until + AccessLife
        BY <4>2, <4>3, <3>1, WebDays DEF WebInv, Made
      <4> QED
        BY <4>4, <3>1, <3>3, <2>3, <1>3, <1>5 DEF Lasting, Made
    <3> QED
      BY <3>2, <3>3
  <2> QED
    BY <2>1, <2>2, <2>3, <1>4
<1>8. \A p \in Calls : Carries(call[p])'
  <2> TAKE p \in Calls
  <2>1. call'[p] = W!Idle \/ call'[p] = call[p]
    BY <1>3, WebTyped DEF WebInv
  <2>2. CASE call'[p] = W!Idle
    BY <2>2, IdleCall DEF Carries
  <2>3. CASE call'[p] = call[p]
    <3>1. Carries(call[p])
      BY DEF WebInv
    <3>2. W!NewSession' = W!NewSession
      BY <1>3 DEF W!NewSession
    <3>3. cookie' # None => cookie' = cookie \/ cookie'.token = today
      BY <1>4, NewMade DEF WebInv
    <3> QED
      BY <2>3, <3>1, <3>2, <3>3, <1>3 DEF Carries, Made, Apt, W!Keep, W!Delete
  <2> QED
    BY <2>1, <2>2, <2>3
<1> QED
  BY <1>6, <1>7, <1>8 DEF WebInv

LEMMA WebNextDay ==
  ASSUME W!SessionAssumption, WebInv, W!NextDay
  PROVE  WebInv'
<1>1. today' = today + 1 /\ today < LastDay /\ UNCHANGED <<call, visited>>
  BY DEF W!NextDay
<1>2. cookie' = None \/ (cookie' = cookie /\ today' < cookie.until)
  <2>1. cookie \in W!Session \cup {None}
    BY WebTyped DEF WebInv
  <2> QED
    BY <1>1, <2>1, WebDays DEF W!NextDay, WebInv
<1>3. W!TypeOK' /\ visited' <= today'
  BY <1>1, <1>2, WebDays DEF WebInv, W!TypeOK, W!Session, W!Keep, W!Delete
<1>4. Lasting'
  <2>1. cookie # None => cookie \in W!Session
    BY WebTyped DEF WebInv
  <2> QED
    BY <1>1, <1>2, <2>1, WebDays DEF WebInv, Lasting, Made
<1>5. \A q \in Calls : call[q].at = "idle" /\ call[q].session = None
  BY DEF W!NextDay, WebInv, Carries
<1>6. \A q \in Calls : Carries(call[q])'
  BY <1>1, <1>5 DEF Carries
<1> QED
  BY <1>3, <1>4, <1>6 DEF WebInv

LEMMA WebStep ==
  ASSUME W!SessionAssumption, WebInv, [W!Next]_(W!vars)
  PROVE  WebInv'
<1>1. CASE W!NextDay
  BY <1>1, WebNextDay
<1>2. ASSUME NEW q \in Calls, NEW kind \in {"page", "proxy", "refresh", "login", "logout"}, W!Send(q, kind)
      PROVE  WebInv'
  <2> DEFINE c == [W!Idle EXCEPT !.at = "sent", !.kind = kind, !.session = cookie]
  <2>1. c \in WebCall /\ c.at = "sent" /\ c.session = cookie
    BY WebTyped, IdleCall DEF W!Idle, WebCall, WebInv
  <2>2. call' = [call EXCEPT ![q] = c] /\ UNCHANGED <<today, cookie, visited>>
    BY <1>2 DEF W!Send
  <2> HIDE DEF c
  <2>3. Carries(c)
    BY <2>1 DEF Carries, WebInv, Lasting
  <2> QED
    BY <2>1, <2>2, <2>3, WebMoved
<1>3. ASSUME NEW q \in Calls, W!Middleware(q) \/ W!Forward(q) \/ W!RefreshRoute(q)
      PROVE  WebInv'
  <2>1. CASE W!GoOn(q) /\ call[q].session # None
    BY <1>3, <2>1, WebGoesOn DEF W!Middleware, W!Forward, W!RefreshRoute
  <2>2. CASE W!AnswerWith(q, W!Delete, FALSE) /\ call[q].session = None
    BY <2>2, WebAnswered DEF Apt
  <2>3. CASE /\ W!AnswerWith(q, W!Keep, FALSE)
             /\ \/ call[q].session = None /\ call[q].kind # "login"
                \/ call[q].session # None /\ today < call[q].session.access
    BY <2>3, WebAnswered DEF Apt
  <2> QED
    BY <1>3, <2>1, <2>2, <2>3 DEF W!Middleware, W!Forward, W!RefreshRoute
<1>4. ASSUME NEW q \in Calls, W!Exchanged(q)
      PROVE  WebInv'
  <2>1. CASE W!AnswerWith(q, {W!NewSession}, FALSE)
    BY <2>1, WebAnswered DEF Apt
  <2>2. CASE W!AnswerWith(q, W!Keep, TRUE)
    BY <2>2, WebAnswered DEF Apt
  <2> QED
    BY <1>4, <2>1, <2>2 DEF W!Exchanged
<1>5. ASSUME NEW q \in Calls, W!NotExchanged(q)
      PROVE  WebInv'
  <2>1. call[q].session # None
    BY <1>5 DEF W!NotExchanged, WebInv, Carries
  <2>2. W!AnswerWith(q, W!Keep, TRUE) \/ W!AnswerWith(q, W!Delete, TRUE)
    BY <1>5, <2>1, TokenLives DEF W!NotExchanged
  <2> QED
    BY <2>2, WebAnswered DEF Apt
<1>6. ASSUME NEW q \in Calls, W!Login(q)
      PROVE  WebInv'
  <2>1. CASE W!AnswerWith(q, {W!NewSession}, FALSE)
    BY <2>1, WebAnswered DEF Apt
  <2>2. CASE W!AnswerWith(q, W!Keep, TRUE)
    BY <2>2, WebAnswered DEF Apt
  <2> QED
    BY <1>6, <2>1, <2>2 DEF W!Login
<1>7. ASSUME NEW q \in Calls, W!Logout(q)
      PROVE  WebInv'
  BY <1>7, WebAnswered DEF W!Logout, Apt
<1>8. ASSUME NEW q \in Calls, W!Receive(q)
      PROVE  WebInv'
  BY <1>8, WebReceived
<1>9. ASSUME NEW q \in Calls, W!Leave(q)
      PROVE  WebInv'
  BY <1>9, IdleCall, WebMoved DEF W!Leave
<1>10. CASE UNCHANGED W!vars
  BY <1>10 DEF W!vars, WebInv, W!TypeOK, Lasting, Carries, Made, Apt, W!NewSession, W!Keep, W!Delete
<1> QED
  BY <1>1, <1>2, <1>3, <1>4, <1>5, <1>6, <1>7, <1>8, <1>9, <1>10 DEF W!Next

\* The cookie goes only as StaysSignedIn allows.
LEMMA CookieGoes ==
  ASSUME W!SessionAssumption, WebInv, [W!Next]_(W!vars), cookie # None, cookie' = None
  PROVE  \/ today' > visited + CookieLife - AccessLife
         \/ \E q \in Calls : /\ W!Received(q)
                             /\ call[q].kind = "logout" \/ call[q].session = None \/ call[q].failed
<1>1. CASE W!NextDay
  <2>1. today' = today + 1 /\ cookie.until <= today' /\ cookie \in W!Session
    BY <1>1, WebTyped DEF W!NextDay, WebInv
  <2>2. visited + CookieLife < cookie.until + AccessLife
    BY DEF WebInv, Lasting
  <2> QED
    BY <2>1, <2>2, WebDays DEF WebInv
<1>2. ASSUME NEW q \in Calls, W!Receive(q)
      PROVE  /\ W!Received(q)
             /\ call[q].kind = "logout" \/ call[q].session = None \/ call[q].failed
  <2>1. call[q].at = "answer" /\ Apt(call[q].kind, call[q].session, call[q].set, call[q].failed)
    BY <1>2 DEF W!Receive, WebInv, Carries
  <2>2. call[q].set # W!Keep /\ call[q].set # {W!NewSession}
    BY <1>2, NewMade DEF W!Receive, WebInv, W!Keep
  <2>3. W!Received(q)
    BY <1>2, <2>1, WebTyped DEF W!Receive, W!Received, WebInv
  <2> QED
    BY <2>1, <2>2, <2>3 DEF Apt
<1>3. W!NextDay \/ \E q \in Calls : W!Receive(q)
  BY DEF W!Next, W!Send, W!Middleware, W!Forward, W!RefreshRoute, W!Exchanged, W!NotExchanged, W!Login, W!Logout,
         W!Leave, W!AnswerWith, W!GoOn, W!vars
<1> QED
  BY <1>1, <1>2, <1>3

LEMMA WebSafety ==
  ASSUME W!SessionAssumption
  PROVE  W!Spec => []WebInv
<1>1. W!Init => WebInv
  <2> SUFFICES ASSUME W!Init PROVE WebInv
    OBVIOUS
  <2>1. LastDay \in Nat
    BY DEF W!SessionAssumption
  <2>2. call \in [Calls -> WebCall] /\ \A q \in Calls : call[q] = W!Idle
    BY IdleCall DEF W!Init
  <2>3. W!TypeOK
    BY <2>1, <2>2 DEF W!Init, W!TypeOK, WebCall
  <2> QED
    BY <2>2, <2>3, IdleCall DEF W!Init, WebInv, Lasting
<1>2. WebInv /\ [W!Next]_(W!vars) => WebInv'
  BY WebStep
<1> QED
  BY <1>1, <1>2, PTL DEF W!Spec

\* middleware.ts, the proxy and /api/auth/refresh: whatever calls overlap and however
\* long each lifetime, as long as access < cookie <= refresh, somebody who visits in
\* time loses the session only by a logout, by an exchange that failed, or through a
\* page that was asked for without it.
THEOREM ReturningStaysSignedIn ==
  ASSUME W!SessionAssumption
  PROVE  W!Spec => StaysSignedIn
<1>1. WebInv /\ [W!Next]_(W!vars) =>
        [cookie # None /\ cookie' = None =>
           \/ today' > visited + CookieLife - AccessLife
           \/ \E q \in Calls : /\ W!Received(q)
                               /\ call[q].kind = "logout" \/ call[q].session = None \/ call[q].failed]_(W!vars)
  BY CookieGoes
<1> QED
  BY <1>1, WebSafety, PTL DEF W!Spec, StaysSignedIn, W!StaysSignedIn
=============================================================================
