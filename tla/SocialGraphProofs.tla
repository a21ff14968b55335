-------------------------- MODULE SocialGraphProofs --------------------------
(***************************************************************************)
(* Safety of the friendship graph and of registration for any number of    *)
(* users, codes, requests and rows.  What an open request carries was read *)
(* earlier and may be stale; JobsCurrent is the part of it that stays      *)
(* true: rows keep their id and their two users, and codes are kept.       *)
(***************************************************************************)
EXTENDS MCSocialGraph, SequenceTheorems, TLAPS

Current(r) ==
  /\ job[r].op \in {"patch", "unfriend"} =>
       job[r].id \in DOMAIN friends /\ job[r].by \in Pair(job[r].id)
  /\ job[r].op = "patch" /\ job[r].status = "ACCEPTED" =>
       job[r].by = friends[job[r].id].to
  /\ job[r].op \in {"accept", "register"} => invites[job[r].token] # None

JobsCurrent == \A r \in Requests : Current(r)

\* Rows and codes outlive every step, and rows keep their users.
Kept ==
  /\ DOMAIN friends \subseteq DOMAIN friends'
  /\ \A f \in DOMAIN friends : /\ friends'[f].from = friends[f].from
                               /\ friends'[f].to = friends[f].to
  /\ \A t \in Tokens : invites[t] # None => invites'[t] # None

IInv == TypeOK /\ JobsCurrent /\ PairUnique /\ Gated

-----------------------------------------------------------------------------
(* Lemmas on the rows *)

LEMMA JobKinds ==
  ASSUME TypeOK, NEW r \in Requests
  PROVE  /\ job[r].op = "ask" => job[r] \in Ask
         /\ job[r].op = "patch" => job[r] \in Patch
         /\ job[r].op = "unfriend" => job[r] \in Unfriend
         /\ job[r].op = "accept" => job[r] \in Accept
         /\ job[r].op = "register" => job[r] \in Register
  BY DEF TypeOK, Job, Idle, Ask, Patch, Unfriend, Accept, Register

LEMMA RowInserted ==
  ASSUME TypeOK, NEW u \in Users, NEW v \in Users, NEW s \in Status,
         InsertRow(u, v, s)
  PROVE  /\ friends' \in Seq(Row) /\ Len(friends') <= MaxRows
         /\ DOMAIN friends' = DOMAIN friends \cup {Len(friends) + 1}
         /\ \A f \in DOMAIN friends : friends'[f] = friends[f]
         /\ friends'[Len(friends) + 1] = [from |-> u, to |-> v, status |-> s]
         /\ Len(friends) + 1 \notin DOMAIN friends
<1> DEFINE row == [from |-> u, to |-> v, status |-> s]
<1>1. row \in Row
  BY DEF Row
<1>2. friends \in Seq(Row) /\ friends' = Append(friends, row)
  BY DEF TypeOK, InsertRow
<1> HIDE DEF row
<1>3. /\ friends' \in Seq(Row)
      /\ Len(friends') = Len(friends) + 1
      /\ \A f \in 1..Len(friends) : friends'[f] = friends[f]
      /\ friends'[Len(friends) + 1] = row
  BY <1>1, <1>2
<1>4. Len(friends') <= MaxRows
  BY <1>2, <1>3, SocialAssumption DEF InsertRow
<1>5. DOMAIN friends = 1..Len(friends) /\ DOMAIN friends' = 1..(Len(friends) + 1)
  BY <1>2, <1>3
<1>6. Len(friends) \in Nat
  BY <1>2
<1> QED
  BY <1>3, <1>4, <1>5, <1>6 DEF row

LEMMA RowChanged ==
  ASSUME TypeOK, NEW f \in DOMAIN friends, NEW s \in Status \cup {"deleted"},
         friends' = [friends EXCEPT ![f].status = s]
  PROVE  /\ friends' \in Seq(Row) /\ Len(friends') <= MaxRows
         /\ DOMAIN friends' = DOMAIN friends
         /\ \A g \in DOMAIN friends : g # f => friends'[g] = friends[g]
         /\ friends'[f] = [friends[f] EXCEPT !.status = s]
<1> DEFINE row == [friends[f] EXCEPT !.status = s]
<1>1. friends \in Seq(Row) /\ f \in 1..Len(friends)
  BY DEF TypeOK
<1>2. friends[f] \in Row
  BY <1>1, ElementOfSeq
<1>3. row \in Row
  BY <1>2 DEF Row
<1>4. friends' = [friends EXCEPT ![f] = row]
  BY <1>1
<1> HIDE DEF row
<1>5. /\ friends' \in Seq(Row)
      /\ Len(friends') = Len(friends)
      /\ \A j \in 1..Len(friends) : friends'[j] = IF j = f THEN row ELSE friends[j]
  BY <1>1, <1>3, <1>4, ExceptSeq
<1>6. DOMAIN friends = 1..Len(friends) /\ DOMAIN friends' = 1..Len(friends)
  BY <1>1, <1>5
<1> QED
  BY <1>1, <1>5, <1>6 DEF row, TypeOK

\* A new row for a pair that has none leaves every pair with one row at most.
LEMMA InsertKeepsPairs ==
  ASSUME TypeOK, PairUnique,
         NEW u \in Users, NEW v \in Users, NEW s \in Status,
         Between(u, v) = {}, InsertRow(u, v, s)
  PROVE  PairUnique'
<1>1. PICK new :
        /\ DOMAIN friends' = DOMAIN friends \cup {new}
        /\ \A f \in DOMAIN friends : friends'[f] = friends[f]
        /\ friends'[new] = [from |-> u, to |-> v, status |-> s]
        /\ new \notin DOMAIN friends
  BY RowInserted
<1>2. \A f \in DOMAIN friends : Live(f)' = Live(f) /\ Pair(f)' = Pair(f)
  BY <1>1 DEF Live, Pair
<1>3. Pair(new)' = {u, v}
  BY <1>1 DEF Pair
<1>4. \A f \in DOMAIN friends : Live(f) => Pair(f) # {u, v}
  BY DEF Between
<1> QED
  BY <1>1, <1>2, <1>3, <1>4 DEF PairUnique

\* No row becomes live by a change of status of a live row, nor by a deletion.
LEMMA ChangeKeepsPairs ==
  ASSUME TypeOK, PairUnique,
         NEW f \in DOMAIN friends, NEW s \in Status \cup {"deleted"},
         Live(f) \/ s = "deleted",
         friends' = [friends EXCEPT ![f].status = s]
  PROVE  PairUnique'
<1>1. /\ DOMAIN friends' = DOMAIN friends
      /\ \A g \in DOMAIN friends : g # f => friends'[g] = friends[g]
      /\ friends'[f] = [friends[f] EXCEPT !.status = s]
  BY RowChanged
<1>2. friends[f] \in Row
  BY ElementOfSeq DEF TypeOK
<1>3. friends'[f].from = friends[f].from /\ friends'[f].to = friends[f].to /\ friends'[f].status = s
  BY <1>1, <1>2 DEF Row
<1>4. \A g \in DOMAIN friends : (Live(g)' => Live(g)) /\ Pair(g)' = Pair(g)
  BY <1>1, <1>3 DEF Live, Pair
<1> QED
  BY <1>1, <1>4 DEF PairUnique
-----------------------------------------------------------------------------
(* Types, and what outlives a step *)

LEMMA TypeInit == Init => TypeOK
  BY SocialAssumption DEF Init, TypeOK, Job, Idle

\* A request that starts, ends or goes on without writing.
LEMMA JobOnly ==
  ASSUME TypeOK, UNCHANGED <<accounts, friends, invites, referrals>>,
         job' \in [Requests -> Job]
  PROVE  TypeOK' /\ Kept
<1>1. friends' = friends /\ invites' = invites
  OBVIOUS
<1>2. TypeOK'
  BY DEF TypeOK
<1>3. Kept
  BY <1>1 DEF Kept
<1> QED
  BY <1>2, <1>3

LEMMA TypeAccept ==
  ASSUME TypeOK, JobsCurrent, NEW r \in Requests, CommitAccept(r)
  PROVE  TypeOK' /\ Kept
<1> DEFINE t == job[r].token  inviter == invites[t].by  u == job[r].by
<1>1. job[r] \in Accept
  BY JobKinds DEF CommitAccept
<1>2. t \in Tokens /\ u \in Users /\ invites[t] \in Invite /\ inviter \in Users
  BY <1>1 DEF Accept, JobsCurrent, Current, TypeOK, Invite
<1>3. /\ friends' \in Seq(Row) /\ Len(friends') <= MaxRows
      /\ DOMAIN friends \subseteq DOMAIN friends'
      /\ \A f \in DOMAIN friends : friends'[f] = friends[f]
  <2>1. CASE job[r].befriend
    BY <1>2, <2>1, RowInserted DEF CommitAccept, Status
  <2>2. CASE ~job[r].befriend
    BY <2>2 DEF CommitAccept, TypeOK
  <2> QED
    BY <2>1, <2>2
<1>4. /\ invites' \in [Tokens -> Invite \cup {None}]
      /\ \A s \in Tokens : invites[s] # None => invites'[s] # None
  <2>1. [invites[t] EXCEPT !.usedBy = u] \in Invite
    BY <1>2 DEF Invite
  <2>2. CASE job[r].claim
    <3>1. invites' = [invites EXCEPT ![t] = [invites[t] EXCEPT !.usedBy = u]]
      BY <2>2 DEF CommitAccept
    <3> QED
      BY <1>2, <2>1, <3>1, SocialAssumption DEF TypeOK
  <2>3. CASE ~job[r].claim
    BY <2>3 DEF CommitAccept, TypeOK
  <2> QED
    BY <2>2, <2>3
<1>5. referrals' \in [Users \X Users -> Nat]
  BY <1>2 DEF CommitAccept, TypeOK
<1>6. accounts' = accounts /\ job' \in [Requests -> Job]
  BY DEF CommitAccept, Finish, TypeOK, Job
<1> QED
  BY <1>3, <1>4, <1>5, <1>6 DEF TypeOK, Kept

LEMMA TypeRegister ==
  ASSUME TypeOK, JobsCurrent, NEW r \in Requests, CommitRegister(r)
  PROVE  TypeOK' /\ Kept
<1> DEFINE t == job[r].token  inviter == invites[t].by  u == job[r].by
<1>1. job[r] \in Register
  BY JobKinds DEF CommitRegister
<1>2. t \in Tokens /\ u \in Users /\ invites[t] \in Invite /\ inviter \in Users
  BY <1>1 DEF Register, CommitRegister, JobsCurrent, Current, TypeOK, Invite
<1>3. [invites[t] EXCEPT !.usedBy = u] \in Invite
  BY <1>2 DEF Invite
<1>4. invites' = [invites EXCEPT ![t] = [invites[t] EXCEPT !.usedBy = u]]
  BY DEF CommitRegister
<1>5. /\ invites' \in [Tokens -> Invite \cup {None}]
      /\ \A s \in Tokens : invites[s] # None => invites'[s] # None
  BY <1>2, <1>3, <1>4, SocialAssumption DEF TypeOK
<1>6. referrals' \in [Users \X Users -> Nat]
  BY <1>2 DEF CommitRegister, TypeOK
<1>7. accounts' \subseteq Users /\ friends' = friends /\ job' \in [Requests -> Job]
  BY <1>2 DEF CommitRegister, Finish, TypeOK, Job
<1> QED
  BY <1>5, <1>6, <1>7 DEF TypeOK, Kept

LEMMA TypeStep == TypeOK /\ JobsCurrent /\ [Next]_vars => TypeOK' /\ Kept
<1> SUFFICES ASSUME TypeOK, JobsCurrent, [Next]_vars
             PROVE  TypeOK' /\ Kept
  OBVIOUS
<1>1. ASSUME NEW r \in Requests, NEW j \in Job, Start(r, j)
      PROVE  TypeOK' /\ Kept
  BY <1>1, JobOnly DEF Start, TypeOK
<1>2. ASSUME NEW r \in Requests, NEW u \in Users, NEW v \in Users, AskFriend(r, u, v)
      PROVE  TypeOK' /\ Kept
  <2>1. [op |-> "ask", by |-> u, to |-> v] \in Job
    BY DEF Job, Ask
  <2> QED
    BY <1>1, <1>2, <2>1 DEF AskFriend
<1>3. ASSUME NEW r \in Requests, NEW u \in Users, NEW f \in DOMAIN friends, UnfriendUser(r, u, f)
      PROVE  TypeOK' /\ Kept
  <2>1. f \in 1..MaxRows
    BY SocialAssumption DEF TypeOK
  <2>2. [op |-> "unfriend", by |-> u, id |-> f] \in Job
    BY <2>1 DEF Job, Unfriend
  <2> QED
    BY <1>1, <1>3, <2>2 DEF UnfriendUser
<1>4. ASSUME NEW r \in Requests, NEW u \in Users, NEW f \in DOMAIN friends, NEW s \in Status,
             PatchFriendship(r, u, f, s)
      PROVE  TypeOK' /\ Kept
  <2>1. f \in 1..Len(friends) /\ f \in 1..MaxRows
    BY SocialAssumption DEF TypeOK
  <2>2. friends[f] \in Row
    BY <2>1, ElementOfSeq DEF TypeOK
  <2>3. friends[f].status \in Status
    BY <1>4, <2>2 DEF Row, Live, PatchFriendship
  <2>4. [op |-> "patch", by |-> u, id |-> f, was |-> friends[f].status, status |-> s] \in Job
    BY <2>1, <2>3 DEF Job, Patch
  <2> QED
    BY <1>1, <1>4, <2>4 DEF PatchFriendship
<1>5. ASSUME NEW r \in Requests, NEW u \in Users, NEW t \in Tokens, AcceptInvite(r, u, t)
      PROVE  TypeOK' /\ Kept
  <2>1. [op |-> "accept", next |-> "friendship", by |-> u, token |-> t,
         claim |-> (invites[t].usedBy = None), befriend |-> FALSE, refer |-> FALSE] \in Job
    BY DEF Job, Accept
  <2> QED
    BY <1>1, <1>5, <2>1 DEF AcceptInvite
<1>6. ASSUME NEW r \in Requests, NEW u \in Users, NEW t \in Tokens, RegisterUser(r, u, t)
      PROVE  TypeOK' /\ Kept
  <2>1. [op |-> "register", by |-> u, token |-> t] \in Job
    BY DEF Job, Register
  <2> QED
    BY <1>1, <1>6, <2>1 DEF RegisterUser
<1>7. ASSUME NEW r \in Requests, CommitAsk(r)
      PROVE  TypeOK' /\ Kept
  <2>1. job[r] \in Ask
    BY <1>7, JobKinds DEF CommitAsk
  <2>2. /\ friends' \in Seq(Row) /\ Len(friends') <= MaxRows
        /\ DOMAIN friends \subseteq DOMAIN friends'
        /\ \A f \in DOMAIN friends : friends'[f] = friends[f]
    BY <1>7, <2>1, RowInserted DEF CommitAsk, Ask, Status
  <2>3. job' \in [Requests -> Job]
    BY <1>7 DEF CommitAsk, Finish, TypeOK, Job
  <2> QED
    BY <1>7, <2>2, <2>3 DEF CommitAsk, TypeOK, Kept
<1>8. ASSUME NEW r \in Requests, NEW s \in Status \cup {"deleted"},
             job[r].op \in {"patch", "unfriend"},
             friends' = [friends EXCEPT ![job[r].id].status = s]
      PROVE  /\ friends' \in Seq(Row) /\ Len(friends') <= MaxRows
             /\ DOMAIN friends' = DOMAIN friends
             /\ \A f \in DOMAIN friends : /\ friends'[f].from = friends[f].from
                                          /\ friends'[f].to = friends[f].to
  <2> DEFINE f == job[r].id
  <2>1. f \in DOMAIN friends
    BY <1>8 DEF JobsCurrent, Current
  <2>2. friends[f] \in Row
    BY <2>1, ElementOfSeq DEF TypeOK
  <2>3. /\ friends' \in Seq(Row) /\ Len(friends') <= MaxRows
        /\ DOMAIN friends' = DOMAIN friends
        /\ \A g \in DOMAIN friends : g # f => friends'[g] = friends[g]
        /\ friends'[f] = [friends[f] EXCEPT !.status = s]
    BY <1>8, <2>1, RowChanged
  <2> QED
    BY <2>2, <2>3 DEF Row
<1>9. ASSUME NEW r \in Requests, CommitPatch(r)
      PROVE  TypeOK' /\ Kept
  <2>1. job[r] \in Patch /\ job' \in [Requests -> Job]
    BY <1>9, JobKinds DEF CommitPatch, Finish, TypeOK, Job
  <2>2. CASE job[r].status = job[r].was
    BY <1>9, <2>1, <2>2 DEF CommitPatch, TypeOK, Kept
  <2>3. CASE job[r].status # job[r].was
    BY <1>8, <1>9, <2>1, <2>3 DEF CommitPatch, Patch, TypeOK, Kept
  <2> QED
    BY <2>2, <2>3
<1>10. ASSUME NEW r \in Requests, CommitUnfriend(r)
       PROVE  TypeOK' /\ Kept
  <2>1. job' \in [Requests -> Job]
    BY <1>10 DEF CommitUnfriend, Finish, TypeOK, Job
  <2> QED
    BY <1>8, <1>10, <2>1 DEF CommitUnfriend, TypeOK, Kept
<1>11. ASSUME NEW r \in Requests, ReadFriendship(r) \/ ReadReferral(r)
       PROVE  TypeOK' /\ Kept
  <2>1. job[r] \in Accept
    BY <1>11, JobKinds DEF ReadFriendship, ReadReferral
  <2>2. job'[r] \in Accept /\ \A q \in Requests \ {r} : job'[q] = job[q]
    <3>1. CASE ReadFriendship(r)
      <4>1. PICK b \in BOOLEAN :
              job' = [job EXCEPT ![r].next = "referral", ![r].befriend = b]
        BY <3>1 DEF ReadFriendship
      <4> QED
        BY <2>1, <4>1 DEF Accept, TypeOK
    <3>2. CASE ReadReferral(r)
      <4>1. PICK b \in BOOLEAN :
              job' = [job EXCEPT ![r].next = "write", ![r].refer = b]
        BY <3>2 DEF ReadReferral
      <4> QED
        BY <2>1, <4>1 DEF Accept, TypeOK
    <3> QED
      BY <1>11, <3>1, <3>2
  <2>3. job' \in [Requests -> Job]
    BY <1>11, <2>2 DEF ReadFriendship, ReadReferral, TypeOK, Job
  <2> QED
    BY <1>11, <2>3, JobOnly DEF ReadFriendship, ReadReferral
<1>12. ASSUME NEW r \in Requests, Abort(r)
       PROVE  TypeOK' /\ Kept
  <2>1. job' \in [Requests -> Job]
    BY <1>12 DEF Abort, Finish, TypeOK, Job
  <2> QED
    BY <1>12, <2>1, JobOnly DEF Abort
<1>13. ASSUME NEW t \in Tokens, Expire(t)
       PROVE  TypeOK' /\ Kept
  <2>1. invites[t] \in Invite
    BY <1>13 DEF Expire, TypeOK
  <2>2. [invites[t] EXCEPT !.expired = TRUE] \in Invite
    BY <2>1 DEF Invite
  <2>3. invites' = [invites EXCEPT ![t] = [invites[t] EXCEPT !.expired = TRUE]]
    BY <1>13 DEF Expire
  <2> QED
    BY <1>13, <2>2, <2>3, SocialAssumption DEF Expire, TypeOK, Kept
<1>14. ASSUME NEW t \in Tokens, NEW u \in Users, CreateInvite(u, t)
       PROVE  TypeOK' /\ Kept
  <2>1. [by |-> u, usedBy |-> None, expired |-> FALSE] \in Invite
    BY DEF Invite
  <2> QED
    BY <1>14, <2>1, SocialAssumption DEF CreateInvite, TypeOK, Kept
<1>15. CASE UNCHANGED vars
  BY <1>15 DEF vars, TypeOK, Kept
<1> QED
  BY <1>2, <1>3, <1>4, <1>5, <1>6, <1>7, <1>9, <1>10, <1>11, <1>12, <1>13, <1>14, <1>15,
     TypeAccept, TypeRegister
  DEF Next, Rest
-----------------------------------------------------------------------------
(* What an open request knows stays true *)

\* It does for a request the step does not touch,
LEMMA CurrentKept ==
  ASSUME TypeOK, JobsCurrent, Kept, NEW q \in Requests, job'[q] = job[q]
  PROVE  Current(q)'
<1>1. Current(q)
  BY DEF JobsCurrent
<1>2. job[q].op \in {"accept", "register"} => job[q].token \in Tokens
  BY JobKinds DEF Accept, Register
<1> QED
  BY <1>1, <1>2 DEF Current, Kept, Pair

\* and for one that has nothing to do.
LEMMA CurrentIdle ==
  ASSUME NEW q \in Requests, job'[q] = Idle
  PROVE  Current(q)'
  BY DEF Current, Idle

LEMMA CurrentFinish ==
  ASSUME TypeOK, JobsCurrent, Kept, NEW r \in Requests, Finish(r)
  PROVE  JobsCurrent'
<1>1. job'[r] = Idle /\ \A q \in Requests \ {r} : job'[q] = job[q]
  BY DEF Finish, TypeOK
<1> QED
  BY <1>1, CurrentIdle, CurrentKept DEF JobsCurrent

LEMMA CurrentStart ==
  ASSUME TypeOK, JobsCurrent, Kept, NEW r \in Requests, NEW j, Start(r, j),
         job'[r] = j => Current(r)'
  PROVE  JobsCurrent'
<1>1. job'[r] = j /\ \A q \in Requests \ {r} : job'[q] = job[q]
  BY DEF Start, TypeOK
<1> QED
  BY <1>1, CurrentKept DEF JobsCurrent

LEMMA CurrentStep == TypeOK /\ JobsCurrent /\ [Next]_vars => JobsCurrent'
<1> SUFFICES ASSUME TypeOK, JobsCurrent, [Next]_vars
             PROVE  JobsCurrent'
  OBVIOUS
<1>1. Kept
  BY TypeStep
<1>2. ASSUME NEW r \in Requests, NEW u \in Users, NEW v \in Users, AskFriend(r, u, v)
      PROVE  JobsCurrent'
  BY <1>1, <1>2, CurrentStart DEF AskFriend, Current
<1>3. ASSUME NEW r \in Requests, NEW u \in Users, NEW f \in DOMAIN friends, UnfriendUser(r, u, f)
      PROVE  JobsCurrent'
  <2> DEFINE j == [op |-> "unfriend", by |-> u, id |-> f]
  <2>1. Start(r, j) /\ u \in Pair(f) /\ friends' = friends
    BY <1>3 DEF UnfriendUser, Start
  <2>2. job'[r] = j => Current(r)'
    BY <2>1 DEF Current, Pair
  <2> QED
    BY <1>1, <2>1, <2>2, CurrentStart
<1>4. ASSUME NEW r \in Requests, NEW u \in Users, NEW f \in DOMAIN friends, NEW s \in Status,
             PatchFriendship(r, u, f, s)
      PROVE  JobsCurrent'
  <2> DEFINE j == [op |-> "patch", by |-> u, id |-> f, was |-> friends[f].status, status |-> s]
  <2>1. /\ Start(r, j) /\ u \in Pair(f) /\ friends' = friends
        /\ s = "ACCEPTED" => u = friends[f].to
    BY <1>4 DEF PatchFriendship, Start
  <2>2. job'[r] = j => Current(r)'
    BY <2>1 DEF Current, Pair
  <2> QED
    BY <1>1, <2>1, <2>2, CurrentStart
<1>5. ASSUME NEW r \in Requests, NEW u \in Users, NEW t \in Tokens, AcceptInvite(r, u, t)
      PROVE  JobsCurrent'
  <2> DEFINE j == [op |-> "accept", next |-> "friendship", by |-> u, token |-> t,
                   claim |-> (invites[t].usedBy = None), befriend |-> FALSE, refer |-> FALSE]
  <2>1. Start(r, j) /\ invites[t] # None /\ invites' = invites
    BY <1>5 DEF AcceptInvite, Start, Usable
  <2>2. job'[r] = j => Current(r)'
    BY <2>1 DEF Current
  <2> QED
    BY <1>1, <2>1, <2>2, CurrentStart
<1>6. ASSUME NEW r \in Requests, NEW u \in Users, NEW t \in Tokens, RegisterUser(r, u, t)
      PROVE  JobsCurrent'
  <2> DEFINE j == [op |-> "register", by |-> u, token |-> t]
  <2>1. Start(r, j) /\ invites[t] # None /\ invites' = invites
    BY <1>6 DEF RegisterUser, Start, Usable
  <2>2. job'[r] = j => Current(r)'
    BY <2>1 DEF Current
  <2> QED
    BY <1>1, <2>1, <2>2, CurrentStart
<1>7. ASSUME NEW r \in Requests, ReadFriendship(r) \/ ReadReferral(r)
      PROVE  JobsCurrent'
  <2>1. job[r] \in Accept /\ invites[job[r].token] # None /\ invites' = invites
    BY <1>7, JobKinds DEF ReadFriendship, ReadReferral, JobsCurrent, Current
  <2>2. /\ job'[r].op = "accept" /\ job'[r].token = job[r].token
        /\ \A q \in Requests \ {r} : job'[q] = job[q]
    <3>1. CASE ReadFriendship(r)
      <4>1. PICK b \in BOOLEAN :
              job' = [job EXCEPT ![r].next = "referral", ![r].befriend = b]
        BY <3>1 DEF ReadFriendship
      <4> QED
        BY <2>1, <4>1 DEF Accept, TypeOK
    <3>2. CASE ReadReferral(r)
      <4>1. PICK b \in BOOLEAN :
              job' = [job EXCEPT ![r].next = "write", ![r].refer = b]
        BY <3>2 DEF ReadReferral
      <4> QED
        BY <2>1, <4>1 DEF Accept, TypeOK
    <3> QED
      BY <1>7, <3>1, <3>2
  <2>3. Current(r)'
    BY <2>1, <2>2 DEF Current
  <2> QED
    BY <1>1, <2>2, <2>3, CurrentKept DEF JobsCurrent
<1>8. ASSUME NEW r \in Requests, Finish(r)
      PROVE  JobsCurrent'
  BY <1>1, <1>8, CurrentFinish
<1>9. ASSUME job' = job
      PROVE  JobsCurrent'
  BY <1>1, <1>9, CurrentKept DEF JobsCurrent
<1> QED
  BY <1>2, <1>3, <1>4, <1>5, <1>6, <1>7, <1>8, <1>9
  DEF Next, Rest, vars, CommitAsk, CommitPatch, CommitUnfriend, CommitAccept,
      CommitRegister, Abort, Expire, CreateInvite
-----------------------------------------------------------------------------
(* One row for each pair *)

\* The steps that touch the friendship table.
LEMMA FriendsChange ==
  ASSUME [Next]_vars
  PROVE  \/ friends' = friends
         \/ \E r \in Requests :
              CommitAsk(r) \/ CommitPatch(r) \/ CommitUnfriend(r) \/ CommitAccept(r)
<1>1. ASSUME NEW r \in Requests, NEW j, Start(r, j)
      PROVE  friends' = friends
  BY <1>1 DEF Start
<1>2. ASSUME NEW r \in Requests, NEW u \in Users, NEW v \in Users, AskFriend(r, u, v)
      PROVE  friends' = friends
  BY <1>1, <1>2 DEF AskFriend
<1>3. ASSUME NEW r \in Requests, NEW u \in Users, NEW f \in DOMAIN friends,
             UnfriendUser(r, u, f) \/ \E s \in Status : PatchFriendship(r, u, f, s)
      PROVE  friends' = friends
  BY <1>1, <1>3 DEF UnfriendUser, PatchFriendship
<1>4. ASSUME NEW r \in Requests, NEW u \in Users, NEW t \in Tokens,
             AcceptInvite(r, u, t) \/ RegisterUser(r, u, t)
      PROVE  friends' = friends
  BY <1>1, <1>4 DEF AcceptInvite, RegisterUser
<1>5. ASSUME NEW r \in Requests,
             ReadFriendship(r) \/ ReadReferral(r) \/ CommitRegister(r) \/ Abort(r)
      PROVE  friends' = friends
  BY <1>5 DEF ReadFriendship, ReadReferral, CommitRegister, Abort
<1>6. ASSUME NEW t \in Tokens, Expire(t) \/ \E u \in Users : CreateInvite(u, t)
      PROVE  friends' = friends
  BY <1>6 DEF Expire, CreateInvite
<1>7. CASE UNCHANGED vars
  BY <1>7 DEF vars
<1> QED
  BY <1>2, <1>3, <1>4, <1>5, <1>6, <1>7 DEF Next, Rest

LEMMA PairStep ==
  ASSUME TypeOK, JobsCurrent, PairUnique, [Next]_vars
  PROVE  PairUnique'
<1>1. ASSUME friends' = friends
      PROVE  PairUnique'
  BY <1>1 DEF PairUnique, Live, Pair
<1>2. ASSUME NEW r \in Requests, CommitAsk(r)
      PROVE  PairUnique'
  BY <1>2, JobKinds, InsertKeepsPairs DEF CommitAsk, Ask, Status
<1>3. ASSUME NEW r \in Requests, CommitPatch(r)
      PROVE  PairUnique'
  <2>1. job[r].id \in DOMAIN friends /\ job[r].status \in Status /\ Live(job[r].id)
    BY <1>3, JobKinds DEF CommitPatch, JobsCurrent, Current, Patch
  <2>2. CASE job[r].status = job[r].was
    BY <1>1, <1>3, <2>2 DEF CommitPatch
  <2>3. CASE job[r].status # job[r].was
    BY <1>3, <2>1, <2>3, ChangeKeepsPairs DEF CommitPatch
  <2> QED
    BY <2>2, <2>3
<1>4. ASSUME NEW r \in Requests, CommitUnfriend(r)
      PROVE  PairUnique'
  <2>1. job[r].id \in DOMAIN friends
    BY <1>4 DEF CommitUnfriend, JobsCurrent, Current
  <2> QED
    BY <1>4, <2>1, ChangeKeepsPairs DEF CommitUnfriend
<1>5. ASSUME NEW r \in Requests, CommitAccept(r)
      PROVE  PairUnique'
  <2> DEFINE t == job[r].token  inviter == invites[t].by  u == job[r].by
  <2>1. job[r] \in Accept /\ t \in Tokens /\ invites[t] \in Invite
    BY <1>5, JobKinds DEF CommitAccept, JobsCurrent, Current, Accept, TypeOK
  <2>2. u \in Users /\ inviter \in Users
    BY <2>1 DEF Accept, Invite
  <2>3. CASE job[r].befriend
    BY <1>5, <2>2, <2>3, InsertKeepsPairs DEF CommitAccept, Status
  <2>4. CASE ~job[r].befriend
    BY <1>1, <1>5, <2>4 DEF CommitAccept
  <2> QED
    BY <2>3, <2>4
<1>6. \/ friends' = friends
      \/ \E r \in Requests : CommitAsk(r) \/ CommitPatch(r) \/ CommitUnfriend(r) \/ CommitAccept(r)
  BY FriendsChange
<1> QED
  BY <1>1, <1>2, <1>3, <1>4, <1>5, <1>6
-----------------------------------------------------------------------------
(* Accounts have an invitation *)

\* Used codes keep their inviter and stay used, and referrals are never removed.
LEMMA UsedStep ==
  ASSUME TypeOK, JobsCurrent, [Next]_vars
  PROVE  /\ \A t \in Tokens :
              invites[t] # None /\ invites[t].usedBy # None =>
                /\ invites'[t] # None /\ invites'[t].usedBy # None
                /\ invites'[t].by = invites[t].by
         /\ \A p \in Users \X Users : referrals'[p] >= referrals[p]
<1> DEFINE Used == \A t \in Tokens :
                     invites[t] # None /\ invites[t].usedBy # None =>
                       /\ invites'[t] # None /\ invites'[t].usedBy # None
                       /\ invites'[t].by = invites[t].by
           More == \A p \in Users \X Users : referrals'[p] >= referrals[p]
           Recorded(p) == referrals' = [referrals EXCEPT ![p] = @ + 1]
<1> SUFFICES Used /\ More
  OBVIOUS
<1>1. ASSUME invites' = invites, referrals' = referrals
      PROVE  Used /\ More
  BY <1>1 DEF TypeOK
<1>2. ASSUME NEW t \in Tokens, NEW u \in Users, invites[t] # None,
             invites' = [invites EXCEPT ![t].usedBy = u]
      PROVE  Used
  <2>1. invites[t] \in Invite
    BY <1>2 DEF TypeOK
  <2>2. invites' = [invites EXCEPT ![t] = [invites[t] EXCEPT !.usedBy = u]]
    BY <1>2
  <2>3. [invites[t] EXCEPT !.usedBy = u] \in Invite
    BY <2>1 DEF Invite
  <2>4. invites'[t] # None /\ invites'[t].usedBy = u /\ invites'[t].by = invites[t].by
    BY <2>1, <2>2, <2>3, SocialAssumption DEF TypeOK, Invite
  <2>5. \A s \in Tokens \ {t} : invites'[s] = invites[s]
    BY <2>2 DEF TypeOK
  <2> QED
    BY <2>4, <2>5, SocialAssumption
<1>3. ASSUME NEW p \in Users \X Users, Recorded(p)
      PROVE  More
  BY <1>3 DEF TypeOK
<1>4. ASSUME NEW r \in Requests, CommitAccept(r)
      PROVE  Used /\ More
  <2> DEFINE t == job[r].token  inviter == invites[t].by  u == job[r].by
  <2>1. job[r] \in Accept /\ t \in Tokens /\ invites[t] # None /\ invites[t] \in Invite
    BY <1>4, JobKinds DEF CommitAccept, JobsCurrent, Current, Accept, TypeOK
  <2>2. u \in Users /\ inviter \in Users
    BY <2>1 DEF Accept, Invite
  <2>3. Used
    <3>1. CASE job[r].claim
      BY <1>2, <1>4, <2>1, <2>2, <3>1 DEF CommitAccept
    <3>2. CASE ~job[r].claim
      BY <1>4, <3>2 DEF CommitAccept
    <3> QED
      BY <3>1, <3>2
  <2>4. More
    <3>1. CASE job[r].refer
      <4>1. <<inviter, u>> \in Users \X Users
        BY <2>2
      <4>2. Recorded(<<inviter, u>>)
        BY <1>4, <3>1 DEF CommitAccept
      <4> QED
        BY <1>3, <4>1, <4>2
    <3>2. CASE ~job[r].refer
      BY <1>4, <3>2 DEF CommitAccept, TypeOK
    <3> QED
      BY <3>1, <3>2
  <2> QED
    BY <2>3, <2>4
<1>5. ASSUME NEW r \in Requests, CommitRegister(r)
      PROVE  Used /\ More
  <2> DEFINE t == job[r].token  inviter == invites[t].by  u == job[r].by
  <2>1. job[r] \in Register /\ t \in Tokens /\ invites[t] # None /\ invites[t] \in Invite
    BY <1>5, JobKinds DEF CommitRegister, JobsCurrent, Current, Register, TypeOK
  <2>2. u \in Users /\ inviter \in Users
    BY <2>1 DEF Register, Invite
  <2>3. <<inviter, u>> \in Users \X Users
    BY <2>2
  <2>4. Recorded(<<inviter, u>>) /\ invites' = [invites EXCEPT ![t].usedBy = u]
    BY <1>5 DEF CommitRegister
  <2>5. Used
    BY <1>2, <2>1, <2>2, <2>4
  <2> QED
    BY <1>3, <2>3, <2>4, <2>5
<1>6. ASSUME NEW t \in Tokens, Expire(t)
      PROVE  Used /\ More
  <2>1. invites[t] \in Invite
    BY <1>6 DEF Expire, TypeOK
  <2>2. invites' = [invites EXCEPT ![t] = [invites[t] EXCEPT !.expired = TRUE]]
    BY <1>6 DEF Expire
  <2>3. [invites[t] EXCEPT !.expired = TRUE] \in Invite
    BY <2>1 DEF Invite
  <2>4. /\ invites'[t] # None /\ invites'[t].by = invites[t].by
        /\ invites'[t].usedBy = invites[t].usedBy
    BY <2>1, <2>2, <2>3, SocialAssumption DEF TypeOK, Invite
  <2>5. \A s \in Tokens \ {t} : invites'[s] = invites[s]
    BY <2>2 DEF TypeOK
  <2> QED
    BY <1>6, <2>4, <2>5 DEF Expire, TypeOK
<1>7. ASSUME NEW t \in Tokens, NEW u \in Users, CreateInvite(u, t)
      PROVE  Used /\ More
  BY <1>7 DEF CreateInvite, TypeOK
<1> HIDE DEF Used, More
<1>8. ASSUME NEW r \in Requests, NEW j, Start(r, j)
      PROVE  Used /\ More
  BY <1>1, <1>8 DEF Start
<1>9. ASSUME NEW r \in Requests, NEW u \in Users, NEW v \in Users, AskFriend(r, u, v)
      PROVE  Used /\ More
  BY <1>8, <1>9 DEF AskFriend
<1>10. ASSUME NEW r \in Requests, NEW u \in Users, NEW f \in DOMAIN friends,
              UnfriendUser(r, u, f) \/ \E s \in Status : PatchFriendship(r, u, f, s)
       PROVE  Used /\ More
  BY <1>8, <1>10 DEF UnfriendUser, PatchFriendship
<1>11. ASSUME NEW r \in Requests, NEW u \in Users, NEW t \in Tokens,
              AcceptInvite(r, u, t) \/ RegisterUser(r, u, t)
       PROVE  Used /\ More
  BY <1>8, <1>11 DEF AcceptInvite, RegisterUser
<1>12. ASSUME NEW r \in Requests,
              \/ CommitAsk(r) \/ CommitPatch(r) \/ CommitUnfriend(r)
              \/ ReadFriendship(r) \/ ReadReferral(r) \/ Abort(r)
       PROVE  Used /\ More
  BY <1>1, <1>12
  DEF CommitAsk, CommitPatch, CommitUnfriend, ReadFriendship, ReadReferral, Abort
<1>13. CASE UNCHANGED vars
  BY <1>1, <1>13 DEF vars
<1> QED
  BY <1>4, <1>5, <1>6, <1>7, <1>9, <1>10, <1>11, <1>12, <1>13 DEF Next, Rest

\* The steps that create accounts.
LEMMA AccountsChange ==
  ASSUME [Next]_vars
  PROVE  accounts' = accounts \/ \E r \in Requests : CommitRegister(r)
<1>1. ASSUME NEW r \in Requests, NEW j, Start(r, j)
      PROVE  accounts' = accounts
  BY <1>1 DEF Start
<1>2. ASSUME NEW r \in Requests, NEW u \in Users, NEW v \in Users, AskFriend(r, u, v)
      PROVE  accounts' = accounts
  BY <1>1, <1>2 DEF AskFriend
<1>3. ASSUME NEW r \in Requests, NEW u \in Users, NEW f \in DOMAIN friends,
             UnfriendUser(r, u, f) \/ \E s \in Status : PatchFriendship(r, u, f, s)
      PROVE  accounts' = accounts
  BY <1>1, <1>3 DEF UnfriendUser, PatchFriendship
<1>4. ASSUME NEW r \in Requests, NEW u \in Users, NEW t \in Tokens,
             AcceptInvite(r, u, t) \/ RegisterUser(r, u, t)
      PROVE  accounts' = accounts
  BY <1>1, <1>4 DEF AcceptInvite, RegisterUser
<1>5. ASSUME NEW r \in Requests,
             \/ CommitAsk(r) \/ CommitPatch(r) \/ CommitUnfriend(r) \/ CommitAccept(r)
             \/ ReadFriendship(r) \/ ReadReferral(r) \/ Abort(r)
      PROVE  accounts' = accounts
  BY <1>5 DEF CommitAsk, CommitPatch, CommitUnfriend, CommitAccept, ReadFriendship,
              ReadReferral, Abort
<1>6. ASSUME NEW t \in Tokens, Expire(t) \/ \E u \in Users : CreateInvite(u, t)
      PROVE  accounts' = accounts
  BY <1>6 DEF Expire, CreateInvite
<1>7. CASE UNCHANGED vars
  BY <1>7 DEF vars
<1> QED
  BY <1>2, <1>3, <1>4, <1>5, <1>6, <1>7 DEF Next, Rest

LEMMA GatedStep ==
  ASSUME TypeOK, JobsCurrent, Gated, [Next]_vars
  PROVE  Gated'
<1> DEFINE Backed(u, t) == /\ invites[t] # None /\ invites[t].usedBy # None
                           /\ referrals[<<invites[t].by, u>>] >= 1
           Now(u, t) == /\ invites'[t] # None /\ invites'[t].usedBy # None
                        /\ referrals'[<<invites'[t].by, u>>] >= 1
<1>1. ASSUME NEW u \in accounts \ Founders
      PROVE  \E t \in Tokens : Now(u, t)
  <2>1. PICK t \in Tokens : Backed(u, t)
    BY <1>1 DEF Gated
  <2>2. u \in Users /\ invites[t] \in Invite
    BY <1>1, <2>1 DEF TypeOK
  <2>3. <<invites[t].by, u>> \in Users \X Users
    BY <2>2 DEF Invite
  <2>4. TypeOK'
    BY TypeStep
  <2>5. /\ referrals[<<invites[t].by, u>>] \in Nat
        /\ referrals'[<<invites[t].by, u>>] \in Nat
    BY <2>3, <2>4 DEF TypeOK
  <2>6. referrals'[<<invites[t].by, u>>] >= referrals[<<invites[t].by, u>>]
    BY <2>3, UsedStep
  <2>7. /\ invites'[t] # None /\ invites'[t].usedBy # None
        /\ invites'[t].by = invites[t].by
    BY <2>1, UsedStep
  <2> QED
    BY <2>1, <2>5, <2>6, <2>7
<1>2. ASSUME NEW r \in Requests, CommitRegister(r)
      PROVE  \E t \in Tokens : Now(job[r].by, t)
  <2> DEFINE t == job[r].token  inviter == invites[t].by  u == job[r].by
  <2>1. job[r] \in Register /\ t \in Tokens /\ invites[t] \in Invite
    BY <1>2, JobKinds DEF CommitRegister, JobsCurrent, Current, Register, TypeOK
  <2>2. u \in Users /\ inviter \in Users /\ u # None
    BY <2>1, SocialAssumption DEF Register, Invite
  <2>3. invites' = [invites EXCEPT ![t] = [invites[t] EXCEPT !.usedBy = u]]
    BY <1>2 DEF CommitRegister
  <2>4. [invites[t] EXCEPT !.usedBy = u] \in Invite
    BY <2>1, <2>2 DEF Invite
  <2>5. invites'[t] # None /\ invites'[t].usedBy = u /\ invites'[t].by = inviter
    BY <2>1, <2>3, <2>4, SocialAssumption DEF TypeOK, Invite
  <2>6. referrals'[<<inviter, u>>] >= 1
    BY <1>2, <2>2 DEF CommitRegister, TypeOK
  <2> QED
    BY <2>1, <2>2, <2>5, <2>6
<1>3. accounts' = accounts
      \/ \E r \in Requests : CommitRegister(r) /\ accounts' = accounts \cup {job[r].by}
  BY AccountsChange DEF CommitRegister
<1> QED
  BY <1>1, <1>2, <1>3 DEF Gated
-----------------------------------------------------------------------------
(* Who may change a relation *)

\* A committing PATCH or DELETE changes no row but its own.
LEMMA OnlyOwnRow ==
  ASSUME TypeOK, JobsCurrent, NEW r \in Requests, CommitPatch(r) \/ CommitUnfriend(r)
  PROVE  /\ job[r].id \in DOMAIN friends /\ job[r].by \in Pair(job[r].id)
         /\ job[r].op \in {"patch", "unfriend"}
         /\ DOMAIN friends' = DOMAIN friends
         /\ \A f \in DOMAIN friends : friends'[f] # friends[f] => f = job[r].id
<1> DEFINE id == job[r].id
<1>1. /\ id \in DOMAIN friends /\ job[r].by \in Pair(id)
      /\ job[r].op \in {"patch", "unfriend"}
  BY DEF CommitPatch, CommitUnfriend, JobsCurrent, Current
<1>2. \/ friends' = friends
      \/ \E s \in Status \cup {"deleted"} : friends' = [friends EXCEPT ![id].status = s]
  BY JobKinds DEF CommitPatch, CommitUnfriend, Patch
<1>3. ASSUME NEW s \in Status \cup {"deleted"}, friends' = [friends EXCEPT ![id].status = s]
      PROVE  /\ DOMAIN friends' = DOMAIN friends
             /\ \A f \in DOMAIN friends : f # id => friends'[f] = friends[f]
  BY <1>1, <1>3, RowChanged
<1> QED
  BY <1>1, <1>2, <1>3

\* An insertion leaves the rows that are there alone.
LEMMA InsertKeepsRows ==
  ASSUME TypeOK, JobsCurrent, NEW r \in Requests, CommitAsk(r) \/ CommitAccept(r)
  PROVE  \A f \in DOMAIN friends : friends'[f] = friends[f]
<1>1. CASE CommitAsk(r)
  BY <1>1, JobKinds, RowInserted DEF CommitAsk, Ask, Status
<1>2. CASE CommitAccept(r)
  <2> DEFINE t == job[r].token  inviter == invites[t].by  u == job[r].by
  <2>1. job[r] \in Accept /\ t \in Tokens /\ invites[t] \in Invite
    BY <1>2, JobKinds DEF CommitAccept, JobsCurrent, Current, Accept, TypeOK
  <2>2. u \in Users /\ inviter \in Users
    BY <2>1 DEF Accept, Invite
  <2> QED
    BY <1>2, <2>2, RowInserted DEF CommitAccept, Status
<1> QED
  BY <1>1, <1>2

LEMMA PreserveStep ==
  ASSUME TypeOK, JobsCurrent, [Next]_vars
  PROVE  \A f \in DOMAIN friends :
           friends'[f] # friends[f]
             => \E r \in Requests : /\ job[r].op \in {"patch", "unfriend"}
                                    /\ job[r].id = f /\ job[r].by \in Pair(f)
<1> SUFFICES ASSUME NEW f \in DOMAIN friends, friends'[f] # friends[f]
             PROVE  \E r \in Requests : /\ job[r].op \in {"patch", "unfriend"}
                                        /\ job[r].id = f /\ job[r].by \in Pair(f)
  OBVIOUS
<1>1. PICK r \in Requests : CommitPatch(r) \/ CommitUnfriend(r)
  BY FriendsChange, InsertKeepsRows
<1> QED
  BY <1>1, OnlyOwnRow

LEMMA AcceptStep ==
  ASSUME TypeOK, JobsCurrent, [Next]_vars
  PROVE  \A f \in DOMAIN friends' :
           friends'[f].status = "ACCEPTED" /\ ~(Live(f) /\ friends[f].status = "ACCEPTED")
             => \E r \in Requests : /\ job[r].op \in {"patch", "accept"}
                                    /\ job[r].by = friends'[f].to
<1> SUFFICES ASSUME NEW f \in DOMAIN friends', friends'[f].status = "ACCEPTED",
                    ~(Live(f) /\ friends[f].status = "ACCEPTED")
             PROVE  \E r \in Requests : /\ job[r].op \in {"patch", "accept"}
                                        /\ job[r].by = friends'[f].to
  OBVIOUS
<1>1. friends' # friends
  BY DEF Live
<1>2. ASSUME NEW r \in Requests, CommitAsk(r)
      PROVE  FALSE
  <2>1. /\ DOMAIN friends' = DOMAIN friends \cup {Len(friends) + 1}
        /\ \A g \in DOMAIN friends : friends'[g] = friends[g]
        /\ friends'[Len(friends) + 1].status = "PENDING"
    <3>1. job[r].by \in Users /\ job[r].to \in Users /\ "PENDING" \in Status
      BY <1>2, JobKinds DEF CommitAsk, Ask, Status
    <3>2. InsertRow(job[r].by, job[r].to, "PENDING")
      BY <1>2 DEF CommitAsk
    <3>3. PICK n :
            /\ DOMAIN friends' = DOMAIN friends \cup {n} /\ n = Len(friends) + 1
            /\ \A g \in DOMAIN friends : friends'[g] = friends[g]
            /\ friends'[n] = [from |-> job[r].by, to |-> job[r].to, status |-> "PENDING"]
      BY <3>1, <3>2, RowInserted
    <3>4. friends'[n].status = "PENDING"
      BY <3>3
    <3> QED
      BY <3>3, <3>4
  <2> QED
    BY <2>1 DEF Live
<1>3. ASSUME NEW r \in Requests, CommitAccept(r)
      PROVE  job[r].op = "accept" /\ job[r].by = friends'[f].to
  <2> DEFINE t == job[r].token  inviter == invites[t].by  u == job[r].by
  <2>1. job[r] \in Accept /\ t \in Tokens /\ invites[t] \in Invite
    BY <1>3, JobKinds DEF CommitAccept, JobsCurrent, Current, Accept, TypeOK
  <2>2. u \in Users /\ inviter \in Users
    BY <2>1 DEF Accept, Invite
  <2>3. /\ DOMAIN friends' = DOMAIN friends \cup {Len(friends) + 1}
        /\ \A g \in DOMAIN friends : friends'[g] = friends[g]
        /\ friends'[Len(friends) + 1].to = u
    <3>1. InsertRow(inviter, u, "ACCEPTED") /\ "ACCEPTED" \in Status
      BY <1>1, <1>3 DEF CommitAccept, Status
    <3> HIDE DEF inviter, u
    <3>2. PICK n :
            /\ DOMAIN friends' = DOMAIN friends \cup {n} /\ n = Len(friends) + 1
            /\ \A g \in DOMAIN friends : friends'[g] = friends[g]
            /\ friends'[n] = [from |-> inviter, to |-> u, status |-> "ACCEPTED"]
      BY <2>2, <3>1, RowInserted
    <3>3. friends'[n].to = u
      BY <3>2
    <3> QED
      BY <3>2, <3>3
  <2> QED
    BY <1>3, <2>3 DEF Live, CommitAccept
<1>4. ASSUME NEW r \in Requests, CommitPatch(r)
      PROVE  job[r].op = "patch" /\ job[r].by = friends'[f].to
  <2> DEFINE id == job[r].id
  <2>1. id \in DOMAIN friends /\ job[r].status \in Status /\ DOMAIN friends' = DOMAIN friends
    BY <1>4, JobKinds, OnlyOwnRow DEF CommitPatch, Patch
  <2>2. friends' = [friends EXCEPT ![id].status = job[r].status]
    BY <1>1, <1>4 DEF CommitPatch
  <2>3. friends[id] \in Row
    BY <2>1, ElementOfSeq DEF TypeOK
  <2>4. /\ \A g \in DOMAIN friends : g # id => friends'[g] = friends[g]
        /\ friends'[id] = [friends[id] EXCEPT !.status = job[r].status]
    BY <2>1, <2>2, RowChanged
  <2>5. friends'[id].status = job[r].status /\ friends'[id].to = friends[id].to
    BY <2>3, <2>4 DEF Row
  <2>6. f = id
    BY <2>1, <2>4 DEF Live
  <2> QED
    BY <1>4, <2>5, <2>6 DEF CommitPatch, JobsCurrent, Current
<1>5. ASSUME NEW r \in Requests, CommitUnfriend(r)
      PROVE  FALSE
  <2> DEFINE id == job[r].id
  <2>1. id \in DOMAIN friends /\ DOMAIN friends' = DOMAIN friends
    BY <1>5, OnlyOwnRow
  <2>2. friends[id] \in Row
    BY <2>1, ElementOfSeq DEF TypeOK
  <2>3. /\ \A g \in DOMAIN friends : g # id => friends'[g] = friends[g]
        /\ friends'[id] = [friends[id] EXCEPT !.status = "deleted"]
    BY <1>5, <2>1, RowChanged DEF CommitUnfriend
  <2>4. friends'[id].status = "deleted"
    BY <2>2, <2>3 DEF Row
  <2> QED
    BY <2>1, <2>3, <2>4 DEF Live
<1> QED
  BY <1>1, <1>2, <1>3, <1>4, <1>5, FriendsChange
-----------------------------------------------------------------------------
(* Theorems *)

LEMMA InductiveInvariant == Spec => []IInv
<1>1. Init => IInv
  <2> SUFFICES ASSUME Init
               PROVE  IInv
    OBVIOUS
  <2>1. JobsCurrent
    BY DEF Init, Idle, JobsCurrent, Current
  <2>2. PairUnique
    BY DEF Init, PairUnique
  <2>3. Gated
    BY DEF Init, Gated
  <2> QED
    BY <2>1, <2>2, <2>3, TypeInit DEF IInv
<1>2. IInv /\ [Next]_vars => IInv'
  BY TypeStep, CurrentStep, PairStep, GatedStep DEF IInv
<1> QED
  BY <1>1, <1>2, PTL DEF Spec

\* Type correctness of the tables and of what the requests carry.
THEOREM TypeCorrect == Spec => []TypeOK
<1>1. IInv => TypeOK
  BY DEF IInv
<1> QED
  BY <1>1, InductiveInvariant, PTL

\* Two users never have two live friendship rows, for any number of users
\* asking, accepting and unfriending at the same time.
THEOREM PairsAreUnique == Spec => []PairUnique
<1>1. IInv => PairUnique
  BY DEF IInv
<1> QED
  BY <1>1, InductiveInvariant, PTL

\* Every account that is not a founder's has a used invite code and a referral
\* by its inviter behind it, even when registrations race for one code.
THEOREM AccountsAreGated == Spec => []Gated
<1>1. IInv => Gated
  BY DEF IInv
<1> QED
  BY <1>1, InductiveInvariant, PTL

\* Nobody but the addressee makes a friendship accepted, even though the check
\* is made on a row that is read long before it is written.
THEOREM AddresseeAccepts == Spec => OnlyAddresseeAccepts
<1>1. IInv /\ [Next]_vars =>
        [\A f \in DOMAIN friends' :
           friends'[f].status = "ACCEPTED" /\ ~(Live(f) /\ friends[f].status = "ACCEPTED")
             => \E r \in Requests : /\ job[r].op \in {"patch", "accept"}
                                    /\ job[r].by = friends'[f].to]_vars
  BY AcceptStep DEF IInv
<1> QED
  BY <1>1, InductiveInvariant, PTL DEF Spec, OnlyAddresseeAccepts

\* An existing relation is changed only by a PATCH or DELETE of one of its two
\* users, never by a second request or an accepted invitation.
THEOREM RelationsArePreserved == Spec => RelationPreserved
<1>1. IInv /\ [Next]_vars =>
        [\A f \in DOMAIN friends :
           friends'[f] # friends[f]
             => \E r \in Requests : /\ job[r].op \in {"patch", "unfriend"}
                                    /\ job[r].id = f /\ job[r].by \in Pair(f)]_vars
  BY PreserveStep DEF IInv
<1> QED
  BY <1>1, InductiveInvariant, PTL DEF Spec, RelationPreserved

-----------------------------------------------------------------------------
(***************************************************************************)
(* Pick rooms.  Founded says what of a close that is under way stays true  *)
(* although votes come in between: the leaders of the moment have led the  *)
(* ballot, and so has the winner that is about to be declared.             *)
(***************************************************************************)

SoundPick(j) ==
  /\ j.op \in {"vote", "close"} => j.room \in Rooms /\ rooms[j.room] # None
  /\ j.op = "close" =>
       /\ R!Leaders(votes, j.room, rooms[j.room].candidates) \subseteq led[j.room]
       /\ j.was # None => rooms[j.room].winner # None
  /\ j.op = "close" /\ j.next = "write" =>
       j.winner \in led[j.room] \cap rooms[j.room].candidates

Founded == \A r \in Requests : SoundPick(picking[r])

PickInv == R!TypeOK /\ Founded /\ R!WinnerHasLed

-----------------------------------------------------------------------------
(* Lemmas *)

Ballot  == [op : {"vote"}, room : Rooms, voter : Voters, title : Titles, mark : R!Marks,
            found : BOOLEAN, next : {"existing", "write"}]
Tallies == [op : {"close"}, room : Rooms, was : Titles \cup {None}, winner : {None}, next : {"tally"}]
Closes  == [op : {"close"}, room : Rooms, was : Titles \cup {None}, winner : Titles, next : {"write"}]

LEMMA PickKinds ==
  ASSUME R!TypeOK, NEW r \in Requests
  PROVE  /\ picking[r] \in R!Job
         /\ picking[r].op = "vote" => picking[r] \in Ballot
         /\ picking[r].op = "close" /\ picking[r].next = "tally" => picking[r] \in Tallies
         /\ picking[r].op = "close" /\ picking[r].next = "write" => picking[r] \in Closes
         /\ picking[r].op = "close" => picking[r].next \in {"tally", "write"} /\ picking[r].room \in Rooms
                                   /\ picking[r].was \in Titles \cup {None}
  BY DEF R!TypeOK, R!Job, R!Idle, Ballot, Tallies, Closes

LEMMA NoneElsewhere == None \notin Titles \cup R!Room
  BY PickHolds DEF R!PickAssumption

LEMMA LeadersAre ==
  ASSUME NEW v, NEW k, NEW c PROVE R!Leaders(v, k, c) \subseteq c
  BY DEF R!Leaders

\* A step that only changes what one request has read.
LEMMA PickOnly ==
  ASSUME PickInv, NEW r \in Requests, NEW j \in R!Job, SoundPick(j),
         picking' = [picking EXCEPT ![r] = j], UNCHANGED <<rooms, votes, led>>
  PROVE  PickInv'
<1>1. picking' \in [Requests -> R!Job] /\ picking'[r] = j /\ \A q \in Requests \ {r} : picking'[q] = picking[q]
  BY DEF PickInv, R!TypeOK
<1>2. R!TypeOK' /\ R!WinnerHasLed'
  BY <1>1 DEF PickInv, R!TypeOK, R!WinnerHasLed
<1>3. Founded'
  BY <1>1 DEF PickInv, Founded, SoundPick
<1> QED
  BY <1>2, <1>3 DEF PickInv

LEMMA PickIdle == R!Idle \in R!Job /\ SoundPick(R!Idle)
  BY DEF R!Idle, R!Job, SoundPick
-----------------------------------------------------------------------------
(* Each step *)

LEMMA PickInit == ASSUME R!Init PROVE PickInv
  BY DEF R!Init, PickInv, R!TypeOK, Founded, SoundPick, R!WinnerHasLed, R!Idle, R!Job

LEMMA PickStep == ASSUME PickInv, [R!Next]_(R!vars) PROVE PickInv'
<1> USE DEF PickInv
<1>1. ASSUME NEW k \in Rooms, R!Expire(k) PROVE PickInv'
  <2>1. rooms[k] \in R!Room /\ rooms[k] # None /\ UNCHANGED <<votes, led, picking>>
    BY <1>1 DEF R!Expire, R!TypeOK
  <2> DEFINE row == [rooms[k] EXCEPT !.expired = TRUE]
  <2>2. /\ row \in R!Room /\ row # None /\ row.status = rooms[k].status
        /\ row.candidates = rooms[k].candidates /\ row.winner = rooms[k].winner
    BY <2>1, NoneElsewhere DEF R!Room
  <2>3. rooms' = [rooms EXCEPT ![k] = row]
    BY <1>1 DEF R!Expire
  <2> HIDE DEF row
  <2>4. R!TypeOK' /\ R!WinnerHasLed'
    BY <2>1, <2>2, <2>3 DEF R!TypeOK, R!WinnerHasLed
  <2>5. Founded'
    BY <2>1, <2>2, <2>3 DEF R!TypeOK, Founded, SoundPick
  <2> QED
    BY <2>4, <2>5
<1>2. ASSUME NEW k \in Rooms, NEW candidates \in SUBSET Titles, R!CreateRoom(k, candidates) PROVE PickInv'
  <2>1. rooms[k] = None /\ UNCHANGED <<votes, led, picking>>
    BY <1>2 DEF R!CreateRoom
  <2> DEFINE row == [status |-> "OPEN", expired |-> FALSE, candidates |-> candidates, winner |-> None]
  <2>2. row \in R!Room /\ row # None /\ row.status = "OPEN" /\ row.winner = None
    <3>1. row \in R!Room
      BY DEF R!Room
    <3> QED
      BY <3>1, NoneElsewhere
  <2>3. rooms' = [rooms EXCEPT ![k] = row]
    BY <1>2 DEF R!CreateRoom
  <2> HIDE DEF row
  <2>4. R!TypeOK' /\ R!WinnerHasLed'
    BY <2>1, <2>2, <2>3 DEF R!TypeOK, R!WinnerHasLed
  <2>5. \A r \in Requests : picking[r].op \in {"vote", "close"} => picking[r].room # k
    BY <2>1 DEF Founded, SoundPick
  <2>6. Founded'
    BY <2>1, <2>3, <2>5 DEF R!TypeOK, Founded, SoundPick
  <2> QED
    BY <2>4, <2>6
<1>3. ASSUME NEW r \in Requests, NEW k \in Rooms, R!Close(r, k) PROVE PickInv'
  <2> DEFINE j == [op |-> "close", room |-> k, was |-> rooms[k].winner, winner |-> None, next |-> "tally"]
             top == R!Leaders(votes, k, rooms[k].candidates)
  <2>1. /\ rooms[k] \in R!Room /\ rooms[k] # None /\ UNCHANGED <<rooms, votes>>
        /\ picking' = [picking EXCEPT ![r] = j] /\ led' = [led EXCEPT ![k] = @ \cup top]
    BY <1>3 DEF R!Close, R!Start, R!TypeOK
  <2>2. j \in R!Job
    BY <2>1 DEF R!Job, R!Room
  <2>3. top \subseteq Titles
    BY <2>1, LeadersAre DEF R!Room
  <2>4. R!TypeOK'
    BY <2>1, <2>2, <2>3 DEF R!TypeOK
  <2>5. /\ \A c \in Rooms : led[c] \subseteq led'[c]
        /\ top \subseteq led'[k]
    BY <2>1, <2>3 DEF R!TypeOK
  <2>6. R!WinnerHasLed'
    BY <2>1, <2>5 DEF R!TypeOK, R!WinnerHasLed
  <2>7. SoundPick(picking[r])'
    <3>1. picking'[r] = j
      BY <2>1 DEF R!TypeOK
    <3> QED
      BY <2>1, <2>5, <3>1 DEF SoundPick
  <2> HIDE DEF j
  <2>8. picking'[r] = j /\ \A q \in Requests \ {r} : picking'[q] = picking[q]
    BY <2>1 DEF R!TypeOK
  <2>9. ASSUME NEW q \in Requests \ {r} PROVE SoundPick(picking[q])'
    <3>1. SoundPick(picking[q]) /\ picking'[q] = picking[q]
      BY <2>8 DEF Founded
    <3>2. picking[q].op = "close" => led[picking[q].room] \subseteq led'[picking[q].room]
      BY <2>5, <3>1 DEF SoundPick
    <3> QED
      BY <2>1, <3>1, <3>2 DEF SoundPick
  <2>10. Founded'
    <3>1. ASSUME NEW q \in Requests, q # r PROVE SoundPick(picking[q])'
      BY <2>9, <3>1
    <3> QED
      BY <2>7, <3>1 DEF Founded
  <2> QED
    BY <2>4, <2>6, <2>10
<1>4. ASSUME NEW r \in Requests, NEW k \in Rooms, NEW f \in Voters, NEW t \in Titles, NEW m \in R!Marks,
             R!Vote(r, k, f, t, m)
      PROVE  PickInv'
  <2> DEFINE j == [op |-> "vote", room |-> k, voter |-> f, title |-> t, mark |-> m,
                   found |-> FALSE, next |-> "existing"]
  <2>1. j \in R!Job
    BY DEF R!Job
  <2>2. SoundPick(j) /\ picking' = [picking EXCEPT ![r] = j] /\ UNCHANGED <<rooms, votes, led>>
    BY <1>4 DEF R!Vote, R!Start, SoundPick
  <2> HIDE DEF j
  <2> QED
    BY <2>1, <2>2, PickOnly
<1>5. ASSUME NEW r \in Requests, R!ReadVote(r) PROVE PickInv'
  <2> DEFINE found == votes[<<picking[r].room, picking[r].voter, picking[r].title>>] # None
             j == [picking[r] EXCEPT !.next = "write", !.found = found]
  <2>1. picking[r] \in Ballot /\ UNCHANGED <<rooms, votes, led>>
    BY <1>5, PickKinds DEF R!ReadVote
  <2>2. picking' = [picking EXCEPT ![r] = j]
    BY <1>5 DEF R!ReadVote
  <2>3. found \in BOOLEAN
    OBVIOUS
  <2> HIDE DEF found
  <2>4. j \in Ballot /\ j.room = picking[r].room /\ j.op = "vote"
    BY <2>1, <2>3 DEF Ballot
  <2>5. j \in R!Job
    BY <2>4 DEF Ballot, R!Job
  <2> HIDE DEF j
  <2>6. SoundPick(j)
    BY <2>1, <2>4 DEF Founded, SoundPick, Ballot
  <2> QED
    BY <2>1, <2>2, <2>5, <2>6, PickOnly
<1>6. ASSUME NEW r \in Requests, R!CommitVote(r) PROVE PickInv'
  <2> DEFINE k == picking[r].room
             p == <<k, picking[r].voter, picking[r].title>>
             closing == \E q \in Requests : picking[q].op = "close" /\ picking[q].room = k
             top == R!Leaders(votes', k, rooms[k].candidates)
  <2>1. picking[r] \in Ballot /\ k \in Rooms /\ rooms[k] # None
    BY <1>6, PickKinds DEF R!CommitVote, Founded, SoundPick
  <2>2. /\ votes' = [votes EXCEPT ![p] = picking[r].mark] /\ UNCHANGED rooms
        /\ picking' = [picking EXCEPT ![r] = R!Idle]
        /\ led' = IF closing THEN [led EXCEPT ![k] = @ \cup top] ELSE led
    BY <1>6 DEF R!CommitVote, R!Finish
  <2>3. top \subseteq Titles
    BY <2>1, LeadersAre DEF R!TypeOK, R!Room
  <2>4. votes' \in [Rooms \X Voters \X Titles -> R!Marks \cup {None}]
    BY <2>1, <2>2 DEF R!TypeOK, Ballot
  <2>5. \A c \in Rooms \ {k} : rooms[c] # None =>
          R!Leaders(votes', c, rooms[c].candidates) = R!Leaders(votes, c, rooms[c].candidates)
    <3>1. \A c \in Rooms \ {k}, f \in Voters, t \in Titles : votes'[<<c, f, t>>] = votes[<<c, f, t>>]
      BY <2>1, <2>2 DEF R!TypeOK, Ballot
    <3>2. \A c \in Rooms \ {k}, t \in Titles : R!Upvotes(votes', c, t) = R!Upvotes(votes, c, t)
      BY <3>1 DEF R!Upvotes
    <3>3. ASSUME NEW c \in Rooms \ {k}, rooms[c] # None
          PROVE  R!Leaders(votes', c, rooms[c].candidates) = R!Leaders(votes, c, rooms[c].candidates)
      BY <3>2, <3>3 DEF R!Leaders, R!TypeOK, R!Room
    <3> QED
      BY <3>3
  <2> HIDE DEF p, top
  <2>6. R!TypeOK'
    BY <2>1, <2>2, <2>3, <2>4, PickIdle DEF R!TypeOK
  <2>7. /\ \A c \in Rooms : led[c] \subseteq led'[c]
        /\ closing => top \subseteq led'[k]
    BY <2>1, <2>2 DEF R!TypeOK
  <2>8. R!WinnerHasLed'
    BY <2>2, <2>7 DEF R!TypeOK, R!WinnerHasLed
  <2>9. ASSUME NEW q \in Requests, q # r PROVE SoundPick(picking[q])'
    <3>1. picking'[q] = picking[q] /\ SoundPick(picking[q])
      BY <2>2, <2>9 DEF R!TypeOK, Founded
    <3>2. ASSUME picking[q].op = "close"
          PROVE  R!Leaders(votes', picking[q].room, rooms[picking[q].room].candidates) \subseteq led'[picking[q].room]
      BY <2>5, <2>7, <3>1, <3>2 DEF SoundPick, top
    <3> HIDE DEF closing
    <3> QED
      BY <2>2, <2>7, <3>1, <3>2 DEF SoundPick
  <2>10. SoundPick(picking[r])'
    BY <2>2, PickIdle DEF R!TypeOK, SoundPick, R!Idle
  <2> QED
    BY <2>6, <2>8, <2>9, <2>10 DEF Founded
<1>7. ASSUME NEW r \in Requests, R!TallyVotes(r) PROVE PickInv'
  <2> DEFINE k == picking[r].room
  <2>1. picking[r] \in Tallies /\ SoundPick(picking[r]) /\ rooms[k] \in R!Room /\ UNCHANGED <<rooms, votes, led>>
    BY <1>7, PickKinds DEF R!TallyVotes, Founded, SoundPick, R!TypeOK, Tallies
  <2>2. PICK t \in R!Leaders(votes, k, rooms[k].candidates) :
          picking' = [picking EXCEPT ![r].winner = t, ![r].next = "write"]
    BY <1>7 DEF R!TallyVotes
  <2>3. t \in rooms[k].candidates /\ t \in Titles /\ t \in led[k]
    BY <2>1, <2>2, LeadersAre DEF R!Room, SoundPick, Tallies
  <2> DEFINE j == [picking[r] EXCEPT !.winner = t, !.next = "write"]
  <2>4. j \in Closes /\ j.room = k /\ j.was = picking[r].was /\ j.winner = t
    BY <2>1, <2>3 DEF Tallies, Closes
  <2>5. j \in R!Job
    BY <2>4 DEF Closes, R!Job
  <2>6. picking' = [picking EXCEPT ![r] = j]
    BY <2>2
  <2> HIDE DEF j
  <2>7. SoundPick(j)
    BY <2>1, <2>3, <2>4 DEF SoundPick, Tallies, Closes
  <2> QED
    BY <2>1, <2>5, <2>6, <2>7, PickOnly
<1>8. ASSUME NEW r \in Requests, R!CommitClose(r) PROVE PickInv'
  <2> DEFINE k == picking[r].room
             won == IF picking[r].winner = picking[r].was THEN rooms[k].winner ELSE picking[r].winner
             row == [rooms[k] EXCEPT !.status = "RESOLVED", !.winner = won]
  <2>1. picking[r] \in Closes /\ SoundPick(picking[r]) /\ k \in Rooms /\ rooms[k] \in R!Room /\ rooms[k] # None
    BY <1>8, PickKinds DEF R!CommitClose, Founded, SoundPick, R!TypeOK, Closes
  <2>2. UNCHANGED <<votes, led>> /\ picking' = [picking EXCEPT ![r] = R!Idle] /\ rooms' = [rooms EXCEPT ![k] = row]
    BY <1>8 DEF R!CommitClose, R!Finish
  <2>3. won \in led[k] \cap rooms[k].candidates /\ won \in Titles
    BY <2>1, NoneElsewhere DEF Closes, SoundPick, R!WinnerHasLed, R!Room
  <2> HIDE DEF won
  <2>4. /\ row \in R!Room /\ row # None /\ row.status = "RESOLVED" /\ row.winner = won /\ won # None
        /\ row.candidates = rooms[k].candidates
    BY <2>1, <2>3, NoneElsewhere DEF R!Room
  <2> HIDE DEF row, k
  <2>5. R!TypeOK'
    BY <2>1, <2>2, <2>4, PickIdle DEF R!TypeOK
  <2>6. R!WinnerHasLed'
    BY <2>1, <2>2, <2>3, <2>4 DEF R!TypeOK, R!WinnerHasLed
  <2>7. Founded'
    <3>1. ASSUME NEW q \in Requests, q # r PROVE SoundPick(picking[q])'
      BY <2>1, <2>2, <2>4, <3>1 DEF R!TypeOK, Founded, SoundPick
    <3>2. SoundPick(picking[r])'
      BY <2>2 DEF R!TypeOK, SoundPick, R!Idle
    <3> QED
      BY <3>1, <3>2 DEF Founded
  <2> QED
    BY <2>5, <2>6, <2>7
<1>9. ASSUME NEW r \in Requests, R!Abort(r) PROVE PickInv'
  BY <1>9, PickIdle, PickOnly DEF R!Abort, R!Finish
<1>10. ASSUME UNCHANGED R!vars PROVE PickInv'
  BY <1>10 DEF R!vars, R!TypeOK, Founded, SoundPick, R!WinnerHasLed
<1> QED
  BY <1>1, <1>2, <1>3, <1>4, <1>5, <1>6, <1>7, <1>8, <1>9, <1>10 DEF R!Next

LEMMA PicksSafe == R!Spec => []PickInv
  BY PickInit, PickStep, PTL DEF R!Spec

LEMMA SettledStep ==
  ASSUME PickInv, [R!Next]_(R!vars), NEW k \in Rooms, R!Settled(k)
  PROVE  /\ R!Settled(k)'
         /\ \A f \in Voters, t \in Titles : votes'[<<k, f, t>>] = votes[<<k, f, t>>]
<1> USE DEF PickInv
<1> DEFINE Locked == /\ R!Settled(k)'
                   /\ \A f \in Voters, t \in Titles : votes'[<<k, f, t>>] = votes[<<k, f, t>>]
<1>0. rooms[k] \in R!Room /\ k \in Rooms
  BY DEF R!Settled, R!TypeOK
<1>1. ASSUME NEW c \in Rooms, R!Expire(c) PROVE Locked
  <2>1. rooms'[k] # None /\ rooms'[k].status = "RESOLVED"
    BY <1>0, <1>1, NoneElsewhere, PickStep DEF R!Expire, R!Settled, R!TypeOK, R!Room
  <2> QED
    BY <1>1, <2>1 DEF R!Expire, R!Settled
<1>2. ASSUME NEW c \in Rooms, NEW candidates \in SUBSET Titles, R!CreateRoom(c, candidates) PROVE Locked
  BY <1>2 DEF R!CreateRoom, R!Settled, R!TypeOK
<1>3. ASSUME NEW r \in Requests, NEW c \in Rooms, R!Close(r, c) PROVE Locked
  BY <1>3 DEF R!Close, R!Start, R!Settled, R!TypeOK
<1>4. ASSUME NEW r \in Requests, NEW c \in Rooms, NEW f \in Voters, NEW t \in Titles, NEW m \in R!Marks,
             R!Vote(r, c, f, t, m)
      PROVE  Locked
  <2>1. c # k
    BY <1>4 DEF R!Vote, R!Settled
  <2> QED
    BY <1>4, <2>1 DEF R!Vote, R!Start, R!Settled, R!TypeOK
<1>5. ASSUME NEW r \in Requests, R!ReadVote(r) PROVE Locked
  <2>1. picking[r] \in Ballot /\ picking[r].room # k
    BY <1>5, PickKinds DEF R!ReadVote, R!Settled
  <2>2. picking'[r].room # k /\ \A q \in Requests \ {r} : picking'[q] = picking[q]
    BY <1>5, <2>1 DEF R!ReadVote, R!TypeOK, Ballot
  <2> QED
    BY <1>5, <2>2 DEF R!ReadVote, R!Settled
<1>6. ASSUME NEW r \in Requests, R!CommitVote(r) PROVE Locked
  <2>1. picking[r] \in Ballot /\ picking[r].room # k
    BY <1>6, PickKinds DEF R!CommitVote, R!Settled
  <2>2. \A f \in Voters, t \in Titles : votes'[<<k, f, t>>] = votes[<<k, f, t>>]
    BY <1>6, <2>1 DEF R!CommitVote, R!TypeOK, Ballot
  <2>3. R!Settled(k)'
    BY <1>6 DEF R!CommitVote, R!Finish, R!Settled, R!TypeOK, R!Idle
  <2> QED
    BY <2>2, <2>3
<1>7. ASSUME NEW r \in Requests, R!TallyVotes(r) PROVE Locked
  <2>1. picking[r] \in Tallies /\ UNCHANGED <<rooms, votes>>
    BY <1>7, PickKinds DEF R!TallyVotes
  <2>2. PICK t : picking' = [picking EXCEPT ![r].winner = t, ![r].next = "write"]
    BY <1>7 DEF R!TallyVotes
  <2>3. picking'[r].op = "close" /\ \A q \in Requests \ {r} : picking'[q] = picking[q]
    BY <2>1, <2>2 DEF R!TypeOK, Tallies
  <2> QED
    BY <2>1, <2>3 DEF R!Settled
<1>8. ASSUME NEW r \in Requests, R!CommitClose(r) PROVE Locked
  <2>1. rooms'[k] # None /\ rooms'[k].status = "RESOLVED"
    <3>1. picking[r] \in Closes /\ rooms'[k].status = "RESOLVED"
      BY <1>0, <1>8, PickKinds DEF R!CommitClose, R!Settled, R!TypeOK, R!Room
    <3>2. PickInv'
      BY <1>8, PickStep DEF R!Next
    <3>3. rooms'[k].winner # None \/ rooms'[k] = rooms[k]
      BY <1>0, <1>8, <3>1, NoneElsewhere DEF R!CommitClose, Closes, R!Room, R!TypeOK, R!Settled, R!WinnerHasLed
    <3>4. rooms'[k] \in R!Room
      BY <1>0, <1>8, <3>1 DEF R!CommitClose, Closes, R!Room, R!TypeOK
    <3> QED
      BY <3>1, <3>4, NoneElsewhere
  <2> QED
    BY <1>8, <2>1 DEF R!CommitClose, R!Finish, R!Settled, R!TypeOK, R!Idle
<1>9. ASSUME NEW r \in Requests, R!Abort(r) PROVE Locked
  BY <1>9 DEF R!Abort, R!Finish, R!Settled, R!TypeOK, R!Idle
<1>10. ASSUME UNCHANGED R!vars PROVE Locked
  BY <1>10 DEF R!vars, R!Settled
<1> QED
  BY <1>1, <1>2, <1>3, <1>4, <1>5, <1>6, <1>7, <1>8, <1>9, <1>10 DEF R!Next
-----------------------------------------------------------------------------
(* Theorems *)

\* social.py, close_pick_room: whatever votes and closes interleave, a declared
\* winner is a candidate that led the ballot while it was being closed.
THEOREM WinnersHaveLed == R!Spec => []WinnerHasLed
<1>1. PickInv => WinnerHasLed
  BY DEF PickInv, WinnerHasLed
<1> QED
  BY <1>1, PicksSafe, PTL

\* social.py, cast_pick_vote: once a room is resolved and no vote is pending, its
\* votes stay as they are, however often the room is closed again.
THEOREM SettledBallots == R!Spec => SettledForGood
<1>1. PickInv /\ [R!Next]_(R!vars) =>
        [\A k \in Rooms : R!Settled(k) =>
           /\ R!Settled(k)'
           /\ \A f \in Voters, t \in Titles : votes'[<<k, f, t>>] = votes[<<k, f, t>>]]_(R!vars)
  BY SettledStep
<1> QED
  BY <1>1, PicksSafe, PTL DEF R!Spec, SettledForGood, R!SettledForGood
=============================================================================
