----------------------------- MODULE SocialGraph -----------------------------
(***************************************************************************)
(* Invitation-gated accounts and the friendship graph: POST                *)
(* /auth/register (routers/auth.py), invite tokens, referrals and          *)
(* friendships (repositories/social.py, routers/social.py).                *)
(*                                                                         *)
(* Each HTTP request is one READ COMMITTED transaction on one of several   *)
(* API workers.  Its SELECTs see what is committed when they run, its      *)
(* checks are made on what they returned, and its writes are flushed       *)
(* together at the end.  A flushed row stays locked until the commit, so   *)
(* flush and commit are one atomic step here; a unique key that another    *)
(* request took in the meantime aborts the transaction.  A request whose   *)
(* checks fail changes nothing and is not modelled.                        *)
(***************************************************************************)
EXTENDS Naturals, Sequences, FiniteSets

CONSTANTS
  Users,         \* people, known by their e-mail address
  Founders,      \* accounts that exist from the start (bootstrap)
  Tokens,        \* invite codes that may be generated
  Requests,      \* HTTP requests that may be open at the same time
  MaxRows,       \* bound on the friendship rows ever inserted
  None           \* no value

Invite == [by : Users, usedBy : Users \cup {None}, expired : BOOLEAN]

ASSUME SocialAssumption ==
  /\ Founders \subseteq Users
  /\ None \notin Users \cup Invite
  /\ MaxRows \in Nat

VARIABLES
  accounts,      \* auth.user
  friends,       \* social.friendship, the rows in the order of insertion
  invites,       \* social.invite_token
  referrals,     \* number of social.referral rows of each (inviter, invitee)
  job            \* what each open request has read and is about to write

vars == <<accounts, friends, invites, referrals, job>>

Status == {"PENDING", "ACCEPTED", "BLOCKED"}

\* A deleted row has no status any more; its id is never given out again.
Row == [from : Users, to : Users, status : Status \cup {"deleted"}]

Idle     == [op |-> "idle"]
Ask      == [op : {"ask"}, by : Users, to : Users]
Patch    == [op : {"patch"}, by : Users, id : 1..MaxRows, was : Status, status : Status]
Unfriend == [op : {"unfriend"}, by : Users, id : 1..MaxRows]
Accept   == [op : {"accept"}, next : {"friendship", "referral", "write"},
             by : Users, token : Tokens,
             claim : BOOLEAN, befriend : BOOLEAN, refer : BOOLEAN]
Register == [op : {"register"}, by : Users, token : Tokens]
Job      == {Idle} \cup Ask \cup Patch \cup Unfriend \cup Accept \cup Register

TypeOK ==
  /\ accounts \subseteq Users
  /\ friends \in Seq(Row) /\ Len(friends) <= MaxRows
  /\ invites \in [Tokens -> Invite \cup {None}]
  /\ referrals \in [Users \X Users -> Nat]
  /\ job \in [Requests -> Job]

\* What the bootstrap script leaves; the invite it inserts beside the first
\* account is that account's first CreateInvite.
Init ==
  /\ accounts = Founders
  /\ friends = <<>>
  /\ invites = [t \in Tokens |-> None]
  /\ referrals = [p \in Users \X Users |-> 0]
  /\ job = [r \in Requests |-> Idle]

Live(f) == f \in DOMAIN friends /\ friends[f].status # "deleted"
Pair(f) == {friends[f].from, friends[f].to}

\* The rows a SELECT for two users finds, in either direction.
Between(u, v) == {f \in DOMAIN friends : Live(f) /\ Pair(f) = {u, v}}

\* The request goes on with j; the database is as it was.
Start(r, j) ==
  /\ job[r] = Idle
  /\ job' = [job EXCEPT ![r] = j]
  /\ UNCHANGED <<accounts, friends, invites, referrals>>

Finish(r) == job' = [job EXCEPT ![r] = Idle]

InsertRow(u, v, status) ==
  /\ Len(friends) < MaxRows
  /\ friends' = Append(friends, [from |-> u, to |-> v, status |-> status])
-----------------------------------------------------------------------------
(* Friend requests *)

\* create_friendship: a pair that has a row already, whatever its status, gets
\* that row back.
AskFriend(r, u, v) ==
  /\ u \in accounts /\ v \in accounts /\ u # v
  /\ Between(u, v) = {}
  /\ Start(r, [op |-> "ask", by |-> u, to |-> v])

CommitAsk(r) ==
  /\ job[r].op = "ask"
  /\ Between(job[r].by, job[r].to) = {}
  /\ InsertRow(job[r].by, job[r].to, "PENDING")
  /\ Finish(r)
  /\ UNCHANGED <<accounts, invites, referrals>>

\* Mutant of PatchFriendship: either participant may accept.
PatchByAnyone(r, u, f, status) ==
  /\ Live(f) /\ u \in Pair(f)
  /\ ~(friends[f].status = "ACCEPTED" /\ status = "PENDING")
  /\ Start(r, [op |-> "patch", by |-> u, id |-> f, was |-> friends[f].status, status |-> status])

\* update_friendship_status: read the row and check the actor and the
\* transition.
PatchFriendship(r, u, f, status) ==
  /\ Live(f) /\ u \in Pair(f)
  /\ status = "ACCEPTED" => u = friends[f].to
  /\ ~(friends[f].status = "ACCEPTED" /\ status = "PENDING")
  /\ Start(r, [op |-> "patch", by |-> u, id |-> f, was |-> friends[f].status, status |-> status])

\* The UPDATE, by id: it sets the status unless it is the one that was read.
CommitPatch(r) ==
  /\ job[r].op = "patch"
  /\ Live(job[r].id)
  /\ friends' = IF job[r].status = job[r].was THEN friends
                ELSE [friends EXCEPT ![job[r].id].status = job[r].status]
  /\ Finish(r)
  /\ UNCHANGED <<accounts, invites, referrals>>

\* delete_friendship: read the row and check the actor.
UnfriendUser(r, u, f) ==
  /\ Live(f) /\ u \in Pair(f)
  /\ Start(r, [op |-> "unfriend", by |-> u, id |-> f])

\* The DELETE, by id; a row that is gone already is not an error.
CommitUnfriend(r) ==
  /\ job[r].op = "unfriend"
  /\ friends' = [friends EXCEPT ![job[r].id].status = "deleted"]
  /\ Finish(r)
  /\ UNCHANGED <<accounts, invites, referrals>>
-----------------------------------------------------------------------------
(* Invitations *)

\* create_invite_token: one INSERT, of a fresh random token.
CreateInvite(u, t) ==
  /\ u \in accounts
  /\ invites[t] = None
  /\ invites' = [invites EXCEPT ![t] = [by |-> u, usedBy |-> None, expired |-> FALSE]]
  /\ UNCHANGED <<accounts, friends, referrals, job>>

\* Thirty days have passed.
Expire(t) ==
  /\ invites[t] # None
  /\ ~invites[t].expired
  /\ invites' = [invites EXCEPT ![t].expired = TRUE]
  /\ UNCHANGED <<accounts, friends, referrals, job>>

Usable(t) == invites[t] # None /\ ~invites[t].expired

\* accept_invite_token reads the token.  A used one is accepted again, but only
\* the first user is written into it.
AcceptInvite(r, u, t) ==
  /\ u \in accounts
  /\ Usable(t) /\ invites[t].by # u
  /\ Start(r, [op |-> "accept", next |-> "friendship", by |-> u, token |-> t,
               claim |-> (invites[t].usedBy = None), befriend |-> FALSE, refer |-> FALSE])

\* Then the friendship with the inviter,
ReadFriendship(r) ==
  /\ job[r].op = "accept" /\ job[r].next = "friendship"
  /\ job' = [job EXCEPT ![r].next = "referral",
                        ![r].befriend = (Between(invites[job[r].token].by, job[r].by) = {})]
  /\ UNCHANGED <<accounts, friends, invites, referrals>>

\* then the referral; two of them are an error.
ReadReferral(r) ==
  /\ job[r].op = "accept" /\ job[r].next = "referral"
  /\ LET known == referrals[<<invites[job[r].token].by, job[r].by>>]
     IN /\ known <= 1
        /\ job' = [job EXCEPT ![r].next = "write", ![r].refer = (known = 0)]
  /\ UNCHANGED <<accounts, friends, invites, referrals>>

\* Mutant of CommitAccept: a friendship that is there is accepted on the way.
CommitAcceptOverrides(r) ==
  /\ job[r].op = "accept" /\ job[r].next = "write"
  /\ LET t == job[r].token  inviter == invites[t].by  u == job[r].by
     IN /\ IF job[r].befriend
           THEN Between(inviter, u) = {} /\ InsertRow(inviter, u, "ACCEPTED")
           ELSE friends' = [f \in DOMAIN friends |->
                              IF f \in Between(inviter, u)
                              THEN [friends[f] EXCEPT !.status = "ACCEPTED"] ELSE friends[f]]
        /\ invites' = IF job[r].claim THEN [invites EXCEPT ![t].usedBy = u] ELSE invites
        /\ referrals' = IF job[r].refer THEN [referrals EXCEPT ![<<inviter, u>>] = @ + 1] ELSE referrals
  /\ Finish(r)
  /\ UNCHANGED accounts

\* The writes of accept_invite_token: the friendship comes accepted.
CommitAccept(r) ==
  /\ job[r].op = "accept" /\ job[r].next = "write"
  /\ LET t == job[r].token  inviter == invites[t].by  u == job[r].by
     IN /\ IF job[r].befriend
           THEN Between(inviter, u) = {} /\ InsertRow(inviter, u, "ACCEPTED")
           ELSE UNCHANGED friends
        /\ invites' = IF job[r].claim THEN [invites EXCEPT ![t].usedBy = u] ELSE invites
        /\ referrals' = IF job[r].refer THEN [referrals EXCEPT ![<<inviter, u>>] = @ + 1] ELSE referrals
  /\ Finish(r)
  /\ UNCHANGED accounts

\* register reads the code, which must be unused, and the e-mail address.
RegisterUser(r, u, t) ==
  /\ u \notin accounts
  /\ Usable(t) /\ invites[t].usedBy = None
  /\ Start(r, [op |-> "register", by |-> u, token |-> t])

\* Mutant of CommitRegister: the account is committed before the token is.
CommitRegisterEarly(r) ==
  /\ job[r].op = "register"
  /\ job[r].by \notin accounts
  /\ accounts' = accounts \cup {job[r].by}
  /\ Finish(r)
  /\ UNCHANGED <<friends, invites, referrals>>

\* The writes of register.  The unique e-mail address admits one account; the
\* token takes the new user whoever has used it since.
CommitRegister(r) ==
  /\ job[r].op = "register"
  /\ job[r].by \notin accounts
  /\ accounts' = accounts \cup {job[r].by}
  /\ LET t == job[r].token
     IN /\ invites' = [invites EXCEPT ![t].usedBy = job[r].by]
        /\ referrals' = [referrals EXCEPT ![<<invites[t].by, job[r].by>>] = @ + 1]
  /\ Finish(r)
  /\ UNCHANGED friends
-----------------------------------------------------------------------------
\* The request fails: a unique key or a missing row, a database error, a
\* restart of the worker.  Nothing of it is committed.
Abort(r) ==
  /\ job[r] # Idle
  /\ Finish(r)
  /\ UNCHANGED <<accounts, friends, invites, referrals>>

\* Nobody has to ask for anything.
Rest == (\A r \in Requests : job[r] = Idle) /\ UNCHANGED vars

Next ==
  \/ \E r \in Requests :
       \/ \E u \in Users :
            \/ \E v \in Users : AskFriend(r, u, v)
            \/ \E f \in DOMAIN friends :
                 UnfriendUser(r, u, f) \/ \E s \in Status : PatchFriendship(r, u, f, s)
            \/ \E t \in Tokens : AcceptInvite(r, u, t) \/ RegisterUser(r, u, t)
       \/ CommitAsk(r) \/ CommitPatch(r) \/ CommitUnfriend(r)
       \/ ReadFriendship(r) \/ ReadReferral(r) \/ CommitAccept(r)
       \/ CommitRegister(r) \/ Abort(r)
  \/ \E t \in Tokens : Expire(t) \/ \E u \in Users : CreateInvite(u, t)
  \/ Rest

Spec == Init /\ [][Next]_vars
-----------------------------------------------------------------------------
(* Properties *)

\* Two users never have two friendship rows, in either direction, however their
\* requests to each other and the invitations they accept interleave.
PairUnique ==
  \A f, g \in DOMAIN friends : Live(f) /\ Live(g) /\ f # g => Pair(f) # Pair(g)

\* Registration is invite-gated: behind every account that is not a founder's
\* there is a used token, and a referral by that token's inviter.
Gated ==
  \A u \in accounts \ Founders :
    \E t \in Tokens : /\ invites[t] # None /\ invites[t].usedBy # None
                      /\ referrals[<<invites[t].by, u>>] >= 1

\* A friendship becomes accepted only by its addressee, whose PATCH it is or
\* whose acceptance of the requester's invitation; never by the requester.
OnlyAddresseeAccepts ==
  [][\A f \in DOMAIN friends' :
       friends'[f].status = "ACCEPTED" /\ ~(Live(f) /\ friends[f].status = "ACCEPTED")
         => \E r \in Requests : /\ job[r].op \in {"patch", "accept"}
                                /\ job[r].by = friends'[f].to]_vars

\* A relation that two users already have, a block above all, is changed or
\* removed only by a PATCH or DELETE of one of the two: neither asking again nor
\* accepting an invitation touches it.
RelationPreserved ==
  [][\A f \in DOMAIN friends :
       friends'[f] # friends[f]
         => \E r \in Requests : /\ job[r].op \in {"patch", "unfriend"}
                                /\ job[r].id = f /\ job[r].by \in Pair(f)]_vars

\* One account per invite code: there are no more registered users than codes that
\* were used.  routers/auth.py:269 says of a registration "Strictly invite-gated:
\* requires a valid, unused, non-expired invite code".  It does not hold: two
\* registrations read one unused code before either commits, and both commit.
SingleUse ==
  Cardinality(accounts \ Founders) <=
    Cardinality({t \in Tokens : invites[t] # None /\ invites[t].usedBy # None})

\* An accepted friendship does not go back to pending.
\* (repositories/social.py: "Cannot transition an accepted friendship back to
\* pending.")
NoDowngrade ==
  [][\A f \in DOMAIN friends :
       friends[f].status = "ACCEPTED" => friends'[f].status # "PENDING"]_vars
=============================================================================
