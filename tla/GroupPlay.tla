------------------------------ MODULE GroupPlay ------------------------------
(***************************************************************************)
(* What friends do together: recommendations, watch clubs, challenges and  *)
(* badges (repositories/social.py, routers/social.py).                     *)
(*                                                                         *)
(* As in SocialGraph, a request is one READ COMMITTED transaction: it      *)
(* reads rows with one SELECT after the other, decides on what it has      *)
(* read, and writes with a flush whose row locks last until the commit.    *)
(* The session writes back absolute values and only the columns it has     *)
(* assigned, so a row that was read and has changed since is overwritten   *)
(* in part.  Requests that fail their checks change nothing.               *)
(***************************************************************************)
EXTENDS Naturals, FiniteSets

CONSTANTS
  Users,
  Recs,          \* recommendations that may be sent
  TitleOf,       \* the title each of them is about
  Ratings,       \* ratings a recipient may give
  Clubs,         \* clubs that may be founded
  Challenges,    \* challenges that may be announced
  Goal,          \* goal_count of each challenge
  MaxReport,     \* bound on the progress a participant ever reports
  Badges,        \* badge definitions
  Threshold,     \* criteria_json: how much of its metric each badge takes
  MaxMetric,     \* bound on the metrics
  Requests,      \* requests that may be open at the same time
  None

VARIABLES
  friends,       \* pairs of users with an ACCEPTED friendship (SocialGraph)
  recs,          \* social.recommendation
  had,           \* the statuses each recommendation has had (history)
  clubs,         \* social.watch_club and social.club_membership
  challenges,    \* where the clock stands for each social.challenge
  taking,        \* social.challenge_participant
  reported,      \* progress whose report was answered (history)
  badges,        \* social.user_badge
  metric,        \* what a user's badges are judged by (watches, friends, ...)
  best,          \* the highest it has been (history)
  job            \* what each open request has read and is about to write

recVars       == <<friends, recs, had>>
challengeVars == <<challenges, taking, reported>>
badgeVars     == <<badges, metric, best>>
vars == <<recVars, clubs, challengeVars, badgeVars, job>>

RecStatus == {"SENT", "ACCEPTED", "REJECTED", "WATCHED", "RATED"}

\* ALLOWED_STATE_TRANSITIONS
Allowed == [SENT |-> {"ACCEPTED", "REJECTED"}, ACCEPTED |-> {"WATCHED"},
            WATCHED |-> {"RATED"}, REJECTED |-> {}, RATED |-> {}]

Rec   == [from : Users, to : Users, status : RecStatus, rating : Ratings \cup {None}]
Club  == [count : Nat, members : SUBSET Users]
Taker == [progress : Nat, completed : BOOLEAN]

ASSUME GroupAssumption ==
  /\ Goal \in Nat \ {0}
  /\ MaxReport \in Nat /\ MaxMetric \in Nat
  /\ Threshold \in [Badges -> Nat]
  /\ DOMAIN TitleOf = Recs
  /\ None \notin Ratings \cup Rec \cup Club \cup Taker

Idle == [op |-> "idle"]
Job  == {Idle}
  \cup [op : {"recommend"}, by : Users, to : Users, rec : Recs]
  \cup [op : {"update"}, rec : Recs, status : RecStatus \ {"SENT"}, rating : Ratings \cup {None}]
  \cup [op : {"scrobble"}, recs : SUBSET Recs]
  \cup [op : {"join club"}, by : Users, club : Clubs, count : Nat, next : {"membership", "write"}]
  \cup [op : {"join challenge"}, by : Users, challenge : Challenges]
  \cup [op : {"report"}, by : Users, challenge : Challenges, add : Nat, next : {"read"}]
  \cup [op : {"report"}, by : Users, challenge : Challenges, add : Nat, next : {"write"}, was : Taker]
  \cup [op : {"evaluate"}, by : Users, unearned : SUBSET Badges, next : {"metrics", "write"}]

TypeOK ==
  /\ friends \subseteq SUBSET Users
  /\ recs \in [Recs -> Rec \cup {None}]
  /\ had \in [Recs -> SUBSET RecStatus]
  /\ clubs \in [Clubs -> Club \cup {None}]
  /\ challenges \in [Challenges -> {"none", "ahead", "active", "over"}]
  /\ taking \in [Challenges \X Users -> Taker \cup {None}]
  /\ reported \in [Challenges \X Users -> Nat]
  /\ badges \in [Users -> SUBSET Badges]
  /\ metric \in [Users -> Nat] /\ best \in [Users -> Nat]
  /\ job \in [Requests -> Job]

Init ==
  /\ friends = {}
  /\ recs = [x \in Recs |-> None]
  /\ had = [x \in Recs |-> {}]
  /\ clubs = [c \in Clubs |-> None]
  /\ challenges = [h \in Challenges |-> "none"]
  /\ taking = [p \in Challenges \X Users |-> None]
  /\ reported = [p \in Challenges \X Users |-> 0]
  /\ badges = [u \in Users |-> {}]
  /\ metric = [u \in Users |-> 0] /\ best = [u \in Users |-> 0]
  /\ job = [r \in Requests |-> Idle]

Start(r, j) == job[r] = Idle /\ job' = [job EXCEPT ![r] = j]
Finish(r)   == job' = [job EXCEPT ![r] = Idle]
-----------------------------------------------------------------------------
(* Recommendations *)

\* A friendship is accepted or ends, seen through are_friends_accepted.
Befriend(u, v) ==
  /\ u # v
  /\ friends' = IF {u, v} \in friends THEN friends \ {{u, v}} ELSE friends \cup {{u, v}}
  /\ UNCHANGED <<recs, had, clubs, challengeVars, badgeVars, job>>

\* create_recommendation checks the friendship,
Recommend(r, u, v, x) ==
  /\ {u, v} \in friends
  /\ recs[x] = None /\ \A q \in Requests : job[q].op = "recommend" => job[q].rec # x
  /\ Start(r, [op |-> "recommend", by |-> u, to |-> v, rec |-> x])
  /\ UNCHANGED <<recVars, clubs, challengeVars, badgeVars>>

\* and inserts the row, whatever became of the friendship.
CommitRecommend(r) ==
  /\ job[r].op = "recommend"
  /\ LET x == job[r].rec
     IN /\ recs' = [recs EXCEPT ![x] = [from |-> job[r].by, to |-> job[r].to,
                                        status |-> "SENT", rating |-> None]]
        /\ had' = [had EXCEPT ![x] = {"SENT"}]
  /\ Finish(r)
  /\ UNCHANGED <<friends, clubs, challengeVars, badgeVars>>

\* Mutant of UpdateRec: whatever is not the status the row has is allowed.
UpdateRecAnyOrder(r, u, x, s, g) ==
  /\ recs[x] # None /\ recs[x].to = u
  /\ s # recs[x].status
  /\ s = "RATED" <=> g # None
  /\ Start(r, [op |-> "update", rec |-> x, status |-> s, rating |-> g])
  /\ UNCHANGED <<recVars, clubs, challengeVars, badgeVars>>

\* update_recommendation_state: the recipient asks for a status that the state
\* machine allows after the one the row has now; RATED comes with a rating.
UpdateRec(r, u, x, s, g) ==
  /\ recs[x] # None /\ recs[x].to = u
  /\ s \in Allowed[recs[x].status]
  /\ s = "RATED" <=> g # None
  /\ Start(r, [op |-> "update", rec |-> x, status |-> s, rating |-> g])
  /\ UNCHANGED <<recVars, clubs, challengeVars, badgeVars>>

\* Mutant of CommitUpdateRec: every update writes the rating column.
CommitUpdateRecAll(r) ==
  /\ job[r].op = "update"
  /\ LET x == job[r].rec
     IN /\ recs' = [recs EXCEPT ![x].status = job[r].status, ![x].rating = job[r].rating]
        /\ had' = [had EXCEPT ![x] = @ \cup {job[r].status}]
  /\ Finish(r)
  /\ UNCHANGED <<friends, clubs, challengeVars, badgeVars>>

\* The flush: status, and the rating column only when there is a rating.
CommitUpdateRec(r) ==
  /\ job[r].op = "update"
  /\ LET x == job[r].rec  g == job[r].rating
     IN /\ recs' = [recs EXCEPT ![x].status = job[r].status,
                                ![x].rating = IF g = None THEN @ ELSE g]
        /\ had' = [had EXCEPT ![x] = @ \cup {job[r].status}]
  /\ Finish(r)
  /\ UNCHANGED <<friends, clubs, challengeVars, badgeVars>>

\* ingest_media_server_webhook, its social hook: u has played title, and what u
\* has accepted of it is found.  Any event of the player counts as played.
Scrobble(r, u, title) ==
  LET accepted == {x \in Recs : /\ TitleOf[x] = title
                                /\ recs[x] # None /\ recs[x].to = u /\ recs[x].status = "ACCEPTED"}
  IN /\ accepted # {}
     /\ Start(r, [op |-> "scrobble", recs |-> accepted])
     /\ UNCHANGED <<recVars, clubs, challengeVars, badgeVars>>

\* The flush: all of it is WATCHED, whatever became of it since.
CommitScrobble(r) ==
  /\ job[r].op = "scrobble"
  /\ recs' = [x \in Recs |-> IF x \in job[r].recs THEN [recs[x] EXCEPT !.status = "WATCHED"] ELSE recs[x]]
  /\ had' = [x \in Recs |-> IF x \in job[r].recs THEN had[x] \cup {"WATCHED"} ELSE had[x]]
  /\ Finish(r)
  /\ UNCHANGED <<friends, clubs, challengeVars, badgeVars>>
-----------------------------------------------------------------------------
(* Watch clubs *)

\* create_watch_club: the club and its owner's membership in one transaction.
CreateClub(u, c) ==
  /\ clubs[c] = None
  /\ clubs' = [clubs EXCEPT ![c] = [count |-> 1, members |-> {u}]]
  /\ UNCHANGED <<recVars, challengeVars, badgeVars, job>>

\* join_watch_club reads the club with its member_count,
JoinClub(r, u, c) ==
  /\ clubs[c] # None
  /\ Start(r, [op |-> "join club", by |-> u, club |-> c, count |-> clubs[c].count,
               next |-> "membership"])
  /\ UNCHANGED <<recVars, clubs, challengeVars, badgeVars>>

\* then looks for a membership, which it returns when there is one.
ReadMembership(r) ==
  /\ job[r].op = "join club" /\ job[r].next = "membership"
  /\ IF job[r].by \in clubs[job[r].club].members
     THEN Finish(r) ELSE job' = [job EXCEPT ![r].next = "write"]
  /\ UNCHANGED <<recVars, clubs, challengeVars, badgeVars>>

\* Mutant of CommitJoinClub: the membership has no primary key.
CommitJoinClubTwice(r) ==
  /\ job[r].op = "join club" /\ job[r].next = "write"
  /\ clubs' = [clubs EXCEPT ![job[r].club] =
                 [count |-> @.count + 1, members |-> @.members \cup {job[r].by}]]
  /\ Finish(r)
  /\ UNCHANGED <<recVars, challengeVars, badgeVars>>

\* The membership, whose primary key admits one per user, and the count that
\* was read plus one.
CommitJoinClub(r) ==
  /\ job[r].op = "join club" /\ job[r].next = "write"
  /\ job[r].by \notin clubs[job[r].club].members
  /\ clubs' = [clubs EXCEPT ![job[r].club] =
                 [count |-> job[r].count + 1, members |-> @.members \cup {job[r].by}]]
  /\ Finish(r)
  /\ UNCHANGED <<recVars, challengeVars, badgeVars>>
-----------------------------------------------------------------------------
(* Challenges *)

CreateChallenge(h) ==
  /\ challenges[h] = "none"
  /\ \E phase \in {"ahead", "active", "over"} : challenges' = [challenges EXCEPT ![h] = phase]
  /\ UNCHANGED <<recVars, clubs, taking, reported, badgeVars, job>>

\* The clock passes starts_at or ends_at.
Pass(h) ==
  /\ \/ challenges[h] = "ahead"  /\ challenges' = [challenges EXCEPT ![h] = "active"]
     \/ challenges[h] = "active" /\ challenges' = [challenges EXCEPT ![h] = "over"]
  /\ UNCHANGED <<recVars, clubs, taking, reported, badgeVars, job>>

\* join_challenge looks for the participant row; with one it changes nothing.
JoinChallenge(r, u, h) ==
  /\ challenges[h] # "none"
  /\ taking[<<h, u>>] = None
  /\ Start(r, [op |-> "join challenge", by |-> u, challenge |-> h])
  /\ UNCHANGED <<recVars, clubs, challengeVars, badgeVars>>

CommitJoinChallenge(r) ==
  /\ job[r].op = "join challenge"
  /\ LET p == <<job[r].challenge, job[r].by>>
     IN /\ taking[p] = None
        /\ taking' = [taking EXCEPT ![p] = [progress |-> 0, completed |-> FALSE]]
  /\ Finish(r)
  /\ UNCHANGED <<recVars, clubs, challenges, reported, badgeVars>>

\* update_challenge_progress: the time window is checked first,
Report(r, u, h, add) ==
  /\ challenges[h] = "active"
  /\ Start(r, [op |-> "report", by |-> u, challenge |-> h, add |-> add, next |-> "read"])
  /\ UNCHANGED <<recVars, clubs, challengeVars, badgeVars>>

\* then the participant is read,
ReadProgress(r) ==
  /\ job[r].op = "report" /\ job[r].next = "read"
  /\ LET p == <<job[r].challenge, job[r].by>>
     IN /\ taking[p] # None
        /\ job' = [job EXCEPT ![r] = [op |-> "report", by |-> job[r].by,
                     challenge |-> job[r].challenge, add |-> job[r].add,
                     next |-> "write", was |-> taking[p]]]
  /\ UNCHANGED <<recVars, clubs, challengeVars, badgeVars>>

\* Mutant of CommitReport: completion is decided on the row after the update,
\* written with it whether or not it holds.
CommitReportBoth(r) ==
  /\ job[r].op = "report" /\ job[r].next = "write"
  /\ LET p == <<job[r].challenge, job[r].by>>  n == job[r].was.progress + job[r].add
     IN /\ reported[p] + job[r].add <= MaxReport
        /\ taking' = [taking EXCEPT ![p] = [progress |-> n, completed |-> (n >= Goal)]]
        /\ reported' = [reported EXCEPT ![p] = @ + job[r].add]
  /\ Finish(r)
  /\ UNCHANGED <<recVars, clubs, challenges, badgeVars>>

\* and written back: the new progress, and the completion when it reaches the
\* goal and the row was read as not completed.
CommitReport(r) ==
  /\ job[r].op = "report" /\ job[r].next = "write"
  /\ LET p == <<job[r].challenge, job[r].by>>  was == job[r].was  n == was.progress + job[r].add
     IN /\ reported[p] + job[r].add <= MaxReport
        /\ taking' = [taking EXCEPT ![p].progress = n,
                                    ![p].completed = @ \/ (n >= Goal /\ ~was.completed)]
        /\ reported' = [reported EXCEPT ![p] = @ + job[r].add]
  /\ Finish(r)
  /\ UNCHANGED <<recVars, clubs, challenges, badgeVars>>
-----------------------------------------------------------------------------
(* Badges *)

\* Watches, friends, reviews, lists come and go.
Live(u, n) ==
  /\ n \in 0..MaxMetric /\ (n = metric[u] + 1 \/ metric[u] = n + 1)
  /\ metric' = [metric EXCEPT ![u] = n]
  /\ best' = [best EXCEPT ![u] = IF n > @ THEN n ELSE @]
  /\ UNCHANGED <<recVars, clubs, challengeVars, badges, job>>

\* evaluate_user_badges reads the definitions and what is earned already,
Evaluate(r, u) ==
  /\ badges[u] # Badges
  /\ Start(r, [op |-> "evaluate", by |-> u, unearned |-> Badges \ badges[u], next |-> "metrics"])
  /\ UNCHANGED <<recVars, clubs, challengeVars, badgeVars>>

\* Mutant of ReadMetrics: thresholds are exclusive of nothing.
ReadMetricsEarly(r) ==
  /\ job[r].op = "evaluate" /\ job[r].next = "metrics"
  /\ job' = [job EXCEPT ![r].next = "write",
               ![r].unearned = {b \in @ : metric[job[r].by] + 1 >= Threshold[b]}]
  /\ UNCHANGED <<recVars, clubs, challengeVars, badgeVars>>

\* then counts,
ReadMetrics(r) ==
  /\ job[r].op = "evaluate" /\ job[r].next = "metrics"
  /\ job' = [job EXCEPT ![r].next = "write",
               ![r].unearned = {b \in @ : metric[job[r].by] >= Threshold[b]}]
  /\ UNCHANGED <<recVars, clubs, challengeVars, badgeVars>>

\* and inserts what qualifies, all or nothing.
CommitBadges(r) ==
  /\ job[r].op = "evaluate" /\ job[r].next = "write"
  /\ job[r].unearned \cap badges[job[r].by] = {}
  /\ badges' = [badges EXCEPT ![job[r].by] = @ \cup job[r].unearned]
  /\ Finish(r)
  /\ UNCHANGED <<recVars, clubs, challengeVars, metric, best>>
-----------------------------------------------------------------------------
\* The request fails or its worker stops; nothing is committed.
Abort(r) ==
  /\ job[r] # Idle
  /\ Finish(r)
  /\ UNCHANGED <<recVars, clubs, challengeVars, badgeVars>>

RecNext ==
  \/ \E u, v \in Users :
       \/ Befriend(u, v)
       \/ \E r \in Requests, x \in Recs : Recommend(r, u, v, x)
  \/ \E r \in Requests :
       \/ \E u \in Users, x \in Recs, s \in RecStatus, g \in Ratings \cup {None} : UpdateRec(r, u, x, s, g)
       \/ CommitRecommend(r) \/ CommitUpdateRec(r) \/ CommitScrobble(r)
       \/ \E u \in Users, x \in Recs : Scrobble(r, u, TitleOf[x])

ClubNext ==
  \/ \E u \in Users, c \in Clubs : CreateClub(u, c) \/ \E r \in Requests : JoinClub(r, u, c)
  \/ \E r \in Requests : ReadMembership(r) \/ CommitJoinClub(r)

ChallengeNext ==
  \/ \E h \in Challenges :
       \/ CreateChallenge(h) \/ Pass(h)
       \/ \E r \in Requests, u \in Users :
            JoinChallenge(r, u, h) \/ \E add \in 1..MaxReport : Report(r, u, h, add)
  \/ \E r \in Requests : CommitJoinChallenge(r) \/ ReadProgress(r) \/ CommitReport(r)

BadgeNext ==
  \/ \E u \in Users :
       \/ \E n \in 0..MaxMetric : Live(u, n)
       \/ \E r \in Requests : Evaluate(r, u)
  \/ \E r \in Requests : ReadMetrics(r) \/ CommitBadges(r)

Rest == (\A r \in Requests : job[r] = Idle) /\ UNCHANGED vars

Next == RecNext \/ ClubNext \/ ChallengeNext \/ BadgeNext \/ (\E r \in Requests : Abort(r)) \/ Rest

Spec == Init /\ [][Next]_vars
-----------------------------------------------------------------------------
(* Properties *)

\* No shortcut: whatever races two PATCHes of one recommendation run, it never
\* shows a status that it could not have reached step by step, and a rating only
\* stays on one that was accepted and watched before it was rated.
NoShortcut ==
  \A x \in Recs : recs[x] # None =>
    /\ \A s \in had[x] \ {"SENT"} : \E t \in had[x] : s \in Allowed[t]
    /\ recs[x].rating # None => {"SENT", "ACCEPTED", "WATCHED", "RATED"} \subseteq had[x]

\* A stale write takes nothing back that was reached: a rating stays, and so does
\* the completion of a challenge when its progress is set back.
ReachedKept ==
  [][/\ \A x \in Recs : recs[x] # None /\ recs[x].rating # None =>
          recs'[x] # None /\ recs'[x].rating # None
     /\ \A p \in Challenges \X Users : taking[p] # None /\ taking[p].completed =>
          taking'[p] # None /\ taking'[p].completed]_vars

\* No counter runs ahead of what was done: member_count of a club never claims more
\* members than there are (fewer, when two joins have read it), nobody stands
\* higher in a challenge than the reports that were answered, or at its goal
\* without completing it, and a badge is never given to someone who at no time met
\* its threshold, although what was counted may have gone before it is inserted.
NothingUnearned ==
  /\ \A c \in Clubs : clubs[c] # None => clubs[c].count \in 1..Cardinality(clubs[c].members)
  /\ \A p \in Challenges \X Users : taking[p] # None =>
       taking[p].progress <= reported[p] /\ (taking[p].progress >= Goal => taking[p].completed)
  /\ \A u \in Users : \A b \in badges[u] : best[u] >= Threshold[b]

\* The state machine as documented: "strict state machine transitions"
\* (routers/social.py:130).  A recommendation moves along an allowed edge only.
StrictTransitions ==
  [][\A x \in Recs : recs[x] # None /\ recs'[x] # None /\ recs'[x].status # recs[x].status =>
       recs'[x].status \in Allowed[recs[x].status]]_vars
=============================================================================
