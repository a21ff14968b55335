--------------------------- MODULE GroupPlayProofs ---------------------------
(***************************************************************************)
(* Safety of recommendations, clubs, challenges and badges for any number  *)
(* of users, rows and open requests.  What a request has read may be stale *)
(* when it is written; Sound says what of it is still true by then: a      *)
(* status was reached, a count was no larger than it is, a completion that *)
(* was read is there, a threshold was met once.                            *)
(***************************************************************************)
EXTENDS GroupPlay, FiniteSetTheorems, TLAPS

RecSound(j) ==
  /\ j.op = "recommend" => recs[j.rec] = None
  /\ j.op = "update" => /\ recs[j.rec] # None
                        /\ \E t \in had[j.rec] : j.status \in Allowed[t]
                        /\ j.rating # None => j.status = "RATED"
  /\ j.op = "scrobble" => \A x \in j.recs : recs[x] # None /\ "ACCEPTED" \in had[x]

ClubSound(j) ==
  j.op = "join club" =>
    clubs[j.club] # None /\ j.count \in 1..Cardinality(clubs[j.club].members)

ChallengeSound(j) ==
  j.op = "report" /\ j.next = "write" =>
    LET p == <<j.challenge, j.by>>
    IN /\ taking[p] # None /\ j.was.progress <= reported[p]
       /\ j.was.progress >= Goal => j.was.completed
       /\ j.was.completed => taking[p].completed

BadgeSound(j) ==
  j.op = "evaluate" /\ j.next = "write" => \A b \in j.unearned : best[j.by] >= Threshold[b]

\* A recommendation is inserted once: two requests never make the same row.
Alone ==
  \A r, q \in Requests :
    job[r].op = "recommend" /\ job[q].op = "recommend" /\ r # q => job[r].rec # job[q].rec

RecInv ==
  /\ NoShortcut /\ Alone
  /\ \A x \in Recs : recs[x] # None => "SENT" \in had[x] /\ recs[x].status \in had[x]
  /\ \A r \in Requests : RecSound(job[r])

ClubInv ==
  /\ \A c \in Clubs : clubs[c] # None =>
       IsFiniteSet(clubs[c].members) /\ clubs[c].count \in 1..Cardinality(clubs[c].members)
  /\ \A r \in Requests : ClubSound(job[r])

ChallengeInv ==
  /\ \A p \in Challenges \X Users : taking[p] # None =>
       taking[p].progress <= reported[p] /\ (taking[p].progress >= Goal => taking[p].completed)
  /\ \A r \in Requests : ChallengeSound(job[r])

BadgeInv ==
  /\ \A u \in Users : best[u] >= metric[u] /\ \A b \in badges[u] : best[u] >= Threshold[b]
  /\ \A r \in Requests : BadgeSound(job[r])

IInv == TypeOK /\ RecInv /\ ClubInv /\ ChallengeInv /\ BadgeInv

-----------------------------------------------------------------------------
(* Lemmas *)

Recommending == [op : {"recommend"}, by : Users, to : Users, rec : Recs]
Updating     == [op : {"update"}, rec : Recs, status : RecStatus \ {"SENT"}, rating : Ratings \cup {None}]
Scrobbling   == [op : {"scrobble"}, recs : SUBSET Recs]
JoiningClub  == [op : {"join club"}, by : Users, club : Clubs, count : Nat, next : {"membership", "write"}]
Joining      == [op : {"join challenge"}, by : Users, challenge : Challenges]
Reading      == [op : {"report"}, by : Users, challenge : Challenges, add : Nat, next : {"read"}]
Reporting    == [op : {"report"}, by : Users, challenge : Challenges, add : Nat, next : {"write"}, was : Taker]
Evaluating   == [op : {"evaluate"}, by : Users, unearned : SUBSET Badges, next : {"metrics", "write"}]

LEMMA JobSet ==
  Job = {Idle} \cup Recommending \cup Updating \cup Scrobbling \cup JoiningClub \cup Joining \cup Reading
               \cup Reporting \cup Evaluating
  BY DEF Job, Recommending, Updating, Scrobbling, JoiningClub, Joining, Reading, Reporting, Evaluating

LEMMA JobKinds ==
  ASSUME NEW j \in Job
  PROVE  /\ j.op = "recommend" => j \in Recommending
         /\ j.op = "update" => j \in Updating
         /\ j.op = "scrobble" => j \in Scrobbling
         /\ j.op = "join club" => j \in JoiningClub
         /\ j.op = "join challenge" => j \in Joining
         /\ j.op = "report" /\ j.next = "read" => j \in Reading
         /\ j.op = "report" /\ j.next = "write" => j \in Reporting
         /\ j.op = "evaluate" => j \in Evaluating
<1>1. /\ Idle.op = "idle" /\ \A k \in Recommending : k.op = "recommend"
      /\ \A k \in Updating : k.op = "update"
      /\ \A k \in Scrobbling : k.op = "scrobble"
  BY DEF Idle, Recommending, Updating, Scrobbling
<1>2. /\ \A k \in JoiningClub : k.op = "join club"
      /\ \A k \in Joining : k.op = "join challenge"
      /\ \A k \in Evaluating : k.op = "evaluate"
  BY DEF JoiningClub, Joining, Evaluating
<1>3. /\ \A k \in Reading : k.op = "report" /\ k.next = "read"
      /\ \A k \in Reporting : k.op = "report" /\ k.next = "write"
  BY DEF Reading, Reporting
<1> QED
  BY <1>1, <1>2, <1>3, JobSet

LEMMA AllowedIs ==
  ASSUME NEW t \in RecStatus
  PROVE  /\ "ACCEPTED" \in Allowed[t] <=> t = "SENT"
         /\ "REJECTED" \in Allowed[t] <=> t = "SENT"
         /\ "WATCHED" \in Allowed[t] <=> t = "ACCEPTED"
         /\ "RATED" \in Allowed[t] <=> t = "WATCHED"
         /\ "SENT" \notin Allowed[t] /\ Allowed[t] \subseteq RecStatus
  BY DEF Allowed, RecStatus

\* What Sound says of an idle request.
LEMMA IdleSound ==
  Idle \in Job /\ RecSound(Idle) /\ ClubSound(Idle) /\ ChallengeSound(Idle) /\ BadgeSound(Idle)
  BY JobSet DEF Idle, RecSound, ClubSound, ChallengeSound, BadgeSound

\* One request goes on to j.
JobIs(r, j) ==
  job' = [job EXCEPT ![r] = j] /\ j \in Job

LEMMA JobAfter ==
  ASSUME TypeOK, NEW r \in Requests, NEW j, JobIs(r, j)
  PROVE  job' \in [Requests -> Job] /\ job'[r] = j /\ \A q \in Requests \ {r} : job'[q] = job[q]
  BY DEF TypeOK, JobIs

\* The invariant of each component holds after a step that leaves its rows alone
\* and makes of one request another one that is sound.
LEMMA RecKept ==
  ASSUME TypeOK, RecInv, NEW r \in Requests, NEW j, JobIs(r, j), UNCHANGED recVars, RecSound(j),
         j.op = "recommend" => \A q \in Requests : job[q].op = "recommend" => job[q].rec # j.rec
  PROVE  RecInv'
<1>1. job'[r] = j /\ \A q \in Requests \ {r} : job'[q] = job[q]
  BY JobAfter
<1>2. UNCHANGED <<recs, had>>
  BY DEF recVars
<1>3. NoShortcut' /\ \A x \in Recs : recs'[x] # None => "SENT" \in had'[x] /\ recs'[x].status \in had'[x]
  BY <1>2 DEF RecInv, NoShortcut
<1>4. Alone'
  BY <1>1 DEF RecInv, Alone
<1>5. \A q \in Requests : RecSound(job[q])'
  BY <1>1, <1>2 DEF RecInv, RecSound
<1> QED
  BY <1>3, <1>4, <1>5 DEF RecInv

LEMMA ClubKept ==
  ASSUME TypeOK, ClubInv, NEW r \in Requests, NEW j, JobIs(r, j), UNCHANGED clubs, ClubSound(j)
  PROVE  ClubInv'
<1>1. job'[r] = j /\ \A q \in Requests \ {r} : job'[q] = job[q]
  BY JobAfter
<1>2. \A q \in Requests : ClubSound(job[q])'
  BY <1>1 DEF ClubInv, ClubSound
<1> QED
  BY <1>2 DEF ClubInv

LEMMA ChallengeKept ==
  ASSUME TypeOK, ChallengeInv, NEW r \in Requests, NEW j, JobIs(r, j), UNCHANGED <<taking, reported>>,
         ChallengeSound(j)
  PROVE  ChallengeInv'
<1>1. job'[r] = j /\ \A q \in Requests \ {r} : job'[q] = job[q]
  BY JobAfter
<1>2. \A q \in Requests : ChallengeSound(job[q])'
  BY <1>1 DEF ChallengeInv, ChallengeSound
<1> QED
  BY <1>2 DEF ChallengeInv

LEMMA BadgeKept ==
  ASSUME TypeOK, BadgeInv, NEW r \in Requests, NEW j, JobIs(r, j), UNCHANGED badgeVars, BadgeSound(j)
  PROVE  BadgeInv'
<1>1. job'[r] = j /\ \A q \in Requests \ {r} : job'[q] = job[q]
  BY JobAfter
<1>2. UNCHANGED <<badges, metric, best>>
  BY DEF badgeVars
<1>3. \A q \in Requests : BadgeSound(job[q])'
  BY <1>1, <1>2 DEF BadgeInv, BadgeSound
<1> QED
  BY <1>2, <1>3 DEF BadgeInv

\* A step that only changes what one request has read.
LEMMA JobOnly ==
  ASSUME IInv, NEW r \in Requests, NEW j, JobIs(r, j),
         UNCHANGED <<recVars, clubs, challengeVars, badgeVars>>,
         RecSound(j), ClubSound(j), ChallengeSound(j), BadgeSound(j),
         j.op = "recommend" => \A q \in Requests : job[q].op = "recommend" => job[q].rec # j.rec
  PROVE  IInv'
<1>1. UNCHANGED <<taking, reported>>
  BY DEF challengeVars
<1>2. RecInv' /\ ClubInv' /\ ChallengeInv' /\ BadgeInv'
  BY <1>1, RecKept, ClubKept, ChallengeKept, BadgeKept DEF IInv
<1>3. TypeOK'
  BY JobAfter DEF IInv, TypeOK, recVars, challengeVars, badgeVars
<1> QED
  BY <1>2, <1>3 DEF IInv

\* A step that leaves all requests alone, and the components it is not about.
LEMMA Unasked ==
  ASSUME UNCHANGED job
  PROVE  /\ RecInv /\ UNCHANGED recVars => RecInv'
         /\ ClubInv /\ UNCHANGED clubs => ClubInv'
         /\ ChallengeInv /\ UNCHANGED <<taking, reported>> => ChallengeInv'
         /\ BadgeInv /\ UNCHANGED badgeVars => BadgeInv'
<1>1. RecInv /\ UNCHANGED recVars => RecInv'
  BY DEF RecInv, recVars, RecSound, NoShortcut, Alone
<1>2. ClubInv /\ UNCHANGED clubs => ClubInv'
  BY DEF ClubInv, ClubSound
<1>3. ChallengeInv /\ UNCHANGED <<taking, reported>> => ChallengeInv'
  BY DEF ChallengeInv, ChallengeSound
<1>4. BadgeInv /\ UNCHANGED badgeVars => BadgeInv'
  BY DEF BadgeInv, BadgeSound, badgeVars
<1> QED
  BY <1>1, <1>2, <1>3, <1>4

LEMMA InitSafe == ASSUME Init PROVE IInv
<1>1. \A r \in Requests : job[r] = Idle
  BY DEF Init
<1>2. TypeOK
  BY IdleSound DEF Init, TypeOK
<1>3. RecInv
  BY <1>1, IdleSound DEF Init, RecInv, NoShortcut, Alone, Idle
<1>4. ClubInv /\ ChallengeInv
  BY <1>1, IdleSound DEF Init, ClubInv, ChallengeInv
<1>5. BadgeInv
  BY <1>1, IdleSound DEF Init, BadgeInv
<1> QED
  BY <1>2, <1>3, <1>4, <1>5 DEF IInv
-----------------------------------------------------------------------------
(* Recommendations *)

LEMMA RecSteps ==
  ASSUME IInv, RecNext
  PROVE  IInv'
<1> USE DEF IInv
<1>1. ASSUME NEW u \in Users, NEW v \in Users, Befriend(u, v) PROVE IInv'
  <2>1. UNCHANGED <<recs, had, clubs, challenges, taking, reported, badgeVars, job>> /\ friends' \subseteq SUBSET Users
    BY <1>1 DEF Befriend, challengeVars, TypeOK
  <2>2. RecInv'
    BY <2>1 DEF RecInv, RecSound, NoShortcut, Alone
  <2>3. TypeOK'
    BY <2>1 DEF TypeOK, badgeVars
  <2> QED
    BY <2>1, <2>2, <2>3, Unasked
<1>2. ASSUME NEW r \in Requests, NEW u \in Users, NEW v \in Users, NEW x \in Recs, Recommend(r, u, v, x)
      PROVE  IInv'
  <2> DEFINE j == [op |-> "recommend", by |-> u, to |-> v, rec |-> x]
  <2>1. j \in Job
    BY JobSet DEF Recommending
  <2>2. /\ JobIs(r, j) /\ UNCHANGED <<recVars, clubs, challengeVars, badgeVars>>
        /\ recs[x] = None /\ \A q \in Requests : job[q].op = "recommend" => job[q].rec # x
    BY <1>2, <2>1 DEF Recommend, Start, JobIs
  <2>3. RecSound(j) /\ ClubSound(j) /\ ChallengeSound(j) /\ BadgeSound(j) /\ j.rec = x
    BY <2>2 DEF RecSound, ClubSound, ChallengeSound, BadgeSound
  <2> HIDE DEF j
  <2> QED
    BY <2>2, <2>3, JobOnly
<1>3. ASSUME NEW r \in Requests, NEW u \in Users, NEW x \in Recs, NEW s \in RecStatus,
             NEW g \in Ratings \cup {None}, UpdateRec(r, u, x, s, g)
      PROVE  IInv'
  <2> DEFINE j == [op |-> "update", rec |-> x, status |-> s, rating |-> g]
  <2>1. /\ recs[x] # None /\ recs[x] \in Rec /\ recs[x].status \in had[x] /\ recs[x].status \in RecStatus
        /\ s \in Allowed[recs[x].status] /\ (s = "RATED" <=> g # None)
    BY <1>3 DEF UpdateRec, TypeOK, Rec, RecInv
  <2>2. s # "SENT"
    BY <2>1, AllowedIs
  <2>3. j \in Job
    BY <2>2, JobSet DEF Updating
  <2>4. JobIs(r, j) /\ UNCHANGED <<recVars, clubs, challengeVars, badgeVars>>
    BY <1>3, <2>3 DEF UpdateRec, Start, JobIs
  <2>5. RecSound(j) /\ ClubSound(j) /\ ChallengeSound(j) /\ BadgeSound(j) /\ j.op = "update"
    BY <2>1 DEF RecSound, ClubSound, ChallengeSound, BadgeSound
  <2> HIDE DEF j
  <2> QED
    BY <2>4, <2>5, JobOnly
<1>4. ASSUME NEW r \in Requests, CommitRecommend(r) PROVE IInv'
  <2> DEFINE x == job[r].rec
             row == [from |-> job[r].by, to |-> job[r].to, status |-> "SENT", rating |-> None]
  <2>1. job[r] \in Recommending /\ x \in Recs /\ recs[x] = None /\ job[r].op = "recommend"
    <3>1. job[r].op = "recommend" /\ job[r] \in Job /\ RecSound(job[r])
      BY <1>4 DEF CommitRecommend, TypeOK, RecInv
    <3>2. job[r] \in Recommending
      BY <3>1, JobKinds
    <3> QED
      BY <3>1, <3>2 DEF TypeOK, RecSound, Recommending
  <2>2. row \in Rec /\ row # None /\ row.status = "SENT" /\ row.rating = None
    <3>1. row \in Rec
      BY <2>1 DEF Rec, RecStatus, Recommending
    <3> QED
      BY <3>1, GroupAssumption
  <2>3. /\ recs' = [recs EXCEPT ![x] = row] /\ had' = [had EXCEPT ![x] = {"SENT"}]
        /\ JobIs(r, Idle) /\ UNCHANGED <<friends, clubs, challenges, taking, reported, badgeVars>>
    BY <1>4, IdleSound DEF CommitRecommend, Finish, JobIs, challengeVars
  <2> HIDE DEF x, row
  <2>4. job' \in [Requests -> Job] /\ job'[r] = Idle /\ \A q \in Requests \ {r} : job'[q] = job[q]
    BY <2>3, JobAfter
  <2>5. TypeOK'
    BY <2>1, <2>2, <2>3, <2>4 DEF TypeOK, RecStatus, badgeVars
  <2>6. NoShortcut' /\ \A y \in Recs : recs'[y] # None => "SENT" \in had'[y] /\ recs'[y].status \in had'[y]
    BY <2>1, <2>2, <2>3 DEF TypeOK, NoShortcut, RecInv
  <2>7. Alone'
    BY <2>4, IdleSound DEF RecInv, Alone, Idle
  <2>8. ASSUME NEW q \in Requests, q # r PROVE RecSound(job[q])'
    <3>1. job'[q] = job[q] /\ RecSound(job[q]) /\ job[q] \in Job
      BY <2>4, <2>8 DEF RecInv, TypeOK
    <3>2. CASE job[q].op = "recommend"
      <4>1. job[q].rec # x
        BY <2>1, <2>8, <3>2 DEF RecInv, Alone, x
      <4> QED
        BY <2>1, <2>3, <3>1, <3>2, <4>1 DEF RecSound, TypeOK
    <3>3. CASE job[q].op = "update"
      <4>1. job[q].rec # x
        BY <2>1, <3>1, <3>3 DEF RecSound
      <4> QED
        BY <2>1, <2>3, <3>1, <3>3, <4>1 DEF RecSound, TypeOK
    <3>4. CASE job[q].op = "scrobble"
      <4>1. x \notin job[q].recs /\ job[q].recs \subseteq Recs
        BY <2>1, <3>1, <3>4, JobKinds DEF RecSound, Scrobbling
      <4> QED
        BY <2>1, <2>3, <3>1, <3>4, <4>1 DEF RecSound, TypeOK
    <3> QED
      BY <3>1, <3>2, <3>3, <3>4 DEF RecSound
  <2>9. RecSound(job[r])'
    BY <2>4 DEF RecSound, Idle
  <2>10. RecInv'
    BY <2>6, <2>7, <2>8, <2>9 DEF RecInv
  <2> QED
    BY <2>3, <2>5, <2>10, IdleSound, ClubKept, ChallengeKept, BadgeKept
<1>5. ASSUME NEW r \in Requests, CommitUpdateRec(r) PROVE IInv'
  <2> DEFINE x == job[r].rec
             s == job[r].status
             g == job[r].rating
             row == [recs[x] EXCEPT !.status = s, !.rating = IF g = None THEN @ ELSE g]
  <2>1. job[r] \in Updating /\ x \in Recs /\ recs[x] # None /\ recs[x] \in Rec /\ RecSound(job[r])
        /\ job[r].op = "update"
    <3>1. job[r].op = "update" /\ job[r] \in Job /\ RecSound(job[r])
      BY <1>5 DEF CommitUpdateRec, TypeOK, RecInv
    <3>2. job[r] \in Updating
      BY <3>1, JobKinds
    <3> QED
      BY <3>1, <3>2 DEF TypeOK, RecSound, Updating
  <2>2. PICK t \in had[x] : s \in Allowed[t]
    BY <2>1 DEF RecSound
  <2>3. /\ row \in Rec /\ row # None /\ row.status = s
        /\ row.rating = IF g = None THEN recs[x].rating ELSE g
    <3>1. row \in Rec /\ row.status = s /\ row.rating = IF g = None THEN recs[x].rating ELSE g
      BY <2>1 DEF Rec, Updating
    <3> QED
      BY <3>1, GroupAssumption
  <2>4. /\ recs' = [recs EXCEPT ![x] = row] /\ had' = [had EXCEPT ![x] = @ \cup {s}]
        /\ JobIs(r, Idle) /\ UNCHANGED <<friends, clubs, challenges, taking, reported, badgeVars>>
    BY <1>5, IdleSound DEF CommitUpdateRec, Finish, JobIs, challengeVars
  <2>5. s \in RecStatus \ {"SENT"} /\ t \in RecStatus /\ (g # None => s = "RATED")
    BY <2>1, <2>2 DEF Updating, TypeOK, RecSound
  <2> HIDE DEF x, row, s, g
  <2>6. job' \in [Requests -> Job] /\ job'[r] = Idle /\ \A q \in Requests \ {r} : job'[q] = job[q]
    BY <2>4, JobAfter
  <2>7. had'[x] = had[x] \cup {s} /\ \A y \in Recs \ {x} : had'[y] = had[y] /\ recs'[y] = recs[y]
    BY <2>1, <2>4 DEF TypeOK
  <2>8. recs'[x] = row /\ \A y \in Recs : recs'[y] # None <=> recs[y] # None
    BY <2>1, <2>3, <2>4, <2>7 DEF TypeOK
  <2>9. TypeOK'
    BY <2>1, <2>3, <2>4, <2>5, <2>6 DEF TypeOK, badgeVars
  <2>10. /\ had[x] \subseteq RecStatus /\ "SENT" \in had[x]
         /\ \A a \in had[x] \ {"SENT"} : \E b \in had[x] : a \in Allowed[b]
    BY <2>1 DEF TypeOK, RecInv, NoShortcut
  <2>11. g # None => {"SENT", "ACCEPTED", "WATCHED", "RATED"} \subseteq had'[x]
    <3> SUFFICES ASSUME g # None PROVE {"SENT", "ACCEPTED", "WATCHED", "RATED"} \subseteq had'[x]
      OBVIOUS
    <3>1. s = "RATED" /\ t = "WATCHED"
      BY <2>2, <2>5, AllowedIs
    <3>2. "ACCEPTED" \in had[x]
      BY <2>2, <2>10, <3>1, AllowedIs
    <3> QED
      BY <2>2, <2>7, <2>10, <3>1, <3>2
  <2>12. NoShortcut'
    <3> SUFFICES ASSUME NEW y \in Recs, recs'[y] # None
                 PROVE  /\ \A a \in had'[y] \ {"SENT"} : \E b \in had'[y] : a \in Allowed[b]
                        /\ recs'[y].rating # None => {"SENT", "ACCEPTED", "WATCHED", "RATED"} \subseteq had'[y]
      BY DEF NoShortcut
    <3>1. CASE y = x
      <4>1. \A a \in had'[x] \ {"SENT"} : \E b \in had'[x] : a \in Allowed[b]
        BY <2>2, <2>7, <2>10
      <4>2. recs[x].rating # None => {"SENT", "ACCEPTED", "WATCHED", "RATED"} \subseteq had[x]
        BY <2>1 DEF RecInv, NoShortcut
      <4> QED
        BY <2>3, <2>7, <2>8, <2>11, <3>1, <4>1, <4>2
    <3>2. CASE y # x
      BY <2>7, <2>8, <3>2 DEF RecInv, NoShortcut
    <3> QED
      BY <3>1, <3>2
  <2>13. \A y \in Recs : recs'[y] # None => "SENT" \in had'[y] /\ recs'[y].status \in had'[y]
    BY <2>3, <2>7, <2>8, <2>10 DEF RecInv
  <2>14. Alone'
    BY <2>6 DEF RecInv, Alone, Idle
  <2>15. ASSUME NEW q \in Requests, q # r PROVE RecSound(job[q])'
    <3>1. job'[q] = job[q] /\ RecSound(job[q]) /\ job[q] \in Job
      BY <2>6, <2>15 DEF RecInv, TypeOK
    <3>2. \A y \in Recs : had[y] \subseteq had'[y]
      BY <2>7
    <3> QED
      BY <2>8, <3>1, <3>2, JobKinds DEF RecSound, Recommending, Updating, Scrobbling
  <2>16. RecSound(job[r])'
    BY <2>6 DEF RecSound, Idle
  <2>17. RecInv'
    BY <2>12, <2>13, <2>14, <2>15, <2>16 DEF RecInv
  <2> QED
    BY <2>4, <2>9, <2>17, IdleSound, ClubKept, ChallengeKept, BadgeKept
<1>6. ASSUME NEW r \in Requests, CommitScrobble(r) PROVE IInv'
  <2> DEFINE xs == job[r].recs
  <2>1. job[r] \in Scrobbling /\ xs \subseteq Recs /\ \A x \in xs : recs[x] # None /\ "ACCEPTED" \in had[x]
    <3>1. job[r].op = "scrobble" /\ job[r] \in Job /\ RecSound(job[r])
      BY <1>6 DEF CommitScrobble, TypeOK, RecInv
    <3>2. job[r] \in Scrobbling
      BY <3>1, JobKinds
    <3> QED
      BY <3>1, <3>2 DEF TypeOK, RecSound, Scrobbling
  <2>2. /\ recs' = [x \in Recs |-> IF x \in xs THEN [recs[x] EXCEPT !.status = "WATCHED"] ELSE recs[x]]
        /\ had' = [x \in Recs |-> IF x \in xs THEN had[x] \cup {"WATCHED"} ELSE had[x]]
        /\ JobIs(r, Idle) /\ UNCHANGED <<friends, clubs, challenges, taking, reported, badgeVars>>
    BY <1>6, IdleSound DEF CommitScrobble, Finish, JobIs, challengeVars
  <2> HIDE DEF xs
  <2>3. ASSUME NEW x \in xs
        PROVE  recs'[x] \in Rec /\ recs'[x] # None /\ recs'[x].status = "WATCHED" /\ recs'[x].rating = recs[x].rating
    <3>1. recs[x] \in Rec /\ recs'[x] = [recs[x] EXCEPT !.status = "WATCHED"]
      BY <2>1, <2>2 DEF TypeOK
    <3>2. recs'[x] \in Rec /\ recs'[x].status = "WATCHED" /\ recs'[x].rating = recs[x].rating
      BY <3>1 DEF Rec, RecStatus
    <3> QED
      BY <3>2, GroupAssumption
  <2>4. \A x \in Recs \ xs : recs'[x] = recs[x] /\ had'[x] = had[x]
    BY <2>2
  <2>5. \A x \in xs : had'[x] = had[x] \cup {"WATCHED"}
    BY <2>1, <2>2
  <2>6. job' \in [Requests -> Job] /\ job'[r] = Idle /\ \A q \in Requests \ {r} : job'[q] = job[q]
    BY <2>2, JobAfter
  <2>7. TypeOK'
    <3>1. recs' \in [Recs -> Rec \cup {None}]
      BY <2>2, <2>3, <2>4 DEF TypeOK
    <3>2. had' \in [Recs -> SUBSET RecStatus]
      BY <2>2 DEF TypeOK, RecStatus
    <3> QED
      BY <2>2, <2>6, <3>1, <3>2 DEF TypeOK, badgeVars
  <2>8. \A y \in Recs : (recs'[y] # None <=> recs[y] # None) /\ had[y] \subseteq had'[y]
    BY <2>1, <2>3, <2>4, <2>5
  <2>9. NoShortcut'
    <3> SUFFICES ASSUME NEW y \in Recs, recs'[y] # None
                 PROVE  /\ \A a \in had'[y] \ {"SENT"} : \E b \in had'[y] : a \in Allowed[b]
                        /\ recs'[y].rating # None => {"SENT", "ACCEPTED", "WATCHED", "RATED"} \subseteq had'[y]
      BY DEF NoShortcut
    <3>1. /\ \A a \in had[y] \ {"SENT"} : \E b \in had[y] : a \in Allowed[b]
          /\ recs[y].rating # None => {"SENT", "ACCEPTED", "WATCHED", "RATED"} \subseteq had[y]
      BY <2>8 DEF RecInv, NoShortcut
    <3>2. CASE y \in xs
      <4>1. "ACCEPTED" \in had[y] /\ "WATCHED" \in Allowed["ACCEPTED"]
        BY <2>1, <3>2, AllowedIs DEF RecStatus
      <4> QED
        BY <2>3, <2>5, <3>1, <3>2, <4>1
    <3>3. CASE y \notin xs
      BY <2>4, <3>1, <3>3
    <3> QED
      BY <3>2, <3>3
  <2>10. \A y \in Recs : recs'[y] # None => "SENT" \in had'[y] /\ recs'[y].status \in had'[y]
    BY <2>3, <2>4, <2>5, <2>8 DEF RecInv
  <2>11. Alone'
    BY <2>6 DEF RecInv, Alone, Idle
  <2>12. ASSUME NEW q \in Requests, q # r PROVE RecSound(job[q])'
    <3>1. job'[q] = job[q] /\ RecSound(job[q]) /\ job[q] \in Job
      BY <2>6, <2>12 DEF RecInv, TypeOK
    <3> QED
      BY <2>8, <3>1, JobKinds DEF RecSound, Recommending, Updating, Scrobbling
  <2>13. RecSound(job[r])'
    BY <2>6 DEF RecSound, Idle
  <2>14. RecInv'
    BY <2>9, <2>10, <2>11, <2>12, <2>13 DEF RecInv
  <2> QED
    BY <2>2, <2>7, <2>14, IdleSound, ClubKept, ChallengeKept, BadgeKept
<1>7. ASSUME NEW r \in Requests, NEW u \in Users, NEW title, Scrobble(r, u, title) PROVE IInv'
  <2> DEFINE accepted == {x \in Recs : /\ TitleOf[x] = title
                                       /\ recs[x] # None /\ recs[x].to = u /\ recs[x].status = "ACCEPTED"}
             j == [op |-> "scrobble", recs |-> accepted]
  <2>1. j \in Job
    BY JobSet DEF Scrobbling
  <2>2. JobIs(r, j) /\ UNCHANGED <<recVars, clubs, challengeVars, badgeVars>>
    BY <1>7, <2>1 DEF Scrobble, Start, JobIs
  <2>3. \A x \in accepted : recs[x] # None /\ "ACCEPTED" \in had[x]
    BY DEF RecInv
  <2> HIDE DEF accepted
  <2>4. RecSound(j) /\ ClubSound(j) /\ ChallengeSound(j) /\ BadgeSound(j) /\ j.op = "scrobble"
    BY <2>3 DEF RecSound, ClubSound, ChallengeSound, BadgeSound
  <2> HIDE DEF j
  <2> QED
    BY <2>2, <2>4, JobOnly
<1> QED
  BY <1>1, <1>2, <1>3, <1>4, <1>5, <1>6, <1>7 DEF RecNext
-----------------------------------------------------------------------------
(* Clubs *)

LEMMA ClubSteps ==
  ASSUME IInv, ClubNext
  PROVE  IInv'
<1> USE DEF IInv
<1>1. ASSUME NEW u \in Users, NEW c \in Clubs, CreateClub(u, c) PROVE IInv'
  <2> DEFINE row == [count |-> 1, members |-> {u}]
  <2>1. /\ clubs[c] = None /\ clubs' = [clubs EXCEPT ![c] = row]
        /\ UNCHANGED <<recVars, challenges, taking, reported, badgeVars, job>>
    BY <1>1 DEF CreateClub, challengeVars
  <2>2. row \in Club /\ row # None
    <3>1. row \in Club
      BY DEF Club
    <3> QED
      BY <3>1, GroupAssumption
  <2>3. IsFiniteSet(row.members) /\ row.count \in 1..Cardinality(row.members)
    <3>1. IsFiniteSet({u}) /\ Cardinality({u}) = 1
      BY FS_Singleton
    <3> QED
      BY <3>1
  <2> HIDE DEF row
  <2>4. TypeOK'
    BY <2>1, <2>2 DEF TypeOK, recVars, badgeVars
  <2>5. \A r \in Requests : ClubSound(job[r])'
    <3>1. ASSUME NEW r \in Requests, job[r].op = "join club"
          PROVE  job[r].club \in Clubs /\ job[r].club # c /\ ClubSound(job[r])
      <4>1. job[r] \in Job /\ ClubSound(job[r])
        BY DEF TypeOK, ClubInv
      <4>2. job[r] \in JoiningClub
        BY <3>1, <4>1, JobKinds
      <4> QED
        BY <2>1, <3>1, <4>1, <4>2 DEF ClubSound, JoiningClub
    <3> QED
      BY <2>1, <3>1 DEF TypeOK, ClubSound
  <2>6. ClubInv'
    BY <2>1, <2>2, <2>3, <2>5 DEF TypeOK, ClubInv
  <2> QED
    BY <2>1, <2>4, <2>6, Unasked
<1>2. ASSUME NEW r \in Requests, NEW u \in Users, NEW c \in Clubs, JoinClub(r, u, c) PROVE IInv'
  <2> DEFINE j == [op |-> "join club", by |-> u, club |-> c, count |-> clubs[c].count, next |-> "membership"]
  <2>1. clubs[c] # None /\ clubs[c] \in Club /\ clubs[c].count \in 1..Cardinality(clubs[c].members)
    BY <1>2 DEF JoinClub, TypeOK, ClubInv
  <2>2. j \in Job
    BY <2>1, JobSet DEF JoiningClub, Club
  <2>3. JobIs(r, j) /\ UNCHANGED <<recVars, clubs, challengeVars, badgeVars>>
    BY <1>2, <2>2 DEF JoinClub, Start, JobIs
  <2>4. RecSound(j) /\ ClubSound(j) /\ ChallengeSound(j) /\ BadgeSound(j) /\ j.op = "join club"
    BY <2>1 DEF RecSound, ClubSound, ChallengeSound, BadgeSound
  <2> HIDE DEF j
  <2> QED
    BY <2>3, <2>4, JobOnly
<1>3. ASSUME NEW r \in Requests, ReadMembership(r) PROVE IInv'
  <2>1. UNCHANGED <<recVars, clubs, challengeVars, badgeVars>> /\ ClubSound(job[r])
    BY <1>3 DEF ReadMembership, ClubInv
  <2>2. CASE job' = [job EXCEPT ![r] = Idle]
    BY <2>1, <2>2, IdleSound, JobOnly DEF JobIs, Idle
  <2>3. CASE job' = [job EXCEPT ![r].next = "write"]
    <3> DEFINE j == [job[r] EXCEPT !.next = "write"]
    <3>1. job[r].op = "join club" /\ job[r] \in Job
      BY <1>3 DEF ReadMembership, TypeOK
    <3>2. job[r] \in JoiningClub
      BY <3>1, JobKinds
    <3>3. j \in JoiningClub /\ j.op = "join club" /\ j.club = job[r].club /\ j.count = job[r].count
      BY <3>2 DEF JoiningClub
    <3>4. j \in Job
      BY <3>3, JobSet
    <3>5. JobIs(r, j)
      BY <2>3, <3>4 DEF JobIs
    <3> HIDE DEF j
    <3>6. RecSound(j) /\ ClubSound(j) /\ ChallengeSound(j) /\ BadgeSound(j)
      BY <2>1, <3>1, <3>3 DEF RecSound, ClubSound, ChallengeSound, BadgeSound
    <3> QED
      BY <2>1, <3>3, <3>5, <3>6, JobOnly
  <2> QED
    BY <1>3, <2>2, <2>3 DEF ReadMembership, Finish
<1>4. ASSUME NEW r \in Requests, CommitJoinClub(r) PROVE IInv'
  <2> DEFINE c == job[r].club
             row == [count |-> job[r].count + 1, members |-> clubs[c].members \cup {job[r].by}]
  <2>1. job[r] \in JoiningClub /\ c \in Clubs /\ ClubSound(job[r]) /\ job[r].op = "join club"
    <3>1. job[r].op = "join club" /\ job[r] \in Job /\ ClubSound(job[r])
      BY <1>4 DEF CommitJoinClub, TypeOK, ClubInv
    <3>2. job[r] \in JoiningClub
      BY <3>1, JobKinds
    <3> QED
      BY <3>1, <3>2 DEF JoiningClub
  <2>2. /\ clubs[c] # None /\ clubs[c] \in Club /\ IsFiniteSet(clubs[c].members)
        /\ job[r].count \in 1..Cardinality(clubs[c].members) /\ job[r].by \notin clubs[c].members
    BY <1>4, <2>1 DEF CommitJoinClub, ClubSound, ClubInv, TypeOK
  <2>3. /\ clubs' = [clubs EXCEPT ![c] = row] /\ JobIs(r, Idle)
        /\ UNCHANGED <<recVars, challenges, taking, reported, badgeVars>>
    BY <1>4, IdleSound DEF CommitJoinClub, Finish, JobIs, challengeVars
  <2>4. row \in Club /\ row # None
    <3>1. job[r].count \in Nat /\ job[r].by \in Users /\ clubs[c].members \subseteq Users
      BY <2>1, <2>2 DEF Club, JoiningClub
    <3>2. row \in Club
      BY <3>1 DEF Club
    <3> QED
      BY <3>2, GroupAssumption
  <2>5. /\ IsFiniteSet(row.members) /\ Cardinality(row.members) = Cardinality(clubs[c].members) + 1
        /\ Cardinality(clubs[c].members) \in Nat
    BY <2>2, FS_AddElement, FS_CardinalityType
  <2>6. row.count \in 1..Cardinality(row.members)
    BY <2>2, <2>5
  <2> HIDE DEF c, row
  <2>7. TypeOK'
    BY <2>1, <2>3, <2>4, JobAfter DEF TypeOK, recVars, badgeVars
  <2>8. job'[r] = Idle /\ \A q \in Requests \ {r} : job'[q] = job[q]
    BY <2>3, JobAfter
  <2>9. clubs'[c] = row /\ \A d \in Clubs \ {c} : clubs'[d] = clubs[d]
    BY <2>1, <2>3 DEF TypeOK
  <2>10. ASSUME NEW q \in Requests, q # r PROVE ClubSound(job[q])'
    <3>1. ClubSound(job[q]) /\ job'[q] = job[q] /\ job[q] \in Job
      BY <2>8, <2>10 DEF ClubInv, TypeOK
    <3>2. SUFFICES ASSUME job[q].op = "join club" PROVE ClubSound(job[q])'
      BY <3>1 DEF ClubSound
    <3>3. job[q].club \in Clubs /\ job[q].count \in Nat
      BY <3>1, <3>2, JobKinds DEF JoiningClub
    <3>4. CASE job[q].club = c
      <4>1. clubs'[job[q].club] = row /\ job[q].count \in 1..Cardinality(clubs[c].members)
        BY <2>9, <3>1, <3>2, <3>4 DEF ClubSound
      <4>2. job[q].count \in 1..Cardinality(row.members)
        BY <2>5, <4>1
      <4> QED
        BY <2>4, <3>1, <4>1, <4>2 DEF ClubSound
    <3>5. CASE job[q].club # c
      BY <2>9, <3>1, <3>2, <3>3, <3>5 DEF ClubSound
    <3> QED
      BY <3>4, <3>5
  <2>11. ClubSound(job[r])'
    BY <2>8 DEF ClubSound, Idle
  <2>12. ClubInv'
    BY <2>4, <2>5, <2>6, <2>9, <2>10, <2>11 DEF ClubInv
  <2> QED
    BY <2>3, <2>7, <2>12, IdleSound, RecKept, ChallengeKept, BadgeKept DEF Idle
<1> QED
  BY <1>1, <1>2, <1>3, <1>4 DEF ClubNext
-----------------------------------------------------------------------------
(* Challenges *)

LEMMA ChallengeSteps ==
  ASSUME IInv, ChallengeNext
  PROVE  IInv'
<1> USE DEF IInv
<1>1. ASSUME NEW h \in Challenges, CreateChallenge(h) \/ Pass(h) PROVE IInv'
  <2>1. UNCHANGED <<recVars, clubs, taking, reported, badgeVars, job>>
    BY <1>1 DEF CreateChallenge, Pass
  <2>2. challenges' \in [Challenges -> {"none", "ahead", "active", "over"}]
    BY <1>1 DEF CreateChallenge, Pass, TypeOK
  <2>3. TypeOK'
    BY <2>1, <2>2 DEF TypeOK, recVars, badgeVars
  <2> QED
    BY <2>1, <2>3, Unasked
<1>2. ASSUME NEW r \in Requests, NEW u \in Users, NEW h \in Challenges, JoinChallenge(r, u, h) PROVE IInv'
  <2> DEFINE j == [op |-> "join challenge", by |-> u, challenge |-> h]
  <2>1. j \in Job
    BY JobSet DEF Joining
  <2>2. JobIs(r, j) /\ UNCHANGED <<recVars, clubs, challengeVars, badgeVars>>
    BY <1>2, <2>1 DEF JoinChallenge, Start, JobIs
  <2>3. RecSound(j) /\ ClubSound(j) /\ ChallengeSound(j) /\ BadgeSound(j) /\ j.op = "join challenge"
    BY DEF RecSound, ClubSound, ChallengeSound, BadgeSound
  <2> HIDE DEF j
  <2> QED
    BY <2>2, <2>3, JobOnly
<1>3. ASSUME NEW r \in Requests, NEW u \in Users, NEW h \in Challenges, NEW add \in 1..MaxReport,
             Report(r, u, h, add)
      PROVE  IInv'
  <2> DEFINE j == [op |-> "report", by |-> u, challenge |-> h, add |-> add, next |-> "read"]
  <2>1. add \in Nat
    BY GroupAssumption
  <2>2. j \in Job
    BY <2>1, JobSet DEF Reading
  <2>3. JobIs(r, j) /\ UNCHANGED <<recVars, clubs, challengeVars, badgeVars>>
    BY <1>3, <2>2 DEF Report, Start, JobIs
  <2>4. RecSound(j) /\ ClubSound(j) /\ ChallengeSound(j) /\ BadgeSound(j) /\ j.op = "report"
    BY DEF RecSound, ClubSound, ChallengeSound, BadgeSound
  <2> HIDE DEF j
  <2> QED
    BY <2>3, <2>4, JobOnly
<1>4. ASSUME NEW r \in Requests, CommitJoinChallenge(r) PROVE IInv'
  <2> DEFINE p == <<job[r].challenge, job[r].by>>
             row == [progress |-> 0, completed |-> FALSE]
  <2>1. p \in Challenges \X Users
    <3>1. job[r].op = "join challenge" /\ job[r] \in Job
      BY <1>4 DEF CommitJoinChallenge, TypeOK
    <3>2. job[r] \in Joining
      BY <3>1, JobKinds
    <3> QED
      BY <3>2 DEF Joining
  <2>2. /\ taking[p] = None /\ taking' = [taking EXCEPT ![p] = row] /\ JobIs(r, Idle)
        /\ UNCHANGED <<recVars, clubs, challenges, reported, badgeVars>>
    BY <1>4, IdleSound DEF CommitJoinChallenge, Finish, JobIs
  <2>3. row \in Taker /\ row # None /\ row.progress = 0
    <3>1. row \in Taker
      BY DEF Taker
    <3> QED
      BY <3>1, GroupAssumption
  <2> HIDE DEF p, row
  <2>4. TypeOK'
    BY <2>1, <2>2, <2>3, JobAfter DEF TypeOK, recVars, badgeVars
  <2>5. job'[r] = Idle /\ \A q \in Requests \ {r} : job'[q] = job[q]
    BY <2>2, JobAfter
  <2>6. taking'[p] = row /\ \A o \in (Challenges \X Users) \ {p} : taking'[o] = taking[o]
    BY <2>1, <2>2 DEF TypeOK
  <2>7. reported[p] \in Nat
    BY <2>1 DEF TypeOK
  <2>8. \A o \in Challenges \X Users : taking'[o] # None =>
          taking'[o].progress <= reported'[o] /\ (taking'[o].progress >= Goal => taking'[o].completed)
    BY <2>2, <2>3, <2>6, <2>7, GroupAssumption DEF ChallengeInv
  <2>9. ASSUME NEW q \in Requests, q # r PROVE ChallengeSound(job[q])'
    <3>1. ChallengeSound(job[q]) /\ job'[q] = job[q] /\ job[q] \in Job
      BY <2>5, <2>9 DEF ChallengeInv, TypeOK
    <3>2. SUFFICES ASSUME job[q].op = "report", job[q].next = "write" PROVE ChallengeSound(job[q])'
      BY <3>1 DEF ChallengeSound
    <3>3. job[q] \in Reporting
      BY <3>1, <3>2, JobKinds
    <3>4. <<job[q].challenge, job[q].by>> \in (Challenges \X Users) \ {p}
      BY <2>2, <3>1, <3>2, <3>3 DEF ChallengeSound, Reporting
    <3> QED
      BY <2>2, <2>6, <3>1, <3>2, <3>4 DEF ChallengeSound
  <2>10. ChallengeSound(job[r])'
    BY <2>5 DEF ChallengeSound, Idle
  <2>11. ChallengeInv'
    BY <2>8, <2>9, <2>10 DEF ChallengeInv
  <2> QED
    BY <2>2, <2>4, <2>11, IdleSound, RecKept, ClubKept, BadgeKept DEF Idle
<1>5. ASSUME NEW r \in Requests, ReadProgress(r) PROVE IInv'
  <2> DEFINE p == <<job[r].challenge, job[r].by>>
             j == [op |-> "report", by |-> job[r].by, challenge |-> job[r].challenge, add |-> job[r].add,
                   next |-> "write", was |-> taking[p]]
  <2>1. job[r] \in Reading
    <3>1. job[r].op = "report" /\ job[r].next = "read" /\ job[r] \in Job
      BY <1>5 DEF ReadProgress, TypeOK
    <3> QED
      BY <3>1, JobKinds
  <2>2. p \in Challenges \X Users /\ taking[p] # None /\ taking[p] \in Taker
    BY <1>5, <2>1 DEF ReadProgress, Reading, TypeOK
  <2>3. taking[p].progress <= reported[p] /\ (taking[p].progress >= Goal => taking[p].completed)
    BY <2>2 DEF ChallengeInv
  <2>4. j \in Job
    BY <2>1, <2>2, JobSet DEF Reading, Reporting
  <2>5. JobIs(r, j) /\ UNCHANGED <<recVars, clubs, challengeVars, badgeVars>>
    BY <1>5, <2>4 DEF ReadProgress, JobIs
  <2>6. RecSound(j) /\ ClubSound(j) /\ ChallengeSound(j) /\ BadgeSound(j) /\ j.op = "report"
    BY <2>2, <2>3 DEF RecSound, ClubSound, ChallengeSound, BadgeSound
  <2> HIDE DEF j
  <2> QED
    BY <2>5, <2>6, JobOnly
<1>6. ASSUME NEW r \in Requests, CommitReport(r) PROVE IInv'
  <2> DEFINE p == <<job[r].challenge, job[r].by>>
             was == job[r].was
             n == was.progress + job[r].add
             done == taking[p].completed \/ (n >= Goal /\ ~was.completed)
             row == [taking[p] EXCEPT !.progress = n, !.completed = done]
  <2>1. /\ p \in Challenges \X Users /\ was \in Taker /\ job[r].add \in Nat
        /\ taking[p] # None /\ taking[p] \in Taker /\ was.progress <= reported[p]
        /\ (was.progress >= Goal => was.completed) /\ (was.completed => taking[p].completed)
    <3>1. job[r].op = "report" /\ job[r].next = "write" /\ job[r] \in Job /\ ChallengeSound(job[r])
      BY <1>6 DEF CommitReport, TypeOK, ChallengeInv
    <3>2. job[r] \in Reporting
      BY <3>1, JobKinds
    <3> QED
      BY <3>1, <3>2 DEF Reporting, ChallengeSound, TypeOK
  <2>2. /\ taking' = [taking EXCEPT ![p] = row] /\ reported' = [reported EXCEPT ![p] = @ + job[r].add]
        /\ JobIs(r, Idle) /\ UNCHANGED <<recVars, clubs, challenges, badgeVars>>
    BY <1>6, IdleSound DEF CommitReport, Finish, JobIs
  <2>3. n \in Nat /\ reported[p] \in Nat /\ n <= reported[p] + job[r].add /\ done \in BOOLEAN
    BY <2>1 DEF TypeOK, Taker
  <2>4. (n >= Goal => done) /\ (taking[p].completed => done)
    BY <2>1
  <2> HIDE DEF n, done
  <2>5. row \in Taker /\ row # None /\ row.progress = n /\ row.completed = done
    <3>1. row \in Taker /\ row.progress = n /\ row.completed = done
      BY <2>1, <2>3 DEF Taker
    <3> QED
      BY <3>1, GroupAssumption
  <2> HIDE DEF p, row, was
  <2>6. job'[r] = Idle /\ \A q \in Requests \ {r} : job'[q] = job[q]
    BY <2>2, JobAfter
  <2>7. /\ taking'[p] = row /\ reported'[p] = reported[p] + job[r].add
        /\ \A o \in (Challenges \X Users) \ {p} : taking'[o] = taking[o] /\ reported'[o] = reported[o]
    BY <2>1, <2>2 DEF TypeOK
  <2>8. TypeOK'
    <3>1. reported' \in [Challenges \X Users -> Nat] /\ taking' \in [Challenges \X Users -> Taker \cup {None}]
      BY <2>1, <2>2, <2>3, <2>5 DEF TypeOK
    <3> QED
      BY <2>2, <3>1, JobAfter DEF TypeOK, recVars, badgeVars
  <2>9. \A o \in Challenges \X Users : taking'[o] # None =>
          taking'[o].progress <= reported'[o] /\ (taking'[o].progress >= Goal => taking'[o].completed)
    BY <2>3, <2>4, <2>5, <2>7 DEF ChallengeInv
  <2>10. ASSUME NEW q \in Requests, q # r PROVE ChallengeSound(job[q])'
    <3>1. ChallengeSound(job[q]) /\ job'[q] = job[q] /\ job[q] \in Job
      BY <2>6, <2>10 DEF ChallengeInv, TypeOK
    <3>2. SUFFICES ASSUME job[q].op = "report", job[q].next = "write" PROVE ChallengeSound(job[q])'
      BY <3>1 DEF ChallengeSound
    <3>3. job[q] \in Reporting
      BY <3>1, <3>2, JobKinds
    <3> DEFINE o == <<job[q].challenge, job[q].by>>
    <3>4. o \in Challenges \X Users /\ job[q].was.progress \in Nat
      BY <3>3 DEF Reporting, Taker
    <3>5. /\ taking[o] # None /\ job[q].was.progress <= reported[o]
          /\ (job[q].was.progress >= Goal => job[q].was.completed) /\ (job[q].was.completed => taking[o].completed)
      BY <3>1, <3>2 DEF ChallengeSound
    <3>6. taking'[o] # None /\ reported[o] <= reported'[o] /\ (taking[o].completed => taking'[o].completed)
          /\ reported[o] \in Nat /\ reported'[o] \in Nat
      BY <2>1, <2>3, <2>4, <2>5, <2>7, <3>4, <3>5 DEF TypeOK
    <3>7. /\ taking'[o] # None /\ job[q].was.progress <= reported'[o]
          /\ (job[q].was.completed => taking'[o].completed)
      BY <3>4, <3>5, <3>6
    <3> QED
      BY <3>1, <3>5, <3>7 DEF ChallengeSound
  <2>11. ChallengeSound(job[r])'
    BY <2>6 DEF ChallengeSound, Idle
  <2>12. ChallengeInv'
    BY <2>9, <2>10, <2>11 DEF ChallengeInv
  <2> QED
    BY <2>2, <2>8, <2>12, IdleSound, RecKept, ClubKept, BadgeKept DEF Idle
<1> QED
  BY <1>1, <1>2, <1>3, <1>4, <1>5, <1>6 DEF ChallengeNext
-----------------------------------------------------------------------------
(* Badges *)

LEMMA BadgeSteps ==
  ASSUME IInv, BadgeNext
  PROVE  IInv'
<1> USE DEF IInv
<1>1. ASSUME NEW u \in Users, NEW n \in 0..MaxMetric, Live(u, n) PROVE IInv'
  <2>1. /\ metric' = [metric EXCEPT ![u] = n] /\ best' = [best EXCEPT ![u] = IF n > @ THEN n ELSE @]
        /\ UNCHANGED <<recVars, clubs, challenges, taking, reported, badges, job>>
    BY <1>1 DEF Live, challengeVars
  <2>2. n \in Nat /\ metric \in [Users -> Nat] /\ best \in [Users -> Nat]
    BY GroupAssumption DEF TypeOK
  <2>3. /\ metric' \in [Users -> Nat] /\ best' \in [Users -> Nat]
        /\ \A v \in Users : best'[v] >= best[v] /\ (best[v] >= metric[v] => best'[v] >= metric'[v])
    BY <2>1, <2>2
  <2>4. TypeOK'
    BY <2>1, <2>3 DEF TypeOK, recVars
  <2>5. \A v \in Users : best'[v] >= metric'[v]
    BY <2>3 DEF BadgeInv
  <2>6. \A v \in Users : \A b \in badges'[v] : best'[v] >= Threshold[b]
    <3>1. ASSUME NEW v \in Users, NEW b \in badges[v] PROVE best'[v] >= Threshold[b]
      <4>1. best[v] >= Threshold[b] /\ Threshold[b] \in Nat
        BY GroupAssumption DEF BadgeInv, TypeOK
      <4> QED
        BY <2>2, <2>3, <4>1
    <3> QED
      BY <2>1, <3>1
  <2>7. ASSUME NEW q \in Requests PROVE BadgeSound(job[q])'
    <3>1. BadgeSound(job[q]) /\ job'[q] = job[q] /\ job[q] \in Job
      BY <2>1 DEF BadgeInv, TypeOK
    <3>2. SUFFICES ASSUME job[q].op = "evaluate", job[q].next = "write" PROVE BadgeSound(job[q])'
      BY <3>1 DEF BadgeSound
    <3>3. job[q].by \in Users /\ job[q].unearned \subseteq Badges
      BY <3>1, <3>2, JobKinds DEF Evaluating
    <3>4. \A b \in job[q].unearned : best'[job[q].by] >= Threshold[b]
      <4>1. ASSUME NEW b \in job[q].unearned PROVE best'[job[q].by] >= Threshold[b]
        <5>1. best[job[q].by] >= Threshold[b] /\ Threshold[b] \in Nat
          BY <3>1, <3>2, <3>3, GroupAssumption DEF BadgeSound
        <5> QED
          BY <2>2, <2>3, <3>3, <5>1
      <4> QED
        BY <4>1
    <3> QED
      BY <3>1, <3>4 DEF BadgeSound
  <2>8. BadgeInv'
    BY <2>5, <2>6, <2>7 DEF BadgeInv
  <2> QED
    BY <2>1, <2>4, <2>8, Unasked
<1>2. ASSUME NEW r \in Requests, NEW u \in Users, Evaluate(r, u) PROVE IInv'
  <2> DEFINE j == [op |-> "evaluate", by |-> u, unearned |-> Badges \ badges[u], next |-> "metrics"]
  <2>1. j \in Job
    BY JobSet DEF Evaluating
  <2>2. JobIs(r, j) /\ UNCHANGED <<recVars, clubs, challengeVars, badgeVars>>
    BY <1>2, <2>1 DEF Evaluate, Start, JobIs
  <2>3. RecSound(j) /\ ClubSound(j) /\ ChallengeSound(j) /\ BadgeSound(j) /\ j.op = "evaluate"
    BY DEF RecSound, ClubSound, ChallengeSound, BadgeSound
  <2> HIDE DEF j
  <2> QED
    BY <2>2, <2>3, JobOnly
<1>3. ASSUME NEW r \in Requests, ReadMetrics(r) PROVE IInv'
  <2> DEFINE met == {b \in job[r].unearned : metric[job[r].by] >= Threshold[b]}
             j == [job[r] EXCEPT !.next = "write", !.unearned = met]
  <2>1. job[r] \in Evaluating
    <3>1. job[r].op = "evaluate" /\ job[r] \in Job
      BY <1>3 DEF ReadMetrics, TypeOK
    <3> QED
      BY <3>1, JobKinds
  <2>2. j \in Evaluating /\ j.op = "evaluate" /\ j.by = job[r].by /\ j.unearned = met
    BY <2>1 DEF Evaluating
  <2>3. j \in Job
    BY <2>2, JobSet
  <2>4. JobIs(r, j) /\ UNCHANGED <<recVars, clubs, challengeVars, badgeVars>>
    BY <1>3, <2>3 DEF ReadMetrics, JobIs
  <2>5. \A b \in met : best[job[r].by] >= Threshold[b]
    <3>1. ASSUME NEW b \in met PROVE best[job[r].by] >= Threshold[b]
      <4>1. job[r].by \in Users /\ b \in Badges /\ metric[job[r].by] >= Threshold[b]
        BY <2>1 DEF Evaluating
      <4>2. best[job[r].by] >= metric[job[r].by] /\ best[job[r].by] \in Nat /\ metric[job[r].by] \in Nat
        BY <4>1 DEF BadgeInv, TypeOK
      <4>3. Threshold[b] \in Nat
        BY <4>1, GroupAssumption
      <4> QED
        BY <4>1, <4>2, <4>3
    <3> QED
      BY <3>1
  <2> HIDE DEF j, met
  <2>6. RecSound(j) /\ ClubSound(j) /\ ChallengeSound(j) /\ BadgeSound(j)
    BY <2>2, <2>5 DEF RecSound, ClubSound, ChallengeSound, BadgeSound
  <2> QED
    BY <2>2, <2>4, <2>6, JobOnly
<1>4. ASSUME NEW r \in Requests, CommitBadges(r) PROVE IInv'
  <2> DEFINE u == job[r].by
             new == job[r].unearned
  <2>1. job[r] \in Evaluating /\ u \in Users /\ new \subseteq Badges
        /\ \A b \in new : best[u] >= Threshold[b]
    <3>1. job[r].op = "evaluate" /\ job[r].next = "write" /\ job[r] \in Job /\ BadgeSound(job[r])
      BY <1>4 DEF CommitBadges, TypeOK, BadgeInv
    <3>2. job[r] \in Evaluating
      BY <3>1, JobKinds
    <3> QED
      BY <3>1, <3>2 DEF BadgeSound, Evaluating
  <2>2. /\ badges' = [badges EXCEPT ![u] = @ \cup new] /\ JobIs(r, Idle)
        /\ UNCHANGED <<recVars, clubs, challenges, taking, reported, metric, best>>
    BY <1>4, IdleSound DEF CommitBadges, Finish, JobIs, challengeVars
  <2> HIDE DEF u, new
  <2>3. job'[r] = Idle /\ \A q \in Requests \ {r} : job'[q] = job[q]
    BY <2>2, JobAfter
  <2>4. TypeOK'
    BY <2>1, <2>2, JobAfter DEF TypeOK, recVars
  <2>5. \A v \in Users : best'[v] >= metric'[v] /\ \A b \in badges'[v] : best'[v] >= Threshold[b]
    BY <2>1, <2>2 DEF BadgeInv, TypeOK
  <2>6. \A q \in Requests : BadgeSound(job[q])'
    BY <2>2, <2>3, IdleSound DEF BadgeInv, BadgeSound
  <2>7. BadgeInv'
    BY <2>5, <2>6 DEF BadgeInv
  <2> QED
    BY <2>2, <2>4, <2>7, IdleSound, RecKept, ClubKept, ChallengeKept DEF Idle
<1> QED
  BY <1>1, <1>2, <1>3, <1>4 DEF BadgeNext
-----------------------------------------------------------------------------
(* Theorems *)

LEMMA StepSafe == ASSUME IInv, [Next]_vars PROVE IInv'
<1>1. ASSUME NEW r \in Requests, Abort(r) PROVE IInv'
  <2>1. JobIs(r, Idle) /\ UNCHANGED <<recVars, clubs, challengeVars, badgeVars>> /\ Idle.op = "idle"
    BY <1>1, IdleSound DEF Abort, Finish, JobIs, Idle
  <2> QED
    BY <2>1, IdleSound, JobOnly
<1>2. ASSUME UNCHANGED vars PROVE IInv'
  <2>1. UNCHANGED <<recVars, clubs, challenges, taking, reported, badgeVars, job>>
    BY <1>2 DEF vars, challengeVars
  <2>2. TypeOK'
    BY <2>1 DEF IInv, TypeOK, recVars, badgeVars
  <2> QED
    BY <2>1, <2>2, Unasked DEF IInv
<1> QED
  BY <1>1, <1>2, RecSteps, ClubSteps, ChallengeSteps, BadgeSteps DEF Next, Rest

LEMMA Safety == Spec => []IInv
<1>1. Init => IInv
  BY InitSafe
<1>2. IInv /\ [Next]_vars => IInv'
  BY StepSafe
<1> QED
  BY <1>1, <1>2, PTL DEF Spec

\* Whatever races two PATCHes of one recommendation and a player's event run
\* (update_recommendation_state, ingest_media_server_webhook): every status was
\* reached step by step, and a rating only stays on what was watched.
THEOREM NoShortcuts == Spec => []NoShortcut
<1>1. IInv => NoShortcut
  BY DEF IInv, RecInv
<1> QED
  BY <1>1, Safety, PTL

\* The counters and awards written from a stale read (join_watch_club,
\* update_challenge_progress, evaluate_user_badges) never run ahead of the rows.
THEOREM AllEarned == Spec => []NothingUnearned
<1>1. IInv => NothingUnearned
  BY DEF IInv, ClubInv, ChallengeInv, BadgeInv, NothingUnearned
<1> QED
  BY <1>1, Safety, PTL

KeptNow ==
  /\ \A x \in Recs : recs[x] # None /\ recs[x].rating # None => recs'[x] # None /\ recs'[x].rating # None
  /\ \A p \in Challenges \X Users : taking[p] # None /\ taking[p].completed =>
       taking'[p] # None /\ taking'[p].completed

LEMMA StepKeeps == ASSUME IInv, [Next]_vars PROVE KeptNow
<1>1. CASE UNCHANGED <<recs, taking>>
  BY <1>1 DEF KeptNow
<1>2. ASSUME NEW r \in Requests, CommitRecommend(r) PROVE KeptNow
  <2> DEFINE x == job[r].rec
  <2>1. recs[x] = None /\ taking' = taking
    BY <1>2 DEF CommitRecommend, challengeVars, IInv, RecInv, RecSound
  <2>2. \A y \in Recs \ {x} : recs'[y] = recs[y]
    BY <1>2 DEF CommitRecommend, IInv, TypeOK
  <2> QED
    BY <2>1, <2>2 DEF KeptNow
<1>3. ASSUME NEW r \in Requests, CommitUpdateRec(r) PROVE KeptNow
  <2> DEFINE x == job[r].rec
             g == job[r].rating
             row == [recs[x] EXCEPT !.status = job[r].status, !.rating = IF g = None THEN @ ELSE g]
  <2>1. taking' = taking /\ recs' = [recs EXCEPT ![x] = row]
    BY <1>3 DEF CommitUpdateRec, challengeVars
  <2>2. ASSUME x \in Recs, recs[x] # None, recs[x].rating # None
        PROVE  row # None /\ row.rating # None
    <3>1. recs[x] \in Rec
      BY <2>2 DEF IInv, TypeOK
    <3>2. job[r] \in Updating
      <4>1. job[r].op = "update" /\ job[r] \in Job
        BY <1>3 DEF CommitUpdateRec, IInv, TypeOK
      <4> QED
        BY <4>1, JobKinds
    <3>3. row \in Rec /\ row.rating = IF g = None THEN recs[x].rating ELSE g
      BY <3>1, <3>2 DEF Rec, Updating
    <3> QED
      BY <2>2, <3>3, GroupAssumption
  <2> HIDE DEF x, row
  <2> QED
    BY <2>1, <2>2 DEF KeptNow, IInv, TypeOK
<1>4. ASSUME NEW r \in Requests, CommitScrobble(r) PROVE KeptNow
  <2>1. taking' = taking
    BY <1>4 DEF CommitScrobble, challengeVars
  <2>2. ASSUME NEW x \in Recs, recs[x] # None, recs[x].rating # None
        PROVE  recs'[x] # None /\ recs'[x].rating # None
    <3> DEFINE row == [recs[x] EXCEPT !.status = "WATCHED"]
    <3>1. recs[x] \in Rec
      BY <2>2 DEF IInv, TypeOK
    <3>2. row \in Rec /\ row.rating = recs[x].rating
      BY <3>1 DEF Rec, RecStatus
    <3>3. row # None
      BY <3>2, GroupAssumption
    <3>4. recs'[x] = row \/ recs'[x] = recs[x]
      BY <1>4 DEF CommitScrobble
    <3> HIDE DEF row
    <3> QED
      BY <2>2, <3>2, <3>3, <3>4
  <2> QED
    BY <2>1, <2>2 DEF KeptNow
<1>5. ASSUME NEW r \in Requests, CommitJoinChallenge(r) PROVE KeptNow
  <2> DEFINE p == <<job[r].challenge, job[r].by>>
  <2>1. recs' = recs /\ taking[p] = None
    BY <1>5 DEF CommitJoinChallenge, recVars
  <2>2. \A o \in (Challenges \X Users) \ {p} : taking'[o] = taking[o]
    BY <1>5 DEF CommitJoinChallenge, IInv, TypeOK
  <2> QED
    BY <2>1, <2>2 DEF KeptNow
<1>6. ASSUME NEW r \in Requests, CommitReport(r) PROVE KeptNow
  <2> DEFINE p == <<job[r].challenge, job[r].by>>
             was == job[r].was
             n == was.progress + job[r].add
             done == taking[p].completed \/ (n >= Goal /\ ~was.completed)
             row == [taking[p] EXCEPT !.progress = n, !.completed = done]
  <2>1. recs' = recs /\ taking' = [taking EXCEPT ![p] = row]
    BY <1>6 DEF CommitReport, recVars
  <2>2. ASSUME p \in Challenges \X Users, taking[p] # None, taking[p].completed
        PROVE  row # None /\ row.completed
    <3>1. job[r].op = "report" /\ job[r].next = "write" /\ job[r] \in Job
      BY <1>6 DEF CommitReport, IInv, TypeOK
    <3>2. job[r] \in Reporting
      BY <3>1, JobKinds
    <3>3. was \in Taker /\ job[r].add \in Nat
      BY <3>2 DEF Reporting
    <3>4. n \in Nat /\ done = TRUE
      BY <2>2, <3>3 DEF Taker
    <3>5. taking[p] \in Taker
      BY <2>2 DEF IInv, TypeOK
    <3> HIDE DEF n, done
    <3>6. row \in Taker /\ row.completed = TRUE
      BY <3>4, <3>5 DEF Taker
    <3> QED
      BY <3>6, GroupAssumption
  <2> HIDE DEF p, row
  <2> QED
    BY <2>1, <2>2 DEF KeptNow, IInv, TypeOK
<1>7. CASE RecNext
  <2>1. \/ UNCHANGED <<recs, taking>>
        \/ \E r \in Requests : CommitRecommend(r) \/ CommitUpdateRec(r) \/ CommitScrobble(r)
    BY <1>7 DEF RecNext, Befriend, Recommend, UpdateRec, Scrobble, recVars, challengeVars
  <2> QED
    BY <1>1, <1>2, <1>3, <1>4, <2>1
<1>8. CASE ChallengeNext
  <2>1. \/ UNCHANGED <<recs, taking>>
        \/ \E r \in Requests : CommitJoinChallenge(r) \/ CommitReport(r)
    BY <1>8 DEF ChallengeNext, CreateChallenge, Pass, JoinChallenge, Report, ReadProgress, recVars, challengeVars
  <2> QED
    BY <1>1, <1>5, <1>6, <2>1
<1>9. CASE ClubNext \/ BadgeNext
  <2>1. UNCHANGED <<recs, taking>>
    BY <1>9 DEF ClubNext, CreateClub, JoinClub, ReadMembership, CommitJoinClub,
                BadgeNext, Live, Evaluate, ReadMetrics, CommitBadges, recVars, challengeVars
  <2> QED
    BY <1>1, <2>1
<1>10. CASE (\E r \in Requests : Abort(r)) \/ Rest \/ UNCHANGED vars
  <2>1. UNCHANGED <<recs, taking>>
    BY <1>10 DEF Abort, Rest, vars, recVars, challengeVars
  <2> QED
    BY <1>1, <2>1
<1> QED
  BY <1>7, <1>8, <1>9, <1>10 DEF Next

\* A stale flush takes nothing back that was reached (update_recommendation_state
\* and the scrobble write no rating they do not have; update_challenge_progress
\* writes completed only to set it).
THEOREM ReachedStays == Spec => ReachedKept
<1>1. IInv /\ [Next]_vars => [KeptNow]_vars
  BY StepKeeps
<1> QED
  BY <1>1, Safety, PTL DEF Spec, ReachedKept, KeptNow
=============================================================================
