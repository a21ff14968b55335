------------------------------ MODULE Insights ------------------------------
(***************************************************************************)
(* What users are shown about their watching: analytics, leaderboard,      *)
(* recap and comparison with a friend (repositories/personal.py, social.py)*)
(*                                                                         *)
(* Watch events come with or without an edition, of films or of episodes,  *)
(* logged on the day or later.  The analytics page is computed in four     *)
(* reads between which others write; every other view here is taken in one *)
(* piece.  Names, percentages, languages, average rating and era, which    *)
(* are further totals over the same rows, are left out.                    *)
(***************************************************************************)
EXTENDS Naturals, Sequences, FiniteSets, FiniteSetsExt, SequencesExt

CONSTANTS
  Users,         \* numbers, for the order of their ids
  Viewers,       \* the users that open their analytics page
  Titles,
  Shapes,        \* the events that are logged: title, and whether with episode or edition
  Chosen,        \* the statuses that users set
  Kind,          \* content type of each title: "movie", "tv_series" or "anime"
  Runtime,       \* minutes of the primary edition of each title, 0 if unknown
  EpisodeRuntime,\* minutes of the episodes of each title, 0 if unknown
  Genres,        \* the genres of each title
  Directors,     \* the directors of each title
  Countries,     \* the countries of each title
  Distance,      \* cosine distance of the tastes of two users, in percent
  Top,           \* how many genres, directors or titles a comparison names
  TopStats,      \* how many genres a breakdown or a recap names
  Week, Thirty,  \* days of the weekly and the monthly leaderboard
  MonthDays, YearDays, TrendMonths,
  MaxDay,        \* bound: days are 1..MaxDay
  MaxActs,       \* bound: changes by users
  None

VARIABLES
  today,
  acts,          \* how many changes there were
  events,        \* how many of each watch event there are, tombstones apart
  status,        \* user_title_state, by user and title
  favorite,      \* pairs of user and title
  friends,       \* pairs of users with an ACCEPTED friendship
  profile,       \* users that have a taste vector
  streak,        \* user_streak
  page,          \* the analytics page each user is getting or has got
  late,          \* users who logged a past day or deleted an event (history)
  steady         \* users nothing was deleted for since their dashboard was counted (history)

data == <<events, status, favorite, friends, profile, streak>>
vars == <<today, acts, data, page, late, steady>>

Days == 1..MaxDay
Event == {e \in [user : Users, title : Titles, episode : BOOLEAN, edition : BOOLEAN, day : Days] :
            [title |-> e.title, episode |-> e.episode, edition |-> e.edition] \in Shapes}
Statuses == {"absent", None, "PLAN_TO_WATCH", "WATCHING", "COMPLETED", "DROPPED"}
NoStreak == [current |-> 0, longest |-> 0, last |-> 0]

ASSUME InsightsAssumption ==
  /\ IsFiniteSet(Users) /\ Users \subseteq Nat /\ Viewers \subseteq Users
  /\ IsFiniteSet(Titles) /\ Runtime \in [Titles -> Nat]
  /\ MaxDay \in Nat /\ MonthDays \in Nat \ {0} /\ TrendMonths \in Nat \ {0}
  /\ Chosen \subseteq Statuses \ {"absent"}
  /\ \A s \in Shapes : s.episode => Kind[s.title] # "movie" /\ ~s.edition

Init ==
  /\ today = 1 /\ acts = 0
  /\ events = [e \in Event |-> 0]
  /\ status = [u \in Users |-> [t \in Titles |-> "absent"]]
  /\ favorite = {} /\ profile = {} /\ friends \in SUBSET {{u, v} : u, v \in Users}
  /\ \A s \in friends : Cardinality(s) = 2
  /\ streak = [u \in Users |-> NoStreak]
  /\ page = [u \in Viewers |-> [at |-> "none"]]
  /\ late = {} /\ steady = Users

\* Totals over the events S.
Mine(u) == {e \in Event : e.user = u /\ events[e] > 0}
Number(S) == MapThenSumSet(LAMBDA e : events[e], S)
Total(f(_), S) == MapThenSumSet(LAMBDA e : events[e] * f(e), S)

MonthOf(d) == (d - 1) \div MonthDays
YearOf(d)  == (d - 1) \div YearDays
InPeriod(S, p) ==
  CASE p = "month"    -> {e \in S : MonthOf(e.day) = MonthOf(today)}
    [] p = "year"     -> {e \in S : YearOf(e.day) = YearOf(today)}
    [] p = "weekly"   -> {e \in S : e.day + Week >= today}
    [] p = "monthly"  -> {e \in S : e.day + Thirty >= today}
    [] p = "all_time" -> S
-----------------------------------------------------------------------------
(* Changes *)

\* update_user_streak
Streak(s, d) ==
  CASE s = NoStreak -> [current |-> 1, longest |-> 1, last |-> d]
    [] s # NoStreak /\ d <= s.last -> s
    [] s # NoStreak /\ d = s.last + 1 ->
         [current |-> s.current + 1, last |-> d,
          longest |-> IF s.current + 1 > s.longest THEN s.current + 1 ELSE s.longest]
    [] s # NoStreak /\ d > s.last + 1 -> [s EXCEPT !.current = 1, !.last = d]

\* create_watch_event
Log(e) ==
  /\ acts < MaxActs /\ e.day <= today
  /\ acts' = acts + 1
  /\ events' = [events EXCEPT ![e] = @ + 1]
  /\ streak' = [streak EXCEPT ![e.user] = Streak(@, e.day)]
  /\ late' = IF e.day < today THEN late \cup {e.user} ELSE late
  /\ UNCHANGED <<today, status, favorite, friends, profile, page, steady>>

\* delete_watch_event leaves the streak as it is.
Delete(e) ==
  /\ acts < MaxActs /\ events[e] > 0
  /\ acts' = acts + 1
  /\ events' = [events EXCEPT ![e] = @ - 1]
  /\ late' = late \cup {e.user} /\ steady' = steady \ {e.user}
  /\ UNCHANGED <<today, status, favorite, friends, profile, streak, page>>

\* A PATCH of the status or of the favourite flag.
SetState(u, t) ==
  /\ acts < MaxActs
  /\ acts' = acts + 1
  /\ \/ \E s \in Chosen : status' = [status EXCEPT ![u][t] = s] /\ UNCHANGED favorite
     \/ /\ favorite' = favorite \cup {<<u, t>>}
        /\ status' = [status EXCEPT ![u][t] = IF @ = "absent" THEN None ELSE @]
  /\ UNCHANGED <<today, events, friends, profile, streak, page, late, steady>>

\* A friendship is accepted or ended; a taste vector is stored.
Circle(u, v) ==
  /\ acts < MaxActs /\ u # v
  /\ acts' = acts + 1
  /\ friends' = IF {u, v} \in friends THEN friends \ {{u, v}} ELSE friends \cup {{u, v}}
  /\ UNCHANGED <<today, events, status, favorite, profile, streak, page, late, steady>>

UpsertTasteProfile(u) ==
  /\ acts < MaxActs /\ u \notin profile
  /\ acts' = acts + 1
  /\ profile' = profile \cup {u}
  /\ UNCHANGED <<today, events, status, favorite, friends, streak, page, late, steady>>

NextDay ==
  /\ today < MaxDay
  /\ today' = today + 1
  /\ page' = [u \in Viewers |-> [at |-> "none"]]
  /\ UNCHANGED <<acts, data, late, steady>>
-----------------------------------------------------------------------------
(* The analytics page *)

FriendsOf(u) == {v \in Users : {u, v} \in friends}

\* Minutes of an event as the dashboard counts them: of an episode 45, of a film
\* 120, unless they are known.
Minutes(e) ==
  IF e.episode THEN IF EpisodeRuntime[e.title] = 0 THEN 45 ELSE EpisodeRuntime[e.title]
  ELSE IF Runtime[e.title] = 0 THEN 120 ELSE Runtime[e.title]

\* Days in a row up to today or yesterday.
DaysInARow(S) ==
  LET days == {e.day : e \in S}
      last == Max(days)
      from == CHOOSE d \in 1..last : d..last \subseteq days /\ (d = 1 \/ d - 1 \notin days)
  IN IF days = {} \/ last + 1 < today THEN 0 ELSE last + 1 - from

\* get_user_dashboard_metrics, of the title states and favourites st and fav.
DashboardOf(u, st, fav) ==
  LET mine == Mine(u)
      titles == {e.title : e \in mine}
      With(S) == Cardinality({t \in Titles : st[t] \in S})
      Completed(k) == Cardinality({t \in titles : st[t] = "COMPLETED" /\ Kind[t] = k})
  IN [total |-> With(Statuses \ {"absent"}), watching |-> With({"WATCHING"}),
      completed |-> With({"COMPLETED"}), dropped |-> With({"DROPPED"}),
      unwatched |-> With({"PLAN_TO_WATCH", None}),
      favorites |-> Cardinality(fav),
      watched |-> Number(mine), month |-> Number(InPeriod(mine, "month")),
      year |-> Number(InPeriod(mine, "year")), streak |-> DaysInARow(mine),
      minutes |-> Total(Minutes, mine), movies |-> Completed("movie"),
      series |-> Completed("tv_series"), anime |-> Completed("anime"),
      countries |-> UNION {Countries[t] : t \in titles}]

FavoritesOf(u) == {t \in Titles : <<u, t>> \in favorite}

Dashboard(u) == DashboardOf(u, status[u], FavoritesOf(u))

\* get_taste_compatibility: friends with a taste vector, the closest first.
TasteMatches(u, limit) ==
  LET with == IF u \in profile THEN FriendsOf(u) \cap profile ELSE {}
  IN {o \in SetToAllKPermutations(with) :
        /\ Len(o) = IF Cardinality(with) < limit THEN Cardinality(with) ELSE limit
        /\ \A i \in DOMAIN o : \A v \in with :
             Distance[{u, v}] < Distance[{u, o[i]}] => \E j \in 1..i : o[j] = v}

Score(u, v) == IF Distance[{u, v}] > 100 THEN 0 ELSE 100 - Distance[{u, v}]

\* Mutant of TrendOf: the months before the current one.
TrendOfPast(S) ==
  [m \in 0..TrendMonths - 1 |->
     LET in == {e \in S : MonthOf(e.day) + TrendMonths - m = MonthOf(today)}
     IN [count |-> Number(in), minutes |-> Total(LAMBDA e : IF Runtime[e.title] = 0 THEN 120 ELSE Runtime[e.title], in)]]

\* The trend of the last months; the minutes of an episode are the title's.
TrendOf(S) ==
  [m \in 0..TrendMonths - 1 |->
     LET in == {e \in S : MonthOf(e.day) + TrendMonths - 1 - m = MonthOf(today)}
     IN [count |-> Number(in), minutes |-> Total(LAMBDA e : IF Runtime[e.title] = 0 THEN 120 ELSE Runtime[e.title], in)]]

\* Names by how often they occur, the first few; equal ones in any order.
Most(count, limit) ==
  LET names == DOMAIN count
  IN {o \in SetToAllKPermutations(names) :
        /\ Len(o) = IF Cardinality(names) < limit THEN Cardinality(names) ELSE limit
        /\ \A i \in DOMAIN o : \A n \in names : count[n] > count[o[i]] => \E j \in 1..i : o[j] = n}

\* How many of the titles have each of the names.
TagsOf(titles, tags) ==
  [n \in UNION {tags[t] : t \in titles} |-> Cardinality({t \in titles : n \in tags[t]})]

\* get_user_taste_breakdown
Breakdown(u) ==
  LET titles == {e.title : e \in Mine(u)}
  IN IF titles = {} THEN [genres |-> {<< >>}, directors |-> {<< >>}, trend |-> << >>]
     ELSE [genres |-> Most(TagsOf(titles, Genres), TopStats),
           directors |-> Most(TagsOf(titles, Directors), TopStats), trend |-> TrendOf(Mine(u))]

\* get_personal_analytics reads the title states,
OpenPage(u) ==
  /\ page[u].at = "none"
  /\ page' = [page EXCEPT ![u] = [at |-> "events", states |-> status[u], favorites |-> FavoritesOf(u)]]
  /\ UNCHANGED <<today, acts, data, late, steady>>

\* the watch events, with which the dashboard is complete,
ReadDashboard(u) ==
  /\ page[u].at = "events"
  /\ page' = [page EXCEPT ![u] =
       [at |-> "tastes", dashboard |-> DashboardOf(u, page[u].states, page[u].favorites)]]
  /\ steady' = steady \cup {u}
  /\ UNCHANGED <<today, acts, data, late>>

\* then the tastes of the friends, whose mean it shows,
ReadTastes(u) ==
  /\ page[u].at = "tastes"
  /\ \E o \in TasteMatches(u, 1000) :
       page' = [page EXCEPT ![u] = [at |-> "breakdown", dashboard |-> page[u].dashboard,
         match |-> IF o = << >> THEN 0
                   ELSE FoldLeft(LAMBDA sum, v : sum + Score(u, v), 0, o) \div Len(o)]]
  /\ UNCHANGED <<today, acts, data, late, steady>>

\* and then the breakdown.
ReadBreakdown(u) ==
  /\ page[u].at = "breakdown"
  /\ \E g \in Breakdown(u).genres, d \in Breakdown(u).directors :
       page' = [page EXCEPT ![u] = [at |-> "shown", dashboard |-> page[u].dashboard,
         match |-> page[u].match, genres |-> g, directors |-> d, trend |-> Breakdown(u).trend]]
  /\ UNCHANGED <<today, acts, data, late, steady>>

ClosePage(u) ==
  /\ page[u].at = "shown"
  /\ page' = [page EXCEPT ![u] = [at |-> "none"]]
  /\ UNCHANGED <<today, acts, data, late, steady>>

Next ==
  \/ \E e \in Event : Log(e) \/ Delete(e)
  \/ \E u \in Users :
       \/ UpsertTasteProfile(u) \/ \E t \in Titles : SetState(u, t)
       \/ \E v \in Users : Circle(u, v)
  \/ \E u \in Viewers :
       \/ OpenPage(u) \/ ReadDashboard(u) \/ ReadTastes(u) \/ ReadBreakdown(u)
       \/ ClosePage(u)
  \/ NextDay

Spec == Init /\ [][Next]_vars
-----------------------------------------------------------------------------
(* Leaderboard, recap and comparison *)

\* Minutes on the leaderboard: of the editions, and only if there is none, 120 an
\* event.
BoardMinutes(S) ==
  LET known == {e \in S : e.edition /\ Runtime[e.title] # 0}
  IN IF known = {} THEN 120 * Number(S) ELSE Total(LAMBDA e : Runtime[e.title], known)

\* Minutes to tenths of an hour.
Hours(m) == (m * 10 + 30) \div 60

\* Whether the standing s comes before t.
Above(s, t) ==
  \/ s[1] > t[1] \/ (s[1] = t[1] /\ s[2] > t[2])
  \/ s[1] = t[1] /\ s[2] = t[2] /\ s[3] > t[3]

\* get_friend_leaderboard: number of events, hours and id of the user and of the
\* accepted friends,
Board(u, p) ==
  {LET S == InPeriod(Mine(v), p) IN <<Number(S), Hours(BoardMinutes(S)), v>> : v \in FriendsOf(u) \cup {u}}

\* and their ranks.
Rank(board, v) ==
  LET standing == CHOOSE s \in board : s[3] = v IN 1 + Cardinality({s \in board : Above(s, standing)})

\* Mutant of Percentile: the user's own volume is left out.
PercentileOfOthers(u, p) ==
  LET n == Number(InPeriod(Mine(u), p))
      lower == {v \in FriendsOf(u) : Number(InPeriod(Mine(v), p)) < n}
  IN IF FriendsOf(u) = {} THEN 75 ELSE (100 * Cardinality(lower)) \div Cardinality(FriendsOf(u))

\* The circle percentile of get_user_recap.
Percentile(u, p) ==
  LET n == Number(InPeriod(Mine(u), p))
      lower == {v \in FriendsOf(u) \cup {u} : Number(InPeriod(Mine(v), p)) <= n}
  IN IF FriendsOf(u) = {} THEN 75 ELSE (100 * Cardinality(lower)) \div (Cardinality(FriendsOf(u)) + 1)

\* get_user_recap: minutes of each edition once and 110 for every other event;
\* genres and directors by events.
Recap(u, p) ==
  LET mine == InPeriod(Mine(u), p)
      editions == {e.title : e \in {e \in mine : e.edition}}
      ByEvents(tags) == [n \in UNION {tags[e.title] : e \in mine} |-> Number({e \in mine : n \in tags[e.title]})]
  IN [watched |-> Number(mine), longest |-> streak[u].longest, percentile |-> Percentile(u, p),
      minutes |-> MapThenSumSet(LAMBDA t : Runtime[t], editions) + 110 * Number({e \in mine : ~e.edition}),
      genres |-> Most(ByEvents(Genres), TopStats), directors |-> Most(ByEvents(Directors), TopStats)]

\* Mutant of GenreWeights: the first one's watching alone.
GenreWeightsOwn(u, f) ==
  LET titles(v) == {e.title : e \in Mine(v)}
      both == DOMAIN TagsOf(titles(u), Genres) \cap DOMAIN TagsOf(titles(f), Genres)
  IN [g \in both |-> TagsOf(titles(u), Genres)[g]]

\* The weight of a genre that both have watched.
GenreWeights(u, f) ==
  LET titles(v) == {e.title : e \in Mine(v)}
      both == DOMAIN TagsOf(titles(u), Genres) \cap DOMAIN TagsOf(titles(f), Genres)
  IN [g \in both |-> TagsOf(titles(u), Genres)[g] + TagsOf(titles(f), Genres)[g]]

\* get_head_to_head_compatibility
HeadToHead(u, f) ==
  LET titles(v) == {e.title : e \in Mine(v)}
      loved == {t \in Titles : <<u, t>> \in favorite /\ <<f, t>> \in favorite}
      common == IF loved = {} THEN titles(u) \cap titles(f) ELSE loved
      score == IF {u, f} \subseteq profile THEN Score(u, f) ELSE 0
      Some(S) == {T \in SUBSET S : Cardinality(T) = IF Cardinality(S) < Top THEN Cardinality(S) ELSE Top}
  IN [score |-> score,
      tier |-> CASE score >= 75 -> "Oracle" [] score \in 50..74 -> "Critic"
                 [] score \in 25..49 -> "Regular" [] score < 25 -> "Curious",
      genres |-> Most(GenreWeights(u, f), Top), titles |-> Some(common),
      directors |-> Some((UNION {Directors[t] : t \in titles(u)}) \cap (UNION {Directors[t] : t \in titles(f)}))]
-----------------------------------------------------------------------------
(* Properties *)

\* On one analytics page the trend shows for this month no fewer events than the
\* dashboard counted for it, though they are read one after the other and others
\* write in between; unless events are deleted meanwhile.
PageConsistent ==
  \A u \in Viewers : page[u].at = "shown" /\ u \in steady /\ page[u].dashboard.month > 0 =>
    page[u].trend[TrendMonths - 1].count >= page[u].dashboard.month

\* Leaderboard, recap and dashboard tell the same story: they count the same
\* events, who leads a board is at 100 %, at 100 % nobody is ahead with more
\* events, and two users stand in the same order on all boards that both are on.
BoardsAgree ==
  \A u \in Users : FriendsOf(u) # {} =>
    LET board == Board(u, "all_time")
        weekly == Board(u, "weekly")
        recap == Recap(u, "all_time")
        full == recap.percentile = 100
    IN /\ recap.watched = Dashboard(u).watched
       /\ Rank(board, u) = 1 => full
       /\ full => \A s, t \in board : s[3] = u /\ Rank(board, t[3]) < Rank(board, u) => t[1] = s[1]
       /\ \A v \in FriendsOf(u) :
            LET other == Board(v, "weekly")
            IN \A s, t \in weekly \cap other :
                 Rank(weekly, s[3]) < Rank(weekly, t[3]) <=> Rank(other, s[3]) < Rank(other, t[3])

\* Who compares with a friend and who is compared see the same: score, tier, and
\* genres of the same weights.
Mirrored ==
  \A u, f \in Users : {u, f} \in friends =>
    LET a == HeadToHead(u, f)
        b == HeadToHead(f, u)
        Weights(o) == [i \in DOMAIN o |-> GenreWeights(u, f)[o[i]]]
    IN /\ a.score = b.score /\ a.tier = b.tier /\ a.titles = b.titles /\ a.directors = b.directors
       /\ {Weights(o) : o \in a.genres} = {Weights(o) : o \in b.genres}

\* Logging a film never lowers the hours that the leaderboard shows; this the code
\* breaks.
HoursGrow ==
  [][\A e \in Event : events'[e] > events[e] =>
       BoardMinutes(Mine(e.user))' >= BoardMinutes(Mine(e.user))]_vars
=============================================================================
