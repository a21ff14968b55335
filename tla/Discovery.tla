----------------------------- MODULE Discovery -----------------------------
(***************************************************************************)
(* What to watch next: recommendations (repositories/recommendations.py),  *)
(* the smart watchlist (routers/automation.py) and the movie night of a    *)
(* group (routers/ai.py).                                                  *)
(*                                                                         *)
(* One user asks; a request reads the user's rows with one SELECT after    *)
(* the other while the user goes on rating and logging, then the newest    *)
(* titles of the catalogue, and ranks them.  Titles are numbers in the     *)
(* order of their creation; people are few and themes left out, which add  *)
(* to the scores as genres do.  The words of an explanation and the text   *)
(* of a language model are left out.                                       *)
(***************************************************************************)
EXTENDS Integers, Sequences, FiniteSets, FiniteSetsExt, SequencesExt

CONSTANTS
  Films,         \* numbers 1..n
  First,         \* titles that are in the catalogue from the beginning
  GenresOf,      \* a sequence of genres of each title, the primary one first
  DirectorsOf, ActorsOf,
  RuntimeOf,     \* minutes of the primary edition, 0 if unknown
  Scores,        \* ratings that the user gives
  Asks,          \* what may be asked for, see Ask
  PoolLimit,     \* how many titles a request loads
  ListLimit,     \* how many long, and how many short ones the smart watchlist has
  Friends,       \* other users
  MaxChanges,    \* bound: changes by the user and the catalogue
  None

VARIABLES
  flag,          \* status_flag of each title in the catalogue
  mine,          \* the user's rows: states, ratings and watch events
  accepted,      \* titles of recommendations that the user has accepted
  circle,        \* accepted friends, and those of them with a taste vector
  changes,       \* how many changes there were
  ask            \* the request that is being answered

vars == <<flag, mine, accepted, circle, changes, ask>>

MyRows == [completed : SUBSET Films, dropped : SUBSET Films, favorite : SUBSET Films,
         film : SUBSET Films, episode : SUBSET Films, rating : [Films -> Scores \cup {0}]]

\* Requests: in a mode, under filters, for a seed title, of a newcomer with
\* preferences, for the smart watchlist, or for a group.
Ask == [mode : {"TONIGHT", "UNDER_90", "FAVORITE_DIRECTORS", "HIDDEN_GEMS",
                "BECAUSE_YOU_LIKED", "COLD_START", "smart"},
        genre : (UNION {ToSet(GenresOf[t]) : t \in Films}) \cup {None},
        runtime : Nat \cup {None}, watched : BOOLEAN, seed : Films \cup {None},
        prefers : SUBSET UNION {ToSet(GenresOf[t]) : t \in Films},
        limit : Nat \ {0}, group : SUBSET Friends]

\* Only the request of a newcomer has preferences: the other routes take none.
DiscoveryAssumption ==
  /\ Asks \subseteq Ask /\ \A a \in Asks : a.prefers # {} => a.mode = "COLD_START"
  /\ First \subseteq Films /\ Films \subseteq Nat \ {0} /\ IsFiniteSet(Films)
  /\ Scores \subseteq 1..10
  /\ \A t \in Films : /\ IsFiniteSet(ToSet(GenresOf[t]))
                       /\ IsFiniteSet(DirectorsOf[t]) /\ IsFiniteSet(ActorsOf[t])

Init ==
  /\ flag = [t \in First |-> "ACTIVE"]
  /\ mine = [completed |-> {}, dropped |-> {}, favorite |-> {}, film |-> {}, episode |-> {},
             rating |-> [t \in Films |-> 0]]
  /\ accepted = {}
  /\ circle = [friends |-> {}, known |-> {}]
  /\ changes = 0
  /\ ask = [at |-> "none"]

Change == changes < MaxChanges /\ changes' = changes + 1

\* A request keeps as history what has been so ever since it began.
Since == IF ask.at \in {"none", "shown", "refused"} THEN ask
         ELSE [ask EXCEPT !.completed = @ \cap mine'.completed, !.film = @ \cap mine'.film,
                          !.episode = @ \cap mine'.episode]
-----------------------------------------------------------------------------
(* The user and the catalogue *)

\* A title is ingested or retired.
Publish(t) ==
  /\ Change /\ t \notin DOMAIN flag
  /\ flag' = [u \in DOMAIN flag \cup {t} |-> IF u = t THEN "ACTIVE" ELSE flag[u]]
  /\ UNCHANGED <<mine, accepted, circle, ask>>

Retire(t) ==
  /\ Change /\ t \in DOMAIN flag
  /\ flag' = [flag EXCEPT ![t] = "RETIRED"]
  /\ UNCHANGED <<mine, accepted, circle, ask>>

\* A status, a favourite, a watch event or its removal, a rating.
Edit(t) ==
  /\ Change /\ t \in DOMAIN flag
  /\ \/ mine' = [mine EXCEPT !.completed = @ \cup {t}, !.dropped = @ \ {t}]
     \/ mine' = [mine EXCEPT !.completed = @ \ {t}, !.dropped = @ \cup {t}]
     \/ mine' = [mine EXCEPT !.favorite = @ \cup {t}]
     \/ mine' = [mine EXCEPT !.film = @ \cup {t}]
     \/ mine' = [mine EXCEPT !.film = @ \ {t}]
     \/ mine' = [mine EXCEPT !.episode = @ \cup {t}]
     \/ \E r \in Scores : mine' = [mine EXCEPT !.rating[t] = r]
  /\ ask' = Since
  /\ UNCHANGED <<flag, accepted, circle>>

\* A recommendation is accepted; a friendship begins or ends.
AcceptRecommendation(t) ==
  /\ Change /\ t \in DOMAIN flag
  /\ accepted' = accepted \cup {t}
  /\ UNCHANGED <<flag, mine, circle, ask>>

Befriend(f) ==
  /\ Change
  /\ \/ circle' = [circle EXCEPT !.friends = @ \cup {f}]
     \/ circle' = [circle EXCEPT !.known = @ \cup {f}]
     \/ circle' = [circle EXCEPT !.friends = @ \ {f}]
  /\ UNCHANGED <<flag, mine, accepted, ask>>
-----------------------------------------------------------------------------
(* Candidates: _load_catalog_from_db *)

\* The n newest titles of S.
Newest(S, n) == {t \in S : Cardinality({u \in S : u > t}) < n}

Active == {t \in DOMAIN flag : flag[t] # "RETIRED"}
GenreSet(t) == ToSet(GenresOf[t])

\* Titles that share a genre or a director with the seed,
AkinTo(seed) ==
  IF seed = None THEN {}
  ELSE Newest({t \in Active \ {seed} : \/ GenreSet(t) \cap GenreSet(seed) # {}
                                       \/ DirectorsOf[t] \cap DirectorsOf[seed] # {}}, PoolLimit)

\* beside the newest titles of the genres asked for.
Loaded(a) ==
  LET wanted == IF a.genre # None THEN {a.genre} ELSE a.prefers
  IN Newest({t \in Active \ {a.seed} : wanted = {} \/ GenreSet(t) \cap wanted # {}}, PoolLimit)
       \cup AkinTo(a.seed)

Runtime120(t) == IF RuntimeOf[t] = 0 THEN 120 ELSE RuntimeOf[t]

\* The longest runtime that is asked for.
MaxRuntime(a) ==
  IF a.mode = "UNDER_90" /\ (a.runtime = None \/ a.runtime > 90) THEN 90 ELSE a.runtime

Pool(a) == {t \in Loaded(a) : MaxRuntime(a) = None \/ Runtime120(t) <= MaxRuntime(a)}
-----------------------------------------------------------------------------
(* Ranking: get_recommendations *)

IsColdStart(a, read) ==
  \/ a.mode = "COLD_START"
  \/ /\ read.watched = {} /\ read.favorite = {} /\ read.dropped = {}
     /\ \A t \in Films : read.rating[t] = 0

\* Mutant of Weight: ratings of three and less are forgotten.
WeightNoHate(read, t) ==
  LET r == read.rating[t]
      liking == CASE t \in read.dropped -> -10
                  [] t \notin read.dropped /\ r >= 8 -> (r - 5) * 3
                  [] t \notin read.dropped /\ r \in 6..7 -> 2
                  [] t \notin read.dropped /\ r \in 4..5 -> -4
                  [] t \notin read.dropped /\ r <= 3 -> 0
  IN liking + IF t \in read.favorite THEN 6 ELSE 0

\* Twice the weight of a title in the user's taste.
Weight(read, t) ==
  LET r == read.rating[t]
      liking == CASE t \in read.dropped -> -10
                  [] t \notin read.dropped /\ r >= 8 -> (r - 5) * 3
                  [] t \notin read.dropped /\ r \in 6..7 -> 2
                  [] t \notin read.dropped /\ r \in 4..5 -> -4
                  [] t \notin read.dropped /\ r \in 1..3 -> -8
                  [] t \notin read.dropped /\ r = 0 -> 0
  IN liking + IF t \in read.favorite THEN 6 ELSE 0

SumOver(S, f) == MapThenSumSet(LAMBDA x : f[x], S)

\* Twice the user's liking of a genre or a person: of what is loaded, no more.
Liking(a, read, pool, name, of) ==
  IF IsColdStart(a, read) THEN IF name \in a.prefers THEN 10 ELSE 0
  ELSE SumOver(pool, [t \in pool |-> IF name \in of[t] THEN Weight(read, t) ELSE 0])

\* Four times personal_taste of a title.
Taste(a, read, pool, t) ==
    2 * SumOver(GenreSet(t), [g \in GenreSet(t) |-> Liking(a, read, pool, g, [s \in pool |-> GenreSet(s)])])
  + 4 * SumOver(DirectorsOf[t], [d \in DirectorsOf[t] |-> Liking(a, read, pool, d, DirectorsOf)])
  + SumOver(ActorsOf[t], [p \in ActorsOf[t] |-> Liking(a, read, pool, p, ActorsOf)])

\* Twelve times content_similarity to the seed, of genres, directors and actors.
Similarity(a, t) ==
  LET union == GenreSet(t) \cup GenreSet(a.seed)
  IN IF a.seed = None THEN 768
     ELSE (IF union = {} THEN 0
           ELSE (600 * Cardinality(GenreSet(t) \cap GenreSet(a.seed))) \div Cardinality(union))
        + (IF DirectorsOf[t] \cap DirectorsOf[a.seed] # {} THEN 420 ELSE 0)
        + (IF ActorsOf[t] \cap ActorsOf[a.seed] # {} THEN 180 ELSE 0)

\* Twenty-four times context_score: what the mode adds.
Context(a, read, pool, t) ==
  CASE a.mode = "UNDER_90" -> 720
    [] a.mode = "FAVORITE_DIRECTORS" ->
         IF \/ a.seed # None /\ DirectorsOf[t] \cap DirectorsOf[a.seed] # {}
            \/ \E d \in DirectorsOf[t] : Liking(a, read, pool, d, DirectorsOf) > 0
         THEN 960 ELSE 0
    [] a.mode = "HIDDEN_GEMS" -> 600
    [] a.mode = "BECAUSE_YOU_LIKED" -> IF a.seed = None THEN 0 ELSE Similarity(a, t)
    [] OTHER -> 0

Clamp(x) == IF x < 100 THEN 100 ELSE IF x > 1000 THEN 1000 ELSE x

\* recommendation_score in tenths: 35 % similarity, 35 % taste, 15 % context and
\* 15 % of 15 for being available, which every title is.
Score(a, read, pool, t) ==
  Clamp((14 * Similarity(a, t) + 42 * Taste(a, read, pool, t) + 3 * Context(a, read, pool, t) + 1080 + 24) \div 48)

\* Mutant of Candidates: what was watched is not left out.
CandidatesAll(a, read, pool) ==
  {t \in pool : t # a.seed /\ (a.genre # None => a.genre \in GenreSet(t))}

\* The hard filters.
Candidates(a, read, pool) ==
  {t \in pool :
     t # a.seed /\ (a.watched \/ t \notin read.watched) /\ (a.genre # None => a.genre \in GenreSet(t))}

\* Sorted by score and id, descending: there is one such order.
Sorted(S, score) ==
  {o \in SetToSeqs(S) : \A i, j \in DOMAIN o : i < j =>
     score[o[i]] > score[o[j]] \/ (score[o[i]] = score[o[j]] /\ o[i] > o[j])}

\* The best, each with a penalty for its primary genre if titles before it have
\* that genre, sorted again.
Rerank(order, score, limit) ==
  LET top == [i \in {i \in DOMAIN order : i <= limit} |-> order[i]]
      Before(i) == IF GenresOf[top[i]] = << >> THEN {}
                   ELSE {j \in 1..i - 1 : GenresOf[top[i]][1] \in GenreSet(top[j])}
      penalised == [t \in ToSet(top) |->
        LET i == CHOOSE i \in DOMAIN top : top[i] = t
            left == score[t] - 20 * Cardinality(Before(i))
        IN IF Before(i) = {} THEN score[t] ELSE IF left < 100 THEN 100 ELSE left]
  IN Sorted(ToSet(top), penalised)
-----------------------------------------------------------------------------
(* A request *)

Begin(a) ==
  /\ ask.at = "none"
  /\ ask' = [at |-> IF a.mode = "smart" THEN "events" ELSE IF a.group # {} THEN "friends" ELSE "states",
             what |-> a, checked |-> {}, read |-> [watched |-> {}, dropped |-> {}, favorite |-> {},
                                    rating |-> [t \in Films |-> 0]],
             completed |-> mine.completed, film |-> mine.film, episode |-> mine.episode,
             friendly |-> {}, shown |-> << >>, score |-> << >>, friend |-> {}, epics |-> {}, quick |-> {}]
  /\ UNCHANGED <<flag, mine, accepted, circle, changes>>

\* group_matchmaking asks for each friend whether the friendship is accepted;
CheckFriend(f) ==
  /\ ask.at = "friends" /\ f \in ask.what.group \ ask.checked
  /\ ask' = IF f \in circle.friends THEN [ask EXCEPT !.checked = @ \cup {f}]
            ELSE [at |-> "refused"]
  /\ UNCHANGED <<flag, mine, accepted, circle, changes>>

\* the vectors make a mean that is shown, and choose nothing.
ReadVectors ==
  /\ ask.at = "friends" /\ ask.checked = ask.what.group
  /\ ask' = [ask EXCEPT !.at = "states", !.friendly = ask.checked \cap circle.known]
  /\ UNCHANGED <<flag, mine, accepted, circle, changes>>

\* get_recommendations reads states,
ReadStates ==
  /\ ask.at = "states"
  /\ ask' = [ask EXCEPT !.at = "events", !.read.watched = mine.completed,
               !.read.dropped = mine.dropped, !.read.favorite = mine.favorite]
  /\ UNCHANGED <<flag, mine, accepted, circle, changes>>

\* watch events, of which an episode counts for the smart watchlist only,
ReadEvents ==
  /\ ask.at = "events"
  /\ ask' = IF ask.what.mode = "smart"
            THEN [ask EXCEPT !.at = "accepted", !.read.watched = mine.film \cup mine.episode]
            ELSE [ask EXCEPT !.at = "ratings", !.read.watched = @ \cup mine.film]
  /\ UNCHANGED <<flag, mine, accepted, circle, changes>>

\* ratings,
ReadRatings ==
  /\ ask.at = "ratings"
  /\ ask' = [ask EXCEPT !.at = "catalog", !.read.rating = mine.rating]
  /\ UNCHANGED <<flag, mine, accepted, circle, changes>>

\* and the catalogue.
Recommend ==
  /\ ask.at = "catalog"
  /\ LET pool == Pool(ask.what)
         candidates == Candidates(ask.what, ask.read, pool)
         score == [t \in candidates |-> Score(ask.what, ask.read, pool, t)]
     IN \E order \in Sorted(candidates, score) : \E shown \in Rerank(order, score, ask.what.limit) :
          ask' = [ask EXCEPT !.at = "shown", !.shown = shown, !.score = score]
  /\ UNCHANGED <<flag, mine, accepted, circle, changes>>

\* get_smart_watchlist: accepted recommendations, watched or not, and long and
\* short ones of the newest titles.
ReadAccepted ==
  /\ ask.at = "accepted"
  /\ ask' = [ask EXCEPT !.at = "titles", !.friend = accepted]
  /\ UNCHANGED <<flag, mine, accepted, circle, changes>>

\* The first titles of S: of the newest ones, then of those recommended.
Firsts(S) ==
  LET new  == Newest(Active, PoolLimit) \cap S
      room == ListLimit - Cardinality(new)
      more == S \ new
  IN IF room <= 0 THEN {Newest(new, ListLimit)}
     ELSE {new \cup T : T \in {T \in SUBSET more :
             Cardinality(T) = IF Cardinality(more) < room THEN Cardinality(more) ELSE room}}

Partition ==
  /\ ask.at = "titles"
  /\ LET loaded == Newest(Active, PoolLimit) \cup ask.friend
         left == {t \in loaded \ ask.read.watched : RuntimeOf[t] # 0}
     IN \E epics \in Firsts({t \in left : RuntimeOf[t] > 150}), quick \in Firsts({t \in left : RuntimeOf[t] < 100}) :
          ask' = [ask EXCEPT !.at = "shown", !.epics = epics, !.quick = quick]
  /\ UNCHANGED <<flag, mine, accepted, circle, changes>>

\* A statement fails.  For the user's own rows the error is swallowed, but then
\* their transaction refuses the catalogue, and the request fails all the same.
FailRead ==
  /\ ask.at \in {"states", "events", "ratings", "catalog", "accepted", "titles"}
  /\ ask' = [at |-> "refused"]
  /\ UNCHANGED <<flag, mine, accepted, circle, changes>>

End ==
  /\ ask.at \in {"shown", "refused"}
  /\ ask' = [at |-> "none"]
  /\ UNCHANGED <<flag, mine, accepted, circle, changes>>

Next ==
  \/ \E t \in Films : Publish(t) \/ Retire(t) \/ Edit(t) \/ AcceptRecommendation(t)
  \/ \E f \in Friends : Befriend(f) \/ CheckFriend(f)
  \/ \E a \in Asks : Begin(a)
  \/ ReadVectors \/ ReadStates \/ ReadEvents \/ ReadRatings \/ Recommend
  \/ ReadAccepted \/ Partition \/ FailRead \/ End

Spec == Init /\ [][Next]_vars
-----------------------------------------------------------------------------
(* Properties *)

Recommended == ask.at = "shown" /\ ask.what.mode # "smart"

\* What the user has completed, or has watched as a film, since before a request
\* began is not recommended, though the rows are read one after the other; and
\* nothing of which an event remains is put among long and short films.
FinishedLeftOut ==
  /\ Recommended /\ ~ask.what.watched => ToSet(ask.shown) \cap (ask.completed \cup ask.film) = {}
  /\ ask.at = "shown" /\ ask.what.mode = "smart" =>
       (ask.epics \cup ask.quick) \cap (ask.film \cup ask.episode) = {}

\* A better rating of a title never lowers the score of any title, and neither
\* does making it a favourite; dropping it never raises one.
TasteMonotone ==
  ask.at = "catalog" =>
    LET a == ask.what
        pool == Pool(a)
        Better(t, r) == [ask.read EXCEPT !.rating[t] = r]
    IN \A t, u \in pool :
         LET s == Score(a, ask.read, pool, u)
         IN /\ \A r \in Scores : r > ask.read.rating[t] /\ ask.read.rating[t] > 0 =>
                 s <= Score(a, Better(t, r), pool, u)
            /\ s <= Score(a, [ask.read EXCEPT !.favorite = @ \cup {t}], pool, u)
            /\ s >= Score(a, [ask.read EXCEPT !.dropped = @ \cup {t}], pool, u)

\* A list is short only if nothing else in the catalogue fits; refuted, as the
\* runtime filter comes after the limit (recommendations.py:389).
PoolIsEnough ==
  Recommended /\ Len(ask.shown) < ask.what.limit =>
    \A t \in Active \ (ToSet(ask.shown) \cup ask.read.watched) : \/ t = ask.what.seed
      \/ ask.what.genre \notin GenreSet(t) \cup {None}
      \/ MaxRuntime(ask.what) \in 0..Runtime120(t) - 1
=============================================================================
