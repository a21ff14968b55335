------------------------------ MODULE MCViews ------------------------------
(***************************************************************************)
(* Instance for TLC of what users are shown and can take with them:        *)
(* Insights, Browsing, Discovery and Portability.  They share no rows      *)
(* here, so each behaviour is about one of them: analytics pages of one    *)
(* user, to whom others are befriended; leaderboards, recaps and           *)
(* comparisons of all; lists; recommendations; or an archive, beside which *)
(* no foreign file is imported.                                            *)
(***************************************************************************)
EXTENDS Insights, TLC

CONSTANTS Rows, MaxKey, Twice, People, Limit, MaxWrites, Clients
CONSTANTS Films, First, GenresOf, DirectorsOf, ActorsOf, RuntimeOf, Scores, Asks, PoolLimit, ListLimit,
          Friends, MaxChanges
CONSTANTS Works, NameOf, Released, Like, Past, Scopes, Foreign, Pdfs, MaxEdits, MaxImports
CONSTANTS w1, w2, name
CONSTANTS film, series, drama, comedy, crime, ann, kr, f1, f2, p

VARIABLES table, rows, writes, walk
VARIABLES flag, mine, accepted, circle, changes, ask
VARIABLES account, edits, export, file, wizard, imports
VARIABLE scope

lists == <<table, rows, writes, walk>>
requests == <<flag, mine, accepted, circle, changes, ask>>
archive == <<account, edits, export, file, wizard, imports>>

B == INSTANCE Browsing
D == INSTANCE Discovery
P == INSTANCE Portability

ASSUME BrowsingHolds == B!BrowsingAssumption
ASSUME DiscoveryHolds == D!DiscoveryAssumption
ASSUME PortabilityHolds == P!PortabilityAssumption

\* A film of a known length, and a series.
MCShapes ==
  {[title |-> film, episode |-> FALSE, edition |-> b] : b \in BOOLEAN}
    \cup {[title |-> series, episode |-> TRUE, edition |-> FALSE]}
MCKind == film :> "movie" @@ series :> "tv_series"
MCRuntime == film :> 90 @@ series :> 0
MCEpisodes == film :> 0 @@ series :> 30
MCGenres == film :> {drama, crime} @@ series :> {drama, comedy}
MCDirectors == film :> {ann} @@ series :> {}
MCCountries == film :> {kr} @@ series :> {}
MCDistance == [s \in SUBSET Users |-> IF s = {1, 2} THEN 20 ELSE 60]

\* One person matches better than most titles.
MCPeople == p :> 2

\* Four titles, of which a request loads three.
MCGenresOf == <<<<drama, crime>>, <<crime>>, <<drama>>, <<drama, crime>>>>
MCDirectorsOf == <<{ann}, {}, {ann}, {}>>
MCActorsOf == <<{}, {f1}, {}, {f1}>>
MCRuntimeOf == <<80, 160, 0, 95>>
Usual == [mode |-> "TONIGHT", genre |-> None, runtime |-> None, watched |-> FALSE, seed |-> None,
          prefers |-> {}, limit |-> 2, group |-> {}]
MCAsks ==
  {Usual, [Usual EXCEPT !.mode = "UNDER_90"], [Usual EXCEPT !.mode = "smart"],
   [Usual EXCEPT !.mode = "FAVORITE_DIRECTORS", !.genre = drama, !.runtime = 120],
   [Usual EXCEPT !.mode = "BECAUSE_YOU_LIKED", !.seed = 1],
   [Usual EXCEPT !.mode = "COLD_START", !.prefers = {crime}],
   [Usual EXCEPT !.mode = "HIDDEN_GEMS", !.watched = TRUE], [Usual EXCEPT !.group = {f1, f2}]}

\* Two titles with the same name and year.
MCNameOf == [w \in Works |-> name]
MCReleased == [w \in Works |-> 2000]
MCLike == name :> Works
Line(year, rating, day, note) ==
  [id |-> None, display |-> None, name |-> name, year |-> year, plain |-> TRUE, day |-> day,
   rating |-> rating, status |-> None, fav |-> FALSE, note |-> note]
MCForeign == {<<Line(2000, 5, 1, FALSE)>>, <<Line(0, 0, 0, FALSE), Line(2000, 8, 1, FALSE)>>}
MCPdfs == {<<<<>>, <<Line(2000, 4, 0, TRUE)>>>>, <<<<>>>>}

MCInit ==
  /\ Init /\ B!Init /\ D!Init /\ P!Init
  /\ scope \in {"page", "boards", "lists", "discovery", "archive"}
  /\ friends = IF scope = "boards" THEN {{1, 2}, {2, 3}} ELSE {}
  /\ scope # "lists" => table = "catalog" /\ B!Here = {}

MCNext ==
  /\ UNCHANGED scope
  /\ \/ /\ scope \in {"page", "boards"}
        /\ Next /\ profile' \subseteq {1, 2}
        /\ UNCHANGED <<lists, requests, archive>>
     \/ scope = "lists" /\ B!Next /\ UNCHANGED <<vars, requests, archive>>
     \/ scope = "discovery" /\ D!Next /\ UNCHANGED <<vars, lists, archive>>
     \/ scope = "archive" /\ P!Next /\ UNCHANGED <<vars, lists, requests>>
  /\ {wizard.from, wizard'.from} \cap {"foreign", "paste"} # {} => file = P!NoFile /\ export = P!NoExport
  /\ scope = "page" =>
       /\ acts' < MaxActs /\ favorite' = favorite /\ friends' \subseteq {{1, 2}}
       /\ \A e \in Event : events'[e] # events[e] => e.user \in Viewers
  /\ scope = "boards" =>
       /\ \A u \in Viewers : page'[u].at = "none"
       /\ friends' = friends /\ late' = late
       /\ \A u \in Users : \A t \in Titles : status'[u][t] \in {"absent", None}

MCSpec == MCInit /\ [][MCNext]_<<vars, lists, requests, archive, scope>>

\* The properties of the lists, recommendations and archives, see their modules.
ListsComplete == B!ListsComplete
FinishedLeftOut == D!FinishedLeftOut
TasteMonotone == D!TasteMonotone
HistoryMoves == P!HistoryMoves
PlannedNotWatched == P!PlannedNotWatched
=============================================================================
