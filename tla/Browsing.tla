------------------------------ MODULE Browsing ------------------------------
(***************************************************************************)
(* Lists read page by page while rows come and go: the catalogue and the   *)
(* search (repositories/canonical.py, search.py), a user's history, library*)
(* and watchlist (repositories/personal.py) and the sync pull (sync.py).   *)
(*                                                                         *)
(* A list is the rows that match its filter, each with the key that it is  *)
(* sorted by: year and name, score, or a time.  Ids are UUIDs: a new row   *)
(* may come anywhere in their order.  A page of most lists takes two       *)
(* statements, each of which sees what is committed when it begins.  What  *)
(* a page adds to its rows, titles, posters, ratings, episodes, is left out*)
(* as is the joined filter by content type, which selects rows.            *)
(***************************************************************************)
EXTENDS Naturals, Sequences, FiniteSets, SequencesExt

CONSTANTS
  Rows,          \* ids, as numbers for their order
  MaxKey,        \* bound: keys are 1..MaxKey
  Twice,         \* titles with two genres that the genre filter matches
  People,        \* score of each person or franchise that the search matches
  Limit,
  MaxWrites,     \* bound: changes to the rows
  Clients,
  None

VARIABLES
  table,         \* whose rows these are: "catalog" or "personal"
  rows,          \* the key of each row, None where there is no row
  writes,        \* how many changes there were
  walk           \* what each client reads and has been shown

vars == <<table, rows, writes, walk>>

Keys == 1..MaxKey

BrowsingAssumption ==
  /\ IsFiniteSet(Rows) /\ Rows \subseteq Nat \ {0}
  /\ MaxKey \in Nat /\ None \notin Keys
  /\ Limit \in Nat \ {0}

Lists == [catalog  |-> {"titles", "catalog", "genre", "search", "search titles"},
          personal |-> {"history", "watchlist", "library", "events", "pull"}]

\* stay, squeezed, moved and tied are history: the rows that are there since the
\* walk began; whether a row came between the two statements of a page; whether
\* one was removed or sorted anew; whether two rows of a page had equal keys.
Walk == [list : Lists.catalog \cup Lists.personal, at : {"count", "page", "end"},
         from : Nat, total : Nat, last : Rows \cup {0}, shown : Seq(Rows \cup DOMAIN People),
         stay : SUBSET Rows, began : SUBSET Rows, squeezed : BOOLEAN, moved : BOOLEAN,
         tied : BOOLEAN, quiet : BOOLEAN]

TypeOK ==
  /\ table \in DOMAIN Lists
  /\ rows \in [Rows -> Keys \cup {None}]
  /\ writes \in 0..MaxWrites
  /\ walk \in [Clients -> Walk \cup {None}]

Here == {t \in Rows : rows[t] # None}

Init ==
  /\ table \in DOMAIN Lists
  /\ rows \in [Rows -> Keys \cup {None}]
  /\ writes = 0
  /\ walk = [c \in Clients |-> None]

Open == {c \in Clients : walk[c] # None /\ walk[c].at # "end"}
-----------------------------------------------------------------------------
(* Writers *)

\* A title is ingested; a film is logged, planned or added to the library.
Insert(t, k) ==
  /\ writes < MaxWrites /\ t \notin Here
  /\ rows' = [rows EXCEPT ![t] = k]
  /\ writes' = writes + 1
  /\ walk' = [c \in Clients |->
       IF c \notin Open THEN walk[c]
       ELSE [walk[c] EXCEPT !.quiet = FALSE, !.squeezed = @ \/ walk[c].at = "page"]]
  /\ UNCHANGED table

\* A watch event is tombstoned, a title leaves the library or the watchlist.
Delete(t) ==
  /\ writes < MaxWrites /\ table = "personal" /\ t \in Here
  /\ rows' = [rows EXCEPT ![t] = None]
  /\ writes' = writes + 1
  /\ walk' = [c \in Clients |->
       IF c \notin Open THEN walk[c]
       ELSE [walk[c] EXCEPT !.quiet = FALSE, !.moved = TRUE, !.stay = @ \ {t}]]
  /\ UNCHANGED table

\* The year of a title, or updated_at of a title's state, is changed.
Move(t, k) ==
  /\ writes < MaxWrites /\ t \in Here /\ rows[t] # k
  /\ rows' = [rows EXCEPT ![t] = k]
  /\ writes' = writes + 1
  /\ walk' = [c \in Clients |->
       IF c \notin Open THEN walk[c] ELSE [walk[c] EXCEPT !.quiet = FALSE, !.moved = TRUE]]
  /\ UNCHANGED table
-----------------------------------------------------------------------------
(* Pages *)

Begin(c, l) ==
  /\ walk[c] = None /\ l \in Lists[table]
  /\ walk' = [walk EXCEPT ![c] =
       [list |-> l, at |-> IF l \in {"titles", "search", "search titles", "events", "pull"} THEN "page" ELSE "count",
        from |-> 0, total |-> 0, last |-> 0, shown |-> << >>, stay |-> Here, began |-> Here,
        squeezed |-> FALSE, moved |-> FALSE, tied |-> FALSE, quiet |-> TRUE]]
  /\ UNCHANGED <<table, rows, writes>>

\* Whether a comes before b: ORDER BY title_id, by score and title_id, or by a
\* key alone.
Before(l, a, b) ==
  \/ l = "titles" /\ a < b
  \/ l # "titles" /\ rows[a] > rows[b]
  \/ l \in {"search", "search titles"} /\ rows[a] = rows[b] /\ a > b

\* The orders that a statement may return rows in.
Orders(l, S) == {o \in SetToSeqs(S) : \A i, j \in DOMAIN o : i < j => ~Before(l, o[j], o[i])}

Page(s, from) == SubSeq(s, from + 1, IF from + Limit > Len(s) THEN Len(s) ELSE from + Limit)

Ties == \E a, b \in Here : a # b /\ rows[a] = rows[b]

\* The page s has been shown and the walk is at the given place.
Show(c, s, at, w) == walk' = [walk EXCEPT ![c] = [w EXCEPT !.shown = @ \o s, !.at = at]]

\* list_titles, by keyset: ids beyond the cursor.
ListTitles(c) ==
  /\ walk[c] # None /\ walk[c].at = "page" /\ walk[c].list = "titles"
  /\ \E o \in Orders("titles", {t \in Here : t > walk[c].last}) :
       LET s == Page(o, 0)
       IN Show(c, s, IF Len(s) < Limit THEN "end" ELSE "page",
               [walk[c] EXCEPT !.last = IF s = << >> THEN @ ELSE Last(s)])
  /\ UNCHANGED <<table, rows, writes>>

\* The count of list_catalog, list_history, list_watchlist and list_library.
Count(c) ==
  /\ walk[c] # None /\ walk[c].at = "count"
  /\ walk' = [walk EXCEPT ![c].total = Cardinality(Here), ![c].at = "page"]
  /\ UNCHANGED <<table, rows, writes>>

\* The join with the genres that match returns a title once for each.
Joined(o) == FlattenSeq([i \in DOMAIN o |-> IF o[i] \in Twice THEN <<o[i], o[i]>> ELSE <<o[i]>>])

\* Mutant of More: one page less.
MoreButOne(w) == w.from + Limit + 1 < w.total

\* next_offset, or what a client of a personal list makes of its total.
More(w) == w.from + Limit < w.total

\* The page of such a list: ties come in any order, and the walk goes on by what was
\* counted before.
ListPage(c, l) ==
  /\ walk[c] # None /\ walk[c].at = "page" /\ walk[c].list = l
  /\ \E o \in Orders(l, Here) :
       Show(c, Page(IF l = "genre" THEN Joined(o) ELSE o, walk[c].from), IF More(walk[c]) THEN "count" ELSE "end",
            [walk[c] EXCEPT !.from = @ + Limit, !.tied = @ \/ Ties])
  /\ UNCHANGED <<table, rows, writes>>

\* list_catalog, by year and name, also with the filter by genre; other orders,
\* up or down, are alike.
ListCatalog(c) == ListPage(c, "catalog") \/ ListPage(c, "genre")

\* list_history by watched_at, list_watchlist by updated_at, list_library by
\* added_at.
ListHistory(c)   == ListPage(c, "history")
ListWatchlist(c) == ListPage(c, "watchlist")
ListLibrary(c)   == ListPage(c, "library")

\* list_watch_events returns everything with one statement; so do list_ratings,
\* list_notes and list_reviews.
ListEvents(c) ==
  /\ walk[c] # None /\ walk[c].at = "page" /\ walk[c].list = "events"
  /\ \E o \in Orders("events", Here) : Show(c, o, "end", walk[c])
  /\ UNCHANGED <<table, rows, writes>>

\* A stable sort by relevance, the best first.
Ranked(s) ==
  LET score == [x \in ToSet(s) |-> IF x \in Rows THEN rows[x] ELSE People[x]]
  IN FlattenSeq([n \in Keys |-> SelectSeq(s, LAMBDA x : score[x] = MaxKey + 1 - n)])

\* What the first page of titles s becomes: if there is room, franchises and
\* people join it, all is sorted and cut at the limit.
WithOthers(s) == Page(Ranked(IF Len(s) < Limit THEN s \o SetToSeq(DOMAIN People) ELSE s), 0)

\* search_catalog: titles by score and id, with their number if there is one on
\* the page, and then the others, which nobody changes here.
Search(c) ==
  /\ walk[c] # None /\ walk[c].at = "page" /\ walk[c].list \in {"search", "search titles"}
  /\ \E o \in Orders(walk[c].list, Here) :
       LET w == walk[c]
           s == Page(o, w.from)
           total == IF s = << >> THEN 0 ELSE Len(o)
       IN Show(c, IF w.list = "search" /\ w.from = 0 THEN WithOthers(s) ELSE s,
               IF w.from + Limit < total THEN "page" ELSE "end",
               [w EXCEPT !.from = @ + Limit, !.total = total])
  /\ UNCHANGED <<table, rows, writes>>

\* get_delta_pull_changes: whatever the cursor, the first rows, and no more.
Pull(c) ==
  /\ walk[c] # None /\ walk[c].at = "page" /\ walk[c].list = "pull"
  /\ \E o \in Orders("pull", Here) : Show(c, Page(o, 0), "end", walk[c])
  /\ UNCHANGED <<table, rows, writes>>

\* The client is done with the list.
Close(c) ==
  /\ walk[c] # None /\ walk[c].at = "end"
  /\ walk' = [walk EXCEPT ![c] = None]
  /\ UNCHANGED <<table, rows, writes>>

Next ==
  \/ \E t \in Rows : Delete(t) \/ \E k \in Keys : Insert(t, k) \/ Move(t, k)
  \/ \E c \in Clients :
       \/ Begin(c, "titles") \/ Begin(c, "catalog") \/ Begin(c, "genre") \/ Begin(c, "search")
       \/ Begin(c, "search titles") \/ Begin(c, "pull")
       \/ Begin(c, "history") \/ Begin(c, "watchlist") \/ Begin(c, "library") \/ Begin(c, "events")
       \/ ListTitles(c) \/ Count(c) \/ ListCatalog(c)
       \/ ListHistory(c) \/ ListWatchlist(c) \/ ListLibrary(c) \/ ListEvents(c)
       \/ Search(c) \/ Pull(c) \/ Close(c)

Spec == Init /\ [][Next]_vars
-----------------------------------------------------------------------------
(* Properties *)

Ended(c, l) == walk[c] # None /\ walk[c].at = "end" /\ walk[c].list \in l
Once(s) == \A i, j \in DOMAIN s : i # j => s[i] # s[j]

\* A walk by keyset shows no title twice and every title that was there all the
\* time, whatever is ingested or changed meanwhile (list_titles).  A walk by
\* offset may show rows again when others come before them, but it misses none
\* that was there from its beginning, unless rows are removed or sorted anew,
\* have equal keys, or come between count and page; undisturbed, it is exact.
ListsComplete ==
  \A c \in Clients :
    /\ Ended(c, {"titles"}) => Once(walk[c].shown) /\ walk[c].stay \subseteq ToSet(walk[c].shown)
    /\ Ended(c, {"catalog", "history", "watchlist", "library"}) =>
         walk[c].squeezed \/ walk[c].moved \/ walk[c].tied \/ walk[c].began \subseteq ToSet(walk[c].shown)
    /\ Ended(c, {"catalog", "history", "watchlist", "library", "search titles", "events"}) =>
         (walk[c].quiet /\ ~walk[c].tied => Once(walk[c].shown) /\ ToSet(walk[c].shown) = walk[c].began)

\* The same for the search of everything (search.py:251 cuts the first page after
\* the people have joined it), for a genre, and for the pull (ADR-004).
EverythingFound ==
  \A c \in Clients : Ended(c, {"search", "genre", "pull"}) /\ walk[c].quiet =>
    Once(walk[c].shown) /\ walk[c].began \subseteq ToSet(walk[c].shown)
=============================================================================
