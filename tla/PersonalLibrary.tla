--------------------------- MODULE PersonalLibrary ---------------------------
(***************************************************************************)
(* One user's personal library: watch events, title states, ratings, notes,*)
(* library entries and the streak (services/api/repositories/personal.py). *)
(*                                                                         *)
(* A request is one transaction: it reads rows committed so far, collects  *)
(* its writes and commits them.  Two properties of the session matter:     *)
(* autoflush is off, so a request does not find the rows it is about to    *)
(* insert, and an UPDATE carries only the columns whose value differs from *)
(* what was read.  An INSERT of a row that exists by then, or an UPDATE of *)
(* a row that is gone, fails the whole request.                            *)
(*                                                                         *)
(* A day stands for an instant: equal ones are within two minutes, others  *)
(* are on different days.                                                  *)
(***************************************************************************)
EXTENDS Naturals, Sequences, FiniteSets, FiniteSetsExt, Functions

CONSTANTS
  Titles,
  Episodes,      \* canonical.episode
  EpisodesOf,    \* those of each title
  Keys,          \* idempotency keys of watch events
  Days,
  Bodies,        \* bodies of PATCH requests: a field and its value
  Stars,         \* ratings the user gives
  Files,         \* import files: sequences of rows
  MaxEvents,     \* bound: watch events recorded
  Requests,
  None

Statuses == {None, "PLAN_TO_WATCH", "WATCHING", "COMPLETED", "DROPPED"}
Ratings == 0..10                         \* 0: not rated
NoRow == [status |-> "absent", fav |-> FALSE]
NoStreak == [current |-> 0, longest |-> 0, last |-> 0]
Item == [title : Titles, day : Days \cup {0}, rating : Ratings,
         status : Statuses, fav : BOOLEAN, note : BOOLEAN]

ASSUME LibraryAssumption ==
  /\ Bodies \subseteq ({"status"} \X Statuses) \cup ({"fav"} \X BOOLEAN)
  /\ EpisodesOf \in [Titles -> SUBSET Episodes]
  /\ IsFiniteSet(Episodes) /\ None \notin Episodes
  /\ Days \subseteq Nat \ {0} /\ Stars \subseteq 1..10
  /\ Files \subseteq Seq(Item) \ {<<>>}

VARIABLES
  events,        \* how many of each watch event there are
  keys,          \* the keys that are watch_event_ids
  states,        \* user_title_state
  ratings,
  notes,         \* how often the same note is there
  library,       \* library_entry
  streak,
  request,       \* what each request does
  declared,      \* titles whose status was ever set as a whole (history)
  raced          \* a streak was overwritten that had not been read (history)

rows == <<events, keys, states, ratings, notes, library, streak, declared, raced>>
vars == <<rows, request>>

Event == [title : Titles, episode : Episodes \cup {None}, day : Days, alive : BOOLEAN]

Idle == [op |-> "idle", at |-> "start", title |-> None, key |-> None, episode |-> None, day |-> 0,
         target |-> None, seen |-> NoStreak, keep |-> FALSE, items |-> <<>>, writes |-> <<>>]

Init ==
  /\ events = [e \in Event |-> 0] /\ keys = {}
  /\ states = [t \in Titles |-> NoRow]
  /\ ratings = [t \in Titles |-> 0]
  /\ notes = [t \in Titles |-> 0]
  /\ library = {}
  /\ streak = NoStreak
  /\ request = [r \in Requests |-> Idle]
  /\ declared = {} /\ raced = FALSE
-----------------------------------------------------------------------------
(* Writes *)

Insert(table, t, v) == [kind |-> "insert", table |-> table, title |-> t, value |-> v]
Update(table, t, v) == [kind |-> "update", table |-> table, title |-> t, value |-> v]
\* The UPDATE of a column, if there is anything to write.
Changed(table, t, old, new) == IF old = new THEN <<>> ELSE <<Update(table, t, new)>>

Written(ws, table, t) == {i \in DOMAIN ws : ws[i].table = table /\ ws[i].title = t}
LastWritten(ws, table, t, old) ==
  IF Written(ws, table, t) = {} THEN old ELSE ws[Max(Written(ws, table, t))].value

Present(table, t) ==
  CASE table \in {"state", "status", "fav"} -> states[t] # NoRow
    [] table \in {"rating", "rated"} -> ratings[t] # 0
    [] table = "library" -> t \in library
    [] table \in {"streak", "current", "longest", "last"} -> streak # NoStreak

\* Events and notes have no unique constraint besides the event's id.
Keyed(w) == w.table \notin {"event", "note"}

\* Mutant of Refuses: rows that exist are overwritten.
RefusesNothing(r) == request[r].key \in keys

\* What the database refuses.
Refuses(r) ==
  LET ws == request[r].writes
  IN \/ request[r].key \in keys
     \/ \E i \in DOMAIN ws :
          /\ Keyed(ws[i])
          /\ IF ws[i].kind = "update" THEN ~Present(ws[i].table, ws[i].title)
             ELSE \/ Present(ws[i].table, ws[i].title)
                  \/ \E j \in Written(ws, ws[i].table, ws[i].title) : j < i /\ ws[j].kind = "insert"

Fail(r) == request' = [request EXCEPT ![r] = Idle] /\ UNCHANGED rows

\* The writes reach the database, all or none.
Commit(r) ==
  LET q == request[r]
      ws == q.writes
      New(table) == {i \in DOMAIN ws : ws[i].table = table}
      Row(t) == LastWritten(ws, "state", t, states[t])
      Streak == LastWritten(ws, "streak", None, streak)
  IN /\ q.at = "commit"
     /\ IF Refuses(r) THEN Fail(r)
        ELSE /\ request' = [request EXCEPT ![r] = Idle]
             /\ events' = [e \in Event |->
                             events[e] + Cardinality({i \in New("event") : ws[i].value = e})]
             /\ keys' = keys \cup ({q.key} \ {None})
             /\ states' = [t \in Titles |->
                             [status |-> LastWritten(ws, "status", t, Row(t).status),
                              fav |-> LastWritten(ws, "fav", t, Row(t).fav)]]
             /\ ratings' = [t \in Titles |-> LastWritten(ws, "rating", t, ratings[t])]
             /\ notes' = [t \in Titles |-> notes[t] + Cardinality(Written(ws, "note", t))]
             /\ library' = library \cup {ws[i].title : i \in New("library")}
             /\ streak' = [c \in DOMAIN Streak |-> LastWritten(ws, c, None, Streak[c])]
             /\ declared' = IF q.op = "watch" /\ q.episode # None THEN declared
                            ELSE declared \cup {t \in Titles : states[t].status # "COMPLETED" /\ states'[t].status = "COMPLETED"}
             /\ raced' = (raced \/ (q.op = "watch" /\ q.seen # streak))

Start(r, q) == request[r] = Idle /\ request' = [request EXCEPT ![r] = q] /\ UNCHANGED rows
Collect(r, ws) == request' = [request EXCEPT ![r].at = "commit", ![r].writes = @ \o ws]
-----------------------------------------------------------------------------
(* Watch events and the streak *)

Recorded == SumFunctionOnSet(events, {e \in Event : events[e] > 0})

\* Mutant of StreakWrites: a day is allowed to be missed.
StreakWritesLax(old, day) ==
  LET Become(current) ==
        Changed("current", None, old.current, current)
          \o Changed("longest", None, old.longest, Max({old.longest, current}))
          \o Changed("last", None, old.last, day)
  IN CASE old = NoStreak -> <<Insert("streak", None, [current |-> 1, longest |-> 1, last |-> day])>>
       [] old # NoStreak /\ day <= old.last -> <<>>
       [] old # NoStreak /\ day \in {old.last + 1, old.last + 2} -> Become(old.current + 1)
       [] old # NoStreak /\ day > old.last + 2 -> Become(1)

\* The columns update_user_streak changes on the row it read.
StreakWrites(old, day) ==
  LET Become(current) ==
        Changed("current", None, old.current, current)
          \o Changed("longest", None, old.longest, Max({old.longest, current}))
          \o Changed("last", None, old.last, day)
  IN CASE old = NoStreak -> <<Insert("streak", None, [current |-> 1, longest |-> 1, last |-> day])>>
       [] old # NoStreak /\ day <= old.last -> <<>>
       [] old # NoStreak /\ day = old.last + 1 -> Become(old.current + 1)
       [] old # NoStreak /\ day > old.last + 1 -> Become(1)

\* create_watch_event: a key that is there already is answered with its event.
\* Nothing ties the episode to the title: it may be one of another series.
Watch(r, k, t, e, d) ==
  /\ k \notin keys
  /\ Start(r, [Idle EXCEPT !.op = "watch", !.key = k, !.title = t, !.episode = e, !.day = d])

\* The flush of the insert waits for another request with the same key.
InsertEvent(r) ==
  LET q == request[r]
      event == [title |-> q.title, episode |-> q.episode, day |-> q.day, alive |-> TRUE]
  IN /\ q.op = "watch" /\ q.at = "start"
     /\ \A p \in Requests : request[p].key = q.key => request[p].at = "start"
     /\ IF q.key \in keys THEN Fail(r)
        ELSE /\ request' = [request EXCEPT ![r].at = "episodes", ![r].writes = <<Insert("event", q.title, event)>>]
             /\ UNCHANGED rows

\* The episodes that have been logged under its title, as the request q finds them.
WatchedEpisodes(q) ==
  {q.episode} \cup {e \in Episodes :
                      \E d \in Days : events[[title |-> q.title, episode |-> e, day |-> d, alive |-> TRUE]] > 0}

\* Mutant of TargetStatus: events are counted, not episodes.
TargetStatusByCount(q) ==
  LET watched == {e \in Event : events[e] > 0 /\ e.title = q.title /\ e.episode # None /\ e.alive}
      all == EpisodesOf[q.title]
  IN IF q.episode = None \/ (all # {} /\ 1 + Cardinality(watched) >= Cardinality(all))
     THEN "COMPLETED" ELSE "WATCHING"

\* An episode completes a series when as many have been watched as it has, a watch
\* of no episode at once.
TargetStatus(q) ==
  LET all == EpisodesOf[q.title]
  IN IF q.episode = None \/ (all # {} /\ Cardinality(WatchedEpisodes(q)) >= Cardinality(all))
     THEN "COMPLETED" ELSE "WATCHING"

\* A watched episode does not undo what the user or an earlier watch decided.
StatusWrites(t, target) ==
  IF states[t] = NoRow THEN <<Insert("state", t, [status |-> target, fav |-> FALSE])>>
  ELSE IF target = "COMPLETED" \/ states[t].status \in {None, "PLAN_TO_WATCH", "WATCHING"}
  THEN Changed("status", t, states[t].status, target)
  ELSE <<>>

\* A watch event reads the episodes, then the title state, then the streak.
ReadEpisodes(r) ==
  /\ request[r].at = "episodes"
  /\ request' = [request EXCEPT ![r].at = "state", ![r].target = TargetStatus(request[r])]
  /\ UNCHANGED rows

ReadState(r) ==
  /\ request[r].at = "state"
  /\ request' = [request EXCEPT ![r].at = "streak",
       ![r].writes = @ \o StatusWrites(request[r].title, request[r].target)]
  /\ UNCHANGED rows

\* update_user_streak
ReadStreak(r) ==
  /\ request[r].at = "streak"
  /\ request' = [request EXCEPT ![r].at = "commit", ![r].seen = streak,
       ![r].writes = @ \o StreakWrites(streak, request[r].day)]
  /\ UNCHANGED rows

\* delete_watch_event keeps the event as a tombstone.
DeleteEvent(e) ==
  /\ e.alive /\ events[e] > 0
  /\ events' = [events EXCEPT ![e] = @ - 1, ![[e EXCEPT !.alive = FALSE]] = @ + 1]
  /\ UNCHANGED <<keys, states, ratings, notes, library, streak, declared, raced, request>>
-----------------------------------------------------------------------------
(* States, ratings, library *)

PatchWrites(row, t, field, v) == Changed(field, t, row[field], v)

\* update_user_title_state with one field in the body.
Patch(r, t, field, v) ==
  Start(r, [Idle EXCEPT !.op = field, !.at = "commit", !.title = t, !.writes =
    IF states[t] = NoRow
    THEN <<Insert("state", t, [[status |-> None, fav |-> FALSE] EXCEPT ![field] = v])>>
    ELSE PatchWrites(states[t], t, field, v)])

RatingWrites(t, v) ==
  IF ratings[t] = 0 THEN <<Insert("rating", t, v)>>
  ELSE <<Update("rated", t, v)>> \o Changed("rating", t, ratings[t], v)

SetRating(r, t, v) ==
  Start(r, [Idle EXCEPT !.op = "rate", !.at = "commit", !.title = t, !.writes = RatingWrites(t, v)])

DeleteRating(t) ==
  /\ ratings[t] # 0
  /\ ratings' = [ratings EXCEPT ![t] = 0]
  /\ UNCHANGED <<events, keys, states, notes, library, streak, declared, raced, request>>

\* add_to_library, remove_from_library.
SetLibrary(t) ==
  /\ library' = IF t \in library THEN library \ {t} ELSE library \cup {t}
  /\ UNCHANGED <<events, keys, states, ratings, notes, streak, declared, raced, request>>
-----------------------------------------------------------------------------
(* Import *)

\* apply_user_import of a file, whose conflict strategy keeps what is there or
\* overwrites it (MERGE does the same).
Import(r, file, keep) ==
  Start(r, [Idle EXCEPT !.op = "import", !.items = file, !.keep = keep])

\* The watch event, unless one within two minutes is there.
ImportedEvent(item) ==
  IF item.day = 0 \/ \E e \in Event : e.title = item.title /\ e.day = item.day /\ e.alive /\ events[e] > 0
  THEN <<>>
  ELSE <<Insert("event", item.title,
           [title |-> item.title, episode |-> None, day |-> item.day, alive |-> TRUE])>>

ImportedRating(item, keep) ==
  IF item.rating = 0 \/ (keep /\ ratings[item.title] # 0) THEN <<>>
  ELSE RatingWrites(item.title, item.rating)

\* The state and, unless it is only planned, the library entry.
ImportedState(item, keep) ==
  LET t == item.title
      old == states[t]
  IN IF ~item.fav /\ item.status = None THEN <<>>
     ELSE (IF old = NoRow THEN <<Insert("state", t, [status |-> item.status, fav |-> item.fav])>>
           ELSE IF keep THEN <<>>
           ELSE (IF item.status = None THEN <<>> ELSE Changed("status", t, old.status, item.status))
                  \o Changed("fav", t, old.fav, item.fav))
          \o (IF item.status = "PLAN_TO_WATCH" \/ t \in library THEN <<>>
              ELSE <<Insert("library", t, TRUE)>>)

\* The note, unless the same text is there.
ImportedNote(item) ==
  IF item.note /\ notes[item.title] = 0 THEN <<Insert("note", item.title, TRUE)>> ELSE <<>>

\* One row of the file.  Looking for one note and finding several fails.
ImportItem(r) ==
  LET q == request[r]
      item == Head(q.items)
  IN /\ q.op = "import" /\ q.at = "start"
     /\ IF item.note /\ notes[item.title] > 1 THEN Fail(r)
        ELSE /\ request' = [request EXCEPT
                  ![r].writes = @ \o ImportedEvent(item) \o ImportedRating(item, q.keep)
                                  \o ImportedState(item, q.keep) \o ImportedNote(item),
                  ![r].items = Tail(@),
                  ![r].at = IF Len(q.items) = 1 THEN "commit" ELSE "start"]
             /\ UNCHANGED rows
-----------------------------------------------------------------------------
Step(r) ==
  \/ InsertEvent(r) \/ ReadEpisodes(r) \/ ReadState(r) \/ ReadStreak(r)
  \/ ImportItem(r) \/ Commit(r)

WatchNext ==
  \/ /\ Recorded < MaxEvents
     /\ \E r \in Requests, k \in Keys, t \in Titles, e \in Episodes \cup {None}, d \in Days :
          Watch(r, k, t, e, d)
  \/ \E e \in Event : DeleteEvent(e)

ShelfNext ==
  \/ \E r \in Requests, t \in Titles, v \in Stars : SetRating(r, t, v)
  \/ \E t \in Titles : DeleteRating(t) \/ SetLibrary(t)

ImportNext ==
  \/ \E r \in Requests, t \in Titles, b \in Bodies : Patch(r, t, b[1], b[2])
  \/ \E r \in Requests, file \in Files, keep \in BOOLEAN : Import(r, file, keep)

Next == WatchNext \/ ShelfNext \/ ImportNext \/ \E r \in Requests : Step(r)

Spec == Init /\ [][Next]_vars
-----------------------------------------------------------------------------
(* Properties *)

\* The episodes logged under a title, those of deleted events included.
LoggedUnder(t) ==
  {ep \in Episodes : \E e \in Event : e.title = t /\ e.episode = ep /\ events[e] > 0}

\* Episodes complete a series only when as many different ones have been logged
\* under it as it has, whatever requests and deletions come between the count, the
\* commit and other devices: seeing one again, or on two devices, does not count
\* twice, and a title without episodes is not completed by one.
CompletedEarned ==
  \A t \in Titles \ declared : states[t].status = "COMPLETED" =>
    /\ EpisodesOf[t] # {}
    /\ Cardinality(LoggedUnder(t)) >= Cardinality(EpisodesOf[t])

\* "Query distinct watched episodes for this user on this series"
\* (repositories/personal.py:302): a series is completed by its own episodes.
\* The query counts what was logged under the title, of whichever series it is.
CompletedByItsOwn ==
  \A t \in Titles \ declared : states[t].status = "COMPLETED" => EpisodesOf[t] \subseteq LoggedUnder(t)

Watched(d) == \E e \in Event : e.day = d /\ events[e] > 0

\* Every day of the streak has its watch event, and the longest streak is no
\* shorter, in whatever order the days arrive; unless two requests read the same
\* row, when one of them writes over the other.
StreakEarned ==
  ~raced /\ streak # NoStreak =>
    /\ streak.longest >= streak.current
    /\ \A d \in (streak.last - streak.current + 1)..streak.last : Watched(d)

\* "Consecutive day (watch_date == last_watch_date + 1 day)" and "Broken streak ...
\* current_streak = 1" (repositories/personal.py:394): the days of the streak are
\* consecutive days with a watch event.  Of two requests that read the same row one
\* can write the length and the other the last day.
StreakConsecutive ==
  \A d \in (streak.last - streak.current + 1)..streak.last : Watched(d)

Ends(r) == request[r].at = "commit" /\ request'[r] = Idle

\* What a request is not about stays as it is: an import with KEEP_EXISTING leaves
\* the ratings and states there are, also those that came while it ran; a PATCH
\* leaves the field that is not in its body, also when another request changed it
\* in between.
KeepExisting ==
  [][\A r \in Requests : Ends(r) =>
       \A t \in Titles :
         /\ request[r].op = "import" /\ request[r].keep =>
              (ratings[t] # 0 => ratings'[t] = ratings[t]) /\ (states[t] # NoRow => states'[t] = states[t])
         /\ request[r].op = "status" /\ states[t] # NoRow => states'[t].fav = states[t].fav
         /\ request[r].op = "fav" /\ states[t] # NoRow => states'[t].status = states[t].status]_vars

\* However often a file is imported, nothing of it is recorded twice: no watch
\* event, and no note.
ImportOnce ==
  /\ keys = {} => \A e \in Event : events[e] <= 1
  /\ \A t \in Titles : notes[t] <= 1
=============================================================================
