------------------------- MODULE MCPersonalLibrary -------------------------
(* Instance of PersonalLibrary for TLC: a series of two episodes, an       *)
(* episode of another one, and a film.  The requests of a behaviour are of *)
(* the operations in focus, each about one of the two titles.              *)
EXTENDS PersonalLibrary, TLC

CONSTANTS s, m, e1, e2, e3

VARIABLE focus

MCEpisodesOf == (s :> {e1, e2}) @@ (m :> {})
MCBodies == {<<"status", "PLAN_TO_WATCH">>, <<"fav", TRUE>>}
Row(day, rating, status) ==
  [title |-> s, day |-> day, rating |-> rating, status |-> status, fav |-> FALSE, note |-> TRUE]
MCFiles ==
  LET seen == Row(1, 0, None)
      dropped == Row(2, 1, "DROPPED")
  IN {<<dropped>>, <<seen, dropped>>, <<seen, seen>>}

\* What the requests of each focus are about, and on which days.
About == [watch |-> {s}, streak |-> {m}, shelf |-> {s}, import |-> {s}]
On == [watch |-> {1, 2}, streak |-> Days, shelf |-> Days, import |-> Days]
InFocus ==
  /\ library \subseteq {s}
  /\ \A r \in Requests : request[r] # Idle /\ request[r].op # "import" =>
       /\ request[r].title \in About[focus]
       /\ request[r].day \in On[focus] \cup {0}
       /\ focus = "streak" => request[r].episode = e1

MCInit == Init /\ focus \in DOMAIN About
MCNext ==
  /\ \/ focus \in {"watch", "streak"} /\ WatchNext
     \/ focus = "shelf" /\ ShelfNext
     \/ focus = "import" /\ (ImportNext \/ \E r \in Requests, t \in Titles, v \in Stars : SetRating(r, t, v))
     \/ \E r \in Requests : Step(r)
  /\ UNCHANGED focus
  /\ InFocus'
MCSpec == MCInit /\ [][MCNext]_<<vars, focus>>

Symmetry == Permutations(Keys) \cup Permutations(Requests) \cup Permutations({e1, e2})
=============================================================================
