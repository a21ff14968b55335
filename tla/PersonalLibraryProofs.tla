------------------------ MODULE PersonalLibraryProofs ------------------------
(***************************************************************************)
(* Safety of the personal library for any number of titles, episodes, keys *)
(* and open requests.  The writes of a request were computed from rows     *)
(* that may have changed by the time they are committed; Sound says what   *)
(* they are worth then.                                                    *)
(***************************************************************************)
EXTENDS PersonalLibrary, FiniteSetTheorems, WellFoundedInduction, TLAPS

Row    == [status : Statuses \cup {"absent"}, fav : BOOLEAN]
Streak == [current : Nat, longest : Nat, last : Nat]
OfStreak == {"streak", "current", "longest", "last"}

Write ==
  LET Writes(tables, values) ==
        [kind : {"insert", "update"}, table : tables, title : Titles \cup {None}, value : values]
  IN   Writes({"event"}, Event) \cup Writes({"state"}, Row) \cup Writes({"status"}, Statuses \cup {"absent"})
  \cup Writes({"fav"}, BOOLEAN) \cup Writes({"rating", "rated"}, Ratings)
  \cup Writes({"library", "note"}, BOOLEAN) \cup Writes({"streak"}, Streak)
  \cup Writes({"current", "longest", "last"}, Nat)

Request ==
  [op : {"idle", "watch", "status", "fav", "rate", "import"},
   at : {"start", "episodes", "state", "streak", "commit"},
   title : Titles \cup {None}, key : Keys \cup {None}, episode : Episodes \cup {None},
   day : Days \cup {0}, target : {None, "WATCHING", "COMPLETED"}, seen : Streak, keep : BOOLEAN, items : Seq(Item), writes : Seq(Write)]

Typed ==
  /\ events \in [Event -> Nat]
  /\ states \in [Titles -> Row] /\ ratings \in [Titles -> Ratings] /\ streak \in Streak
  /\ request \in [Requests -> Request]

Earned(t, ep) == \E e \in Event : e.title = t /\ e.episode = ep /\ events[e] > 0

\* The event that a request records.
Logged(q) ==
  Insert("event", q.title, [title |-> q.title, episode |-> q.episode, day |-> q.day, alive |-> TRUE])

\* With the episode of q, as many have been logged under its title as it has.
Enough(q) ==
  /\ EpisodesOf[q.title] # {}
  /\ Cardinality(LoggedUnder(q.title) \cup {q.episode}) >= Cardinality(EpisodesOf[q.title])

\* A watch that completes a title has counted enough episodes.
Completes(w) == IF w.table = "state" THEN w.value.status = "COMPLETED"
                ELSE w.table = "status" /\ w.value = "COMPLETED"
Watching(q) ==
  /\ q.title \in Titles /\ q.episode \in Episodes \cup {None} /\ q.day \in Days
  /\ q.at # "start" => Logged(q) \in Range(q.writes)
  /\ q.at \in {"start", "episodes", "state"} => \A w \in Range(q.writes) : w.table = "event"
  /\ q.at \in {"state", "streak"} => q.target \in {"WATCHING", "COMPLETED"}
  /\ q.at = "state" => (q.target = "COMPLETED" /\ q.episode # None => Enough(q))
  /\ q.at \in {"streak", "commit"} =>
       \A w \in Range(q.writes) : Completes(w) => w.title = q.title /\ (q.episode # None => Enough(q))
  /\ q.at = "streak" => \A w \in Range(q.writes) : w.table \in {"event", "state", "status"}
  /\ q.at = "commit" => {w \in Range(q.writes) : w.table \in OfStreak} = Range(StreakWrites(q.seen, q.day))

\* What the writes of other requests are confined to.
Confined(q) ==
  \A w \in Range(q.writes) :
    /\ w.table \notin OfStreak
    /\ q.op = "import" /\ q.keep =>
         w.table \notin {"status", "fav"} /\ (w.table \in {"state", "rating"} => w.kind = "insert")
    /\ q.op \in {"status", "fav"} => w.table = q.op \/ (w.table = "state" /\ w.kind = "insert")

Sound(q) ==
  /\ q.op = "idle" => q = Idle
  /\ q.op = "watch" => Watching(q)
  /\ q.op # "watch" => Confined(q)
  /\ q.at \in {"episodes", "state", "streak"} => q.op = "watch"
  /\ q.op = "import" /\ q.at = "start" => q.items # << >>

IInv == Typed /\ (\A r \in Requests : Sound(request[r])) /\ CompletedEarned /\ StreakEarned

-----------------------------------------------------------------------------
(* Lemmas *)

LEMMA NatInduct ==
  ASSUME NEW G, 0 \in G, \A n \in Nat : n \in G => n + 1 \in G
  PROVE  Nat \subseteq G
<1>1. SUFFICES ASSUME NEW m \in Nat, m \notin G PROVE FALSE
  OBVIOUS
<1> DEFINE Bad == {n \in Nat : n \notin G}
<1>2. PICK n \in Bad : \A k \in Bad : ~(<<k, n>> \in OpToRel(<, Nat))
  <2>1. Bad # {} /\ Bad \subseteq Nat
    BY <1>1
  <2> HIDE DEF Bad
  <2> QED BY <2>1, NatLessThanWellFounded, WFMin
<1>3. n \in Nat \ {0} /\ n - 1 \in Nat /\ n - 1 \notin G
  BY SMT
<1>4. <<n - 1, n>> \in OpToRel(<, Nat)
  BY <1>3 DEF OpToRel
<1> QED
  BY <1>2, <1>3, <1>4

LEMMA MaxIn ==
  ASSUME NEW n \in Nat, NEW S \in SUBSET (1..n), S # {} PROVE Max(S) \in S
<1> DEFINE G == {m \in Nat : \A T \in SUBSET (1..m) : T # {} => \E x \in T : \A y \in T : x >= y}
<1>1. 0 \in G
  <2>1. 1..0 = {}
    OBVIOUS
  <2> QED
    BY <2>1
<1>2. ASSUME NEW m \in Nat, m \in G PROVE m + 1 \in G
  <2> SUFFICES ASSUME NEW T \in SUBSET (1..(m + 1)), T # {} PROVE \E x \in T : \A y \in T : x >= y
    OBVIOUS
  <2>1. CASE m + 1 \in T
    <3>1. \A y \in T : m + 1 >= y
      OBVIOUS
    <3> QED
      BY <2>1, <3>1
  <2>2. CASE m + 1 \notin T
    <3>1. T \in SUBSET (1..m)
      BY <2>2
    <3> QED
      BY <1>2, <3>1
  <2> QED
    BY <2>1, <2>2
<1> HIDE DEF G
<1>3. n \in G
  BY <1>1, <1>2, NatInduct
<1>4. \E x \in S : \A y \in S : x >= y
  BY <1>3 DEF G
<1> QED
  BY <1>4 DEF Max

LEMMA RangeIs ==
  ASSUME NEW S
  PROVE  /\ \A s, t \in Seq(S) : s \o t \in Seq(S) /\ Range(s \o t) = Range(s) \cup Range(t)
         /\ << >> \in Seq(S) /\ Range(<< >>) = {}
         /\ \A x : Range(<<x>>) = {x}
         /\ \A x \in S : <<x>> \in Seq(S)
         /\ \A s \in Seq(S) : Range(s) \subseteq S
<1>1. ASSUME NEW s \in Seq(S), NEW t \in Seq(S) PROVE Range(s \o t) = Range(s) \cup Range(t)
  <2>1. /\ DOMAIN (s \o t) = 1..(Len(s) + Len(t)) /\ DOMAIN s = 1..Len(s) /\ DOMAIN t = 1..Len(t)
        /\ Len(s) \in Nat /\ Len(t) \in Nat
        /\ \A i \in 1..Len(s) : (s \o t)[i] = s[i]
        /\ \A i \in 1..Len(t) : (s \o t)[Len(s) + i] = t[i]
    OBVIOUS
  <2>2. ASSUME NEW i \in 1..(Len(s) + Len(t)) PROVE (s \o t)[i] \in Range(s) \cup Range(t)
    <3>1. CASE i <= Len(s)
      BY <2>1, <2>2, <3>1 DEF Range
    <3>2. CASE ~(i <= Len(s))
      <4>1. i - Len(s) \in 1..Len(t) /\ i = Len(s) + (i - Len(s))
        BY <2>1, <3>2
      <4> QED
        BY <2>1, <4>1 DEF Range
    <3> QED
      BY <3>1, <3>2
  <2>3. ASSUME NEW i \in 1..Len(s) PROVE s[i] \in Range(s \o t)
    <3>1. i \in 1..(Len(s) + Len(t))
      BY <2>1
    <3> QED
      BY <2>1, <3>1 DEF Range
  <2>4. ASSUME NEW i \in 1..Len(t) PROVE t[i] \in Range(s \o t)
    <3>1. Len(s) + i \in 1..(Len(s) + Len(t))
      BY <2>1
    <3> QED
      BY <2>1, <3>1 DEF Range
  <2>5. \A x \in Range(s \o t) : x \in Range(s) \cup Range(t)
    BY <2>1, <2>2 DEF Range
  <2>6. \A x \in Range(s) \cup Range(t) : x \in Range(s \o t)
    BY <2>1, <2>3, <2>4 DEF Range
  <2> QED
    BY <2>5, <2>6
<1>2. Range(<< >>) = {}
  BY DEF Range
<1>3. \A x : Range(<<x>>) = {x}
  <2> SUFFICES ASSUME NEW x PROVE Range(<<x>>) = {x}
    OBVIOUS
  <2>1. DOMAIN <<x>> = {1} /\ <<x>>[1] = x
    OBVIOUS
  <2> QED
    BY <2>1 DEF Range
<1>4. \A s \in Seq(S) : Range(s) \subseteq S
  BY DEF Range
<1> QED
  BY <1>1, <1>2, <1>3, <1>4

LEMMA Joined ==
  ASSUME NEW S, NEW s \in Seq(S), NEW t \in Seq(S)
  PROVE  s \o t \in Seq(S) /\ Range(s \o t) = Range(s) \cup Range(t)
BY RangeIs

LEMMA HeadTail ==
  ASSUME NEW S, NEW s \in Seq(S), s # << >>
  PROVE  Head(s) \in S /\ Tail(s) \in Seq(S) /\ (Len(s) # 1 => Tail(s) # << >>)
<1>1. Len(s) \in Nat /\ Len(s) # 0
  OBVIOUS
<1>2. Head(s) \in S /\ Tail(s) \in Seq(S) /\ Len(Tail(s)) = Len(s) - 1
  BY <1>1
<1>3. Len(<< >>) = 0
  OBVIOUS
<1> QED
  BY <1>1, <1>2, <1>3

LEMMA Single ==
  /\ \A w \in Write : <<w>> \in Seq(Write) /\ Range(<<w>>) = {w}
  /\ << >> \in Seq(Write) /\ Range(<< >>) = {}
BY RangeIs

\* The last write of a column is one of its writes.
LEMMA LastWrittenIs ==
  ASSUME NEW ws \in Seq(Write), NEW table, NEW t, NEW old
  PROVE  \/ /\ LastWritten(ws, table, t, old) = old
            /\ \A w \in Range(ws) : ~(w.table = table /\ w.title = t)
         \/ \E w \in Range(ws) : w.table = table /\ w.title = t /\ LastWritten(ws, table, t, old) = w.value
<1>1. DOMAIN ws = 1..Len(ws) /\ Len(ws) \in Nat
  OBVIOUS
<1>2. CASE Written(ws, table, t) = {}
  BY <1>2 DEF LastWritten, Written, Range
<1>3. CASE Written(ws, table, t) # {}
  <2>1. Written(ws, table, t) \in SUBSET (1..Len(ws))
    BY <1>1 DEF Written
  <2>2. Max(Written(ws, table, t)) \in Written(ws, table, t)
    BY <1>1, <1>3, <2>1, MaxIn
  <2>3. LastWritten(ws, table, t, old) = ws[Max(Written(ws, table, t))].value
    BY <1>3 DEF LastWritten
  <2> QED
    BY <2>2, <2>3 DEF Written, Range
<1> QED
  BY <1>2, <1>3

LEMMA WritesAre ==
  /\ \A t \in Titles \cup {None}, v \in Event : Insert("event", t, v) \in Write
  /\ \A t \in Titles \cup {None}, v \in Row : Insert("state", t, v) \in Write
  /\ \A t \in Titles \cup {None}, v \in Streak : Insert("streak", t, v) \in Write
  /\ \A t \in Titles \cup {None}, v \in Ratings : Insert("rating", t, v) \in Write
  /\ \A t \in Titles \cup {None} : Insert("library", t, TRUE) \in Write /\ Insert("note", t, TRUE) \in Write
  /\ \A t \in Titles \cup {None}, v \in Statuses \cup {"absent"} : Update("status", t, v) \in Write
  /\ \A t \in Titles \cup {None}, v \in BOOLEAN : Update("fav", t, v) \in Write
  /\ \A t \in Titles \cup {None}, v \in Ratings :
       Update("rating", t, v) \in Write /\ Update("rated", t, v) \in Write
  /\ \A t \in Titles \cup {None}, v \in Nat, c \in {"current", "longest", "last"} : Update(c, t, v) \in Write
BY DEF Insert, Update, Write

LEMMA ChangedIs ==
  ASSUME NEW table, NEW t, NEW old, NEW new, Update(table, t, new) \in Write
  PROVE  /\ Changed(table, t, old, new) \in Seq(Write)
         /\ Range(Changed(table, t, old, new)) = (IF old = new THEN {} ELSE {Update(table, t, new)})
         /\ \A w \in Range(Changed(table, t, old, new)) : w = Update(table, t, new)
<1>1. CASE old = new
  BY <1>1, RangeIs DEF Changed
<1>2. CASE old # new
  BY <1>2, RangeIs DEF Changed
<1> QED
  BY <1>1, <1>2

LEMMA StatusWritesAre ==
  ASSUME states \in [Titles -> Row], NEW t \in Titles, NEW target \in {"WATCHING", "COMPLETED"}
  PROVE  /\ StatusWrites(t, target) \in Seq(Write)
         /\ \A w \in Range(StatusWrites(t, target)) :
              /\ w.table \in {"state", "status"} /\ w.title = t
              /\ Completes(w) => target = "COMPLETED"
<1> DEFINE new == Insert("state", t, [status |-> target, fav |-> FALSE])
           set == Update("status", t, target)
<1>1. new \in Write /\ set \in Write
  <2>1. [status |-> target, fav |-> FALSE] \in Row
    BY DEF Row, Statuses
  <2> QED
    BY <2>1, WritesAre DEF Statuses
<1>2. /\ new.table = "state" /\ new.title = t /\ (Completes(new) => target = "COMPLETED")
      /\ set.table = "status" /\ set.title = t /\ (Completes(set) => target = "COMPLETED")
  BY DEF Insert, Update, Completes
<1> HIDE DEF new, set
<1>3. CASE states[t] = NoRow
  <2>1. StatusWrites(t, target) = <<new>>
    BY <1>3 DEF StatusWrites, new
  <2> QED
    BY <1>1, <1>2, <2>1, RangeIs
<1>4. CASE states[t] # NoRow
  <2>1. StatusWrites(t, target) \in {Changed("status", t, states[t].status, target), << >>}
    BY <1>4 DEF StatusWrites
  <2>2. Changed("status", t, states[t].status, target) \in Seq(Write)
        /\ \A w \in Range(Changed("status", t, states[t].status, target)) : w = set
    BY <1>1, ChangedIs DEF set
  <2>3. CASE StatusWrites(t, target) = << >>
    BY <2>3, RangeIs
  <2>4. CASE StatusWrites(t, target) = Changed("status", t, states[t].status, target)
    BY <1>2, <2>2, <2>4
  <2> QED
    BY <2>1, <2>3, <2>4
<1> QED
  BY <1>3, <1>4

\* The streak that a watch event of a day makes of the one before.
After(old, day) ==
  IF old = NoStreak THEN [current |-> 1, longest |-> 1, last |-> day]
  ELSE IF day <= old.last THEN old
  ELSE LET n == IF day = old.last + 1 THEN old.current + 1 ELSE 1
       IN [current |-> n, longest |-> IF n > old.longest THEN n ELSE old.longest, last |-> day]

Become(old, n, day) ==
  Changed("current", None, old.current, n)
    \o Changed("longest", None, old.longest, Max({old.longest, n}))
    \o Changed("last", None, old.last, day)

LEMMA MaxOfTwo ==
  ASSUME NEW m \in Nat, NEW n \in Nat PROVE Max({m, n}) = IF n > m THEN n ELSE m
<1> DEFINE k == IF n > m THEN n ELSE m
<1>1. k \in {m, n} /\ \A y \in {m, n} : k >= y
  OBVIOUS
<1>2. \A x \in {m, n} : (\A y \in {m, n} : x >= y) => x = k
  OBVIOUS
<1> HIDE DEF k
<1>3. Max({m, n}) = k
  BY <1>1, <1>2 DEF Max
<1> QED
  BY <1>3 DEF k

LEMMA BecomeIs ==
  ASSUME NEW old \in Streak, NEW n \in Nat, NEW day \in Nat,
         NEW top, top = IF n > old.longest THEN n ELSE old.longest
  PROVE  /\ Become(old, n, day) \in Seq(Write)
         /\ Range(Become(old, n, day)) =
              (IF old.current = n THEN {} ELSE {Update("current", None, n)})
                \cup (IF old.longest = top THEN {} ELSE {Update("longest", None, top)})
                \cup (IF old.last = day THEN {} ELSE {Update("last", None, day)})
<1>1. Max({old.longest, n}) = top /\ top \in Nat
  BY MaxOfTwo DEF Streak
<1>2. /\ Update("current", None, n) \in Write /\ Update("longest", None, top) \in Write
      /\ Update("last", None, day) \in Write
  BY <1>1, WritesAre
<1> DEFINE a == Changed("current", None, old.current, n)
           b == Changed("longest", None, old.longest, top)
           c == Changed("last", None, old.last, day)
<1>3. a \in Seq(Write) /\ Range(a) = (IF old.current = n THEN {} ELSE {Update("current", None, n)})
  BY <1>2, ChangedIs
<1>4. b \in Seq(Write) /\ Range(b) = (IF old.longest = top THEN {} ELSE {Update("longest", None, top)})
  BY <1>2, ChangedIs
<1>5. c \in Seq(Write) /\ Range(c) = (IF old.last = day THEN {} ELSE {Update("last", None, day)})
  BY <1>2, ChangedIs
<1>6. Become(old, n, day) = (a \o b) \o c
  BY <1>1 DEF Become
<1> HIDE DEF a, b, c
<1> DEFINE ab == a \o b
<1>7. ab \in Seq(Write) /\ Range(ab) = Range(a) \cup Range(b)
  BY <1>3, <1>4, Joined
<1> HIDE DEF ab
<1>8. ab \o c \in Seq(Write) /\ Range(ab \o c) = Range(ab) \cup Range(c)
  <2>1. c \in Seq(Write)
    BY <1>5
  <2> QED
    BY <1>7, <2>1, Joined
<1>9. Become(old, n, day) = ab \o c
  BY <1>6 DEF ab
<1> QED
  BY <1>3, <1>4, <1>5, <1>7, <1>8, <1>9

LEMMA AfterIs ==
  ASSUME NEW old \in Streak, NEW day \in Nat PROVE After(old, day) \in Streak
BY DEF Streak, After

\* What update_user_streak writes: a new row, or the columns that differ.
LEMMA StreakWritesAre ==
  ASSUME NEW old \in Streak, NEW day \in Nat
  PROVE  /\ StreakWrites(old, day) \in Seq(Write)
         /\ Range(StreakWrites(old, day)) =
              IF old = NoStreak THEN {Insert("streak", None, After(old, day))}
              ELSE (IF old.current = After(old, day).current THEN {}
                    ELSE {Update("current", None, After(old, day).current)})
                \cup (IF old.longest = After(old, day).longest THEN {}
                      ELSE {Update("longest", None, After(old, day).longest)})
                \cup (IF old.last = After(old, day).last THEN {}
                      ELSE {Update("last", None, After(old, day).last)})
<1> DEFINE new == After(old, day)
<1>1. old.last \in Nat /\ old.current \in Nat /\ old.longest \in Nat
  BY DEF Streak
<1>2. CASE old = NoStreak
  <2>1. StreakWrites(old, day) = <<Insert("streak", None, new)>>
    BY <1>2 DEF StreakWrites, After
  <2>2. Insert("streak", None, new) \in Write
    BY AfterIs, WritesAre
  <2> HIDE DEF new
  <2> QED
    BY <1>2, <2>1, <2>2, RangeIs DEF new
<1>3. CASE old # NoStreak /\ day <= old.last
  <2>1. StreakWrites(old, day) = << >>
    BY <1>1, <1>3 DEF StreakWrites
  <2>2. After(old, day) = old
    BY <1>3 DEF After
  <2> QED
    BY <1>3, <2>1, <2>2, RangeIs
<1>4. ASSUME NEW n \in Nat, old # NoStreak, ~(day <= old.last), StreakWrites(old, day) = Become(old, n, day),
             new = [current |-> n, longest |-> IF n > old.longest THEN n ELSE old.longest, last |-> day]
      PROVE  StreakWrites(old, day) \in Seq(Write) /\ Range(StreakWrites(old, day)) =
               (IF old.current = new.current THEN {} ELSE {Update("current", None, new.current)})
                 \cup (IF old.longest = new.longest THEN {} ELSE {Update("longest", None, new.longest)})
                 \cup (IF old.last = new.last THEN {} ELSE {Update("last", None, new.last)})
  <2>1. new.current = n /\ new.longest = (IF n > old.longest THEN n ELSE old.longest) /\ new.last = day
    BY <1>4
  <2> HIDE DEF new
  <2> QED
    BY <1>4, <2>1, BecomeIs
<1>5. CASE old # NoStreak /\ ~(day <= old.last) /\ day = old.last + 1
  <2>1. StreakWrites(old, day) = Become(old, old.current + 1, day)
    BY <1>1, <1>5 DEF StreakWrites, Become
  <2>2. new = [current |-> old.current + 1, last |-> day,
               longest |-> IF old.current + 1 > old.longest THEN old.current + 1 ELSE old.longest]
    BY <1>1, <1>5 DEF After
  <2> HIDE DEF new
  <2> QED
    BY <1>1, <1>4, <1>5, <2>1, <2>2 DEF new
<1>6. CASE old # NoStreak /\ ~(day <= old.last) /\ day # old.last + 1
  <2>1. StreakWrites(old, day) = Become(old, 1, day)
    BY <1>1, <1>6 DEF StreakWrites, Become
  <2>2. new = [current |-> 1, last |-> day, longest |-> IF 1 > old.longest THEN 1 ELSE old.longest]
    BY <1>1, <1>6 DEF After
  <2> HIDE DEF new
  <2> QED
    BY <1>1, <1>4, <1>6, <2>1, <2>2 DEF new
<1> QED
  BY <1>2, <1>3, <1>5, <1>6

LEMMA StreakTables ==
  ASSUME NEW old \in Streak, NEW day \in Nat, NEW w \in Range(StreakWrites(old, day))
  PROVE  w.table \in OfStreak /\ w.title = None
<1> DEFINE new == After(old, day)
           a == Insert("streak", None, new)
           b == Update("current", None, new.current)
           c == Update("longest", None, new.longest)
           d == Update("last", None, new.last)
<1>1. \A u \in {a, b, c, d} : u.table \in OfStreak /\ u.title = None
  BY DEF Insert, Update, OfStreak
<1> HIDE DEF a, b, c, d
<1>2. CASE old = NoStreak
  <2>1. Range(StreakWrites(old, day)) = {a}
    BY <1>2, StreakWritesAre DEF a
  <2> QED
    BY <1>1, <2>1
<1>3. CASE old # NoStreak
  <2>1. Range(StreakWrites(old, day)) =
          (IF old.current = new.current THEN {} ELSE {b}) \cup (IF old.longest = new.longest THEN {} ELSE {c})
            \cup (IF old.last = new.last THEN {} ELSE {d})
    BY <1>3, StreakWritesAre DEF b, c, d
  <2> HIDE DEF new
  <2> QED
    BY <1>1, <2>1
<1> QED
  BY <1>2, <1>3

LEMMA RatingWritesAre ==
  ASSUME ratings \in [Titles -> Ratings], NEW t \in Titles, NEW v \in Ratings
  PROVE  /\ RatingWrites(t, v) \in Seq(Write)
         /\ \A w \in Range(RatingWrites(t, v)) :
              w.table \in {"rating", "rated"} /\ (ratings[t] = 0 => w.kind = "insert")
<1> DEFINE a == Insert("rating", t, v)
           b == Update("rated", t, v)
           c == Update("rating", t, v)
           d == Changed("rating", t, ratings[t], v)
<1>1. a \in Write /\ b \in Write /\ c \in Write
  BY WritesAre
<1>2. a.table = "rating" /\ a.kind = "insert" /\ b.table = "rated" /\ c.table = "rating"
  BY DEF Insert, Update
<1>3. d \in Seq(Write) /\ \A w \in Range(d) : w = c
  BY <1>1, ChangedIs
<1>4. RatingWrites(t, v) = IF ratings[t] = 0 THEN <<a>> ELSE <<b>> \o d
  BY DEF RatingWrites
<1> HIDE DEF a, b, c, d
<1>5. CASE ratings[t] = 0
  BY <1>1, <1>2, <1>4, <1>5, RangeIs
<1>6. CASE ratings[t] # 0
  <2> DEFINE bs == <<b>>
  <2>1. bs \in Seq(Write) /\ Range(bs) = {b}
    BY <1>1, Single
  <2> HIDE DEF bs
  <2>2. bs \o d \in Seq(Write) /\ Range(bs \o d) = Range(bs) \cup Range(d)
    BY <1>3, <2>1, Joined
  <2>3. RatingWrites(t, v) \in Seq(Write) /\ Range(RatingWrites(t, v)) = {b} \cup Range(d)
    BY <1>4, <1>6, <2>1, <2>2 DEF bs
  <2> QED
    BY <1>2, <1>3, <1>6, <2>3
<1> QED
  BY <1>5, <1>6

\* What an import writes, if it keeps what is there.
Keeps(w) == w.table \notin {"status", "fav"} /\ (w.table \in {"state", "rating"} => w.kind = "insert")

LEMMA ImportedEventIs ==
  ASSUME NEW item \in Item
  PROVE  ImportedEvent(item) \in Seq(Write) /\ \A w \in Range(ImportedEvent(item)) : w.table = "event"
<1> DEFINE e == Insert("event", item.title,
                  [title |-> item.title, episode |-> None, day |-> item.day, alive |-> TRUE])
<1>1. ASSUME item.day # 0 PROVE e \in Write
  <2>1. [title |-> item.title, episode |-> None, day |-> item.day, alive |-> TRUE] \in Event
    BY <1>1 DEF Item, Event
  <2> QED
    BY <2>1, WritesAre DEF Item
<1>2. e.table = "event"
  BY DEF Insert
<1>3. ImportedEvent(item) = << >> \/ (item.day # 0 /\ ImportedEvent(item) = <<e>>)
  BY DEF ImportedEvent
<1> HIDE DEF e
<1>4. CASE ImportedEvent(item) = << >>
  BY <1>4, Single
<1>5. CASE item.day # 0 /\ ImportedEvent(item) = <<e>>
  <2>1. <<e>> \in Seq(Write) /\ Range(<<e>>) = {e}
    BY <1>1, <1>5, Single
  <2> QED
    BY <1>2, <1>5, <2>1
<1> QED
  BY <1>3, <1>4, <1>5

LEMMA ImportedRatingIs ==
  ASSUME ratings \in [Titles -> Ratings], NEW item \in Item, NEW keep \in BOOLEAN
  PROVE  /\ ImportedRating(item, keep) \in Seq(Write)
         /\ \A w \in Range(ImportedRating(item, keep)) :
              w.table \in {"rating", "rated"} /\ (keep => w.kind = "insert")
<1>1. CASE item.rating = 0 \/ (keep /\ ratings[item.title] # 0)
  <2>1. ImportedRating(item, keep) = << >>
    BY <1>1 DEF ImportedRating
  <2> QED
    BY <2>1, RangeIs
<1>2. CASE ~(item.rating = 0 \/ (keep /\ ratings[item.title] # 0))
  <2>1. ImportedRating(item, keep) = RatingWrites(item.title, item.rating)
    BY <1>2 DEF ImportedRating
  <2>2. item.title \in Titles /\ item.rating \in Ratings
    BY DEF Item
  <2> QED
    BY <1>2, <2>1, <2>2, RatingWritesAre
<1> QED
  BY <1>1, <1>2

LEMMA ImportedStateIs ==
  ASSUME states \in [Titles -> Row], NEW item \in Item, NEW keep \in BOOLEAN
  PROVE  /\ ImportedState(item, keep) \in Seq(Write)
         /\ \A w \in Range(ImportedState(item, keep)) :
              w.table \notin OfStreak /\ (keep => Keeps(w))
<1> DEFINE t == item.title
           old == states[t]
           n == Insert("state", t, [status |-> item.status, fav |-> item.fav])
           a == Changed("status", t, old.status, item.status)
           b == Changed("fav", t, old.fav, item.fav)
           l == Insert("library", t, TRUE)
           sets == (IF item.status = None THEN <<>> ELSE a) \o b
           first == IF old = NoRow THEN <<n>> ELSE IF keep THEN << >> ELSE sets
           second == IF item.status = "PLAN_TO_WATCH" \/ t \in library THEN << >> ELSE <<l>>
           Good(w) == w.table \notin OfStreak /\ (keep => Keeps(w))
<1>1. t \in Titles /\ item.status \in Statuses /\ item.fav \in BOOLEAN
  BY DEF Item
<1>2. n \in Write /\ l \in Write /\ Update("status", t, item.status) \in Write /\ Update("fav", t, item.fav) \in Write
  <2>1. [status |-> item.status, fav |-> item.fav] \in Row
    BY <1>1 DEF Row
  <2> QED
    BY <1>1, <2>1, WritesAre
<1>3. a \in Seq(Write) /\ b \in Seq(Write) /\ (\A w \in Range(a) : w.table = "status")
      /\ \A w \in Range(b) : w.table = "fav"
  <2>1. Update("status", t, item.status).table = "status" /\ Update("fav", t, item.fav).table = "fav"
    BY DEF Update
  <2> QED
    BY <1>2, <2>1, ChangedIs
<1>4. n.table = "state" /\ n.kind = "insert" /\ l.table = "library"
  BY DEF Insert
<1>5. ImportedState(item, keep) \in {<< >>, first \o second}
  BY DEF ImportedState
<1> HIDE DEF n, a, b, l
<1>6. sets \in Seq(Write) /\ \A w \in Range(sets) : w.table \in {"status", "fav"}
  <2> DEFINE c == IF item.status = None THEN <<>> ELSE a
  <2>1. c \in Seq(Write) /\ \A w \in Range(c) : w.table = "status"
    BY <1>3, RangeIs
  <2> HIDE DEF c
  <2>2. c \o b \in Seq(Write) /\ Range(c \o b) = Range(c) \cup Range(b)
    BY <1>3, <2>1, Joined
  <2>3. sets = c \o b
    BY DEF c
  <2> HIDE DEF sets
  <2> QED
    BY <1>3, <2>1, <2>2, <2>3
<1> HIDE DEF sets
<1>7. first \in Seq(Write) /\ \A w \in Range(first) : Good(w)
  <2>1. CASE old = NoRow
    BY <1>2, <1>4, <2>1, RangeIs DEF OfStreak, Keeps
  <2>2. CASE old # NoRow /\ keep
    BY <2>2, RangeIs
  <2>3. CASE old # NoRow /\ ~keep
    BY <1>6, <2>3 DEF OfStreak
  <2> QED
    BY <2>1, <2>2, <2>3
<1>8. second \in Seq(Write) /\ \A w \in Range(second) : Good(w)
  BY <1>2, <1>4, RangeIs DEF OfStreak, Keeps
<1> HIDE DEF first, second
<1>9. first \o second \in Seq(Write) /\ Range(first \o second) = Range(first) \cup Range(second)
  BY <1>7, <1>8, Joined
<1> HIDE DEF Good
<1>10. \A w \in Range(first \o second) : Good(w)
  BY <1>7, <1>8, <1>9
<1>11. CASE ImportedState(item, keep) = << >>
  BY <1>11, RangeIs
<1>12. CASE ImportedState(item, keep) = first \o second
  BY <1>9, <1>10, <1>12 DEF Good
<1> QED
  BY <1>5, <1>11, <1>12

LEMMA ImportedNoteIs ==
  ASSUME NEW item \in Item
  PROVE  ImportedNote(item) \in Seq(Write) /\ \A w \in Range(ImportedNote(item)) : w.table = "note"
<1> DEFINE n == Insert("note", item.title, TRUE)
<1>1. n \in Write /\ n.table = "note"
  BY WritesAre DEF Item, Insert
<1>2. ImportedNote(item) \in {<< >>, <<n>>}
  BY DEF ImportedNote
<1> HIDE DEF n
<1>3. CASE ImportedNote(item) = << >>
  BY <1>3, Single
<1>4. CASE ImportedNote(item) = <<n>>
  <2>1. <<n>> \in Seq(Write) /\ Range(<<n>>) = {n}
    BY <1>1, Single
  <2> QED
    BY <1>1, <1>4, <2>1
<1> QED
  BY <1>2, <1>3, <1>4

Imported(ws, item, keep) ==
  ws \o ImportedEvent(item) \o ImportedRating(item, keep) \o ImportedState(item, keep) \o ImportedNote(item)

LEMMA ImportedIs ==
  ASSUME Typed, NEW ws \in Seq(Write), NEW item \in Item, NEW keep \in BOOLEAN
  PROVE  /\ Imported(ws, item, keep) \in Seq(Write)
         /\ \A w \in Range(Imported(ws, item, keep)) :
              w \in Range(ws) \/ (w.table \notin OfStreak /\ (keep => Keeps(w)))
<1> DEFINE more == Imported(ws, item, keep)
           a == ImportedEvent(item)
           b == ImportedRating(item, keep)
           c == ImportedState(item, keep)
           d == ImportedNote(item)
           Good(w) == w.table \notin OfStreak /\ (keep => Keeps(w))
<1>1. a \in Seq(Write) /\ \A w \in Range(a) : Good(w)
  BY ImportedEventIs DEF OfStreak, Keeps
<1>2. b \in Seq(Write) /\ \A w \in Range(b) : Good(w)
  BY ImportedRatingIs DEF OfStreak, Keeps, Typed
<1>3. c \in Seq(Write) /\ \A w \in Range(c) : Good(w)
  BY ImportedStateIs DEF Typed
<1>4. d \in Seq(Write) /\ \A w \in Range(d) : Good(w)
  BY ImportedNoteIs DEF OfStreak, Keeps
<1> HIDE DEF a, b, c, d, Good
<1> DEFINE x == ws \o a
           y == x \o b
           z == y \o c
<1>5. x \in Seq(Write) /\ Range(x) = Range(ws) \cup Range(a)
  BY <1>1, Joined
<1> HIDE DEF x
<1>6. y \in Seq(Write) /\ Range(y) = Range(x) \cup Range(b)
  BY <1>2, <1>5, Joined
<1> HIDE DEF y
<1>7. z \in Seq(Write) /\ Range(z) = Range(y) \cup Range(c)
  BY <1>3, <1>6, Joined
<1> HIDE DEF z
<1>8. z \o d \in Seq(Write) /\ Range(z \o d) = Range(z) \cup Range(d)
  BY <1>4, <1>7, Joined
<1>9. more = z \o d
  BY DEF Imported, x, y, z, a, b, c, d
<1> HIDE DEF more
<1>10. \A w \in Range(more) : w \in Range(ws) \/ Good(w)
  BY <1>1, <1>2, <1>3, <1>4, <1>5, <1>6, <1>7, <1>8, <1>9
<1> QED
  BY <1>8, <1>9, <1>10 DEF Good, more

-----------------------------------------------------------------------------
(* What stays true of a request *)

EventsKept ==
  \A e \in Event : events[e] > 0 =>
    \E f \in Event : f.title = e.title /\ f.episode = e.episode /\ f.day = e.day /\ events'[f] > 0

LEMMA EarnedStays ==
  ASSUME EventsKept
  PROVE  (\A t, ep : Earned(t, ep) => Earned(t, ep)') /\ (\A d : Watched(d) => Watched(d)')
<1>1. ASSUME NEW t, NEW ep, Earned(t, ep) PROVE Earned(t, ep)'
  <2>1. PICK e \in Event : e.title = t /\ e.episode = ep /\ events[e] > 0
    BY <1>1 DEF Earned
  <2>2. PICK f \in Event : f.title = e.title /\ f.episode = e.episode /\ events'[f] > 0
    BY <2>1 DEF EventsKept
  <2> QED
    BY <2>1, <2>2 DEF Earned
<1>2. ASSUME NEW d, Watched(d) PROVE Watched(d)'
  <2>1. PICK e \in Event : e.day = d /\ events[e] > 0
    BY <1>2 DEF Watched
  <2>2. PICK f \in Event : f.day = e.day /\ events'[f] > 0
    BY <2>1 DEF EventsKept
  <2> QED
    BY <2>1, <2>2 DEF Watched
<1> QED
  BY <1>1, <1>2

LEMMA Counts ==
  ASSUME NEW S \in SUBSET Episodes, NEW T \in SUBSET Episodes, NEW ep \in Episodes, S \subseteq T
  PROVE  /\ Cardinality(S) \in Nat /\ Cardinality(S \cup {ep}) \in Nat /\ Cardinality(T \cup {ep}) \in Nat
         /\ Cardinality(S) <= Cardinality(T)
         /\ Cardinality(S \cup {ep}) <= Cardinality(T \cup {ep})
<1>1. S \cup {ep} \in SUBSET Episodes /\ T \cup {ep} \in SUBSET Episodes /\ S \cup {ep} \subseteq T \cup {ep}
  OBVIOUS
<1>2. \A A \in SUBSET Episodes : IsFiniteSet(A) /\ Cardinality(A) \in Nat
  BY LibraryAssumption, FS_Subset, FS_CardinalityType
<1>3. ASSUME NEW A \in SUBSET Episodes, NEW B \in SUBSET A PROVE Cardinality(B) <= Cardinality(A)
  BY <1>2, FS_Subset
<1> QED
  BY <1>1, <1>2, <1>3

LEMMA LoggedGrows ==
  ASSUME EventsKept
  PROVE  /\ \A t : LoggedUnder(t) \in SUBSET Episodes /\ LoggedUnder(t)' \in SUBSET Episodes
         /\ \A t : LoggedUnder(t) \subseteq LoggedUnder(t)'
<1>1. \A t : LoggedUnder(t) \in SUBSET Episodes /\ LoggedUnder(t)' \in SUBSET Episodes
  BY DEF LoggedUnder
<1>2. \A t, ep : Earned(t, ep) => Earned(t, ep)'
  BY EarnedStays
<1> QED
  BY <1>1, <1>2 DEF LoggedUnder, Earned

LEMMA EnoughStays ==
  ASSUME EventsKept
  PROVE  \A q : q.title \in Titles /\ q.episode \in Episodes /\ Enough(q) => Enough(q)'
<1> SUFFICES ASSUME NEW q, q.title \in Titles, q.episode \in Episodes, Enough(q) PROVE Enough(q)'
  OBVIOUS
<1> DEFINE S == LoggedUnder(q.title)
           T == LoggedUnder(q.title)'
           all == EpisodesOf[q.title]
<1>1. S \in SUBSET Episodes /\ T \in SUBSET Episodes /\ S \subseteq T
  BY LoggedGrows
<1>2. all \in SUBSET Episodes
  BY LibraryAssumption
<1>3. all # {} /\ Cardinality(S \cup {q.episode}) >= Cardinality(all)
  BY DEF Enough
<1>4. Enough(q)' <=> (all # {} /\ Cardinality(T \cup {q.episode}) >= Cardinality(all))
  BY DEF Enough
<1> HIDE DEF S, T, all
<1>5. \A A \in SUBSET Episodes : Cardinality(A) \in Nat
  BY Counts
<1>6. Cardinality(S \cup {q.episode}) <= Cardinality(T \cup {q.episode})
  BY <1>1, Counts
<1>7. Cardinality(T \cup {q.episode}) >= Cardinality(all)
  <2>1. S \cup {q.episode} \in SUBSET Episodes /\ T \cup {q.episode} \in SUBSET Episodes
    BY <1>1
  <2> QED
    BY <1>2, <1>3, <1>5, <1>6, <2>1
<1> QED
  BY <1>3, <1>4, <1>7

LEMMA MoreLogged ==
  ASSUME EventsKept, NEW t \in Titles, NEW S \in SUBSET Episodes, S \subseteq LoggedUnder(t)',
         Cardinality(S) >= Cardinality(EpisodesOf[t])
  PROVE  Cardinality(LoggedUnder(t)') >= Cardinality(EpisodesOf[t])
<1> DEFINE T == LoggedUnder(t)'
           all == EpisodesOf[t]
<1>1. T \in SUBSET Episodes /\ all \in SUBSET Episodes
  BY LoggedGrows, LibraryAssumption
<1>2. S \subseteq T /\ Cardinality(S) >= Cardinality(all)
  OBVIOUS
<1>3. \A A \in SUBSET Episodes : Cardinality(A) \in Nat
  BY LibraryAssumption, FS_Subset, FS_CardinalityType
<1>4. Cardinality(S) <= Cardinality(T)
  <2>1. IsFiniteSet(T)
    BY <1>1, LibraryAssumption, FS_Subset
  <2> HIDE DEF T
  <2> QED
    BY <1>2, <2>1, FS_Subset
<1> HIDE DEF T, all
<1> QED
  BY <1>1, <1>2, <1>3, <1>4 DEF T, all

LEMMA SoundStays ==
  ASSUME EventsKept PROVE \A q : Sound(q) => Sound(q)'
<1> SUFFICES ASSUME NEW q, Sound(q) PROVE Sound(q)'
  OBVIOUS
<1>1. q.title \in Titles /\ q.episode \in Episodes /\ Enough(q) => Enough(q)'
  BY EnoughStays
<1>2. Watching(q) => Watching(q)'
  BY <1>1 DEF Watching
<1>3. Confined(q) => Confined(q)'
  BY DEF Confined
<1> QED
  BY <1>2, <1>3 DEF Sound

LEMMA IdleSound == Idle \in Request /\ Sound(Idle) /\ NoStreak \in Streak
<1>1. NoStreak \in Streak
  BY DEF NoStreak, Streak
<1>2. << >> \in Seq(Item) /\ << >> \in Seq(Write)
  OBVIOUS
<1>3. Idle \in Request
  BY <1>1, <1>2 DEF Idle, Request
<1>4. Idle.writes = << >> /\ Idle.op = "idle" /\ Idle.at = "start"
  BY DEF Idle
<1>5. Confined(Idle)
  BY <1>4, Single DEF Confined
<1> QED
  BY <1>1, <1>3, <1>4, <1>5 DEF Sound

\* One request goes on, and no row changes.
LEMMA OneGoesOn ==
  ASSUME IInv, NEW r \in Requests, NEW q \in Request, Sound(q),
         request' = [request EXCEPT ![r] = q], UNCHANGED rows
  PROVE  IInv'
<1>1. /\ events' = events /\ states' = states /\ ratings' = ratings /\ streak' = streak
      /\ declared' = declared /\ raced' = raced
  BY DEF rows
<1>2. request' \in [Requests -> Request] /\ request'[r] = q /\ \A p \in Requests : p # r => request'[p] = request[p]
  BY DEF IInv, Typed
<1>3. \A p : Sound(p) => Sound(p)'
  BY <1>1, SoundStays DEF EventsKept
<1>4. \A p \in Requests : Sound(request'[p])
  BY <1>2 DEF IInv
<1>5. \A p \in Requests : Sound(request[p])'
  BY <1>3, <1>4
<1>6. CompletedEarned' /\ StreakEarned'
  BY <1>1 DEF IInv, CompletedEarned, StreakEarned, LoggedUnder, Watched
<1>7. Typed'
  BY <1>1, <1>2 DEF IInv, Typed
<1> QED
  BY <1>5, <1>6, <1>7 DEF IInv

LEMMA FailSafe ==
  ASSUME IInv, NEW r \in Requests, Fail(r) PROVE IInv'
BY IdleSound, OneGoesOn DEF Fail

\* A fresh request that has no write yet.
LEMMA StartSafe ==
  ASSUME IInv, NEW r \in Requests, NEW q \in Request, Sound(q), Start(r, q) PROVE IInv'
BY OneGoesOn DEF Start

-----------------------------------------------------------------------------
(* Each step *)

LEMMA InitSafe == Init => IInv
<1> SUFFICES ASSUME Init PROVE IInv
  OBVIOUS
<1>1. Typed
  <2>1. NoRow \in Row /\ NoStreak \in Streak
    BY IdleSound DEF NoRow, Row
  <2> QED
    BY <2>1, IdleSound DEF Init, Typed, Ratings
<1>2. \A r \in Requests : Sound(request[r])
  BY IdleSound DEF Init
<1>3. CompletedEarned /\ StreakEarned
  BY DEF Init, CompletedEarned, StreakEarned, NoRow
<1> QED
  BY <1>1, <1>2, <1>3 DEF IInv

LEMMA WatchSafe ==
  ASSUME IInv, NEW r \in Requests, NEW k \in Keys, NEW t \in Titles, NEW d \in Days,
         NEW e \in Episodes \cup {None}, Watch(r, k, t, e, d)
  PROVE  IInv'
<1> DEFINE q == [Idle EXCEPT !.op = "watch", !.key = k, !.title = t, !.episode = e, !.day = d]
<1>1. Start(r, q)
  BY DEF Watch
<1>2. /\ Idle \in Request /\ Idle.at = "start" /\ Idle.writes = << >>
      /\ e \in Episodes \cup {None}
  BY IdleSound DEF Idle
<1>3. q \in Request
  BY <1>2 DEF Request
<1>4. q.op = "watch" /\ q.at = "start" /\ q.title = t /\ q.episode = e /\ q.day = d /\ q.writes = << >>
  BY <1>2 DEF Request
<1> HIDE DEF q
<1>5. Sound(q)
  BY <1>4, Single DEF Sound, Watching
<1> QED
  BY <1>1, <1>3, <1>5, StartSafe

LEMMA InsertSafe ==
  ASSUME IInv, NEW r \in Requests, InsertEvent(r) PROVE IInv'
<1> DEFINE q == request[r]
<1>1. q \in Request /\ Sound(q) /\ q.op = "watch" /\ q.at = "start"
  BY DEF IInv, Typed, InsertEvent
<1>2. q.title \in Titles /\ q.episode \in Episodes \cup {None} /\ q.day \in Days
  BY <1>1 DEF Sound, Watching
<1>3. CASE Fail(r)
  BY <1>3, FailSafe
<1>4. CASE request' = [request EXCEPT ![r].at = "episodes", ![r].writes = <<Logged(q)>>] /\ UNCHANGED rows
  <2> DEFINE v == [q EXCEPT !.at = "episodes", !.writes = <<Logged(q)>>]
  <2>1. Logged(q) \in Write
    <3>2. [title |-> q.title, episode |-> q.episode, day |-> q.day, alive |-> TRUE] \in Event
      BY <1>2 DEF Event
    <3> QED
      BY <1>2, <3>2, WritesAre DEF Logged
  <2>2. <<Logged(q)>> \in Seq(Write) /\ Range(<<Logged(q)>>) = {Logged(q)}
    BY <2>1, Single
  <2>3. v \in Request
    BY <1>1, <2>2 DEF Request
  <2>4. /\ v.op = "watch" /\ v.at = "episodes" /\ v.title = q.title /\ v.episode = q.episode /\ v.day = q.day
        /\ v.writes = <<Logged(q)>>
    BY <1>1 DEF Request
  <2>5. request' = [request EXCEPT ![r] = v]
    BY <1>4
  <2> HIDE DEF v
  <2>6. Logged(v) = Logged(q) /\ Logged(q).table = "event"
    BY <2>4 DEF Logged, Insert
  <2>7. Sound(v)
    BY <1>2, <2>2, <2>4, <2>6 DEF Sound, Watching
  <2> QED
    BY <1>4, <2>3, <2>5, <2>7, OneGoesOn
<1> QED
  BY <1>3, <1>4 DEF InsertEvent, Logged

\* An episode that completes a title is the last of enough.
LEMMA TargetIs ==
  ASSUME NEW q, q.title \in Titles, q.episode \in Episodes \cup {None}
  PROVE  /\ TargetStatus(q) \in {"WATCHING", "COMPLETED"}
         /\ TargetStatus(q) = "COMPLETED" /\ q.episode # None => Enough(q)
<1>1. TargetStatus(q) \in {"WATCHING", "COMPLETED"}
  BY DEF TargetStatus
<1>2. ASSUME TargetStatus(q) = "COMPLETED", q.episode # None PROVE Enough(q)
  <2> DEFINE all == EpisodesOf[q.title]
             seen == WatchedEpisodes(q)
             logged == LoggedUnder(q.title) \cup {q.episode}
  <2>1. all # {} /\ Cardinality(seen) >= Cardinality(all)
    BY <1>2 DEF TargetStatus
  <2>2. logged \in SUBSET Episodes /\ all \in SUBSET Episodes
    BY <1>2, LibraryAssumption DEF LoggedUnder
  <2>3. seen \subseteq logged
    <3> SUFFICES ASSUME NEW ep \in Episodes, NEW d \in Days,
                        events[[title |-> q.title, episode |-> ep, day |-> d, alive |-> TRUE]] > 0
                 PROVE  ep \in LoggedUnder(q.title)
      BY DEF WatchedEpisodes
    <3>1. [title |-> q.title, episode |-> ep, day |-> d, alive |-> TRUE] \in Event
      BY DEF Event
    <3> QED
      BY <3>1 DEF LoggedUnder
  <2> HIDE DEF all, seen, logged
  <2>4. seen \in SUBSET Episodes
    BY <2>2, <2>3
  <2>5. Cardinality(seen) <= Cardinality(logged) /\ \A S \in SUBSET Episodes : Cardinality(S) \in Nat
    BY <1>2, <2>2, <2>3, <2>4, Counts
  <2>6. Cardinality(logged) >= Cardinality(all)
    BY <2>1, <2>2, <2>4, <2>5
  <2> QED
    BY <2>1, <2>6 DEF Enough, all, logged
<1> QED
  BY <1>1, <1>2

LEMMA EpisodesSafe ==
  ASSUME IInv, NEW r \in Requests, ReadEpisodes(r) PROVE IInv'
<1> DEFINE q == request[r]
           v == [q EXCEPT !.at = "state", !.target = TargetStatus(q)]
<1>1. q \in Request /\ Sound(q) /\ q.at = "episodes"
  BY DEF IInv, Typed, ReadEpisodes
<1>2. q.op = "watch" /\ Watching(q)
  BY <1>1 DEF Sound
<1>3. /\ TargetStatus(q) \in {"WATCHING", "COMPLETED"}
      /\ TargetStatus(q) = "COMPLETED" /\ q.episode # None => Enough(q)
  BY <1>2, TargetIs DEF Watching
<1>4. request' = [request EXCEPT ![r] = v] /\ UNCHANGED rows
  BY DEF ReadEpisodes
<1>5. /\ v \in Request /\ v.op = "watch" /\ v.at = "state" /\ v.title = q.title /\ v.episode = q.episode
      /\ v.day = q.day /\ v.writes = q.writes /\ v.target = TargetStatus(q)
  BY <1>1, <1>2, <1>3 DEF Request
<1> HIDE DEF v
<1>6. Logged(v) = Logged(q) /\ (Enough(v) <=> Enough(q))
  BY <1>5 DEF Logged, Enough
<1>7. Sound(v)
  BY <1>1, <1>2, <1>3, <1>5, <1>6 DEF Sound, Watching
<1> QED
  BY <1>4, <1>5, <1>7, OneGoesOn

LEMMA StateSafe ==
  ASSUME IInv, NEW r \in Requests, ReadState(r) PROVE IInv'
<1> DEFINE q == request[r]
           sw == StatusWrites(q.title, q.target)
           all == q.writes \o sw
           v == [q EXCEPT !.at = "streak", !.writes = all]
<1>1. q \in Request /\ Sound(q) /\ q.at = "state" /\ states \in [Titles -> Row]
  BY DEF IInv, Typed, ReadState
<1>2. q.op = "watch" /\ Watching(q) /\ q.writes \in Seq(Write)
  BY <1>1 DEF Sound, Request
<1>3. /\ q.title \in Titles /\ q.target \in {"WATCHING", "COMPLETED"}
      /\ \A w \in Range(q.writes) : w.table = "event"
  BY <1>1, <1>2 DEF Watching
<1>4. /\ sw \in Seq(Write)
      /\ \A w \in Range(sw) : /\ w.table \in {"state", "status"} /\ w.title = q.title
                              /\ Completes(w) => q.target = "COMPLETED"
  BY <1>1, <1>3, StatusWritesAre
<1>5. request' = [request EXCEPT ![r] = v] /\ UNCHANGED rows
  BY DEF ReadState
<1> HIDE DEF sw
<1>6. all \in Seq(Write) /\ Range(all) = Range(q.writes) \cup Range(sw)
  BY <1>2, <1>4, Joined
<1> HIDE DEF all
<1>7. /\ v \in Request /\ v.op = "watch" /\ v.at = "streak" /\ v.title = q.title /\ v.episode = q.episode
      /\ v.day = q.day /\ v.writes = all /\ v.target = q.target
  BY <1>1, <1>2, <1>6 DEF Request
<1> HIDE DEF v
<1>8. Logged(v) = Logged(q) /\ (Enough(v) <=> Enough(q))
  BY <1>7 DEF Logged, Enough
<1>9. ASSUME NEW w \in Range(all), Completes(w) PROVE w.title = q.title /\ (q.episode # None => Enough(q))
  <2>1. w \in Range(sw)
    BY <1>3, <1>6, <1>9 DEF Completes
  <2> QED
    BY <1>1, <1>2, <1>4, <1>9, <2>1 DEF Watching
<1>10. Sound(v)
  BY <1>1, <1>2, <1>3, <1>4, <1>6, <1>7, <1>8, <1>9 DEF Sound, Watching
<1> QED
  BY <1>5, <1>7, <1>10, OneGoesOn

LEMMA StreakReadSafe ==
  ASSUME IInv, NEW r \in Requests, ReadStreak(r) PROVE IInv'
<1> DEFINE q == request[r]
           st == StreakWrites(streak, q.day)
           all == q.writes \o st
           v == [q EXCEPT !.at = "commit", !.seen = streak, !.writes = all]
<1>1. q \in Request /\ Sound(q) /\ q.at = "streak" /\ streak \in Streak
  BY DEF IInv, Typed, ReadStreak
<1>2. q.op = "watch" /\ Watching(q) /\ q.writes \in Seq(Write)
  BY <1>1 DEF Sound, Request
<1>3. q.day \in Nat /\ \A w \in Range(q.writes) : w.table \in {"event", "state", "status"}
  BY <1>1, <1>2, LibraryAssumption DEF Watching
<1>4. st \in Seq(Write) /\ \A w \in Range(st) : w.table \in OfStreak /\ ~Completes(w)
  BY <1>1, <1>3, StreakWritesAre, StreakTables DEF OfStreak, Completes
<1>5. request' = [request EXCEPT ![r] = v] /\ UNCHANGED rows
  BY DEF ReadStreak
<1> HIDE DEF st
<1>6. all \in Seq(Write) /\ Range(all) = Range(q.writes) \cup Range(st)
  BY <1>2, <1>4, Joined
<1> HIDE DEF all
<1>7. /\ v \in Request /\ v.op = "watch" /\ v.at = "commit" /\ v.title = q.title /\ v.episode = q.episode
      /\ v.day = q.day /\ v.writes = all /\ v.seen = streak
  BY <1>1, <1>2, <1>6 DEF Request
<1> HIDE DEF v
<1>8. Logged(v) = Logged(q) /\ (Enough(v) <=> Enough(q))
  BY <1>7 DEF Logged, Enough
<1>9. \A w \in Range(all) : Completes(w) => w.title = q.title /\ (q.episode # None => Enough(q))
  BY <1>1, <1>2, <1>4, <1>6 DEF Watching
<1>10. {w \in Range(all) : w.table \in OfStreak} = Range(st)
  BY <1>3, <1>4, <1>6 DEF OfStreak
<1>11. Sound(v)
  BY <1>1, <1>2, <1>6, <1>7, <1>8, <1>9, <1>10 DEF Sound, Watching, st
<1> QED
  BY <1>5, <1>7, <1>11, OneGoesOn

\* A request whose writes are complete at once.
LEMMA AtOnceSafe ==
  ASSUME IInv, NEW r \in Requests, NEW op \in {"status", "fav", "rate"}, NEW t \in Titles, NEW ws \in Seq(Write),
         Start(r, [Idle EXCEPT !.op = op, !.at = "commit", !.title = t, !.writes = ws]),
         \A w \in Range(ws) : w.table \notin OfStreak /\
           (op # "rate" => w.table = op \/ (w.table = "state" /\ w.kind = "insert"))
  PROVE  IInv'
<1> DEFINE q == [Idle EXCEPT !.op = op, !.at = "commit", !.title = t, !.writes = ws]
<1>1. Idle \in Request
  BY IdleSound
<1>2. q \in Request /\ q.op = op /\ q.at = "commit" /\ q.writes = ws
  BY <1>1 DEF Request
<1> HIDE DEF q
<1>3. Sound(q)
  BY <1>2 DEF Sound, Confined
<1> QED
  BY <1>2, <1>3, StartSafe DEF q

LEMMA PatchSafe ==
  ASSUME IInv, NEW r \in Requests, NEW t \in Titles, NEW b \in Bodies, Patch(r, t, b[1], b[2]) PROVE IInv'
<1> DEFINE new == [[status |-> None, fav |-> FALSE] EXCEPT ![b[1]] = b[2]]
           n == Insert("state", t, new)
           u == Update(b[1], t, b[2])
           c == Changed(b[1], t, states[t][b[1]], b[2])
           ws == IF states[t] = NoRow THEN <<n>> ELSE c
           Good(w) == w.table \notin OfStreak /\ (w.table = b[1] \/ (w.table = "state" /\ w.kind = "insert"))
<1>1. \/ b[1] = "status" /\ b[2] \in Statuses
      \/ b[1] = "fav" /\ b[2] \in BOOLEAN
  BY LibraryAssumption
<1>2. new \in Row
  <2>1. [status |-> None, fav |-> FALSE] \in Row
    BY DEF Row, Statuses
  <2> QED
    BY <1>1, <2>1 DEF Row
<1> HIDE DEF new
<1>3. n \in Write /\ u \in Write
  BY <1>1, <1>2, WritesAre
<1>4. Good(n) /\ Good(u)
  BY <1>1 DEF Insert, Update, OfStreak
<1>5. c \in Seq(Write) /\ \A w \in Range(c) : w = u
  BY <1>3, ChangedIs
<1>6. Patch(r, t, b[1], b[2]) <=>
        Start(r, [Idle EXCEPT !.op = b[1], !.at = "commit", !.title = t, !.writes = ws])
  BY DEF Patch, PatchWrites, new
<1> HIDE DEF n, u, c
<1>7. ws \in Seq(Write) /\ \A w \in Range(ws) : Good(w)
  <2>1. CASE states[t] = NoRow
    <3>1. <<n>> \in Seq(Write) /\ Range(<<n>>) = {n}
      BY <1>3, Single
    <3> QED
      BY <1>4, <2>1, <3>1
  <2>2. CASE states[t] # NoRow
    BY <1>4, <1>5, <2>2
  <2> QED
    BY <2>1, <2>2
<1> HIDE DEF ws
<1> QED
  BY <1>1, <1>6, <1>7, AtOnceSafe

LEMMA RateSafe ==
  ASSUME IInv, NEW r \in Requests, NEW t \in Titles, NEW v \in Stars, SetRating(r, t, v) PROVE IInv'
<1> DEFINE ws == RatingWrites(t, v)
<1>1. v \in Ratings /\ ratings \in [Titles -> Ratings]
  BY LibraryAssumption DEF Ratings, IInv, Typed
<1>2. ws \in Seq(Write) /\ \A w \in Range(ws) : w.table \notin OfStreak
  BY <1>1, RatingWritesAre DEF OfStreak
<1>3. Start(r, [Idle EXCEPT !.op = "rate", !.at = "commit", !.title = t, !.writes = ws])
  BY DEF SetRating
<1> HIDE DEF ws
<1> QED
  BY <1>2, <1>3, AtOnceSafe

LEMMA ImportSafe ==
  ASSUME IInv, NEW r \in Requests, NEW file \in Files, NEW keep \in BOOLEAN, Import(r, file, keep) PROVE IInv'
<1> DEFINE q == [Idle EXCEPT !.op = "import", !.items = file, !.keep = keep]
<1>1. Idle \in Request /\ Idle.writes = << >> /\ Idle.at = "start" /\ file \in Seq(Item) /\ file # << >>
  BY IdleSound, LibraryAssumption DEF Idle
<1>2. q \in Request /\ q.op = "import" /\ q.at = "start" /\ q.items = file /\ q.writes = << >>
  BY <1>1 DEF Request
<1>3. Start(r, q)
  BY DEF Import
<1> HIDE DEF q
<1>4. Sound(q)
  BY <1>1, <1>2, Single DEF Sound, Confined
<1> QED
  BY <1>2, <1>3, <1>4, StartSafe

LEMMA ItemSafe ==
  ASSUME IInv, NEW r \in Requests, ImportItem(r) PROVE IInv'
<1> DEFINE q == request[r]
           item == Head(q.items)
           more == Imported(q.writes, item, q.keep)
           at == IF Len(q.items) = 1 THEN "commit" ELSE "start"
           v == [q EXCEPT !.writes = more, !.items = Tail(q.items), !.at = at]
<1>1. q \in Request /\ Sound(q) /\ q.op = "import" /\ q.at = "start" /\ Typed
  BY DEF IInv, Typed, ImportItem
<1>2. q.items \in Seq(Item) /\ q.items # << >> /\ q.writes \in Seq(Write) /\ q.keep \in BOOLEAN /\ Confined(q)
  BY <1>1 DEF Request, Sound
<1>3. item \in Item /\ Tail(q.items) \in Seq(Item) /\ (at = "start" => Tail(q.items) # << >>)
  BY <1>2, HeadTail
<1>4. /\ more \in Seq(Write)
      /\ \A w \in Range(more) : w \in Range(q.writes) \/ (w.table \notin OfStreak /\ (q.keep => Keeps(w)))
  BY <1>1, <1>2, <1>3, ImportedIs
<1>5. Fail(r) \/ (request' = [request EXCEPT ![r] = v] /\ UNCHANGED rows)
  BY DEF ImportItem, Imported
<1>6. at \in {"start", "commit"}
  OBVIOUS
<1> HIDE DEF more, at
<1>7. v \in Request /\ v.op = "import" /\ v.at = at /\ v.items = Tail(q.items) /\ v.writes = more /\ v.keep = q.keep
  BY <1>1, <1>3, <1>4, <1>6 DEF Request
<1> HIDE DEF v
<1>8. Confined(v)
  <2>1. \A w \in Range(q.writes) : w.table \notin OfStreak /\ (q.keep => Keeps(w))
    BY <1>1, <1>2 DEF Confined, Keeps
  <2>2. \A w \in Range(more) : w.table \notin OfStreak /\ (q.keep => Keeps(w))
    BY <1>4, <2>1
  <2> QED
    BY <1>7, <2>2 DEF Confined, Keeps
<1>9. Sound(v)
  BY <1>3, <1>6, <1>7, <1>8 DEF Sound
<1> QED
  BY <1>5, <1>7, <1>9, FailSafe, OneGoesOn

\* Rows change that no request relies on.
LEMMA RowsChange ==
  ASSUME IInv, EventsKept, events' \in [Event -> Nat], ratings' \in [Titles -> Ratings],
         UNCHANGED <<states, streak, declared, raced, request>>
  PROVE  IInv'
<1>1. \A r \in Requests : Sound(request[r])'
  BY SoundStays DEF IInv
<1>2. Typed'
  BY DEF IInv, Typed
<1>3. CompletedEarned'
  <2> SUFFICES ASSUME NEW t \in Titles \ declared, states[t].status = "COMPLETED"
               PROVE  EpisodesOf[t] # {} /\ Cardinality(LoggedUnder(t)') >= Cardinality(EpisodesOf[t])
    BY DEF CompletedEarned
  <2>1. EpisodesOf[t] # {} /\ Cardinality(LoggedUnder(t)) >= Cardinality(EpisodesOf[t])
    BY DEF IInv, CompletedEarned
  <2> QED
    BY <2>1, LoggedGrows, MoreLogged
<1>4. StreakEarned'
  <2> SUFFICES ASSUME ~raced /\ streak # NoStreak
               PROVE  /\ streak.longest >= streak.current
                      /\ \A d \in (streak.last - streak.current + 1)..streak.last : Watched(d)'
    BY DEF StreakEarned, Watched
  <2>1. /\ streak.longest >= streak.current
        /\ \A d \in (streak.last - streak.current + 1)..streak.last : Watched(d)
    BY DEF IInv, StreakEarned, Watched
  <2> QED
    BY <2>1, EarnedStays
<1> QED
  BY <1>1, <1>2, <1>3, <1>4 DEF IInv

LEMMA DeleteSafe ==
  ASSUME IInv, NEW e \in Event, DeleteEvent(e) PROVE IInv'
<1> DEFINE tomb == [e EXCEPT !.alive = FALSE]
<1>1. /\ tomb \in Event /\ tomb # e /\ tomb.title = e.title /\ tomb.episode = e.episode /\ tomb.day = e.day
  BY DEF Event, DeleteEvent
<1>2. events \in [Event -> Nat] /\ events[e] > 0
  BY DEF IInv, Typed, DeleteEvent
<1>3. events' = [events EXCEPT ![e] = @ - 1, ![tomb] = @ + 1]
  BY DEF DeleteEvent
<1> HIDE DEF tomb
<1>4. events' \in [Event -> Nat] /\ events'[tomb] > 0 /\ \A f \in Event : f # e => events'[f] >= events[f]
  BY <1>1, <1>2, <1>3
<1>5. EventsKept
  <2> SUFFICES ASSUME NEW f \in Event, events[f] > 0
               PROVE  \E g \in Event : g.title = f.title /\ g.episode = f.episode /\ g.day = f.day /\ events'[g] > 0
    BY DEF EventsKept
  <2>1. CASE f = e
    BY <1>1, <1>4, <2>1
  <2>2. CASE f # e
    <3>1. events'[f] > 0
      BY <1>2, <1>4, <2>2
    <3> QED
      BY <3>1
  <2> QED
    BY <2>1, <2>2
<1> QED
  BY <1>4, <1>5, RowsChange DEF DeleteEvent, IInv, Typed

-----------------------------------------------------------------------------
(* The commit *)

Taken(r) == Commit(r) /\ ~Refuses(r)

LEMMA ValuesAre ==
  \A w \in Write :
    /\ w.table = "state" => w.value \in Row
    /\ w.table = "status" => w.value \in Statuses \cup {"absent"}
    /\ w.table = "fav" => w.value \in BOOLEAN
    /\ w.table = "rating" => w.value \in Ratings
    /\ w.table = "streak" => w.value \in Streak
    /\ w.table \in {"current", "longest", "last"} => w.value \in Nat
BY DEF Write

LEMMA ColumnIs ==
  ASSUME NEW ws \in Seq(Write), NEW table, NEW t, NEW V, NEW old \in V,
         \A w \in Write : w.table = table => w.value \in V
  PROVE  LastWritten(ws, table, t, old) \in V
<1>1. Range(ws) \subseteq Write
  BY RangeIs
<1> QED
  BY <1>1, LastWrittenIs

\* The events that are written are there, and none goes.
LEMMA EventsGrow ==
  ASSUME IInv, NEW r \in Requests, Taken(r)
  PROVE  /\ events' \in [Event -> Nat] /\ EventsKept
         /\ \A w \in Range(request[r].writes) : w.table = "event" /\ w.value \in Event => events'[w.value] > 0
<1> DEFINE ws == request[r].writes
           Here(e) == {i \in {j \in DOMAIN ws : ws[j].table = "event"} : ws[i].value = e}
<1>1. ws \in Seq(Write) /\ events \in [Event -> Nat]
  BY DEF IInv, Typed, Request
<1>2. events' = [e \in Event |-> events[e] + Cardinality(Here(e))]
  BY DEF Taken, Commit
<1>3. DOMAIN ws = 1..Len(ws) /\ IsFiniteSet(1..Len(ws))
  <2>1. DOMAIN ws = 1..Len(ws) /\ Len(ws) \in Nat
    BY <1>1
  <2> QED
    BY <2>1, FS_Interval
<1> HIDE DEF ws
<1>4. ASSUME NEW e PROVE IsFiniteSet(Here(e)) /\ Cardinality(Here(e)) \in Nat
  <2>1. Here(e) \in SUBSET (1..Len(ws))
    BY <1>3
  <2> QED
    BY <1>3, <2>1, FS_Subset, FS_CardinalityType
<1>5. ASSUME NEW e, Here(e) # {} PROVE Cardinality(Here(e)) > 0
  <2> DEFINE S == Here(e)
  <2>1. IsFiniteSet(S) /\ Cardinality(S) \in Nat /\ S # {}
    BY <1>4, <1>5
  <2> HIDE DEF S
  <2>2. Cardinality(S) # 0
    BY <2>1, FS_EmptySet
  <2>3. Cardinality(S) > 0
    BY <2>1, <2>2
  <2> QED
    BY <2>3 DEF S
<1> HIDE DEF Here
<1>6. events' \in [Event -> Nat] /\ \A e \in Event : events'[e] >= events[e]
  BY <1>1, <1>2, <1>4
<1>7. EventsKept
  BY <1>1, <1>6 DEF EventsKept
<1>8. ASSUME NEW w \in Range(ws), w.table = "event", w.value \in Event PROVE events'[w.value] > 0
  <2>1. Here(w.value) # {}
    BY <1>8 DEF Here, Range
  <2> QED
    BY <1>1, <1>2, <1>4, <1>5, <1>8, <2>1
<1> QED
  BY <1>6, <1>7, <1>8 DEF ws

RowOf(ws, t) == LastWritten(ws, "state", t, states[t])
StreakOf(ws) == LastWritten(ws, "streak", None, streak)

LEMMA CommitTypes ==
  ASSUME IInv, NEW r \in Requests, Taken(r), NEW ws, ws = request[r].writes
  PROVE  /\ Typed' /\ ws \in Seq(Write) /\ Range(ws) \subseteq Write
         /\ \A t \in Titles :
              /\ RowOf(ws, t) \in Row
              /\ states'[t].status = LastWritten(ws, "status", t, RowOf(ws, t).status)
              /\ states'[t] = [status |-> LastWritten(ws, "status", t, RowOf(ws, t).status),
                             fav |-> LastWritten(ws, "fav", t, RowOf(ws, t).fav)]
              /\ ratings'[t] = LastWritten(ws, "rating", t, ratings[t])
         /\ StreakOf(ws) \in Streak
         /\ streak' = [current |-> LastWritten(ws, "current", None, StreakOf(ws).current),
                      longest |-> LastWritten(ws, "longest", None, StreakOf(ws).longest),
                      last |-> LastWritten(ws, "last", None, StreakOf(ws).last)]
         /\ request' = [request EXCEPT ![r] = Idle]
         /\ declared' = IF request[r].op = "watch" /\ request[r].episode # None THEN declared
                        ELSE declared \cup {t \in Titles : states[t].status # "COMPLETED" /\ states'[t].status = "COMPLETED"}
         /\ raced' = (raced \/ (request[r].op = "watch" /\ request[r].seen # streak))
<1> DEFINE Status(t) == LastWritten(ws, "status", t, RowOf(ws, t).status)
           Fav(t) == LastWritten(ws, "fav", t, RowOf(ws, t).fav)
<1>1. ws \in Seq(Write) /\ Range(ws) \subseteq Write
  BY RangeIs DEF IInv, Typed, Request
<1>2. ASSUME NEW t \in Titles
      PROVE  RowOf(ws, t) \in Row /\ Status(t) \in Statuses \cup {"absent"} /\ Fav(t) \in BOOLEAN
  <2>1. RowOf(ws, t) \in Row
    BY <1>1, ValuesAre, ColumnIs DEF RowOf, IInv, Typed
  <2>2. RowOf(ws, t).status \in Statuses \cup {"absent"} /\ RowOf(ws, t).fav \in BOOLEAN
    BY <2>1 DEF Row
  <2>3. Status(t) \in Statuses \cup {"absent"}
    BY <1>1, <2>2, ValuesAre, ColumnIs
  <2>4. Fav(t) \in BOOLEAN
    BY <1>1, <2>2, ValuesAre, ColumnIs
  <2> QED
    BY <2>1, <2>3, <2>4
<1>3. /\ states' = [t \in Titles |-> [status |-> Status(t), fav |-> Fav(t)]]
      /\ ratings' = [t \in Titles |-> LastWritten(ws, "rating", t, ratings[t])]
      /\ streak' = [c \in DOMAIN StreakOf(ws) |-> LastWritten(ws, c, None, StreakOf(ws)[c])]
      /\ request' = [request EXCEPT ![r] = Idle]
  BY DEF Taken, Commit, RowOf, StreakOf
<1>4. /\ declared' = IF request[r].op = "watch" /\ request[r].episode # None THEN declared
                     ELSE declared \cup {t \in Titles : states[t].status # "COMPLETED" /\ states'[t].status = "COMPLETED"}
      /\ raced' = (raced \/ (request[r].op = "watch" /\ request[r].seen # streak))
  BY DEF Taken, Commit
<1>5. StreakOf(ws) \in Streak
  BY <1>1, ValuesAre, ColumnIs DEF StreakOf, IInv, Typed
<1>6. /\ LastWritten(ws, "current", None, StreakOf(ws).current) \in Nat
      /\ LastWritten(ws, "longest", None, StreakOf(ws).longest) \in Nat
      /\ LastWritten(ws, "last", None, StreakOf(ws).last) \in Nat
  <2>1. StreakOf(ws).current \in Nat /\ StreakOf(ws).longest \in Nat /\ StreakOf(ws).last \in Nat
    BY <1>5 DEF Streak
  <2>2. \A w \in Write : w.table = "current" \/ w.table = "longest" \/ w.table = "last" => w.value \in Nat
    BY ValuesAre
  <2> QED
    BY <1>1, <2>1, <2>2, ColumnIs
<1> HIDE DEF Status, Fav
<1>7. states' \in [Titles -> Row]
  BY <1>2, <1>3 DEF Row
<1>8. ratings' \in [Titles -> Ratings]
  <2>1. \A t \in Titles : ratings[t] \in Ratings
    BY DEF IInv, Typed
  <2>2. \A t \in Titles : LastWritten(ws, "rating", t, ratings[t]) \in Ratings
    BY <1>1, <2>1, ValuesAre, ColumnIs
  <2> QED
    BY <1>3, <2>2
<1>9. streak' = [current |-> LastWritten(ws, "current", None, StreakOf(ws).current),
                 longest |-> LastWritten(ws, "longest", None, StreakOf(ws).longest),
                 last |-> LastWritten(ws, "last", None, StreakOf(ws).last)]
  <2>1. DOMAIN StreakOf(ws) = {"current", "longest", "last"}
    BY <1>5 DEF Streak
  <2> QED
    BY <1>3, <2>1
<1>10. streak' \in Streak
  BY <1>6, <1>9 DEF Streak
<1>11. request' \in [Requests -> Request]
  BY <1>3, IdleSound DEF IInv, Typed
<1>12. Typed'
  BY <1>7, <1>8, <1>10, <1>11, EventsGrow DEF Typed
<1>13. ASSUME NEW t \in Titles
       PROVE  /\ states'[t] = [status |-> Status(t), fav |-> Fav(t)]
              /\ states'[t].status = Status(t)
              /\ ratings'[t] = LastWritten(ws, "rating", t, ratings[t])
  BY <1>3
<1> QED
  BY <1>1, <1>2, <1>3, <1>4, <1>5, <1>9, <1>12, <1>13 DEF Status, Fav

LEMMA CompletedSafe ==
  ASSUME IInv, NEW r \in Requests, Taken(r) PROVE CompletedEarned'
<1> DEFINE q == request[r]
           ws == q.writes
<1>1. q \in Request /\ Sound(q) /\ q.at = "commit" /\ EventsKept
  BY EventsGrow DEF IInv, Typed, Taken, Commit
<1>2. /\ ws \in Seq(Write) /\ Range(ws) \subseteq Write
      /\ \A t \in Titles : states'[t].status = LastWritten(ws, "status", t, RowOf(ws, t).status)
      /\ declared' = IF q.op = "watch" /\ q.episode # None THEN declared
                     ELSE declared \cup {t \in Titles : states[t].status # "COMPLETED" /\ states'[t].status = "COMPLETED"}
  BY CommitTypes
<1> SUFFICES ASSUME NEW t \in Titles \ declared', states'[t].status = "COMPLETED"
             PROVE  EpisodesOf[t] # {} /\ Cardinality(LoggedUnder(t)') >= Cardinality(EpisodesOf[t])
  BY DEF CompletedEarned
<1>3. t \notin declared
  BY <1>2
<1>4. CASE states[t].status = "COMPLETED"
  <2>1. EpisodesOf[t] # {} /\ Cardinality(LoggedUnder(t)) >= Cardinality(EpisodesOf[t])
    BY <1>3, <1>4 DEF IInv, CompletedEarned
  <2> QED
    BY <1>1, <2>1, LoggedGrows, MoreLogged
<1>5. CASE states[t].status # "COMPLETED"
  <2>1. q.op = "watch" /\ q.episode # None
    BY <1>2, <1>5
  <2>2. \E w \in Range(ws) : Completes(w) /\ w.title = t
    <3>1. CASE \E w \in Range(ws) : w.table = "status" /\ w.title = t /\ w.value = "COMPLETED"
      BY <3>1 DEF Completes
    <3>2. CASE RowOf(ws, t).status = "COMPLETED"
      <4>1. \/ RowOf(ws, t) = states[t]
            \/ \E w \in Range(ws) : w.table = "state" /\ w.title = t /\ RowOf(ws, t) = w.value
        BY <1>2, LastWrittenIs DEF RowOf
      <4> QED
        BY <1>5, <3>2, <4>1 DEF Completes
    <3> QED
      BY <1>2, <3>1, <3>2, LastWrittenIs
  <2>3. /\ t = q.title /\ Enough(q) /\ q.episode \in Episodes
        /\ Logged(q) \in Range(ws)
    BY <1>1, <2>1, <2>2 DEF Sound, Watching
  <2> DEFINE e == Logged(q).value
  <2>4. Logged(q) \in Write /\ Logged(q).table = "event"
    BY <1>2, <2>3 DEF Logged, Insert
  <2>5. e \in Event
    BY <2>4 DEF Write
  <2>6. events'[e] > 0
    BY <2>3, <2>4, <2>5, EventsGrow
  <2>7. e.title = t /\ e.episode = q.episode
    BY <2>3 DEF Logged, Insert
  <2> HIDE DEF e
  <2>8. q.episode \in LoggedUnder(t)'
    BY <2>3, <2>5, <2>6, <2>7 DEF LoggedUnder
  <2>9. LoggedUnder(t) \cup {q.episode} \in SUBSET Episodes /\ LoggedUnder(t) \cup {q.episode} \subseteq LoggedUnder(t)'
    BY <1>1, <2>3, <2>8, LoggedGrows
  <2> QED
    BY <1>1, <2>3, <2>9, MoreLogged DEF Enough
<1> QED
  BY <1>4, <1>5

\* The writes of a watch make the streak of the one that was read.
LEMMA StreakCommitted ==
  ASSUME NEW old \in Streak, NEW day \in Nat, NEW ws \in Seq(Write), NEW read,
         {w \in Range(ws) : w.table \in OfStreak} = Range(StreakWrites(old, day)),
         read = LastWritten(ws, "streak", None, old)
  PROVE  [current |-> LastWritten(ws, "current", None, read.current),
          longest |-> LastWritten(ws, "longest", None, read.longest),
          last |-> LastWritten(ws, "last", None, read.last)] = After(old, day)
<1> DEFINE new == After(old, day)
           a == Insert("streak", None, new)
           b == Update("current", None, new.current)
           c == Update("longest", None, new.longest)
           d == Update("last", None, new.last)
           Of(table) == {w \in Range(ws) : w.table = table}
<1>1. /\ a.table = "streak" /\ a.title = None /\ a.value = new
      /\ b.table = "current" /\ b.title = None /\ b.value = new.current
      /\ c.table = "longest" /\ c.title = None /\ c.value = new.longest
      /\ d.table = "last" /\ d.title = None /\ d.value = new.last
  BY DEF Insert, Update
<1>2. new \in Streak
  BY AfterIs
<1>3. /\ old = NoStreak => Range(StreakWrites(old, day)) = {a}
      /\ old # NoStreak => Range(StreakWrites(old, day)) =
           (IF old.current = new.current THEN {} ELSE {b}) \cup (IF old.longest = new.longest THEN {} ELSE {c})
             \cup (IF old.last = new.last THEN {} ELSE {d})
  BY StreakWritesAre
<1> HIDE DEF new, a, b, c, d
<1>4. ASSUME NEW table, NEW x
      PROVE  /\ Of(table) = {} => LastWritten(ws, table, None, x) = x
             /\ \A w : Of(table) = {w} /\ w.title = None => LastWritten(ws, table, None, x) = w.value
  BY LastWrittenIs
<1>5. CASE old = NoStreak
  <2>1. /\ Of("streak") = {a} /\ Of("current") = {} /\ Of("longest") = {} /\ Of("last") = {}
    BY <1>1, <1>3, <1>5 DEF OfStreak
  <2> HIDE DEF Of
  <2>2. read = new
    BY <1>1, <1>4, <2>1
  <2>3. /\ LastWritten(ws, "current", None, read.current) = new.current
        /\ LastWritten(ws, "longest", None, read.longest) = new.longest
        /\ LastWritten(ws, "last", None, read.last) = new.last
    BY <1>4, <2>1, <2>2
  <2> QED
    BY <1>2, <2>3 DEF new, Streak
<1>6. CASE old # NoStreak
  <2>1. /\ Of("streak") = {}
        /\ Of("current") = IF old.current = new.current THEN {} ELSE {b}
        /\ Of("longest") = IF old.longest = new.longest THEN {} ELSE {c}
        /\ Of("last") = IF old.last = new.last THEN {} ELSE {d}
    BY <1>1, <1>3, <1>6 DEF OfStreak
  <2> HIDE DEF Of
  <2>2. read = old
    BY <1>4, <2>1
  <2>3. LastWritten(ws, "current", None, read.current) = new.current
    BY <1>1, <1>4, <2>1, <2>2
  <2>4. LastWritten(ws, "longest", None, read.longest) = new.longest
    BY <1>1, <1>4, <2>1, <2>2
  <2>5. LastWritten(ws, "last", None, read.last) = new.last
    BY <1>1, <1>4, <2>1, <2>2
  <2> QED
    BY <1>2, <2>3, <2>4, <2>5 DEF new, Streak
<1> QED
  BY <1>5, <1>6

Running(s) ==
  s # NoStreak => s.longest >= s.current /\ \A d \in (s.last - s.current + 1)..s.last : Watched(d)

LEMMA StreakGoesOn ==
  ASSUME NEW old \in Streak, NEW day \in Nat, Running(old), EventsKept, Watched(day)' PROVE Running(After(old, day))'
<1>1. \A d : Watched(d) => Watched(d)'
  BY EarnedStays
<1>2. old.current \in Nat /\ old.longest \in Nat /\ old.last \in Nat
  BY DEF Streak
<1>3. CASE old = NoStreak
  <2>1. After(old, day).longest = 1 /\ After(old, day).current = 1 /\ After(old, day).last = day
    BY <1>3 DEF After
  <2>2. \A d \in (day - 1 + 1)..day : d = day
    OBVIOUS
  <2> QED
    BY <2>1, <2>2 DEF Running
<1>4. CASE old # NoStreak /\ day <= old.last
  <2>1. After(old, day) = old
    BY <1>4 DEF After
  <2> QED
    BY <1>1, <1>4, <2>1 DEF Running
<1>5. CASE old # NoStreak /\ ~(day <= old.last) /\ day = old.last + 1
  <2> DEFINE n == old.current + 1
  <2>1. /\ After(old, day).current = n /\ After(old, day).last = day
        /\ After(old, day).longest = IF n > old.longest THEN n ELSE old.longest
    BY <1>5 DEF After
  <2>2. \A d \in (day - n + 1)..day : d = day \/ d \in (old.last - old.current + 1)..old.last
    BY <1>2, <1>5
  <2>3. \A d \in (old.last - old.current + 1)..old.last : Watched(d)
    BY <1>5 DEF Running
  <2>4. After(old, day).longest >= After(old, day).current
    BY <1>2, <2>1
  <2> QED
    BY <1>1, <2>1, <2>2, <2>3, <2>4 DEF Running
<1>6. CASE old # NoStreak /\ ~(day <= old.last) /\ day # old.last + 1
  <2>1. /\ After(old, day).current = 1 /\ After(old, day).last = day
        /\ After(old, day).longest = IF 1 > old.longest THEN 1 ELSE old.longest
    BY <1>6 DEF After
  <2>2. \A d \in (day - 1 + 1)..day : d = day
    OBVIOUS
  <2>3. After(old, day).longest >= After(old, day).current
    BY <1>2, <2>1
  <2> QED
    BY <2>1, <2>2, <2>3 DEF Running
<1> QED
  BY <1>3, <1>4, <1>5, <1>6

LEMMA StreakSafe ==
  ASSUME IInv, NEW r \in Requests, Taken(r) PROVE StreakEarned'
<1> DEFINE q == request[r]
           ws == q.writes
<1>1. q \in Request /\ Sound(q) /\ q.at = "commit" /\ EventsKept /\ streak \in Streak
  BY EventsGrow DEF IInv, Typed, Taken, Commit
<1>2. /\ ws \in Seq(Write) /\ Range(ws) \subseteq Write
      /\ streak' = [current |-> LastWritten(ws, "current", None, StreakOf(ws).current),
                   longest |-> LastWritten(ws, "longest", None, StreakOf(ws).longest),
                   last |-> LastWritten(ws, "last", None, StreakOf(ws).last)]
      /\ raced' = (raced \/ (q.op = "watch" /\ q.seen # streak))
  BY CommitTypes
<1> SUFFICES ASSUME ~raced' PROVE Running(streak)'
  BY DEF StreakEarned, Running, Watched
<1>3. ~raced /\ (q.op = "watch" => q.seen = streak)
  BY <1>2
<1>4. Running(streak)
  BY <1>3 DEF IInv, StreakEarned, Running, Watched
<1>5. CASE q.op = "watch"
  <2>1. PICK old \in Streak, day \in Nat : old = streak /\ day = q.day
    BY <1>1, <1>5, LibraryAssumption DEF Sound, Watching
  <2>2. Logged(q) \in Range(ws) /\ {w \in Range(ws) : w.table \in OfStreak} = Range(StreakWrites(old, day))
    BY <1>1, <1>3, <1>5, <2>1 DEF Sound, Watching
  <2>3. streak' = After(old, day)
    BY <1>2, <2>1, <2>2, StreakCommitted DEF StreakOf
  <2>4. Watched(day)'
    <3> DEFINE e == Logged(q).value
    <3>1. Logged(q) \in Write /\ Logged(q).table = "event"
      BY <1>2, <2>2 DEF Logged, Insert
    <3>2. e \in Event
      BY <3>1 DEF Write
    <3>3. events'[e] > 0
      BY <2>2, <3>1, <3>2, EventsGrow
    <3>4. e.day = day
      BY <2>1 DEF Logged, Insert
    <3>5. \E f \in Event : f.day = day /\ events'[f] > 0
      BY <3>2, <3>3, <3>4
    <3> QED
      BY <3>5 DEF Watched
  <2>5. Running(After(old, day))'
    BY <1>1, <1>4, <2>1, <2>4, StreakGoesOn
  <2> QED
    BY <2>3, <2>5 DEF Running
<1>6. CASE q.op # "watch"
  <2>1. \A w \in Range(ws) : w.table \notin OfStreak
    BY <1>1, <1>6 DEF Sound, Confined
  <2>2. StreakOf(ws) = streak
    BY <1>2, <2>1, LastWrittenIs DEF StreakOf, OfStreak
  <2>3. streak' = streak
    <3>1. /\ LastWritten(ws, "current", None, streak.current) = streak.current
          /\ LastWritten(ws, "longest", None, streak.longest) = streak.longest
          /\ LastWritten(ws, "last", None, streak.last) = streak.last
      BY <1>2, <2>1, LastWrittenIs DEF OfStreak
    <3> QED
      BY <1>1, <1>2, <2>2, <3>1 DEF Streak
  <2> QED
    BY <1>1, <1>4, <2>3, EarnedStays DEF Running
<1> QED
  BY <1>5, <1>6

LEMMA CommitSafe ==
  ASSUME IInv, NEW r \in Requests, Commit(r) PROVE IInv'
<1>1. CASE Refuses(r)
  BY <1>1, FailSafe DEF Commit
<1>2. CASE ~Refuses(r)
  <2>1. Taken(r)
    BY <1>2 DEF Taken
  <2>2. EventsKept
    BY <2>1, EventsGrow
  <2>3. Typed' /\ request' = [request EXCEPT ![r] = Idle]
    BY <2>1, CommitTypes
  <2>4. \A p \in Requests : Sound(request[p])'
    <3>1. \A q : Sound(q) => Sound(q)'
      BY <2>2, SoundStays
    <3>2. \A p \in Requests : Sound(request'[p])
      BY <2>3, IdleSound DEF IInv, Typed
    <3> QED
      BY <3>1, <3>2
  <2>5. CompletedEarned' /\ StreakEarned'
    BY <2>1, CompletedSafe, StreakSafe
  <2> QED
    BY <2>3, <2>4, <2>5 DEF IInv
<1> QED
  BY <1>1, <1>2

LEMMA NextSafe ==
  ASSUME IInv, Next PROVE IInv'
<1>1. CASE WatchNext
  BY <1>1, WatchSafe, DeleteSafe DEF WatchNext
<1>2. CASE ShelfNext
  <2>1. CASE \E r \in Requests, t \in Titles, v \in Stars : SetRating(r, t, v)
    BY <2>1, RateSafe
  <2>2. CASE \E t \in Titles : DeleteRating(t)
    <3>1. ratings' \in [Titles -> Ratings]
      BY <2>2 DEF DeleteRating, IInv, Typed, Ratings
    <3>2. events' = events /\ UNCHANGED <<states, streak, declared, raced, request>>
      BY <2>2 DEF DeleteRating
    <3> QED
      BY <3>1, <3>2, RowsChange DEF EventsKept, IInv, Typed
  <2>3. CASE \E t \in Titles : SetLibrary(t)
    <3>1. events' = events /\ ratings' = ratings /\ UNCHANGED <<states, streak, declared, raced, request>>
      BY <2>3 DEF SetLibrary
    <3> QED
      BY <3>1, RowsChange DEF EventsKept, IInv, Typed
  <2> QED
    BY <1>2, <2>1, <2>2, <2>3 DEF ShelfNext
<1>3. CASE ImportNext
  BY <1>3, PatchSafe, ImportSafe DEF ImportNext
<1>4. ASSUME NEW r \in Requests, Step(r) PROVE IInv'
  BY <1>4, InsertSafe, EpisodesSafe, StateSafe, StreakReadSafe, ItemSafe, CommitSafe DEF Step
<1> QED
  BY <1>1, <1>2, <1>3, <1>4 DEF Next

LEMMA Safety == Spec => []IInv
<1>1. IInv /\ [Next]_vars => IInv'
  <2> SUFFICES ASSUME IInv, [Next]_vars PROVE IInv'
    OBVIOUS
  <2>1. CASE UNCHANGED vars
    <3>1. EventsKept /\ UNCHANGED <<events, ratings, states, streak, declared, raced, request>>
      BY <2>1 DEF vars, rows, EventsKept
    <3> QED
      BY <3>1, RowsChange DEF IInv, Typed
  <2> QED
    BY <2>1, NextSafe
<1> QED
  BY <1>1, InitSafe, PTL DEF Spec

\* Episodes complete a series only when as many different ones have been logged
\* under it as it has, in whatever order the requests read, commit and delete
\* events: the target status computed in create_watch_event is still right at the
\* commit.
THEOREM SeriesCompletedEarned == Spec => []CompletedEarned
<1>1. IInv => CompletedEarned
  BY DEF IInv
<1> QED
  BY <1>1, Safety, PTL

\* A title under which only its own episodes have been logged is completed by all
\* of them.
OwnOnly ==
  \A t \in Titles \ declared :
    states[t].status = "COMPLETED" /\ LoggedUnder(t) \subseteq EpisodesOf[t] => LoggedUnder(t) = EpisodesOf[t]

\* What create_watch_event promises to clients that log episodes of the title only:
\* none of its episodes is missing when it is completed.
THEOREM CompletedByAll == Spec => []OwnOnly
<1>1. IInv => OwnOnly
  <2> SUFFICES ASSUME IInv, NEW t \in Titles \ declared, states[t].status = "COMPLETED",
                      LoggedUnder(t) \subseteq EpisodesOf[t]
               PROVE  LoggedUnder(t) = EpisodesOf[t]
    BY DEF OwnOnly
  <2> DEFINE S == LoggedUnder(t)
             all == EpisodesOf[t]
  <2>1. S \subseteq all /\ all \in SUBSET Episodes /\ Cardinality(S) >= Cardinality(all)
    BY LibraryAssumption DEF IInv, CompletedEarned
  <2> HIDE DEF S, all
  <2>2. IsFiniteSet(all) /\ Cardinality(all) \in Nat /\ Cardinality(S) \in Nat
    BY <2>1, LibraryAssumption, FS_Subset, FS_CardinalityType
  <2>3. Cardinality(S) <= Cardinality(all) /\ (Cardinality(all) = Cardinality(S) => all = S)
    BY <2>1, <2>2, FS_Subset
  <2>4. S = all
    BY <2>1, <2>2, <2>3
  <2> QED
    BY <2>4 DEF S, all
<1> QED
  BY <1>1, Safety, PTL

\* Every day of the streak that update_user_streak keeps has its watch event, and
\* the longest streak is no shorter, unless two requests read the same row.
THEOREM StreaksEarned == Spec => []StreakEarned
<1>1. IInv => StreakEarned
  BY DEF IInv
<1> QED
  BY <1>1, Safety, PTL

-----------------------------------------------------------------------------
(* What a commit leaves alone *)

\* A request leaves "commit" only by its commit.
LEMMA OnlyCommitEnds ==
  ASSUME IInv, [Next]_vars, NEW r \in Requests, Ends(r) PROVE Commit(r)
<1>1. request[r].at = "commit" /\ request'[r].at = "start"
  BY DEF Ends, Idle
<1>2. request \in [Requests -> Request]
  BY DEF IInv, Typed
<1>3. ASSUME NEW p \in Requests, request[p].at # "commit", NEW q, request' = [request EXCEPT ![p] = q]
      PROVE  FALSE
  BY <1>1, <1>2, <1>3
<1>4. Idle.at = "start"
  BY DEF Idle
<1>5. ASSUME NEW p \in Requests, NEW q, Start(p, q) PROVE FALSE
  BY <1>3, <1>4, <1>5 DEF Start
<1>6. request' # request
  BY <1>1
<1>7. ~UNCHANGED vars /\ ~WatchNext
  BY <1>5, <1>6 DEF vars, WatchNext, Watch, DeleteEvent
<1>8. ~ShelfNext
  BY <1>5, <1>6 DEF ShelfNext, SetRating, DeleteRating, SetLibrary
<1>9. ~ImportNext
  BY <1>5 DEF ImportNext, Patch, Import
<1>10. ASSUME NEW p \in Requests, Step(p) PROVE Commit(r)
  <2>1. ASSUME InsertEvent(p) PROVE FALSE
    <3>1. request[p].at = "start" /\ \E q : request' = [request EXCEPT ![p] = q]
      BY <2>1 DEF InsertEvent, Fail
    <3> QED
      BY <1>3, <3>1
  <2>2. ASSUME ReadEpisodes(p) \/ ReadState(p) \/ ReadStreak(p) PROVE FALSE
    <3>1. request[p].at \in {"episodes", "state", "streak"} /\ \E q : request' = [request EXCEPT ![p] = q]
      BY <2>2 DEF ReadEpisodes, ReadState, ReadStreak
    <3> QED
      BY <1>3, <3>1
  <2>3. ASSUME ImportItem(p) PROVE FALSE
    <3>1. request[p].at = "start" /\ \E q : request' = [request EXCEPT ![p] = q]
      BY <2>3 DEF ImportItem, Fail
    <3> QED
      BY <1>3, <3>1
  <2>4. ASSUME Commit(p) PROVE p = r
    <3>1. request' = [request EXCEPT ![p] = Idle]
      BY <2>4 DEF Commit, Fail
    <3> QED
      BY <1>1, <1>2, <3>1
  <2> QED
    BY <1>10, <2>1, <2>2, <2>3, <2>4 DEF Step
<1> QED
  BY <1>7, <1>8, <1>9, <1>10 DEF Next

LEMMA NoRowTwice ==
  ASSUME NEW r \in Requests, ~Refuses(r), NEW w \in Range(request[r].writes), Keyed(w), w.kind = "insert"
  PROVE  ~Present(w.table, w.title)
BY DEF Refuses, Range

LEMMA KeptAtCommit ==
  ASSUME IInv, NEW r \in Requests, Commit(r), NEW t \in Titles
  PROVE  /\ request[r].op = "import" /\ request[r].keep =>
              (ratings[t] # 0 => ratings'[t] = ratings[t]) /\ (states[t] # NoRow => states'[t] = states[t])
         /\ request[r].op = "status" /\ states[t] # NoRow => states'[t].fav = states[t].fav
         /\ request[r].op = "fav" /\ states[t] # NoRow => states'[t].status = states[t].status
<1> DEFINE q == request[r]
           ws == q.writes
<1>1. CASE Refuses(r)
  BY <1>1 DEF Commit, Fail, rows
<1>2. CASE ~Refuses(r)
  <2>1. /\ ws \in Seq(Write) /\ states[t] \in Row
        /\ states'[t] = [status |-> LastWritten(ws, "status", t, RowOf(ws, t).status),
                        fav |-> LastWritten(ws, "fav", t, RowOf(ws, t).fav)]
        /\ ratings'[t] = LastWritten(ws, "rating", t, ratings[t])
    BY <1>2, CommitTypes DEF Taken, IInv, Typed
  <2>2. q.op # "watch" => Confined(q)
    BY DEF IInv, Sound
  <2>3. states[t] # NoRow => \A w \in Range(ws) : ~(w.table = "state" /\ w.kind = "insert" /\ w.title = t)
    BY <1>2, NoRowTwice DEF Present, Keyed
  <2>4. ratings[t] # 0 => \A w \in Range(ws) : ~(w.table = "rating" /\ w.kind = "insert" /\ w.title = t)
    BY <1>2, NoRowTwice DEF Present, Keyed
  <2>5. ASSUME q.op \in {"status", "fav"} \/ (q.op = "import" /\ q.keep), states[t] # NoRow
        PROVE  RowOf(ws, t) = states[t]
    <3>1. \A w \in Range(ws) : w.table = "state" => w.kind = "insert"
      BY <2>2, <2>5 DEF Confined
    <3> QED
      BY <2>1, <2>3, <2>5, <3>1, LastWrittenIs DEF RowOf
  <2>6. ASSUME q.op = "import", q.keep, ratings[t] # 0 PROVE ratings'[t] = ratings[t]
    <3>1. \A w \in Range(ws) : w.table = "rating" => w.kind = "insert"
      BY <2>2, <2>6 DEF Confined
    <3> QED
      BY <2>1, <2>4, <2>6, <3>1, LastWrittenIs
  <2>7. ASSUME q.op = "import", q.keep, states[t] # NoRow PROVE states'[t] = states[t]
    <3>1. \A w \in Range(ws) : w.table \notin {"status", "fav"}
      BY <2>2, <2>7 DEF Confined
    <3>2. /\ LastWritten(ws, "status", t, states[t].status) = states[t].status
          /\ LastWritten(ws, "fav", t, states[t].fav) = states[t].fav
      BY <2>1, <3>1, LastWrittenIs
    <3> QED
      BY <2>1, <2>5, <2>7, <3>2 DEF Row
  <2>8. ASSUME q.op = "status", states[t] # NoRow PROVE states'[t].fav = states[t].fav
    <3>1. \A w \in Range(ws) : w.table # "fav"
      BY <2>2, <2>8 DEF Confined
    <3>2. LastWritten(ws, "fav", t, states[t].fav) = states[t].fav
      BY <2>1, <3>1, LastWrittenIs
    <3> QED
      BY <2>1, <2>5, <2>8, <3>2
  <2>9. ASSUME q.op = "fav", states[t] # NoRow PROVE states'[t].status = states[t].status
    <3>1. \A w \in Range(ws) : w.table # "status"
      BY <2>2, <2>9 DEF Confined
    <3>2. LastWritten(ws, "status", t, states[t].status) = states[t].status
      BY <2>1, <3>1, LastWrittenIs
    <3> QED
      BY <2>1, <2>5, <2>9, <3>2
  <2> QED
    BY <2>6, <2>7, <2>8, <2>9
<1> QED
  BY <1>1, <1>2

\* An import with KEEP_EXISTING changes no rating and no state that is there when
\* it commits, and a PATCH only the field of its body, whatever other requests
\* did since it read: the database refuses the insert of a row that has come.
THEOREM ExistingKept == Spec => KeepExisting
<1>1. IInv /\ [Next]_vars => \A r \in Requests : Ends(r) =>
        \A t \in Titles :
          /\ request[r].op = "import" /\ request[r].keep =>
               (ratings[t] # 0 => ratings'[t] = ratings[t]) /\ (states[t] # NoRow => states'[t] = states[t])
          /\ request[r].op = "status" /\ states[t] # NoRow => states'[t].fav = states[t].fav
          /\ request[r].op = "fav" /\ states[t] # NoRow => states'[t].status = states[t].status
  BY OnlyCommitEnds, KeptAtCommit
<1> QED
  BY <1>1, Safety, PTL DEF Spec, KeepExisting
=============================================================================
