--------------------------- MODULE IngestionProofs ---------------------------
(***************************************************************************)
(* Safety of the ingestion for any number of requests and of titles, any   *)
(* names, providers and files.  Each batch decides on copies that it read  *)
(* before and on rows nobody else sees, so the invariant is about what a   *)
(* request sees, the committed rows and its own: that view is tidy, and    *)
(* the copies are of rows in it.  It stays so while others commit because  *)
(* a row that is in a view is never changed, and the new rows of any two   *)
(* requests have different ids.                                            *)
(***************************************************************************)
EXTENDS Ingestion, SequenceTheorems, FiniteSetTheorems, WellFoundedInduction, TLAPS

\* What is mapped to a title may be the same work.
Fits(i, t) == i.name = t.name => i.year \in {None, t.year}

\* Two works, as far as the resolver can tell.
Distinct(t, u) == t.name # u.name \/ t.year # u.year \/ t.name \in Common

\* A table of titles in which no title repeats one that its run could see, be it for
\* the names that the resolver cannot compare.
Tidy(ts) ==
  \A t \in Titles : ts[t] # None =>
    \A u \in ts[t].saw : /\ ts[u] # None
                         /\ u # t => Distinct(ts[u], ts[t])

\* A table of external ids, of titles that are there.
Placed(ms, ts) ==
  \A x \in Exts : ms[x] # None => ts[ms[x].title] # None /\ Fits(ms[x].by, ts[ms[x].title])

\* What a request j sees beside the rows ts and ms.
RowsOf(j, ts) == [t \in Titles |-> IF j.new[t] # None THEN j.new[t] ELSE ts[t]]
IdsOf(j, ms)  == [x \in Exts |-> IF j.ids[x] # None THEN j.ids[x].title
                                 ELSE IF ms[x] # None THEN ms[x].title ELSE None]

\* The copies a request decides on are of rows that it sees; of the titles it could
\* see, those named like an item that has no title yet are among its candidates.
Copies(j, ts, ms) ==
  /\ \A x \in Exts : j.map[x] # None => RowsOf(j, ts)[j.map[x]] # None
  /\ \A x \in Exts : j.known[x] # None => IdsOf(j, ms)[x] = j.known[x]
  /\ \A t \in j.cands \cup j.saw : RowsOf(j, ts)[t] # None
  /\ j.at = "items" =>
       \A k \in DOMAIN j.file[1] : j.map[j.file[1][k].ext] = None =>
         \A t \in j.saw : RowsOf(j, ts)[t].name = j.file[1][k].name => t \in j.cands

\* Its new rows are new, and have found their place when it is about to commit.
Own(j, ts, ms) ==
  /\ j.at # "commit" => j.file # << >>
  /\ \A t \in Titles : j.new[t] # None => ts[t] = None
  /\ Tidy(RowsOf(j, ts)) /\ Placed(j.ids, RowsOf(j, ts))
  /\ j.at = "commit" => /\ \A x \in Exts : j.ids[x] # None => ms[x] = None
                        /\ j.sent \/ \A x \in Exts : j.ids[x] = None
  /\ Copies(j, ts, ms)

Apart(j, k) ==
  /\ \A t \in Titles : j.new[t] = None \/ k.new[t] = None
  /\ j.at = "commit" /\ k.at = "commit" => \A x \in Exts : j.ids[x] = None \/ k.ids[x] = None

IInv ==
  /\ TypeOK
  /\ Tidy(titles) /\ Placed(mapping, titles)
  /\ \A r \in Open : Own(job[r], titles, mapping)
  /\ \A r, q \in Open : r # q => Apart(job[r], job[q])

\* An open request.
Request ==
  [at : {"map", "load", "items", "commit"}, provider : Providers, dry : BOOLEAN,
   file : Seq(Seq(Item)), new : [Titles -> Title \cup {None}],
   ids : [Exts -> Mapped \cup {None}], sent : BOOLEAN, map : [Exts -> Titles \cup {None}],
   cands : SUBSET Titles, made : SUBSET Titles, used : SUBSET Titles,
   known : [Exts -> Titles \cup {None}], saw : SUBSET Titles, counter : Nat \cup {None}]

-----------------------------------------------------------------------------
(* Lemmas on requests *)

LEMMA OpenTyped ==
  ASSUME TypeOK, NEW r \in Requests
  PROVE  /\ r \in Open => job[r] \in Request
         /\ job[r].at \in {"map", "load", "items", "commit"} => r \in Open
<1>1. job[r] = Idle \/ job[r] \in Request
  BY DEF TypeOK, Job, Request
<1> QED
  BY <1>1 DEF Open, Idle

LEMMA NotIdle == ASSUME NEW j \in Request PROVE j # Idle /\ j \in Job
<1>1. j.at # "idle" /\ Idle.at = "idle"
  BY DEF Request, Idle
<1> QED
  BY <1>1 DEF Job, Request

LEMMA Seen ==
  ASSUME NEW r \in Open
  PROVE  Rows(r) = RowsOf(job[r], titles) /\ Ids(r) = IdsOf(job[r], mapping)
  BY DEF Rows, Ids, RowsOf, IdsOf

\* The types of a view.
LEMMA SeenTyped ==
  ASSUME NEW j \in Request, NEW ts \in [Titles -> Title \cup {None}], NEW ms \in [Exts -> Mapped \cup {None}]
  PROVE  /\ RowsOf(j, ts) \in [Titles -> Title \cup {None}]
         /\ IdsOf(j, ms) \in [Exts -> Titles \cup {None}]
         /\ \A t \in Titles : RowsOf(j, ts)[t] = IF j.new[t] # None THEN j.new[t] ELSE ts[t]
         /\ \A x \in Exts : IdsOf(j, ms)[x] = IF j.ids[x] # None THEN j.ids[x].title
                                              ELSE IF ms[x] # None THEN ms[x].title ELSE None
<1>1. j.new \in [Titles -> Title \cup {None}] /\ j.ids \in [Exts -> Mapped \cup {None}]
  BY DEF Request
<1>2. \A m \in Mapped : m.title \in Titles
  BY DEF Mapped
<1> QED
  BY <1>1, <1>2 DEF RowsOf, IdsOf

\* A title that has an external id in a view is in the view.
LEMMA IdsThere ==
  ASSUME TypeOK, NEW j \in Request, Own(j, titles, mapping), Placed(mapping, titles), NEW x \in Exts,
         IdsOf(j, mapping)[x] # None
  PROVE  IdsOf(j, mapping)[x] \in Titles /\ RowsOf(j, titles)[IdsOf(j, mapping)[x]] # None
<1>1. /\ titles \in [Titles -> Title \cup {None}] /\ mapping \in [Exts -> Mapped \cup {None}]
      /\ j.new \in [Titles -> Title \cup {None}] /\ j.ids \in [Exts -> Mapped \cup {None}]
  BY DEF TypeOK, Request
<1>2. IdsOf(j, mapping)[x] \in Titles
  <2>1. IdsOf(j, mapping) \in [Exts -> Titles \cup {None}]
    BY <1>1, SeenTyped
  <2> QED
    BY <2>1
<1>3. CASE j.ids[x] # None
  BY <1>1, <1>3, SeenTyped DEF Own, Placed
<1>4. CASE j.ids[x] = None
  <2>1. mapping[x] # None /\ IdsOf(j, mapping)[x] = mapping[x].title
    BY <1>1, <1>4, SeenTyped
  <2>2. titles[mapping[x].title] # None
    BY <2>1 DEF Placed
  <2> QED
    BY <1>1, <1>2, <2>1, <2>2, SeenTyped DEF Own
<1> QED
  BY <1>2, <1>3, <1>4

\* Only one request changes, and to what it may be.
LEMMA Moved ==
  ASSUME IInv, NEW r \in Requests, NEW j \in Request, job' = [job EXCEPT ![r] = j],
         UNCHANGED <<titles, mapping>>, suspended' \subseteq Registered,
         Own(j, titles, mapping), \A q \in Open \ {r} : Apart(j, job[q])
  PROVE  IInv'
<1>1. job \in [Requests -> Job] /\ job'[r] = j /\ \A q \in Requests \ {r} : job'[q] = job[q]
  BY DEF IInv, TypeOK
<1>2. TypeOK'
  BY <1>1, NotIdle DEF IInv, TypeOK
<1>3. Open' \ {r} = Open \ {r} /\ r \in Open'
  BY <1>1, NotIdle DEF Open
<1>4. Tidy(titles)' /\ Placed(mapping, titles)'
  BY DEF IInv
<1>5. \A q \in Open' : Own(job[q], titles, mapping)'
  BY <1>1, <1>3 DEF IInv, Open
<1>6. \A p, q \in Open' : p # q => Apart(job[p], job[q])'
  <2>1. \A p, q \in Open : Apart(job[p], job[q]) => Apart(job[q], job[p])
    BY DEF Apart
  <2>2. \A q \in Open \ {r} : Apart(job[q], j)
    BY DEF Apart
  <2> QED
    BY <1>1, <1>3, <2>2 DEF IInv, Open
<1> QED
  BY <1>2, <1>4, <1>5, <1>6 DEF IInv

\* Who neither adds rows nor gets ready to commit stays apart from the others.
LEMMA StillApart ==
  ASSUME IInv, NEW r \in Open, NEW j, j.new = job[r].new, j.at # "commit"
  PROVE  \A q \in Open \ {r} : Apart(j, job[q])
<1>1. \A q \in Open \ {r} : Apart(job[r], job[q])
  BY DEF IInv
<1> QED
  BY <1>1 DEF Apart

LEMMA NoRows ==
         /\ NoTitles \in [Titles -> Title \cup {None}] /\ NoIds \in [Exts -> Mapped \cup {None}]
         /\ NoIds \in [Exts -> Titles \cup {None}]
         /\ \A t \in Titles : NoTitles[t] = None
         /\ \A x \in Exts : NoIds[x] = None
  BY DEF NoTitles, NoIds

\* A request that holds nothing sees what is committed.
LEMMA SeesCommitted ==
  ASSUME TypeOK, NEW j, j.new = NoTitles
  PROVE  RowsOf(j, titles) = titles
  BY NoRows DEF RowsOf, TypeOK

-----------------------------------------------------------------------------
(* Lemmas on items *)

\* The next item is one of the batch, and what remains without it.
Consumed(j) == [j EXCEPT !.file[1] = Tail(@)]

LEMMA NextItem ==
  ASSUME NEW j \in Request, j.file # << >>, j.file[1] # << >>
  PROVE  /\ j.file[1][1] \in Item /\ 1 \in DOMAIN j.file[1]
         /\ Consumed(j) \in Request /\ Consumed(j).file # << >>
         /\ \A k \in DOMAIN Consumed(j).file[1] : \E l \in DOMAIN j.file[1] : Consumed(j).file[1][k] = j.file[1][l]
         /\ Consumed(j) = [j EXCEPT !.file = Consumed(j).file]
<1> DEFINE f == j.file
           g == [f EXCEPT ![1] = Tail(f[1])]
<1>1. f \in Seq(Seq(Item)) /\ Len(f) \in Nat /\ 1 \in 1..Len(f) /\ f[1] \in Seq(Item)
  BY EmptySeq, LenProperties DEF Request
<1>2. f[1][1] \in Item /\ 1 \in DOMAIN f[1]
  BY <1>1, EmptySeq, LenProperties
<1>3. /\ Tail(f[1]) \in Seq(Item) /\ Len(Tail(f[1])) = Len(f[1]) - 1
      /\ \A i \in 1..Len(Tail(f[1])) : Tail(f[1])[i] = f[1][i + 1]
  BY <1>1, HeadTailProperties
<1>4. g \in Seq(Seq(Item)) /\ Len(g) = Len(f) /\ g[1] = Tail(f[1])
  BY <1>1, <1>3, ExceptSeq
<1>5. Consumed(j) = [j EXCEPT !.file = g]
  BY DEF Consumed
<1>6. Consumed(j).file = g /\ Consumed(j) \in Request
  BY <1>4, <1>5 DEF Request
<1>7. \A k \in DOMAIN g[1] : \E l \in DOMAIN f[1] : g[1][k] = f[1][l]
  <2> TAKE k \in DOMAIN g[1]
  <2>1. k \in 1..Len(f[1]) - 1 /\ Len(f[1]) \in Nat /\ DOMAIN f[1] = 1..Len(f[1])
    BY <1>1, <1>3, <1>4, LenProperties
  <2>2. k + 1 \in DOMAIN f[1]
    BY <2>1
  <2>3. g[1][k] = f[1][k + 1]
    BY <1>3, <1>4, <2>1
  <2> QED
    BY <2>2, <2>3
<1>8. g # << >>
  BY <1>1, <1>4, EmptySeq
<1> HIDE DEF g
<1> QED
  BY <1>2, <1>5, <1>6, <1>7, <1>8

\* What the resolver answers: a title of the candidates that is the same work or has
\* the item's external id; or none, and then no candidate is similar.
LEMMA Resolved ==
  ASSUME IInv, NEW r \in Open, NEW i \in Item
  PROVE  /\ Resolve(r, i) \in Titles =>
              \/ job[r].known[i.ext] = Resolve(r, i)
              \/ /\ job[r].known[i.ext] = None
                 /\ Resolve(r, i) \in job[r].cands /\ SameWork(i, Rows(r)[Resolve(r, i)])
         /\ Resolve(r, i) = None =>
              job[r].known[i.ext] = None /\ \A t \in job[r].cands : ~Similar(i, Rows(r)[t])
<1> DEFINE j    == job[r]
           same == {t \in j.cands : SameWork(i, Rows(r)[t])}
           one  == CHOOSE t \in same : TRUE
<1>1. j \in Request /\ i.ext \in Exts
  BY OpenTyped DEF IInv, Open, Item
<1>2. same \subseteq Titles /\ j.known[i.ext] \in Titles \cup {None}
  BY <1>1 DEF Request
<1>3. Cardinality(same) \in Nat /\ (Cardinality(same) = 0 <=> same = {})
  <2>1. IsFiniteSet(Titles)
    BY IngestionAssumption
  <2> HIDE DEF same
  <2>2. IsFiniteSet(same)
    BY <1>2, <2>1, FS_Subset
  <2> QED
    BY <2>2, FS_CardinalityType, FS_EmptySet
<1>4. Resolve(r, i) =
        CASE j.known[i.ext] # None -> j.known[i.ext]
          [] j.known[i.ext] = None /\ Cardinality(same) = 1 /\ same \cap j.made = {} -> one
          [] j.known[i.ext] = None /\ same # {} /\ (Cardinality(same) > 1 \/ same \cap j.made # {}) -> "review"
          [] j.known[i.ext] = None /\ same = {} ->
               IF \E t \in j.cands : Similar(i, Rows(r)[t]) THEN "review" ELSE None
  BY DEF Resolve
<1>5. None \notin Titles /\ "review" \notin Titles /\ None # "review"
  BY IngestionAssumption
<1>6. CASE j.known[i.ext] # None
  <2>1. Resolve(r, i) = j.known[i.ext]
    BY <1>4, <1>6
  <2> QED
    BY <1>6, <2>1
<1>7. CASE j.known[i.ext] = None /\ Cardinality(same) = 1 /\ same \cap j.made = {}
  <2>1. same # {}
    BY <1>3, <1>7
  <2>2. Resolve(r, i) = one
    <3> HIDE DEF one, same, j
    <3> QED
      BY <1>4, <1>7, <2>1
  <2>3. Resolve(r, i) \in same
    BY <2>1, <2>2
  <2> QED
    BY <1>2, <1>5, <1>7, <2>3
<1>8. CASE j.known[i.ext] = None /\ same # {} /\ ~(Cardinality(same) = 1 /\ same \cap j.made = {})
  <2>1. Cardinality(same) > 1 \/ same \cap j.made # {}
    BY <1>3, <1>8
  <2>2. Resolve(r, i) = "review"
    BY <1>4, <1>8, <2>1
  <2> QED
    BY <1>5, <2>2
<1>9. CASE j.known[i.ext] = None /\ same = {}
  <2>1. Resolve(r, i) = IF \E t \in j.cands : Similar(i, Rows(r)[t]) THEN "review" ELSE None
    BY <1>3, <1>4, <1>9
  <2> QED
    BY <1>5, <1>9, <2>1
<1> QED
  BY <1>6, <1>7, <1>8, <1>9

\* The display id of a new title is a number: of as many numbers as there are used ids
\* and one more, one is not used.
LEMMA NumberFound ==
  ASSUME IInv, NEW r \in Open
  PROVE  NextNumber(r) \in Nat
<1> DEFINE from == IF job[r].counter # None THEN job[r].counter
                   ELSE Cardinality({t \in Titles : Rows(r)[t] # None})
           used == {Rows(r)[t].number : t \in job[r].used}
           span == from + 1 .. from + 1 + Cardinality(used)
           free == span \ used
<1>1. job[r].counter \in Nat \cup {None} /\ job[r].used \subseteq Titles
  BY OpenTyped DEF IInv, Open, Request
<1>2. from \in Nat
  <2>1. IsFiniteSet({t \in Titles : Rows(r)[t] # None})
    BY IngestionAssumption, FS_Subset
  <2> QED
    BY <1>1, <2>1, FS_CardinalityType
<1>3. IsFiniteSet(used) /\ Cardinality(used) \in Nat
  <2>1. IsFiniteSet(job[r].used)
    BY <1>1, IngestionAssumption, FS_Subset
  <2>2. [t \in job[r].used |-> Rows(r)[t].number] \in Surjection(job[r].used, used)
    BY DEF Surjection
  <2> HIDE DEF used
  <2> QED
    BY <2>1, <2>2, FS_Surjection, FS_CardinalityType
<1> HIDE DEF from, used
<1>4. IsFiniteSet(span) /\ Cardinality(span) = Cardinality(used) + 1
  BY <1>2, <1>3, FS_Interval
<1>5. free # {}
  <2> SUFFICES ASSUME span \subseteq used PROVE FALSE
    OBVIOUS
  <2> HIDE DEF span
  <2>1. Cardinality(span) <= Cardinality(used)
    BY <1>3, FS_Subset
  <2> QED
    BY <1>3, <1>4, <2>1
<1>6. free \subseteq Nat /\ span \subseteq Nat
  BY <1>2, <1>3
<1>7. PICK n \in free : \A m \in free : ~ (<<m, n>> \in OpToRel(<, Nat))
  <2> HIDE DEF free
  <2> QED
    BY <1>5, <1>6, NatLessThanWellFounded, WFMin
<1>8. \A m \in from + 1 .. n - 1 : m \in used
  <2> SUFFICES ASSUME NEW m \in from + 1 .. n - 1, m \notin used PROVE FALSE
    OBVIOUS
  <2>1. m \in Nat /\ n \in Nat /\ m < n /\ m \in span
    BY <1>2, <1>3, <1>6
  <2>2. <<m, n>> \in OpToRel(<, Nat)
    BY <2>1 DEF OpToRel
  <2> QED
    BY <1>7, <2>1, <2>2
<1>9. \E n_1 \in span : n_1 \notin used /\ \A m \in from + 1 .. n_1 - 1 : m \in used
  BY <1>7, <1>8
<1>10. NextNumber(r) = CHOOSE n_1 \in span : n_1 \notin used /\ \A m \in from + 1 .. n_1 - 1 : m \in used
  BY DEF NextNumber, from, used
<1> HIDE DEF span
<1> QED
  BY <1>6, <1>9, <1>10

\* An item is done with: what held for the batch holds for the rest of it.
LEMMA ItemDone ==
  ASSUME IInv, NEW r \in Open, NEW j \in Request, j.at = "items", j.file = job[r].file, AtItem(r), Next1(r, j),
         UNCHANGED <<titles, mapping, suspended>>,
         Own(j, titles, mapping), \A q \in Open \ {r} : Apart(j, job[q])
  PROVE  IInv'
<1> DEFINE k == Consumed(j)
<1>1. job[r].at = "items" /\ job[r].file # << >> /\ job[r].file[1] # << >>
  BY DEF AtItem, IInv, Own
<1>2. /\ k \in Request /\ k.file # << >> /\ k = [j EXCEPT !.file = k.file]
      /\ \A n \in DOMAIN k.file[1] : \E l \in DOMAIN j.file[1] : k.file[1][n] = j.file[1][l]
  BY <1>1, NextItem
<1>3. job' = [job EXCEPT ![r] = k]
  BY DEF Next1, Consumed
<1> HIDE DEF k
<1>4. /\ k.at = j.at /\ k.new = j.new /\ k.ids = j.ids /\ k.sent = j.sent /\ k.map = j.map
      /\ k.cands = j.cands /\ k.known = j.known /\ k.saw = j.saw
  BY <1>2 DEF Request
<1>5. RowsOf(k, titles) = RowsOf(j, titles) /\ IdsOf(k, mapping) = IdsOf(j, mapping)
  BY <1>4 DEF RowsOf, IdsOf
<1>6. Copies(k, titles, mapping)
  BY <1>2, <1>4, <1>5 DEF Own, Copies
<1>7. Own(k, titles, mapping)
  BY <1>2, <1>4, <1>5, <1>6 DEF Own
<1>8. \A q \in Open \ {r} : Apart(k, job[q])
  BY <1>4 DEF Apart
<1>9. r \in Requests /\ suspended' \subseteq Registered
  BY DEF Open, IInv, TypeOK
<1> QED
  BY <1>2, <1>3, <1>7, <1>8, <1>9, Moved

-----------------------------------------------------------------------------
(* The steps *)

LEMMA TriggerSafe ==
  ASSUME IInv, NEW r \in Requests, NEW p \in Providers, NEW f \in Files, Trigger(r, p, f)
  PROVE  IInv'
<1> DEFINE k == [at |-> "map", provider |-> p, dry |-> f.dry, file |-> f.batches, new |-> NoTitles,
                 ids |-> NoIds, sent |-> FALSE, map |-> NoIds, cands |-> {}, made |-> {}, used |-> {},
                 known |-> NoIds, saw |-> {}, counter |-> None]
<1>1. k \in Request
  BY IngestionAssumption, NoRows DEF Request
<1>2. job' = [job EXCEPT ![r] = k] /\ UNCHANGED <<titles, mapping, suspended>>
  BY DEF Trigger
<1>3. k.file # << >> /\ k.at = "map" /\ k.new = NoTitles /\ k.ids = NoIds /\ k.map = NoIds /\ k.known = NoIds
        /\ k.cands = {} /\ k.saw = {}
  BY IngestionAssumption
<1> HIDE DEF k
<1>4. RowsOf(k, titles) = titles
  BY <1>3, SeesCommitted DEF IInv
<1>5. Own(k, titles, mapping)
  BY <1>3, <1>4, NoRows DEF IInv, Own, Copies, Placed
<1>6. \A q \in Open \ {r} : Apart(k, job[q])
  BY <1>3, NoRows DEF Apart
<1>7. suspended' \subseteq Registered
  BY <1>2 DEF IInv, TypeOK
<1> QED
  BY <1>1, <1>2, <1>5, <1>6, <1>7, Moved

LEMMA PreloadMapSafe ==
  ASSUME IInv, NEW r \in Requests, PreloadMap(r)
  PROVE  IInv'
<1> DEFINE j   == job[r]
           map == [x \in Exts |-> IF Provider[x] = j.provider THEN Ids(r)[x] ELSE None]
           k   == [j EXCEPT !.at = "load", !.map = map]
<1>1. r \in Open /\ j \in Request /\ Own(j, titles, mapping) /\ j.at = "map"
  BY OpenTyped DEF PreloadMap, IInv
<1>2. Ids(r) = IdsOf(j, mapping) /\ Rows(r) = RowsOf(j, titles)
  BY <1>1, Seen
<1>3. map \in [Exts -> Titles \cup {None}]
  BY <1>1, <1>2, SeenTyped DEF IInv, TypeOK
<1>4. job' = [job EXCEPT ![r] = k] /\ UNCHANGED <<titles, mapping, suspended>>
  BY DEF PreloadMap
<1>5. \A x \in Exts : map[x] # None => RowsOf(j, titles)[map[x]] # None
  BY <1>1, <1>2, IdsThere DEF IInv
<1> HIDE DEF map
<1>6. /\ k \in Request /\ k.at = "load" /\ k.map = map
      /\ k.file = j.file /\ k.new = j.new /\ k.ids = j.ids /\ k.sent = j.sent
      /\ k.cands = j.cands /\ k.known = j.known /\ k.saw = j.saw
  BY <1>1, <1>3 DEF Request
<1> HIDE DEF k, j
<1>7. RowsOf(k, titles) = RowsOf(j, titles) /\ IdsOf(k, mapping) = IdsOf(j, mapping)
  BY <1>6 DEF RowsOf, IdsOf
<1>8. Own(k, titles, mapping)
  BY <1>1, <1>5, <1>6, <1>7 DEF Own, Copies
<1>9. \A q \in Open \ {r} : Apart(k, job[q])
  BY <1>1, <1>6, StillApart DEF j
<1>10. suspended' \subseteq Registered
  BY <1>4 DEF IInv, TypeOK
<1> QED
  BY <1>4, <1>6, <1>8, <1>9, <1>10, Moved

LEMMA PreloadCandidatesSafe ==
  ASSUME IInv, NEW r \in Requests, PreloadCandidates(r)
  PROVE  IInv'
<1> DEFINE j      == job[r]
           items  == {j.file[1][n] : n \in DOMAIN j.file[1]}
           mapped == {j.map[i.ext] : i \in items} \ {None}
           names  == UNION {{i.name, i.orig} : i \in {i \in items : j.map[i.ext] = None}}
           there  == {t \in Titles : Rows(r)[t] # None}
           named  == {t \in there : Rows(r)[t].name \in names \/ Rows(r)[t].orig \in names}
           known  == [x \in Exts |-> IF Provider[x] = j.provider /\ Ids(r)[x] \in named \ mapped
                                     THEN Ids(r)[x] ELSE None]
           cands  == mapped \cup named
           used   == named \ mapped
           k      == [j EXCEPT !.at = "items", !.saw = there, !.cands = cands, !.used = used, !.known = known]
<1>1. r \in Open /\ j \in Request /\ Own(j, titles, mapping) /\ j.at = "load" /\ j.file # << >>
  BY OpenTyped DEF PreloadCandidates, IInv, Own
<1>2. Ids(r) = IdsOf(j, mapping) /\ Rows(r) = RowsOf(j, titles)
  BY <1>1, Seen
<1>3. job' = [job EXCEPT ![r] = k] /\ UNCHANGED <<titles, mapping, suspended>>
  BY DEF PreloadCandidates
<1>4. \A n \in DOMAIN j.file[1] : j.file[1][n] \in Item
  <2>1. j.file[1] \in Seq(Item)
    BY <1>1, EmptySeq, LenProperties DEF Request
  <2> QED
    BY <2>1, LenProperties
<1>5. \A i \in items : j.map[i.ext] \in Titles \cup {None} /\ i.ext \in Exts
  BY <1>1, <1>4 DEF Request, Item
<1>6. mapped \subseteq there
  BY <1>1, <1>2, <1>5 DEF Own, Copies
<1>7. \A n \in DOMAIN j.file[1] : j.map[j.file[1][n].ext] = None => j.file[1][n].name \in names
  OBVIOUS
<1>8. known \in [Exts -> Titles \cup {None}] /\ \A x \in Exts : known[x] # None => known[x] = Ids(r)[x]
  OBVIOUS
<1>9. \A n \in DOMAIN j.file[1] : j.map[j.file[1][n].ext] = None =>
        \A t \in there : Rows(r)[t].name = j.file[1][n].name => t \in cands
  <2> HIDE DEF names
  <2> QED
    BY <1>7
<1>10. there \subseteq Titles /\ cands \subseteq there /\ used \subseteq Titles /\ \A t \in there : Rows(r)[t] # None
  BY <1>6
<1> HIDE DEF known, cands, used, there
<1>11. /\ k \in Request /\ k.at = "items" /\ k.saw = there /\ k.cands = cands /\ k.known = known
       /\ k.file = j.file /\ k.new = j.new /\ k.ids = j.ids /\ k.sent = j.sent /\ k.map = j.map
  BY <1>1, <1>8, <1>10 DEF Request
<1> HIDE DEF k, j
<1>12. RowsOf(k, titles) = RowsOf(j, titles) /\ IdsOf(k, mapping) = IdsOf(j, mapping)
  BY <1>11 DEF RowsOf, IdsOf
<1>13. Copies(k, titles, mapping)
  <2>1. \A x \in Exts : k.map[x] # None => RowsOf(k, titles)[k.map[x]] # None
    BY <1>1, <1>11, <1>12 DEF Own, Copies
  <2> QED
    BY <2>1, <1>2, <1>8, <1>9, <1>10, <1>11, <1>12 DEF Copies
<1>14. Own(k, titles, mapping)
  BY <1>1, <1>11, <1>12, <1>13 DEF Own
<1>15. \A q \in Open \ {r} : Apart(k, job[q])
  BY <1>1, <1>11, StillApart DEF j
<1>16. suspended' \subseteq Registered
  BY <1>3 DEF IInv, TypeOK
<1> QED
  BY <1>3, <1>11, <1>14, <1>15, <1>16, Moved

LEMMA StageOnlySafe ==
  ASSUME IInv, NEW r \in Requests, StageOnly(r)
  PROVE  IInv'
<1>1. r \in Open /\ job[r] \in Request /\ job[r].at = "items" /\ AtItem(r)
  BY OpenTyped DEF StageOnly, AtItem, IInv
<1>2. Next1(r, job[r]) /\ UNCHANGED <<titles, mapping, suspended>>
  BY DEF StageOnly
<1>3. Own(job[r], titles, mapping) /\ \A q \in Open \ {r} : Apart(job[r], job[q])
  BY <1>1 DEF IInv
<1> QED
  BY <1>1, <1>2, <1>3, ItemDone

\* The current item of a request.
LEMMA AtCurrent ==
  ASSUME IInv, NEW r \in Requests, AtItem(r)
  PROVE  /\ r \in Open /\ job[r] \in Request /\ Own(job[r], titles, mapping) /\ job[r].at = "items"
         /\ Current(r) \in Item /\ Current(r).ext \in Exts
         /\ \E n \in DOMAIN job[r].file[1] : job[r].file[1][n] = Current(r)
<1>1. r \in Open /\ job[r] \in Request /\ Own(job[r], titles, mapping) /\ job[r].at = "items"
  BY OpenTyped DEF AtItem, IInv
<1>2. job[r].file # << >> /\ job[r].file[1] # << >>
  BY <1>1 DEF AtItem, Own
<1> QED
  BY <1>1, <1>2, NextItem DEF Current, Item

LEMMA ApplyMatchSafe ==
  ASSUME IInv, NEW r \in Requests, ApplyMatch(r)
  PROVE  IInv'
<1> DEFINE j == job[r]
           i == Current(r)
           t == Match(r, i)
           m == IF Ids(r)[i.ext] = t THEN j.ids[i.ext] ELSE [title |-> t, by |-> i]
           k == [j EXCEPT !.map[i.ext] = t, !.ids[i.ext] = m]
<1>1. /\ r \in Open /\ j \in Request /\ Own(j, titles, mapping) /\ j.at = "items" /\ AtItem(r)
      /\ i \in Item /\ i.ext \in Exts
  BY AtCurrent DEF ApplyMatch
<1>2. Ids(r) = IdsOf(j, mapping) /\ Rows(r) = RowsOf(j, titles)
  BY <1>1, Seen
<1>3. t \in Titles /\ t # None /\ UNCHANGED <<titles, mapping, suspended>>
  BY IngestionAssumption DEF ApplyMatch
<1>4. CASE j.map[i.ext] = t
  <2>1. Next1(r, j)
    BY <1>4 DEF ApplyMatch
  <2>2. \A q \in Open \ {r} : Apart(j, job[q])
    BY <1>1 DEF IInv
  <2> QED
    BY <1>1, <1>3, <2>1, <2>2, ItemDone
<1>5. CASE j.map[i.ext] # t
  <2>1. Next1(r, [j EXCEPT !.map[i.ext] = t,
                           !.ids[i.ext] = IF Ids(r)[i.ext] = t THEN @ ELSE [title |-> t, by |-> i]])
    BY <1>5 DEF ApplyMatch
  <2>2. Next1(r, k)
    BY <2>1
  <2>3. j.map[i.ext] = None /\ t = Resolve(r, i)
    BY <1>5 DEF Match
  <2>4. \/ j.known[i.ext] = t
        \/ j.known[i.ext] = None /\ t \in j.cands /\ SameWork(i, Rows(r)[t])
    BY <1>1, <1>3, <2>3, Resolved
  <2>5. RowsOf(j, titles)[t] # None
    <3>1. CASE j.known[i.ext] = t
      BY <1>1, <1>3, <3>1, IdsThere DEF Own, Copies, IInv
    <3>2. CASE t \in j.cands
      BY <1>1, <3>2 DEF Own, Copies
    <3> QED
      BY <2>4, <3>1, <3>2
  <2>6. m \in Mapped \cup {None} /\ (m # j.ids[i.ext] => m = [title |-> t, by |-> i])
    BY <1>1, <1>3 DEF Request, Mapped
  <2>7. m # j.ids[i.ext] => j.known[i.ext] = None /\ Fits(i, Rows(r)[t])
    <3> SUFFICES ASSUME m # j.ids[i.ext] PROVE j.known[i.ext] = None /\ Fits(i, Rows(r)[t])
      OBVIOUS
    <3>1. Ids(r)[i.ext] # t
      OBVIOUS
    <3>2. j.known[i.ext] # t
      BY <1>1, <1>2, <1>3, <3>1 DEF Own, Copies
    <3> QED
      BY <2>4, <3>2 DEF SameWork, FalseMatchRisk, Fits
  <2> HIDE DEF m, t, i
  <2>8. /\ k \in Request /\ k.at = "items" /\ k.file = j.file /\ k.new = j.new /\ k.sent = j.sent
        /\ k.cands = j.cands /\ k.known = j.known /\ k.saw = j.saw
        /\ k.map = [j.map EXCEPT ![i.ext] = t] /\ k.ids = [j.ids EXCEPT ![i.ext] = m]
    BY <1>1, <1>3, <2>6 DEF Request
  <2> HIDE DEF k, j
  <2>9. /\ j.map \in [Exts -> Titles \cup {None}] /\ j.ids \in [Exts -> Mapped \cup {None}]
        /\ \A x \in Exts : k.map[x] = IF x = i.ext THEN t ELSE j.map[x]
        /\ \A x \in Exts : k.ids[x] = IF x = i.ext THEN m ELSE j.ids[x]
    BY <1>1, <2>8 DEF Request
  <2>10. RowsOf(k, titles) = RowsOf(j, titles)
    BY <2>8 DEF RowsOf
  <2>11. \A x \in Exts : j.known[x] # None => IdsOf(k, mapping)[x] = IdsOf(j, mapping)[x]
    <3>1. \A x \in Exts : j.known[x] # None => k.ids[x] = j.ids[x]
      BY <2>7, <2>9
    <3> QED
      BY <3>1 DEF IdsOf
  <2>12. Placed(k.ids, RowsOf(k, titles))
    <3> SUFFICES ASSUME NEW x \in Exts, k.ids[x] # None
                 PROVE  /\ RowsOf(j, titles)[k.ids[x].title] # None
                        /\ Fits(k.ids[x].by, RowsOf(j, titles)[k.ids[x].title])
      BY <2>10 DEF Placed
    <3>1. CASE k.ids[x] = j.ids[x]
      BY <1>1, <3>1 DEF Own, Placed
    <3>2. CASE k.ids[x] # j.ids[x]
      <4>1. x = i.ext /\ k.ids[x] = [title |-> t, by |-> i] /\ Fits(i, Rows(r)[t])
        BY <2>6, <2>7, <2>9, <3>2
      <4> QED
        BY <1>2, <2>5, <4>1
    <3> QED
      BY <3>1, <3>2
  <2>13. Copies(k, titles, mapping)
    <3>1. \A x \in Exts : k.map[x] # None => RowsOf(k, titles)[k.map[x]] # None
      BY <1>1, <2>5, <2>9, <2>10 DEF Own, Copies
    <3>2. \A n \in DOMAIN k.file[1] : k.map[k.file[1][n].ext] = None => j.map[j.file[1][n].ext] = None
      BY <2>3, <2>8
    <3> QED
      BY <1>1, <2>8, <2>10, <2>11, <3>1, <3>2 DEF Own, Copies
  <2>14. Own(k, titles, mapping)
    BY <1>1, <2>8, <2>10, <2>12, <2>13 DEF Own
  <2>15. \A q \in Open \ {r} : Apart(k, job[q])
    BY <1>1, <2>8, StillApart DEF j
  <2> QED
    BY <1>1, <1>3, <2>2, <2>8, <2>14, <2>15, ItemDone DEF j
<1> QED
  BY <1>4, <1>5

LEMMA CreateSafe ==
  ASSUME IInv, NEW r \in Requests, NEW t \in Titles, Create(r, t)
  PROVE  IInv'
<1> DEFINE j   == job[r]
           i   == Current(r)
           row == NewTitle(r, i)
           m   == [title |-> t, by |-> i]
           k   == [j EXCEPT !.counter = NextNumber(r), !.map[i.ext] = t, !.ids[i.ext] = m,
                            !.cands = @ \cup {t}, !.made = @ \cup {t}, !.used = @ \cup {t},
                            !.saw = @ \cup {t}, !.new[t] = row]
<1>1. /\ r \in Open /\ j \in Request /\ Own(j, titles, mapping) /\ j.at = "items" /\ AtItem(r)
      /\ i \in Item /\ i.ext \in Exts /\ \E n \in DOMAIN j.file[1] : j.file[1][n] = i
  BY AtCurrent DEF Create
<1>2. Ids(r) = IdsOf(j, mapping) /\ Rows(r) = RowsOf(j, titles)
  BY <1>1, Seen
<1>3. UNCHANGED <<titles, mapping, suspended>> /\ Next1(r, k) /\ Valid(i)
  BY DEF Create
<1>4. t # None /\ titles[t] = None /\ \A q \in Open : job[q].new[t] = None
  BY IngestionAssumption DEF Create, Fresh
<1>5. j.map[i.ext] = None /\ Resolve(r, i) = None
  BY DEF Create, Match
<1>6. j.known[i.ext] = None /\ \A u \in j.cands : ~Similar(i, Rows(r)[u])
  BY <1>1, <1>5, Resolved
<1>7. /\ row \in Title /\ row # None /\ row.saw = j.saw /\ row.name = i.name /\ Fits(i, row)
      /\ row.year = IF i.year = None THEN 2024 ELSE i.year
  <2>1. i.name \in Names /\ i.orig \in Names \cup {None} /\ (i.year = None \/ i.year \in Year) /\ i.runtime \in Runtime
    BY <1>1, <1>3 DEF Item, Valid
  <2>2. j.saw \subseteq Titles
    BY <1>1 DEF Request
  <2>3. NextNumber(r) \in Nat
    BY <1>1, NumberFound
  <2>4. row \in Title
    BY <2>1, <2>2, <2>3 DEF NewTitle, Title, Year
  <2> QED
    BY <2>1, <2>4, IngestionAssumption DEF NewTitle, Fits
<1>8. \A u \in j.saw : Distinct(Rows(r)[u], row)
  <2> SUFFICES ASSUME NEW u \in j.saw, Rows(r)[u].name = i.name, i.name \notin Common
               PROVE  Rows(r)[u].year # row.year
    BY <1>7 DEF Distinct
  <2>1. u \in j.cands
    BY <1>1, <1>2, <1>5 DEF Own, Copies
  <2>2. i.year \notin {None, Rows(r)[u].year}
    BY <1>6, <2>1 DEF Similar
  <2> QED
    BY <1>7, <2>2
<1>9. m \in Mapped /\ m # None /\ m.title = t /\ m.by = i
  BY <1>1, IngestionAssumption DEF Mapped
<1>10. NextNumber(r) \in Nat
  BY <1>1, NumberFound
<1> HIDE DEF row, m, i
<1>11. /\ k \in Request /\ k.at = "items" /\ k.file = j.file /\ k.sent = j.sent /\ k.known = j.known
       /\ k.cands = j.cands \cup {t} /\ k.saw = j.saw \cup {t}
       /\ k.map = [j.map EXCEPT ![i.ext] = t] /\ k.ids = [j.ids EXCEPT ![i.ext] = m]
       /\ k.new = [j.new EXCEPT ![t] = row]
  <2>1. /\ [j.map EXCEPT ![i.ext] = t] \in [Exts -> Titles \cup {None}]
        /\ [j.ids EXCEPT ![i.ext] = m] \in [Exts -> Mapped \cup {None}]
        /\ [j.new EXCEPT ![t] = row] \in [Titles -> Title \cup {None}]
        /\ j.cands \cup {t} \in SUBSET Titles /\ j.used \cup {t} \in SUBSET Titles /\ j.saw \cup {t} \in SUBSET Titles /\ j.made \cup {t} \in SUBSET Titles
    BY <1>1, <1>7, <1>9 DEF Request
  <2> QED
    BY <1>1, <1>10, <2>1 DEF Request
<1> HIDE DEF k, j
<1>12. /\ \A x \in Exts : k.map[x] = IF x = i.ext THEN t ELSE j.map[x]
       /\ \A x \in Exts : k.ids[x] = IF x = i.ext THEN m ELSE j.ids[x]
       /\ \A u \in Titles : k.new[u] = IF u = t THEN row ELSE j.new[u]
  BY <1>1, <1>11 DEF Request
<1>13. /\ RowsOf(j, titles)[t] = None /\ RowsOf(k, titles)[t] = row
       /\ \A u \in Titles \ {t} : RowsOf(k, titles)[u] = RowsOf(j, titles)[u]
  BY <1>1, <1>4, <1>7, <1>12 DEF RowsOf, j
<1>14. \A u \in Titles : RowsOf(j, titles)[u] # None => RowsOf(k, titles)[u] = RowsOf(j, titles)[u]
  BY <1>13
<1>15. \A u \in Titles : RowsOf(j, titles)[u] # None => RowsOf(j, titles)[u] \in Title
  BY <1>1, SeenTyped DEF IInv, TypeOK
<1>16. \A u \in j.saw : u \in Titles /\ RowsOf(j, titles)[u] # None /\ u # t
  BY <1>1, <1>13 DEF Own, Copies, Request
<1>17. Tidy(RowsOf(k, titles))
  <2> SUFFICES ASSUME NEW v \in Titles, RowsOf(k, titles)[v] # None, NEW u \in RowsOf(k, titles)[v].saw
               PROVE  /\ RowsOf(k, titles)[u] # None
                      /\ u # v => Distinct(RowsOf(k, titles)[u], RowsOf(k, titles)[v])
    BY DEF Tidy
  <2>1. CASE v = t
    BY <1>2, <1>7, <1>8, <1>13, <1>14, <1>16, <2>1
  <2>2. CASE v # t
    <3>1. RowsOf(k, titles)[v] = RowsOf(j, titles)[v] /\ RowsOf(j, titles)[v] # None
      BY <1>13, <2>2
    <3>2. u \in Titles /\ RowsOf(j, titles)[u] # None
      BY <1>1, <1>15, <3>1 DEF Own, Tidy, Title
    <3> QED
      BY <1>1, <1>14, <3>1, <3>2 DEF Own, Tidy
  <2> QED
    BY <2>1, <2>2
<1>18. Placed(k.ids, RowsOf(k, titles))
  <2> SUFFICES ASSUME NEW x \in Exts, k.ids[x] # None
               PROVE  /\ RowsOf(k, titles)[k.ids[x].title] # None
                      /\ Fits(k.ids[x].by, RowsOf(k, titles)[k.ids[x].title])
    BY DEF Placed
  <2>1. CASE x = i.ext
    BY <1>7, <1>9, <1>12, <1>13, <2>1
  <2>2. CASE x # i.ext
    <3>1. k.ids[x] = j.ids[x] /\ j.ids[x].title \in Titles
      BY <1>1, <1>12, <2>2 DEF Request, Mapped
    <3> QED
      BY <1>1, <1>14, <3>1 DEF Own, Placed
  <2> QED
    BY <2>1, <2>2
<1>19. Copies(k, titles, mapping)
  <2>1. \A x \in Exts : k.map[x] # None => RowsOf(k, titles)[k.map[x]] # None
    <3>1. \A x \in Exts : j.map[x] # None => j.map[x] \in Titles /\ RowsOf(j, titles)[j.map[x]] # None
      BY <1>1 DEF Own, Copies, Request
    <3> QED
      BY <1>7, <1>12, <1>13, <1>14, <3>1
  <2>2. \A x \in Exts : k.known[x] # None => IdsOf(k, mapping)[x] = k.known[x]
    <3>1. \A x \in Exts : j.known[x] # None => k.ids[x] = j.ids[x]
      BY <1>6, <1>12
    <3> QED
      BY <1>1, <1>11, <3>1 DEF IdsOf, Own, Copies
  <2>3. \A u \in k.cands \cup k.saw : RowsOf(k, titles)[u] # None
    <3>1. \A u \in j.cands \cup j.saw : u \in Titles /\ RowsOf(j, titles)[u] # None
      BY <1>1 DEF Own, Copies, Request
    <3> QED
      BY <1>7, <1>11, <1>13, <1>14, <3>1
  <2>4. ASSUME NEW n \in DOMAIN k.file[1], k.map[k.file[1][n].ext] = None, NEW u \in k.saw,
               RowsOf(k, titles)[u].name = k.file[1][n].name
        PROVE  u \in k.cands
    <3>1. j.map[j.file[1][n].ext] = None
      BY <1>5, <1>11, <2>4
    <3> QED
      BY <1>1, <1>11, <1>14, <1>16, <2>4, <3>1 DEF Own, Copies
  <2> QED
    BY <2>1, <2>2, <2>3, <2>4 DEF Copies
<1>20. Own(k, titles, mapping)
  <2>1. \A u \in Titles : k.new[u] # None => titles[u] = None
    BY <1>1, <1>4, <1>12 DEF Own
  <2> QED
    BY <1>1, <1>11, <1>17, <1>18, <1>19, <2>1 DEF Own
<1>21. \A q \in Open \ {r} : Apart(k, job[q])
  BY <1>1, <1>4, <1>11, <1>12 DEF IInv, Apart, j
<1> QED
  BY <1>1, <1>3, <1>11, <1>20, <1>21, ItemDone DEF j

LEMMA FlushSafe ==
  ASSUME IInv, NEW r \in Requests, Flush(r) \/ FailBatch(r)
  PROVE  IInv'
<1> DEFINE j == job[r]
           e == EndBatch(j)
           k == IF Flush(r) THEN [e EXCEPT !.sent = TRUE]
                ELSE [e EXCEPT !.sent = FALSE, !.new = NoTitles, !.ids = NoIds]
<1>1. r \in Open /\ j \in Request /\ Own(j, titles, mapping) /\ j.at = "items" /\ j.file # << >>
  BY OpenTyped DEF Flush, FailBatch, AtFlush, IInv, Own
<1>2. job' = [job EXCEPT ![r] = k] /\ UNCHANGED <<titles, mapping, suspended>>
  BY DEF Flush, FailBatch
<1>3. /\ Tail(j.file) \in Seq(Seq(Item))
      /\ e = [j EXCEPT !.file = Tail(j.file), !.at = IF Tail(j.file) = << >> THEN "commit" ELSE "map",
                       !.cands = {}, !.made = {}, !.used = {}, !.saw = {}, !.counter = None, !.map = NoIds, !.known = NoIds]
  BY <1>1, HeadTailProperties DEF EndBatch, Request
<1>4. /\ k \in Request /\ k.file = Tail(j.file) /\ (k.at = "commit" \/ (k.at = "map" /\ k.file # << >>))
      /\ k.cands = {} /\ k.saw = {} /\ k.map = NoIds /\ k.known = NoIds
      /\ Flush(r) => k.sent = TRUE /\ k.new = j.new /\ k.ids = j.ids
      /\ ~Flush(r) => k.new = NoTitles /\ k.ids = NoIds
  <2>1. e \in Request
    BY <1>1, <1>3, NoRows DEF Request
  <2>2. /\ e.file = Tail(j.file) /\ e.at = (IF Tail(j.file) = << >> THEN "commit" ELSE "map")
        /\ e.cands = {} /\ e.saw = {} /\ e.map = NoIds /\ e.known = NoIds /\ e.new = j.new /\ e.ids = j.ids
    BY <1>1, <1>3 DEF Request
  <2> HIDE DEF e
  <2>3. CASE Flush(r)
    BY <2>1, <2>2, <2>3 DEF Request
  <2>4. CASE ~Flush(r)
    BY <2>1, <2>2, <2>4, NoRows DEF Request
  <2> QED
    BY <2>3, <2>4
<1> HIDE DEF k, e
<1>5. Tidy(RowsOf(k, titles)) /\ Placed(k.ids, RowsOf(k, titles)) /\ \A t \in Titles : k.new[t] # None => titles[t] = None
  <2>1. CASE Flush(r)
    <3>1. RowsOf(k, titles) = RowsOf(j, titles)
      BY <1>4, <2>1 DEF RowsOf
    <3> QED
      BY <1>1, <1>4, <2>1, <3>1 DEF Own
  <2>2. CASE ~Flush(r)
    <3>1. RowsOf(k, titles) = titles
      BY <1>4, <2>2, SeesCommitted DEF IInv
    <3> QED
      BY <1>4, <2>2, <3>1, NoRows DEF IInv, Placed
  <2> QED
    BY <2>1, <2>2
<1>6. Flush(r) => /\ \A x \in Exts : j.ids[x] = None \/ mapping[x] = None
                  /\ \A q \in Open \ {r} : job[q].sent => \A x \in Exts : j.ids[x] = None \/ job[q].ids[x] = None
  BY DEF Flush, Unplaced, Waits, Clash
<1>7. \A x \in Exts : k.ids[x] # None => mapping[x] = None
  BY <1>4, <1>6, NoRows
<1>8. Own(k, titles, mapping)
  BY <1>4, <1>5, <1>7, NoRows DEF Own, Copies
<1>9. \A q \in Open \ {r} : Apart(k, job[q])
  <2> TAKE q \in Open \ {r}
  <2>1. Apart(j, job[q]) /\ (job[q].at = "commit" => job[q].sent \/ \A x \in Exts : job[q].ids[x] = None)
    BY <1>1 DEF IInv, Own
  <2>2. \A t \in Titles : k.new[t] = None \/ job[q].new[t] = None
    BY <1>4, <2>1, NoRows DEF Apart
  <2>3. job[q].at = "commit" => \A x \in Exts : k.ids[x] = None \/ job[q].ids[x] = None
    BY <1>4, <1>6, <2>1, NoRows
  <2> QED
    BY <2>2, <2>3 DEF Apart
<1>10. suspended' \subseteq Registered
  BY <1>2 DEF IInv, TypeOK
<1> QED
  BY <1>2, <1>4, <1>8, <1>9, <1>10, Moved

\* Where a view has a row, it has the same one after another request has committed.
LEMMA CommitSafe ==
  ASSUME IInv, NEW r \in Requests, Commit(r)
  PROVE  IInv'
<1> DEFINE j == job[r]
<1>1. r \in Open /\ j \in Request /\ Own(j, titles, mapping) /\ j.at = "commit"
  BY OpenTyped DEF Commit, IInv
<1>2. titles' = RowsOf(j, titles) /\ suspended' = suspended /\ job' = [job EXCEPT ![r] = Idle]
  BY <1>1, Seen DEF Commit
<1>3. mapping' \in [Exts -> Mapped \cup {None}]
        /\ \A x \in Exts : mapping'[x] = IF j.ids[x] # None THEN j.ids[x] ELSE mapping[x]
  BY <1>1 DEF Commit, IInv, TypeOK, Request
<1>4. /\ titles' \in [Titles -> Title \cup {None}] /\ titles \in [Titles -> Title \cup {None}]
      /\ mapping \in [Exts -> Mapped \cup {None}]
      /\ \A t \in Titles : titles'[t] = IF j.new[t] # None THEN j.new[t] ELSE titles[t]
  BY <1>1, <1>2, SeenTyped DEF IInv, TypeOK
<1>5. \A t \in Titles : titles[t] # None => titles'[t] = titles[t]
  BY <1>1, <1>4 DEF Own
<1>6. \A x \in Exts : mapping[x] # None => mapping'[x] = mapping[x]
  BY <1>1, <1>3 DEF Own
<1>7. TypeOK'
  BY <1>2, <1>3, <1>4 DEF IInv, TypeOK, Job
<1>8. Tidy(titles')
  BY <1>1, <1>2 DEF Own
<1>9. Placed(mapping', titles')
  <2> SUFFICES ASSUME NEW x \in Exts, mapping'[x] # None
               PROVE  titles'[mapping'[x].title] # None /\ Fits(mapping'[x].by, titles'[mapping'[x].title])
    BY DEF Placed
  <2>1. CASE j.ids[x] # None
    BY <1>1, <1>2, <1>3, <2>1 DEF Own, Placed
  <2>2. CASE j.ids[x] = None
    <3>1. mapping'[x] = mapping[x] /\ mapping[x].title \in Titles
      BY <1>3, <1>4, <2>2 DEF Mapped
    <3> QED
      BY <1>5, <3>1 DEF IInv, Placed
  <2> QED
    BY <2>1, <2>2
<1>10. Open' \subseteq Open \ {r} /\ \A q \in Open' : job'[q] = job[q]
  BY <1>2 DEF Open, IInv, TypeOK
<1>11. ASSUME NEW q \in Open \ {r} PROVE Own(job[q], titles', mapping')
  <2> DEFINE k == job[q]
  <2>1. k \in Request /\ Own(k, titles, mapping) /\ Apart(j, k)
    BY <1>1, OpenTyped DEF IInv, Open
  <2>2. /\ k.new \in [Titles -> Title \cup {None}] /\ k.ids \in [Exts -> Mapped \cup {None}]
        /\ k.map \in [Exts -> Titles \cup {None}] /\ k.known \in [Exts -> Titles \cup {None}]
        /\ k.cands \cup k.saw \subseteq Titles
    BY <2>1 DEF Request
  <2> HIDE DEF k, j
  <2>3. \A t \in Titles : k.new[t] # None => titles'[t] = None /\ titles[t] = None
    BY <1>4, <2>1 DEF Own, Apart
  <2>4. /\ \A t \in Titles : RowsOf(k, titles)[t] # None => RowsOf(k, titles')[t] = RowsOf(k, titles)[t]
        /\ \A t \in Titles : k.new[t] = None => RowsOf(k, titles')[t] = titles'[t]
    BY <1>5 DEF RowsOf
  <2>5. \A x \in Exts : IdsOf(k, mapping)[x] # None => IdsOf(k, mapping')[x] = IdsOf(k, mapping)[x]
    BY <1>6 DEF IdsOf
  <2>6. Tidy(RowsOf(k, titles'))
    <3> SUFFICES ASSUME NEW t \in Titles, RowsOf(k, titles')[t] # None, NEW u \in RowsOf(k, titles')[t].saw
                 PROVE  /\ RowsOf(k, titles')[u] # None
                        /\ u # t => Distinct(RowsOf(k, titles')[u], RowsOf(k, titles')[t])
      BY DEF Tidy
    <3>1. RowsOf(k, titles')[t] \in Title /\ u \in Titles
      <4>1. RowsOf(k, titles')[t] \in Title
        BY <1>4, <2>1, SeenTyped
      <4> QED
        BY <4>1 DEF Title
    <3>2. CASE k.new[t] # None
      <4>1. RowsOf(k, titles)[t] # None /\ RowsOf(k, titles')[t] = RowsOf(k, titles)[t]
        BY <2>4, <3>2 DEF RowsOf
      <4>2. RowsOf(k, titles)[u] # None
        BY <2>1, <4>1 DEF Own, Tidy
      <4> QED
        BY <2>1, <2>4, <3>1, <4>1, <4>2 DEF Own, Tidy
    <3>3. CASE k.new[t] = None
      <4>1. RowsOf(k, titles')[t] = titles'[t] /\ titles'[t] # None
        BY <2>4, <3>3
      <4>2. titles'[u] # None /\ (u # t => Distinct(titles'[u], titles'[t]))
        BY <1>8, <4>1 DEF Tidy
      <4>3. k.new[u] = None
        BY <2>3, <3>1, <4>2
      <4>4. RowsOf(k, titles')[u] = titles'[u]
        BY <2>4, <3>1, <4>3
      <4> QED
        BY <4>1, <4>2, <4>4
    <3> QED
      BY <3>2, <3>3
  <2>7. Placed(k.ids, RowsOf(k, titles'))
    <3>1. \A x \in Exts : k.ids[x] # None => k.ids[x].title \in Titles
      BY <2>2 DEF Mapped
    <3> QED
      BY <2>1, <2>4, <3>1 DEF Own, Placed
  <2>8. Copies(k, titles', mapping')
    <3>1. \A t \in k.saw : RowsOf(k, titles)[t] # None
      BY <2>1 DEF Own, Copies
    <3> QED
      BY <2>1, <2>2, <2>4, <2>5, <3>1 DEF Own, Copies
  <2>9. k.at = "commit" => \A x \in Exts : k.ids[x] # None => mapping'[x] = None
    BY <1>1, <1>3, <2>1 DEF Own, Apart
  <2> QED
    BY <2>1, <2>3, <2>6, <2>7, <2>8, <2>9 DEF Own, k
<1>12. \A q \in Open' : Own(job[q], titles, mapping)'
  BY <1>10, <1>11
<1>13. \A p, q \in Open' : p # q => Apart(job[p], job[q])'
  BY <1>10 DEF IInv
<1> QED
  BY <1>7, <1>8, <1>9, <1>12, <1>13 DEF IInv

\* Steps that add nothing and open no request.
LEMMA OtherSafe ==
  ASSUME IInv,
         \/ \E p \in Registered : UpdateSource(p)
         \/ \E r \in Requests : Abort(r)
         \/ UNCHANGED vars
  PROVE  IInv'
<1>1. UNCHANGED <<titles, mapping>> /\ suspended' \subseteq Registered
  BY DEF UpdateSource, Abort, vars, IInv, TypeOK
<1>2. /\ job' \in [Requests -> Job]
      /\ Open' \subseteq Open /\ \A q \in Open' : job'[q] = job[q]
  <2>1. CASE UNCHANGED job
    BY <2>1 DEF IInv, TypeOK, Open
  <2>2. ASSUME NEW r \in Requests, Abort(r)
        PROVE  /\ job' \in [Requests -> Job]
               /\ Open' \subseteq Open /\ \A q \in Open' : job'[q] = job[q]
    BY <2>2 DEF Abort, IInv, TypeOK, Open, Job
  <2> QED
    BY <2>1, <2>2 DEF UpdateSource, vars
<1>3. TypeOK'
  BY <1>1, <1>2 DEF IInv, TypeOK
<1>4. \A q \in Open' : Own(job[q], titles, mapping)'
  BY <1>1, <1>2 DEF IInv
<1>5. \A p, q \in Open' : p # q => Apart(job[p], job[q])'
  BY <1>2 DEF IInv
<1> QED
  BY <1>1, <1>3, <1>4, <1>5 DEF IInv

LEMMA StepSafe == ASSUME IInv, [Next]_vars PROVE IInv'
<1>1. ASSUME NEW r \in Requests,
             \/ \E p \in Providers, f \in Files : Trigger(r, p, f)
             \/ PreloadMap(r) \/ PreloadCandidates(r)
             \/ StageOnly(r) \/ ApplyMatch(r) \/ \E t \in Titles : Create(r, t)
             \/ Flush(r) \/ FailBatch(r) \/ Commit(r)
      PROVE  IInv'
  BY <1>1, TriggerSafe, PreloadMapSafe, PreloadCandidatesSafe, StageOnlySafe, ApplyMatchSafe, CreateSafe,
     FlushSafe, CommitSafe
<1> QED
  BY <1>1, OtherSafe DEF Next

-----------------------------------------------------------------------------
(* Theorems *)

LEMMA Safety == Spec => []IInv
<1>1. Init => IInv
  <2> SUFFICES ASSUME Init PROVE IInv
    OBVIOUS
  <2>1. TypeOK /\ Open = {}
    BY NoRows DEF Init, TypeOK, Job, Open
  <2> QED
    BY <2>1, NoRows DEF Init, IInv, Tidy, Placed
<1>2. IInv /\ [Next]_vars => IInv'
  BY StepSafe
<1> QED
  BY <1>1, <1>2, PTL DEF Spec

\* pipeline.py:1084: whatever the files, the batches and the requests that overlap,
\* no run creates a title again that it could see, in the catalogue or of its own,
\* and whose name has more than stop words.  Runs that overlap may.
THEOREM NoTitleTwice == Spec => []NoTwin
<1>1. IInv => NoTwin
  BY DEF IInv, Tidy, Distinct, NoTwin, Twins
<1> QED
  BY <1>1, Safety, PTL

\* ADR-002: the resolver's copies may be old, but no item with a year is mapped to a title
\* of the same spelling and another year.
THEOREM RemakesStayApart == Spec => []RemakeApart
<1>1. IInv => RemakeApart
  BY DEF IInv, Placed, Fits, RemakeApart
<1> QED
  BY <1>1, Safety, PTL

\* _controlled_apply and the unique key of canonical.title_external_id: an external
\* id that is committed is never mapped to another title.
THEOREM MappingsAreKept == Spec => MappingKept
<1>1. IInv /\ [Next]_vars => [\A x \in Exts : mapping[x] # None => mapping'[x] = mapping[x]]_vars
  <2> SUFFICES ASSUME IInv, [Next]_vars, NEW x \in Exts, mapping[x] # None PROVE mapping'[x] = mapping[x]
    OBVIOUS
  <2>1. ASSUME NEW r \in Requests, Commit(r) PROVE mapping'[x] = mapping[x]
    <3>1. r \in Open /\ job[r].at = "commit" /\ Own(job[r], titles, mapping)
      BY <2>1, OpenTyped DEF Commit, IInv
    <3> QED
      BY <2>1, <3>1 DEF Commit, Own
  <2>2. CASE ~ \E r \in Requests : Commit(r)
    <3>1. ASSUME NEW r \in Requests,
                 \/ \E p \in Providers, f \in Files : Trigger(r, p, f)
                 \/ PreloadMap(r) \/ PreloadCandidates(r) \/ StageOnly(r) \/ ApplyMatch(r)
                 \/ \E t \in Titles : Create(r, t)
                 \/ Flush(r) \/ FailBatch(r) \/ Abort(r)
          PROVE  UNCHANGED mapping
      BY <3>1 DEF Trigger, PreloadMap, PreloadCandidates, StageOnly, ApplyMatch, Create, Flush, FailBatch, Abort
    <3>2. (\E p \in Registered : UpdateSource(p)) \/ UNCHANGED vars => UNCHANGED mapping
      BY DEF UpdateSource, vars
    <3> QED
      BY <2>2, <3>1, <3>2 DEF Next
  <2> QED
    BY <2>1, <2>2
<1> QED
  BY <1>1, Safety, PTL DEF Spec, MappingKept
=============================================================================
