------------------------------ MODULE Ingestion ------------------------------
(***************************************************************************)
(* Provider files into the canonical catalogue: ingestion/pipeline.py with *)
(* the identity resolver, the verifier, the licensing gate and the batch   *)
(* runner.                                                                 *)
(*                                                                         *)
(* A request is one transaction.  Each of its batches reads the external   *)
(* ids of its provider, then the candidate titles, and from then on        *)
(* decides item by item on these two copies, which it keeps current with   *)
(* what it creates itself; the rows go to the database in one flush at the *)
(* end.  A title is its name as spelled, original name, year and runtime:  *)
(* all that the resolver tells apart, which does not ask for the content   *)
(* type.  Seasons, genres, provenance and the staging tables depend on     *)
(* these decisions and are left out, and the display ids are of one        *)
(* prefix; no batch is taken to have more than the 500 candidates that are *)
(* loaded.                                                                 *)
(***************************************************************************)
EXTENDS Naturals, Sequences, FiniteSets

CONSTANTS
  Titles,        \* title ids that may be drawn
  Exts,          \* external ids, each of one provider
  Provider,      \* the provider of each external id
  Prohibited,    \* providers that PROVIDER_RULES blocks
  Registered,    \* providers that the data source registry lists
  Names,         \* titles as spelled
  Key,           \* normalize_for_matching: articles, accents and punctuation removed
  Blank,         \* names of which nothing is left
  Common,        \* names of which no word is left but STOP_WORDS
  Translit,      \* pairs that is_transliteration_candidate takes for one name
  Alike,         \* pairs of names that share at least 80 % of their words
  Files,         \* what may be sent: batches of items, dry or not
  Requests,
  None

Providers == {Provider[x] : x \in Exts}

VARIABLES
  titles,        \* canonical.title
  mapping,       \* canonical.title_external_id, by external id
  suspended,     \* providers that ingestion.data_source_registry suspends
  job            \* the open requests

vars == <<titles, mapping, suspended, job>>

Year    == {2023, 2024}        \* production years; a title without one gets 2024
Runtime == {0, 1}              \* runtimes more than three minutes apart
Item    == [ext : Exts, name : Names \cup {None}, orig : Names \cup {None},
            year : Year \cup {None}, runtime : Runtime]

\* saw is history: the titles its run could see.
Title   == [name : Names, orig : Names, year : Year, runtime : Runtime, number : Nat, saw : SUBSET Titles]
\* by is history: the item that was mapped.
Mapped  == [title : Titles, by : Item]

ASSUME IngestionAssumption ==
  /\ DOMAIN Provider = Exts /\ DOMAIN Key = Names
  /\ Blank \subseteq Common /\ Common \subseteq Names
  /\ \A m, n \in Names : Key[m] = Key[n] => (m \in Blank <=> n \in Blank) /\ (m \in Common <=> n \in Common)
  /\ Alike \subseteq SUBSET (Names \ Common) /\ Translit \subseteq SUBSET Names
  /\ \A f \in Files : f.batches \in Seq(Seq(Item)) /\ f.batches # << >> /\ f.dry \in BOOLEAN
  /\ IsFiniteSet(Titles)
  /\ {None, "review"} \cap (Titles \cup Exts \cup Names) = {} /\ None # "review"
  /\ None \notin Title /\ None \notin Mapped

NoTitles == [t \in Titles |-> None]
NoIds    == [x \in Exts |-> None]
Idle     == [at |-> "idle"]

\* What a request holds: the rest of its file; its new rows, and whether they
\* are flushed; run_context with external_id_map, the candidates, those of them
\* that it has created, those whose display ids are in used_display_ids, the
\* external ids loaded with them, and seq_counters.
Job == {Idle} \cup
  [at : {"map", "load", "items", "commit"}, provider : Providers, dry : BOOLEAN,
   file : Seq(Seq(Item)), new : [Titles -> Title \cup {None}],
   ids : [Exts -> Mapped \cup {None}], sent : BOOLEAN, map : [Exts -> Titles \cup {None}],
   cands : SUBSET Titles, made : SUBSET Titles, used : SUBSET Titles,
   known : [Exts -> Titles \cup {None}], saw : SUBSET Titles, counter : Nat \cup {None}]

TypeOK ==
  /\ titles \in [Titles -> Title \cup {None}]
  /\ mapping \in [Exts -> Mapped \cup {None}]
  /\ suspended \subseteq Registered
  /\ job \in [Requests -> Job]

Init ==
  /\ titles = NoTitles /\ mapping = NoIds /\ suspended = {}
  /\ job = [r \in Requests |-> Idle]

Open == {r \in Requests : job[r] # Idle}

\* What a request sees: committed rows and its own.
Rows(r) == [t \in Titles |-> IF job[r].new[t] # None THEN job[r].new[t] ELSE titles[t]]
Ids(r)  == [x \in Exts |-> IF job[r].ids[x] # None THEN job[r].ids[x].title
                           ELSE IF mapping[x] # None THEN mapping[x].title ELSE None]
-----------------------------------------------------------------------------
(* Identity *)

\* verify_normalized_payload: what stands for all its layers is the name.
Valid(i) == i.name # None

\* Mutant of FalseMatchRisk: no protection.
FalseMatchRiskNever(i, t) == FALSE

\* check_false_match_risk: the same spelling and another known year.
FalseMatchRisk(i, t) == i.name = t.name /\ i.year # None /\ i.year # t.year

\* Two names of one key that is not empty.
SameKey(m, n) == m \in Names \ Blank /\ Key[m] = Key[n]

\* The same name or original name, or one that sounds like the title's.
SameName(i, t)   == SameKey(i.name, t.name) \/ SameKey(i.orig, t.orig)
SoundsLike(i, t) == \E n \in {i.name, i.orig} \ {None} : SameKey(n, t.orig) \/ {n, t.orig} \in Translit

\* Level 3: the names agree and the year, or, if the names are the same, about
\* the runtime.  The candidates carry no country.
SameWork(i, t) ==
  /\ ~FalseMatchRisk(i, t)
  /\ \/ SameName(i, t) /\ (i.year = t.year \/ i.runtime = t.runtime)
     \/ SoundsLike(i, t) /\ i.year = t.year

\* Level 4: nearly the same words beside the stop words, no other year.
Similar(i, t) ==
  /\ i.name \notin Common
  /\ Key[i.name] = Key[t.name] \/ {i.name, t.name} \in Alike
  /\ i.year \in {None, t.year}

\* resolve_identity over the candidates, of which those created by the same
\* batch stand in the list twice: candidates and catalog_snapshot are one list.
Resolve(r, i) ==
  LET j    == job[r]
      same == {t \in j.cands : SameWork(i, Rows(r)[t])}
  IN CASE j.known[i.ext] # None -> j.known[i.ext]
       [] j.known[i.ext] = None /\ Cardinality(same) = 1 /\ same \cap j.made = {} -> CHOOSE t \in same : TRUE
       [] j.known[i.ext] = None /\ same # {} /\ (Cardinality(same) > 1 \/ same \cap j.made # {}) -> "review"
       [] j.known[i.ext] = None /\ same = {} ->
            IF \E t \in j.cands : Similar(i, Rows(r)[t]) THEN "review" ELSE None

\* _match_canonical_title: the external id, then the resolver.
Match(r, i) == IF job[r].map[i.ext] # None THEN job[r].map[i.ext] ELSE Resolve(r, i)
-----------------------------------------------------------------------------
(* A request *)

\* trigger_ingestion_pipeline, or the batch runner with a longer file.  The
\* gate asks PROVIDER_RULES, not the registry.
Trigger(r, p, f) ==
  /\ job[r] = Idle
  /\ p \notin Prohibited
  /\ \A b \in DOMAIN f.batches : \A k \in DOMAIN f.batches[b] : Provider[f.batches[b][k].ext] = p
  /\ job' = [job EXCEPT ![r] =
       [at |-> "map", provider |-> p, dry |-> f.dry, file |-> f.batches, new |-> NoTitles,
        ids |-> NoIds, sent |-> FALSE, map |-> NoIds, cands |-> {}, made |-> {}, used |-> {},
        known |-> NoIds, saw |-> {}, counter |-> None]]
  /\ UNCHANGED <<titles, mapping, suspended>>

\* update_data_source, by an administrator.
UpdateSource(p) ==
  /\ suspended' = IF p \in suspended THEN suspended \ {p} ELSE suspended \cup {p}
  /\ UNCHANGED <<titles, mapping, job>>

\* The external ids of the provider are loaded,
PreloadMap(r) ==
  /\ job[r].at = "map"
  /\ job' = [job EXCEPT ![r].at = "load",
       ![r].map = [x \in Exts |-> IF Provider[x] = job[r].provider THEN Ids(r)[x] ELSE None]]
  /\ UNCHANGED <<titles, mapping, suspended>>

\* and then the titles of items that have one, and those named like the others,
\* these with their external ids and display ids.
PreloadCandidates(r) ==
  LET items  == {job[r].file[1][k] : k \in DOMAIN job[r].file[1]}
      mapped == {job[r].map[i.ext] : i \in items} \ {None}
      names  == UNION {{i.name, i.orig} : i \in {i \in items : job[r].map[i.ext] = None}}
      there  == {t \in Titles : Rows(r)[t] # None}
      named  == {t \in there : Rows(r)[t].name \in names \/ Rows(r)[t].orig \in names}
  IN /\ job[r].at = "load"
     /\ job' = [job EXCEPT ![r].at = "items", ![r].saw = there,
          ![r].cands = mapped \cup named, ![r].used = named \ mapped,
          ![r].known = [x \in Exts |-> IF /\ Provider[x] = job[r].provider
                                          /\ Ids(r)[x] \in named \ mapped
                                       THEN Ids(r)[x] ELSE None]]
     /\ UNCHANGED <<titles, mapping, suspended>>

\* The next item is done with, and it has changed the request to j.
Next1(r, j) == job' = [job EXCEPT ![r] = [j EXCEPT !.file[1] = Tail(@)]]

Current(r) == job[r].file[1][1]
AtItem(r)  == job[r].at = "items" /\ job[r].file[1] # << >>

\* An invalid item is quarantined; one to be reviewed, and any item of a dry
\* run, is staged: the catalogue is left alone.
StageOnly(r) ==
  /\ AtItem(r)
  /\ \/ ~Valid(Current(r))
     \/ Valid(Current(r)) /\ (job[r].dry \/ Match(r, Current(r)) = "review")
  /\ Next1(r, job[r])
  /\ UNCHANGED <<titles, mapping, suspended>>

\* _controlled_apply to a match: the external id is added if it is not there.
ApplyMatch(r) ==
  /\ AtItem(r) /\ Valid(Current(r)) /\ ~job[r].dry
  /\ LET i == Current(r)
         t == Match(r, i)
     IN /\ t \in Titles
        /\ Next1(r, IF job[r].map[i.ext] = t THEN job[r]
                    ELSE [job[r] EXCEPT !.map[i.ext] = t,
                            !.ids[i.ext] = IF Ids(r)[i.ext] = t THEN @ ELSE [title |-> t, by |-> i]])
  /\ UNCHANGED <<titles, mapping, suspended>>

Fresh == {t \in Titles : titles[t] = None /\ \A r \in Open : job[r].new[t] = None}

\* The display id: one more than there are titles, when the batch creates its
\* first, passing over those that were loaded or given.
NextNumber(r) ==
  LET from == IF job[r].counter # None THEN job[r].counter
              ELSE Cardinality({t \in Titles : Rows(r)[t] # None})
      used == {Rows(r)[t].number : t \in job[r].used}
  IN CHOOSE n \in from + 1 .. from + 1 + Cardinality(used) :
       n \notin used /\ \A m \in from + 1 .. n - 1 : m \in used

\* The row that _controlled_apply adds for an item.
NewTitle(r, i) ==
  [name |-> i.name, orig |-> IF i.orig = None THEN i.name ELSE i.orig,
   year |-> IF i.year = None THEN 2024 ELSE i.year,
   runtime |-> i.runtime, number |-> NextNumber(r), saw |-> job[r].saw]

\* Mutant of Create: the candidates are not kept current.
CreateUnseen(r, t) ==
  /\ AtItem(r) /\ Valid(Current(r)) /\ ~job[r].dry
  /\ t \in Fresh
  /\ LET i == Current(r)
     IN /\ Match(r, i) = None
        /\ Next1(r, [job[r] EXCEPT !.counter = NextNumber(r), !.map[i.ext] = t,
             !.ids[i.ext] = [title |-> t, by |-> i],
             !.used = @ \cup {t}, !.saw = @ \cup {t}, !.new[t] = NewTitle(r, i)])
  /\ UNCHANGED <<titles, mapping, suspended>>

\* _controlled_apply without a match: a new title with its external id, which
\* joins the candidates of the batch.
Create(r, t) ==
  /\ AtItem(r) /\ Valid(Current(r)) /\ ~job[r].dry
  /\ t \in Fresh
  /\ LET i == Current(r)
     IN /\ Match(r, i) = None
        /\ Next1(r, [job[r] EXCEPT !.counter = NextNumber(r), !.map[i.ext] = t,
             !.ids[i.ext] = [title |-> t, by |-> i],
             !.cands = @ \cup {t}, !.made = @ \cup {t}, !.used = @ \cup {t},
             !.saw = @ \cup {t}, !.new[t] = NewTitle(r, i)])
  /\ UNCHANGED <<titles, mapping, suspended>>

\* The rows of r that the other rows ts and ids leave no place for: display_id
\* and (provider_name, external_id) are unique.
Clash(r, ts, ids) ==
  \/ \E t, u \in Titles : job[r].new[t] # None /\ ts[u] # None /\ job[r].new[t].number = ts[u].number
  \/ \E x \in Exts : job[r].ids[x] # None /\ ids[x] # None

\* Mutant of Unplaced: an external id that is there is updated.
UnplacedTitle(r) ==
  \E t, u \in Titles : job[r].new[t] # None /\ titles[u] # None /\ job[r].new[t].number = titles[u].number

Unplaced(r) == Clash(r, titles, mapping)

\* Rows that another transaction has inserted and not committed are waited for.
Waits(r) == \E q \in Open \ {r} : job[q].sent /\ Clash(r, job[q].new, job[q].ids)

\* The batch is done: the next begins in the same transaction, or the commit.
EndBatch(j) == [j EXCEPT !.file = Tail(@), !.at = IF Tail(j.file) = << >> THEN "commit" ELSE "map",
                         !.cands = {}, !.made = {}, !.used = {}, !.saw = {}, !.counter = None,
                         !.map = NoIds, !.known = NoIds]

AtFlush(r) == job[r].at = "items" /\ job[r].file[1] = << >>

\* The flush at the end of a batch.
Flush(r) ==
  /\ AtFlush(r) /\ ~Unplaced(r) /\ ~Waits(r)
  /\ job' = [job EXCEPT ![r] = [EndBatch(job[r]) EXCEPT !.sent = TRUE]]
  /\ UNCHANGED <<titles, mapping, suspended>>

\* It finds a row in its place, or a statement fails, then or before: all of the
\* session is rolled back, with the batches before.  The runner goes on.
FailBatch(r) ==
  /\ AtFlush(r)
  /\ job' = [job EXCEPT ![r] = [EndBatch(job[r]) EXCEPT !.sent = FALSE, !.new = NoTitles, !.ids = NoIds]]
  /\ UNCHANGED <<titles, mapping, suspended>>

\* get_db commits after the response,
Commit(r) ==
  /\ job[r].at = "commit"
  /\ titles' = Rows(r)
  /\ mapping' = [x \in Exts |-> IF job[r].ids[x] # None THEN job[r].ids[x] ELSE mapping[x]]
  /\ job' = [job EXCEPT ![r] = Idle]
  /\ UNCHANGED suspended

\* or the connection or the worker is lost, then or before.
Abort(r) ==
  /\ job[r].at = "commit"
  /\ job' = [job EXCEPT ![r] = Idle]
  /\ UNCHANGED <<titles, mapping, suspended>>

Next ==
  \/ \E p \in Registered : UpdateSource(p)
  \/ \E r \in Requests :
       \/ \E p \in Providers, f \in Files : Trigger(r, p, f)
       \/ PreloadMap(r) \/ PreloadCandidates(r)
       \/ StageOnly(r) \/ ApplyMatch(r) \/ \E t \in Titles : Create(r, t)
       \/ Flush(r) \/ FailBatch(r) \/ Commit(r) \/ Abort(r)

Spec == Init /\ [][Next]_vars
-----------------------------------------------------------------------------
(* Properties *)

\* An external id never moves from one title to another, although each run
\* decides on a copy of the ids that it has read before.
MappingKept == [][\A x \in Exts : mapping[x] # None => mapping'[x] = mapping[x]]_vars

\* Titles of one name and year, of which the run of one could see the other.
Twins(t, u) ==
  /\ t # u /\ titles[t] # None /\ titles[u] # None
  /\ titles[t].name = titles[u].name /\ titles[t].year = titles[u].year
  /\ t \in titles[u].saw

\* A run does not create again what it could see, be it in the catalogue when
\* it read the candidates or created by an earlier item of its own
\* (pipeline.py:1084): titles of one name and year come from runs that overlap.
\* But the resolver has nothing to compare in a name of punctuation alone, and
\* in one of stop words alone only if the item has a year or the runtime: such
\* names are left out.
NoTwin == \A t, u \in Titles : Twins(t, u) => titles[t].name \in Common

\* "without this, two items for the same new title within one batch would both
\* resolve NO_MATCH and both get inserted as duplicates" (pipeline.py:1087).  It does
\* not hold for a name of punctuation alone.
NoDuplicates == \A t, u \in Titles : ~Twins(t, u)

\* ADR-002: a remake is another work.  What is mapped to a title of the same
\* spelling does not come from another year.
RemakeApart ==
  \A x \in Exts : mapping[x] # None =>
    LET i == mapping[x].by
        t == titles[mapping[x].title]
    IN i.name = t.name => i.year \in {None, t.year}

\* "Ingestion blocked" for a provider that is suspended (licensing.py:343).
GateFollowsRegistry ==
  [][\A r \in Requests : job[r] = Idle /\ job'[r] # Idle => job'[r].provider \notin suspended]_vars
=============================================================================
