------------------------------ MODULE PosterSync ------------------------------
(***************************************************************************)
(* The worker that fetches artwork from TMDB for titles that have none     *)
(* (ingestion/tmdb_worker.py), started by the scheduler of an API worker   *)
(* and, without the scheduler's lock, by administrators.                   *)
(*                                                                         *)
(* A sync fetches a batch of rows, asks TMDB for each and writes what it   *)
(* was told, one statement at a time: two syncs may have a title in their  *)
(* batches at once.                                                        *)
(***************************************************************************)
EXTENDS Naturals, FiniteSets

CONSTANTS
  Titles,        \* canonical.title
  Newer,         \* <<s, t>>: s was created after t
  Art,           \* what TMDB has for each title: a poster, a backdrop, both, nothing
  NoId,          \* titles without an IMDb id to ask TMDB by
  Syncs,         \* sync_missing_posters, scheduled or started by an administrator
  BatchSize,
  MaxBatches,    \* max_batches of each sync; None: until there are no more titles
  MaxFailures,   \* bound on the statements the database fails
  None

\* The database orders any two rows, also those of one created_at.
PosterAssumption ==
  /\ BatchSize \in Nat \ {0} /\ MaxFailures \in Nat
  /\ Art \in [Titles -> SUBSET {"poster", "backdrop"}] /\ NoId \subseteq Titles
  /\ MaxBatches \in [Syncs -> (Nat \ {0}) \cup {None}] /\ None \notin Nat
  /\ IsFiniteSet(Titles)
  /\ \A t, u \in Titles :
       /\ <<t, u>> \in Newer <=> t # u /\ <<u, t>> \notin Newer
       /\ \A v \in Titles : <<t, u>> \in Newer /\ <<u, v>> \in Newer => <<t, v>> \in Newer

VARIABLES
  rows,          \* status and artwork of each title
  syncs,         \* where each sync stands
  failures       \* statements the database has failed

vars == <<rows, syncs, failures>>

Status == {"PENDING", "SYNCED", "NOT_FOUND", "INVALID_ID"}
Row  == [status : Status, art : SUBSET {"poster", "backdrop"}]
Idle == [at |-> "idle", batch |-> 0, left |-> {}, full |-> FALSE, found |-> {}]
Sync == [at : {"idle", "fetch", "next", "write"}, batch : Nat, left : SUBSET Titles,
         full : BOOLEAN, found : SUBSET {"poster", "backdrop"}]

TypeOK ==
  /\ rows \in [Titles -> Row]
  /\ syncs \in [Syncs -> Sync]
  /\ failures \in 0..MaxFailures

Init ==
  /\ rows = [t \in Titles |-> [status |-> "PENDING", art |-> {}]]
  /\ syncs = [s \in Syncs |-> Idle]
  /\ failures = 0

\* Mutant of Wanting: a title that TMDB does not know is asked for again.
WantingAgain(t) == "poster" \notin rows[t].art /\ rows[t].status # "INVALID_ID"

\* WHERE (poster_url IS NULL OR poster_sync_status = 'PENDING')
\*   AND poster_sync_status NOT IN ('NOT_FOUND', 'INVALID_ID')
Wanting(t) ==
  /\ "poster" \notin rows[t].art \/ rows[t].status = "PENDING"
  /\ rows[t].status \notin {"NOT_FOUND", "INVALID_ID"}

\* The title of a batch that is next: the one created last.
First(batch) == CHOOSE t \in batch : \A s \in batch \ {t} : <<t, s>> \in Newer

\* ORDER BY created_at DESC LIMIT batch_size
Batch(wanting) ==
  {t \in wanting : Cardinality({s \in wanting : <<s, t>> \in Newer}) < BatchSize}

StartSync(s) ==
  /\ syncs[s].at = "idle"
  /\ syncs' = [syncs EXCEPT ![s] = [Idle EXCEPT !.at = "fetch"]]
  /\ UNCHANGED <<rows, failures>>

\* The next batch, unless there have been enough or nothing is wanting.
Fetch(s) ==
  /\ syncs[s].at = "fetch"
  /\ LET b == Batch({t \in Titles : Wanting(t)})
     IN syncs' = IF syncs[s].batch = MaxBatches[s] \/ b = {}
                 THEN [syncs EXCEPT ![s] = Idle]
                 ELSE [syncs EXCEPT ![s] =
                         [@ EXCEPT !.at = "next", !.left = b,
                            \* the count matters to a bounded sync only
                            !.batch = IF MaxBatches[s] = None THEN syncs[s].batch ELSE syncs[s].batch + 1,
                            !.full = (Cardinality(b) = BatchSize)]]
  /\ UNCHANGED <<rows, failures>>

\* find_by_imdb_id: no result, an error and a network failure are all nothing.
\* A title without an IMDb id is not asked for.
Ask(s) ==
  /\ syncs[s].at = "next" /\ syncs[s].left # {}
  /\ LET t == First(syncs[s].left)
     IN \E found \in {{}, IF t \in NoId THEN {} ELSE Art[t]} :
          syncs' = [syncs EXCEPT ![s].at = "write", ![s].found = found]
  /\ UNCHANGED <<rows, failures>>

\* Mutant of Answered: the columns are set to what was found, present or not.
AnsweredOver(t, row, found) ==
  [status |-> IF t \in NoId THEN "INVALID_ID" ELSE IF found = {} THEN "NOT_FOUND" ELSE "SYNCED",
   art |-> found]

\* The row after the UPDATE: COALESCE keeps the artwork it has.
Answered(t, row, found) ==
  [status |-> IF t \in NoId THEN "INVALID_ID" ELSE IF found = {} THEN "NOT_FOUND" ELSE "SYNCED",
   art |-> row.art \cup found]

\* The UPDATE.  When the database fails it the error is counted and the sync goes
\* on; that of a title without an IMDb id is outside the try, and ends the sync.
Write(s) ==
  /\ syncs[s].at = "write"
  /\ LET t == First(syncs[s].left)
         on == [syncs[s] EXCEPT !.at = "next", !.left = @ \ {t}, !.found = {}]
     IN \/ /\ rows' = [rows EXCEPT ![t] = Answered(t, @, syncs[s].found)]
           /\ syncs' = [syncs EXCEPT ![s] = on]
           /\ UNCHANGED failures
        \/ /\ failures < MaxFailures /\ failures' = failures + 1
           /\ syncs' = [syncs EXCEPT ![s] = IF t \in NoId THEN Idle ELSE on]
           /\ UNCHANGED rows

\* Mutant of BatchDone: the batch size is not looked at, one batch is all.
BatchDoneOnce(s) ==
  /\ syncs[s].at = "next" /\ syncs[s].left = {}
  /\ syncs' = [syncs EXCEPT ![s] = Idle]
  /\ UNCHANGED <<rows, failures>>

\* A batch that was not full was the last.
BatchDone(s) ==
  /\ syncs[s].at = "next" /\ syncs[s].left = {}
  /\ syncs' = [syncs EXCEPT ![s] = IF @.full THEN [@ EXCEPT !.at = "fetch", !.full = FALSE] ELSE Idle]
  /\ UNCHANGED <<rows, failures>>

\* The worker stops.
Stop(s) ==
  /\ syncs[s].at # "idle"
  /\ syncs' = [syncs EXCEPT ![s] = Idle]
  /\ UNCHANGED <<rows, failures>>

Step(s) == Fetch(s) \/ Ask(s) \/ Write(s) \/ BatchDone(s)

Next == \E s \in Syncs : StartSync(s) \/ Step(s) \/ Stop(s)

Spec == Init /\ [][Next]_vars /\ \A s \in Syncs : WF_vars(Step(s))
-----------------------------------------------------------------------------
(* Properties *)

\* Artwork is not lost again when a later sync finds less of it or nothing.
ArtworkKept ==
  [][\A t \in Titles : rows[t].art \subseteq rows'[t].art]_vars

\* "default: run until complete" (tmdb_worker.py:345): a sync without a limit
\* that was not stopped and met no database failure has left no title PENDING.
EndsComplete ==
  [][\A s \in Syncs :
       /\ syncs[s].at # "idle" /\ MaxBatches[s] = None /\ failures = 0
       /\ Fetch(s) \/ BatchDone(s)
       /\ syncs'[s].at = "idle"
       => \A t \in Titles : rows[t].status # "PENDING"]_vars

\* Every sync ends, if fewer titles than a batch holds have a backdrop and no
\* poster: these it fetches again and again.  TMDB answers, and the database
\* fails finitely often.
SyncEnds ==
  Cardinality({t \in Titles \ NoId : Art[t] = {"backdrop"}}) < BatchSize =>
    \A s \in Syncs : syncs[s].at # "idle" ~> syncs[s].at = "idle"
=============================================================================
