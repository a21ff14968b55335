---------------------------- MODULE CatalogUpkeep ----------------------------
(***************************************************************************)
(* How the catalogue is kept up to date (scheduler.py, routers/admin.py,   *)
(* scripts/seed_bulk_imdb.py, scripts/backfill_*_from_imdb.py).            *)
(*                                                                         *)
(* Every API worker runs a scheduler whose refresh job takes a PostgreSQL  *)
(* advisory lock on a connection of its own; an administrator starts bulk  *)
(* imports that take no lock.  Both download the IMDb datasets into a      *)
(* directory all workers of a host share, import the titles in two         *)
(* statements that commit one by one, and the refresh then adds genres and *)
(* countries.  A dataset file that does not end as it should cannot be     *)
(* read: gzip raises, and the run fails.                                   *)
(***************************************************************************)
EXTENDS Naturals, FiniteSets

CONSTANTS
  Workers,       \* API workers, each with a scheduler
  Admins,        \* bulk imports started by an administrator
  Titles,        \* titles IMDb publishes
  Since,         \* the day from which a title is in the datasets
  MaxDay,        \* bound on the days that pass
  None

UpkeepAssumption ==
  /\ MaxDay \in Nat /\ Since \in [Titles -> 0..MaxDay]
  /\ Workers \cap Admins = {} /\ None \notin Workers

VARIABLES
  day,           \* IMDb publishes its datasets anew every day
  files,         \* dataset files, a set in each of the two directories
  lock,          \* who holds _CATALOG_REFRESH_LOCK_KEY
  lost,          \* a running refresh has lost the connection of its lock (history)
  run,           \* what each worker's refresh and each bulk import is doing
  catalog, ids,  \* canonical.title, canonical.title_external_id
  genres,        \* titles with genre links
  country,       \* canonical.title_country: datasets each title has one from
  imported       \* titles of the imports that have completed (history)

data == <<catalog, ids, genres, country, imported>>
vars == <<day, files, lock, lost, run, data>>

Runs == Workers \cup Admins
Days == 0..MaxDay
Bulk == {"basics", "ratings"}
File == [is : {"absent", "empty", "partial", "whole"}, day : Days]
Dir(r) == IF r \in Workers THEN "scheduler" ELSE "admin"

\* Titles in the datasets of a day.
Dataset(d) == {t \in Titles : Since[t] <= d}

Idle == [at |-> "idle", began |-> 0, todo |-> {}, open |-> {}, staged |-> {}, done |-> {}]
Run  == [at : {"idle", "download", "ratings", "basics", "titles", "ids", "genres",
               "akas", "known", "countries"},
         began : Days,                       \* the day the run began
         todo : SUBSET {"basics", "ratings", "akas"},
         open : SUBSET ({"basics", "ratings", "akas"} \X Days),
         staged : SUBSET Titles,             \* staging_title
         done : SUBSET Titles]               \* load_already_backfilled

TypeOK ==
  /\ day \in Days
  /\ files \in [{"scheduler", "admin"} -> [{"basics", "ratings", "akas"} -> File]]
  /\ lock \in Workers \cup {None}
  /\ lost \in BOOLEAN
  /\ run \in [Runs -> Run]
  /\ catalog \subseteq Titles /\ ids \subseteq Titles /\ genres \subseteq Titles
  /\ country \in [Titles -> SUBSET Days]
  /\ imported \subseteq Titles

NoFile == [is |-> "absent", day |-> 0]

Init ==
  /\ day = 0
  /\ files = [d \in {"scheduler", "admin"} |-> [f \in {"basics", "ratings", "akas"} |-> NoFile]]
  /\ lock = None /\ lost = FALSE
  /\ run = [r \in Runs |-> Idle]
  /\ catalog = {} /\ ids = {} /\ genres = {} /\ country = [t \in Titles |-> {}]
  /\ imported = {}

\* A run ends, well or not: a refresh gives its lock back.
End(r) ==
  /\ run' = [run EXCEPT ![r] = Idle]
  /\ lock' = IF lock = r THEN None ELSE lock

NextDay == day < MaxDay /\ day' = day + 1 /\ UNCHANGED <<files, lock, lost, run, data>>
-----------------------------------------------------------------------------
(* Starting, and downloading *)

\* Mutant of Refresh: whatever files there are from the last run are kept.
RefreshCached(w) ==
  /\ run[w].at = "idle" /\ lock = None
  /\ lock' = w
  /\ run' = [run EXCEPT ![w] = [Idle EXCEPT !.at = "download", !.began = day,
               !.todo = {f \in Bulk : files["scheduler"][f].is \in {"absent", "empty"}}]]
  /\ UNCHANGED <<day, files, lost, data>>

\* run_catalog_refresh_job: with the lock, the files of the last run are
\* unlinked, also under a run that lost its lock and writes to them still.
Refresh(w) ==
  /\ run[w].at = "idle" /\ lock = None
  /\ lock' = w
  /\ files' = [files EXCEPT !["scheduler"] = [f \in DOMAIN @ |-> NoFile]]
  /\ run' = [v \in Runs |->
               IF v = w THEN [Idle EXCEPT !.at = "download", !.began = day, !.todo = Bulk]
               ELSE IF v \in Workers THEN [run[v] EXCEPT !.open = {}] ELSE run[v]]
  /\ UNCHANGED <<day, lost, data>>

\* The connection that holds the lock breaks; the job does not notice.
LoseSession ==
  /\ lock # None
  /\ lock' = None /\ lost' = TRUE
  /\ UNCHANGED <<day, files, run, data>>

\* _run_bulk_catalog_sync_task.  A file that is there counts as downloaded when
\* it is not empty; skip_download takes what is there, whatever it is.
BulkSync(a, skip) ==
  /\ run[a].at = "idle"
  /\ skip => \A f \in Bulk : files["admin"][f].is # "absent"
  /\ run' = [run EXCEPT ![a] = [Idle EXCEPT !.at = "download", !.began = day,
               !.todo = IF skip THEN {}
                        ELSE {f \in Bulk : files["admin"][f].is \in {"absent", "empty"}}]]
  /\ UNCHANGED <<day, files, lock, lost, data>>

\* download_file opens the destination itself, which empties it, and writes on.
OpenFile(r, f) ==
  /\ run[r].at \in {"download", "akas"} /\ f \in run[r].todo
  /\ run' = [run EXCEPT ![r].todo = @ \ {f}, ![r].open = @ \cup {<<f, day>>}]
  /\ \E is \in {"empty", "partial"} : files' = [files EXCEPT ![Dir(r)][f] = [is |-> is, day |-> day]]
  /\ UNCHANGED <<day, lock, lost, data>>

\* The download completes.  What another one writes to the same file meanwhile
\* may leave holes in it; a file that was unlinked is nobody's concern.
FinishFile(r, f, d) ==
  /\ <<f, d>> \in run[r].open
  /\ run' = [run EXCEPT ![r].open = @ \ {<<f, d>>}]
  /\ LET others == \E q \in Runs \ {r} : Dir(q) = Dir(r) /\ \E e \in Days : <<f, e>> \in run[q].open
     IN \E is \in IF others THEN {"partial", "whole"} ELSE {"whole"} :
          files' = [files EXCEPT ![Dir(r)][f] = [is |-> is, day |-> d]]
  /\ UNCHANGED <<day, lock, lost, data>>

\* The download fails; what has been written of the file stays.
FailDownload(r) ==
  /\ run[r].at \in {"download", "akas"} /\ (run[r].todo # {} \/ run[r].open # {})
  /\ End(r)
  /\ \/ UNCHANGED files
     \/ \E f \in {o[1] : o \in run[r].open} :
          files' = [files EXCEPT ![Dir(r)][f].is = IF @ = "empty" THEN "partial" ELSE @]
  /\ UNCHANGED <<day, lost, data>>

Downloaded(r) ==
  /\ run[r].todo = {} /\ run[r].open = {}
  /\ \/ run[r].at = "download" /\ run' = [run EXCEPT ![r].at = "ratings"]
     \/ run[r].at = "akas"     /\ run' = [run EXCEPT ![r].at = "known"]
  /\ UNCHANGED <<day, files, lock, lost, data>>
-----------------------------------------------------------------------------
(* process_and_import *)

FileOf(r, f) == files[Dir(r)][f]

\* Reading a file that is missing, empty or cut off raises.
FailRead(r) ==
  /\ \/ run[r].at = "ratings" /\ FileOf(r, "ratings").is # "whole"
     \/ run[r].at \in {"basics", "genres"} /\ FileOf(r, "basics").is # "whole"
     \/ run[r].at = "countries" /\ FileOf(r, "akas").is # "whole"
  /\ End(r)
  /\ UNCHANGED <<day, files, lost, data>>

\* parse_qualified_ratings
ReadRatings(r) ==
  /\ run[r].at = "ratings" /\ FileOf(r, "ratings").is = "whole"
  /\ run' = [run EXCEPT ![r].at = "basics", ![r].staged = Dataset(FileOf(r, "ratings").day)]
  /\ UNCHANGED <<day, files, lock, lost, data>>

\* The titles that qualify are staged; the staging table is the connection's.
ReadBasics(r) ==
  /\ run[r].at = "basics" /\ FileOf(r, "basics").is = "whole"
  /\ run' = [run EXCEPT ![r].at = "titles", ![r].staged = @ \cap Dataset(FileOf(r, "basics").day)]
  /\ UNCHANGED <<day, files, lock, lost, data>>

\* Mutant of InsertTitles: the statement fails on a title that is there, and the
\* run goes on.
InsertTitlesNew(r) ==
  /\ run[r].at = "titles"
  /\ catalog' = IF run[r].staged \cap catalog = {} THEN catalog \cup run[r].staged ELSE catalog
  /\ run' = [run EXCEPT ![r].at = "ids"]
  /\ UNCHANGED <<day, files, lock, lost, ids, genres, country, imported>>

\* INSERT INTO canonical.title ... ON CONFLICT DO NOTHING, committed as it is,
InsertTitles(r) ==
  /\ run[r].at = "titles"
  /\ catalog' = catalog \cup run[r].staged
  /\ run' = [run EXCEPT ![r].at = "ids"]
  /\ UNCHANGED <<day, files, lock, lost, ids, genres, country, imported>>

\* then the ids of all staged titles that are in the catalogue.
InsertIds(r) ==
  /\ run[r].at = "ids"
  /\ ids' = ids \cup (run[r].staged \cap catalog)
  /\ imported' = imported \cup run[r].staged
  /\ IF r \in Admins THEN End(r) ELSE run' = [run EXCEPT ![r].at = "genres"] /\ UNCHANGED lock
  /\ UNCHANGED <<day, files, lost, catalog, genres, country>>
-----------------------------------------------------------------------------
(* Backfills of the refresh *)

\* backfill_genres links what is in the catalogue, batch by batch,
Genres(r) ==
  /\ run[r].at = "genres" /\ FileOf(r, "basics").is = "whole"
  /\ LET known == catalog \cap Dataset(FileOf(r, "basics").day)
     IN genres' = genres \cup known
  /\ run' = [run EXCEPT ![r].at = "akas", ![r].todo = {"akas"}]
  /\ UNCHANGED <<day, files, lock, lost, catalog, ids, country, imported>>

\* then the refresh downloads the akas.  backfill_countries reads which titles
\* have a country
KnownCountries(r) ==
  /\ run[r].at = "known"
  /\ run' = [run EXCEPT ![r].at = "countries", ![r].staged = catalog,
                        ![r].done = {t \in Titles : country[t] # {}}]
  /\ UNCHANGED <<day, files, lock, lost, data>>

\* and gives one to the others.
Countries(r) ==
  /\ run[r].at = "countries" /\ FileOf(r, "akas").is = "whole"
  /\ LET d == FileOf(r, "akas").day  todo == (run[r].staged \cap Dataset(d)) \ run[r].done
     IN country' = [t \in Titles |-> IF t \in todo THEN country[t] \cup {d} ELSE country[t]]
  /\ End(r)
  /\ UNCHANGED <<day, files, lost, catalog, ids, genres, imported>>

\* The database fails a statement, or the worker stops: batches that have been
\* flushed stay, and PostgreSQL frees the lock with the connection.
Fail(r) ==
  /\ run[r].at \in {"titles", "ids", "genres", "known", "countries"}
  /\ \/ UNCHANGED <<genres, country>>
     \/ /\ run[r].at = "genres"
        /\ \E t \in catalog \cap Dataset(FileOf(r, "basics").day) : genres' = genres \cup {t}
        /\ UNCHANGED country
     \/ /\ run[r].at = "countries"
        /\ \E t \in (run[r].staged \cap Dataset(FileOf(r, "akas").day)) \ run[r].done :
             country' = [country EXCEPT ![t] = @ \cup {FileOf(r, "akas").day}]
        /\ UNCHANGED genres
  /\ End(r)
  /\ UNCHANGED <<day, files, lost, catalog, ids, imported>>

Next ==
  \/ NextDay \/ LoseSession
  \/ \E w \in Workers : Refresh(w)
  \/ \E a \in Admins, skip \in BOOLEAN : BulkSync(a, skip)
  \/ \E r \in Runs :
       \/ \E f \in {"basics", "ratings", "akas"} : OpenFile(r, f) \/ \E d \in Days : FinishFile(r, f, d)
       \/ FailDownload(r) \/ Downloaded(r)
       \/ FailRead(r) \/ ReadRatings(r) \/ ReadBasics(r) \/ InsertTitles(r) \/ InsertIds(r)
       \/ Genres(r) \/ KnownCountries(r) \/ Countries(r) \/ Fail(r)

Spec == Init /\ [][Next]_vars
-----------------------------------------------------------------------------
(* Properties *)

\* "only one worker actually runs this" (scheduler.py:40), as far as it goes: two
\* refreshes run at once only after a lock was lost with its connection.  Even
\* then, "Always re-downloads rather than reusing a cached file" (scheduler.py:75):
\* a refresh imports nothing less than IMDb had published when it began, though
\* another one downloads to the same files.
FreshImport ==
  /\ ~lost => \A v, w \in Workers : run[v].at # "idle" /\ run[w].at # "idle" => v = w
  /\ \A w \in Workers : run[w].at \in {"titles", "ids"} => Dataset(run[w].began) \subseteq run[w].staged

\* Whatever was cut off between the two statements before: when an import
\* completes, each of its titles is in the catalogue with its external id.
ImportComplete == imported \subseteq catalog \cap ids
=============================================================================
