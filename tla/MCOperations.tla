---------------------------- MODULE MCOperations ----------------------------
(***************************************************************************)
(* Instance for TLC of what runs beside the requests: JobRegistry,         *)
(* CatalogUpkeep and PosterSync, which share nothing.  Each behaviour is   *)
(* about jobs, about two refreshes, about two bulk imports or about two    *)
(* syncs of artwork.  One published title is old, one is of tomorrow; of   *)
(* those without artwork there is one of each kind, one of which will      *)
(* always be fetched again, and a batch is of two.                         *)
(***************************************************************************)
EXTENDS JobRegistry, TLC

CONSTANTS Workers, Admins, Titles, Since, MaxDay
CONSTANTS Films, Newer, Art, NoId, Syncs, BatchSize, MaxBatches, MaxFailures
CONSTANTS t1, t2, t3, t4, w1, w2, a1, a2, s1, s2

VARIABLES day, files, lock, lost, run, catalog, ids, genres, country, imported
VARIABLES rows, syncs, failures
VARIABLE focus

upkeep == <<day, files, lock, lost, run, catalog, ids, genres, country, imported>>
posters == <<rows, syncs, failures>>

U == INSTANCE CatalogUpkeep
P == INSTANCE PosterSync WITH Titles <- Films

ASSUME U!UpkeepAssumption
ASSUME PostersHold == P!PosterAssumption

Published == (t1 :> 0) @@ (t2 :> 1)
Artwork == (t1 :> {"backdrop"}) @@ (t2 :> {"poster", "backdrop"}) @@ (t3 :> {}) @@ (t4 :> {})
Order   == {<<t1, t2>>, <<t1, t3>>, <<t1, t4>>, <<t2, t3>>, <<t2, t4>>, <<t3, t4>>}
Limits  == (s1 :> None) @@ (s2 :> 2)

MCInit == Init /\ U!Init /\ P!Init /\ focus \in {{}, {w1, w2}, {a1, a2}, Syncs}

MCNext ==
  /\ UNCHANGED focus
  /\ \/ focus = {} /\ Next /\ UNCHANGED <<upkeep, posters>>
     \/ /\ focus \in {{w1, w2}, {a1, a2}} /\ U!Next /\ UNCHANGED <<vars, posters>>
        /\ \A r \in U!Runs \ focus : run'[r].at = "idle"
     \/ focus = Syncs /\ P!Next /\ UNCHANGED <<vars, upkeep>>

all == <<vars, upkeep, posters, focus>>

\* A sync goes on: its HTTP client has a time-out, and statements end.
MCSpec ==
  /\ MCInit /\ [][MCNext]_all
  /\ \A s \in Syncs : WF_all(focus = Syncs /\ P!Step(s) /\ UNCHANGED <<vars, upkeep, focus>>)

\* The properties of the refreshes and imports, see CatalogUpkeep.
FreshImport == U!FreshImport
ImportComplete == U!ImportComplete

\* Those of the syncs, see PosterSync.
ArtworkKept == P!ArtworkKept
EndsComplete == P!EndsComplete
SyncEnds == P!SyncEnds
=============================================================================
