----------------------------- MODULE MCIngestion -----------------------------
(* Instances of Ingestion for TLC. *)
EXTENDS Ingestion, TLC

CONSTANTS x1, x2, y1, tmdb, kobis, blocked, film, theFilm, films, hangul, dots

MCProvider == x1 :> tmdb @@ x2 :> tmdb @@ y1 :> kobis

\* film and theFilm differ by an article, films by a word in five; hangul is
\* film in another script, and dots has neither letters nor digits.
MCKey == film :> "film" @@ theFilm :> "film" @@ films :> "films" @@ hangul :> "hangul" @@ dots :> ""

I(x, n, o, y, m) == [ext |-> x, name |-> n, orig |-> o, year |-> y, runtime |-> m]

\* One work under two ids, in one batch; a work and its remake, in two; the work
\* from another provider, spelled alike, with its original name and no year, and
\* with the original name and the year; two works called dots; and, on trial,
\* an invalid item and a name that is nearly the same.
MCFiles ==
  {[dry |-> FALSE, batches |-> << <<I(x1, film, None, 2023, 0), I(x2, film, hangul, 2023, 0)>> >>],
   [dry |-> FALSE, batches |-> << <<I(x1, film, hangul, 2023, 0)>>, <<I(x2, film, None, 2024, 0)>> >>],
   [dry |-> FALSE, batches |-> << <<I(y1, theFilm, hangul, None, 0)>> >>],
   [dry |-> FALSE, batches |-> << <<I(y1, hangul, None, 2023, 0)>> >>],
   [dry |-> FALSE, batches |-> << <<I(x1, dots, None, 2023, 0), I(x2, dots, None, 2023, 0)>> >>],
   [dry |-> TRUE,  batches |-> << <<I(x2, None, None, None, 0), I(x1, films, None, None, 1)>> >>]}

Symmetry == Permutations(Requests) \cup Permutations(Titles)
=============================================================================
