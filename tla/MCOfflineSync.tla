--------------------------- MODULE MCOfflineSync ---------------------------
(* Instances of OfflineSync for TLC. *)
EXTENDS OfflineSync, TLC

CONSTANTS c1, c2, plain

\* Every mutation upserts a row of its own.
CellApart == [m \in Mutation |-> IF m = 1 THEN c1 ELSE IF m = 2 THEN c2 ELSE plain]

\* Both mutations rate the same title.
CellSame == [m \in Mutation |-> c1]

Symmetry == Permutations(Requests) \cup Permutations(Workers)
=============================================================================
