\* Three mutations, the second refused by its handler; replies may be lost for a
\* while.
CONSTANTS
  NumMutations = 3
  Requests = {r1, r2}
  Workers = {w1, w2}
  NoWorker = NoWorker
  c1 = c1
  c2 = c2
  plain = plain
  Cells = {c1, c2}
  NoCell = plain
  CellOf <- CellApart
  Invalid = {2}
  Unhandled = {}
  Faults = {"network"}
SPECIFICATION FairSpec
INVARIANTS RefusalIsolated SingleExecutor
PROPERTY Delivered
