\* Two workers, two ratings of one title, every fault; the first mutation is of
\* a type without a handler.
CONSTANTS
  NumMutations = 2
  Requests = {r1, r2}
  Workers = {w1, w2}
  NoWorker = NoWorker
  c1 = c1
  c2 = c2
  plain = plain
  Cells = {c1}
  NoCell = plain
  CellOf <- CellSame
  Invalid = {}
  Unhandled = {1}
  Faults = {"network", "valkey", "db", "commit", "crash"}
SPECIFICATION Spec
SYMMETRY Symmetry
INVARIANTS AtMostOnce LedgerMatchesData CellsFromLedger
PROPERTY RefinesLedger
