CONSTANTS
  NumMutations = 2
  Requests = {r1, r2}
  Workers = {w1, w2}
  NoWorker = NoWorker
  c1 = c1
  c2 = c2
  plain = plain
  Cells = {c1}
  NoCell = plain
  CellOf <- CellSame
  Invalid = {}
  Unhandled = {}
  Faults = {}
SPECIFICATION Spec
INVARIANT NoSilentLoss
