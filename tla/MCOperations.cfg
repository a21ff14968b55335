CONSTANTS
  Jobs = {j1, j2}
  Limit = 1
  Attempts = 2
  MaxStarts = 4
  Runners = {r1, r2}
  w1 = w1 w2 = w2 a1 = a1 a2 = a2 t1 = t1 t2 = t2 t3 = t3 t4 = t4 s1 = s1 s2 = s2
  Workers = {w1, w2}
  Admins = {a1, a2}
  Titles = {t1, t2}
  Since <- Published
  MaxDay = 1
  None = None
  Films = {t1, t2, t3, t4}
  Newer <- Order
  Art <- Artwork
  NoId = {t4}
  Syncs = {s1, s2}
  BatchSize = 2
  MaxBatches <- Limits
  MaxFailures = 1
SPECIFICATION MCSpec
CHECK_DEADLOCK FALSE
INVARIANTS DeadLetterEarned FreshImport ImportComplete
PROPERTIES ClosedForGood ArtworkKept EndsComplete SyncEnds
