CONSTANTS
  s = s  m = m  e1 = e1  e2 = e2  e3 = e3
  Titles = {s, m}
  Episodes = {e1, e2, e3}
  EpisodesOf <- MCEpisodesOf
  Keys = {k1, k2, k3}
  Days = {1, 2, 4}
  Bodies <- MCBodies
  Stars = {2}
  Files <- MCFiles
  MaxEvents = 3
  Requests = {r1, r2}
  None = None
SPECIFICATION MCSpec
SYMMETRY Symmetry
CHECK_DEADLOCK FALSE
INVARIANTS CompletedEarned StreakEarned
PROPERTIES KeepExisting
