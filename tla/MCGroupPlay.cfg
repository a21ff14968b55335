CONSTANTS
  Users = {u1, u2, u3}
  Recs = {x1, x2}
  TitleOf <- MCTitleOf
  Ratings = {low, high}
  Clubs = {c1}
  Challenges = {h1}
  Goal = 2
  MaxReport = 3
  b1 = b1
  b2 = b2
  Badges = {b1, b2}
  Threshold <- Thresholds
  MaxMetric = 2
  Requests = {r1, r2}
  None = None
SPECIFICATION MCSpec
SYMMETRY Symmetry
INVARIANTS NoShortcut NothingUnearned
PROPERTIES ReachedKept
