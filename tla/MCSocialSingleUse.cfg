\* A founder, newcomers and two invite codes; a newcomer more than in
\* MCSocialGraph.cfg, so that two can register with one code at a time.
CONSTANTS
  founder = founder
  friend = friend
  guest = guest
  Users = {founder, friend, guest}
  Founders = {founder}
  Tokens = {t1, t2}
  Requests = {r1, r2}
  MaxRows = 2
  Rooms = {k1}
  Titles = {m1, m2, m3}
  Voters = {t1, t2}
  None = None
SPECIFICATION MCSpec
SYMMETRY Symmetry
INVARIANT SingleUse
