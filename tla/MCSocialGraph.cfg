\* A founder, a newcomer, two invite codes; a ballot of three titles and two
\* voters; two requests at a time.
CONSTANTS
  founder = founder
  friend = friend
  guest = guest
  Users = {founder, guest}
  Founders = {founder}
  Tokens = {t1, t2}
  Requests = {r1, r2}
  MaxRows = 2
  Rooms = {k1}
  Titles = {m1, m2, m3}
  Voters = {t1, t2}
  None = None
SPECIFICATION MCSpec
SYMMETRY Symmetry
INVARIANTS Gated WinnerHasLed
PROPERTIES OnlyAddresseeAccepts RelationPreserved SettledForGood
