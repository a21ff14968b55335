CONSTANTS
  Users = {u1, u2}
  Clients = {c1}
  Tasks = {q1, q2}
  Calls = {h1, h2}
  AccessLife = 1
  CookieLife = 2
  RefreshLife = 3
  LastDay = 5
  None = None
SPECIFICATION MCSpec
INVARIANTS OneRefresh
PROPERTIES SignedOutStays RequestsEnd StaysSignedIn
