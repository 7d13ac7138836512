SPECIFICATION Spec
CONSTANTS
  h1 = h1 h2 = h2 d1 = d1 d2 = d2 e0 = e0 e1 = e1 e2 = e2 e3 = e3 e4 = e4
  NoDfsp = NoDfsp
  Handlers = {h1, h2}
  Seeded <- MCSeeded
  SuperAdmin = 1
  Emails = {e4}
  Dfsps = {d1, d2}
  Limit = 1
  MaxUsers = 7
  MaxPasswords = 7
  MaxRequests = 5
INVARIANTS TemporaryIsMarked SessionsFollowPassword CreationBounds
CHECK_DEADLOCK FALSE
SYMMETRY Symmetry
