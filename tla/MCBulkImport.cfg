SPECIFICATION Spec
CONSTANTS
  u1 = u1 u2 = u2 k1 = k1 k2 = k2 L1 = L1
  Blank = Blank
  Attempts = {u1, u2}
  Keys = {k1, k2}
  Books <- Workbooks
  Leis = {L1}
  Aliases = {"b"}
  Lower <- LowerCase
  MaxCounters = 2
  MaxRows = 5
INVARIANT ImportedIsComplete
PROPERTIES KeepsPromise RefusalIsTrue
CHECK_DEADLOCK FALSE
SYMMETRY Symmetry
