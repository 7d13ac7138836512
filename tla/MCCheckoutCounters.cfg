SPECIFICATION Spec
CONSTANTS
  g1 = g1 g2 = g2 g3 = g3 g4 = g4 k2 = k2
  h1 = h1 h2 = h2 l1 = l1 k1 = k1
  NoLocation = NoLocation NoAlias = NoAlias Unchanged = Unchanged NoKey = NoKey
  Handlers = {h1, h2}
  Locations = {l1}
  Aliases = {g1, g2, g3, g4}
  Wanted = {g2}
  MaxRequests = 3
  Generated <- MCGenerated
  Keys = {k1, k2}
  MaxCounters = 3
  MaxNumber = 4
  MaxRows = 4
  MaxFresh = 1
INVARIANTS NumbersArePermanent AddsKeepLimit OnlyContestedAreWithdrawn
PROPERTIES IssuedStay
CHECK_DEADLOCK FALSE
SYMMETRY Symmetry
