SPECIFICATION Spec
CONSTANTS
  h1 = h1 h2 = h2 s1 = s1 s2 = s2 d1 = d1
  NoSecret = NoSecret Merchants = Merchants
  Handlers = {h1, h2}
  Servers = {s1, s2}
  Dfsps = {d1}
  MaxSecrets = 2
  MaxNumber = 3
  MaxCalls = 2
  MaxItems = 2
INVARIANTS ShownOpens StoredSecretOpens
PROPERTIES HandsOutNext
CHECK_DEADLOCK FALSE
CONSTRAINTS OneSide OneRenaming
SYMMETRY Symmetry
