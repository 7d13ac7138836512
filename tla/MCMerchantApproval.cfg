SPECIFICATION AloneSpec
CONSTANTS
  m1 = m1 m2 = m2 ann = ann bob = bob h1 = h1 h2 = h2
  NoUser = NoUser
  Merchants = {m1, m2}
  Counters = {1, 2, 3}
  MerchantOf <- TwoMerchants
  Users = {ann, bob}
  Handlers = {h1, h2}
  Faults = {"query", "crash"}
SYMMETRY Interchangeable
INVARIANT RegistryFirst
PROPERTIES DecidedByAnother RejectedIsFinal KeepsLifecycle
CHECK_DEADLOCK FALSE
