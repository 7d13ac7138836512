SPECIFICATION Spec
CONSTANTS
  a1 = a1 a2 = a2 a3 = a3 k1 = k1 k2 = k2 c1 = c1 c2 = c2 c3 = c3 m1 = m1 m2 = m2
  acme = acme acme2 = acme2 zeta = zeta lei1 = lei1 fspA = fspA fspB = fspB
  NoAlias = NoAlias NoLei = NoLei NoCounter = NoCounter
  Attempts = {a1, a2, a3}
  Keys = {k1, k2}
  Counters <- MCCounters
  MerchantOf <- MCMerchantOf
  Aliases = {acme, acme2, zeta}
  ParticipantAliases = {acme2, zeta}
  Leis = {lei1}
  Fsps = {fspA, fspB}
  Batches <- MCBatches
  BodyCapacity = 2
SYMMETRY Interchangeable
INVARIANT AnsweredRowsExist
PROPERTIES AliasesStable LeiKeptBySerialCommits KeepsPromise
CHECK_DEADLOCK FALSE
