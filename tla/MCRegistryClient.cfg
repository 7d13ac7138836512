SPECIFICATION FairClientSpec
CONSTANTS
  p = p q = q k1 = k1 k2 = k2 c1 = c1 c2 = c2 c3 = c3 m1 = m1 m2 = m2
  acme = acme acme2 = acme2 zeta = zeta lei1 = lei1 fspA = fspA
  NoAlias = NoAlias NoLei = NoLei NoCounter = NoCounter
  Calls = {p, q}
  MaxTries = 3
  MaxLosses = 1
  Attempts <- MCAttempts
  Keys = {k1, k2}
  KeyOf <- MCKeyOf
  Counters <- MCCounters
  MerchantOf <- MCMerchantOf
  Aliases = {acme, acme2, zeta}
  ParticipantAliases = {zeta}
  Leis = {lei1}
  Fsps = {fspA}
  Batches <- MCBatches
  BodyCapacity = 2
INVARIANTS SuccessIsRegistered RetriesAgree NeverConflictsWithItself
PROPERTIES LossIsMasked
CHECK_DEADLOCK FALSE
