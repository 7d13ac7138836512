SPECIFICATION Spec
CONSTANTS
  t1 = t1
  Tabs = {t1}
  MaxMerchants = 2
  MaxOpened = 2
  MaxCalls = 2
  MaxParts = 2
INVARIANTS TypeOK SubmittedIsComplete StaysWithItsMerchant NothingIsDoubled
CONSTRAINTS OneMishap OneCallLater
CHECK_DEADLOCK FALSE
