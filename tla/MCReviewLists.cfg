SPECIFICATION ListsSpec
CONSTANTS
  Merchants = {1, 2, 3}
  Own = {1}
  Waiting = {1, 2}
  Filtered = {1, 2}
  PageSize = 2
  Keys <- MCKeys
  Verdicts = {"approved", "reverted"}
  MaxCalls = 2
  MaxElsewhere = 1
INVARIANTS TypeOK DecidesWhatWasTicked ListsFollowVerdicts
CONSTRAINTS OneOther OneAnswer OneFetch ErrorsAreShown StillSure StillDeciding
CHECK_DEADLOCK FALSE
