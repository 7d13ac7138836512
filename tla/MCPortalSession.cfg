SPECIFICATION Spec
CONSTANTS
  Tabs = {t1, t2}
  Users = {a, b}
  None = None
  Hub = {a}
  Other = t2
  MaxSessions = 2
  MaxIssued = 1
CONSTRAINTS OtherIsIdle TwoRequests LoginsFit OneMishap
ACTION_CONSTRAINT StaysForCall
INVARIANTS
  FlagIsTrue
  ShowsOwn
PROPERTY
  OpenStay
