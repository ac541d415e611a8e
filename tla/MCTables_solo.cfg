SPECIFICATION Spec
CONSTANTS
  RakePercent = 25
  FeePercent = 50
  RolloverMultiplier = 1
  Users = {u1, u2, u3}
  Verified = {u1, u2, u3}
  Refs = {}
  SuccessNotices = {"succeeded"}
  OtherNotices = {}
  Amounts = {2}
  MinDeposit = 99
  MinWithdrawal = 1
  MaxCustody = 6
  DemoMode = FALSE
  RedisEnabled = FALSE
  None = None
  Opening <- MCOpening
  OpeningDeposit = 2
  MaxDrift = 2
  MaxParties = 1
  MaxPartySize = 1
  Sqlite = FALSE
  TableIds = {t1, t2}
  TeamSizes = {1}
  Wagers = {1, 2}
  MinWager = 1
  MaxWager = 2
SYMMETRY Symmetry
CONSTRAINT DriftBounded
INVARIANT MoneyConserved
PROPERTIES
  HoldingsKept
CHECK_DEADLOCK FALSE
