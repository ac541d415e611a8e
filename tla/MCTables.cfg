SPECIFICATION Spec
CONSTANTS
  RakePercent = 25
  FeePercent = 50
  RolloverMultiplier = 1
  Users = {u1, u2, u3, u4}
  Verified = {u1, u2, u3, u4}
  Refs = {}
  SuccessNotices = {"succeeded"}
  OtherNotices = {}
  Amounts = {1, 2}
  MinDeposit = 2
  MinWithdrawal = 1
  MaxCustody = 8
  DemoMode = TRUE
  RedisEnabled = FALSE
  None = None
  Opening <- MCOpening
  OpeningDeposit = 2
  MaxDrift = 0
  MaxParties = 1
  MaxPartySize = 2
  Sqlite = FALSE
  TableIds = {t1}
  TeamSizes = {2}
  Wagers = {1}
  MinWager = 1
  MaxWager = 2
SYMMETRY Symmetry
INVARIANTS
  TypeOK
  PoolIsEntitlements
  PartiesAreWhole
  MoneyConserved
  SidesAreFunded
  LockedMeansFull
  CreatorIsSeated
PROPERTIES
  PartySeatsMoveTogether
  HoldingsKept
CHECK_DEADLOCK FALSE
