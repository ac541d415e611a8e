SPECIFICATION WalletSpec
CONSTANTS
  RakePercent = 25
  FeePercent = 50
  RolloverMultiplier = 1
  Users = {u1, u2}
  Verified = {u1, u2}
  Refs = {r1}
  SuccessNotices = {"succeeded", "paid"}
  OtherNotices = {"failed"}
  Amounts = {1, 2}
  MinDeposit = 2
  MinWithdrawal = 1
  MaxCustody = 6
  DemoMode = FALSE
  RedisEnabled = TRUE
  MaxBalance = 4
  MaxDrift = 2
  None = None
  Opening <- MCOpening
SYMMETRY Symmetry
CONSTRAINT Bounded
INVARIANT BooksBalance
CHECK_DEADLOCK FALSE
