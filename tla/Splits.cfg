SPECIFICATION Spec
CONSTANTS
  RakePercent = 10
  FeePercent = 50
  RolloverMultiplier = 1
  MaxTotal = 12
  MaxWeight = 6
  MaxKeys = 3
INVARIANTS
  AllocateExact
  AllocateCovered
  AllocateProportional
  WithdrawInParts
  OwnMoneyIsFree
CHECK_DEADLOCK FALSE
