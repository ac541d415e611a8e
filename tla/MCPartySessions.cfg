CONSTANTS
  RakePercent = 0
  FeePercent = 20
  RolloverMultiplier = 1
  s1 = s1
  s2 = s2
  s3 = s3
  u1 = u1
  u2 = u2
  None = None
  Order <- MCOrder
  Leader = u1
  Sessions = {s1, s2}
  Amounts = {1}
  Wager = 1
  MaxMoney = 4
  Rich = 2
SPECIFICATION Spec
CONSTRAINT Followed
SYMMETRY SessionSymmetry
INVARIANTS
  TypeOK
  PoolAddsUp
  MoneyAddsUp
  NoStandstill
