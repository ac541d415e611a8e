CONSTANTS
  s1 = s1
  s2 = s2
  s3 = s3
  u1 = u1
  u2 = u2
  u3 = u3
  u4 = u4
  None = None
  Users = {u1, u2, u3, u4}
  Sessions = {s1, s2, s3}
  Groups <- Duos
  Creator = u1
  Size = 2
SPECIFICATION Spec
SYMMETRY SessionSymmetry
INVARIANTS
  ReadsAreCurrent
  SeatsFit
  LockedMeansFull
  StakesTaken
PROPERTIES
  SeatsFrozen
  PaidOnlyOnce
