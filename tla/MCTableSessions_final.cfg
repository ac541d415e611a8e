CONSTANTS
  s1 = s1
  s2 = s2
  s3 = s3
  u1 = u1
  u2 = u2
  u3 = u3
  u4 = u4
  None = None
  Users = {u1, u2, u3}
  Sessions = {s1, s2}
  Groups <- Duel
  Creator = u1
  Size = 1
SPECIFICATION Spec
SYMMETRY SessionSymmetry
PROPERTY
  TerminalIsFinal
