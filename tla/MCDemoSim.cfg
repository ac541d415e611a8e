CONSTANTS
  t1 = t1
  t2 = t2
  TableIds = {t1, t2}
  Seeded = {t1}
  Humans = {u1, u2}
  TeamSize <- MCTeamSize
  BotBalance = 1
  Reserve = 1
  MaxRestarts = 1
  MaxCancels = 1
  None = None
SPECIFICATION Spec
INVARIANTS
  TypeOK
PROPERTIES
  PlaysOut
  LifeKept
CHECK_DEADLOCK FALSE
