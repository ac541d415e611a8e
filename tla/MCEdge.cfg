SPECIFICATION Spec
CONSTANTS
  public = public
  i1 = i1
  i2 = i2
  Instances = {i1, i2}
  Addresses = {public}
  Local = {}
  MaxRequests = 3
  MaxFaults = 1
  Configs <- MCConfigs
  Limit = 1
  None = None
CONSTRAINTS
  FirstOnI1
  TwoLookups
  CodesOrCounters
INVARIANTS
  TypeOK
  GeoVerified
  LimitHolds
  OneUse
  KeysExpire
CHECK_DEADLOCK FALSE
