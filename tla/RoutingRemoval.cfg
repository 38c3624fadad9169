\* Shutdown and scaler remove instances at the same time; nothing is routed.
SPECIFICATION FairSpec
CONSTANTS
  Routers = {r1}
  k1 = k1
  k2 = k2
  Keys = {k1, k2}
  Single = {k2}
  HashOf <- MCHashOf
  MinInstances = 2
  MaxInstances = 4
  MaxId = 2
  RetryLimit = 3
  MaxRouted = 0
  MaxVer = 9
PROPERTY
  RemovalEnds
CHECK_DEADLOCK FALSE
