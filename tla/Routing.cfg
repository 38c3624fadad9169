\* Two instances and two routers; shutdown and scaler work at the same time.
SPECIFICATION Spec
CONSTANTS
  Routers = {r1, r2}
  k1 = k1
  k2 = k2
  Keys = {k1, k2}
  Single = {k2}
  HashOf <- MCHashOf
  MinInstances = 2
  MaxInstances = 4
  MaxId = 2
  RetryLimit = 3
  MaxRouted = 2
  MaxVer = 2
INVARIANTS InstancesAccounted StrandedHasCause SplitHasCause
PROPERTIES FailureHasCause
SYMMETRY Symmetry
CHECK_DEADLOCK FALSE
