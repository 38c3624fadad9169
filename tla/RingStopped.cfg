\* One consumer may be stopped while the other one sleeps.
SPECIFICATION Spec
CONSTANTS
  Producers = {p1}
  Consumers = {c1, c2}
  Stopped = {c1}
  Values = {p1}
  Feed <- OwnValue
  NoValue = NoValue
  Cap = 2
  MaxItems = 2
INVARIANTS
  WaitingMeansEmpty
CHECK_DEADLOCK FALSE
