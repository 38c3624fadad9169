\* The key channel is smaller than the number of messages in flight.
SPECIFICATION FairSpec
CONSTANTS
  Pushers = {p1}
  StoppedPushers = {}
  StopShard = FALSE
  Keys = {k1, k2, k3, k4}
  Traffic <- AnyFragment
  p1 = p1
  k1 = k1
  k2 = k2
  k3 = k3
  MaxSeq = 1
  KeyQueueCap = 1
  Deadline = 0
  MaxTime = 1
  MaxArrivals = 4
  NoOne = NoOne
  Assembler = Assembler
PROPERTY ExpiredIsFilled
CHECK_DEADLOCK FALSE
