\* Two producers and two consumers, one of which may be stopped.
SPECIFICATION FairSpec
CONSTANTS
  Producers = {p1, p2}
  Consumers = {c1, c2}
  Stopped = {c1}
  Values = {p1, p2}
  Feed <- OwnValue
  NoValue = NoValue
  Cap = 2
  MaxItems = 2
INVARIANTS DepthCovers
PROPERTIES EveryItemIsPopped ImplementsFifo
CHECK_DEADLOCK FALSE
