SPECIFICATION Spec
CONSTANTS
  Messages = {1, 2}
  Partial = {2}
  Ids = {1, 2, 3}
  MinCount <- CountMin
  MaxCount <- CountMax
  QueueCapacity = 1
  Outputs = {"file", "other"}
  Capacity = 1
  BatchSize = 1
  MaxLines = 3
  StreakCount = 2
  MaxAdded = 1
INVARIANTS TypeOK StagesStopInOrder LossHasCause BatchReachesFile LinesOnce WorkersAccounted
CHECK_DEADLOCK FALSE
