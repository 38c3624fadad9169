SPECIFICATION OutputSpec
CONSTANTS
  Messages = {1, 2}
  Outputs = {"file"}
  Capacity = 1
  BatchSize = 2
  MaxLines = 2
INVARIANT StopsOnFailure
CHECK_DEADLOCK FALSE
