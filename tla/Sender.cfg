SPECIFICATION Spec
CONSTANTS
  MaxLines = 2
  MaxInodes = 2
  QueueCapacity = 1
  Fragments = 1
  Tail_ = 1
  OutboxCapacity = 1
  MaxStarts = 2
INVARIANTS TypeOK MessageIsLine ExitLosesNothing ResumeSkipsNothing
PROPERTIES  LineIsSent
CHECK_DEADLOCK FALSE
