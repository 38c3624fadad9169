\* One session; every mixture of faults, and an original sender that may be empty.
SPECIFICATION FairSpec
CONSTANTS
  MaxConsecutiveResends = 3
INVARIANTS TypeOK SequenceInStep ResultIsTrue
PROPERTIES BothEnd
CHECK_DEADLOCK FALSE
