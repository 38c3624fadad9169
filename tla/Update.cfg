SPECIFICATION Spec
CONSTANTS
  Hosts = {h1, h2}
  Commands = {c1, c2}
  Explicit = {c2}
  MaxUpdates = 1
  MaxEvents = 2
INVARIANTS TypeOK SomeoneListens OrphanHasCause FiprInTime KeysAreInForce EditsAreKept
PROPERTIES UpdateEnds StopIsHonoured
CHECK_DEADLOCK FALSE
