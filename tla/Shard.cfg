\* Two processors, three messages and a key channel with room for one, so
\* that the shard may jam; a processor and the shard may be stopped.
SPECIFICATION FairSpec
CONSTANTS
  Pushers = {p1, p2}
  StoppedPushers = {p1}
  StopShard = TRUE
  Keys = {k1, k2, k3}
  Traffic <- Mixed
  p1 = p1
  k1 = k1
  k2 = k2
  k3 = k3
  MaxSeq = 1
  KeyQueueCap = 1
  Deadline = 0
  MaxTime = 2
  MaxArrivals = 3
  NoOne = NoOne
  Assembler = Assembler
INVARIANTS KeyAnnouncedOnce WaitingCoversQueue
PROPERTIES ImplementsReassembly BucketIsHanded
\* All goroutines may have been told to stop, or the shard is jammed.
CHECK_DEADLOCK FALSE
