CONSTANTS
  Proc = {p1, p2, p3}
  Initproc = p1
  Idle = idle
  NLevel = 2
  max_time_slice <- MCTimeSlice
SPECIFICATION FairSpec
INVARIANTS
  RunQueueConsistent
  SliceBounded
  TimerOwnerWaits
PROPERTIES
  FirstQueueRuns
