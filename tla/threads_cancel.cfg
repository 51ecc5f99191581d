SPECIFICATION Spec
CONSTANTS
  p1 = p1
  m1 = m1
  m2 = m2
  NoThread = NoThread
  Processes <- OneProcess
  MaxTid = 2
  Mutexes <- OneMutex
  MaxPriority = 0
  Algorithm = "FIFO"
INVARIANT CancelContinues
CHECK_DEADLOCK FALSE
