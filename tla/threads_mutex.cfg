SPECIFICATION Spec
CONSTANTS
  p1 = p1
  m1 = m1
  m2 = m2
  NoThread = NoThread
  Processes <- OneProcess
  MaxTid = 2
  Mutexes <- TwoMutexes
  MaxPriority = 0
  Algorithm = "FIFO"
INVARIANT MutexExclusive
CHECK_DEADLOCK FALSE
