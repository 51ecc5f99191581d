SPECIFICATION Spec
CONSTANTS
  p1 = p1
  m1 = m1
  m2 = m2
  NoThread = NoThread
  Processes <- OneProcess
  MaxTid = 2
  Mutexes <- TwoMutexes
  MaxPriority = 0
  Algorithm = "CMN"
INVARIANTS TypeOK OneHome MutexAccounting JoinedLives ProcessLives
           ExecNotDangling KilledOnlyExits IoCounted
SYMMETRY MutexSymmetry
CONSTRAINT NotStale
CHECK_DEADLOCK FALSE
