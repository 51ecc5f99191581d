SPECIFICATION Spec
CONSTANTS
  t1 = t1
  t2 = t2
  t3 = t3
  NoThread = NoThread
  Thread <- ThreeThreads
  MaxPriority = 3
INVARIANTS TypeOK LostOnlyByRace
SYMMETRY ThreadSymmetry
CHECK_DEADLOCK FALSE
