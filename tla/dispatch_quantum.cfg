SPECIFICATION Spec
CONSTANTS
  t1 = t1
  t2 = t2
  NoThread = NoThread
  Thread <- TwoThreads
  HasQuantum = TRUE
  MaxKills = 0
  MaxInFlight = 2
INVARIANT EvictedByOwnQuantum
