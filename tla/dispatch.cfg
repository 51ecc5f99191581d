SPECIFICATION FairSpec
CONSTANTS
  t1 = t1
  t2 = t2
  NoThread = NoThread
  Thread <- TwoThreads
  HasQuantum = TRUE
  MaxKills = 2
  MaxInFlight = 2
INVARIANTS TypeOK BinarySemaphores CpuRunsExec TimerTracksExec ReadyCounted
           KillJustified NoLostPreemption
PROPERTY RoundRobin
