SPECIFICATION FairSpec
CONSTANTS
  NoProcess = NoProcess
  NoPid = NoPid
  MemorySize = 2
  Fixed <- Two
  Schemes <- Dynamic
  Fits <- First
  Sizes <- OneOrTwo
  MaxProcesses = 3
  MaxTid = 2
INVARIANTS TypeOK SlotIsPid TablesAgree ThreadsCounted NewCounted StallExplained
PROPERTY Admitted
CHECK_DEADLOCK FALSE
