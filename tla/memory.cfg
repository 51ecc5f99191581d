SPECIFICATION Spec
CONSTANTS
  NoProcess = NoProcess
  Null = Null
  MemorySize = 6
  Fixed <- Three
  Schemes <- AllSchemes
  Fits <- AllFits
  Sizes <- SomeSizes
  MaxProcesses = 3
  MaxTid = 2
  Register <- PcAxBx
  ByteValues = 2
  RegisterBytes = 2
  MaxCommands = 4
  Program <- Programs
INVARIANTS TypeOK Tiling Owned Coalesced InterruptAddressed CallDelivered Unanswered
PROPERTY Implements
CHECK_DEADLOCK FALSE
