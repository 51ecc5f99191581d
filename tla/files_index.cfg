SPECIFICATION Spec
CONSTANTS
  BlockCount = 5
  Pointers = 2
  Handler <- Two
  Time <- Noon
  Name <- Names
  None = None
  Sizes <- SomeSizes
  MaxDumps = 2
  MaxRestarts = 1
INVARIANT IndexComplete
CHECK_DEADLOCK FALSE
