SPECIFICATION FairSpec
CONSTANTS
  BlockCount = 5
  Pointers = 2
  Handler <- Two
  Time <- Noon
  Name <- Names
  None = None
  Sizes <- SomeSizes
  MaxDumps = 2
  MaxRestarts = 1
INVARIANTS TypeOK FreeCounted
PROPERTIES WritesOwn Stores
CHECK_DEADLOCK FALSE
