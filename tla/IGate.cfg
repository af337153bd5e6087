SPECIFICATION FairSpec
CONSTANTS
  Gate = {g1, g2}
  None = none
  Key = {k1}
  Settings = {0, 1, 2}
  Depth = 1
  Fresh = 1
  Memory = 2
  Horizon = 4
  MaxEdit = 1
INVARIANTS OnlyLive NoDuplicate 
PROPERTIES GivesUpLock
CHECK_DEADLOCK FALSE
