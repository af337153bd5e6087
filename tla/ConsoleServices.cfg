SPECIFICATION FairSpec
CONSTANTS
  MaxBatch = 3
  MaxItem = 3
  Limit = 2
  MaxSay = 4
  MaxDisable = 2
  Listener = {l1, l2}
  StreamDepth = 1
  MaxAudio = 4
  MaxListen = 3
  User = {u1, u2}
  MaxChild = 3
  Plan <- MCPlan
  MaxCommand = 2
  Job = {j1, j2}
INVARIANTS CancelReaches SilencedStays NewestKept OneReceiver AllOrNothing
           CommandsApart NoOrphan
PROPERTIES CancelSticks ListenersEnd LockIsFreed 
CHECK_DEADLOCK FALSE
