SPECIFICATION FairSpec
CONSTANTS
  d1 = d1
  c1 = c1
  Consumer = {d1, c1}
  Decoder = d1
  Depth = 2
  MaxClients = 2
  Kinds = {"usb"}
  MaxBlock = 3
  MaxSession = 2
  Chunks = 1
  MaxRuns = 2
  Scene <- MCScene
INVARIANTS Continuous OneOwner TruncationTold LossIsTold
PROPERTIES BroadcastSpec StreamsEnd
CHECK_DEADLOCK FALSE
