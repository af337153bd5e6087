SPECIFICATION Spec
CONSTANTS
  d1 = d1
  c1 = c1
  Consumer = {d1, c1}
  Decoder = d1
  Depth = 2
  MaxClients = 2
  Kinds = {"usb"}
  MaxBlock = 3
  MaxSession = 2
  Chunks = 1
  MaxRuns = 1
  Scene <- MCScene
INVARIANT StallIsContained
CHECK_DEADLOCK FALSE
