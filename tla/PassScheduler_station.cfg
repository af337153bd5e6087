SPECIFICATION FairSpec
CONSTANTS
  Main = Main
  NoOne = NoOne
  NoHelper = NoHelper
  NoPass = NoPass
  w1 = w1
  w2 = w2
  h1 = h1
  h2 = h2
  h3 = h3
  h4 = h4
  Web = {w1}
  Helper = {h1}
  InitPasses <- MCTwoPasses
  TestIds = {}
  Lead = 1
  TestLength = 1
  Horizon = 3
  Searches <- MCSearches
  MainMayFail = TRUE
PROPERTIES LaunchedOnce StationSpec ShutdownExits PassSettled
