SPECIFICATION Spec
CONSTANTS
  Main = Main
  NoOne = NoOne
  NoHelper = NoHelper
  NoPass = NoPass
  w1 = w1
  w2 = w2
  h1 = h1
  h2 = h2
  h3 = h3
  h4 = h4
  Web = {w1, w2}
  Helper = {h1, h2}
  InitPasses <- MCInitPasses
  TestIds <- MCTestIds
  Lead = 1
  TestLength = 1
  Horizon = 3
  Searches = {}
  MainMayFail = FALSE
SYMMETRY Symmetry
INVARIANTS HelperTraceable CleanExit
