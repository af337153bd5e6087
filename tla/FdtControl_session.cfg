SPECIFICATION Spec
CONSTANTS
  NoOne = NoOne
  YamlPace = YamlPace
  NoFile = NoFile
  NoStatus = NoStatus
  w1 = w1
  w2 = w2
  Web = {w1, w2}
  DownBand <- MCBand
  UpBand <- MCBand
  Inverting = TRUE
  Dials = {}
  Intervals = {4}
  MaxShift = 0
  MaxPass = 2
  MaxActs = 3
INVARIANT StaysCleared
PROPERTY SessionSpec
SYMMETRY Symmetry
VIEW LiveView
