SPECIFICATION FairSpec
CONSTANTS
  NoOne = NoOne
  YamlPace = YamlPace
  NoFile = NoFile
  NoStatus = NoStatus
  w1 = w1
  w2 = w2
  Web = {w1, w2}
  DownBand <- MCBand
  UpBand <- MCBand
  Inverting = TRUE
  Dials <- MCDials
  Intervals = {}
  MaxShift = 1
  MaxPass = 1
  MaxActs = 2
PROPERTIES  Answered
