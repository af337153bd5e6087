SPECIFICATION Spec
CONSTANTS
  Tasks = 2
  Samples = 4
  Alts <- MCAlts
  MinEl = 150
  Workers = 2
  NoPass = NoPass
INVARIANTS Disjoint DropsJustified
PROPERTY NoneMissed
CHECK_DEADLOCK FALSE
