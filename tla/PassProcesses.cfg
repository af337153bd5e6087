SPECIFICATION FairSpec
CONSTANTS
  MaxPass = 2
  MaxCrash = 1
  Leftovers = FALSE
INVARIANTS NoStaleStop Traceable Released
PROPERTY Exits
CHECK_DEADLOCK FALSE
