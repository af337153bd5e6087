SPECIFICATION FairSpec
CONSTANTS
  Web = {w1, w2}
  Reader = {r1}
  Inode = {i1, i2, i3, i4}
  None = none
  Base = {}
  Plan = {s1}
  TestId = {t1}
  MaxRuns = 1
  MaxCrash = 1
INVARIANT Kept
PROPERTY ViewFollows
