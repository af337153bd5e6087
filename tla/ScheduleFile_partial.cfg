SPECIFICATION Spec
CONSTANTS
  Web = {w1, w2}
  Reader = {r1}
  Inode = {i1, i2, i3, i4}
  None = none
  Base = {b1}
  Plan = {s1}
  TestId = {t1, t2}
  MaxRuns = 0
  MaxCrash = 0
INVARIANT NeverPartial
