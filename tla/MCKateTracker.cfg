SPECIFICATION KateSpec
CONSTANTS
  Window = {w1, w2}
  Pid = {p1}
  PidOf <- OnePid
  Geometry = {g1}
  None = none
  Offset = {0, 1}
  TopOffset = {0}
  MaxRetry = 1
  Restless = {w1}
  MaxSent = 1
  MaxUnnamed = 1
INVARIANTS
  KateTypeOK
  RegionAsTracked
  InkStaysOnText
PROPERTY
  EventuallyFollows
