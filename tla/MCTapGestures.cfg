SPECIFICATION TapSpec
CONSTANTS
  Window = {w1}
  Desktop = desktop
  TapMax = 3
  TripleWindow = 7
  QuadWindow = 1
  Horizon = 8
INVARIANTS
  TapTypeOK
  NoDanglingTap
PROPERTIES
  GestureEarned
  FastTapsFire
