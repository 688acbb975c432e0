SPECIFICATION Spec
CONSTANTS
  Window = {w1, w2}
  Desktop = desktop
  Pid = {p1}
  PidOf <- OnePid
  Colour = {black}
  InitialColour = black
  Region = {r1}
  NoRegion = none
  Scroll = {0, 1}
  Barrel = {b1}
  EraserTip = {FALSE}
  Chrome = {}
  MaxStroke = 1
INVARIANTS
  NoGhostInk
PROPERTY
  EventuallyComposed
