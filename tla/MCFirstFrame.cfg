SPECIFICATION Spec
CONSTANTS
  Window = {w1}
  Desktop = desktop
  Pid = {p1}
  PidOf <- OnePid
  Colour = {black}
  InitialColour = black
  Region = {r1}
  NoRegion = none
  Scroll = {0, 1}
  Barrel = {}
  EraserTip = {FALSE}
  Chrome = {}
  MaxStroke = 1
PROPERTY
  FirstFrameCorrect
