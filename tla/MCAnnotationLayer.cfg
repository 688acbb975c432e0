SPECIFICATION Spec
CONSTANTS
  Window = {w1}
  Desktop = desktop
  Pid = {p1}
  PidOf <- OnePid
  Colour = {black}
  InitialColour = black
  Region = {r1}
  NoRegion = none
  Scroll = {0, 1}
  Barrel = {}
  EraserTip = {FALSE, TRUE}
  Chrome = {}
  MaxStroke = 2
INVARIANTS
  TypeOK
  CurrentStrokeLive
  NoDanglingWindow
  NoGhostInk
  FollowFrameStable
  RecomposeOwed
  ShownNotDirty
  PauseSealsStroke
PROPERTY
  ImplementsWhiteboard
