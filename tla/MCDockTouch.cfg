SPECIFICATION TouchSpec
CONSTANTS
  Window = {}
  Desktop = desktop
  Pid = {p1}
  PidOf <- OnePid
  Colour = {black}
  InitialColour = black
  Region = {}
  NoRegion = none
  Scroll = {0}
  Barrel = {}
  EraserTip = {FALSE}
  Chrome = {c1}
  NoChrome = nochrome
  MaxStroke = 1
  Finger = {f1, f2}
PROPERTY
  DockDragNeverInks
