SPECIFICATION PenSpec
CONSTANTS
  Window = {}
  Desktop = desktop
  Pid = {p1}
  PidOf <- OnePid
  Colour = {black}
  InitialColour = black
  Region = {}
  NoRegion = none
  Scroll = {0}
  Barrel = {b1}
  EraserTip = {FALSE}
  Chrome = {c1, c2}
  NoChrome = nochrome
  MaxStroke = 1
INVARIANTS
  PenTypeOK
  StrokeTracksTip
  EraseTracksBarrel
PROPERTIES
  DockContactNoInk
  ActivatedWhereItBegan
