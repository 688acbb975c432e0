SPECIFICATION DockSpec
CONSTANTS
  Colour = {black}
  FirstColour = black
  BootColour = red
  Geometry = {}
  NoGeometry = nowhere
  ClearId = clear
  Button = {}
  NoRetry = noretry
  Rivals = FALSE
  Unplugs = FALSE
  MaxEpoch = 3
  MaxRetry = 1
  MaxSent = 5
INVARIANTS
  DockTypeOK
  PausedAsIntended
  ActiveAsEnabled
PROPERTIES
  EventuallyActive
