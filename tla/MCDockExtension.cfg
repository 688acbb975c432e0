SPECIFICATION DockSpec
CONSTANTS
  Colour = {black, white}
  FirstColour = black
  BootColour = red
  Geometry = {g1}
  NoGeometry = nowhere
  ClearId = clear
  Button = {white}
  NoRetry = noretry
  Rivals = TRUE
  Unplugs = TRUE
  MaxEpoch = 2
  MaxRetry = 0
  MaxSent = 2
INVARIANTS
  RegionsAsShown
  ColourAsArmed
