SPECIFICATION DockSpec
CONSTANTS
  Colour = {black}
  FirstColour = black
  BootColour = red
  Geometry = {}
  NoGeometry = nowhere
  ClearId = clear
  Button = {}
  NoRetry = noretry
  Rivals = FALSE
  Unplugs = FALSE
  MaxEpoch = 2
  MaxRetry = 1
  MaxSent = 3
INVARIANT RetryOfThisIntent
