\* Every kind of device; two buttons, two activations, one button event waiting.
SPECIFICATION IsolationSpec
CONSTANTS
  Button = {tip, barrel}
  CountModulus = 4
  NoMotion = NoMotion
  MaxSession = 2
  MaxQueue = 1
INVARIANTS
  IsolationTypeOK
  SeatButtonsTrue
PROPERTIES
  PenKeepsOffCursor
  HeldBySession
