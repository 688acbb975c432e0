\* One window; two undo states of two strokes, and one matcher.
SPECIFICATION OverlaySpec
CONSTANTS
  WindowSeq = {1}
  NoWindow = NoWindow
  Null = Null
  UndoCap = 2
  MaxStroke = 2
  MaxMove = 1
  MaxMatch = 1
  DeviceTypes = FALSE
INVARIANTS
  OverlayTypeOK
  IdleModelEmpty
  UndoStackTrue
PROPERTY InkNeedsPress
