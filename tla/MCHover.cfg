\* As the passing run.
SPECIFICATION OverlaySpec
CONSTANTS
  WindowSeq = {1}
  NoWindow = NoWindow
  Null = Null
  UndoCap = 2
  MaxStroke = 2
  MaxMove = 1
  MaxMatch = 1
  DeviceTypes = FALSE
PROPERTY HoverInksNothing
