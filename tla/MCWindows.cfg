SPECIFICATION WindowSpec
CONSTANTS
  NoTask = NoTask
  t1 = t1
  t2 = t2
  Task = {t1, t2}
  Pos = {1, 2}
  Shape = {"arrow", "finger"}
  Outline = {"r1", "r2"}
  MaxPaint = 2
INVARIANTS DeskRight ScreenRight DisplayRight ClippingRight
PROPERTIES DriverAlone
CONSTRAINT NoneLost
VIEW View
SYMMETRY Symmetry
CHECK_DEADLOCK FALSE
