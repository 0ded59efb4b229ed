SPECIFICATION LibrarySpec
CONSTANTS
  t1 = t1
  t2 = t2
  t3 = t3
  tm1 = tm1
  tm2 = tm2
  Task = {t1, t2}
  HZ = 2
  U = 4
  Secs = {0, 1}
  Usecs = {0, 4}
  Clocks = {1, 2}
  MaxTime = 3
  MaxIn = 1
  Bufferings = {"full", "line", "none"}
  BUFSIZ = 2
  Char = {1, 2, 3}
  NL = 1
  Texts <- Files
  MaxText = 4
  MaxCalls = 7
  Fails = TRUE
INVARIANTS TimerRight CalendarRight 
PROPERTIES AlarmRight
SYMMETRY Symmetry
CHECK_DEADLOCK FALSE
