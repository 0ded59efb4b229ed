SPECIFICATION LoadSpec
CONSTANTS
  t1 = t1
  t2 = t2
  t3 = t3
  Task = {t1, t2, t3}
  Main = t1
  NoTask = NoTask
  PIPE_BUF = 2
  OPEN_MAX = 3
  Byte = {0, 1}
  MaxCount = 3
  Calls = {"dup", "fork", "exit", "close", "setfl"}
  Interrupts = {"signal", "event"}
  Faults = {"fso", "file0", "file1", "tucpy"}
INVARIANTS ObjectRight WaitersRight
PROPERTIES IsStream
CHECK_DEADLOCK FALSE
