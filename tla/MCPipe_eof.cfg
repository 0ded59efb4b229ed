CONSTANTS
  t1 = t1
  t2 = t2
  t3 = t3
  Task = {t1, t2, t3}
  Main = t1
  NoTask = NoTask
  PIPE_BUF = 2
  OPEN_MAX = 2
  Byte = {0}
  MaxCount = 1
  Calls = {"fork", "close", "exit"}
  Interrupts = {}
  Faults = {}
SPECIFICATION LoadSpec
INVARIANTS EofSeen
CHECK_DEADLOCK FALSE
