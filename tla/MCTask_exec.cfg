CONSTANTS
  NTask = 2
  PrioLow = 1
  PrioUser = 1
  WaitQueue = {10, 11}
  XWaitQ = 10
  NoIntrQ = {}
  TimeSlice = 1
  SliceMax = 1
  SliceDebt = 1
  Calls = {"fork", "newtask", "alarm", "exec"}
  Faults = {"fork", "exec", "newtask"}
  KillSig = {9, 10, 12}
  TrapSig = {10, 14}
  NiceInc = {}
SPECIFICATION Spec
INVARIANTS  NoSleepOnSignal
CHECK_DEADLOCK FALSE
