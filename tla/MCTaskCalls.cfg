CONSTANTS
  NTask = 3
  PrioLow = 1
  PrioUser = 1
  WaitQueue = {10}
  XWaitQ = 10
  NoIntrQ = {}
  TimeSlice = 1
  SliceMax = 1
  SliceDebt = 1
  Calls = {"fork", "newtask", "alarm", "exec"}
  Faults = {"fork", "exec", "newtask"}
  KillSig = {}
  TrapSig = {14}
  NiceInc = {}
SPECIFICATION LoadSpec
INVARIANTS  SignalsNoticed
CHECK_DEADLOCK FALSE
