CONSTANTS
  NTask = 3
  PrioLow = 2
  PrioUser = 1
  WaitQueue = {10, 11}
  XWaitQ = 10
  NoIntrQ = {11}
  TimeSlice = 1
  SliceMax = 1
  SliceDebt = 1
  Calls = {"fork", "wait"}
  Faults = {}
  KillSig = {}
  TrapSig = {}
  NiceInc <- UpAndDown
SPECIFICATION Spec
INVARIANTS TypeOK QueuesAndCounts NoPanic

