CONSTANTS
  NTask = 3
  PrioLow = 1
  PrioUser = 1
  WaitQueue = {10}
  XWaitQ = 10
  NoIntrQ = {}
  TimeSlice = 1
  SliceMax = 1
  SliceDebt = 1
  Calls = {"fork", "wait", "pause"}
  Faults = {}
  KillSig = {9}
  TrapSig = {9}
  NiceInc = {}
SPECIFICATION FairSpec
PROPERTIES ReadyRuns KillEnds
CHECK_DEADLOCK FALSE
