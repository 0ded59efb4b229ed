SPECIFICATION WaitSpec
CONSTANTS
  NoPtyTask = NoPtyTask
  t1 = t1
  t2 = t2
  t3 = t3
  s1 = s1
  s2 = s2
  f1 = f1
  f2 = f2
  PtyTask = {t1, t2, t3}
  InMax = 2
  OutMax = 1
  CanonMax = 1
  MaxReq = 2
  MayFail = TRUE
  Task = {s1, s2}
  Item = {1, 2}
  maxcnt = 2
  MaxPut = 1
  Poller = {t1, t2, t3}
  NoPoller = NoPoller
  Obj = {f1, f2}
  Event = {"R"}
  MaxFds = 2
  MayErr = TRUE
  Caller = {s1, s2}
  None = None
  BUF_SIZE = 2
  MaxOut = 4
  MaxIn = 3
  MaxCount = 3
  Faults = TRUE
  OpenWhileClosing = FALSE
INVARIANTS PollRight PtyRight QueueRight SerialRight
SYMMETRY Symmetry
CHECK_DEADLOCK FALSE
