SPECIFICATION WaitSpec
CONSTANTS
  NoBdev = NoBdev
  NoTask = NoTask
  t1 = t1
  t2 = t2
  f1 = f1
  fd0 = fd0
  t3 = t3
  Locker = {t1, t2, t3}
  MaxCnt = 2
INVARIANTS MutexRight
PROPERTIES SleepersGoOn IdleUnmounted
CHECK_DEADLOCK FALSE
