SPECIFICATION MemSpec
CONSTANTS
  t1 = t1
  t2 = t2
  Size = 4
  Byte = {1, 2}
  MaxCount = 5
  Task = {t1, t2}
  Table = {1, 2}
  Page = {1, 2, 3, 4}
  TableOf <- PageTables
  Heap = {1, 2}
  Stack = {4}
  ArgPages = {4}
  LdrArea = {3}
  LdrFrame <- Loader
  Frame = {1, 2, 3, 4, 5, 6, 7, 8, 9}
  Values = {7}
INVARIANTS KernMemRight UserMemRight MallocRight RingRight
PROPERTIES MemorySpec
SYMMETRY Symmetry
VIEW NamelessState
CHECK_DEADLOCK FALSE
