SPECIFICATION StorageSpec
CONSTANTS
  hd0 = hd0
  fd0 = fd0
  sd0 = sd0
  sd1 = sd1
  half1 = half1
  half2 = half2
  val1 = val1
  val2 = val2
  name1 = name1
  name2 = name2
  name3 = name3
  Dev = {hd0, fd0}
  Blk = {1, 3}
  Part = {half1, half2}
  Val = {val1, val2}
  NoDev = NoDev
  NrLists = 2
  InitBufs = 1
  MaxBufs = 2
  MaxRef = 2
  MaxErr = 1
  MaxFs = 2
  Bdev = {sd0, sd1}
  NoBdev = NoBdev
  UDelay = 1
  MaxFso = 1
  MaxAcc = 1
INVARIANTS CacheRight DataRight FilesRight  BlocksRight 
PROPERTIES StoreSpec
SYMMETRY Symmetry
VIEW StorageView
CHECK_DEADLOCK FALSE
