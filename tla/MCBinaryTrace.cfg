SPECIFICATION Spec
CONSTANTS
  Threads = {t1, t2, t3, t4}
  MaxThreads = 4
  BufferSize = 2
  Excluded = {2}
  MaxEvents <- Calls
  Busy = {}
  MaxExits = 1
  ExitRaces = FALSE
  MallocMayFail = FALSE
  OpenMayFail = FALSE
SYMMETRY Symmetry
INVARIANTS TypeOK SlotPrivate StampsAgree NothingLost ExcludedDiscarded
