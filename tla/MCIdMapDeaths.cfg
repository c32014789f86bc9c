SPECIFICATION MCFair
CONSTANTS
  Procs = {p1, p2}
  Names = {n1, n2}
  ChunkSize = 1
  MaxJobs = 2
  FlockMayFail = FALSE
  TornWrites = TRUE
  NoProc = NoProc
  NoName = NoName
PROPERTY Finishes
CHECK_DEADLOCK FALSE
