SPECIFICATION MCSpec
CONSTANTS
  Procs = {p1, p2}
  Names = {n1}
  ChunkSize = 1
  MaxJobs = 2
  FlockMayFail = FALSE
  TornWrites = FALSE
  NoProc = NoProc
  NoName = NoName
INVARIANT EmittedResolve
