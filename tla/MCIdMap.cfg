SPECIFICATION MCSpec
CONSTANTS
  Procs = {p1, p2, p3}
  Names = {n1, n2}
  ChunkSize = 2
  MaxJobs = 2
  FlockMayFail = FALSE
  TornWrites = FALSE
  NoProc = NoProc
  NoName = NoName
SYMMETRY Symmetry
INVARIANTS ChunkExclusive OneNamePerId SavedNamesStay
  ChunkLeakOnlyByCrash ChunkWasteBounded LostToRival
PROPERTY RegistrySpec
