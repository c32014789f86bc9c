-------------------------------- MODULE IdMap --------------------------------
(***************************************************************************)
(* IdMap.hpp: the allocation of ids to strings by concurrent compiler      *)
(* processes.  Every process that runs the pass constructs an IdMap, which *)
(* reads the map file and reserves a chunk of ids in a shared pool file;   *)
(* getId draws ids from that chunk and reserves another when it is used    *)
(* up; saveMap merges the new ids into the map file; the destructor gives  *)
(* the chunk back.  Each access to a file is a read, a truncation (ofstream*)
(* ::trunc) and a write under a flock on a ".lock" file beside it.         *)
(*                                                                         *)
(* A file that is read between truncation and write does not parse, and a  *)
(* file that does not parse reads as the empty map (readMapFromJson iterates*)
(* over object_items() of a null Json), so a truncated file is modelled as *)
(* the empty one.                                                          *)
(***************************************************************************)
EXTENDS Integers, FiniteSets

CONSTANTS
  Procs,        (* compiler processes, each running the pass once          *)
  Names,        (* strings passed to getId                                 *)
  ChunkSize,    (* size_of_each_chunk, DEFAULT_CHUNK_SIZE = 1024           *)
  MaxJobs,      (* processes the build runs at a time (make -j)            *)
  FlockMayFail, (* flock() may fail (no lock support, unwritable directory)*)
  TornWrites,   (* a process may be killed between truncation and write    *)
  NoProc, NoName

NoId == -1

ASSUME IdMapAssumption ==
  /\ ChunkSize \in Nat \ {0}
  /\ MaxJobs \in Nat \ {0}
  /\ FlockMayFail \in BOOLEAN
  /\ TornWrites \in BOOLEAN
  /\ NoProc \notin Procs
  /\ NoName \notin Names

VARIABLES
  mapFile,   (* the map file: [Names -> id or NoId]                        *)
  poolFile,  (* the chunk pool file                                        *)
  holder,    (* who holds the flock of each file                           *)
  pc,        (* where each process is                                      *)
  idMap,     (* id_map: what the process read from the map file            *)
  newIdMap,  (* new_id_map: what it allocated itself                       *)
  curchunk,  (* its chunk                                                  *)
  pool,      (* the local copy of the pool while it is being updated       *)
  want,      (* the string getId is interrupted on by reserveNewChunk      *)
  emitted    (* <<name, id>> the process has put into its object code      *)

vars == <<mapFile, poolFile, holder, pc, idMap, newIdMap, curchunk, pool,
          want, emitted>>

Status == {"NOT_INIT", "OPENED", "BEING_USED", "FULL"}
Chunk  == [id : Nat, status : Status, start : Nat, end : Nat]
Files  == {"map", "pool"}
Locations == {"idle", "reserve", "reserveRead", "reserveWrite", "running",
              "saveRead", "saveWrite", "recycle", "recycleRead",
              "recycleWrite", "done", "crashed"}

NoChunk    == [id |-> 0, status |-> "NOT_INIT", start |-> 0, end |-> 0]
EmptyMap   == [n \in Names |-> NoId]
EmptyPool  == [latest |-> -1, chunk |-> [i \in {} |-> NoChunk]]

IsPool(pl) ==
  /\ pl = [latest |-> pl.latest, chunk |-> pl.chunk]
  /\ pl.latest \in Nat \cup {-1}
  /\ DOMAIN pl.chunk \subseteq Nat
  /\ pl.chunk \in [DOMAIN pl.chunk -> Chunk]

(* The types of all variables.                                             *)
TypeOK ==
  /\ mapFile \in [Names -> Nat \cup {NoId}]
  /\ IsPool(poolFile)
  /\ holder \in [Files -> Procs \cup {NoProc}]
  /\ pc \in [Procs -> Locations]
  /\ idMap \in [Procs -> [Names -> Nat \cup {NoId}]]
  /\ newIdMap \in [Procs -> [Names -> Nat \cup {NoId}]]
  /\ curchunk \in [Procs -> Chunk]
  /\ DOMAIN pool = Procs /\ \A p \in Procs : IsPool(pool[p])
  /\ want \in [Procs -> Names \cup {NoName}]
  /\ emitted \in [Procs -> SUBSET (Names \X Nat)]

Live(p) == pc[p] \notin {"idle", "done", "crashed"}

Init ==
  /\ mapFile = EmptyMap
  /\ poolFile = EmptyPool
  /\ holder = [f \in Files |-> NoProc]
  /\ pc = [p \in Procs |-> "idle"]
  /\ idMap = [p \in Procs |-> EmptyMap]
  /\ newIdMap = [p \in Procs |-> EmptyMap]
  /\ curchunk = [p \in Procs |-> NoChunk]
  /\ pool = [p \in Procs |-> EmptyPool]
  /\ want = [p \in Procs |-> NoName]
  /\ emitted = [p \in Procs |-> {}]

-----------------------------------------------------------------------------
(* Files and their locks.                                                  *)

(* FileLocker(file): blocks until the lock is free; when flock fails the   *)
(* constructor reports it and the caller goes on without the lock.         *)
Flock(p, f) ==
  \/ holder[f] = NoProc /\ holder' = [holder EXCEPT ![f] = p]
  \/ FlockMayFail /\ UNCHANGED holder

(* A process that forgets to destroy its FileLocker.                       *)
UnlockForgotten(p, f) == UNCHANGED holder

(* ~FileLocker(): releases the lock if this process has it.                *)
Unlock(p, f) ==
  holder' = [holder EXCEPT ![f] = IF @ = p THEN NoProc ELSE @]

(* The entries of top win over those of base.                              *)
Overlay(base, top) ==
  [n \in Names |-> IF top[n] # NoId THEN top[n] ELSE base[n]]

(* readMapFromJson(id_map, fname), and a mutant that does not read.        *)
LoadedNot(p) == idMap[p]

Loaded(p) == Overlay(idMap[p], mapFile)

(* The id_map saveMap writes: entries of the file win over everything, and *)
(* insert() does not replace an entry.  Mutants: the file is not read      *)
(* again; new entries are assigned instead of inserted.                    *)
MergedStale(p) == Overlay(newIdMap[p], idMap[p])

MergedByAssignment(p) == Overlay(Loaded(p), newIdMap[p])

Merged(p) == Overlay(newIdMap[p], Loaded(p))

-----------------------------------------------------------------------------
(* The chunk pool.                                                         *)

(* The chunk a process hands back; the mutant does not reopen it.          *)
RetireInUse(chk) ==
  [chk EXCEPT !.status = IF chk.start > chk.end THEN "FULL" ELSE @]

Retire(chk) ==
  [chk EXCEPT !.status = IF chk.start > chk.end THEN "FULL" ELSE "OPENED"]

(* putChunk                                                                *)
Put(pl, chk) ==
  [pl EXCEPT !.chunk = [i \in DOMAIN @ \cup {chk.id} |->
                          IF i = chk.id THEN chk ELSE @[i]]]

OpenedIds(pl) ==
  {i \in DOMAIN pl.chunk : i <= pl.latest /\ pl.chunk[i].status = "OPENED"}

(* The first opened chunk.                                                 *)
OpenedChunk(pl) ==
  LET i == CHOOSE j \in OpenedIds(pl) : \A k \in OpenedIds(pl) : j <= k
  IN [pl.chunk[i] EXCEPT !.id = i, !.status = "BEING_USED"]

(* Chunk i of the id space, and the mutant that takes one id too many.     *)
NewChunkOneMore(i) ==
  [id |-> i, status |-> "BEING_USED",
   start |-> i * ChunkSize, end |-> i * ChunkSize + ChunkSize]

NewChunk(i) ==
  [id |-> i, status |-> "BEING_USED",
   start |-> i * ChunkSize, end |-> i * ChunkSize + ChunkSize - 1]

(* The chunk reserveNewChunk ends up with: an opened one, else a new one at*)
(* the end of the id space.  The mutant does not look for opened chunks.   *)
ClaimNew(pl) == NewChunk(pl.latest + 1)

Claim(pl) ==
  IF OpenedIds(pl) # {} THEN OpenedChunk(pl) ELSE NewChunk(pl.latest + 1)

(* The pool after a process that holds chunk cur gives it up.              *)
GiveBack(pl, cur) == IF cur.status = "NOT_INIT" THEN pl ELSE Put(pl, Retire(cur))

(* The pool after chunk chk has been claimed in it; the mutant forgets to  *)
(* record the claim.                                                       *)
GrantUnrecorded(pl, chk) ==
  [pl EXCEPT !.latest = IF chk.id > @ THEN chk.id ELSE @]

Grant(pl, chk) ==
  Put([pl EXCEPT !.latest = IF chk.id > @ THEN chk.id ELSE @], chk)

-----------------------------------------------------------------------------
(* One compiler process.                                                   *)

(* IdMap(): read the map file under its lock; curchunk starts NOT_INIT.    *)
Construct(p) ==
  /\ pc[p] = "idle"
  /\ Cardinality({q \in Procs : Live(q)}) < MaxJobs
  /\ holder["map"] = NoProc \/ FlockMayFail
  /\ idMap' = [idMap EXCEPT ![p] = Loaded(p)]
  /\ pc' = [pc EXCEPT ![p] = "reserve"]
  /\ UNCHANGED <<mapFile, poolFile, holder, newIdMap, curchunk, pool, want,
                 emitted>>

(* reserveNewChunk(), the lock and the read of the pool file.              *)
ReserveRead(p) ==
  /\ pc[p] = "reserve"
  /\ Flock(p, "pool")
  /\ pool' = [pool EXCEPT ![p] = poolFile]
  /\ pc' = [pc EXCEPT ![p] = "reserveRead"]
  /\ UNCHANGED <<mapFile, poolFile, idMap, newIdMap, curchunk, want, emitted>>

(* reserveNewChunk(), the choice of a chunk and the truncation of the file.*)
ReserveTruncate(p) ==
  /\ pc[p] = "reserveRead"
  /\ LET pl  == GiveBack(pool[p], curchunk[p])
         chk == Claim(pl)
     IN /\ curchunk' = [curchunk EXCEPT ![p] = chk]
        /\ pool' = [pool EXCEPT ![p] = Grant(pl, chk)]
  /\ poolFile' = EmptyPool
  /\ pc' = [pc EXCEPT ![p] = "reserveWrite"]
  /\ UNCHANGED <<mapFile, holder, idMap, newIdMap, want, emitted>>

(* reserveNewChunk(), the write of the pool file and the unlock.           *)
ReserveWrite(p) ==
  /\ pc[p] = "reserveWrite"
  /\ poolFile' = pool[p]
  /\ pool' = [pool EXCEPT ![p] = EmptyPool]
  /\ Unlock(p, "pool")
  /\ pc' = [pc EXCEPT ![p] = "running"]
  /\ UNCHANGED <<mapFile, idMap, newIdMap, curchunk, want, emitted>>

(* getId(n): known from the file, or allocated earlier by this process.    *)
GetKnownId(p, n) ==
  /\ pc[p] = "running" /\ want[p] = NoName
  /\ \/ /\ idMap[p][n] # NoId
        /\ emitted' = [emitted EXCEPT ![p] = @ \cup {<<n, idMap[p][n]>>}]
     \/ /\ idMap[p][n] = NoId /\ newIdMap[p][n] # NoId
        /\ emitted' = [emitted EXCEPT ![p] = @ \cup {<<n, newIdMap[p][n]>>}]
  /\ UNCHANGED <<mapFile, poolFile, holder, pc, idMap, newIdMap, curchunk,
                 pool, want>>

(* count() is 0 in both maps.                                              *)
Unknown(p, n) == idMap[p][n] = NoId /\ newIdMap[p][n] = NoId

(* getId(n) with a used-up chunk: reserve another one first.               *)
GetIdExhausted(p, n) ==
  /\ pc[p] = "running" /\ want[p] = NoName /\ Unknown(p, n)
  /\ curchunk[p].start > curchunk[p].end
  /\ want' = [want EXCEPT ![p] = n]
  /\ pc' = [pc EXCEPT ![p] = "reserve"]
  /\ UNCHANGED <<mapFile, poolFile, holder, idMap, newIdMap, curchunk, pool,
                 emitted>>

(* getId(n): a new id, at once or after the reservation.                   *)
GetNewId(p, n) ==
  /\ pc[p] = "running" /\ Unknown(p, n)
  /\ \/ want[p] = n
     \/ want[p] = NoName /\ curchunk[p].start <= curchunk[p].end
  /\ LET id == curchunk[p].start
     IN /\ newIdMap' = [newIdMap EXCEPT ![p][n] = id]
        /\ emitted' = [emitted EXCEPT ![p] = @ \cup {<<n, id>>}]
  /\ curchunk' = [curchunk EXCEPT ![p].start = @ + 1]
  /\ want' = [want EXCEPT ![p] = NoName]
  /\ UNCHANGED <<mapFile, poolFile, holder, pc, idMap, pool>>

(* runOnModule returns before instrumenting: the file filter rejects the   *)
(* module, so saveMap is not called.                                       *)
SkipModule(p) ==
  /\ pc[p] = "running" /\ want[p] = NoName /\ emitted[p] = {}
  /\ pc' = [pc EXCEPT ![p] = "recycle"]
  /\ UNCHANGED <<mapFile, poolFile, holder, idMap, newIdMap, curchunk, pool,
                 want, emitted>>

(* saveMap(), the lock, the read and the merge.                            *)
SaveRead(p) ==
  /\ pc[p] = "running" /\ want[p] = NoName
  /\ Flock(p, "map")
  /\ idMap' = [idMap EXCEPT ![p] = Merged(p)]
  /\ pc' = [pc EXCEPT ![p] = "saveRead"]
  /\ UNCHANGED <<mapFile, poolFile, newIdMap, curchunk, pool, want, emitted>>

SaveTruncate(p) ==
  /\ pc[p] = "saveRead"
  /\ mapFile' = EmptyMap
  /\ pc' = [pc EXCEPT ![p] = "saveWrite"]
  /\ UNCHANGED <<poolFile, holder, idMap, newIdMap, curchunk, pool, want,
                 emitted>>

SaveWrite(p) ==
  /\ pc[p] = "saveWrite"
  /\ mapFile' = idMap[p]
  /\ Unlock(p, "map")
  /\ pc' = [pc EXCEPT ![p] = "recycle"]
  /\ UNCHANGED <<poolFile, idMap, newIdMap, curchunk, pool, want, emitted>>

(* ~IdMap(): recycleCurChunk().                                            *)
RecycleRead(p) ==
  /\ pc[p] = "recycle"
  /\ Flock(p, "pool")
  /\ pool' = [pool EXCEPT ![p] = poolFile]
  /\ pc' = [pc EXCEPT ![p] = "recycleRead"]
  /\ UNCHANGED <<mapFile, poolFile, idMap, newIdMap, curchunk, want, emitted>>

RecycleTruncate(p) ==
  /\ pc[p] = "recycleRead"
  /\ curchunk' = [curchunk EXCEPT ![p] = Retire(@)]
  /\ pool' = [pool EXCEPT ![p] = Put(@, Retire(curchunk[p]))]
  /\ poolFile' = EmptyPool
  /\ pc' = [pc EXCEPT ![p] = "recycleWrite"]
  /\ UNCHANGED <<mapFile, holder, idMap, newIdMap, want, emitted>>

RecycleWrite(p) ==
  /\ pc[p] = "recycleWrite"
  /\ poolFile' = pool[p]
  /\ pool' = [pool EXCEPT ![p] = EmptyPool]
  /\ Unlock(p, "pool")
  /\ pc' = [pc EXCEPT ![p] = "done"]
  /\ UNCHANGED <<mapFile, idMap, newIdMap, curchunk, want, emitted>>

(* The compiler is killed, or the pass calls exit(-1): no destructor runs, *)
(* the kernel drops the process's flocks, the files stay as they are.      *)
Crash(p) ==
  /\ Live(p)
  /\ TornWrites \/ pc[p] \notin {"reserveWrite", "saveWrite", "recycleWrite"}
  /\ holder' = [f \in Files |-> IF holder[f] = p THEN NoProc ELSE holder[f]]
  /\ pool' = [pool EXCEPT ![p] = EmptyPool]
  /\ pc' = [pc EXCEPT ![p] = "crashed"]
  /\ UNCHANGED <<mapFile, poolFile, idMap, newIdMap, curchunk, want, emitted>>

Step(p) ==
  \/ ReserveRead(p) \/ ReserveTruncate(p) \/ ReserveWrite(p)
  \/ \E n \in Names : GetKnownId(p, n) \/ GetIdExhausted(p, n) \/ GetNewId(p, n)
  \/ SkipModule(p)
  \/ SaveRead(p) \/ SaveTruncate(p) \/ SaveWrite(p)
  \/ RecycleRead(p) \/ RecycleTruncate(p) \/ RecycleWrite(p)

(* The build is over.                                                      *)
Terminated ==
  /\ \A p \in Procs : pc[p] \in {"done", "crashed"}
  /\ UNCHANGED vars

Next ==
  \/ \E p \in Procs : Construct(p) \/ Step(p) \/ Crash(p)
  \/ Terminated

Spec == Init /\ [][Next]_vars

(* The operating system schedules every started process.                   *)
FairSpec == Spec /\ \A p \in Procs : WF_vars(Step(p))

-----------------------------------------------------------------------------
(* Correctness.                                                            *)

Writing(f) == IF f = "pool" THEN {"reserveWrite", "recycleWrite"}
                            ELSE {"saveWrite"}

(* The content of a file as the next holder of its lock will find it: while*)
(* a process is between truncation and write, what it is about to write.   *)
SettledPool ==
  IF \E p \in Procs : pc[p] \in Writing("pool")
  THEN pool[CHOOSE p \in Procs : pc[p] \in Writing("pool")]
  ELSE poolFile

SettledMap ==
  IF \E p \in Procs : pc[p] \in Writing("map")
  THEN idMap[CHOOSE p \in Procs : pc[p] \in Writing("map")]
  ELSE mapFile

(* A process owns its chunk from the reservation to the recycling.         *)
Owns(p) == Live(p) /\ curchunk[p].status = "BEING_USED"

Emissions == UNION {emitted[p] : p \in Procs}

(* An id never denotes two names: not in the object code of any two        *)
(* compilations, finished, running or killed, and not in the map file.     *)
OneNamePerId ==
  \A a, b \in Emissions \cup {<<n, mapFile[n]>> : n \in
                                 {m \in Names : mapFile[m] # NoId}} :
    a[2] = b[2] => a[1] = b[1]

(* Two running processes never draw ids from the same chunk: what the      *)
(* comment "thread safe" on reserveNewChunk claims.                        *)
ChunkExclusive ==
  \A p, q \in Procs :
    Owns(p) /\ Owns(q) /\ p # q => curchunk[p].id # curchunk[q].id

Saved(p) == pc[p] \in {"recycle", "recycleRead", "recycleWrite", "done"}

(* After saveMap every name the process instrumented is in the map file and*)
(* stays there, whatever other processes write or however they die.        *)
SavedNamesStay ==
  \A p \in Procs : Saved(p) =>
    \A a \in emitted[p] : SettledMap[a[1]] # NoId

(* Every id in the object code of a finished compilation is the one the map*)
(* file gives its name: the trace of that object can be decoded.           *)
EmittedResolve ==
  \A p \in Procs : Saved(p) => \A a \in emitted[p] : SettledMap[a[1]] = a[2]

(* A chunk is marked in use only while a process uses it, or because its   *)
(* process was killed: normal ends, skipped modules and exhausted chunks   *)
(* leave no chunk behind.                                                  *)
ChunkLeakOnlyByCrash ==
  \A i \in DOMAIN SettledPool.chunk :
    SettledPool.chunk[i].status = "BEING_USED" =>
      \E p \in Procs : curchunk[p].id = i /\ (Owns(p) \/ pc[p] = "crashed")

(* Half-used chunks are reused before the id space grows: those in use and *)
(* those waiting in the pool are never more than the jobs that ran at once.*)
ChunkWasteBounded ==
  Cardinality({i \in DOMAIN SettledPool.chunk :
                 SettledPool.chunk[i].status = "OPENED"}) + Cardinality({p \in Procs : Owns(p)})
    <= MaxJobs

(* The map files implement the abstract registry: ids are fresh, and the   *)
(* published map only grows, by issued pairs.                              *)
Registry ==
  INSTANCE IdRegistry WITH
    issued <- UNION {{<<n, newIdMap[p][n]>> :
                        n \in {m \in Names : newIdMap[p][m] # NoId}} :
                       p \in Procs},
    published <- SettledMap

RegistrySpec == Registry!Spec

(* No process waits for a lock for ever: every started compilation ends.   *)
Finishes == \A p \in Procs : Live(p) ~> ~Live(p)

=============================================================================
