----------------------------- MODULE IdMapProofs -----------------------------
(***************************************************************************)
(* Theorems about IdMap, for any number of compiler processes, names, jobs *)
(* and any chunk size.  The chunk pool: type correctness, and, as long as  *)
(* locks are granted and no process is killed between truncation and write,*)
(* exclusive chunks and unique ids; a chunk is left behind only by a killed*)
(* process, and no more chunks are in use or half used than there were jobs*)
(* at a time.  The map files, on the same condition: saveMap loses no name,*)
(* the files implement the abstract registry of IdRegistry, and the id in a*)
(* finished object differs from the one in the map only because of a       *)
(* compilation that was under way at the same time.                        *)
(***************************************************************************)
EXTENDS MCIdMap, FiniteSetTheorems, WellFoundedInduction, TLAPS

-----------------------------------------------------------------------------
(* Arithmetic of chunks.                                                   *)

(* A non-empty set of naturals has a least element: the scan for an opened *)
(* chunk finds one when there is one.                                      *)
LEMMA NatMinimum ==
  ASSUME NEW T \in SUBSET Nat, T # {}
  PROVE  \E x \in T : \A y \in T : x <= y
<1> DEFINE R == {ss \in Nat \X Nat : ss[1] < ss[2]}
<1>1. IsWellFoundedOn(R, Nat)
  <2>1. R = OpToRel(<, Nat)
    BY DEF OpToRel
  <2> QED BY <2>1, NatLessThanWellFounded
<1> HIDE DEF R
<1>2. PICK x \in T : \A y \in T : ~(<<y, x>> \in R)
  <2> T \subseteq Nat OBVIOUS
  <2> QED BY <1>1, WFMin, Zenon
<1>3. ASSUME NEW y \in T PROVE x <= y
  <2>1. x \in Nat /\ y \in Nat /\ <<y, x>> \notin R
    BY <1>2
  <2>2. ~ (y < x)
    BY <2>1 DEF R
  <2> QED BY <2>1, <2>2
<1> QED BY <1>3

(* The first id of chunk i.                                                *)
Base(i) == i * ChunkSize

(* Chunks of different numbers do not overlap.                             *)
LEMMA BaseFacts ==
  /\ \A i \in Nat : Base(i) \in Nat
  /\ \A i, j \in Nat : i < j => Base(i) + ChunkSize <= Base(j)
<1> USE IdMapAssumption DEF Base
<1>1. \A a, b \in Nat : a * b \in Nat
  OBVIOUS
<1>2. ASSUME NEW i \in Nat, NEW j \in Nat, i < j
      PROVE  i * ChunkSize + ChunkSize <= j * ChunkSize
  <2> DEFINE d == j - (i + 1)
  <2>1. d \in Nat /\ j = (i + 1) + d
    BY <1>2
  <2>2. d * ChunkSize \in Nat
    BY <2>1, <1>1
  <2>3. \A x \in Nat : ((i + 1) + x) * ChunkSize
                          = i * ChunkSize + ChunkSize + x * ChunkSize
    OBVIOUS
  <2>4. i * ChunkSize \in Nat
    BY <1>1
  <2> HIDE DEF d
  <2>5. j * ChunkSize = i * ChunkSize + ChunkSize + d * ChunkSize
    BY <2>1, <2>3
  <2> QED BY <2>2, <2>4, <2>5
<1> QED BY <1>1, <1>2

-----------------------------------------------------------------------------
(* Operations on the pool.                                                 *)

(* NewChunk(i) has ChunkSize ids, from Base(i) on.                         *)
LEMMA NewChunkFacts ==
  ASSUME NEW i \in Nat
  PROVE  /\ NewChunk(i) \in Chunk
         /\ NewChunk(i).id = i
         /\ NewChunk(i).status = "BEING_USED"
         /\ NewChunk(i).start = Base(i)
         /\ NewChunk(i).end = Base(i) + ChunkSize - 1
<1>1. Base(i) \in Nat
  BY BaseFacts
<1>2. NewChunk(i) = [id |-> i, status |-> "BEING_USED", start |-> Base(i),
                     end |-> Base(i) + ChunkSize - 1]
  BY DEF NewChunk, Base
<1> QED BY <1>1, <1>2, IdMapAssumption DEF Chunk, Status

(* Retire changes the status of a chunk only.                              *)
LEMMA RetireFacts ==
  ASSUME NEW chk \in Chunk
  PROVE  /\ Retire(chk) \in Chunk
         /\ Retire(chk).id = chk.id
         /\ Retire(chk).start = chk.start
         /\ Retire(chk).end = chk.end
         /\ Retire(chk).status = IF chk.start > chk.end THEN "FULL" ELSE "OPENED"
BY DEF Retire, Chunk, Status

(* Drawing an id moves the start of a chunk only.                          *)
LEMMA DrawFacts ==
  ASSUME NEW chk \in Chunk
  PROVE  /\ [chk EXCEPT !.start = @ + 1] \in Chunk
         /\ [chk EXCEPT !.start = @ + 1].id = chk.id
         /\ [chk EXCEPT !.start = @ + 1].status = chk.status
         /\ [chk EXCEPT !.start = @ + 1].start = chk.start + 1
         /\ [chk EXCEPT !.start = @ + 1].end = chk.end
BY DEF Chunk

(* Put changes one chunk of the pool.                                      *)
LEMMA PutFacts ==
  ASSUME NEW pl, IsPool(pl), NEW chk \in Chunk
  PROVE  /\ IsPool(Put(pl, chk))
         /\ Put(pl, chk).latest = pl.latest
         /\ DOMAIN Put(pl, chk).chunk = DOMAIN pl.chunk \cup {chk.id}
         /\ Put(pl, chk).chunk[chk.id] = chk
         /\ \A i \in DOMAIN pl.chunk :
              i # chk.id => Put(pl, chk).chunk[i] = pl.chunk[i]
<1> DEFINE c == [i \in DOMAIN pl.chunk \cup {chk.id} |->
                   IF i = chk.id THEN chk ELSE pl.chunk[i]]
<1>1. Put(pl, chk) = [latest |-> pl.latest, chunk |-> c]
  BY DEF Put, IsPool
<1>2. /\ DOMAIN c = DOMAIN pl.chunk \cup {chk.id}
      /\ c[chk.id] = chk
      /\ \A i \in DOMAIN pl.chunk : i # chk.id => c[i] = pl.chunk[i]
  OBVIOUS
<1>3. DOMAIN c \subseteq Nat /\ c \in [DOMAIN c -> Chunk]
  BY DEF IsPool, Chunk
<1> HIDE DEF c
<1> QED BY <1>1, <1>2, <1>3 DEF IsPool

(* The opened chunk that is claimed is one of the pool's.                  *)
LEMMA OpenedChunkFacts ==
  ASSUME NEW pl, IsPool(pl), OpenedIds(pl) # {}
  PROVE  \E i \in OpenedIds(pl) :
           /\ OpenedChunk(pl) \in Chunk
           /\ OpenedChunk(pl).id = i
           /\ OpenedChunk(pl).status = "BEING_USED"
           /\ OpenedChunk(pl).start = pl.chunk[i].start
           /\ OpenedChunk(pl).end = pl.chunk[i].end
<1> DEFINE first == CHOOSE j \in OpenedIds(pl) : \A k \in OpenedIds(pl) : j <= k
<1>1. OpenedIds(pl) \in SUBSET Nat
  BY DEF OpenedIds, IsPool
<1>2. first \in OpenedIds(pl)
  BY <1>1, NatMinimum
<1>3. OpenedChunk(pl) = [pl.chunk[first] EXCEPT !.id = first, !.status = "BEING_USED"]
  BY DEF OpenedChunk
<1>4. pl.chunk[first] \in Chunk /\ first \in Nat
  BY <1>1, <1>2 DEF OpenedIds, IsPool
<1> HIDE DEF first
<1> QED BY <1>2, <1>3, <1>4 DEF Chunk, Status

(* Claim, GiveBack and Grant keep the pool well-typed.                     *)
LEMMA PoolTypes ==
  ASSUME NEW pl, IsPool(pl)
  PROVE  /\ Claim(pl) \in Chunk
         /\ \A chk \in Chunk : IsPool(GiveBack(pl, chk)) /\ IsPool(Grant(pl, chk))
<1>1. Claim(pl) \in Chunk
  <2>1. CASE OpenedIds(pl) # {}
    BY <2>1, OpenedChunkFacts DEF Claim
  <2>2. CASE OpenedIds(pl) = {}
    <3>1. pl.latest + 1 \in Nat
      BY DEF IsPool
    <3> QED BY <2>2, <3>1, NewChunkFacts DEF Claim
  <2> QED BY <2>1, <2>2
<1>2. ASSUME NEW chk \in Chunk PROVE IsPool(GiveBack(pl, chk))
  BY RetireFacts, PutFacts DEF GiveBack
<1>3. ASSUME NEW chk \in Chunk PROVE IsPool(Grant(pl, chk))
  <2> DEFINE q == [pl EXCEPT !.latest = IF chk.id > @ THEN chk.id ELSE @]
  <2>1. IsPool(q)
    BY DEF IsPool, Chunk
  <2> HIDE DEF q
  <2>2. IsPool(Put(q, chk))
    BY <2>1, PutFacts
  <2> QED BY <2>2 DEF Grant, q
<1> QED BY <1>1, <1>2, <1>3

-----------------------------------------------------------------------------
(* Type correctness.                                                       *)

(* What a process reads from or writes to the map file is a map.           *)
LEMMA MapTypes ==
  ASSUME NEW base \in [Names -> Nat \cup {NoId}],
         NEW top \in [Names -> Nat \cup {NoId}]
  PROVE  Overlay(base, top) \in [Names -> Nat \cup {NoId}]
BY DEF Overlay

(* Init establishes the types.                                             *)
LEMMA TypeInit == Init => TypeOK
<1> SUFFICES ASSUME Init PROVE TypeOK
  OBVIOUS
<1>1. EmptyMap \in [Names -> Nat \cup {NoId}]
  BY DEF EmptyMap
<1>2. IsPool(EmptyPool)
  BY DEF EmptyPool, IsPool
<1>3. NoChunk \in Chunk
  BY DEF NoChunk, Chunk, Status
<1> QED BY <1>1, <1>2, <1>3 DEF Init, TypeOK, Locations, Files

(* Every step keeps the types.                                             *)
LEMMA TypeStep == TypeOK /\ [Next]_vars => TypeOK'
<1> SUFFICES ASSUME TypeOK, [Next]_vars PROVE TypeOK'
  OBVIOUS
<1> USE DEF TypeOK
<1>1. ASSUME NEW p \in Procs, Construct(p) PROVE TypeOK'
  <2>1. Loaded(p) \in [Names -> Nat \cup {NoId}]
    BY MapTypes DEF Loaded
  <2> QED BY <1>1, <2>1 DEF Construct, Locations
<1>2. ASSUME NEW p \in Procs, ReserveRead(p) PROVE TypeOK'
  BY <1>2 DEF ReserveRead, Flock, Locations, Files
<1>3. ASSUME NEW p \in Procs, ReserveTruncate(p) PROVE TypeOK'
  <2> DEFINE pl == GiveBack(pool[p], curchunk[p])
  <2>1. IsPool(pl)
    BY PoolTypes
  <2>2. Claim(pl) \in Chunk /\ IsPool(Grant(pl, Claim(pl)))
    BY <2>1, PoolTypes
  <2>3. IsPool(EmptyPool)
    BY DEF EmptyPool, IsPool
  <2>4. /\ curchunk' = [curchunk EXCEPT ![p] = Claim(pl)]
        /\ pool' = [pool EXCEPT ![p] = Grant(pl, Claim(pl))]
        /\ poolFile' = EmptyPool
        /\ pc' = [pc EXCEPT ![p] = "reserveWrite"]
        /\ UNCHANGED <<mapFile, holder, idMap, newIdMap, want, emitted>>
    BY <1>3 DEF ReserveTruncate
  <2> HIDE DEF pl
  <2> QED BY <2>2, <2>3, <2>4 DEF Locations
<1>4. ASSUME NEW p \in Procs, ReserveWrite(p) PROVE TypeOK'
  <2>1. IsPool(EmptyPool)
    BY DEF EmptyPool, IsPool
  <2> QED BY <1>4, <2>1 DEF ReserveWrite, Unlock, Locations, Files
<1>5. ASSUME NEW p \in Procs, NEW n \in Names, GetKnownId(p, n) PROVE TypeOK'
  <2>1. PICK id \in Nat : emitted' = [emitted EXCEPT ![p] = @ \cup {<<n, id>>}]
    <3>1. /\ idMap[p][n] \in Nat \cup {NoId}
          /\ newIdMap[p][n] \in Nat \cup {NoId}
      OBVIOUS
    <3> HIDE DEF TypeOK
    <3>2. CASE idMap[p][n] # NoId
      BY <1>5, <3>1, <3>2 DEF GetKnownId
    <3>3. CASE idMap[p][n] = NoId
      BY <1>5, <3>1, <3>3 DEF GetKnownId
    <3> QED BY <3>2, <3>3
  <2>2. emitted' \in [Procs -> SUBSET (Names \X Nat)]
    BY <2>1
  <2> QED BY <1>5, <2>2 DEF GetKnownId
<1>6. ASSUME NEW p \in Procs, NEW n \in Names, GetIdExhausted(p, n) PROVE TypeOK'
  BY <1>6 DEF GetIdExhausted, Locations
<1>7. ASSUME NEW p \in Procs, NEW n \in Names, GetNewId(p, n) PROVE TypeOK'
  <2> DEFINE chk == [curchunk[p] EXCEPT !.start = @ + 1]
  <2>1. curchunk[p].start \in Nat /\ chk \in Chunk
    <3>1. curchunk[p] \in Chunk
      OBVIOUS
    <3> QED BY <3>1, DrawFacts DEF Chunk
  <2>2. curchunk' = [curchunk EXCEPT ![p] = chk]
    BY <1>7 DEF GetNewId
  <2> HIDE DEF chk
  <2>3. curchunk' \in [Procs -> Chunk]
    BY <2>1, <2>2
  <2>4. emitted' \in [Procs -> SUBSET (Names \X Nat)]
    BY <1>7, <2>1 DEF GetNewId
  <2>5. newIdMap' \in [Procs -> [Names -> Nat \cup {NoId}]]
    BY <1>7, <2>1 DEF GetNewId
  <2> QED BY <1>7, <2>3, <2>4, <2>5 DEF GetNewId
<1>8. ASSUME NEW p \in Procs, SkipModule(p) PROVE TypeOK'
  BY <1>8 DEF SkipModule, Locations
<1>9. ASSUME NEW p \in Procs, SaveRead(p) PROVE TypeOK'
  <2>1. Merged(p) \in [Names -> Nat \cup {NoId}]
    BY MapTypes DEF Merged, Loaded
  <2> QED BY <1>9, <2>1 DEF SaveRead, Flock, Locations, Files
<1>10. ASSUME NEW p \in Procs, SaveTruncate(p) PROVE TypeOK'
  BY <1>10 DEF SaveTruncate, EmptyMap, Locations
<1>11. ASSUME NEW p \in Procs, SaveWrite(p) PROVE TypeOK'
  BY <1>11 DEF SaveWrite, Unlock, Locations, Files
<1>12. ASSUME NEW p \in Procs, RecycleRead(p) PROVE TypeOK'
  BY <1>12 DEF RecycleRead, Flock, Locations, Files
<1>13. ASSUME NEW p \in Procs, RecycleTruncate(p) PROVE TypeOK'
  <2>1. Retire(curchunk[p]) \in Chunk
    BY RetireFacts
  <2>2. IsPool(Put(pool[p], Retire(curchunk[p])))
    BY <2>1, PutFacts
  <2>3. IsPool(EmptyPool)
    BY DEF EmptyPool, IsPool
  <2> QED BY <1>13, <2>1, <2>2, <2>3 DEF RecycleTruncate, Locations
<1>14. ASSUME NEW p \in Procs, RecycleWrite(p) PROVE TypeOK'
  <2>1. IsPool(EmptyPool)
    BY DEF EmptyPool, IsPool
  <2> QED BY <1>14, <2>1 DEF RecycleWrite, Unlock, Locations, Files
<1>15. ASSUME NEW p \in Procs, Crash(p) PROVE TypeOK'
  <2>1. IsPool(EmptyPool)
    BY DEF EmptyPool, IsPool
  <2> QED BY <1>15, <2>1 DEF Crash, Locations, Files
<1>16. CASE UNCHANGED vars
  BY <1>16 DEF vars
<1> QED
  BY <1>1, <1>2, <1>3, <1>4, <1>5, <1>6, <1>7, <1>8, <1>9, <1>10, <1>11, <1>12,
     <1>13, <1>14, <1>15, <1>16 DEF Next, Step, Terminated

(* Whatever the number of processes, names and jobs, and whatever fails,   *)
(* the state of IdMap is well-typed: ids and chunk bounds are naturals and *)
(* every process's copy of the pool is a pool.                             *)
THEOREM TypeCorrect == Spec => []TypeOK
<1> QED BY TypeInit, TypeStep, PTL DEF Spec

-----------------------------------------------------------------------------
(* The inductive invariant.  Its parts on chunks are stated for any pool pl,*)
(* chunks cc of the processes and emitted pairs em, so that one lemma says *)
(* what each of the three changes does: giving a chunk back, claiming one, *)
(* drawing an id.                                                          *)

Holds(chk) == chk.status = "BEING_USED"

(* No id of chk that is still to be drawn is in any object code.           *)
Unused(chk, em) ==
  \A q \in Procs : \A a \in em[q] : a[2] < chk.start \/ chk.end < a[2]

InBounds(chk) ==
  Base(chk.id) <= chk.start /\ chk.end = Base(chk.id) + ChunkSize - 1

(* The chunks processes hold are distinct, and what is left of them unused.*)
Held(cc, em) ==
  /\ \A q \in Procs : Holds(cc[q]) => InBounds(cc[q]) /\ Unused(cc[q], em)
  /\ \A q, r \in Procs : q # r /\ Holds(cc[q]) /\ Holds(cc[r]) =>
                           cc[q].id # cc[r].id

(* Every chunk of the pool that is marked in use has its process.          *)
Accounted(pl, cc) ==
  \A i \in DOMAIN pl.chunk : Holds(pl.chunk[i]) =>
    \E q \in Procs : Holds(cc[q]) /\ cc[q].id = i

(* A pool whose opened chunks can be given to any process, and above whose *)
(* latest chunk nothing has been drawn.                                    *)
SoundPool(pl, cc, em) ==
  /\ IsPool(pl)
  /\ Accounted(pl, cc)
  /\ \A i \in DOMAIN pl.chunk :
       i <= pl.latest /\ pl.chunk[i].id = i /\ InBounds(pl.chunk[i])
  /\ \A i \in DOMAIN pl.chunk : pl.chunk[i].status = "OPENED" =>
       /\ pl.chunk[i].start <= pl.chunk[i].end
       /\ Unused(pl.chunk[i], em)
       /\ \A q \in Procs : Holds(cc[q]) => cc[q].id # i
  /\ \A q \in Procs : Holds(cc[q]) => cc[q].id <= pl.latest
  /\ \A q \in Procs : \A a \in em[q] : \A j \in Nat :
       pl.latest < j => a[2] < Base(j)

Chunks == [Procs -> Chunk]
Emits  == [Procs -> SUBSET (Names \X Nat)]

(* A process that hands its chunk back leaves a sound pool, of which it    *)
(* holds nothing.                                                          *)
LEMMA GiveBackSound ==
  ASSUME NEW pl, NEW cc \in Chunks, NEW em \in Emits, NEW p \in Procs,
         SoundPool(pl, cc, em), Held(cc, em), Holds(cc[p])
  PROVE  LET c == [cc EXCEPT ![p] = Retire(cc[p])]
         IN /\ SoundPool(Put(pl, Retire(cc[p])), c, em)
            /\ Held(c, em)
            /\ ~Holds(c[p])
<1> DEFINE chk == Retire(cc[p])
           c == [cc EXCEPT ![p] = chk]
           pl2 == Put(pl, chk)
<1>1. /\ cc[p] \in Chunk
      /\ chk \in Chunk
      /\ chk.id = cc[p].id /\ chk.start = cc[p].start /\ chk.end = cc[p].end
      /\ chk.status = "OPENED" => cc[p].start <= cc[p].end
      /\ ~Holds(chk)
  <2>1. cc[p] \in Chunk
    BY DEF Chunks
  <2>2. cc[p].start \in Nat /\ cc[p].end \in Nat
    BY <2>1 DEF Chunk
  <2> QED BY <2>1, <2>2, RetireFacts DEF Holds
<1>2. /\ c[p] = chk
      /\ \A q \in Procs : q # p => c[q] = cc[q]
  BY DEF Chunks
<1>3. IsPool(pl)
  BY DEF SoundPool
<1>4. /\ IsPool(pl2) /\ pl2.latest = pl.latest
      /\ DOMAIN pl2.chunk = DOMAIN pl.chunk \cup {chk.id}
      /\ pl2.chunk[chk.id] = chk
      /\ \A i \in DOMAIN pl.chunk : i # chk.id => pl2.chunk[i] = pl.chunk[i]
  BY <1>1, <1>3, PutFacts
<1>5. InBounds(chk) /\ Unused(chk, em)
  BY <1>1 DEF Held, InBounds, Unused
<1>6. chk.id <= pl.latest
  BY <1>1 DEF SoundPool
<1> HIDE DEF chk, c, pl2
<1>7. Held(c, em)
  BY <1>1, <1>2 DEF Held
<1>8. SoundPool(pl2, c, em)
  <2>1. ASSUME NEW i \in DOMAIN pl2.chunk
        PROVE  i <= pl2.latest /\ pl2.chunk[i].id = i /\ InBounds(pl2.chunk[i])
    BY <1>4, <1>5, <1>6 DEF SoundPool
  <2>2. ASSUME NEW i \in DOMAIN pl2.chunk, pl2.chunk[i].status = "OPENED"
        PROVE  /\ pl2.chunk[i].start <= pl2.chunk[i].end
               /\ Unused(pl2.chunk[i], em)
               /\ \A q \in Procs : Holds(c[q]) => c[q].id # i
    <3>1. CASE i = chk.id
      <4>1. \A q \in Procs : Holds(c[q]) => c[q].id # i
        BY <3>1, <1>1, <1>2 DEF Held
      <4> QED BY <3>1, <4>1, <2>2, <1>1, <1>4, <1>5
    <3>2. CASE i # chk.id
      BY <3>2, <2>2, <1>1, <1>2, <1>4 DEF SoundPool
    <3> QED BY <3>1, <3>2
  <2>3. \A q \in Procs : Holds(c[q]) => c[q].id <= pl2.latest
    BY <1>1, <1>2, <1>4 DEF SoundPool
  <2>4. \A q \in Procs : \A a \in em[q] : \A j \in Nat :
          pl2.latest < j => a[2] < Base(j)
    BY <1>4 DEF SoundPool
  <2>5. ASSUME NEW i \in DOMAIN pl2.chunk, Holds(pl2.chunk[i])
        PROVE  \E q \in Procs : Holds(c[q]) /\ c[q].id = i
    <3>1. i # chk.id /\ i \in DOMAIN pl.chunk /\ Holds(pl.chunk[i])
      BY <2>5, <1>1, <1>4
    <3>2. PICK q \in Procs : Holds(cc[q]) /\ cc[q].id = i
      BY <3>1 DEF SoundPool, Accounted
    <3> QED BY <3>1, <3>2, <1>1, <1>2
  <2> QED BY <1>4, <2>1, <2>2, <2>3, <2>4, <2>5 DEF SoundPool, Accounted
<1> QED BY <1>1, <1>2, <1>7, <1>8 DEF chk, c, pl2

(* A process that claims a chunk, having none, becomes the only holder of  *)
(* it, and there is an id to draw from it.                                 *)
LEMMA ClaimSound ==
  ASSUME NEW pl, NEW cc \in Chunks, NEW em \in Emits, NEW p \in Procs,
         SoundPool(pl, cc, em), Held(cc, em), ~Holds(cc[p])
  PROVE  LET chk == Claim(pl)
             c == [cc EXCEPT ![p] = chk]
         IN /\ SoundPool(Grant(pl, chk), c, em)
            /\ Held(c, em)
            /\ Holds(chk) /\ chk.start <= chk.end
<1> DEFINE chk == Claim(pl)
           c == [cc EXCEPT ![p] = chk]
           pl1 == [pl EXCEPT !.latest = IF chk.id > @ THEN chk.id ELSE @]
           pl2 == Put(pl1, chk)
<1>1. IsPool(pl) /\ pl.latest \in Nat \cup {-1}
  BY DEF SoundPool, IsPool
<1>2. /\ chk \in Chunk /\ Holds(chk) /\ chk.start <= chk.end
      /\ InBounds(chk) /\ Unused(chk, em)
      /\ \A q \in Procs : Holds(cc[q]) => cc[q].id # chk.id
      /\ chk.id <= pl.latest + 1
  <2>1. CASE OpenedIds(pl) # {}
    <3>1. chk = OpenedChunk(pl)
      BY <2>1 DEF Claim
    <3>2. PICK i \in OpenedIds(pl) :
            /\ chk \in Chunk /\ chk.id = i /\ chk.status = "BEING_USED"
            /\ chk.start = pl.chunk[i].start /\ chk.end = pl.chunk[i].end
      BY <1>1, <2>1, <3>1, OpenedChunkFacts
    <3>3. /\ i \in DOMAIN pl.chunk /\ i \in Nat /\ i <= pl.latest
          /\ pl.chunk[i].status = "OPENED"
      BY <1>1 DEF OpenedIds, IsPool
    <3> HIDE DEF chk
    <3>4. /\ pl.chunk[i].start <= pl.chunk[i].end
          /\ Unused(pl.chunk[i], em)
          /\ \A q \in Procs : Holds(cc[q]) => cc[q].id # i
          /\ pl.chunk[i].id = i /\ InBounds(pl.chunk[i])
      BY <3>3 DEF SoundPool
    <3>5. InBounds(chk) /\ Unused(chk, em)
      BY <3>2, <3>4 DEF InBounds, Unused
    <3> QED BY <1>1, <3>2, <3>3, <3>4, <3>5 DEF Holds
  <2>2. CASE OpenedIds(pl) = {}
    <3> DEFINE n == pl.latest + 1
    <3>1. n \in Nat /\ pl.latest < n
      BY <1>1
    <3>2. chk = NewChunk(n)
      BY <2>2 DEF Claim
    <3> HIDE DEF chk, n
    <3>3. /\ chk \in Chunk /\ chk.id = n /\ chk.status = "BEING_USED"
          /\ chk.start = Base(n) /\ chk.end = Base(n) + ChunkSize - 1
      BY <3>1, <3>2, NewChunkFacts
    <3>4. Base(n) \in Nat /\ ChunkSize \in Nat \ {0}
      BY <3>1, BaseFacts, IdMapAssumption
    <3>5. InBounds(chk) /\ chk.start <= chk.end
      BY <3>3, <3>4 DEF InBounds
    <3>6. Unused(chk, em)
      <4> SUFFICES ASSUME NEW q \in Procs, NEW a \in em[q]
                   PROVE  a[2] < chk.start
        BY DEF Unused
      <4> QED BY <3>1, <3>3 DEF SoundPool
    <3>7. ASSUME NEW q \in Procs, Holds(cc[q]) PROVE cc[q].id # n
      <4>1. cc[q].id <= pl.latest
        BY <3>7 DEF SoundPool
      <4>2. cc[q].id \in Nat
        BY DEF Chunks, Chunk
      <4> QED BY <4>1, <4>2, <3>1, <1>1
    <3>8. n = pl.latest + 1
      BY DEF n
    <3>9. chk.id <= pl.latest + 1
      BY <3>1, <3>3, <3>8
    <3> QED BY <3>3, <3>5, <3>6, <3>7, <3>9 DEF Holds
  <2> QED BY <2>1, <2>2
<1> HIDE DEF chk
<1>3. /\ IsPool(pl1)
      /\ pl1.latest = IF chk.id > pl.latest THEN chk.id ELSE pl.latest
      /\ pl1.chunk = pl.chunk
  BY <1>1, <1>2 DEF IsPool, Chunk
<1>4. chk.id \in Nat
  BY <1>2 DEF Chunk
<1>5. pl1.latest \in Int /\ pl.latest <= pl1.latest /\ chk.id <= pl1.latest
  BY <1>1, <1>3, <1>4
<1> HIDE DEF pl1
<1>6. /\ IsPool(pl2) /\ pl2.latest = pl1.latest
      /\ DOMAIN pl2.chunk = DOMAIN pl.chunk \cup {chk.id}
      /\ pl2.chunk[chk.id] = chk
      /\ \A i \in DOMAIN pl.chunk : i # chk.id => pl2.chunk[i] = pl.chunk[i]
  BY <1>2, <1>3, PutFacts
<1>7. /\ c[p] = chk
      /\ \A q \in Procs : q # p => c[q] = cc[q]
  BY DEF Chunks
<1> HIDE DEF c, pl2
<1>8. Held(c, em)
  BY <1>2, <1>7 DEF Held
<1>9. SoundPool(pl2, c, em)
  <2>1. ASSUME NEW i \in DOMAIN pl2.chunk
        PROVE  i <= pl2.latest /\ pl2.chunk[i].id = i /\ InBounds(pl2.chunk[i])
    <3>1. CASE i = chk.id
      BY <3>1, <1>2, <1>5, <1>6
    <3>2. CASE i # chk.id
      <4>1. i \in DOMAIN pl.chunk /\ i \in Nat /\ i <= pl.latest
        BY <3>2, <1>1, <1>6 DEF SoundPool, IsPool
      <4> QED BY <4>1, <3>2, <1>1, <1>5, <1>6 DEF SoundPool
    <3> QED BY <3>1, <3>2
  <2>2. ASSUME NEW i \in DOMAIN pl2.chunk, pl2.chunk[i].status = "OPENED"
        PROVE  /\ pl2.chunk[i].start <= pl2.chunk[i].end
               /\ Unused(pl2.chunk[i], em)
               /\ \A q \in Procs : Holds(c[q]) => c[q].id # i
    <3>1. i # chk.id
      BY <2>2, <1>2, <1>6 DEF Holds
    <3>2. i \in DOMAIN pl.chunk /\ pl2.chunk[i] = pl.chunk[i]
      BY <3>1, <1>6
    <3> QED BY <3>1, <3>2, <2>2, <1>7 DEF SoundPool
  <2>3. ASSUME NEW q \in Procs, Holds(c[q]) PROVE c[q].id <= pl2.latest
    <3>1. CASE q = p
      BY <3>1, <1>5, <1>6, <1>7
    <3>2. CASE q # p
      <4>1. cc[q].id \in Nat
        BY DEF Chunks, Chunk
      <4>2. cc[q].id <= pl.latest
        BY <2>3, <3>2, <1>7 DEF SoundPool
      <4> QED BY <4>1, <4>2, <3>2, <1>1, <1>5, <1>6, <1>7
    <3> QED BY <3>1, <3>2
  <2>4. ASSUME NEW q \in Procs, NEW a \in em[q], NEW j \in Nat, pl2.latest < j
        PROVE  a[2] < Base(j)
    <3>1. pl.latest < j
      BY <2>4, <1>1, <1>5, <1>6
    <3> QED BY <3>1 DEF SoundPool
  <2>5. ASSUME NEW i \in DOMAIN pl2.chunk, Holds(pl2.chunk[i])
        PROVE  \E q \in Procs : Holds(c[q]) /\ c[q].id = i
    <3>1. CASE i = chk.id
      BY <3>1, <1>2, <1>7
    <3>2. CASE i # chk.id
      <4>1. i \in DOMAIN pl.chunk /\ Holds(pl.chunk[i])
        BY <2>5, <3>2, <1>6
      <4>2. PICK q \in Procs : Holds(cc[q]) /\ cc[q].id = i
        BY <4>1 DEF SoundPool, Accounted
      <4> QED BY <4>2, <1>7
    <3> QED BY <3>1, <3>2
  <2> QED BY <1>6, <2>1, <2>2, <2>3, <2>4, <2>5 DEF SoundPool, Accounted
<1> QED BY <1>2, <1>8, <1>9 DEF chk, c, pl1, pl2, Grant

(* A process that draws the first id left in its chunk leaves every pool   *)
(* and every other process's chunk as they were, and no chunk holds the id *)
(* any longer.  It was in no object code before.                           *)
LEMMA DrawSound ==
  ASSUME NEW cc \in Chunks, NEW em \in Emits, NEW p \in Procs,
         NEW n \in Names, Held(cc, em), Holds(cc[p]),
         cc[p].start <= cc[p].end
  PROVE  LET c == [cc EXCEPT ![p] = [cc[p] EXCEPT !.start = @ + 1]]
             e == [em EXCEPT ![p] = @ \cup {<<n, cc[p].start>>}]
         IN /\ Held(c, e)
            /\ \A pl : SoundPool(pl, cc, em) => SoundPool(pl, c, e)
            /\ \A q \in Procs : \A a \in em[q] : a[2] # cc[p].start
<1> DEFINE id == cc[p].start
           chk == [cc[p] EXCEPT !.start = @ + 1]
           c == [cc EXCEPT ![p] = chk]
           e == [em EXCEPT ![p] = @ \cup {<<n, id>>}]
<1>1. /\ cc[p] \in Chunk /\ chk \in Chunk
      /\ chk.id = cc[p].id /\ chk.status = cc[p].status
      /\ chk.start = id + 1 /\ chk.end = cc[p].end
  <2>1. cc[p] \in Chunk
    BY DEF Chunks
  <2> QED BY <2>1, DrawFacts
<1>2. /\ id \in Nat /\ cc[p].id \in Nat /\ cc[p].end \in Nat
      /\ id <= cc[p].end
      /\ Base(cc[p].id) <= id /\ cc[p].end = Base(cc[p].id) + ChunkSize - 1
      /\ Base(cc[p].id) \in Nat /\ ChunkSize \in Nat
  BY <1>1, BaseFacts, IdMapAssumption DEF Held, InBounds, Chunk
<1>3. /\ c[p] = chk
      /\ \A q \in Procs : q # p => c[q] = cc[q]
      /\ \A q \in Procs : Holds(c[q]) <=> Holds(cc[q])
      /\ \A q \in Procs : c[q].id = cc[q].id
  BY <1>1 DEF Chunks, Holds
<1>4. /\ \A q \in Procs : \A a \in e[q] : a \in em[q] \/ a[2] = id
      /\ \A q \in Procs : \A a \in em[q] : a[2] \in Nat
  BY DEF Emits
<1>5. \A q \in Procs : \A a \in em[q] : a[2] # id
  <2>1. Unused(cc[p], em)
    BY DEF Held
  <2>2. \A q \in Procs : \A a \in em[q] : a[2] < id \/ cc[p].end < a[2]
    BY <2>1 DEF Unused
  <2> HIDE DEF id
  <2> QED BY <2>2, <1>2, <1>4
<1> HIDE DEF id, chk, c, e
(* A chunk of another number does not contain id.                          *)
<1>6. ASSUME NEW d, d \in Chunk, InBounds(d), Unused(d, em), d.id # cc[p].id
      PROVE  Unused(d, e)
  <2>1. /\ d.id \in Nat /\ d.start \in Nat /\ d.end \in Nat
        /\ Base(d.id) <= d.start /\ d.end = Base(d.id) + ChunkSize - 1
        /\ Base(d.id) \in Nat
    BY <1>6, BaseFacts DEF Chunk, InBounds
  <2>2. id < d.start \/ d.end < id
    <3>1. CASE d.id < cc[p].id
      <4>1. Base(d.id) + ChunkSize <= Base(cc[p].id)
        BY <3>1, <1>2, <2>1, BaseFacts
      <4> QED BY <4>1, <1>2, <2>1
    <3>2. CASE cc[p].id < d.id
      <4>1. Base(cc[p].id) + ChunkSize <= Base(d.id)
        BY <3>2, <1>2, <2>1, BaseFacts
      <4> QED BY <4>1, <1>2, <2>1
    <3> QED BY <3>1, <3>2, <1>2, <1>6, <2>1
  <2> QED BY <2>2, <1>4, <1>6 DEF Unused
<1>7. Held(c, e)
  <2>1. ASSUME NEW q \in Procs, Holds(c[q]) PROVE InBounds(c[q]) /\ Unused(c[q], e)
    <3>1. CASE q = p
      <4>1. InBounds(chk)
        BY <1>1, <1>2 DEF InBounds
      <4>2. Unused(chk, e)
        <5> SUFFICES ASSUME NEW r \in Procs, NEW a \in e[r]
                     PROVE  a[2] < chk.start \/ chk.end < a[2]
          BY DEF Unused
        <5>1. CASE a[2] = id
          BY <5>1, <1>1, <1>2
        <5>2. CASE a \in em[r]
          <6>1. a[2] < id \/ cc[p].end < a[2]
            BY <5>2 DEF Held, Unused, id
          <6> QED BY <6>1, <5>2, <1>1, <1>2, <1>4
        <5> QED BY <5>1, <5>2, <1>4
      <4> QED BY <3>1, <4>1, <4>2, <1>3
    <3>2. CASE q # p
      <4>1. c[q] = cc[q] /\ cc[q] \in Chunk /\ Holds(cc[q])
        BY <2>1, <3>2, <1>3 DEF Chunks
      <4>2. InBounds(cc[q]) /\ Unused(cc[q], em) /\ cc[q].id # cc[p].id
        BY <3>2, <4>1 DEF Held
      <4> QED BY <4>1, <4>2, <1>6
    <3> QED BY <3>1, <3>2
  <2> QED BY <2>1, <1>3 DEF Held
<1>8. ASSUME NEW pl, SoundPool(pl, cc, em) PROVE SoundPool(pl, c, e)
  <2>1. IsPool(pl)
    BY <1>8 DEF SoundPool
  <2>2. ASSUME NEW i \in DOMAIN pl.chunk, pl.chunk[i].status = "OPENED"
        PROVE  /\ pl.chunk[i].start <= pl.chunk[i].end
               /\ Unused(pl.chunk[i], e)
               /\ \A q \in Procs : Holds(c[q]) => c[q].id # i
    <3>1. pl.chunk[i] \in Chunk
      BY <2>1 DEF IsPool
    <3>2. /\ pl.chunk[i].start <= pl.chunk[i].end
          /\ Unused(pl.chunk[i], em) /\ InBounds(pl.chunk[i])
          /\ pl.chunk[i].id = i
          /\ \A q \in Procs : Holds(cc[q]) => cc[q].id # i
      BY <1>8, <2>2 DEF SoundPool
    <3>3. Unused(pl.chunk[i], e)
      BY <3>1, <3>2, <1>6
    <3> QED BY <3>2, <3>3, <1>3
  <2>3. \A q \in Procs : Holds(c[q]) => c[q].id <= pl.latest
    BY <1>8, <1>3 DEF SoundPool
  <2>4. ASSUME NEW q \in Procs, NEW a \in e[q], NEW j \in Nat, pl.latest < j
        PROVE  a[2] < Base(j)
    <3>1. CASE a \in em[q]
      BY <3>1, <1>8, <2>4 DEF SoundPool
    <3>2. CASE a[2] = id
      <4>1. cc[p].id <= pl.latest /\ pl.latest \in Int
        BY <1>8, <2>1 DEF SoundPool, IsPool
      <4>2. cc[p].id < j
        BY <4>1, <2>4, <1>2
      <4>3. Base(cc[p].id) + ChunkSize <= Base(j) /\ Base(j) \in Nat
        BY <4>2, <1>2, BaseFacts
      <4> QED BY <3>2, <4>3, <1>2
    <3> QED BY <3>1, <3>2, <1>4
  <2>5. \A i \in DOMAIN pl.chunk :
          i <= pl.latest /\ pl.chunk[i].id = i /\ InBounds(pl.chunk[i])
    BY <1>8 DEF SoundPool
  <2>6. Accounted(pl, c)
    BY <1>3, <1>8 DEF SoundPool, Accounted
  <2> QED BY <2>1, <2>2, <2>3, <2>4, <2>5, <2>6 DEF SoundPool
<1> QED BY <1>5, <1>7, <1>8 DEF id, chk, c, e

Critical == {"reserveRead", "reserveWrite", "recycleRead", "recycleWrite"}

(* Whoever is between the lock and the unlock of the pool has the lock.    *)
LockInv == \A p \in Procs : pc[p] \in Critical => holder["pool"] = p

(* The copy a process has read is what is in the file.                     *)
CopyInv ==
  \A p \in Procs : pc[p] \in {"reserveRead", "recycleRead"} => pool[p] = poolFile

(* The pool file is sound, or will be once the process that is writing it  *)
(* is done.                                                                *)
PoolInv ==
  /\ (\A p \in Procs : pc[p] \notin Writing("pool")) =>
        SoundPool(poolFile, curchunk, emitted)
  /\ \A p \in Procs : pc[p] \in Writing("pool") =>
        SoundPool(pool[p], curchunk, emitted)

(* Where a process is tells whether it holds a chunk, and whether there is *)
(* an id left in it.                                                       *)
PcInv ==
  \A p \in Procs :
    /\ pc[p] = "idle" => curchunk[p].status = "NOT_INIT"
    /\ pc[p] \in {"reserve", "reserveRead"} =>
         curchunk[p].status = "NOT_INIT" \/ Holds(curchunk[p])
    /\ pc[p] \in {"reserveWrite", "running", "saveRead", "saveWrite", "recycle",
                  "recycleRead"} => Holds(curchunk[p])
    /\ pc[p] = "reserveWrite" \/ (pc[p] = "running" /\ want[p] # NoName) =>
         curchunk[p].start <= curchunk[p].end
    /\ pc[p] \in {"recycleWrite", "done"} => ~Holds(curchunk[p])

InObject(n, id) == \E q \in Procs : <<n, id>> \in emitted[q]

(* Every entry of a map is in some object code.                            *)
PairsInv ==
  /\ \A n \in Names : mapFile[n] # NoId => InObject(n, mapFile[n])
  /\ \A p \in Procs : \A n \in Names :
       idMap[p][n] # NoId => InObject(n, idMap[p][n])
  /\ \A p \in Procs : \A n \in Names :
       newIdMap[p][n] # NoId => InObject(n, newIdMap[p][n])

UniqueInv ==
  \A q, r \in Procs : \A a \in emitted[q] : \A b \in emitted[r] :
    a[2] = b[2] => a[1] = b[1]

Inv ==
  /\ TypeOK
  /\ LockInv
  /\ CopyInv
  /\ PoolInv
  /\ Held(curchunk, emitted)
  /\ PcInv
  /\ PairsInv
  /\ UniqueInv

(* Init establishes the invariant.                                         *)
LEMMA InvInit == Init => Inv
<1> SUFFICES ASSUME Init PROVE Inv
  OBVIOUS
<1>1. TypeOK
  BY TypeInit
<1>2. \A p \in Procs : ~Holds(curchunk[p])
  BY DEF Init, NoChunk, Holds
<1>3. IsPool(EmptyPool) /\ DOMAIN EmptyPool.chunk = {}
  BY DEF EmptyPool, IsPool
<1>4. SoundPool(poolFile, curchunk, emitted)
  BY <1>2, <1>3 DEF Init, SoundPool, Accounted
<1>5. Held(curchunk, emitted)
  BY <1>2 DEF Held
<1>6. LockInv /\ CopyInv /\ PcInv /\ UniqueInv /\ PairsInv
  BY DEF Init, LockInv, CopyInv, PcInv, UniqueInv, PairsInv, Critical,
         NoChunk, EmptyMap
<1>7. PoolInv
  BY <1>4 DEF Init, PoolInv, Writing
<1> QED BY <1>1, <1>4, <1>5, <1>6, <1>7 DEF Inv

(* With working locks at most one process is inside the pool's critical    *)
(* section, so a process that has just read the pool file has a sound copy.*)
LEMMA SoundCopy ==
  ASSUME Inv, NEW p \in Procs, pc[p] \in {"reserveRead", "recycleRead"}
  PROVE  /\ SoundPool(pool[p], curchunk, emitted)
         /\ \A q \in Procs : q # p => pc[q] \notin Critical
<1>1. \A q \in Procs : q # p => pc[q] \notin Critical
  BY DEF Inv, LockInv, Critical
<1>2. \A q \in Procs : pc[q] \notin Writing("pool")
  BY <1>1 DEF Writing, Critical
<1> QED BY <1>1, <1>2 DEF Inv, PoolInv, CopyInv

(* The actions outside the pool's critical section that draw no id.        *)
LEMMA QuietStep ==
  ASSUME Inv, ~FlockMayFail, NEW p \in Procs,
         \/ Construct(p)
         \/ \E n \in Names : GetKnownId(p, n) \/ GetIdExhausted(p, n)
         \/ SkipModule(p)
         \/ SaveRead(p) \/ SaveTruncate(p) \/ SaveWrite(p)
         \/ Crash(p) /\ pc[p] \notin Critical
  PROVE  LockInv' /\ CopyInv' /\ PcInv'
<1>1. /\ pc[p] \notin Critical /\ pc'[p] \notin Critical
      /\ \A q \in Procs : q # p => /\ pc'[q] = pc[q] /\ pool'[q] = pool[q]
                                   /\ want'[q] = want[q]
      /\ UNCHANGED <<poolFile, curchunk>>
  BY DEF Inv, TypeOK, Construct, GetKnownId, GetIdExhausted, SkipModule, SaveRead,
         SaveTruncate, SaveWrite, Crash, Critical
<1>2. \A q \in Procs : q # p /\ holder["pool"] = q => holder'["pool"] = q
  BY DEF Inv, TypeOK, Construct, GetKnownId, GetIdExhausted, SkipModule, SaveRead,
         SaveTruncate, SaveWrite, Crash, Flock, Unlock, Files
<1>3. LockInv'
  BY <1>1, <1>2 DEF Inv, LockInv
<1>4. CopyInv'
  BY <1>1 DEF Inv, CopyInv, Critical
<1>5. PcInv'
  <2>1. ASSUME NEW q \in Procs, q # p
        PROVE  /\ pc'[q] = pc[q] /\ curchunk'[q] = curchunk[q]
               /\ want'[q] = want[q]
    BY <1>1, <2>1
  <2>2. curchunk'[p] = curchunk[p]
    BY <1>1
  <2>3. \/ pc'[p] = "reserve" /\ pc[p] \in {"idle", "running"}
        \/ pc'[p] \in {"saveRead", "saveWrite", "recycle"}
           /\ pc[p] \in {"running", "saveRead", "saveWrite"}
        \/ pc'[p] = pc[p] /\ want'[p] = want[p]
        \/ pc'[p] = "crashed"
    BY DEF Inv, TypeOK, Construct, GetKnownId, GetIdExhausted, SkipModule, SaveRead,
           SaveTruncate, SaveWrite, Crash
  <2> QED BY <2>1, <2>2, <2>3 DEF Inv, PcInv, Holds
<1> QED BY <1>3, <1>4, <1>5

(* ... and leave the pool sound.                                           *)
LEMMA QuietSound ==
  ASSUME Inv, NEW p \in Procs, UNCHANGED <<poolFile, curchunk, emitted>>,
         pc[p] \notin Critical, pc'[p] \notin Critical,
         \A q \in Procs : q # p => pc'[q] = pc[q] /\ pool'[q] = pool[q]
  PROVE  PoolInv' /\ Held(curchunk, emitted)' /\ UniqueInv'
<1>1. \A q \in Procs : pc'[q] \in Writing("pool") <=> pc[q] \in Writing("pool")
  BY DEF Writing, Critical
<1>2. \A q \in Procs : pc'[q] \in Writing("pool") => pool'[q] = pool[q]
  BY DEF Writing, Critical
<1>3. PoolInv'
  BY <1>1, <1>2 DEF Inv, PoolInv
<1>4. Held(curchunk, emitted)' /\ UniqueInv'
  BY DEF Inv, UniqueInv
<1> QED BY <1>3, <1>4

(* Locking and reading the pool file.                                      *)
LEMMA ReadStep ==
  ASSUME Inv, ~FlockMayFail, NEW p \in Procs, ReserveRead(p) \/ RecycleRead(p)
  PROVE  /\ LockInv' /\ CopyInv' /\ PcInv' /\ PoolInv'
         /\ Held(curchunk, emitted)' /\ UniqueInv'
<1>1. /\ holder["pool"] = NoProc /\ holder'["pool"] = p
      /\ pool'[p] = poolFile
      /\ \/ pc[p] = "reserve" /\ pc'[p] = "reserveRead"
         \/ pc[p] = "recycle" /\ pc'[p] = "recycleRead"
      /\ \A q \in Procs : q # p => pc'[q] = pc[q] /\ pool'[q] = pool[q]
      /\ UNCHANGED <<poolFile, curchunk, emitted, want>>
  BY DEF Inv, TypeOK, ReserveRead, RecycleRead, Flock, Files
<1>2. \A q \in Procs : pc[q] \notin Critical
  BY <1>1, IdMapAssumption DEF Inv, LockInv
<1>3. LockInv' /\ CopyInv'
  BY <1>1, <1>2 DEF LockInv, CopyInv, Critical
<1>4. PcInv'
  BY <1>1 DEF Inv, PcInv, Holds
<1>5. PoolInv'
  <2>1. \A q \in Procs : pc[q] \notin Writing("pool") /\ pc'[q] \notin Writing("pool")
    BY <1>1, <1>2 DEF Writing, Critical
  <2> QED BY <1>1, <2>1 DEF Inv, PoolInv
<1>6. Held(curchunk, emitted)' /\ UniqueInv'
  BY <1>1 DEF Inv, UniqueInv
<1> QED BY <1>3, <1>4, <1>5, <1>6

(* Changing the copy of the pool and truncating the file.                  *)
LEMMA TruncateStep ==
  ASSUME Inv, NEW p \in Procs, ReserveTruncate(p) \/ RecycleTruncate(p)
  PROVE  /\ LockInv' /\ CopyInv' /\ PcInv' /\ PoolInv'
         /\ Held(curchunk, emitted)' /\ UniqueInv'
<1>1. /\ pc[p] \in {"reserveRead", "recycleRead"}
      /\ pc'[p] \in Writing("pool")
      /\ \A q \in Procs : q # p => /\ pc'[q] = pc[q] /\ pool'[q] = pool[q]
                                   /\ curchunk'[q] = curchunk[q]
      /\ UNCHANGED <<holder, emitted, want>>
  BY DEF Inv, TypeOK, ReserveTruncate, RecycleTruncate, Writing
<1>2. /\ SoundPool(pool[p], curchunk, emitted)
      /\ \A q \in Procs : q # p => pc[q] \notin Critical
  BY <1>1, SoundCopy
<1>3. curchunk \in Chunks /\ emitted \in Emits /\ Held(curchunk, emitted)
  BY DEF Inv, TypeOK, Chunks, Emits
<1>4. /\ SoundPool(pool'[p], curchunk', emitted)
      /\ Held(curchunk', emitted)
      /\ pc'[p] = "reserveWrite" =>
           Holds(curchunk'[p]) /\ curchunk'[p].start <= curchunk'[p].end
      /\ pc'[p] = "recycleWrite" => ~Holds(curchunk'[p])
  <2>1. CASE ReserveTruncate(p)
    <3> DEFINE pl  == GiveBack(pool[p], curchunk[p])
               chk == Claim(pl)
    <3>1. /\ curchunk' = [curchunk EXCEPT ![p] = chk] /\ curchunk'[p] = chk
          /\ pool'[p] = Grant(pl, chk)
      BY <2>1 DEF ReserveTruncate, Inv, TypeOK
    <3>2. PICK cc \in Chunks :
            /\ SoundPool(pl, cc, emitted) /\ Held(cc, emitted) /\ ~Holds(cc[p])
            /\ \A x : [cc EXCEPT ![p] = x] = [curchunk EXCEPT ![p] = x]
      <4>1. CASE Holds(curchunk[p])
        <5> DEFINE cc == [curchunk EXCEPT ![p] = Retire(curchunk[p])]
        <5>1. pl = Put(pool[p], Retire(curchunk[p]))
          BY <4>1 DEF GiveBack, Holds
        <5>2. SoundPool(pl, cc, emitted) /\ Held(cc, emitted) /\ ~Holds(cc[p])
          BY <1>2, <1>3, <4>1, <5>1, GiveBackSound
        <5>3. curchunk[p] \in Chunk
          BY <1>3 DEF Chunks
        <5>4. cc \in Chunks
          BY <1>3, <5>3, RetireFacts DEF Chunks
        <5>5. \A x : [cc EXCEPT ![p] = x] = [curchunk EXCEPT ![p] = x]
          BY <1>3 DEF Chunks
        <5> QED BY <5>2, <5>4, <5>5
      <4>2. CASE ~Holds(curchunk[p])
        <5>1. pc[p] = "reserveRead"
          BY <2>1 DEF ReserveTruncate
        <5>2. curchunk[p].status = "NOT_INIT"
          BY <4>2, <5>1 DEF Inv, PcInv
        <5>3. pl = pool[p]
          BY <5>2 DEF GiveBack
        <5> QED BY <1>2, <1>3, <4>2, <5>3
      <4> QED BY <4>1, <4>2
    <3> HIDE DEF pl
    <3>3. LET c == [cc EXCEPT ![p] = chk]
          IN /\ SoundPool(Grant(pl, chk), c, emitted)
             /\ Held(c, emitted)
             /\ Holds(chk) /\ chk.start <= chk.end
      BY <1>3, <3>2, ClaimSound
    <3> HIDE DEF chk
    <3>4. [cc EXCEPT ![p] = chk] = curchunk'
      BY <3>1, <3>2
    <3>5. SoundPool(pool'[p], curchunk', emitted) /\ Held(curchunk', emitted)
      BY <3>1, <3>3, <3>4
    <3>6. pc'[p] = "reserveWrite"
      BY <2>1 DEF ReserveTruncate, Inv, TypeOK
    <3> QED BY <3>1, <3>3, <3>5, <3>6
  <2>2. CASE RecycleTruncate(p)
    <3>1. /\ curchunk' = [curchunk EXCEPT ![p] = Retire(curchunk[p])]
          /\ pool'[p] = Put(pool[p], Retire(curchunk[p]))
          /\ pc[p] = "recycleRead" /\ pc'[p] = "recycleWrite"
      BY <2>2 DEF RecycleTruncate, Inv, TypeOK
    <3>2. Holds(curchunk[p])
      BY <3>1 DEF Inv, PcInv
    <3>3. LET c == [curchunk EXCEPT ![p] = Retire(curchunk[p])]
          IN SoundPool(Put(pool[p], Retire(curchunk[p])), c, emitted) /\ Held(c, emitted)
      BY <1>2, <1>3, <3>2, GiveBackSound
    <3>4. SoundPool(pool'[p], curchunk', emitted) /\ Held(curchunk', emitted)
      BY <3>1, <3>3
    <3>5. pc'[p] # "reserveWrite"
      BY <3>1
    <3>6. ~Holds(curchunk'[p])
      BY <1>2, <1>3, <3>1, <3>2, GiveBackSound
    <3> QED BY <3>4, <3>5, <3>6
  <2> QED BY <2>1, <2>2
<1>5. LockInv'
  BY <1>1 DEF Inv, LockInv, Critical
<1>6. CopyInv'
  BY <1>1, <1>2 DEF CopyInv, Critical, Writing
<1>7. PoolInv'
  <2>1. \A q \in Procs : q # p => pc'[q] \notin Writing("pool")
    BY <1>1, <1>2 DEF Writing, Critical
  <2> QED BY <1>1, <1>4, <2>1 DEF PoolInv
<1>8. PcInv'
  <2>1. pc'[p] \in {"reserveWrite", "recycleWrite"}
    BY <1>1 DEF Writing
  <2> QED BY <1>1, <1>4, <2>1 DEF Inv, PcInv, Holds
<1>9. Held(curchunk, emitted)' /\ UniqueInv'
  BY <1>1, <1>4 DEF Inv, UniqueInv
<1> QED BY <1>5, <1>6, <1>7, <1>8, <1>9

(* Writing the pool file and unlocking it; being killed inside the critical*)
(* section, but not between truncation and write.                          *)
LEMMA UnlockStep ==
  ASSUME Inv, ~TornWrites, NEW p \in Procs,
         \/ ReserveWrite(p) \/ RecycleWrite(p)
         \/ Crash(p) /\ pc[p] \in Critical
  PROVE  /\ LockInv' /\ CopyInv' /\ PcInv' /\ PoolInv'
         /\ Held(curchunk, emitted)' /\ UniqueInv'
<1>1. /\ pc[p] \in Critical
      /\ \/ pc'[p] = "running" /\ pc[p] = "reserveWrite"
         \/ pc'[p] = "done" /\ pc[p] = "recycleWrite"
         \/ pc'[p] = "crashed"
      /\ \A q \in Procs : q # p => pc'[q] = pc[q]
      /\ UNCHANGED <<curchunk, emitted, want>>
  BY DEF Inv, TypeOK, ReserveWrite, RecycleWrite, Crash, Critical
<1>2. \/ pc[p] \in Writing("pool") /\ poolFile' = pool[p]
      \/ pc[p] \notin Writing("pool") /\ poolFile' = poolFile
  BY DEF ReserveWrite, RecycleWrite, Crash, Writing
<1>3. \A q \in Procs : q # p => pc[q] \notin Critical /\ pc'[q] \notin Critical
  BY <1>1 DEF Inv, LockInv
<1>4. \A q \in Procs : pc'[q] \notin Critical
  BY <1>1, <1>3 DEF Critical
<1>5. LockInv' /\ CopyInv'
  BY <1>4 DEF LockInv, CopyInv, Critical
<1>6. SoundPool(poolFile', curchunk, emitted)
  <2>1. CASE pc[p] \in Writing("pool")
    BY <1>2, <2>1 DEF Inv, PoolInv
  <2>2. CASE pc[p] \notin Writing("pool")
    <3>1. \A q \in Procs : pc[q] \notin Writing("pool")
      BY <1>3, <2>2 DEF Writing, Critical
    <3> QED BY <1>2, <2>2, <3>1 DEF Inv, PoolInv
  <2> QED BY <2>1, <2>2
<1>7. PoolInv'
  <2>1. \A q \in Procs : pc'[q] \notin Writing("pool")
    BY <1>4 DEF Writing, Critical
  <2> QED BY <1>1, <1>6, <2>1 DEF PoolInv
<1>8. PcInv'
  BY <1>1 DEF Inv, PcInv, Holds
<1>9. Held(curchunk, emitted)' /\ UniqueInv'
  BY <1>1 DEF Inv, UniqueInv
<1> QED BY <1>5, <1>7, <1>8, <1>9

(* Putting an id that is known already into more object code changes       *)
(* nothing.                                                                *)
LEMMA KnownSound ==
  ASSUME NEW cc, NEW em, NEW e,
         \A q \in Procs : \A a \in e[q] : \E r \in Procs : a \in em[r]
  PROVE  /\ Held(cc, em) => Held(cc, e)
         /\ \A pl : SoundPool(pl, cc, em) => SoundPool(pl, cc, e)
<1>1. \A chk : Unused(chk, em) => Unused(chk, e)
  BY DEF Unused
<1>2. Held(cc, em) => Held(cc, e)
  BY <1>1 DEF Held
<1>3. ASSUME NEW pl, SoundPool(pl, cc, em) PROVE SoundPool(pl, cc, e)
  <2>1. ASSUME NEW q \in Procs, NEW a \in e[q], NEW j \in Nat, pl.latest < j
        PROVE  a[2] < Base(j)
    BY <1>3, <2>1 DEF SoundPool
  <2> QED BY <1>1, <1>3, <2>1 DEF SoundPool
<1> QED BY <1>2, <1>3

(* getId with a known string.                                              *)
LEMMA KnownStep ==
  ASSUME Inv, NEW p \in Procs, NEW n \in Names, GetKnownId(p, n)
  PROVE  PoolInv' /\ Held(curchunk, emitted)' /\ UniqueInv' /\ PairsInv'
<1>1. PICK id \in Nat : /\ emitted' = [emitted EXCEPT ![p] = @ \cup {<<n, id>>}]
                       /\ InObject(n, id)
  <2>1. /\ idMap[p][n] \in Nat \cup {NoId}
        /\ newIdMap[p][n] \in Nat \cup {NoId}
    BY DEF Inv, TypeOK
  <2>2. CASE idMap[p][n] # NoId
    BY <2>1, <2>2 DEF GetKnownId, Inv, PairsInv
  <2>3. CASE idMap[p][n] = NoId
    BY <2>1, <2>3 DEF GetKnownId, Inv, PairsInv
  <2> QED BY <2>2, <2>3
<1>2. \A q \in Procs : \A a \in emitted'[q] : \E r \in Procs : a \in emitted[r]
  BY <1>1 DEF InObject, Inv, TypeOK
<1>3. UNCHANGED <<mapFile, poolFile, pc, idMap, newIdMap, curchunk, pool>>
  BY DEF GetKnownId
<1>4. Held(curchunk', emitted')
  BY <1>2, <1>3, KnownSound DEF Inv
<1>5. PoolInv'
  BY <1>2, <1>3, KnownSound DEF Inv, PoolInv
<1>6. UniqueInv'
  BY <1>2 DEF Inv, UniqueInv
<1>7. PairsInv'
  <2>1. \A q \in Procs : emitted[q] \subseteq emitted'[q]
    BY <1>1 DEF Inv, TypeOK
  <2> QED BY <1>3, <2>1 DEF Inv, PairsInv, InObject
<1> QED BY <1>4, <1>5, <1>6, <1>7

(* getId with a new string: the id it gets is in no object code yet.       *)
LEMMA DrawStep ==
  ASSUME Inv, NEW p \in Procs, NEW n \in Names, GetNewId(p, n)
  PROVE  /\ LockInv' /\ CopyInv' /\ PcInv' /\ PoolInv'
         /\ Held(curchunk, emitted)' /\ UniqueInv' /\ PairsInv'
<1>0. PICK id : id = curchunk[p].start
  OBVIOUS
<1> DEFINE chk == [curchunk[p] EXCEPT !.start = @ + 1]
<1>1. /\ curchunk' = [curchunk EXCEPT ![p] = chk]
      /\ emitted' = [emitted EXCEPT ![p] = @ \cup {<<n, id>>}]
      /\ newIdMap' = [newIdMap EXCEPT ![p][n] = id]
      /\ want' = [want EXCEPT ![p] = NoName]
      /\ UNCHANGED <<mapFile, poolFile, holder, pc, idMap, pool>>
      /\ pc[p] = "running"
  BY <1>0 DEF GetNewId
<1>2. /\ curchunk \in Chunks /\ emitted \in Emits /\ Held(curchunk, emitted)
  BY DEF Inv, TypeOK, Chunks, Emits
<1>3. Holds(curchunk[p]) /\ curchunk[p].start <= curchunk[p].end
  <2>1. Holds(curchunk[p])
    BY <1>1 DEF Inv, PcInv
  <2>2. \/ want[p] = n /\ n # NoName
        \/ curchunk[p].start <= curchunk[p].end
    BY IdMapAssumption DEF GetNewId
  <2> QED BY <1>1, <2>1, <2>2 DEF Inv, PcInv
<1>4. LET c == [curchunk EXCEPT ![p] = chk]
          e == [emitted EXCEPT ![p] = @ \cup {<<n, id>>}]
      IN /\ Held(c, e)
         /\ \A pl : SoundPool(pl, curchunk, emitted) => SoundPool(pl, c, e)
         /\ \A q \in Procs : \A a \in emitted[q] : a[2] # id
  BY <1>0, <1>2, <1>3, DrawSound
<1>5. /\ curchunk[p] \in Chunk
      /\ chk.status = curchunk[p].status
      /\ \A q \in Procs : q # p => curchunk'[q] = curchunk[q]
      /\ curchunk'[p] = chk
      /\ want'[p] = NoName /\ \A q \in Procs : q # p => want'[q] = want[q]
  <2>1. curchunk[p] \in Chunk
    BY <1>2 DEF Chunks
  <2> QED BY <1>1, <1>2, <2>1, DrawFacts DEF Chunks, Inv, TypeOK
<1> HIDE DEF chk
<1>6. Held(curchunk', emitted')
  BY <1>1, <1>4
<1>7. PoolInv'
  <2>1. \A pl : SoundPool(pl, curchunk, emitted) => SoundPool(pl, curchunk', emitted')
    BY <1>1, <1>4
  <2> QED BY <1>1, <2>1 DEF Inv, PoolInv
<1>8. LockInv' /\ CopyInv'
  BY <1>1 DEF Inv, LockInv, CopyInv
<1>9. PcInv'
  BY <1>1, <1>5 DEF Inv, PcInv, Holds
<1>10. /\ \A q \in Procs : \A a \in emitted'[q] : a \in emitted[q] \/ a = <<n, id>>
       /\ \A q \in Procs : emitted[q] \subseteq emitted'[q]
       /\ <<n, id>> \in emitted'[p]
  BY <1>1 DEF Inv, TypeOK
<1>11. UniqueInv'
  <2> SUFFICES ASSUME NEW q \in Procs, NEW r \in Procs, NEW a \in emitted'[q],
                      NEW b \in emitted'[r], a[2] = b[2]
               PROVE  a[1] = b[1]
    BY DEF UniqueInv
  <2>1. CASE a \in emitted[q] /\ b \in emitted[r]
    BY <2>1 DEF Inv, UniqueInv
  <2>2. CASE a = <<n, id>> /\ b = <<n, id>>
    BY <2>2
  <2>3. CASE a \in emitted[q] /\ b = <<n, id>>
    BY <1>4, <2>3
  <2>4. CASE a = <<n, id>> /\ b \in emitted[r]
    BY <1>4, <2>4
  <2> QED BY <1>10, <2>1, <2>2, <2>3, <2>4
<1>12. PairsInv'
  <2>1. \A m \in Names : \A i : InObject(m, i) => InObject(m, i)'
    BY <1>10 DEF InObject
  <2>2. InObject(n, id)'
    BY <1>10 DEF InObject
  <2>3. \A q \in Procs, m \in Names :
          newIdMap'[q][m] = newIdMap[q][m] \/ (m = n /\ newIdMap'[q][m] = id)
    BY <1>1 DEF Inv, TypeOK
  <2> QED BY <1>1, <2>1, <2>2, <2>3 DEF Inv, PairsInv
<1> QED BY <1>6, <1>7, <1>8, <1>9, <1>11, <1>12

(* The steps that draw no id: a map gets its entries from the maps there   *)
(* are.                                                                    *)
LEMMA MapsStep ==
  ASSUME Inv, NEW p \in Procs, UNCHANGED <<newIdMap, emitted>>,
         \/ UNCHANGED mapFile \/ mapFile' = EmptyMap \/ mapFile' = idMap[p],
         \/ UNCHANGED idMap
         \/ idMap' = [idMap EXCEPT ![p] = Loaded(p)]
         \/ idMap' = [idMap EXCEPT ![p] = Merged(p)]
  PROVE  PairsInv'
<1>1. \A n \in Names :
        /\ Loaded(p)[n] # NoId => InObject(n, Loaded(p)[n])
        /\ Merged(p)[n] # NoId => InObject(n, Merged(p)[n])
        /\ EmptyMap[n] = NoId
  BY DEF Inv, PairsInv, Loaded, Merged, Overlay, EmptyMap
<1>2. \A n \in Names : \A q \in Procs :
        idMap'[q][n] \in {idMap[q][n], Loaded(p)[n], Merged(p)[n]}
        /\ (q # p => idMap'[q][n] = idMap[q][n])
  BY DEF Inv, TypeOK
<1>3. \A n \in Names : mapFile'[n] # NoId => InObject(n, mapFile'[n])
  BY <1>1 DEF Inv, PairsInv
<1>4. ASSUME NEW q \in Procs, NEW n \in Names, idMap'[q][n] # NoId
      PROVE  InObject(n, idMap'[q][n])
  BY <1>1, <1>2, <1>4 DEF Inv, PairsInv
<1>5. \A q \in Procs : \A n \in Names :
        newIdMap'[q][n] # NoId => InObject(n, newIdMap'[q][n])
  BY DEF Inv, PairsInv
<1> QED BY <1>3, <1>4, <1>5 DEF PairsInv, InObject

(* Every step keeps the invariant, if locks are granted and nobody is      *)
(* killed between truncation and write.                                    *)
LEMMA InvStep ==
  ASSUME ~FlockMayFail, ~TornWrites
  PROVE  Inv /\ [Next]_vars => Inv'
<1> SUFFICES ASSUME Inv, [Next]_vars PROVE Inv'
  OBVIOUS
<1>0. TypeOK'
  BY TypeStep DEF Inv
<1>1. ASSUME NEW p \in Procs,
             \/ Construct(p)
             \/ \E n \in Names : GetIdExhausted(p, n)
             \/ SkipModule(p)
             \/ SaveRead(p) \/ SaveTruncate(p) \/ SaveWrite(p)
             \/ Crash(p) /\ pc[p] \notin Critical
      PROVE  Inv'
  <2>1. LockInv' /\ CopyInv' /\ PcInv'
    BY <1>1, QuietStep
  <2>2. /\ UNCHANGED <<poolFile, curchunk, emitted>>
        /\ pc[p] \notin Critical /\ pc'[p] \notin Critical
        /\ \A q \in Procs : q # p => pc'[q] = pc[q] /\ pool'[q] = pool[q]
    BY <1>1 DEF Inv, TypeOK, Construct, GetIdExhausted, SkipModule, SaveRead,
           SaveTruncate, SaveWrite, Crash, Critical
  <2>3. PoolInv' /\ Held(curchunk, emitted)' /\ UniqueInv'
    BY <2>2, QuietSound
  <2>4. PairsInv'
    <3>1. /\ UNCHANGED <<newIdMap, emitted>>
          /\ UNCHANGED mapFile \/ mapFile' = EmptyMap \/ mapFile' = idMap[p]
          /\ \/ UNCHANGED idMap
             \/ idMap' = [idMap EXCEPT ![p] = Loaded(p)]
             \/ idMap' = [idMap EXCEPT ![p] = Merged(p)]
      BY <1>1 DEF Construct, GetIdExhausted, SkipModule, SaveRead, SaveTruncate,
             SaveWrite, Crash
    <3> QED BY <3>1, MapsStep
  <2> QED BY <1>0, <2>1, <2>3, <2>4 DEF Inv
<1>2. ASSUME NEW p \in Procs, NEW n \in Names, GetKnownId(p, n) PROVE Inv'
  <2>1. LockInv' /\ CopyInv' /\ PcInv'
    BY <1>2, QuietStep
  <2>2. PoolInv' /\ Held(curchunk, emitted)' /\ UniqueInv' /\ PairsInv'
    BY <1>2, KnownStep
  <2> QED BY <1>0, <2>1, <2>2 DEF Inv
<1>3. ASSUME NEW p \in Procs, NEW n \in Names, GetNewId(p, n) PROVE Inv'
  <2>1. /\ LockInv' /\ CopyInv' /\ PcInv' /\ PoolInv'
        /\ Held(curchunk, emitted)' /\ UniqueInv' /\ PairsInv'
    BY <1>3, DrawStep
  <2> QED BY <1>0, <2>1 DEF Inv
<1>4. ASSUME NEW p \in Procs,
             \/ ReserveRead(p) \/ RecycleRead(p)
             \/ ReserveTruncate(p) \/ RecycleTruncate(p)
             \/ ReserveWrite(p) \/ RecycleWrite(p)
             \/ Crash(p) /\ pc[p] \in Critical
      PROVE  Inv'
  <2>1. /\ LockInv' /\ CopyInv' /\ PcInv' /\ PoolInv'
        /\ Held(curchunk, emitted)' /\ UniqueInv'
    BY <1>4, ReadStep, TruncateStep, UnlockStep
  <2>2. UNCHANGED <<mapFile, idMap, newIdMap, emitted>>
    BY <1>4 DEF ReserveRead, RecycleRead, ReserveTruncate, RecycleTruncate,
           ReserveWrite, RecycleWrite, Crash
  <2>3. PairsInv'
    BY <2>2, MapsStep
  <2> QED BY <1>0, <2>1, <2>3 DEF Inv
<1>5. CASE UNCHANGED vars
  <2> USE <1>5 DEF vars, Inv
  <2>1. LockInv' /\ CopyInv' /\ PcInv'
    BY DEF LockInv, CopyInv, PcInv
  <2>2. PoolInv' /\ Held(curchunk, emitted)'
    BY DEF PoolInv
  <2>3. UniqueInv' /\ PairsInv'
    BY DEF UniqueInv, PairsInv, InObject
  <2> QED BY <1>0, <2>1, <2>2, <2>3
<1> QED
  BY <1>1, <1>2, <1>3, <1>4, <1>5 DEF Next, Step, Terminated

-----------------------------------------------------------------------------
(* Theorems.                                                               *)

(* If locks are granted and no process dies between truncation and write,  *)
(* no two compilations hold one chunk, however many run and in whatever    *)
(* order they reserve, use up, recycle or abandon chunks.                  *)
THEOREM ChunksAreExclusive ==
  ASSUME ~FlockMayFail, ~TornWrites
  PROVE  Spec => []ChunkExclusive
<1>1. Inv => ChunkExclusive
  BY DEF Inv, Held, ChunkExclusive, Owns, Holds
<1>2. Init => Inv
  BY InvInit
<1>3. Inv /\ [Next]_vars => Inv'
  BY InvStep
<1> QED BY <1>1, <1>2, <1>3, PTL DEF Spec

(* ... and an id never denotes two names, in object code or in the map     *)
(* file: a trace record is never attributed to the wrong file, type,       *)
(* variable or function.                                                   *)
THEOREM IdsAreUnique ==
  ASSUME ~FlockMayFail, ~TornWrites
  PROVE  Spec => []OneNamePerId
<1>1. Inv => OneNamePerId
  <2> SUFFICES ASSUME Inv,
                      NEW a \in Emissions \cup
                            {<<n, mapFile[n]>> : n \in {m \in Names : mapFile[m] # NoId}},
                      NEW b \in Emissions \cup
                            {<<n, mapFile[n]>> : n \in {m \in Names : mapFile[m] # NoId}},
                      a[2] = b[2]
               PROVE  a[1] = b[1]
    BY DEF OneNamePerId
  <2>1. \E q \in Procs : a \in emitted[q]
    BY DEF Inv, PairsInv, InObject, Emissions
  <2>2. \E q \in Procs : b \in emitted[q]
    BY DEF Inv, PairsInv, InObject, Emissions
  <2> QED BY <2>1, <2>2 DEF Inv, UniqueInv
<1>2. Init => Inv
  BY InvInit
<1>3. Inv /\ [Next]_vars => Inv'
  BY InvStep
<1> QED BY <1>1, <1>2, <1>3, PTL DEF Spec

-----------------------------------------------------------------------------
(* The settled pool.                                                       *)

(* It is what the process that writes the file will write, else the file.  *)
PoolIs ==
  /\ \A p \in Procs : pc[p] \in Writing("pool") => SettledPool = pool[p]
  /\ (\A p \in Procs : pc[p] \notin Writing("pool")) => SettledPool = poolFile

(* With the lock, only one process writes the file.                        *)
LEMMA PoolIsSettled == LockInv => PoolIs
<1> SUFFICES ASSUME LockInv PROVE PoolIs
  OBVIOUS
<1>1. ASSUME NEW p \in Procs, pc[p] \in Writing("pool") PROVE SettledPool = pool[p]
  <2> DEFINE w == CHOOSE q \in Procs : pc[q] \in Writing("pool")
  <2>1. w \in Procs /\ pc[w] \in Writing("pool")
    BY <1>1
  <2>2. SettledPool = pool[w]
    BY <1>1 DEF SettledPool
  <2> HIDE DEF w
  <2>3. w = p
    BY <1>1, <2>1 DEF LockInv, Critical, Writing
  <2> QED BY <2>2, <2>3
<1>2. ASSUME \A p \in Procs : pc[p] \notin Writing("pool") PROVE SettledPool = poolFile
  BY <1>2 DEF SettledPool
<1> QED BY <1>1, <1>2 DEF PoolIs

(* The same of the next state.                                             *)
LEMMA PoolIsSettledNext == LockInv' => PoolIs'
BY PoolIsSettled, PTL

(* The settled pool is sound.                                              *)
LEMMA SettledPoolSound == Inv => SoundPool(SettledPool, curchunk, emitted)
<1> SUFFICES ASSUME Inv PROVE SoundPool(SettledPool, curchunk, emitted)
  OBVIOUS
<1>1. CASE \E p \in Procs : pc[p] \in Writing("pool")
  BY <1>1, PoolIsSettled DEF Inv, PoolInv, PoolIs
<1>2. CASE \A p \in Procs : pc[p] \notin Writing("pool")
  BY <1>2, PoolIsSettled DEF Inv, PoolInv, PoolIs
<1> QED BY <1>1, <1>2

(* Only the two truncations change it: they settle what is to be written.  *)
LEMMA PoolSettledSame ==
  ASSUME Inv, Inv', ~TornWrites, NEW p \in Procs,
         \/ Construct(p)
         \/ ReserveRead(p) \/ ReserveWrite(p)
         \/ \E n \in Names : GetKnownId(p, n) \/ GetIdExhausted(p, n) \/ GetNewId(p, n)
         \/ SkipModule(p)
         \/ SaveRead(p) \/ SaveTruncate(p) \/ SaveWrite(p)
         \/ RecycleRead(p) \/ RecycleWrite(p)
         \/ Crash(p)
  PROVE  SettledPool' = SettledPool
<1>0. PoolIs /\ PoolIs'
  BY PoolIsSettled, PoolIsSettledNext DEF Inv
<1>1. CASE ReserveWrite(p) \/ RecycleWrite(p)
  <2>1. /\ pc[p] \in Writing("pool") /\ pc'[p] \notin Writing("pool")
        /\ poolFile' = pool[p]
        /\ \A q \in Procs : q # p => pc'[q] = pc[q]
    BY <1>1 DEF Inv, TypeOK, ReserveWrite, RecycleWrite, Writing
  <2>2. \A q \in Procs : pc'[q] \notin Writing("pool")
    BY <2>1 DEF Inv, LockInv, Critical, Writing
  <2> QED BY <1>0, <2>1, <2>2 DEF PoolIs
<1>2. CASE ~(ReserveWrite(p) \/ RecycleWrite(p))
  <2>1. /\ pc[p] \notin Writing("pool") /\ pc'[p] \notin Writing("pool")
        /\ UNCHANGED poolFile
    BY <1>2 DEF Inv, TypeOK, Construct, ReserveRead, GetKnownId, GetIdExhausted,
           GetNewId, SkipModule, SaveRead, SaveTruncate, SaveWrite, RecycleRead,
           Crash, Writing
  <2>2. \A q \in Procs : q # p => pc'[q] = pc[q] /\ pool'[q] = pool[q]
    BY <1>2 DEF Inv, TypeOK, Construct, ReserveRead, GetKnownId, GetIdExhausted,
           GetNewId, SkipModule, SaveRead, SaveTruncate, SaveWrite, RecycleRead, Crash
  <2>3. CASE \E q \in Procs : pc[q] \in Writing("pool")
    <3>1. PICK q \in Procs : pc[q] \in Writing("pool")
      BY <2>3
    <3>2. pc'[q] \in Writing("pool") /\ pool'[q] = pool[q]
      BY <2>1, <2>2, <3>1
    <3> QED BY <1>0, <3>1, <3>2 DEF PoolIs
  <2>4. CASE \A q \in Procs : pc[q] \notin Writing("pool")
    <3>1. \A q \in Procs : pc'[q] \notin Writing("pool")
      BY <2>1, <2>2, <2>4
    <3> QED BY <1>0, <2>1, <2>4, <3>1 DEF PoolIs
  <2> QED BY <2>3, <2>4
<1> QED BY <1>1, <1>2

(* Who holds a chunk is a running compilation or was killed.               *)
LEMMA HoldersRun ==
  ASSUME Inv, NEW p \in Procs, Holds(curchunk[p])
  PROVE  Owns(p) \/ pc[p] = "crashed"
<1>1. pc[p] # "idle" /\ pc[p] # "done"
  BY DEF Inv, PcInv, Holds
<1> QED BY <1>1 DEF Owns, Live, Holds

(* Normal ends, skipped modules and exhausted chunks leave no chunk marked *)
(* in use behind, so only a killed compilation makes ids unusable.         *)
THEOREM OnlyCrashesLeak ==
  ASSUME ~FlockMayFail, ~TornWrites
  PROVE  Spec => []ChunkLeakOnlyByCrash
<1>1. Inv => ChunkLeakOnlyByCrash
  <2> SUFFICES ASSUME Inv, NEW i \in DOMAIN SettledPool.chunk,
                      SettledPool.chunk[i].status = "BEING_USED"
               PROVE  \E p \in Procs : curchunk[p].id = i /\ (Owns(p) \/ pc[p] = "crashed")
    BY DEF ChunkLeakOnlyByCrash
  <2>1. PICK q \in Procs : Holds(curchunk[q]) /\ curchunk[q].id = i
    BY SettledPoolSound DEF SoundPool, Accounted, Holds
  <2> QED BY <2>1, HoldersRun
<1> QED BY <1>1, InvInit, InvStep, PTL DEF Spec

-----------------------------------------------------------------------------
(* The chunks half used.                                                   *)

Open(pl) == {i \in DOMAIN pl.chunk : pl.chunk[i].status = "OPENED"}
Running  == {p \in Procs : Live(p)}
Owners   == {p \in Procs : Owns(p)}

(* No more chunks than jobs: pl's open ones and those of the processes own.*)
Thrifty(pl, own) ==
  /\ IsFiniteSet(Open(pl)) /\ IsFiniteSet(own)
  /\ Cardinality(Open(pl)) + Cardinality(own) <= MaxJobs

(* The guard of Construct stands for make -j.                              *)
WasteInv ==
  /\ IsFiniteSet(Running) /\ Cardinality(Running) <= MaxJobs
  /\ Thrifty(SettledPool, Owners)

(* Putting a chunk into the pool: it is open or it is not.                 *)
LEMMA PutOpen ==
  ASSUME NEW pl, IsPool(pl), NEW chk \in Chunk
  PROVE  Open(Put(pl, chk)) = IF chk.status = "OPENED" THEN Open(pl) \cup {chk.id}
                                                       ELSE Open(pl) \ {chk.id}
<1> DEFINE pl2 == Put(pl, chk)
<1>1. /\ DOMAIN pl2.chunk = DOMAIN pl.chunk \cup {chk.id}
      /\ pl2.chunk[chk.id] = chk
      /\ \A i \in DOMAIN pl.chunk : i # chk.id => pl2.chunk[i] = pl.chunk[i]
  BY PutFacts
<1> HIDE DEF pl2
<1>2. Open(pl2) = IF chk.status = "OPENED" THEN Open(pl) \cup {chk.id}
                                           ELSE Open(pl) \ {chk.id}
  BY <1>1 DEF Open
<1> QED BY <1>2 DEF pl2

(* Fewer owners, as many chunks.                                           *)
LEMMA ThriftySubset ==
  ASSUME NEW pl, NEW own, Thrifty(pl, own), NEW sub \in SUBSET own
  PROVE  Thrifty(pl, sub)
<1>1. IsFiniteSet(sub) /\ Cardinality(sub) <= Cardinality(own)
  BY FS_Subset DEF Thrifty
<1>2. /\ Cardinality(sub) \in Nat /\ Cardinality(own) \in Nat
      /\ Cardinality(Open(pl)) \in Nat /\ MaxJobs \in Nat
  BY <1>1, FS_CardinalityType, IdMapAssumption DEF Thrifty
<1> QED BY <1>1, <1>2 DEF Thrifty

(* A chunk that is handed back was its owner's.                            *)
LEMMA RetireThrifty ==
  ASSUME NEW pl, IsPool(pl), NEW chk \in Chunk, NEW own, NEW p \in own, Thrifty(pl, own)
  PROVE  Thrifty(Put(pl, Retire(chk)), own \ {p})
<1> DEFINE o == Open(Put(pl, Retire(chk)))
<1>1. Retire(chk) \in Chunk
  BY RetireFacts
<1>2. o \subseteq Open(pl) \cup {Retire(chk).id}
  BY <1>1, PutOpen
<1>3. /\ IsFiniteSet(Open(pl) \cup {Retire(chk).id})
      /\ Cardinality(Open(pl) \cup {Retire(chk).id}) <= Cardinality(Open(pl)) + 1
      /\ Cardinality(Open(pl)) \in Nat
  <2>1. IsFiniteSet(Open(pl)) /\ Cardinality(Open(pl)) \in Nat
    BY FS_CardinalityType DEF Thrifty
  <2> QED BY <2>1, FS_AddElement
<1>4. /\ IsFiniteSet(o)
      /\ Cardinality(o) <= Cardinality(Open(pl) \cup {Retire(chk).id})
  BY <1>2, <1>3, FS_Subset
<1>5. /\ IsFiniteSet(own \ {p})
      /\ Cardinality(own \ {p}) = Cardinality(own) - 1
      /\ Cardinality(own) \in Nat
  BY FS_RemoveElement, FS_CardinalityType DEF Thrifty
<1>6. Cardinality(o) \in Nat /\ Cardinality(Open(pl) \cup {Retire(chk).id}) \in Nat
  BY <1>3, <1>4, FS_CardinalityType
<1> HIDE DEF o
<1>7. Cardinality(o) + Cardinality(own \ {p}) <= MaxJobs
  BY <1>3, <1>4, <1>5, <1>6, IdMapAssumption DEF Thrifty
<1> QED BY <1>4, <1>5, <1>7 DEF Thrifty, o

(* A process that claims a chunk takes an open one; a new one is made when *)
(* there is none open, and then there are no more owners than jobs.        *)
LEMMA ClaimThrifty ==
  ASSUME NEW pl, IsPool(pl), \A i \in DOMAIN pl.chunk : i <= pl.latest,
         NEW own, NEW p, p \notin own, Thrifty(pl, own),
         IsFiniteSet(own \cup {p}), Cardinality(own \cup {p}) <= MaxJobs
  PROVE  Thrifty(Grant(pl, Claim(pl)), own \cup {p})
<1> DEFINE chk == Claim(pl)
           pl1 == [pl EXCEPT !.latest = IF chk.id > @ THEN chk.id ELSE @]
<1>1. OpenedIds(pl) = Open(pl)
  BY DEF OpenedIds, Open
<1>2. chk \in Chunk /\ chk.status = "BEING_USED"
  <2>1. chk \in Chunk
    BY PoolTypes
  <2>2. CASE OpenedIds(pl) # {}
    BY <2>2, OpenedChunkFacts DEF Claim
  <2>3. CASE OpenedIds(pl) = {}
    <3>1. pl.latest + 1 \in Nat
      BY DEF IsPool
    <3> QED BY <2>3, <3>1, NewChunkFacts DEF Claim
  <2> QED BY <2>1, <2>2, <2>3
<1>3. CASE OpenedIds(pl) # {}
  <2>1. chk = OpenedChunk(pl)
    BY <1>3 DEF Claim
  <2> HIDE DEF chk
  <2>2. chk.id \in Open(pl)
    BY <1>1, <1>3, <2>1, OpenedChunkFacts
  <2>3. IsPool(pl1) /\ pl1.chunk = pl.chunk
    BY <1>2 DEF IsPool, Chunk
  <2>4. Open(Grant(pl, chk)) = Open(pl) \ {chk.id}
    <3>1. Open(Put(pl1, chk)) = Open(pl1) \ {chk.id}
      BY <1>2, <2>3, PutOpen
    <3> QED BY <2>3, <3>1 DEF Grant, Open
  <2>5. /\ IsFiniteSet(Open(pl) \ {chk.id})
        /\ Cardinality(Open(pl) \ {chk.id}) = Cardinality(Open(pl)) - 1
        /\ Cardinality(own \cup {p}) = Cardinality(own) + 1
    BY <2>2, FS_RemoveElement, FS_AddElement DEF Thrifty
  <2>6. Cardinality(Open(pl)) \in Nat /\ Cardinality(own) \in Nat
    BY FS_CardinalityType DEF Thrifty
  <2>7. Thrifty(Grant(pl, chk), own \cup {p})
    BY <2>4, <2>5, <2>6, IdMapAssumption DEF Thrifty
  <2> QED BY <2>7 DEF chk
<1>4. CASE OpenedIds(pl) = {}
  <2> HIDE DEF chk
  <2>1. IsPool(pl1) /\ pl1.chunk = pl.chunk
    BY <1>2 DEF IsPool, Chunk
  <2>2. Open(Grant(pl, chk)) = {}
    <3>1. Open(Put(pl1, chk)) = Open(pl1) \ {chk.id}
      BY <1>2, <2>1, PutOpen
    <3>2. Open(pl1) = {}
      BY <1>1, <1>4, <2>1 DEF Open
    <3> QED BY <3>1, <3>2 DEF Grant
  <2>3. IsFiniteSet(own \cup {p}) /\ Cardinality(own \cup {p}) \in Nat
    BY FS_CardinalityType
  <2>4. Thrifty(Grant(pl, chk), own \cup {p})
    BY <2>2, <2>3, FS_EmptySet, IdMapAssumption DEF Thrifty
  <2> QED BY <2>4 DEF chk
<1> QED BY <1>3, <1>4

(* Steps that leave the pool alone and start or end a compilation at most. *)
LEMMA WasteQuiet ==
  ASSUME WasteInv, SettledPool' = SettledPool, Owners' \subseteq Owners,
         IsFiniteSet(Running'), Cardinality(Running') <= MaxJobs
  PROVE  WasteInv'
<1>1. Thrifty(SettledPool, Owners')
  BY ThriftySubset DEF WasteInv
<1>2. Thrifty(SettledPool, Owners)'
  BY <1>1 DEF Thrifty, Open
<1> QED BY <1>2 DEF WasteInv

(* The truncations of the pool file.                                       *)
LEMMA WasteTruncate ==
  ASSUME Inv, Inv', WasteInv, NEW p \in Procs, ReserveTruncate(p) \/ RecycleTruncate(p)
  PROVE  WasteInv'
<1>1. /\ pc[p] \in {"reserveRead", "recycleRead"} /\ pc'[p] \in Writing("pool")
      /\ \A q \in Procs : q # p => pc'[q] = pc[q] /\ curchunk'[q] = curchunk[q]
  BY DEF Inv, TypeOK, ReserveTruncate, RecycleTruncate, Writing
<1>2. Running' = Running
  <2>1. Live(p) /\ Live(p)'
    BY <1>1 DEF Live, Writing
  <2> QED BY <1>1, <2>1 DEF Running, Live
<1>3. SettledPool' = pool'[p]
  BY <1>1, PoolIsSettledNext DEF Inv, PoolIs
<1>4. SettledPool = pool[p]
  <2>1. \A q \in Procs : pc[q] \notin Writing("pool")
    BY <1>1, SoundCopy DEF Writing, Critical
  <2> QED BY <1>1, <2>1, PoolIsSettled DEF Inv, PoolIs, CopyInv
<1>5. /\ IsPool(pool[p]) /\ curchunk[p] \in Chunk
      /\ \A i \in DOMAIN pool[p].chunk : i <= pool[p].latest
      /\ Holds(curchunk[p]) => curchunk[p].id <= pool[p].latest
  BY <1>1, SoundCopy DEF SoundPool, Inv, TypeOK
<1>6. p \in Owners <=> Holds(curchunk[p])
  BY <1>1 DEF Owners, Owns, Live, Holds
<1>7. \A q \in Procs : q # p => (q \in Owners' <=> q \in Owners)
  BY <1>1 DEF Owners, Owns, Live
<1>8. CASE ReserveTruncate(p)
  <2> DEFINE pl == GiveBack(pool[p], curchunk[p])
  <2>1. pool'[p] = Grant(pl, Claim(pl)) /\ pc[p] = "reserveRead" /\ pc'[p] = "reserveWrite"
    BY <1>8 DEF Inv, TypeOK, ReserveTruncate
  <2>2. Thrifty(pl, Owners \ {p})
    <3>1. CASE Holds(curchunk[p])
      <4>1. pl = Put(pool[p], Retire(curchunk[p]))
        BY <3>1 DEF GiveBack, Holds
      <4> QED BY <1>4, <1>5, <1>6, <3>1, <4>1, RetireThrifty DEF WasteInv
    <3>2. CASE ~Holds(curchunk[p])
      <4>1. pl = pool[p]
        BY <2>1, <3>2 DEF GiveBack, Inv, PcInv
      <4> QED BY <1>4, <4>1, ThriftySubset DEF WasteInv
    <3> QED BY <3>1, <3>2
  <2>3. IsPool(pl) /\ \A i \in DOMAIN pl.chunk : i <= pl.latest
    <3>1. CASE Holds(curchunk[p])
      <4>1. pl = Put(pool[p], Retire(curchunk[p]))
        BY <3>1 DEF GiveBack, Holds
      <4>2. Retire(curchunk[p]) \in Chunk /\ Retire(curchunk[p]).id = curchunk[p].id
        BY <1>5, RetireFacts
      <4> HIDE DEF pl
      <4>3. IsPool(pl) /\ pl.latest = pool[p].latest
            /\ DOMAIN pl.chunk = DOMAIN pool[p].chunk \cup {curchunk[p].id}
        <5> DEFINE ret == Retire(curchunk[p])
        <5> HIDE DEF ret
        <5>1. IsPool(pool[p]) /\ ret \in Chunk /\ ret.id = curchunk[p].id
          BY <1>5, <4>2 DEF ret
        <5>2. /\ IsPool(Put(pool[p], ret)) /\ Put(pool[p], ret).latest = pool[p].latest
              /\ DOMAIN Put(pool[p], ret).chunk = DOMAIN pool[p].chunk \cup {ret.id}
          BY <5>1, PutFacts, Zenon
        <5> QED BY <4>1, <5>1, <5>2 DEF ret
      <4> QED BY <1>5, <3>1, <4>3
    <3>2. CASE ~Holds(curchunk[p])
      <4>1. pl = pool[p]
        BY <2>1, <3>2 DEF GiveBack, Inv, PcInv
      <4> QED BY <1>5, <4>1
    <3> QED BY <3>1, <3>2
  <2> HIDE DEF pl
  <2>4. Holds(curchunk'[p])
    BY <2>1 DEF Inv, PcInv
  <2>5. Owners' = (Owners \ {p}) \cup {p}
    <3>1. p \in Owners'
      BY <2>1, <2>4 DEF Owners, Owns, Live, Holds
    <3> QED BY <1>7, <3>1 DEF Owners
  <2>6. IsFiniteSet(Owners') /\ Cardinality(Owners') <= MaxJobs
    <3>1. Owners' \in SUBSET Running
      BY <1>2 DEF Owners, Running, Owns
    <3>2. IsFiniteSet(Owners') /\ Cardinality(Owners') <= Cardinality(Running)
      BY <3>1, FS_Subset DEF WasteInv
    <3>3. Cardinality(Owners') \in Nat /\ Cardinality(Running) \in Nat
      BY <3>2, FS_CardinalityType DEF WasteInv
    <3> QED BY <3>2, <3>3, IdMapAssumption DEF WasteInv
  <2>7. Thrifty(Grant(pl, Claim(pl)), (Owners \ {p}) \cup {p})
    BY <2>2, <2>3, <2>5, <2>6, ClaimThrifty
  <2>8. Thrifty(SettledPool, Owners)'
    BY <1>3, <2>1, <2>5, <2>7 DEF Thrifty, Open
  <2> QED BY <1>2, <2>8 DEF WasteInv
<1>9. CASE RecycleTruncate(p)
  <2>1. /\ pool'[p] = Put(pool[p], Retire(curchunk[p])) /\ pc[p] = "recycleRead"
        /\ pc'[p] = "recycleWrite"
    BY <1>9 DEF Inv, TypeOK, RecycleTruncate
  <2>2. Holds(curchunk[p]) /\ ~Holds(curchunk'[p])
    BY <2>1 DEF Inv, PcInv
  <2>3. Owners' = Owners \ {p}
    <3>1. p \notin Owners'
      BY <2>2 DEF Owners, Owns, Holds
    <3> QED BY <1>7, <3>1 DEF Owners
  <2>4. Thrifty(Put(pool[p], Retire(curchunk[p])), Owners \ {p})
    BY <1>4, <1>5, <1>6, <2>2, RetireThrifty DEF WasteInv
  <2>5. Thrifty(SettledPool, Owners)'
    BY <1>3, <2>1, <2>3, <2>4 DEF Thrifty, Open
  <2> QED BY <1>2, <2>5 DEF WasteInv
<1> QED BY <1>8, <1>9

(* Every step keeps the bound.                                             *)
LEMMA WasteStep ==
  ASSUME ~FlockMayFail, ~TornWrites
  PROVE  Inv /\ Inv' /\ WasteInv /\ [Next]_vars => WasteInv'
<1> SUFFICES ASSUME Inv, Inv', WasteInv, [Next]_vars PROVE WasteInv'
  OBVIOUS
<1>1. ASSUME NEW p \in Procs, Construct(p) PROVE WasteInv'
  <2>1. SettledPool' = SettledPool
    BY <1>1, PoolSettledSame
  <2>2. /\ pc[p] = "idle" /\ pc'[p] = "reserve" /\ UNCHANGED curchunk
        /\ \A q \in Procs : q # p => pc'[q] = pc[q]
        /\ Cardinality(Running) < MaxJobs
    BY <1>1 DEF Inv, TypeOK, Construct, Running
  <2>3. ~Holds(curchunk[p])
    BY <2>2 DEF Inv, PcInv, Holds
  <2>4. Owners' \subseteq Owners
    BY <2>2, <2>3 DEF Owners, Owns, Live, Holds
  <2>5. Running' = Running \cup {p}
    <3>1. Live(p)'
      BY <2>2 DEF Live
    <3> QED BY <2>2, <3>1 DEF Running, Live
  <2>6. /\ IsFiniteSet(Running \cup {p})
        /\ Cardinality(Running \cup {p}) <= Cardinality(Running) + 1
        /\ Cardinality(Running) \in Nat
    <3>1. IsFiniteSet(Running) /\ Cardinality(Running) \in Nat
      BY FS_CardinalityType DEF WasteInv
    <3>2. /\ IsFiniteSet(Running \cup {p})
          /\ Cardinality(Running \cup {p}) =
               IF p \in Running THEN Cardinality(Running) ELSE Cardinality(Running) + 1
      BY <3>1, FS_AddElement
    <3> QED BY <3>1, <3>2
  <2>7. Cardinality(Running \cup {p}) \in Nat
    BY <2>6, FS_CardinalityType
  <2>8. IsFiniteSet(Running') /\ Cardinality(Running') <= MaxJobs
    BY <2>2, <2>5, <2>6, <2>7, IdMapAssumption
  <2> QED BY <2>1, <2>4, <2>8, WasteQuiet
<1>2. ASSUME NEW p \in Procs,
             \/ ReserveRead(p) \/ ReserveWrite(p)
             \/ \E n \in Names : GetKnownId(p, n) \/ GetIdExhausted(p, n) \/ GetNewId(p, n)
             \/ SkipModule(p)
             \/ SaveRead(p) \/ SaveTruncate(p) \/ SaveWrite(p)
             \/ RecycleRead(p) \/ RecycleWrite(p)
             \/ Crash(p)
      PROVE  WasteInv'
  <2>1. SettledPool' = SettledPool
    BY <1>2, PoolSettledSame
  <2>2. /\ \A q \in Procs : q # p => pc'[q] = pc[q] /\ curchunk'[q] = curchunk[q]
        /\ Live(p)
        /\ curchunk'[p].status = curchunk[p].status
    <3>1. CASE \E n \in Names : GetNewId(p, n)
      <4>1. curchunk[p] \in Chunk
        BY DEF Inv, TypeOK
      <4>2. curchunk' = [curchunk EXCEPT ![p] = [curchunk[p] EXCEPT !.start = @ + 1]]
            /\ UNCHANGED pc /\ pc[p] = "running"
        BY <3>1 DEF GetNewId
      <4> QED BY <4>1, <4>2, DrawFacts DEF Inv, TypeOK, Live
    <3>2. CASE ~ \E n \in Names : GetNewId(p, n)
      BY <1>2, <3>2 DEF Inv, TypeOK, ReserveRead, ReserveWrite, GetKnownId,
             GetIdExhausted, SkipModule, SaveRead, SaveTruncate, SaveWrite,
             RecycleRead, RecycleWrite, Crash, Live
    <3> QED BY <3>1, <3>2
  <2>3. Owners' \subseteq Owners
    BY <2>2 DEF Owners, Owns, Live
  <2>4. Running' \in SUBSET Running
    BY <2>2 DEF Running, Live
  <2>5. IsFiniteSet(Running') /\ Cardinality(Running') <= Cardinality(Running)
    BY <2>4, FS_Subset DEF WasteInv
  <2>6. Cardinality(Running') \in Nat /\ Cardinality(Running) \in Nat
    BY <2>5, FS_CardinalityType DEF WasteInv
  <2>7. Cardinality(Running') <= MaxJobs
    BY <2>5, <2>6, IdMapAssumption DEF WasteInv
  <2> QED BY <2>1, <2>3, <2>5, <2>7, WasteQuiet
<1>3. ASSUME NEW p \in Procs, ReserveTruncate(p) \/ RecycleTruncate(p) PROVE WasteInv'
  BY <1>3, WasteTruncate
<1>4. CASE UNCHANGED vars
  <2>1. SettledPool' = SettledPool /\ Owners' = Owners /\ Running' = Running
    BY <1>4 DEF vars, SettledPool, Owners, Running, Owns, Live
  <2> QED BY <2>1, WasteQuiet DEF WasteInv
<1> QED BY <1>1, <1>2, <1>3, <1>4 DEF Next, Step, Terminated

(* The chunks that are in use or wait half used in the pool are never more *)
(* than the jobs the build runs at a time: the id space grows by a chunk   *)
(* only when every chunk that is left is in use.                           *)
THEOREM WasteIsBounded ==
  ASSUME ~FlockMayFail, ~TornWrites
  PROVE  Spec => []ChunkWasteBounded
<1>1. Init => Inv /\ WasteInv
  <2> SUFFICES ASSUME Init PROVE WasteInv
    BY InvInit
  <2>1. Running = {} /\ Owners = {}
    BY DEF Init, Running, Owners, Owns, Live
  <2>2. SettledPool = EmptyPool
    BY DEF Init, SettledPool, Writing
  <2>3. Open(SettledPool) = {}
    BY <2>2 DEF Open, EmptyPool
  <2> QED BY <2>1, <2>3, FS_EmptySet, IdMapAssumption DEF WasteInv, Thrifty
<1>2. Inv /\ WasteInv /\ [Next]_vars => (Inv /\ WasteInv)'
  BY InvStep, WasteStep
<1>3. WasteInv => ChunkWasteBounded
  BY DEF WasteInv, Thrifty, ChunkWasteBounded, Open, Owners
<1> QED BY <1>1, <1>2, <1>3, PTL DEF Spec


-----------------------------------------------------------------------------
(* The inductive invariant of the map file.                                *)

(* Between the lock and the unlock of the map file.                        *)
Saving == {"saveRead", "saveWrite"}

Leaving == {"recycle", "recycleRead", "recycleWrite", "done"}

MapLock == \A p \in Procs : pc[p] \in Saving => holder["map"] = p

(* What a process knows of the map is still in it.                         *)
Agreed ==
  \A p \in Procs : pc[p] \notin Saving \cup {"crashed"} =>
    \A n \in Names : idMap[p][n] # NoId => idMap[p][n] = SettledMap[n]

(* What a process is about to write: the map, and its own ids for the names*)
(* the map does not have.                                                  *)
MergedInv ==
  \A p \in Procs : pc[p] = "saveRead" =>
    \A n \in Names : idMap[p][n] = IF SettledMap[n] # NoId THEN SettledMap[n]
                                                           ELSE newIdMap[p][n]

(* The names in the object code are known to the process, and once it has  *)
(* merged its ids they are all in its copy of the map.                     *)
Covered ==
  \A p \in Procs : \A a \in emitted[p] :
    \/ idMap[p][a[1]] # NoId
    \/ pc[p] \notin Saving \cup Leaving /\ newIdMap[p][a[1]] # NoId

MapInv == MapLock /\ Agreed /\ MergedInv /\ Covered

(* The names process p has, or may yet, give an id of its own.             *)
Own(p, n) ==
  \/ newIdMap[p][n] # NoId
  \/ pc[p] \notin Saving \cup Leaving /\ idMap[p][n] = NoId

(* A process's own ids are in its object code.                             *)
OwnEmitted ==
  \A p \in Procs : \A n \in Names :
    newIdMap[p][n] # NoId => pc[p] # "idle" /\ <<n, newIdMap[p][n]>> \in emitted[p]

(* An id in the object code is the process's own or the one in the map.    *)
EmittedFrom ==
  \A p \in Procs : pc[p] # "crashed" =>
    \A a \in emitted[p] : a[2] = newIdMap[p][a[1]] \/ a[2] = SettledMap[a[1]]

Rival(p, n) ==
  \E q \in Procs \ {p} : <<p, q>> \in met /\ <<n, SettledMap[n]>> \in emitted[q]

(* If the map has another id than p's own for a name, p has met its owner. *)
RivalInv ==
  \A p \in Procs : pc[p] \notin {"idle", "crashed"} =>
    \A n \in Names : SettledMap[n] # NoId /\ Own(p, n) =>
      SettledMap[n] = newIdMap[p][n] \/ Rival(p, n)

MetInv == OwnEmitted /\ EmittedFrom /\ RivalInv

-----------------------------------------------------------------------------
(* The settled map.                                                        *)

(* It is what the process that writes the file will write, else the file.  *)
SettledIs ==
  /\ \A p \in Procs : pc[p] = "saveWrite" => SettledMap = idMap[p]
  /\ (\A p \in Procs : pc[p] # "saveWrite") => SettledMap = mapFile

(* With the lock, only one process writes the file.                        *)
LEMMA SettledFacts == MapLock => SettledIs
<1> SUFFICES ASSUME MapLock PROVE SettledIs
  OBVIOUS
<1>1. \A q \in Procs : pc[q] \in Writing("map") <=> pc[q] = "saveWrite"
  BY DEF Writing
<1>2. ASSUME NEW p \in Procs, pc[p] = "saveWrite" PROVE SettledMap = idMap[p]
  <2> DEFINE w == CHOOSE q \in Procs : pc[q] \in Writing("map")
  <2>1. w \in Procs /\ pc[w] = "saveWrite"
    BY <1>1, <1>2
  <2>2. SettledMap = idMap[w]
    BY <1>1, <1>2 DEF SettledMap
  <2> HIDE DEF w
  <2>3. w = p
    BY <1>2, <2>1 DEF MapLock, Saving
  <2> QED BY <2>2, <2>3
<1>3. ASSUME \A p \in Procs : pc[p] # "saveWrite" PROVE SettledMap = mapFile
  BY <1>1, <1>3 DEF SettledMap
<1> QED BY <1>2, <1>3 DEF SettledIs

(* The same of the next state.                                             *)
LEMMA SettledNext == MapLock' => SettledIs'
BY SettledFacts, PTL

(* The settled map is a map.                                               *)
LEMMA SettledType ==
  TypeOK /\ MapLock => SettledMap \in [Names -> Nat \cup {NoId}]
<1> SUFFICES ASSUME TypeOK, MapLock
             PROVE  SettledMap \in [Names -> Nat \cup {NoId}]
  OBVIOUS
<1>1. CASE \E p \in Procs : pc[p] = "saveWrite"
  <2>1. PICK p \in Procs : pc[p] = "saveWrite"
    BY <1>1
  <2> QED BY <2>1, SettledFacts DEF TypeOK, SettledIs
<1>2. CASE \A p \in Procs : pc[p] # "saveWrite"
  BY <1>2, SettledFacts DEF TypeOK, SettledIs
<1> QED BY <1>1, <1>2

(* Steps that do not touch the map: away from its lock, or inside it only  *)
(* to be killed before the truncation.                                     *)
Elsewhere(p) ==
  /\ pc[p] # "saveWrite" /\ pc'[p] \notin Saving
  /\ UNCHANGED mapFile
  /\ \A q \in Procs : holder["map"] = q /\ q # p => holder'["map"] = q

(* What the others know is left alone.                                     *)
Alone(p) ==
  \A q \in Procs \ {p} :
    /\ pc'[q] = pc[q] /\ idMap'[q] = idMap[q]
    /\ newIdMap'[q] = newIdMap[q] /\ emitted'[q] = emitted[q]

(* Every action of process p leaves the other processes alone.             *)
LEMMA StepAlone ==
  ASSUME TypeOK, NEW p \in Procs, Construct(p) \/ Step(p) \/ Crash(p)
  PROVE  Alone(p)
<1> USE DEF TypeOK, Alone
<1>1. ASSUME Construct(p) PROVE Alone(p)
  BY <1>1 DEF Construct
<1>2. ASSUME ReserveRead(p) \/ ReserveTruncate(p) \/ ReserveWrite(p) PROVE Alone(p)
  BY <1>2 DEF ReserveRead, ReserveTruncate, ReserveWrite
<1>3. ASSUME NEW n \in Names, GetKnownId(p, n) \/ GetIdExhausted(p, n) \/ GetNewId(p, n)
      PROVE  Alone(p)
  BY <1>3 DEF GetKnownId, GetIdExhausted, GetNewId
<1>4. ASSUME SkipModule(p) \/ SaveRead(p) \/ SaveTruncate(p) \/ SaveWrite(p)
      PROVE  Alone(p)
  BY <1>4 DEF SkipModule, SaveRead, SaveTruncate, SaveWrite
<1>5. ASSUME RecycleRead(p) \/ RecycleTruncate(p) \/ RecycleWrite(p) PROVE Alone(p)
  BY <1>5 DEF RecycleRead, RecycleTruncate, RecycleWrite
<1>6. ASSUME Crash(p) PROVE Alone(p)
  BY <1>6 DEF Crash
<1> QED BY <1>1, <1>2, <1>3, <1>4, <1>5, <1>6 DEF Step

(* The actions that do not touch the map file.                             *)
LEMMA StepElsewhere ==
  ASSUME TypeOK, MapLock, ~TornWrites, NEW p \in Procs,
         \/ Construct(p)
         \/ ReserveRead(p) \/ ReserveTruncate(p) \/ ReserveWrite(p)
         \/ \E n \in Names : GetKnownId(p, n) \/ GetIdExhausted(p, n) \/ GetNewId(p, n)
         \/ SkipModule(p)
         \/ RecycleRead(p) \/ RecycleTruncate(p) \/ RecycleWrite(p)
         \/ Crash(p)
  PROVE  Elsewhere(p)
<1> USE DEF TypeOK, Elsewhere, Saving, Files
<1>1. ASSUME Construct(p) PROVE Elsewhere(p)
  BY <1>1 DEF Construct
<1>2. ASSUME ReserveRead(p) \/ ReserveTruncate(p) \/ ReserveWrite(p) PROVE Elsewhere(p)
  BY <1>2 DEF ReserveRead, ReserveTruncate, ReserveWrite, Flock, Unlock
<1>3. ASSUME NEW n \in Names, GetKnownId(p, n) \/ GetIdExhausted(p, n) \/ GetNewId(p, n)
      PROVE  Elsewhere(p)
  BY <1>3 DEF GetKnownId, GetIdExhausted, GetNewId
<1>4. ASSUME SkipModule(p) PROVE Elsewhere(p)
  BY <1>4 DEF SkipModule
<1>5. ASSUME RecycleRead(p) \/ RecycleTruncate(p) \/ RecycleWrite(p) PROVE Elsewhere(p)
  BY <1>5 DEF RecycleRead, RecycleTruncate, RecycleWrite, Flock, Unlock
<1>6. ASSUME Crash(p) PROVE Elsewhere(p)
  BY <1>6 DEF Crash
<1> QED BY <1>1, <1>2, <1>3, <1>4, <1>5, <1>6

(* ... keep the lock discipline and the settled map.                       *)
LEMMA SettledElsewhere ==
  ASSUME TypeOK, MapLock, NEW p \in Procs, Alone(p), Elsewhere(p)
  PROVE  MapLock' /\ SettledMap' = SettledMap
<1>1. MapLock'
  BY DEF MapLock, Alone, Elsewhere
<1>2. CASE \E q \in Procs : pc[q] = "saveWrite"
  <2>1. PICK q \in Procs : pc[q] = "saveWrite"
    BY <1>2
  <2>2. q # p /\ pc'[q] = "saveWrite" /\ idMap'[q] = idMap[q]
    BY <2>1 DEF Alone, Elsewhere
  <2> QED BY <1>1, <2>1, <2>2, SettledFacts, SettledNext DEF SettledIs
<1>3. CASE \A q \in Procs : pc[q] # "saveWrite"
  <2>1. \A q \in Procs : pc'[q] # "saveWrite"
    BY <1>3 DEF Alone, Elsewhere, Saving
  <2> QED BY <1>1, <1>3, <2>1, SettledFacts, SettledNext DEF SettledIs, Elsewhere
<1> QED BY <1>1, <1>2, <1>3

(* saveMap's lock and read, its truncation and its write.                  *)
LEMMA SettledSave ==
  ASSUME TypeOK, MapLock, ~FlockMayFail, NEW p \in Procs
  PROVE  /\ SaveRead(p) => /\ MapLock' /\ SettledMap' = SettledMap
                           /\ SettledMap = mapFile
         /\ SaveTruncate(p) => /\ MapLock' /\ SettledMap' = idMap[p]
                               /\ SettledMap = mapFile
         /\ SaveWrite(p) => MapLock' /\ SettledMap' = SettledMap /\ SettledMap = idMap[p]
<1>1. ASSUME SaveRead(p)
      PROVE  MapLock' /\ SettledMap' = SettledMap /\ SettledMap = mapFile
  <2>1. /\ holder["map"] = NoProc /\ holder'["map"] = p
        /\ pc'[p] = "saveRead" /\ UNCHANGED mapFile
        /\ \A q \in Procs : q # p => pc'[q] = pc[q]
    BY <1>1 DEF TypeOK, SaveRead, Flock, Files
  <2>2. \A q \in Procs : pc[q] \notin Saving
    BY <2>1, IdMapAssumption DEF MapLock
  <2>3. MapLock'
    BY <2>1, <2>2 DEF MapLock
  <2>4. \A q \in Procs : pc[q] # "saveWrite" /\ pc'[q] # "saveWrite"
    BY <2>1, <2>2 DEF Saving
  <2> QED BY <2>1, <2>3, <2>4, SettledFacts, SettledNext DEF SettledIs
<1>2. ASSUME SaveTruncate(p)
      PROVE  MapLock' /\ SettledMap' = idMap[p] /\ SettledMap = mapFile
  <2>1. /\ pc[p] = "saveRead" /\ pc'[p] = "saveWrite"
        /\ UNCHANGED <<holder, idMap>>
        /\ \A q \in Procs : q # p => pc'[q] = pc[q]
    BY <1>2 DEF TypeOK, SaveTruncate
  <2>2. \A q \in Procs : q # p => pc[q] \notin Saving
    BY <2>1 DEF MapLock, Saving
  <2>3. MapLock'
    BY <2>1, <2>2 DEF MapLock, Saving
  <2>4. \A q \in Procs : pc[q] # "saveWrite"
    BY <2>1, <2>2 DEF Saving
  <2> QED BY <2>1, <2>3, <2>4, SettledFacts, SettledNext DEF SettledIs
<1>3. ASSUME SaveWrite(p)
      PROVE  MapLock' /\ SettledMap' = SettledMap /\ SettledMap = idMap[p]
  <2>1. /\ pc[p] = "saveWrite" /\ pc'[p] = "recycle" /\ mapFile' = idMap[p]
        /\ \A q \in Procs : q # p => pc'[q] = pc[q]
    BY <1>3 DEF TypeOK, SaveWrite
  <2>2. \A q \in Procs : q # p => pc[q] \notin Saving
    BY <2>1 DEF MapLock, Saving
  <2>3. MapLock'
    BY <2>1, <2>2 DEF MapLock, Saving
  <2>4. \A q \in Procs : pc'[q] # "saveWrite"
    BY <2>1, <2>2 DEF Saving
  <2> QED BY <2>1, <2>3, <2>4, SettledFacts, SettledNext DEF SettledIs
<1> QED BY <1>1, <1>2, <1>3

-----------------------------------------------------------------------------
(* The invariant is inductive.                                             *)

(* Init establishes it.                                                    *)
LEMMA MapInit == Init => MapInv
<1> SUFFICES ASSUME Init PROVE MapInv
  OBVIOUS
<1>1. MapLock /\ MergedInv
  BY DEF Init, MapLock, MergedInv, Saving
<1>2. Agreed /\ Covered
  BY DEF Init, Agreed, Covered, EmptyMap
<1> QED BY <1>1, <1>2 DEF MapInv

(* A step that leaves the settled map alone has to answer for the copy and *)
(* the object code of its own process only.                                *)
LEMMA MapInvLocal ==
  ASSUME TypeOK, MapInv, NEW p \in Procs, Alone(p),
         MapLock', SettledMap' = SettledMap,
         pc'[p] \notin Saving \cup {"crashed"} =>
           \A n \in Names : idMap'[p][n] # NoId => idMap'[p][n] = SettledMap[n],
         pc'[p] = "saveRead" =>
           \A n \in Names : idMap'[p][n] = IF SettledMap[n] # NoId THEN SettledMap[n]
                                                                 ELSE newIdMap'[p][n],
         \A a \in emitted'[p] :
           \/ idMap'[p][a[1]] # NoId
           \/ pc'[p] \notin Saving \cup Leaving /\ newIdMap'[p][a[1]] # NoId
  PROVE  MapInv'
<1>1. Agreed'
  <2>1. ASSUME NEW q \in Procs, q # p, pc'[q] \notin Saving \cup {"crashed"},
               NEW n \in Names, idMap'[q][n] # NoId
        PROVE  idMap'[q][n] = SettledMap[n]
    BY <2>1 DEF Alone, MapInv, Agreed
  <2> QED BY <2>1 DEF Agreed
<1>2. MergedInv'
  <2>1. ASSUME NEW q \in Procs, q # p, pc'[q] = "saveRead", NEW n \in Names
        PROVE  idMap'[q][n] = IF SettledMap[n] # NoId THEN SettledMap[n]
                                                      ELSE newIdMap'[q][n]
    BY <2>1 DEF Alone, MapInv, MergedInv
  <2> QED BY <2>1 DEF MergedInv
<1>3. Covered'
  <2>1. ASSUME NEW q \in Procs, q # p, NEW a \in emitted'[q]
        PROVE  \/ idMap'[q][a[1]] # NoId
               \/ pc'[q] \notin Saving \cup Leaving /\ newIdMap'[q][a[1]] # NoId
    BY <2>1 DEF Alone, MapInv, Covered
  <2> QED BY <2>1 DEF Covered
<1> QED BY <1>1, <1>2, <1>3 DEF MapInv

(* The constructor's read of the map, with its lock free.                  *)
LEMMA ConstructMap ==
  ASSUME TypeOK, MapInv, ~FlockMayFail, NEW p \in Procs, Construct(p)
  PROVE  /\ SettledMap = mapFile
         /\ \A n \in Names : idMap'[p][n] = SettledMap[n]
<1>1. \A q \in Procs : pc[q] # "saveWrite"
  BY IdMapAssumption DEF Construct, MapInv, MapLock, Saving
<1>2. SettledMap = mapFile
  BY <1>1, SettledFacts DEF MapInv, SettledIs
<1>3. /\ pc[p] = "idle"
      /\ idMap'[p] = [n \in Names |-> IF mapFile[n] # NoId THEN mapFile[n] ELSE idMap[p][n]]
  BY DEF TypeOK, Construct, Loaded, Overlay
<1>4. \A n \in Names : idMap[p][n] # NoId => idMap[p][n] = SettledMap[n]
  BY <1>3 DEF MapInv, Agreed, Saving
<1> QED BY <1>2, <1>3, <1>4

(* saveMap's merge.                                                        *)
LEMMA SaveReadMap ==
  ASSUME TypeOK, MapInv, ~FlockMayFail, NEW p \in Procs, SaveRead(p)
  PROVE  \A n \in Names : idMap'[p][n] = IF SettledMap[n] # NoId THEN SettledMap[n]
                                                                 ELSE newIdMap[p][n]
<1>1. SettledMap = mapFile
  BY SettledSave DEF MapInv
<1>2. pc[p] = "running" /\ idMap'[p] = Merged(p)
  BY DEF TypeOK, SaveRead
<1>3. \A n \in Names : idMap[p][n] # NoId => idMap[p][n] = SettledMap[n]
  BY <1>2 DEF MapInv, Agreed, Saving
<1>4. \A n \in Names : Loaded(p)[n] = IF mapFile[n] # NoId THEN mapFile[n] ELSE idMap[p][n]
  BY DEF Loaded, Overlay
<1>5. \A n \in Names : Merged(p)[n] = IF Loaded(p)[n] # NoId THEN Loaded(p)[n] ELSE newIdMap[p][n]
  BY DEF Merged, Overlay
<1> QED BY <1>1, <1>2, <1>3, <1>4, <1>5

(* The settled map changes by saveMap's truncation only, which gives names *)
(* that had no id one that its process allocated.                          *)
LEMMA SaveTruncateMap ==
  ASSUME TypeOK, MapInv, ~FlockMayFail, NEW p \in Procs, SaveTruncate(p)
  PROVE  \A n \in Names : SettledMap'[n] = IF SettledMap[n] # NoId THEN SettledMap[n]
                                                                    ELSE newIdMap[p][n]
<1>1. SettledMap' = idMap[p] /\ pc[p] = "saveRead"
  BY SettledSave DEF MapInv, SaveTruncate
<1> QED BY <1>1 DEF MapInv, MergedInv

(* Every step keeps the invariant.                                         *)
LEMMA MapStep ==
  ASSUME ~FlockMayFail, ~TornWrites
  PROVE  TypeOK /\ MapInv /\ [Next]_vars => MapInv'
<1> SUFFICES ASSUME TypeOK, MapInv, [Next]_vars PROVE MapInv'
  OBVIOUS
<1>0. MapLock
  BY DEF MapInv
<1>1. ASSUME NEW p \in Procs, Construct(p) PROVE MapInv'
  <2>1. Alone(p) /\ Elsewhere(p)
    BY <1>0, <1>1, StepAlone, StepElsewhere
  <2>2. MapLock' /\ SettledMap' = SettledMap
    BY <1>0, <2>1, SettledElsewhere
  <2>3. pc[p] = "idle" /\ pc'[p] = "reserve" /\ emitted'[p] = emitted[p]
        /\ newIdMap'[p] = newIdMap[p]
    BY <1>1 DEF TypeOK, Construct
  <2>4. \A n \in Names : idMap'[p][n] = SettledMap[n]
    BY <1>1, ConstructMap
  <2>5. \A n \in Names : idMap[p][n] # NoId => idMap[p][n] = SettledMap[n]
    BY <2>3 DEF MapInv, Agreed, Saving
  <2>6. ASSUME NEW a \in emitted'[p]
        PROVE  idMap'[p][a[1]] # NoId \/ newIdMap'[p][a[1]] # NoId
    <3>1. a[1] \in Names
      BY <2>3 DEF TypeOK
    <3> QED BY <2>3, <2>4, <2>5, <3>1 DEF MapInv, Covered
  <2>7. pc'[p] \notin Saving \cup Leaving
    BY <2>3 DEF Saving, Leaving
  <2> QED BY <2>1, <2>2, <2>3, <2>4, <2>6, <2>7, MapInvLocal
<1>2. ASSUME NEW p \in Procs,
             \/ ReserveRead(p) \/ ReserveTruncate(p) \/ ReserveWrite(p)
             \/ \E n \in Names : GetIdExhausted(p, n)
             \/ SkipModule(p)
             \/ RecycleRead(p) \/ RecycleTruncate(p) \/ RecycleWrite(p)
             \/ Crash(p)
      PROVE  MapInv'
  <2>1. Alone(p) /\ Elsewhere(p)
    BY <1>0, <1>2, StepAlone, StepElsewhere DEF Step
  <2>2. MapLock' /\ SettledMap' = SettledMap
    BY <1>0, <2>1, SettledElsewhere
  <2>3. UNCHANGED <<idMap, newIdMap, emitted>>
    BY <1>2 DEF ReserveRead, ReserveTruncate, ReserveWrite, GetIdExhausted, SkipModule,
           RecycleRead, RecycleTruncate, RecycleWrite, Crash
  <2>4. /\ pc'[p] \notin Saving
        /\ pc'[p] # "crashed" => pc[p] \notin Saving \cup {"crashed"}
        /\ pc'[p] \in Leaving => pc[p] \in Leaving \/ emitted[p] = {}
    BY <1>2 DEF TypeOK, ReserveRead, ReserveTruncate, ReserveWrite, GetIdExhausted,
           SkipModule, RecycleRead, RecycleTruncate, RecycleWrite, Crash, Saving, Leaving
  <2>5. ASSUME pc'[p] # "crashed", NEW n \in Names, idMap'[p][n] # NoId
        PROVE  idMap'[p][n] = SettledMap[n]
    BY <2>3, <2>4, <2>5 DEF MapInv, Agreed
  <2>6. ASSUME NEW a \in emitted'[p]
        PROVE  \/ idMap'[p][a[1]] # NoId
               \/ pc'[p] \notin Saving \cup Leaving /\ newIdMap'[p][a[1]] # NoId
    BY <2>3, <2>4 DEF MapInv, Covered
  <2>7. pc'[p] # "saveRead"
    BY <2>4 DEF Saving
  <2> QED BY <2>1, <2>2, <2>5, <2>6, <2>7, MapInvLocal
<1>3. ASSUME NEW p \in Procs, NEW n \in Names, GetKnownId(p, n) \/ GetNewId(p, n)
      PROVE  MapInv'
  <2>1. Alone(p) /\ Elsewhere(p)
    BY <1>0, <1>3, StepAlone, StepElsewhere DEF Step
  <2>2. MapLock' /\ SettledMap' = SettledMap
    BY <1>0, <2>1, SettledElsewhere
  <2>3. /\ pc[p] = "running" /\ UNCHANGED <<pc, idMap>>
        /\ \A m \in Names : newIdMap[p][m] # NoId => newIdMap'[p][m] # NoId
        /\ \A a \in emitted'[p] : a \in emitted[p] \/ a[1] = n
        /\ idMap[p][n] # NoId \/ newIdMap'[p][n] # NoId
    <3>1. CASE GetKnownId(p, n)
      BY <3>1 DEF TypeOK, GetKnownId
    <3>2. CASE GetNewId(p, n)
      <4>1. curchunk[p].start \in Nat
        BY DEF TypeOK, Chunk
      <4>2. curchunk[p].start # NoId
        BY <4>1 DEF NoId
      <4> QED BY <3>2, <4>2 DEF TypeOK, GetNewId
    <3> QED BY <1>3, <3>1, <3>2
  <2>4. ASSUME NEW m \in Names, idMap'[p][m] # NoId PROVE idMap'[p][m] = SettledMap[m]
    BY <2>3, <2>4 DEF MapInv, Agreed, Saving
  <2>5. ASSUME NEW a \in emitted'[p]
        PROVE  idMap'[p][a[1]] # NoId \/ newIdMap'[p][a[1]] # NoId
    <3>1. CASE a \in emitted[p]
      <4>1. a[1] \in Names
        BY <3>1 DEF TypeOK
      <4> QED BY <2>3, <3>1, <4>1 DEF MapInv, Covered
    <3>2. CASE a[1] = n
      BY <2>3, <3>2
    <3> QED BY <2>3, <3>1, <3>2
  <2>6. pc'[p] \notin Saving \cup Leaving
    BY <2>3 DEF Saving, Leaving
  <2>7. pc'[p] # "saveRead"
    BY <2>3
  <2> QED BY <2>1, <2>2, <2>4, <2>5, <2>6, <2>7, MapInvLocal
<1>4. ASSUME NEW p \in Procs, SaveRead(p) PROVE MapInv'
  <2>1. Alone(p)
    BY <1>4, StepAlone DEF Step
  <2>2. MapLock' /\ SettledMap' = SettledMap
    BY <1>0, <1>4, SettledSave
  <2>3. pc[p] = "running" /\ pc'[p] = "saveRead" /\ UNCHANGED <<newIdMap, emitted>>
    BY <1>4 DEF TypeOK, SaveRead
  <2>4. \A n \in Names : idMap'[p][n] = IF SettledMap[n] # NoId THEN SettledMap[n]
                                                                ELSE newIdMap'[p][n]
    BY <1>4, <2>3, SaveReadMap
  <2>5. ASSUME NEW a \in emitted'[p] PROVE idMap'[p][a[1]] # NoId
    <3>1. a[1] \in Names /\ a \in emitted[p]
      BY <2>3 DEF TypeOK
    <3>2. idMap[p][a[1]] # NoId => SettledMap[a[1]] # NoId
      BY <2>3, <3>1 DEF MapInv, Agreed, Saving
    <3>3. idMap[p][a[1]] # NoId \/ newIdMap[p][a[1]] # NoId
      BY <3>1 DEF MapInv, Covered
    <3> QED BY <2>3, <2>4, <3>1, <3>2, <3>3
  <2>6. pc'[p] \in Saving
    BY <2>3 DEF Saving
  <2> QED BY <2>1, <2>2, <2>4, <2>5, <2>6, MapInvLocal
<1>5. ASSUME NEW p \in Procs, SaveTruncate(p) PROVE MapInv'
  <2>1. Alone(p)
    BY <1>5, StepAlone DEF Step
  <2>2. MapLock' /\ SettledMap' = idMap[p]
    BY <1>0, <1>5, SettledSave
  <2>3. /\ pc[p] = "saveRead" /\ pc'[p] = "saveWrite"
        /\ UNCHANGED <<idMap, newIdMap, emitted>>
    BY <1>5 DEF TypeOK, SaveTruncate
  <2>4. \A n \in Names : SettledMap[n] # NoId => SettledMap'[n] = SettledMap[n]
    BY <1>5, SaveTruncateMap
  <2>5. \A q \in Procs : q # p => pc[q] \notin Saving /\ pc'[q] = pc[q]
    BY <1>0, <2>1, <2>3 DEF MapLock, Saving, Alone
  <2>6. Agreed'
    <3> SUFFICES ASSUME NEW q \in Procs, pc'[q] \notin Saving \cup {"crashed"},
                        NEW n \in Names, idMap'[q][n] # NoId
                 PROVE  idMap'[q][n] = SettledMap'[n]
      BY DEF Agreed
    <3>1. q # p /\ pc[q] \notin Saving \cup {"crashed"}
      BY <2>3, <2>5 DEF Saving
    <3>2. idMap[q][n] = SettledMap[n]
      BY <2>3, <3>1 DEF MapInv, Agreed
    <3> QED BY <2>3, <2>4, <3>2
  <2>7. MergedInv'
    BY <2>3, <2>5 DEF MergedInv, Saving
  <2>8. Covered'
    BY <2>3, <2>5 DEF MapInv, Covered, Saving, Leaving
  <2> QED BY <2>2, <2>6, <2>7, <2>8 DEF MapInv
<1>6. ASSUME NEW p \in Procs, SaveWrite(p) PROVE MapInv'
  <2>1. Alone(p)
    BY <1>6, StepAlone DEF Step
  <2>2. MapLock' /\ SettledMap' = SettledMap /\ SettledMap = idMap[p]
    BY <1>0, <1>6, SettledSave
  <2>3. /\ pc[p] = "saveWrite" /\ pc'[p] = "recycle"
        /\ UNCHANGED <<idMap, newIdMap, emitted>>
    BY <1>6 DEF TypeOK, SaveWrite
  <2>4. ASSUME NEW a \in emitted'[p] PROVE idMap'[p][a[1]] # NoId
    BY <2>3 DEF MapInv, Covered, Saving
  <2>5. pc'[p] # "saveRead"
    BY <2>3
  <2> QED BY <2>1, <2>2, <2>3, <2>4, <2>5, MapInvLocal
<1>7. CASE UNCHANGED vars
  <2>1. /\ mapFile' = mapFile /\ holder' = holder /\ pc' = pc /\ idMap' = idMap
        /\ newIdMap' = newIdMap /\ emitted' = emitted
    BY <1>7 DEF vars
  <2>2. SettledMap' = SettledMap
    BY <2>1 DEF SettledMap
  <2>3. MapLock' /\ Agreed'
    BY <2>1, <2>2 DEF MapInv, MapLock, Agreed
  <2>4. MergedInv' /\ Covered'
    BY <2>1, <2>2 DEF MapInv, MergedInv, Covered
  <2> QED BY <2>3, <2>4 DEF MapInv
<1> QED
  BY <1>1, <1>2, <1>3, <1>4, <1>5, <1>6, <1>7 DEF Next, Step, Terminated

(* Both invariants together.                                               *)
LEMMA MapAlways ==
  ASSUME ~FlockMayFail, ~TornWrites
  PROVE  Spec => [](Inv /\ MapInv)
<1>1. Init => Inv /\ MapInv
  BY InvInit, MapInit
<1>2. Inv /\ MapInv /\ [Next]_vars => (Inv /\ MapInv)'
  <2>1. Inv => TypeOK
    BY DEF Inv
  <2> QED BY <2>1, InvStep, MapStep
<1> QED BY <1>1, <1>2, PTL DEF Spec

(* No lost update: when saveMap has returned, the names of the compilation *)
(* are in the map file and stay there, whatever any number of other        *)
(* compilations merge, write or leave undone.                              *)
THEOREM SavedNamesRemain ==
  ASSUME ~FlockMayFail, ~TornWrites
  PROVE  Spec => []SavedNamesStay
<1>1. Inv /\ MapInv => SavedNamesStay
  <2> SUFFICES ASSUME Inv, MapInv, NEW p \in Procs, Saved(p), NEW a \in emitted[p]
               PROVE  SettledMap[a[1]] # NoId
    BY DEF SavedNamesStay
  <2>1. pc[p] \in Leaving /\ pc[p] \notin Saving \cup {"crashed"}
    BY DEF Saved, Leaving, Saving
  <2>2. a[1] \in Names
    BY DEF Inv, TypeOK
  <2>3. idMap[p][a[1]] # NoId
    BY <2>1 DEF MapInv, Covered
  <2> QED BY <2>1, <2>2, <2>3 DEF MapInv, Agreed
<1> QED BY <1>1, MapAlways, PTL

-----------------------------------------------------------------------------
(* The refinement.                                                         *)

Issued ==
  UNION {{<<n, newIdMap[p][n]>> : n \in {m \in Names : newIdMap[p][m] # NoId}} :
           p \in Procs}

(* What it is to be issued.                                                *)
LEMMA IssuedFacts ==
  \A e : e \in Issued <=>
    \E p \in Procs : \E n \in Names : newIdMap[p][n] # NoId /\ e = <<n, newIdMap[p][n]>>
BY DEF Issued

(* getId with a new string issues one fresh pair.                          *)
LEMMA DrawIssues ==
  ASSUME Inv, MapInv, ~TornWrites, NEW p \in Procs, NEW n \in Names, GetNewId(p, n)
  PROVE  Registry!Issue
<1> DEFINE id == curchunk[p].start
<1>1. /\ newIdMap' = [newIdMap EXCEPT ![p][n] = id]
      /\ newIdMap[p][n] = NoId
      /\ pc[p] = "running"
  BY DEF GetNewId, Unknown
<1>2. id \in Nat /\ id # NoId
  <2>1. curchunk[p] \in Chunk
    BY DEF Inv, TypeOK
  <2> QED BY <2>1 DEF Chunk, NoId
<1>3. \A q \in Procs : \A a \in emitted[q] : a[2] # id
  <2>1. curchunk \in Chunks /\ emitted \in Emits /\ Held(curchunk, emitted)
    BY DEF Inv, TypeOK, Chunks, Emits
  <2>2. Holds(curchunk[p])
    BY <1>1 DEF Inv, PcInv
  <2>3. \/ want[p] = n /\ n # NoName
        \/ curchunk[p].start <= curchunk[p].end
    BY IdMapAssumption DEF GetNewId
  <2>4. curchunk[p].start <= curchunk[p].end
    BY <1>1, <2>2, <2>3 DEF Inv, PcInv
  <2> QED BY <2>1, <2>2, <2>4, DrawSound
<1> HIDE DEF id
<1>4. /\ newIdMap'[p][n] = id
      /\ \A q \in Procs, m \in Names :
           q # p \/ m # n => newIdMap'[q][m] = newIdMap[q][m]
  BY <1>1 DEF Inv, TypeOK
<1>5. Issued' = Issued \cup {<<n, id>>}
  <2>1. ASSUME NEW e \in Issued' PROVE e \in Issued \cup {<<n, id>>}
    <3>1. PICK q \in Procs, m \in Names : newIdMap'[q][m] # NoId /\ e = <<m, newIdMap'[q][m]>>
      BY <2>1 DEF Issued
    <3>2. CASE q = p /\ m = n
      BY <3>1, <3>2, <1>4
    <3>3. CASE ~(q = p /\ m = n)
      BY <3>1, <3>3, <1>4, IssuedFacts
    <3> QED BY <3>2, <3>3
  <2>2. ASSUME NEW e \in Issued PROVE e \in Issued'
    <3>1. PICK q \in Procs, m \in Names : newIdMap[q][m] # NoId /\ e = <<m, newIdMap[q][m]>>
      BY <2>2, IssuedFacts
    <3>2. newIdMap'[q][m] # NoId /\ e = <<m, newIdMap'[q][m]>>
      BY <3>1, <1>1, <1>4
    <3> QED BY <3>2 DEF Issued
  <2>3. <<n, id>> \in Issued'
    BY <1>2, <1>4 DEF Issued
  <2> QED BY <2>1, <2>2, <2>3
<1>6. \A old \in Issued : old[2] # id
  BY <1>3, IssuedFacts DEF Inv, PairsInv, InObject
<1>7. SettledMap' = SettledMap
  <2>1. Alone(p) /\ Elsewhere(p)
    BY StepAlone, StepElsewhere DEF Step, Inv, MapInv
  <2> QED BY <2>1, SettledElsewhere DEF Inv, MapInv
<1>8. /\ <<n, id>> \in Issued' /\ Issued' = Issued \cup {<<n, id>>}
      /\ <<n, id>> \in Names \X Nat
      /\ \A old \in Issued : old[2] # <<n, id>>[2]
  BY <1>2, <1>5, <1>6
<1> QED BY <1>7, <1>8 DEF Registry!Issue, Issued

(* saveMap's truncation settles what the process is about to write: it     *)
(* publishes the process's ids for names that had none.                    *)
LEMMA SavePublishes ==
  ASSUME TypeOK, MapInv, ~FlockMayFail, ~TornWrites, NEW p \in Procs, SaveTruncate(p)
  PROVE  Registry!Publish
<1>1. UNCHANGED newIdMap /\ Issued' = Issued
  BY DEF SaveTruncate, Issued
<1>2. SettledMap' \in [Names -> Nat \cup {NoId}]
  BY SettledSave DEF TypeOK, MapInv
<1>3. ASSUME NEW n \in Names
      PROVE  \/ SettledMap'[n] = SettledMap[n]
             \/ SettledMap[n] = NoId /\ <<n, SettledMap'[n]>> \in Issued
  <2>1. SettledMap'[n] = IF SettledMap[n] # NoId THEN SettledMap[n] ELSE newIdMap[p][n]
    BY SaveTruncateMap
  <2> QED BY <2>1, IssuedFacts
<1> QED BY <1>1, <1>2, <1>3 DEF Registry!Publish, Issued

(* Every other step leaves the registry as it is.                          *)
LEMMA OthersStutter ==
  ASSUME TypeOK, MapInv, ~FlockMayFail, ~TornWrites, NEW p \in Procs,
         \/ Construct(p)
         \/ ReserveRead(p) \/ ReserveTruncate(p) \/ ReserveWrite(p)
         \/ \E n \in Names : GetKnownId(p, n) \/ GetIdExhausted(p, n)
         \/ SkipModule(p) \/ SaveRead(p) \/ SaveWrite(p)
         \/ RecycleRead(p) \/ RecycleTruncate(p) \/ RecycleWrite(p)
         \/ Crash(p)
  PROVE  Issued' = Issued /\ SettledMap' = SettledMap
<1>1. UNCHANGED newIdMap
  BY DEF Construct, ReserveRead, ReserveTruncate, ReserveWrite, GetKnownId,
         GetIdExhausted, SkipModule, SaveRead, SaveWrite, RecycleRead,
         RecycleTruncate, RecycleWrite, Crash
<1>2. SettledMap' = SettledMap
  <2>1. CASE SaveRead(p) \/ SaveWrite(p)
    BY <2>1, SettledSave DEF MapInv
  <2>2. CASE ~(SaveRead(p) \/ SaveWrite(p))
    <3>1. Alone(p)
      BY StepAlone DEF Step
    <3>2. Elsewhere(p)
      BY <2>2, StepElsewhere DEF MapInv
    <3> QED BY <3>1, <3>2, SettledElsewhere DEF MapInv
  <2> QED BY <2>1, <2>2
<1> QED BY <1>1, <1>2 DEF Issued

(* Chunks, locks, truncations and merges are details: seen from the pairs  *)
(* issued and the map the next reader finds, every step of the compilers   *)
(* is a step of the registry or none, so ids are fresh and the map only    *)
(* grows, by issued pairs.                                                 *)
THEOREM MapsImplementRegistry ==
  ASSUME ~FlockMayFail, ~TornWrites
  PROVE  Spec => RegistrySpec
<1>1. Init => Registry!Init
  <2> SUFFICES ASSUME Init PROVE Registry!Init
    OBVIOUS
  <2>1. Issued = {}
    BY DEF Init, Issued, EmptyMap
  <2>2. SettledMap = EmptyMap
    BY DEF Init, SettledMap, Writing
  <2> QED BY <2>1, <2>2 DEF Registry!Init, Issued, EmptyMap
<1>2. Inv /\ MapInv /\ [Next]_vars => [Registry!Next]_(Registry!vars)
  <2> SUFFICES ASSUME Inv, MapInv, [Next]_vars
               PROVE  \/ Registry!Issue \/ Registry!Publish
                      \/ Issued' = Issued /\ SettledMap' = SettledMap
    BY DEF Registry!Next, Registry!vars, Issued
  <2>0. TypeOK
    BY DEF Inv
  <2>1. CASE \E p \in Procs : \E n \in Names : GetNewId(p, n)
    BY <2>1, DrawIssues
  <2>2. CASE \E p \in Procs : SaveTruncate(p)
    BY <2>0, <2>2, SavePublishes
  <2>3. CASE UNCHANGED vars
    BY <2>3 DEF vars, SettledMap, Issued
  <2>4. CASE \E p \in Procs :
               \/ Construct(p)
               \/ ReserveRead(p) \/ ReserveTruncate(p) \/ ReserveWrite(p)
               \/ \E n \in Names : GetKnownId(p, n) \/ GetIdExhausted(p, n)
               \/ SkipModule(p) \/ SaveRead(p) \/ SaveWrite(p)
               \/ RecycleRead(p) \/ RecycleTruncate(p) \/ RecycleWrite(p)
               \/ Crash(p)
    BY <2>0, <2>4, OthersStutter
  <2> QED BY <2>1, <2>2, <2>3, <2>4 DEF Next, Step, Terminated
<1> QED BY <1>1, <1>2, MapAlways, PTL DEF Spec, RegistrySpec, Registry!Spec

-----------------------------------------------------------------------------
(* Which id the map has for a name.                                        *)

(* A rival stays one: nothing is forgotten.                                *)
LEMMA RivalStays ==
  ASSUME NEW p \in Procs, NEW n \in Names, met \subseteq met',
         SettledMap'[n] = SettledMap[n],
         \A q \in Procs : emitted[q] \subseteq emitted'[q]
  PROVE  Rival(p, n) => Rival(p, n)'
BY DEF Rival

(* Steps that leave the settled map alone have to answer for their process *)
(* only.                                                                   *)
LEMMA MetLocal ==
  ASSUME MetInv, NEW p \in Procs, Alone(p), met \subseteq met',
         SettledMap' = SettledMap, emitted[p] \subseteq emitted'[p],
         \A n \in Names : newIdMap'[p][n] # NoId =>
           pc'[p] # "idle" /\ <<n, newIdMap'[p][n]>> \in emitted'[p],
         pc'[p] # "crashed" => \A a \in emitted'[p] :
           a[2] = newIdMap'[p][a[1]] \/ a[2] = SettledMap[a[1]],
         pc'[p] \notin {"idle", "crashed"} => \A n \in Names :
           SettledMap[n] # NoId /\ Own(p, n)' =>
             SettledMap[n] = newIdMap'[p][n] \/ Rival(p, n)
  PROVE  MetInv'
<1>1. OwnEmitted'
  BY DEF MetInv, OwnEmitted, Alone
<1>2. EmittedFrom'
  BY DEF MetInv, EmittedFrom, Alone
<1>3. RivalInv'
  <2> SUFFICES ASSUME NEW q \in Procs, pc'[q] \notin {"idle", "crashed"}, NEW n \in Names,
                      SettledMap'[n] # NoId, Own(q, n)'
               PROVE  SettledMap'[n] = newIdMap'[q][n] \/ Rival(q, n)'
    BY DEF RivalInv
  <2>1. \A r \in Procs : emitted[r] \subseteq emitted'[r]
    BY DEF Alone
  <2>2. Rival(q, n) => Rival(q, n)'
    BY <2>1, RivalStays
  <2>3. CASE q = p
    BY <2>2, <2>3
  <2>4. CASE q # p
    <3>1. Own(q, n) /\ pc[q] = pc'[q] /\ newIdMap'[q][n] = newIdMap[q][n]
      BY <2>4 DEF Own, Alone
    <3>2. SettledMap[n] = newIdMap[q][n] \/ Rival(q, n)
      BY <3>1 DEF MetInv, RivalInv
    <3> QED BY <2>2, <3>1, <3>2
  <2> QED BY <2>3, <2>4
<1> QED BY <1>1, <1>2, <1>3 DEF MetInv

(* The truncation: the names that are new in the map were known to no      *)
(* finished compilation, and whoever is under way meets their owner.       *)
LEMMA MetTruncate ==
  ASSUME TypeOK, MapInv, MetInv, ~FlockMayFail, NEW p \in Procs, SaveTruncate(p),
         met' = met \cup Overlapping'
  PROVE  MetInv'
<1>1. /\ pc[p] = "saveRead" /\ pc'[p] = "saveWrite"
      /\ UNCHANGED <<idMap, newIdMap, emitted>>
      /\ \A q \in Procs : q # p => pc'[q] = pc[q]
  BY DEF TypeOK, SaveTruncate
<1>2. \A n \in Names : SettledMap'[n] = IF SettledMap[n] # NoId THEN SettledMap[n]
                                                               ELSE newIdMap[p][n]
  BY SaveTruncateMap
<1>3. OwnEmitted'
  BY <1>1 DEF MetInv, OwnEmitted
<1>4. EmittedFrom'
  <2> SUFFICES ASSUME NEW q \in Procs, pc'[q] # "crashed", NEW a \in emitted[q]
               PROVE  a[2] = newIdMap[q][a[1]] \/ a[2] = SettledMap'[a[1]]
    BY <1>1 DEF EmittedFrom
  <2>1. pc[q] # "crashed" /\ a[1] \in Names /\ a[2] \in Nat /\ a[2] # NoId
    BY <1>1 DEF TypeOK, NoId
  <2>2. a[2] = newIdMap[q][a[1]] \/ a[2] = SettledMap[a[1]]
    BY <2>1 DEF MetInv, EmittedFrom
  <2> QED BY <1>2, <2>1, <2>2
<1>5. RivalInv'
  <2> SUFFICES ASSUME NEW q \in Procs, pc'[q] \notin {"idle", "crashed"}, NEW n \in Names,
                      SettledMap'[n] # NoId, Own(q, n)'
               PROVE  SettledMap'[n] = newIdMap'[q][n] \/ Rival(q, n)'
    BY DEF RivalInv
  <2>1. pc[q] \notin {"idle", "crashed"} /\ Own(q, n)
    BY <1>1 DEF Own, Saving, Leaving
  <2>2. CASE SettledMap[n] # NoId
    <3>1. SettledMap[n] = newIdMap[q][n] \/ Rival(q, n)
      BY <2>1, <2>2 DEF MetInv, RivalInv
    <3>2. Rival(q, n) => Rival(q, n)'
      BY <1>1, <1>2, <2>2, RivalStays
    <3> QED BY <1>1, <1>2, <2>2, <3>1, <3>2
  <2>3. CASE SettledMap[n] = NoId
    <3>1. SettledMap'[n] = newIdMap[p][n] /\ newIdMap[p][n] # NoId
      BY <1>2, <2>3
    <3>2. <<n, SettledMap'[n]>> \in emitted'[p]
      BY <1>1, <3>1 DEF MetInv, OwnEmitted
    <3>3. CASE q = p
      BY <1>1, <3>1, <3>3
    <3>4. CASE q # p
      <4>1. pc[q] # "done"
        <5> SUFFICES ASSUME pc[q] = "done" PROVE FALSE
          OBVIOUS
        <5>1. newIdMap[q][n] # NoId
          BY <2>1 DEF Own, Leaving
        <5>2. <<n, newIdMap[q][n]>> \in emitted[q]
          BY <5>1 DEF MetInv, OwnEmitted
        <5>3. idMap[q][n] # NoId
          BY <5>2 DEF MapInv, Covered, Leaving
        <5>4. idMap[q][n] = SettledMap[n]
          BY <5>3 DEF MapInv, Agreed, Saving
        <5> QED BY <2>3, <5>3, <5>4
      <4>2. Live(q)' /\ Live(p)'
        BY <1>1, <2>1, <3>4, <4>1 DEF Live
      <4>3. <<q, p>> \in met'
        BY <4>2 DEF Overlapping
      <4> QED BY <3>2, <3>4, <4>3 DEF Rival
    <3> QED BY <3>3, <3>4
  <2> QED BY <2>2, <2>3
<1> QED BY <1>3, <1>4, <1>5 DEF MetInv

(* Drawing an id: if the map has one for the name already, it came in while*)
(* the process was under way.                                              *)
LEMMA MetDraw ==
  ASSUME TypeOK, MapInv, MetInv, ~TornWrites, NEW p \in Procs, NEW n \in Names,
         GetNewId(p, n), met \subseteq met'
  PROVE  MetInv'
<1> DEFINE id == curchunk[p].start
<1>1. /\ newIdMap' = [newIdMap EXCEPT ![p][n] = id]
      /\ emitted' = [emitted EXCEPT ![p] = @ \cup {<<n, id>>}]
      /\ newIdMap[p][n] = NoId /\ idMap[p][n] = NoId
      /\ pc[p] = "running" /\ UNCHANGED <<pc, idMap>>
  BY DEF GetNewId, Unknown
<1>2. Alone(p) /\ SettledMap' = SettledMap
  <2>1. Alone(p) /\ Elsewhere(p)
    BY StepAlone, StepElsewhere DEF Step, MapInv
  <2> QED BY <2>1, SettledElsewhere DEF MapInv
<1> HIDE DEF id
<1>3. /\ emitted[p] \subseteq emitted'[p] /\ <<n, id>> \in emitted'[p]
      /\ \A a \in emitted'[p] : a \in emitted[p] \/ a = <<n, id>>
      /\ newIdMap'[p][n] = id
      /\ \A m \in Names : m # n => newIdMap'[p][m] = newIdMap[p][m]
  BY <1>1 DEF TypeOK
<1>4. ASSUME NEW m \in Names, newIdMap'[p][m] # NoId
      PROVE  pc'[p] # "idle" /\ <<m, newIdMap'[p][m]>> \in emitted'[p]
  <2>1. CASE m = n
    BY <2>1, <1>1, <1>3
  <2>2. CASE m # n
    <3>1. newIdMap'[p][m] = newIdMap[p][m]
      BY <2>2, <1>3
    <3> QED BY <3>1, <1>1, <1>3, <1>4 DEF MetInv, OwnEmitted
  <2> QED BY <2>1, <2>2
<1>5. ASSUME NEW a \in emitted'[p]
      PROVE  a[2] = newIdMap'[p][a[1]] \/ a[2] = SettledMap[a[1]]
  <2>1. CASE a = <<n, id>>
    BY <2>1, <1>3
  <2>2. CASE a \in emitted[p]
    <3>1. a[1] \in Names /\ a[2] \in Nat /\ a[2] # NoId
      BY <2>2 DEF TypeOK, NoId
    <3>2. a[2] = newIdMap[p][a[1]] \/ a[2] = SettledMap[a[1]]
      BY <1>1, <2>2 DEF MetInv, EmittedFrom
    <3> QED BY <1>1, <1>3, <3>1, <3>2
  <2> QED BY <2>1, <2>2, <1>3
<1>6. ASSUME NEW m \in Names, SettledMap[m] # NoId, Own(p, m)'
      PROVE  SettledMap[m] = newIdMap'[p][m] \/ Rival(p, m)
  <2>1. Own(p, m)
    <3>1. CASE m = n
      BY <3>1, <1>1 DEF Own, Saving, Leaving
    <3>2. CASE m # n
      BY <3>2, <1>1, <1>3, <1>6 DEF Own
    <3> QED BY <3>1, <3>2
  <2>2. SettledMap[m] = newIdMap[p][m] \/ Rival(p, m)
    BY <1>1, <1>6, <2>1 DEF MetInv, RivalInv
  <2> QED BY <1>1, <1>3, <1>6, <2>2
<1> QED BY <1>2, <1>3, <1>4, <1>5, <1>6, MetLocal

(* Every step keeps the invariant.                                         *)
LEMMA MetStep ==
  ASSUME ~FlockMayFail, ~TornWrites
  PROVE  TypeOK /\ MapInv /\ MetInv /\ [MCNext]_<<vars, met>> => MetInv'
<1> SUFFICES ASSUME TypeOK, MapInv, MetInv, [MCNext]_<<vars, met>> PROVE MetInv'
  OBVIOUS
<1>0. MapLock /\ met \subseteq met'
  BY DEF MapInv, MCNext
<1>1. ASSUME NEW p \in Procs, Construct(p) PROVE MetInv'
  <2>1. Alone(p) /\ Elsewhere(p)
    BY <1>0, <1>1, StepAlone, StepElsewhere
  <2>2. SettledMap' = SettledMap
    BY <1>0, <2>1, SettledElsewhere
  <2>3. pc[p] = "idle" /\ pc'[p] = "reserve" /\ UNCHANGED <<newIdMap, emitted>>
    BY <1>1 DEF TypeOK, Construct
  <2>4. \A n \in Names : newIdMap'[p][n] = NoId
    BY <2>3 DEF MetInv, OwnEmitted
  <2>5. \A n \in Names : idMap'[p][n] = SettledMap[n]
    BY <1>1, ConstructMap
  <2>6. \A a \in emitted'[p] : a[2] = newIdMap'[p][a[1]] \/ a[2] = SettledMap[a[1]]
    BY <2>3 DEF MetInv, EmittedFrom
  <2>7. \A n \in Names : ~(SettledMap[n] # NoId /\ Own(p, n)')
    BY <2>4, <2>5 DEF Own
  <2> QED BY <1>0, <2>1, <2>2, <2>3, <2>4, <2>6, <2>7, MetLocal
<1>2. ASSUME NEW p \in Procs,
             \/ ReserveRead(p) \/ ReserveTruncate(p) \/ ReserveWrite(p)
             \/ \E n \in Names : GetKnownId(p, n) \/ GetIdExhausted(p, n)
             \/ SkipModule(p)
             \/ SaveRead(p) \/ SaveWrite(p)
             \/ RecycleRead(p) \/ RecycleTruncate(p) \/ RecycleWrite(p)
             \/ Crash(p)
      PROVE  MetInv'
  <2>1. Alone(p)
    BY <1>2, StepAlone DEF Step
  <2>2. SettledMap' = SettledMap
    BY <1>0, <1>2, OthersStutter
  <2>3. /\ UNCHANGED newIdMap
        /\ pc[p] # "idle" /\ pc[p] # "crashed" /\ pc'[p] # "idle"
        /\ pc'[p] \notin Saving \cup Leaving \cup {"crashed"} =>
             pc[p] \notin Saving \cup Leaving /\ UNCHANGED idMap
    BY <1>2 DEF TypeOK, ReserveRead, ReserveTruncate, ReserveWrite, GetKnownId,
           GetIdExhausted, SkipModule, SaveRead, SaveWrite, RecycleRead,
           RecycleTruncate, RecycleWrite, Crash, Live, Saving, Leaving
  <2>4. /\ emitted[p] \subseteq emitted'[p]
        /\ \A a \in emitted'[p] : \/ a \in emitted[p]
                                  \/ a[2] = newIdMap[p][a[1]]
                                  \/ a[2] = SettledMap[a[1]]
    <3>1. ASSUME NEW n \in Names, GetKnownId(p, n)
          PROVE  /\ emitted[p] \subseteq emitted'[p]
                 /\ \A a \in emitted'[p] : \/ a \in emitted[p]
                                           \/ a[2] = newIdMap[p][a[1]]
                                           \/ a[2] = SettledMap[a[1]]
      <4>1. PICK id : /\ emitted' = [emitted EXCEPT ![p] = @ \cup {<<n, id>>}]
                      /\ id = newIdMap[p][n] \/ (id # NoId /\ id = idMap[p][n])
        BY <3>1 DEF GetKnownId
      <4>2. idMap[p][n] # NoId => idMap[p][n] = SettledMap[n]
        BY <3>1 DEF GetKnownId, MapInv, Agreed, Saving
      <4>3. emitted'[p] = emitted[p] \cup {<<n, id>>}
        BY <4>1 DEF TypeOK
      <4> QED BY <4>1, <4>2, <4>3
    <3>2. CASE UNCHANGED emitted
      BY <3>2
    <3> QED BY <1>2, <3>1, <3>2 DEF ReserveRead, ReserveTruncate, ReserveWrite,
               GetIdExhausted, SkipModule, SaveRead, SaveWrite, RecycleRead,
               RecycleTruncate, RecycleWrite, Crash
  <2>5. \A n \in Names : newIdMap'[p][n] # NoId =>
          pc'[p] # "idle" /\ <<n, newIdMap'[p][n]>> \in emitted'[p]
    BY <2>3, <2>4 DEF MetInv, OwnEmitted
  <2>6. \A a \in emitted'[p] : a[2] = newIdMap'[p][a[1]] \/ a[2] = SettledMap[a[1]]
    BY <2>3, <2>4 DEF MetInv, EmittedFrom
  <2>7. ASSUME pc'[p] # "crashed", NEW n \in Names, SettledMap[n] # NoId, Own(p, n)'
        PROVE  SettledMap[n] = newIdMap'[p][n] \/ Rival(p, n)
    <3>1. Own(p, n)
      BY <2>3, <2>7 DEF Own
    <3> QED BY <2>3, <2>7, <3>1 DEF MetInv, RivalInv
  <2> QED BY <1>0, <2>1, <2>2, <2>4, <2>5, <2>6, <2>7, MetLocal
<1>3. ASSUME NEW p \in Procs, NEW n \in Names, GetNewId(p, n) PROVE MetInv'
  BY <1>0, <1>3, MetDraw
<1>4. ASSUME NEW p \in Procs, SaveTruncate(p), met' = met \cup Overlapping'
      PROVE  MetInv'
  BY <1>4, MetTruncate
<1>5. CASE UNCHANGED vars
  <2>1. /\ mapFile' = mapFile /\ pc' = pc /\ idMap' = idMap
        /\ newIdMap' = newIdMap /\ emitted' = emitted
    BY <1>5 DEF vars
  <2>2. SettledMap' = SettledMap
    BY <2>1 DEF SettledMap
  <2>3. OwnEmitted' /\ EmittedFrom'
    BY <2>1, <2>2 DEF MetInv, OwnEmitted, EmittedFrom
  <2>4. RivalInv'
    <3>1. ASSUME NEW q \in Procs, NEW n \in Names PROVE Rival(q, n) => Rival(q, n)'
      BY <1>0, <2>1, <2>2, RivalStays
    <3>2. ASSUME NEW q \in Procs, NEW n \in Names PROVE Own(q, n)' => Own(q, n)
      BY <2>1 DEF Own
    <3> QED BY <2>1, <2>2, <3>1, <3>2 DEF MetInv, RivalInv
  <2> QED BY <2>3, <2>4 DEF MetInv
<1>6. CASE Next /\ met' = met \cup Overlapping'
  BY <1>1, <1>2, <1>3, <1>4, <1>5, <1>6 DEF Next, Step, Terminated
<1> QED BY <1>5, <1>6 DEF MCNext

(* The id a finished object carries for a name is the one a trace reader   *)
(* finds in the map, unless another compilation that was under way at the  *)
(* same time has put its own there: a serial build never loses an id.      *)
THEOREM IdsAreLostToRivals ==
  ASSUME ~FlockMayFail, ~TornWrites
  PROVE  MCSpec => []LostToRival
<1>1. MCInit => Inv /\ MapInv /\ MetInv
  <2> SUFFICES ASSUME MCInit PROVE Inv /\ MapInv /\ MetInv
    OBVIOUS
  <2>1. Inv /\ MapInv
    BY InvInit, MapInit DEF MCInit
  <2>2. MetInv
    BY DEF MCInit, Init, MetInv, OwnEmitted, EmittedFrom, RivalInv, EmptyMap
  <2> QED BY <2>1, <2>2
<1>2. Inv /\ MapInv /\ MetInv /\ [MCNext]_<<vars, met>> => (Inv /\ MapInv /\ MetInv)'
  <2>1. Inv => TypeOK
    BY DEF Inv
  <2>2. [MCNext]_<<vars, met>> => [Next]_vars
    BY DEF MCNext
  <2> QED BY <2>1, <2>2, InvStep, MapStep, MetStep
<1>3. Inv /\ MapInv /\ MetInv => LostToRival
  <2> SUFFICES ASSUME Inv, MapInv, MetInv, NEW p \in Procs, Saved(p), NEW a \in emitted[p],
                      SettledMap[a[1]] # a[2]
               PROVE  \E q \in Procs \ {p} :
                        <<p, q>> \in met /\ <<a[1], SettledMap[a[1]]>> \in emitted[q]
    BY DEF LostToRival
  <2>1. pc[p] \in Leaving /\ pc[p] \notin Saving \cup {"idle", "crashed"}
    BY DEF Saved, Leaving, Saving
  <2>2. a[1] \in Names /\ a[2] \in Nat /\ a[2] # NoId
    BY DEF Inv, TypeOK, NoId
  <2>3. a[2] = newIdMap[p][a[1]]
    BY <2>1 DEF MetInv, EmittedFrom
  <2>4. SettledMap[a[1]] # NoId
    BY <2>1, <2>2 DEF MapInv, Covered, Agreed
  <2>5. Own(p, a[1])
    BY <2>2, <2>3 DEF Own
  <2>6. Rival(p, a[1])
    BY <2>1, <2>2, <2>3, <2>4, <2>5 DEF MetInv, RivalInv
  <2> QED BY <2>6 DEF Rival
<1> QED BY <1>1, <1>2, <1>3, PTL DEF MCSpec
=============================================================================
