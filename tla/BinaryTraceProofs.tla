-------------------------- MODULE BinaryTraceProofs --------------------------
(***************************************************************************)
(* Theorems about BinaryTrace, for any number of threads and slots and any *)
(* buffer size.  Whatever fails and whoever logs while logExit runs: type  *)
(* correctness, which includes that no buffer overflows; slots are private;*)
(* entries are stamped with the number of their file; no excluded id gets  *)
(* into the trace; files are in the order of the log calls and have gaps of*)
(* whole buffers; logExit keeps what it finds; only a flush that meets it  *)
(* crashes the program.  And a program that calls logExit once, and has    *)
(* memory and files, loses nothing.                                        *)
(***************************************************************************)
EXTENDS BinaryTrace, TLAPS

(* Appending to and concatenating sequences of entries.                    *)
LEMMA EntrySeqs ==
  ASSUME NEW s \in Seq(Entry), NEW r \in Seq(Entry), NEW e \in Entry
  PROVE  /\ Append(s, e) \in Seq(Entry) /\ Len(Append(s, e)) = Len(s) + 1
         /\ s \o r \in Seq(Entry)
         /\ <<e>> \in Seq(Entry) /\ Len(<<e>>) = 1
         /\ <<>> \in Seq(Entry) /\ Len(<<>>) = 0
         /\ Len(s) \in Nat
OBVIOUS

(* The empty sequence is one of entries.                                   *)
LEMMA NoEntries == <<>> \in Seq(Entry) /\ Len(<<>>) = 0
OBVIOUS

(* What a thread inside the library has: a slot it works on, and in "store"*)
(* room for its entry there.                                               *)
Inside ==
  \A t \in Threads :
    /\ at[t] # "outside" => Len(le[t]) = 1 /\ next_id >= 1
    /\ at[t] \in Flushing \cup {"store"} => tls[t] \in Slots \ {0}
    /\ at[t] = "store" => Len(buffer[tls[t]]) < BufferSize

(* logExit is at a slot, or nowhere.                                       *)
ExitInside == exitAt # Idle => exitAt.slot \in Slots

(* An id that has a slot was drawn, and the counter has gone past it.      *)
Known ==
  \A t \in Threads :
    /\ tls[t] \in Slots => tls[t] < next_id \/ tls[t] = 0
    /\ tls[t] # 0 => next_id >= 1

(* The inductive invariant.                                                *)
Inv ==
  /\ TypeOK
  /\ SlotPrivate
  /\ Known
  /\ Inside
  /\ ExitInside

(* An id is a natural, whoever gets it.                                    *)
LEMMA TidTypes ==
  ASSUME TypeOK, NEW t \in Threads
  PROVE  Tids(t) \subseteq Nat
BY BinaryTraceAssumption DEF TypeOK, Tids, Checked

(* gettid keeps the counter and the thread-local values naturals.          *)
LEMMA GettidTypes ==
  ASSUME TypeOK, NEW t \in Threads, NEW id, Gettid(t, id)
  PROVE  /\ next_id' \in Nat /\ next_id' >= next_id /\ id \in Nat
         /\ tls' \in [Threads -> Nat] /\ tls' = [tls EXCEPT ![t] = id]
         /\ tls[t] = 0 => next_id' >= 1
         /\ tls[t] = 0 /\ next_id >= 1 => id # 0
         /\ tls[t] # 0 => id = tls[t]
<1>1. id \in Nat /\ next_id \in Nat /\ tls \in [Threads -> Nat] /\ MaxThreads \in Nat \ {0}
  BY TidTypes, BinaryTraceAssumption DEF TypeOK, Gettid
<1>2. next_id' \in Nat /\ next_id' >= next_id /\ (tls[t] = 0 => next_id' >= 1)
  BY <1>1 DEF Gettid, Drawn
<1>3. tls' \in [Threads -> Nat] /\ tls' = [tls EXCEPT ![t] = id]
  BY <1>1 DEF Gettid
<1>4. /\ tls[t] = 0 /\ next_id >= 1 => id # 0
      /\ tls[t] # 0 => id = tls[t]
  BY <1>1 DEF Gettid, Tids, Checked
<1> QED BY <1>1, <1>2, <1>3, <1>4

(* gettid keeps the invariant: what a thread draws, nobody has.            *)
LEMMA GettidPrivate ==
  ASSUME Inv, NEW t \in Threads, NEW id, Gettid(t, id)
  PROVE  SlotPrivate' /\ Known'
<1>1. /\ next_id \in Nat /\ tls \in [Threads -> Nat] /\ MaxThreads \in Nat
      /\ Known /\ SlotPrivate
  BY BinaryTraceAssumption DEF Inv, TypeOK
<1>2. tls' = [tls EXCEPT ![t] = id]
  BY DEF Gettid
<1>3. CASE tls[t] # 0
  <2>1. id = tls[t] /\ next_id' = next_id
    BY <1>1, <1>3 DEF Gettid, Tids, Drawn
  <2>2. tls' = tls
    BY <1>1, <1>2, <2>1
  <2> QED BY <1>1, <2>1, <2>2 DEF SlotPrivate, Known, Slots
<1>4. CASE tls[t] = 0
  <2>1. /\ next_id' = next_id + 1
        /\ id = next_id \/ id = MaxThreads
    BY <1>1, <1>4 DEF Gettid, Tids, Drawn, Checked
  <2>2. id \in Slots => id = next_id
    BY <1>1, <2>1 DEF Slots
  <2>3. /\ tls'[t] = id
        /\ \A u \in Threads : u # t => tls'[u] = tls[u]
    BY <1>1, <1>2
  <2>4. ASSUME NEW u \in Threads
        PROVE  /\ tls'[u] \in Slots => tls'[u] < next_id' \/ tls'[u] = 0
               /\ tls'[u] # 0 => next_id' >= 1
    BY <1>1, <2>1, <2>2, <2>3 DEF Known
  <2>5. ASSUME NEW u \in Threads, NEW v \in Threads, u # v, tls'[u] = tls'[v],
               tls'[u] \in Slots \ {0}
        PROVE  FALSE
    <3>1. CASE u # t /\ v # t
      BY <1>1, <2>3, <2>5, <3>1 DEF SlotPrivate
    <3>2. CASE u = t
      BY <1>1, <2>2, <2>3, <2>5, <3>2 DEF Known
    <3>3. CASE v = t
      BY <1>1, <2>2, <2>3, <2>5, <3>3 DEF Known
    <3> QED BY <3>1, <3>2, <3>3
  <2> QED BY <2>4, <2>5 DEF SlotPrivate, Known, Slots
<1> QED BY <1>3, <1>4

-----------------------------------------------------------------------------
(* The steps of a thread.                                                  *)

(* A thread moves from one place to another; all others stay.              *)
LEMMA GoTypes ==
  ASSUME TypeOK, NEW t \in Threads, NEW from, NEW to, Go(t, from, to),
         to \in {"outside", "filled", "store"} \cup Flushing
  PROVE  /\ at[t] = from /\ at' = [at EXCEPT ![t] = to]
         /\ at' \in [Threads -> {"outside", "filled", "store"} \cup Flushing]
         /\ at'[t] = to /\ \A u \in Threads : u # t => at'[u] = at[u]
BY DEF TypeOK, Go

(* The slots a flush adds to the raced ones.                               *)
LEMMA RacesTypes ==
  ASSUME TypeOK, NEW t \in Threads, tls[t] \in Slots
  PROVE  raced \cup Races(t) \subseteq Slots
BY DEF TypeOK, Races

(* Fill keeps the invariant.                                               *)
LEMMA FillStep ==
  ASSUME Inv, NEW t \in Threads, Fill(t)
  PROVE  TypeOK' /\ Inside' /\ ExitInside'
<1>1. PICK id \in Tids(t) :
        /\ Gettid(t, id)
        /\ le' = [le EXCEPT ![t] =
                    <<[thread |-> t, seq |-> count[t], thread_id |-> id]>>]
  BY DEF Fill
<1>2. TypeOK /\ Inside /\ ExitInside
  BY DEF Inv
<1>3. /\ next_id' \in Nat /\ next_id' >= next_id /\ next_id \in Nat /\ id \in Nat
      /\ tls' \in [Threads -> Nat] /\ tls' = [tls EXCEPT ![t] = id]
  BY <1>1, <1>2, GettidTypes DEF TypeOK
<1>4. next_id' >= 1
  <2>1. CASE tls[t] = 0
    BY <1>1, <1>2, <2>1, GettidTypes
  <2>2. CASE tls[t] # 0
    <3>1. next_id >= 1
      BY <2>2 DEF Inv, Known
    <3> QED BY <1>3, <3>1
  <2> QED BY <2>1, <2>2
<1> DEFINE e == [thread |-> t, seq |-> count[t], thread_id |-> id]
<1>5. e \in Entry
  BY <1>2, <1>3 DEF TypeOK, Entry
<1> HIDE DEF e
<1>6. <<e>> \in Seq(Entry) /\ Len(<<e>>) = 1
  BY <1>5
<1>7. le' = [le EXCEPT ![t] = <<e>>]
  BY <1>1 DEF e
<1>8. /\ le' \in [Threads -> Seq(Entry)] /\ \A u \in Threads : Len(le'[u]) <= 1
      /\ Len(le'[t]) = 1 /\ \A u \in Threads : u # t => le'[u] = le[u]
  BY <1>2, <1>6, <1>7 DEF TypeOK
<1>9. Go(t, "outside", "filled") /\ count' = [count EXCEPT ![t] = @ + 1]
      /\ UNCHANGED <<slots, exits, exitAt, crashed, due, raced, failed>>
  BY DEF Fill
<1>10. /\ at' \in [Threads -> {"outside", "filled", "store"} \cup Flushing]
       /\ at[t] = "outside" /\ at'[t] = "filled"
       /\ \A u \in Threads : u # t => at'[u] = at[u]
  BY <1>2, <1>9, GoTypes
<1>11. TypeOK'
  <2>1. count' \in [Threads -> Nat]
    BY <1>2, <1>9 DEF TypeOK
  <2>2. UNCHANGED <<allocated, buffer, out, file, exits, exitAt, crashed, due,
                    raced, failed>>
    BY <1>9 DEF slots
  <2> QED BY <1>2, <1>3, <1>8, <1>10, <2>1, <2>2 DEF TypeOK, Slots
<1>12. Inside'
  <2> SUFFICES ASSUME NEW u \in Threads
               PROVE /\ at'[u] # "outside" => Len(le'[u]) = 1 /\ next_id' >= 1
                     /\ at'[u] \in Flushing \cup {"store"} => tls'[u] \in Slots \ {0}
                     /\ at'[u] = "store" => Len(buffer'[tls'[u]]) < BufferSize
    BY <1>9 DEF Inside, slots, Slots
  <2>1. CASE u = t
    BY <1>4, <1>8, <1>10, <2>1 DEF Flushing
  <2>2. CASE u # t
    <3>1. at'[u] = at[u] /\ le'[u] = le[u] /\ tls'[u] = tls[u] /\ buffer' = buffer
      BY <1>2, <1>3, <1>8, <1>9, <1>10, <2>2 DEF slots, TypeOK
    <3> QED BY <1>2, <1>4, <3>1 DEF Inside
  <2> QED BY <2>1, <2>2
<1>13. ExitInside'
  BY <1>2, <1>9 DEF ExitInside, Slots, Idle
<1> QED BY <1>11, <1>12, <1>13

(* Discard keeps the invariant.                                            *)
LEMMA DiscardStep ==
  ASSUME Inv, NEW t \in Threads, Discard(t)
  PROVE  TypeOK' /\ Inside' /\ ExitInside'
<1>1. PICK id \in Tids(t) : Gettid(t, id) /\ failed' = failed \cup ({id} \cap Slots)
  BY DEF Discard
<1>2. TypeOK /\ Inside /\ ExitInside
  BY DEF Inv
<1>3. /\ next_id' \in Nat /\ next_id' >= next_id /\ next_id \in Nat
      /\ tls' \in [Threads -> Nat] /\ tls' = [tls EXCEPT ![t] = id]
  BY <1>1, <1>2, GettidTypes DEF TypeOK
<1>4. le' = [le EXCEPT ![t] = <<>>] /\ Go(t, "filled", "outside")
      /\ UNCHANGED <<count, slots, exits, exitAt, crashed, due, raced>>
  BY DEF Discard
<1>5. /\ le' \in [Threads -> Seq(Entry)] /\ \A u \in Threads : Len(le'[u]) <= 1
      /\ \A u \in Threads : u # t => le'[u] = le[u]
  BY <1>2, <1>4, NoEntries DEF TypeOK
<1>6. /\ at' \in [Threads -> {"outside", "filled", "store"} \cup Flushing]
      /\ at'[t] = "outside" /\ \A u \in Threads : u # t => at'[u] = at[u]
  BY <1>2, <1>4, GoTypes
<1>7. TypeOK'
  BY <1>1, <1>2, <1>3, <1>4, <1>5, <1>6 DEF TypeOK, slots
<1>8. Inside'
  <2> SUFFICES ASSUME NEW u \in Threads
               PROVE /\ at'[u] # "outside" => Len(le'[u]) = 1 /\ next_id' >= 1
                     /\ at'[u] \in Flushing \cup {"store"} => tls'[u] \in Slots \ {0}
                     /\ at'[u] = "store" => Len(buffer'[tls'[u]]) < BufferSize
    BY DEF Inside, Slots
  <2>1. CASE u = t
    BY <1>6, <2>1 DEF Flushing
  <2>2. CASE u # t
    <3>1. at'[u] = at[u] /\ le'[u] = le[u] /\ tls'[u] = tls[u] /\ buffer' = buffer
      BY <1>2, <1>3, <1>4, <1>5, <1>6, <2>2 DEF slots, TypeOK
    <3> QED BY <1>2, <1>3, <3>1 DEF Inside
  <2> QED BY <2>1, <2>2
<1>9. ExitInside'
  BY <1>2, <1>4 DEF ExitInside, Slots, Idle
<1> QED BY <1>7, <1>8, <1>9

(* Enter keeps the invariant: the slot is not 0, which was drawn before.   *)
LEMMA EnterStep ==
  ASSUME Inv, NEW t \in Threads, Enter(t)
  PROVE  TypeOK' /\ Inside' /\ ExitInside'
<1>1. PICK id \in Tids(t) \cap Slots :
        /\ Gettid(t, id)
        /\ Go(t, "filled", IF Full(id) THEN "flush" ELSE "store")
        /\ allocated' = [allocated EXCEPT ![id] = TRUE]
  BY DEF Enter
<1>2. TypeOK /\ Inside /\ ExitInside
  BY DEF Inv
<1>3. /\ next_id' \in Nat /\ next_id' >= next_id /\ next_id \in Nat
      /\ tls' \in [Threads -> Nat] /\ tls' = [tls EXCEPT ![t] = id]
  BY <1>1, <1>2, GettidTypes DEF TypeOK
<1> DEFINE to == IF Full(id) THEN "flush" ELSE "store"
<1>4. /\ at' \in [Threads -> {"outside", "filled", "store"} \cup Flushing]
      /\ at[t] = "filled" /\ at'[t] = to
      /\ \A u \in Threads : u # t => at'[u] = at[u]
  <2>1. to \in {"outside", "filled", "store"} \cup Flushing
    BY DEF Flushing
  <2> QED BY <1>1, <1>2, <2>1, GoTypes
<1>5. UNCHANGED <<le, count, buffer, out, file, exits, exitAt, crashed, due,
                  raced, failed>>
  BY DEF Enter
<1>6. TypeOK'
  BY <1>1, <1>2, <1>3, <1>4, <1>5 DEF TypeOK
<1>7. id \in Slots \ {0}
  <2>1. next_id >= 1
    BY <1>2, <1>4 DEF Inside
  <2>2. id # 0
    BY <1>1, <1>2, <2>1, GettidTypes
  <2> QED BY <1>1, <2>2
<1>8. to = "store" => Len(buffer[id]) < BufferSize
  BY <1>1, <1>2, BinaryTraceAssumption, EntrySeqs DEF Full, TypeOK
<1>9. Inside'
  <2> SUFFICES ASSUME NEW u \in Threads
               PROVE /\ at'[u] # "outside" => Len(le'[u]) = 1 /\ next_id' >= 1
                     /\ at'[u] \in Flushing \cup {"store"} => tls'[u] \in Slots \ {0}
                     /\ at'[u] = "store" => Len(buffer'[tls'[u]]) < BufferSize
    BY DEF Inside, Slots
  <2>1. CASE u = t
    <3>1. Len(le[t]) = 1 /\ next_id >= 1
      BY <1>2, <1>4 DEF Inside
    <3>2. tls'[t] = id
      BY <1>2, <1>3 DEF TypeOK
    <3> HIDE DEF to
    <3> QED BY <1>3, <1>4, <1>5, <1>7, <1>8, <2>1, <3>1, <3>2
  <2>2. CASE u # t
    <3>1. at'[u] = at[u] /\ le'[u] = le[u] /\ tls'[u] = tls[u] /\ buffer' = buffer
      BY <1>2, <1>3, <1>4, <1>5, <2>2 DEF TypeOK
    <3> QED BY <1>2, <1>3, <3>1 DEF Inside
  <2> QED BY <2>1, <2>2
<1>10. ExitInside'
  BY <1>2, <1>5 DEF ExitInside, Slots, Idle
<1> QED BY <1>6, <1>9, <1>10

(* The steps of a flush keep the invariant.                                *)
LEMMA FlushSteps ==
  ASSUME Inv, NEW t \in Threads, Flush(t) \/ Open(t) \/ Write(t)
  PROVE  TypeOK' /\ Inside' /\ ExitInside'
<1>1. TypeOK /\ Inside /\ ExitInside
  BY DEF Inv
<1>2. PICK from \in Flushing, to \in Flushing : Go(t, from, to)
  BY DEF Flush, Open, Write, Flushing
<1>3. /\ at' \in [Threads -> {"outside", "filled", "store"} \cup Flushing]
      /\ at[t] = from /\ at'[t] = to
      /\ \A u \in Threads : u # t => at'[u] = at[u]
  BY <1>1, <1>2, GoTypes
<1>4. tls[t] \in Slots
  BY <1>1, <1>2, <1>3 DEF Inside
<1>5. raced' = raced \cup Races(t) /\ raced' \subseteq Slots
  BY <1>1, <1>4, RacesTypes DEF Flush, Open, Write
<1>6. UNCHANGED <<next_id, tls, le, count, allocated, buffer, exits, exitAt, due>>
  BY DEF Flush, Open, Write, slots
<1>7. /\ file[tls[t]] \o buffer[tls[t]] \in Seq(Entry)
      /\ <<>> \in Seq(Entry)
  <2>1. file[tls[t]] \in Seq(Entry) /\ buffer[tls[t]] \in Seq(Entry)
    BY <1>1, <1>4 DEF TypeOK
  <2> QED BY <2>1, NoEntries
<1>8. file' \in [Slots -> Seq(Entry)]
  BY <1>1, <1>4, <1>7 DEF Flush, Open, Write, Opened, TypeOK, slots
<1>9. /\ out' \in [Slots -> {"null", "open", "closed"}]
      /\ crashed' \in BOOLEAN /\ failed' \subseteq Slots
  BY <1>1, <1>4 DEF Flush, Open, Write, TypeOK, slots
<1>10. TypeOK'
  BY <1>1, <1>3, <1>5, <1>6, <1>8, <1>9 DEF TypeOK
<1>11. Inside'
  <2> SUFFICES ASSUME NEW u \in Threads
               PROVE /\ at'[u] # "outside" => Len(le[u]) = 1 /\ next_id >= 1
                     /\ at'[u] \in Flushing \cup {"store"} => tls[u] \in Slots \ {0}
                     /\ at'[u] = "store" => Len(buffer[tls[u]]) < BufferSize
    BY <1>6 DEF Inside, Slots
  <2>1. CASE u = t
    BY <1>1, <1>2, <1>3, <2>1 DEF Inside, Flushing
  <2>2. CASE u # t
    BY <1>1, <1>3, <2>2 DEF Inside
  <2> QED BY <2>1, <2>2
<1>12. ExitInside'
  BY <1>1, <1>6 DEF ExitInside, Slots, Idle
<1> QED BY <1>10, <1>11, <1>12

(* Emptying the buffer makes room; the other threads have other slots.     *)
LEMMA EmptyStep ==
  ASSUME Inv, NEW t \in Threads, Empty(t)
  PROVE  TypeOK' /\ Inside' /\ ExitInside'
<1>1. TypeOK /\ Inside /\ ExitInside /\ SlotPrivate
  BY DEF Inv
<1>2. Go(t, "reset", "store") /\ buffer' = [buffer EXCEPT ![tls[t]] = <<>>]
      /\ raced' = raced \cup Races(t)
      /\ UNCHANGED <<next_id, tls, le, count, allocated, out, file, exits, exitAt,
                     crashed, due, failed>>
  BY DEF Empty
<1>3. /\ at' \in [Threads -> {"outside", "filled", "store"} \cup Flushing]
      /\ at[t] = "reset" /\ at'[t] = "store"
      /\ \A u \in Threads : u # t => at'[u] = at[u]
  BY <1>1, <1>2, GoTypes
<1>4. tls[t] \in Slots \ {0} /\ Len(le[t]) = 1 /\ next_id >= 1
  BY <1>1, <1>3 DEF Inside, Flushing
<1>5. raced' \subseteq Slots
  BY <1>1, <1>2, <1>4, RacesTypes
<1>6. /\ buffer' \in [Slots -> Seq(Entry)]
      /\ \A k \in Slots : Len(buffer'[k]) <= BufferSize
      /\ Len(buffer'[tls[t]]) < BufferSize
      /\ \A k \in Slots : k # tls[t] => buffer'[k] = buffer[k]
  BY <1>1, <1>2, <1>4, NoEntries, BinaryTraceAssumption DEF TypeOK
<1>7. TypeOK'
  BY <1>1, <1>2, <1>3, <1>5, <1>6 DEF TypeOK
<1>8. Inside'
  <2> SUFFICES ASSUME NEW u \in Threads
               PROVE /\ at'[u] # "outside" => Len(le[u]) = 1 /\ next_id >= 1
                     /\ at'[u] \in Flushing \cup {"store"} => tls[u] \in Slots \ {0}
                     /\ at'[u] = "store" => Len(buffer'[tls[u]]) < BufferSize
    BY <1>2 DEF Inside, Slots
  <2>1. CASE u = t
    BY <1>4, <1>6, <2>1
  <2>2. CASE u # t
    <3>1. at'[u] = "store" => tls[u] \in Slots /\ tls[u] # tls[t]
      BY <1>1, <1>3, <1>4, <2>2 DEF Inside, SlotPrivate
    <3> QED BY <1>1, <1>3, <1>6, <2>2, <3>1 DEF Inside
  <2> QED BY <2>1, <2>2
<1>9. ExitInside'
  BY <1>1, <1>2 DEF ExitInside, Slots, Idle
<1> QED BY <1>7, <1>8, <1>9

(* Storing the entry fills the buffer at most.                             *)
LEMMA StoreStep ==
  ASSUME Inv, NEW t \in Threads, Store(t)
  PROVE  TypeOK' /\ Inside' /\ ExitInside'
<1>1. TypeOK /\ Inside /\ ExitInside /\ SlotPrivate
  BY DEF Inv
<1>2. Go(t, "store", "outside")
      /\ buffer' = [buffer EXCEPT ![tls[t]] = Append(@, le[t][1])]
      /\ le' = [le EXCEPT ![t] = <<>>]
      /\ UNCHANGED <<next_id, tls, count, allocated, out, file, exits, exitAt,
                     crashed, due, raced, failed>>
  BY DEF Store
<1>3. /\ at' \in [Threads -> {"outside", "filled", "store"} \cup Flushing]
      /\ at[t] = "store" /\ at'[t] = "outside"
      /\ \A u \in Threads : u # t => at'[u] = at[u]
  BY <1>1, <1>2, GoTypes
<1>4. tls[t] \in Slots \ {0} /\ Len(le[t]) = 1 /\ Len(buffer[tls[t]]) < BufferSize
  BY <1>1, <1>3 DEF Inside
<1> DEFINE s == Append(buffer[tls[t]], le[t][1])
<1>5. s \in Seq(Entry) /\ Len(s) <= BufferSize
  <2>1. le[t] \in Seq(Entry) /\ buffer[tls[t]] \in Seq(Entry)
    BY <1>1, <1>4 DEF TypeOK
  <2>2. le[t][1] \in Entry
    BY <1>4, <2>1
  <2>3. s \in Seq(Entry) /\ Len(s) = Len(buffer[tls[t]]) + 1 /\ Len(buffer[tls[t]]) \in Nat
    BY <2>1, <2>2, EntrySeqs
  <2> QED BY <1>4, <2>3, BinaryTraceAssumption
<1>6. buffer' = [buffer EXCEPT ![tls[t]] = s]
  BY <1>2
<1> HIDE DEF s
<1>7. /\ buffer' \in [Slots -> Seq(Entry)]
      /\ \A k \in Slots : Len(buffer'[k]) <= BufferSize
      /\ \A k \in Slots : k # tls[t] => buffer'[k] = buffer[k]
  BY <1>1, <1>4, <1>5, <1>6 DEF TypeOK
<1>8. /\ le' \in [Threads -> Seq(Entry)] /\ \A u \in Threads : Len(le'[u]) <= 1
      /\ \A u \in Threads : u # t => le'[u] = le[u]
  BY <1>1, <1>2, NoEntries DEF TypeOK
<1>9. TypeOK'
  BY <1>1, <1>2, <1>3, <1>7, <1>8 DEF TypeOK
<1>10. Inside'
  <2> SUFFICES ASSUME NEW u \in Threads
               PROVE /\ at'[u] # "outside" => Len(le'[u]) = 1 /\ next_id >= 1
                     /\ at'[u] \in Flushing \cup {"store"} => tls[u] \in Slots \ {0}
                     /\ at'[u] = "store" => Len(buffer'[tls[u]]) < BufferSize
    BY <1>2 DEF Inside, Slots
  <2>1. CASE u = t
    BY <1>3, <2>1 DEF Flushing
  <2>2. CASE u # t
    <3>1. at'[u] = "store" => tls[u] \in Slots /\ tls[u] # tls[t]
      BY <1>1, <1>3, <1>4, <2>2 DEF Inside, SlotPrivate
    <3> QED BY <1>1, <1>3, <1>7, <1>8, <2>2, <3>1 DEF Inside
  <2> QED BY <2>1, <2>2
<1>11. ExitInside'
  BY <1>1, <1>2 DEF ExitInside, Slots, Idle
<1> QED BY <1>9, <1>10, <1>11

-----------------------------------------------------------------------------
(* The steps of logExit.                                                   *)

(* logExit moves on to another step, or another slot.                      *)
LEMMA ExitGoTypes ==
  ASSUME TypeOK, ExitInside, exitAt # Idle, NEW step,
         step \in {"look", "check", "open", "write", "close", "null"},
         ExitGo(step) \/ ExitNext
  PROVE  /\ exitAt.slot \in Slots
         /\ exitAt' \in [slot : 0 .. MaxThreads,
                         step : {"look", "check", "open", "write", "close", "null"}]
         /\ ExitInside'
<1>1. MaxThreads \in Nat \ {0} /\ exitAt.slot \in 0 .. MaxThreads - 1
  BY BinaryTraceAssumption DEF ExitInside, Slots
<1>2. CASE ExitGo(step)
  BY <1>1, <1>2 DEF ExitGo, TypeOK, ExitInside, Slots
<1>3. CASE ExitNext
  <2>1. exitAt' = [slot |-> exitAt.slot + 1, step |-> "look"]
    BY <1>3 DEF ExitNext
  <2>2. exitAt.slot + 1 \in 0 .. MaxThreads
    BY <1>1
  <2>3. exitAt.slot + 1 = MaxThreads \/ exitAt.slot + 1 \in Slots
    BY <1>1 DEF Slots
  <2>4. ExitInside'
    BY <2>1, <2>3 DEF ExitInside, Idle, Slots
  <2> QED BY <1>1, <2>1, <2>2, <2>4 DEF Slots
<1> QED BY <1>2, <1>3

(* What logExit writes is a sequence of entries.                           *)
LEMMA WrittenTypes ==
  ASSUME TypeOK, Inside, NEW k \in Slots
  PROVE  Written(k) \subseteq Seq(Entry)
<1>0. buffer[k] \in Seq(Entry)
  BY DEF TypeOK
<1> SUFFICES ASSUME NEW t \in Threads, at[t] = "store"
             PROVE  Append(buffer[k], [le[t][1] EXCEPT !.seq = Torn]) \in Seq(Entry)
  BY <1>0 DEF Written
<1>1. Len(le[t]) = 1 /\ le[t] \in Seq(Entry) /\ buffer[k] \in Seq(Entry)
  BY DEF Inside, TypeOK
<1>2. le[t][1] \in Entry
  BY <1>1
<1>3. [le[t][1] EXCEPT !.seq = Torn] \in Entry
  BY <1>2 DEF Entry
<1> QED BY <1>1, <1>3, EntrySeqs

(* logExit keeps the types, and touches no buffer and nothing of a thread. *)
LEMMA ExitSteps ==
  ASSUME Inv, ExitStep
  PROVE  /\ TypeOK' /\ ExitInside'
         /\ UNCHANGED <<next_id, tls, le, at, count, buffer>>
<1>1. TypeOK /\ Inside /\ ExitInside
  BY DEF Inv
<1>2. exitAt # Idle
  BY DEF ExitStep, ExitLook, ExitCheck, ExitOpen, ExitWrite, ExitClose, ExitNull,
         Exiting
<1>3. \E step \in {"look", "check", "open", "write", "close", "null"} :
        ExitGo(step) \/ ExitNext
  BY DEF ExitStep, ExitLook, ExitCheck, ExitOpen, ExitWrite, ExitClose, ExitNull
<1>4. /\ exitAt.slot \in Slots
      /\ exitAt' \in [slot : 0 .. MaxThreads,
                      step : {"look", "check", "open", "write", "close", "null"}]
      /\ ExitInside'
  BY <1>1, <1>2, <1>3, ExitGoTypes
<1>5. UNCHANGED <<next_id, tls, le, at, count, allocated, buffer, exits, due>>
  <2>1. [buffer EXCEPT ![exitAt.slot] = buffer[exitAt.slot]] = buffer
    BY <1>1, <1>4 DEF TypeOK
  <2> QED BY <2>1 DEF ExitStep, ExitLook, ExitCheck, ExitOpen, ExitWrite,
                     ExitClose, ExitNull, Left, slots
<1>6. file' \in [Slots -> Seq(Entry)]
  <2>1. CASE ExitWrite
    <3>1. UNCHANGED file \/
          \E entries \in Written(exitAt.slot) :
            file' = [file EXCEPT ![exitAt.slot] = @ \o entries]
      BY <2>1 DEF ExitWrite
    <3>2. ASSUME NEW entries \in Written(exitAt.slot)
          PROVE  file[exitAt.slot] \o entries \in Seq(Entry)
      <4>1. entries \in Seq(Entry) /\ file[exitAt.slot] \in Seq(Entry)
        BY <1>1, <1>4, WrittenTypes DEF TypeOK
      <4> QED BY <4>1
    <3>3. CASE UNCHANGED file
      BY <1>1, <3>3 DEF TypeOK, Slots
    <3>4. CASE \E entries \in Written(exitAt.slot) :
                 file' = [file EXCEPT ![exitAt.slot] = @ \o entries]
      <4>1. PICK entries \in Written(exitAt.slot) :
              file' = [file EXCEPT ![exitAt.slot] = file[exitAt.slot] \o entries]
        BY <3>4
      <4>2. file[exitAt.slot] \o entries \in Seq(Entry)
        BY <3>2
      <4>3. file \in [Slots -> Seq(Entry)]
        BY <1>1 DEF TypeOK
      <4> QED BY <4>1, <4>2, <4>3
    <3> QED BY <3>1, <3>3, <3>4
  <2>2. CASE ExitOpen
    <3>1. UNCHANGED file \/ file' = [file EXCEPT ![exitAt.slot] = <<>>]
      BY <2>2 DEF ExitOpen, Opened
    <3> QED BY <1>1, <1>4, <3>1, NoEntries DEF TypeOK
  <2>3. CASE ExitLook \/ ExitCheck \/ ExitClose \/ ExitNull
    <3>1. UNCHANGED file
      BY <2>3 DEF ExitLook, ExitCheck, ExitClose, ExitNull, slots
    <3> QED BY <1>1, <3>1 DEF TypeOK, Slots
  <2> QED BY <2>1, <2>2, <2>3 DEF ExitStep
<1>7. /\ out' \in [Slots -> {"null", "open", "closed"}] /\ crashed' \in BOOLEAN
  BY <1>1, <1>4 DEF ExitStep, ExitLook, ExitCheck, ExitOpen, ExitWrite, ExitClose,
                    ExitNull, Reset, slots, TypeOK
<1>8. raced' \subseteq Slots /\ failed' \subseteq Slots
  BY <1>1, <1>4 DEF ExitStep, ExitLook, ExitCheck, ExitOpen, ExitWrite, ExitClose,
                    ExitNull, ExitRacing, slots, TypeOK
<1>9. TypeOK'
  BY <1>1, <1>4, <1>5, <1>6, <1>7, <1>8 DEF TypeOK
<1> QED BY <1>4, <1>5, <1>9

(* So does its call.                                                       *)
LEMMA LogExitStep ==
  ASSUME Inv, LogExit
  PROVE  /\ TypeOK' /\ ExitInside'
         /\ UNCHANGED <<next_id, tls, le, at, count, buffer>>
<1>1. TypeOK
  BY DEF Inv
<1>2. /\ exits' = exits + 1 /\ exitAt' = [slot |-> 0, step |-> "look"]
      /\ due' = buffer
      /\ UNCHANGED <<next_id, tls, le, at, count, allocated, buffer, out, file,
                     crashed, raced, failed>>
  BY DEF LogExit, slots
<1>3. 0 \in Slots /\ 0 \in 0 .. MaxThreads
  BY BinaryTraceAssumption DEF Slots
<1>4. ExitInside'
  BY <1>2, <1>3 DEF ExitInside, Slots
<1>5. exitAt' \in [slot : 0 .. MaxThreads,
                   step : {"look", "check", "open", "write", "close", "null"}]
  BY <1>2, <1>3
<1>6. TypeOK'
  BY <1>1, <1>2, <1>5 DEF TypeOK
<1> QED BY <1>2, <1>4, <1>6

-----------------------------------------------------------------------------
(* The theorems.                                                           *)

(* Init establishes the invariant.                                         *)
LEMMA InvInit == Init => Inv
<1> SUFFICES ASSUME Init PROVE Inv
  OBVIOUS
<1>1. TypeOK
  <2>1. Idle \in [slot : 0 .. MaxThreads,
                  step : {"look", "check", "open", "write", "close", "null"}]
    BY BinaryTraceAssumption DEF Idle
  <2>2. /\ le \in [Threads -> Seq(Entry)] /\ \A t \in Threads : Len(le[t]) <= 1
        /\ buffer \in [Slots -> Seq(Entry)]
        /\ \A k \in Slots : Len(buffer[k]) <= BufferSize
        /\ file \in [Slots -> Seq(Entry)] /\ due \in [Slots -> Seq(Entry)]
    BY NoEntries, BinaryTraceAssumption DEF Init
  <2>3. /\ next_id \in Nat /\ tls \in [Threads -> Nat]
        /\ at \in [Threads -> {"outside", "filled", "store"} \cup Flushing]
        /\ count \in [Threads -> Nat] /\ allocated \in [Slots -> BOOLEAN]
        /\ out \in [Slots -> {"null", "open", "closed"}]
        /\ exits \in Nat /\ crashed \in BOOLEAN
        /\ raced \subseteq Slots /\ failed \subseteq Slots
    BY DEF Init
  <2>4. exitAt = Idle
    BY DEF Init
  <2> QED BY <2>1, <2>2, <2>3, <2>4 DEF TypeOK
<1>2. Inside
  BY DEF Init, Inside, Flushing
<1>3. ExitInside
  BY DEF Init, ExitInside
<1>4. SlotPrivate /\ Known
  BY BinaryTraceAssumption DEF Init, SlotPrivate, Known, Slots
<1> QED BY <1>1, <1>2, <1>3, <1>4 DEF Inv

(* Every step keeps it.                                                    *)
LEMMA InvStep == Inv /\ [Next]_vars => Inv'
<1> SUFFICES ASSUME Inv, [Next]_vars PROVE Inv'
  OBVIOUS
<1>1. ASSUME NEW t \in Threads, Fill(t) \/ Discard(t) \/ Enter(t) PROVE Inv'
  <2>1. PICK id : Gettid(t, id)
    BY <1>1 DEF Fill, Discard, Enter
  <2>2. TypeOK' /\ Inside' /\ ExitInside'
    BY <1>1, FillStep, DiscardStep, EnterStep
  <2> QED BY <2>1, <2>2, GettidPrivate DEF Inv
<1>2. ASSUME NEW t \in Threads,
             Flush(t) \/ Open(t) \/ Write(t) \/ Empty(t) \/ Store(t)
      PROVE  Inv'
  <2>1. TypeOK' /\ Inside' /\ ExitInside'
    BY <1>2, FlushSteps, EmptyStep, StoreStep
  <2>2. UNCHANGED <<next_id, tls>>
    BY <1>2 DEF Flush, Open, Write, Empty, Store
  <2> QED BY <2>1, <2>2 DEF Inv, SlotPrivate, Known, Slots
<1>3. CASE ExitStep \/ LogExit
  <2>1. TypeOK' /\ ExitInside' /\ UNCHANGED <<next_id, tls, le, at, count, buffer>>
    BY <1>3, ExitSteps, LogExitStep
  <2> QED BY <2>1 DEF Inv, SlotPrivate, Known, Slots, Inside, Flushing
<1>4. CASE UNCHANGED vars
  BY <1>4 DEF vars, slots, Inv, TypeOK, SlotPrivate, Known, Slots, Inside, Flushing,
              ExitInside, Idle, Entry
<1> QED BY <1>1, <1>2, <1>3, <1>4 DEF Next, ThreadStep, Terminated

(* Whatever fails, however often logExit is called and whoever logs        *)
(* meanwhile, no buffer holds more than BufferSize entries: insertOrWrite  *)
(* never writes past its end.                                              *)
THEOREM TypeCorrect == Spec => []TypeOK
<1>1. Inv => TypeOK
  BY DEF Inv
<1> QED BY <1>1, InvInit, InvStep, PTL DEF Spec

(* For any number of threads, with or without excluded ids: two threads    *)
(* never use one buffer or one file, so the library needs no lock on them. *)
THEOREM SlotsArePrivate == Spec => []SlotPrivate
<1>1. Inv => SlotPrivate
  BY DEF Inv
<1> QED BY <1>1, InvInit, InvStep, PTL DEF Spec

-----------------------------------------------------------------------------
(* What the theorems about the trace need beyond Inv.  The entries that a  *)
(* sequence has, and sequences whose complete entries ascend, or are all   *)
(* below those of another.                                                 *)
Elems(s) == {s[i] : i \in DOMAIN s}

Ascending(s) ==
  \A i, j \in DOMAIN s :
    i < j /\ s[i].seq # Torn /\ s[j].seq # Torn => s[i].seq < s[j].seq

Below(s, r) ==
  \A e \in Elems(s), f \in Elems(r) :
    e.seq # Torn /\ f.seq # Torn => e.seq < f.seq

(* The entry that a thread has filled is its latest log call.              *)
Latest ==
  \A t \in Threads :
    /\ at[t] = "outside" => le[t] = <<>>
    /\ count[t] > 0 => next_id >= 1
    /\ count[t] >= Len(le[t])
    /\ tls[t] = 0 => count[t] = Len(le[t])
    /\ Len(le[t]) = 1 =>
         /\ le[t][1].thread = t /\ le[t][1].seq = count[t] - 1
         /\ \/ le[t][1].thread_id = tls[t] /\ tls[t] # 0
            \/ le[t][1].thread_id = 0 /\ le[t][1].seq = 0

(* What is in a buffer or a file was logged by the thread that has the slot*)
(* and is stamped with the slot, or was the thread's first entry.          *)
OwnedBy(k, e) ==
  /\ k # 0 /\ tls[e.thread] = k
  /\ e.seq < count[e.thread] - Len(le[e.thread])
  /\ e.thread_id = k \/ (e.thread_id = 0 /\ e.seq \in {0, Torn})

Owned ==
  \A k \in Slots :
    /\ \A e \in Elems(buffer[k]) : OwnedBy(k, e) /\ e.seq # Torn
    /\ \A e \in Elems(file[k]) : OwnedBy(k, e)

(* The entries there are, and the threads whose entries are stamped 0.     *)
Logged ==
  UNION ({Elems(le[t]) : t \in Threads} \cup {Elems(buffer[k]) : k \in Slots}
         \cup {Elems(file[k]) : k \in Slots})

Zeros == {e.thread : e \in {f \in Logged : f.thread_id = 0}}

(* One thread draws 0.                                                     *)
OneZero == \A t, u \in Zeros : t = u

(* With memory for the list, an excluded id has no slot and stamps nothing.*)
NoneExcluded ==
  /\ \A t \in Threads : tls[t] \in Slots \ {0} => tls[t] \notin Excluded
  /\ 0 \in Excluded => Zeros = {}

-----------------------------------------------------------------------------
(* A buffer holds no more than its thread logged, and exactly BufferSize   *)
(* when it is flushed.                                                     *)
Counted ==
  \A t \in Threads :
    /\ tls[t] \in Slots \ {0} => Len(buffer[tls[t]]) + Len(le[t]) <= count[t]
    /\ at[t] \in Flushing =>
         count[t] > BufferSize /\ Len(buffer[tls[t]]) = BufferSize

(* A thread of slot k is in one of the places S; so is logExit.            *)
ThreadIn(k, S) == \E t \in Threads : tls[t] = k /\ at[t] \in S

ExitIn(k, S) == exitAt.slot = k /\ exitAt.step \in S

(* At a slot that is not raced, logExit and the flush keep apart, and find *)
(* open what they write to.                                                *)
Apart(k) ==
  /\ exitAt.slot = k /\ exitAt.step # "look" => ~ThreadIn(k, {"open", "write", "reset"})
  /\ ThreadIn(k, {"open"}) => out[k] = "null"
  /\ ThreadIn(k, {"write"}) => out[k] = "open"
  /\ ExitIn(k, {"write", "close"}) => out[k] = "open"
  /\ ExitIn(k, {"open"}) => out[k] = "null"
  /\ out[k] = "closed" => ExitIn(k, {"null"})

KeptApart == \A k \in Slots \ raced : Apart(k)

(* Only a thread that flushes races, and only a race crashes the program.  *)
CrashInv ==
  /\ raced # {} => \E t \in Threads : count[t] > BufferSize
  /\ crashed => raced # {}

(* A buffer that is used is allocated.                                     *)
Backed ==
  /\ \A t \in Threads : at[t] \in Flushing \cup {"store"} => allocated[tls[t]]
  /\ \A k \in Slots : buffer[k] # <<>> => allocated[k]

(* Where the entries are that logExit found in a buffer.                   *)
Due(k) ==
  /\ ThreadIn(k, {"reset"}) =>
       out[k] = "open" /\ Elems(buffer[k]) \subseteq Elems(file[k])
  /\ exitAt.slot < k \/ ExitIn(k, {"look", "check", "open", "write"}) =>
       \A e \in Elems(due[k]) :
         e \in Elems(buffer[k]) \/ (out[k] = "open" /\ e \in Elems(file[k]))
  /\ ExitIn(k, {"close", "null"}) => Elems(due[k]) \subseteq Elems(file[k])
  /\ exitAt.slot > k /\ out[k] = "null" => Elems(due[k]) \subseteq Elems(file[k])

DueKept == \A k \in Slots \ (raced \cup failed) : Due(k)

(* The next flush will not repeat what is in the file.                     *)
Fresh(k) ==
  out[k] = "open" /\ ~ThreadIn(k, {"reset"}) /\ ~ExitIn(k, {"close", "null"})

Sorted(k) ==
  /\ Ascending(file[k]) /\ Ascending(buffer[k])
  /\ Fresh(k) => Below(file[k], buffer[k])

AllSorted == \A k \in Slots \ raced : Sorted(k)

(* The first log call of thread t that is in its buffer, if any is.        *)
Base(t) == count[t] - Len(le[t]) - Len(buffer[tls[t]])

Multiple(n) == \E q \in Int : n = q * BufferSize

(* Entries in the order in which they were logged, from the b-th on, which *)
(* begins a buffer; the last of them may be torn.                          *)
Run(b, s) ==
  /\ Multiple(b)
  /\ \A i \in DOMAIN s :
       IF s[i].seq = Torn THEN i = Len(s) ELSE s[i].seq = b + i - 1

(* The gaps in a file are whole buffers, and so is what it ends with.      *)
WholeGaps(s) ==
  \A i \in DOMAIN s :
    LET before == IF i = 1 THEN -1 ELSE s[i - 1].seq
    IN IF s[i].seq = Torn THEN i = Len(s) ELSE Multiple(s[i].seq - before - 1)

WholeEnd(s) ==
  s # <<>> => s[Len(s)].seq # Torn /\ Multiple(s[Len(s)].seq + 1)

(* Buffers are filled in order, each beginning at a multiple of their size;*)
(* so files grow by whole buffers while they are open, if nothing fails.   *)
Aligned ==
  \A t \in Threads :
    tls[t] \in Slots \ {0} /\ tls[t] \notin failed => Run(Base(t), buffer[tls[t]])

Whole(k) ==
  /\ WholeGaps(file[k])
  /\ out[k] = "open" /\ ~ExitIn(k, {"close", "null"}) => WholeEnd(file[k])

AllWhole == \A k \in Slots \ (raced \cup failed) : Whole(k)

(* logExit is called once, by a program that has ended its threads, and    *)
(* neither malloc nor fopen fails.                                         *)
OneExit == MaxExits <= 1 /\ ~ExitRaces /\ ~MallocMayFail /\ ~OpenMayFail

(* A file holds the first n log calls of thread t.                         *)
Holds(t, s, n) ==
  /\ Len(s) = n
  /\ \A i \in DOMAIN s : s[i].thread = t /\ s[i].seq = i - 1

(* Then the file is what the buffer does not hold, and from fwrite on, all.*)
Saved(t) ==
  LET k == tls[t]
  IN IF at[t] = "reset" \/ (exits > 0 /\ exitAt.slot > k) \/ ExitIn(k, {"close", "null"})
     THEN /\ Holds(t, file[k], count[t] - Len(le[t]))
          /\ at[t] = "reset" => out[k] = "open"
     ELSE /\ Holds(t, file[k], Base(t))
          /\ out[k] = "null" => file[k] = <<>>

SavedInv ==
  /\ raced = {} /\ failed = {}
  /\ exits <= 1 /\ (exits = 0 => exitAt = Idle)
  /\ exits > 0 => \A t \in Threads : at[t] = "outside"
  /\ \A t \in Threads : tls[t] \in Slots \ {0} => Saved(t)

-----------------------------------------------------------------------------
(* What the steps leave alone.                                             *)

(* The entries of sequences put together.                                  *)
LEMMA ElemsOf ==
  ASSUME NEW s \in Seq(Entry), NEW r \in Seq(Entry), NEW e
  PROVE  /\ Elems(s \o r) = Elems(s) \cup Elems(r)
         /\ e \in Entry => Elems(Append(s, e)) = Elems(s) \cup {e}
         /\ Elems(<<>>) = {}
         /\ Elems(s) \subseteq Entry
         /\ (Elems(s) = {} <=> s = <<>>)
<1>1. Elems(s \o r) \subseteq Elems(s) \cup Elems(r)
  BY DEF Elems
<1>2. Elems(s) \subseteq Elems(s \o r)
  BY DEF Elems
<1>3. ASSUME NEW i \in DOMAIN r PROVE r[i] \in Elems(s \o r)
  <2>1. Len(s) + i \in DOMAIN (s \o r) /\ (s \o r)[Len(s) + i] = r[i]
    OBVIOUS
  <2> QED BY <2>1 DEF Elems
<1>4. Elems(r) \subseteq Elems(s \o r)
  BY <1>3 DEF Elems
<1>5. ASSUME e \in Entry PROVE Elems(Append(s, e)) = Elems(s) \cup {e}
  <2>1. Elems(Append(s, e)) \subseteq Elems(s) \cup {e}
    BY <1>5 DEF Elems
  <2>2. Elems(s) \subseteq Elems(Append(s, e))
    BY <1>5 DEF Elems
  <2>3. Len(s) + 1 \in DOMAIN Append(s, e) /\ Append(s, e)[Len(s) + 1] = e
    BY <1>5
  <2>4. e \in Elems(Append(s, e))
    BY <2>3 DEF Elems
  <2> QED BY <2>1, <2>2, <2>4
<1>6. Elems(<<>>) = {} /\ Elems(s) \subseteq Entry
  BY DEF Elems
<1>7. Elems(s) = {} => s = <<>>
  <2>1. ASSUME s # <<>> PROVE s[1] \in Elems(s)
    <3>1. 1 \in DOMAIN s
      BY <2>1
    <3> QED BY <3>1 DEF Elems
  <2> QED BY <2>1
<1> QED BY <1>1, <1>2, <1>4, <1>5, <1>6, <1>7

(* A thread that may draw an id touches no buffer and no file.  An id with *)
(* a slot that it draws was nobody's.                                      *)
LEMMA DrawFrame ==
  ASSUME Inv, NEW t \in Threads, Fill(t) \/ Discard(t) \/ Enter(t)
  PROVE  /\ UNCHANGED <<buffer, out, file, exits, exitAt, crashed, due, raced>>
         /\ failed \subseteq failed'
         /\ \A k \in Slots : allocated[k] => allocated'[k]
         /\ \A u \in Threads : u # t =>
              tls'[u] = tls[u] /\ at'[u] = at[u] /\ le'[u] = le[u] /\ count'[u] = count[u]
         /\ tls[t] # 0 => tls'[t] = tls[t]
         /\ tls'[t] \in Slots \ {0} /\ tls[t] = 0 =>
              \A u \in Threads : tls[u] # tls'[t]
         /\ at[t] \in {"outside", "filled"}
         /\ at'[t] \in {"outside", "filled", "flush", "store"}
         /\ Running
<1>1. TypeOK
  BY DEF Inv
<1>2. PICK id : Gettid(t, id)
  BY DEF Fill, Discard, Enter
<1>3. /\ tls' = [tls EXCEPT ![t] = id] /\ tls' \in [Threads -> Nat]
      /\ tls[t] # 0 => id = tls[t]
  BY <1>1, <1>2, GettidTypes
<1>4. SlotPrivate'
  BY <1>2, GettidPrivate
<1>5. /\ tls'[t] = id
      /\ \A u \in Threads : u # t => tls'[u] = tls[u]
  BY <1>1, <1>3 DEF TypeOK
<1>6. tls'[t] \in Slots \ {0} /\ tls[t] = 0 => \A u \in Threads : tls[u] # tls'[t]
  BY <1>4, <1>5 DEF SlotPrivate, Slots
<1>7. PICK from \in {"outside", "filled"}, to \in {"outside", "filled", "flush", "store"} :
        Go(t, from, to)
  BY DEF Fill, Discard, Enter
<1>8. /\ at[t] = from /\ at'[t] = to
      /\ \A u \in Threads : u # t => at'[u] = at[u]
      /\ Running
  BY <1>1, <1>7, GoTypes DEF Flushing, Go
<1>9. \A u \in Threads : u # t => le'[u] = le[u] /\ count'[u] = count[u]
  BY <1>1 DEF Fill, Discard, Enter, TypeOK
<1>10. UNCHANGED <<buffer, out, file, exits, exitAt, crashed, due, raced>>
       /\ failed \subseteq failed'
  BY DEF Fill, Discard, Enter, slots
<1>11. \A k \in Slots : allocated[k] => allocated'[k]
  BY <1>1 DEF Fill, Discard, Enter, slots, TypeOK
<1> QED BY <1>3, <1>5, <1>6, <1>7, <1>8, <1>9, <1>10, <1>11

(* A thread at work on its slot touches no other.                          *)
LEMMA WorkFrame ==
  ASSUME Inv, NEW t \in Threads,
         Flush(t) \/ Open(t) \/ Write(t) \/ Empty(t) \/ Store(t)
  PROVE  /\ UNCHANGED <<next_id, tls, count, exits, exitAt, due, allocated>>
         /\ tls[t] \in Slots \ {0}
         /\ Len(le[t]) = 1 /\ le[t] \in Seq(Entry) /\ le[t][1] \in Entry
         /\ \A u \in Threads : u # t => tls[u] # tls[t]
         /\ \A u \in Threads : u # t => at'[u] = at[u] /\ le'[u] = le[u]
         /\ \A k \in Slots : k # tls[t] =>
              buffer'[k] = buffer[k] /\ out'[k] = out[k] /\ file'[k] = file[k]
         /\ raced \subseteq raced' /\ raced' \subseteq raced \cup {tls[t]}
         /\ failed \subseteq failed' /\ failed' \subseteq failed \cup {tls[t]}
         /\ ~crashed /\ Running
<1>1. TypeOK /\ Inside /\ SlotPrivate
  BY DEF Inv
<1>2. UNCHANGED <<next_id, tls, count, exits, exitAt, due, allocated>>
  BY DEF Flush, Open, Write, Empty, Store, slots
<1>3. PICK from \in Flushing \cup {"store"}, to \in Flushing \cup {"outside", "store"} :
        Go(t, from, to)
  BY DEF Flush, Open, Write, Empty, Store, Flushing
<1>4. /\ at[t] = from /\ \A u \in Threads : u # t => at'[u] = at[u]
      /\ ~crashed /\ Running
  BY <1>1, <1>3, GoTypes DEF Go, Running
<1>5. tls[t] \in Slots \ {0} /\ Len(le[t]) = 1
  BY <1>1, <1>3, <1>4 DEF Inside, Flushing
<1>6. le[t] \in Seq(Entry) /\ le[t][1] \in Entry
  <2>1. le[t] \in Seq(Entry)
    BY <1>1 DEF TypeOK
  <2> QED BY <1>5, <2>1
<1>7. \A u \in Threads : u # t => tls[u] # tls[t]
  BY <1>1, <1>5 DEF SlotPrivate
<1>8. \A u \in Threads : u # t => le'[u] = le[u]
  BY <1>1 DEF Flush, Open, Write, Empty, Store, TypeOK
<1>9. \A k \in Slots : k # tls[t] =>
        buffer'[k] = buffer[k] /\ out'[k] = out[k] /\ file'[k] = file[k]
  BY <1>1 DEF Flush, Open, Write, Empty, Store, TypeOK, slots
<1>10. /\ raced \subseteq raced' /\ raced' \subseteq raced \cup {tls[t]}
       /\ failed \subseteq failed' /\ failed' \subseteq failed \cup {tls[t]}
  BY DEF Flush, Open, Write, Empty, Store, Races
<1> QED BY <1>2, <1>4, <1>5, <1>6, <1>7, <1>8, <1>9, <1>10

(* logExit at a slot touches no other, and nothing of a thread.            *)
LEMMA ExitFrame ==
  ASSUME Inv, ExitStep
  PROVE  /\ UNCHANGED <<next_id, tls, le, at, count, buffer, exits, due, allocated>>
         /\ exitAt.slot \in Slots
         /\ \A k \in Slots : k # exitAt.slot => out'[k] = out[k] /\ file'[k] = file[k]
         /\ raced \subseteq raced' /\ raced' \subseteq raced \cup {exitAt.slot}
         /\ failed \subseteq failed' /\ failed' \subseteq failed \cup {exitAt.slot}
         /\ ~crashed
         /\ \/ exitAt'.slot = exitAt.slot
            \/ exitAt'.slot = exitAt.slot + 1 /\ exitAt'.step = "look"
<1>1. TypeOK /\ ExitInside
  BY DEF Inv
<1>2. ~crashed /\ exitAt # Idle
  BY DEF ExitStep, ExitLook, ExitCheck, ExitOpen, ExitWrite, ExitClose, ExitNull,
         Exiting
<1>3. exitAt.slot \in Slots
  BY <1>1, <1>2 DEF ExitInside
<1>4. UNCHANGED <<next_id, tls, le, at, count, buffer>>
  BY ExitSteps
<1>5. UNCHANGED <<exits, due, allocated>>
  BY DEF ExitStep, ExitLook, ExitCheck, ExitOpen, ExitWrite, ExitClose, ExitNull, slots
<1>6. \A k \in Slots : k # exitAt.slot => out'[k] = out[k] /\ file'[k] = file[k]
  BY <1>1, <1>3 DEF ExitStep, ExitLook, ExitCheck, ExitOpen, ExitWrite, ExitClose,
                    ExitNull, slots, TypeOK
<1>7. /\ raced \subseteq raced' /\ raced' \subseteq raced \cup {exitAt.slot}
      /\ failed \subseteq failed' /\ failed' \subseteq failed \cup {exitAt.slot}
  BY DEF ExitStep, ExitLook, ExitCheck, ExitOpen, ExitWrite, ExitClose, ExitNull,
         ExitRacing
<1>8. \/ exitAt'.slot = exitAt.slot
      \/ exitAt'.slot = exitAt.slot + 1 /\ exitAt'.step = "look"
  BY <1>1 DEF ExitStep, ExitLook, ExitCheck, ExitOpen, ExitWrite, ExitClose,
                    ExitNull, ExitGo, ExitNext, TypeOK
<1> QED BY <1>2, <1>3, <1>4, <1>5, <1>6, <1>7, <1>8

-----------------------------------------------------------------------------
(* Whose the entries are.                                                  *)

(* gettid changes the counter only with the thread's id, which it forgets  *)
(* when it is 0: the first one drawn.                                      *)
LEMMA FirstDraw ==
  ASSUME Inv, NEW t \in Threads, NEW id, Gettid(t, id)
  PROVE  /\ id = 0 => next_id = 0 /\ tls[t] = 0
         /\ tls'[t] = id /\ next_id' >= next_id /\ next_id' \in Nat
         /\ (tls[t] = 0 => next_id' >= 1)
         /\ (id = 0 /\ ~MallocMayFail => 0 \notin Excluded)
         /\ (tls[t] = 0 /\ id \in Slots /\ ~MallocMayFail => id \notin Excluded)
<1>1. TypeOK /\ MaxThreads \in Nat \ {0} /\ next_id \in Nat /\ tls[t] \in Nat
  BY BinaryTraceAssumption DEF Inv, TypeOK
<1>2. /\ next_id' \in Nat /\ next_id' >= next_id /\ tls' = [tls EXCEPT ![t] = id]
      /\ tls[t] = 0 => next_id' >= 1
      /\ tls[t] # 0 => id = tls[t]
  BY <1>1, GettidTypes
<1>3. tls'[t] = id
  BY <1>1, <1>2 DEF TypeOK
<1>4. tls[t] = 0 => id \in {Checked(next_id)} \cup (IF MallocMayFail THEN {next_id} ELSE {})
  BY DEF Gettid, Tids
<1>5. id = 0 => next_id = 0 /\ tls[t] = 0
  BY <1>1, <1>2, <1>4 DEF Checked
<1>6. id = 0 /\ ~MallocMayFail => 0 \notin Excluded
  BY <1>1, <1>4, <1>5 DEF Checked
<1>7. tls[t] = 0 /\ id \in Slots /\ ~MallocMayFail => id \notin Excluded
  BY <1>1, <1>4 DEF Checked, Slots
<1> QED BY <1>2, <1>3, <1>5, <1>6, <1>7

(* What is filled stays the latest log call: in a thread that draws,       *)
LEMMA LatestDraw ==
  ASSUME Inv, Latest, NEW t \in Threads, Fill(t) \/ Discard(t) \/ Enter(t)
  PROVE  Latest'
<1>1. /\ TypeOK /\ Inside /\ count[t] \in Nat /\ Len(<<>>) = 0
      /\ le \in [Threads -> Seq(Entry)] /\ count \in [Threads -> Nat]
      /\ next_id \in Nat
  BY DEF Inv, TypeOK
<1>2. PICK id : Gettid(t, id) /\ (Fill(t) => le' = [le EXCEPT ![t] =
                   <<[thread |-> t, seq |-> count[t], thread_id |-> id]>>])
  BY DEF Fill, Discard, Enter
<1>3. /\ id = 0 => next_id = 0 /\ tls[t] = 0
      /\ tls'[t] = id /\ next_id' >= next_id /\ next_id' \in Nat
      /\ (tls[t] = 0 => next_id' >= 1)
  BY <1>2, FirstDraw
<1>4. \A u \in Threads : u # t =>
        tls'[u] = tls[u] /\ at'[u] = at[u] /\ le'[u] = le[u] /\ count'[u] = count[u]
  BY DrawFrame
<1>5. tls[t] # 0 => next_id >= 1
  BY DEF Inv, Known
<1> SUFFICES ASSUME NEW u \in Threads
             PROVE  /\ at'[u] = "outside" => le'[u] = <<>>
                    /\ count'[u] > 0 => next_id' >= 1
                    /\ count'[u] >= Len(le'[u])
                    /\ tls'[u] = 0 => count'[u] = Len(le'[u])
                    /\ Len(le'[u]) = 1 =>
                         /\ le'[u][1].thread = u /\ le'[u][1].seq = count'[u] - 1
                         /\ \/ le'[u][1].thread_id = tls'[u] /\ tls'[u] # 0
                            \/ le'[u][1].thread_id = 0 /\ le'[u][1].seq = 0
  BY DEF Latest
<1>6. CASE u # t
  <2>1. tls'[u] = tls[u] /\ at'[u] = at[u] /\ le'[u] = le[u] /\ count'[u] = count[u]
    BY <1>4, <1>6
  <2> QED BY <1>1, <1>3, <2>1 DEF Latest
<1>7. CASE u = t /\ Fill(t)
  <2> DEFINE e == [thread |-> t, seq |-> count[t], thread_id |-> id]
  <2>1. le' = [le EXCEPT ![t] = <<e>>]
    BY <1>2, <1>7
  <2>2. e.thread = t /\ e.seq = count[t] /\ e.thread_id = id
    OBVIOUS
  <2> HIDE DEF e
  <2>3. le'[t] = <<e>> /\ Len(le'[t]) = 1 /\ le'[t][1] = e
    BY <1>1, <2>1
  <2>4. at[t] = "outside" /\ at'[t] = "filled" /\ count' = [count EXCEPT ![t] = @ + 1]
    BY <1>1, <1>7, GoTypes DEF Fill
  <2>5. count'[t] = count[t] + 1
    BY <1>1, <2>4
  <2>6. tls[t] = 0 => count[t] = 0
    BY <1>1, <2>4 DEF Latest
  <2>7. next_id' >= 1
    BY <1>1, <1>3, <1>5
  <2> QED BY <1>1, <1>3, <1>7, <2>2, <2>3, <2>4, <2>5, <2>6, <2>7
<1>8. CASE u = t /\ ~Fill(t)
  <2>1. at[t] = "filled" /\ (Discard(t) => at'[t] = "outside") /\ (Enter(t) => at'[t] # "outside")
    BY <1>1, <1>8, GoTypes DEF Discard, Enter, Flushing
  <2>2. Len(le[t]) = 1 /\ next_id >= 1
    BY <1>1, <2>1 DEF Inside
  <2>3. UNCHANGED count
    BY <1>8 DEF Discard, Enter
  <2>4. id # 0
    BY <1>1, <1>3, <2>2
  <2>5. CASE Discard(t)
    <3>1. le' = [le EXCEPT ![t] = <<>>]
      BY <2>5 DEF Discard
    <3>2. le'[t] = <<>> /\ Len(le'[t]) = 0
      BY <1>1, <3>1
    <3> QED BY <1>1, <1>3, <1>8, <2>2, <2>3, <2>4, <3>2
  <2>6. CASE Enter(t)
    <3>1. le' = le
      BY <2>6 DEF Enter
    <3>2. /\ tls[t] # 0 => id = tls[t]
      BY <1>1, <1>2, GettidTypes
    <3>3. /\ le[t][1].thread = t /\ le[t][1].seq = count[t] - 1
          /\ \/ le[t][1].thread_id = tls[t] /\ tls[t] # 0
             \/ le[t][1].thread_id = 0 /\ le[t][1].seq = 0
          /\ count[t] >= Len(le[t])
      BY <2>2 DEF Latest
    <3>4. /\ at'[t] # "outside" /\ tls'[t] # 0 /\ next_id' >= 1
          /\ count'[t] = count[t] /\ le'[t] = le[t]
      BY <1>1, <1>3, <2>1, <2>2, <2>3, <2>4, <2>6, <3>1
    <3>5. \/ le[t][1].thread_id = tls'[t]
          \/ le[t][1].thread_id = 0 /\ le[t][1].seq = 0
      BY <1>3, <3>2, <3>3
    <3> QED BY <1>8, <3>3, <3>4, <3>5
  <2> QED BY <1>8, <2>5, <2>6
<1> QED BY <1>6, <1>7, <1>8

(* and in every step.                                                      *)
LEMMA LatestStep == Inv /\ Latest /\ [Next]_vars => Latest'
<1> SUFFICES ASSUME Inv, Latest, [Next]_vars PROVE Latest'
  OBVIOUS
<1>1. ASSUME NEW t \in Threads, Fill(t) \/ Discard(t) \/ Enter(t) PROVE Latest'
  BY <1>1, LatestDraw
<1>2. ASSUME NEW t \in Threads,
             Flush(t) \/ Open(t) \/ Write(t) \/ Empty(t) \/ Store(t)
      PROVE  Latest'
  <2>1. /\ UNCHANGED <<next_id, tls, count>>
        /\ Len(le[t]) = 1
        /\ \A u \in Threads : u # t => at'[u] = at[u] /\ le'[u] = le[u]
        /\ TypeOK /\ tls[t] # 0
    BY <1>2, WorkFrame DEF Inv
  <2>2. CASE Store(t)
    <3>1. le'[t] = <<>> /\ Len(le'[t]) = 0 /\ count[t] \in Nat
      BY <2>1, <2>2 DEF Store, TypeOK
    <3> QED BY <2>1, <3>1 DEF Latest
  <2>3. CASE ~Store(t)
    <3>1. le' = le
      BY <1>2, <2>3 DEF Flush, Open, Write, Empty
    <3>2. PICK from, to \in Flushing \cup {"store"} : Go(t, from, to)
      BY <1>2, <2>3 DEF Flush, Open, Write, Empty, Flushing
    <3>3. at'[t] # "outside"
      BY <2>1, <3>2, GoTypes DEF Flushing
    <3> QED BY <2>1, <3>1, <3>3 DEF Latest
  <2> QED BY <2>2, <2>3
<1>3. CASE ExitStep \/ LogExit
  <2>1. UNCHANGED <<next_id, tls, le, at, count>>
    BY <1>3, ExitSteps, LogExitStep
  <2> QED BY <2>1 DEF Latest
<1>4. CASE UNCHANGED vars
  BY <1>4 DEF vars, Latest
<1> QED BY <1>1, <1>2, <1>3, <1>4 DEF Next, ThreadStep, Terminated

(* What a step does to a buffer: it is emptied, or an entry is stored.     *)
LEMMA BufferSteps ==
  ASSUME Inv, [Next]_vars, NEW k \in Slots
  PROVE  \/ buffer'[k] = buffer[k]
         \/ \E t \in Threads : Empty(t) /\ tls[t] = k /\ buffer'[k] = <<>>
         \/ \E t \in Threads :
              /\ Store(t) /\ tls[t] = k /\ le[t][1] \in Entry /\ Len(le[t]) = 1
              /\ buffer'[k] = Append(buffer[k], le[t][1])
<1>1. TypeOK /\ buffer[k] \in Seq(Entry)
  BY DEF Inv, TypeOK
<1>2. ASSUME NEW t \in Threads, Store(t) PROVE
         \/ buffer'[k] = buffer[k]
         \/ /\ tls[t] = k /\ le[t][1] \in Entry /\ Len(le[t]) = 1
            /\ buffer'[k] = Append(buffer[k], le[t][1])
  <2>1. /\ le[t][1] \in Entry /\ Len(le[t]) = 1
        /\ k # tls[t] => buffer'[k] = buffer[k]
    BY <1>2, WorkFrame
  <2>2. tls[t] = k => buffer'[k] = Append(buffer[k], le[t][1])
    BY <1>1, <1>2 DEF Store, TypeOK
  <2> QED BY <2>1, <2>2
<1>3. ASSUME NEW t \in Threads, Empty(t)
      PROVE  buffer'[k] = buffer[k] \/ (tls[t] = k /\ buffer'[k] = <<>>)
  <2>1. k # tls[t] => buffer'[k] = buffer[k]
    BY <1>3, WorkFrame
  <2>2. k = tls[t] => buffer'[k] = <<>>
    BY <1>1, <1>3 DEF Empty, TypeOK
  <2> QED BY <2>1, <2>2
<1>4. ASSUME NEW t \in Threads,
             Fill(t) \/ Discard(t) \/ Enter(t) \/ Flush(t) \/ Open(t) \/ Write(t)
      PROVE  UNCHANGED buffer
  BY <1>4 DEF Fill, Discard, Enter, Flush, Open, Write, slots
<1>5. ASSUME ExitStep \/ LogExit \/ UNCHANGED vars PROVE UNCHANGED buffer
  BY <1>5, ExitSteps, LogExitStep DEF vars, slots
<1> QED BY <1>2, <1>3, <1>4, <1>5 DEF Next, ThreadStep, Terminated

(* What a step adds to a buffer: the entry that is stored.                 *)
LEMMA BufferGets ==
  ASSUME Inv, [Next]_vars, NEW k \in Slots
  PROVE  \/ Elems(buffer'[k]) \subseteq Elems(buffer[k])
         \/ \E t \in Threads :
              /\ Store(t) /\ tls[t] = k /\ le[t][1] \in Entry /\ Len(le[t]) = 1
              /\ Elems(buffer'[k]) = Elems(buffer[k]) \cup {le[t][1]}
<1>1. buffer[k] \in Seq(Entry) /\ Elems(<<>>) = {}
  BY ElemsOf DEF Inv, TypeOK
<1>2. ASSUME NEW t \in Threads, le[t][1] \in Entry
      PROVE  Elems(Append(buffer[k], le[t][1])) = Elems(buffer[k]) \cup {le[t][1]}
  BY <1>1, <1>2, ElemsOf
<1>3. CASE buffer'[k] \in {buffer[k], <<>>}
  BY <1>1, <1>3
<1>4. CASE \E t \in Threads :
             /\ Store(t) /\ tls[t] = k /\ le[t][1] \in Entry /\ Len(le[t]) = 1
             /\ buffer'[k] = Append(buffer[k], le[t][1])
  BY <1>2, <1>4
<1> QED BY <1>3, <1>4, BufferSteps

(* An entry that is written while it is being stored.                      *)
TornOf(t) == [le[t][1] EXCEPT !.seq = Torn]

(* What is written has the entries of the buffer, and perhaps a torn one.  *)
LEMMA WrittenElems ==
  ASSUME Inv, NEW k \in Slots, NEW r \in Written(k)
  PROVE  /\ r \in Seq(Entry) /\ Elems(buffer[k]) \subseteq Elems(r)
         /\ \/ r = buffer[k]
            \/ \E t \in Threads :
                 /\ at[t] = "store" /\ tls[t] = k /\ Len(le[t]) = 1
                 /\ TornOf(t) \in Entry /\ r = Append(buffer[k], TornOf(t))
                 /\ Elems(r) = Elems(buffer[k]) \cup {TornOf(t)}
<1>1. TypeOK /\ Inside /\ buffer[k] \in Seq(Entry)
  BY DEF Inv, TypeOK
<1>2. CASE r = buffer[k]
  BY <1>1, <1>2
<1>3. ASSUME NEW t \in Threads, at[t] = "store", tls[t] = k, r = Append(buffer[k], TornOf(t))
      PROVE  /\ Len(le[t]) = 1 /\ TornOf(t) \in Entry
             /\ r \in Seq(Entry) /\ Elems(r) = Elems(buffer[k]) \cup {TornOf(t)}
  <2>1. Len(le[t]) = 1 /\ le[t] \in Seq(Entry)
    BY <1>1, <1>3 DEF Inside, TypeOK
  <2>2. le[t][1] \in Entry
    BY <2>1
  <2>3. TornOf(t) \in Entry
    BY <2>2 DEF Entry, TornOf
  <2> QED BY <1>1, <1>3, <2>1, <2>3, ElemsOf, EntrySeqs
<1>4. r = buffer[k] \/ \E t \in Threads :
        at[t] = "store" /\ tls[t] = k /\ r = Append(buffer[k], TornOf(t))
  BY DEF Written, TornOf
<1> QED BY <1>2, <1>3, <1>4

(* What a step adds to a file: entries of the buffer, and perhaps a torn   *)
(* one.                                                                    *)
LEMMA FileGets ==
  ASSUME Inv, [Next]_vars, NEW k \in Slots, NEW e \in Elems(file'[k])
  PROVE  \/ e \in Elems(file[k]) \cup Elems(buffer[k])
         \/ \E t \in Threads :
              at[t] = "store" /\ tls[t] = k /\ Len(le[t]) = 1 /\ e = TornOf(t)
<1>1. /\ TypeOK /\ buffer[k] \in Seq(Entry) /\ file[k] \in Seq(Entry)
      /\ Elems(<<>>) = {}
  BY ElemsOf DEF Inv, TypeOK
<1>2. CASE file'[k] = file[k]
  BY <1>2
<1>3. ASSUME NEW t \in Threads, Open(t) \/ Write(t)
      PROVE  file'[k] \in {file[k], <<>>, file[k] \o buffer[k]}
  <2>1. k # tls[t] => file'[k] = file[k]
    BY <1>3, WorkFrame
  <2>2. k = tls[t] => file'[k] \in {file[k], <<>>, file[k] \o buffer[k]}
    BY <1>1, <1>3 DEF Open, Write, Opened, TypeOK
  <2> QED BY <2>1, <2>2
<1>4. ASSUME ExitOpen PROVE file'[k] \in {file[k], <<>>}
  BY <1>1, <1>4 DEF ExitOpen, Opened, TypeOK
<1>5. ASSUME ExitWrite
      PROVE  file'[k] = file[k] \/ \E r \in Written(k) : file'[k] = file[k] \o r
  <2>1. CASE k # exitAt.slot
    BY <1>5, <2>1, ExitFrame DEF ExitStep
  <2>2. CASE k = exitAt.slot
    <3>1. \/ file' = file
          \/ \E r \in Written(k) : file' = [file EXCEPT ![k] = file[k] \o r]
      BY <1>5, <2>2 DEF ExitWrite
    <3>2. file \in [Slots -> Seq(Entry)]
      BY <1>1 DEF TypeOK
    <3> QED BY <3>1, <3>2
  <2> QED BY <2>1, <2>2
<1>6. ASSUME NEW r \in Written(k), file'[k] = file[k] \o r
      PROVE  \/ e \in Elems(file[k]) \cup Elems(buffer[k])
             \/ \E t \in Threads :
                  at[t] = "store" /\ tls[t] = k /\ Len(le[t]) = 1 /\ e = TornOf(t)
  <2>1. r \in Seq(Entry)
    BY WrittenElems
  <2>2. e \in Elems(file[k]) \cup Elems(r)
    BY <1>1, <1>6, <2>1, ElemsOf
  <2>3. \/ r = buffer[k]
        \/ \E t \in Threads :
             /\ at[t] = "store" /\ tls[t] = k /\ Len(le[t]) = 1
             /\ Elems(r) = Elems(buffer[k]) \cup {TornOf(t)}
    BY WrittenElems
  <2>4. CASE r = buffer[k]
    BY <2>2, <2>4
  <2>5. CASE r # buffer[k]
    <3>1. PICK u \in Threads : /\ at[u] = "store" /\ tls[u] = k /\ Len(le[u]) = 1
                              /\ Elems(r) = Elems(buffer[k]) \cup {TornOf(u)}
      BY <2>3, <2>5
    <3>2. e \in Elems(file[k]) \cup Elems(buffer[k]) \/ e = TornOf(u)
      BY <2>2, <3>1
    <3> QED BY <3>1, <3>2
  <2> QED BY <2>4, <2>5
<1>7. CASE file'[k] \in {<<>>, file[k] \o buffer[k]}
  <2>1. /\ Elems(<<>>) = {}
        /\ Elems(file[k] \o buffer[k]) = Elems(file[k]) \cup Elems(buffer[k])
    BY <1>1, ElemsOf
  <2>2. e \in Elems(file[k]) \cup Elems(buffer[k])
    BY <1>7, <2>1
  <2> QED BY <2>2
<1>8. ASSUME NEW t \in Threads,
             Fill(t) \/ Discard(t) \/ Enter(t) \/ Flush(t) \/ Empty(t) \/ Store(t)
      PROVE  file'[k] = file[k]
  BY <1>8 DEF Fill, Discard, Enter, Flush, Empty, Store, slots
<1>9. ASSUME ExitLook \/ ExitCheck \/ ExitClose \/ ExitNull \/ LogExit \/ UNCHANGED vars
      PROVE  file'[k] = file[k]
  BY <1>9 DEF ExitLook, ExitCheck, ExitClose, ExitNull, LogExit, vars, slots
<1> QED BY <1>2, <1>3, <1>4, <1>5, <1>6, <1>7, <1>8, <1>9
        DEF Next, ThreadStep, ExitStep, Terminated

(* An owner keeps its slot, and has ever more log calls behind it.         *)
LEMMA OwnerKept ==
  ASSUME Inv, Latest, [Next]_vars, NEW t \in Threads
  PROVE  /\ tls[t] # 0 => tls'[t] = tls[t]
         /\ count'[t] - Len(le'[t]) >= count[t] - Len(le[t])
         /\ count'[t] - Len(le'[t]) \in Int /\ count[t] - Len(le[t]) \in Int
         /\ Store(t) => count'[t] - Len(le'[t]) = count[t]
<1>0. /\ TypeOK /\ Inside /\ Inv' /\ count[t] \in Nat /\ count'[t] \in Nat
      /\ le[t] \in Seq(Entry) /\ le'[t] \in Seq(Entry)
      /\ Len(le[t]) \in Nat /\ Len(le'[t]) \in Nat /\ Len(<<>>) = 0
  <2>1. Inv'
    BY InvStep
  <2>2. TypeOK /\ Inside /\ TypeOK'
    BY <2>1 DEF Inv
  <2>3. le[t] \in Seq(Entry) /\ le'[t] \in Seq(Entry)
    BY <2>2 DEF TypeOK
  <2> QED BY <2>1, <2>2, <2>3 DEF TypeOK
<1>1. ASSUME NEW u \in Threads, Fill(u) \/ Discard(u) \/ Enter(u)
      PROVE  tls[t] # 0 => tls'[t] = tls[t]
  BY <1>1, DrawFrame
<1>2. ASSUME NEW u \in Threads, Fill(u) \/ Discard(u) \/ Enter(u), u # t
      PROVE  count'[t] = count[t] /\ le'[t] = le[t]
  BY <1>2, DrawFrame
<1>3. ASSUME Fill(t) PROVE count'[t] = count[t] + 1 /\ Len(le'[t]) = 1 /\ Len(le[t]) = 0
  <2>1. at[t] = "outside" /\ count'[t] = count[t] + 1
    BY <1>0, <1>3, GoTypes DEF Fill, TypeOK
  <2>2. le[t] = <<>>
    BY <2>1 DEF Latest
  <2>3. at'[t] = "filled"
    BY <1>0, <1>3, GoTypes DEF Fill
  <2>4. Len(le'[t]) = 1
    BY <1>0, <2>3 DEF Inv, Inside
  <2> QED BY <1>0, <2>1, <2>2, <2>4
<1>4. ASSUME Discard(t) PROVE count'[t] = count[t] /\ Len(le'[t]) = 0
  BY <1>0, <1>4 DEF Discard, TypeOK
<1>5. ASSUME Enter(t) PROVE count'[t] = count[t] /\ le'[t] = le[t]
  BY <1>5 DEF Enter
<1>6. ASSUME NEW u \in Threads,
             Flush(u) \/ Open(u) \/ Write(u) \/ Empty(u) \/ Store(u)
      PROVE  UNCHANGED <<tls, count>> /\ (u # t => le'[t] = le[t])
  BY <1>6, WorkFrame
<1>7. ASSUME Flush(t) \/ Open(t) \/ Write(t) \/ Empty(t)
      PROVE  le'[t] = le[t]
  BY <1>7 DEF Flush, Open, Write, Empty
<1>8. ASSUME Store(t) PROVE Len(le'[t]) = 0
  BY <1>0, <1>8 DEF Store, TypeOK
<1>9. ASSUME ExitStep \/ LogExit \/ UNCHANGED vars PROVE UNCHANGED <<tls, le, count>>
  BY <1>9, ExitSteps, LogExitStep DEF vars
<1>10. tls[t] # 0 => tls'[t] = tls[t]
  BY <1>1, <1>6, <1>9 DEF Next, ThreadStep, Terminated
<1>11. Store(t) => count'[t] - Len(le'[t]) = count[t]
  BY <1>0, <1>6, <1>8
<1>0a. /\ count[t] \in Nat /\ count'[t] \in Nat
       /\ Len(le[t]) \in Nat /\ Len(le'[t]) \in Nat
  BY <1>0
<1>12. count'[t] - Len(le'[t]) >= count[t] - Len(le[t])
  <2>1. ASSUME NEW u \in Threads, ThreadStep(u), u # t
        PROVE  count'[t] = count[t] /\ le'[t] = le[t]
    BY <2>1, <1>2, <1>6 DEF ThreadStep
  <2>2. ASSUME ThreadStep(t) PROVE count'[t] - Len(le'[t]) >= count[t] - Len(le[t])
    <3>1. CASE Fill(t)
      <4>1. count'[t] = count[t] + 1 /\ Len(le'[t]) = 1 /\ Len(le[t]) = 0
        BY <3>1, <1>3
      <4> QED BY <4>1, <1>0a
    <3>2. CASE Discard(t)
      BY <3>2, <1>0a, <1>4
    <3>3. CASE Enter(t)
      BY <3>3, <1>0a, <1>5
    <3>4. CASE Flush(t) \/ Open(t) \/ Write(t) \/ Empty(t)
      BY <3>4, <1>0a, <1>6, <1>7
    <3>5. CASE Store(t)
      BY <3>5, <1>0a, <1>6, <1>8
    <3> QED BY <2>2, <3>1, <3>2, <3>3, <3>4, <3>5 DEF ThreadStep
  <2>3. ASSUME NEW u \in Threads, ThreadStep(u)
        PROVE  count'[t] - Len(le'[t]) >= count[t] - Len(le[t])
    <3>1. CASE u = t
      BY <2>2, <2>3, <3>1
    <3>2. CASE u # t
      <4>1. count'[t] = count[t] /\ le'[t] = le[t]
        BY <2>1, <2>3, <3>2
      <4> QED BY <1>0a, <4>1
    <3> QED BY <3>1, <3>2
  <2>4. ASSUME ExitStep \/ LogExit \/ UNCHANGED vars
        PROVE  count'[t] - Len(le'[t]) >= count[t] - Len(le[t])
    <3>1. count'[t] = count[t] /\ le'[t] = le[t]
      BY <1>9, <2>4
    <3> QED BY <1>0a, <3>1
  <2> QED BY <2>3, <2>4 DEF Next, Terminated
<1> QED BY <1>0a, <1>10, <1>11, <1>12

(* What is owned stays owned.                                              *)
LEMMA OwnedByKept ==
  ASSUME Inv, Latest, [Next]_vars, NEW k \in Slots, NEW e \in Entry, OwnedBy(k, e)
  PROVE  OwnedBy(k, e)'
<1>1. e.thread \in Threads /\ e.seq \in Int
  BY DEF Entry, Torn
<1>2. k # 0 /\ tls[e.thread] = k
  BY DEF OwnedBy
<1>3. tls'[e.thread] = k
  BY <1>1, <1>2, OwnerKept
<1>4. e.seq < count'[e.thread] - Len(le'[e.thread])
  <2>1. /\ count'[e.thread] - Len(le'[e.thread]) >= count[e.thread] - Len(le[e.thread])
        /\ count'[e.thread] - Len(le'[e.thread]) \in Int
        /\ count[e.thread] - Len(le[e.thread]) \in Int
    BY <1>1, OwnerKept
  <2>2. e.seq < count[e.thread] - Len(le[e.thread])
    BY DEF OwnedBy
  <2> QED BY <1>1, <2>1, <2>2
<1> QED BY <1>2, <1>3, <1>4 DEF OwnedBy

(* Entries of buffers and files are entries.                               *)
LEMMA ElemTypes ==
  ASSUME Inv, NEW k \in Slots
  PROVE  /\ Elems(buffer[k]) \subseteq Entry /\ Elems(file[k]) \subseteq Entry
         /\ buffer[k] \in Seq(Entry) /\ file[k] \in Seq(Entry)
<1>1. buffer[k] \in Seq(Entry) /\ file[k] \in Seq(Entry)
  BY DEF Inv, TypeOK
<1> QED BY <1>1, ElemsOf

(* The entry of a thread inside the library is its own and its latest.     *)
LEMMA LatestOf ==
  ASSUME Inv, Latest, NEW t \in Threads, Len(le[t]) = 1, tls[t] # 0
  PROVE  /\ le[t][1] \in Entry /\ le[t][1].thread = t /\ le[t][1].seq = count[t] - 1
         /\ count[t] - 1 \in Nat
         /\ \/ le[t][1].thread_id = tls[t]
            \/ le[t][1].thread_id = 0 /\ le[t][1].seq = 0
         /\ TornOf(t).thread = t /\ TornOf(t).seq = Torn
         /\ TornOf(t).thread_id = le[t][1].thread_id
<1>1. le[t] \in Seq(Entry) /\ count[t] \in Nat
  BY DEF Inv, TypeOK
<1>2. le[t][1] \in Entry
  BY <1>1
<1>3. TornOf(t).thread = le[t][1].thread /\ TornOf(t).seq = Torn
      /\ TornOf(t).thread_id = le[t][1].thread_id
  BY <1>2 DEF TornOf, Entry
<1> QED BY <1>1, <1>2, <1>3 DEF Latest

(* Ownership is inductive.                                                 *)
LEMMA OwnedStep == Inv /\ Latest /\ Owned /\ [Next]_vars => Owned'
<1> SUFFICES ASSUME Inv, Latest, Owned, [Next]_vars, NEW k \in Slots
             PROVE  /\ \A e \in Elems(buffer'[k]) : OwnedBy(k, e)' /\ e.seq # Torn
                    /\ \A e \in Elems(file'[k]) : OwnedBy(k, e)'
  BY DEF Owned, Slots
<1>1. ASSUME NEW e \in Elems(buffer[k]) PROVE OwnedBy(k, e)' /\ e.seq # Torn
  BY <1>1, ElemTypes, OwnedByKept DEF Owned
<1>2. ASSUME NEW e \in Elems(file[k]) PROVE OwnedBy(k, e)'
  BY <1>2, ElemTypes, OwnedByKept DEF Owned
<1>3. ASSUME NEW t \in Threads, Store(t), tls[t] = k, Len(le[t]) = 1,
             NEW e \in Entry, e = le[t][1]
      PROVE  OwnedBy(k, e)' /\ e.seq # Torn
  <2>1. k # 0 /\ tls'[t] = k
    BY <1>3, WorkFrame
  <2>2. /\ e.thread = t /\ e.seq = count[t] - 1 /\ count[t] - 1 \in Nat
        /\ e.thread_id = k \/ (e.thread_id = 0 /\ e.seq = 0)
    BY <1>3, <2>1, LatestOf
  <2>3. count'[t] - Len(le'[t]) = count[t] /\ count[t] \in Nat
    BY <1>3, OwnerKept DEF Inv, TypeOK
  <2>4. e.seq < count[t] /\ e.seq # Torn
    BY <2>2, <2>3 DEF Torn
  <2> QED BY <2>1, <2>2, <2>3, <2>4 DEF OwnedBy
<1>4. ASSUME NEW t \in Threads, at[t] = "store", tls[t] = k, Len(le[t]) = 1
      PROVE  OwnedBy(k, TornOf(t))
  <2>1. k # 0
    BY <1>4 DEF Inv, Inside
  <2>2. /\ TornOf(t).thread = t /\ TornOf(t).seq = Torn
        /\ TornOf(t).thread_id = le[t][1].thread_id
        /\ count[t] - 1 \in Nat
        /\ le[t][1].thread_id = tls[t] \/ le[t][1].thread_id = 0
    BY <1>4, <2>1, LatestOf
  <2>3. Torn < count[t] - Len(le[t])
    BY <1>4, <2>2 DEF Torn
  <2> QED BY <1>4, <2>1, <2>2, <2>3 DEF OwnedBy
<1>5. ASSUME NEW e \in Elems(buffer'[k]) PROVE OwnedBy(k, e)' /\ e.seq # Torn
  <2>1. CASE e \in Elems(buffer[k])
    BY <1>1, <2>1
  <2>2. CASE e \notin Elems(buffer[k])
    <3>1. PICK t \in Threads : /\ Store(t) /\ tls[t] = k /\ Len(le[t]) = 1
                              /\ e = le[t][1] /\ e \in Entry
      <4>1. \E t \in Threads :
              /\ Store(t) /\ tls[t] = k /\ le[t][1] \in Entry /\ Len(le[t]) = 1
              /\ Elems(buffer'[k]) = Elems(buffer[k]) \cup {le[t][1]}
        BY <1>5, <2>2, BufferGets
      <4> QED BY <1>5, <2>2, <4>1
    <3> QED BY <3>1, <1>3
  <2> QED BY <2>1, <2>2
<1>6. ASSUME NEW e \in Elems(file'[k]) PROVE OwnedBy(k, e)'
  <2>1. CASE e \in Elems(buffer[k]) \cup Elems(file[k])
    BY <1>1, <1>2, <2>1
  <2>2. CASE e \notin Elems(buffer[k]) \cup Elems(file[k])
    <3>1. PICK t \in Threads : at[t] = "store" /\ tls[t] = k /\ Len(le[t]) = 1 /\ e = TornOf(t)
      BY <1>6, <2>2, FileGets
    <3>2. OwnedBy(k, e)
      BY <3>1, <1>4
    <3>3. le[t] \in Seq(Entry)
      BY DEF Inv, TypeOK
    <3>4. le[t][1] \in Entry
      BY <3>1, <3>3
    <3>5. e \in Entry
      BY <3>1, <3>4 DEF TornOf, Entry
    <3> QED BY <3>2, <3>5, OwnedByKept
  <2> QED BY <2>1, <2>2
<1> QED BY <1>5, <1>6

(* What it means to be one of the threads stamped 0.                       *)
LEMMA ZerosAre ==
  ASSUME NEW z
  PROVE  z \in Zeros <=>
           \E f : /\ f.thread = z /\ f.thread_id = 0
                  /\ \/ \E t \in Threads : f \in Elems(le[t])
                     \/ \E k \in Slots : f \in Elems(buffer[k]) \cup Elems(file[k])
BY DEF Zeros, Logged

(* What a step leaves in le: what was there, nothing, or a new entry.      *)
LEMMA EntryGets ==
  ASSUME Inv, [Next]_vars, NEW t \in Threads, NEW f \in Elems(le'[t])
  PROVE  \/ f \in Elems(le[t])
         \/ Fill(t) /\ f.thread = t /\ f.thread_id = tls'[t]
<1>1. TypeOK /\ Elems(<<>>) = {}
  BY DEF Inv, Elems
<1>2. ASSUME NEW u \in Threads, ThreadStep(u), u # t PROVE le'[t] = le[t]
  BY <1>2, DrawFrame, WorkFrame DEF ThreadStep
<1>3. CASE Fill(t)
  <2>1. PICK id : /\ Gettid(t, id)
                  /\ le' = [le EXCEPT ![t] =
                              <<[thread |-> t, seq |-> count[t], thread_id |-> id]>>]
    BY <1>3 DEF Fill
  <2>2. tls'[t] = id
    BY <2>1, FirstDraw
  <2> DEFINE e == [thread |-> t, seq |-> count[t], thread_id |-> id]
  <2>3. e.thread = t /\ e.thread_id = id /\ le' = [le EXCEPT ![t] = <<e>>]
    BY <2>1
  <2> HIDE DEF e
  <2>4. le'[t] = <<e>>
    BY <1>1, <2>3 DEF TypeOK
  <2>5. f = e
    BY <2>4 DEF Elems
  <2> QED BY <1>3, <2>2, <2>3, <2>5
<1>4. CASE Discard(t) \/ Store(t)
  <2>1. le'[t] = <<>>
    BY <1>1, <1>4 DEF Discard, Store, TypeOK
  <2> QED BY <1>1, <2>1
<1>5. CASE Enter(t) \/ Flush(t) \/ Open(t) \/ Write(t) \/ Empty(t)
  BY <1>5 DEF Enter, Flush, Open, Write, Empty
<1>6. CASE ExitStep \/ LogExit \/ UNCHANGED vars
  BY <1>6, ExitSteps, LogExitStep DEF vars
<1>7. \/ \E u \in Threads : ThreadStep(u) /\ u # t
      \/ ThreadStep(t)
      \/ ExitStep \/ LogExit \/ UNCHANGED vars
  BY DEF Next, Terminated
<1> QED BY <1>2, <1>3, <1>4, <1>5, <1>6, <1>7 DEF ThreadStep

(* Only the first draw stamps 0: no entry was logged before it.            *)
LEMMA ZerosStep ==
  ASSUME Inv, Latest, Owned, [Next]_vars, NEW z \in Zeros'
  PROVE  \/ z \in Zeros
         \/ /\ Zeros = {} /\ z \in Threads /\ Fill(z)
            /\ ~MallocMayFail => 0 \notin Excluded
<1>1. PICK f : /\ f.thread = z /\ f.thread_id = 0
               /\ \/ \E t \in Threads : f \in Elems(le'[t])
                  \/ \E k \in Slots : f \in Elems(buffer'[k]) \cup Elems(file'[k])
  <2>1. z \in Zeros' =>
          \E f : /\ f.thread = z /\ f.thread_id = 0
                 /\ \/ \E t \in Threads : f \in Elems(le'[t])
                    \/ \E k \in Slots : f \in Elems(buffer'[k]) \cup Elems(file'[k])
    BY DEF Zeros, Logged, Elems, Slots
  <2> QED BY <2>1
<1>2. ASSUME NEW t \in Threads, Len(le[t]) = 1, NEW e, e.thread = le[t][1].thread,
             e.thread_id = le[t][1].thread_id, e.thread = z, e.thread_id = 0
      PROVE  z \in Zeros
  <2>1. le[t][1] \in Elems(le[t])
    <3>1. 1 \in DOMAIN le[t]
      BY <1>2 DEF Inv, TypeOK
    <3> QED BY <3>1 DEF Elems
  <2> QED BY <1>2, <2>1, ZerosAre
<1>3. ASSUME NEW k \in Slots, f \in Elems(buffer'[k]) \cup Elems(file'[k])
      PROVE  z \in Zeros
  <2>1. CASE f \in Elems(buffer[k]) \cup Elems(file[k])
    BY <1>1, <2>1, ZerosAre
  <2>2. CASE f \in Elems(buffer'[k]) \ Elems(buffer[k])
    <3>1. \E t \in Threads :
            /\ Len(le[t]) = 1
            /\ Elems(buffer'[k]) = Elems(buffer[k]) \cup {le[t][1]}
      BY <2>2, BufferGets
    <3>2. PICK t \in Threads : Len(le[t]) = 1 /\ f = le[t][1]
      BY <2>2, <3>1
    <3> QED BY <1>1, <1>2, <3>2
  <2>3. CASE f \in Elems(file'[k]) \ (Elems(buffer[k]) \cup Elems(file[k]))
    <3>1. PICK t \in Threads : at[t] = "store" /\ Len(le[t]) = 1 /\ f = TornOf(t)
      BY <2>3, FileGets
    <3>2. tls[t] # 0
      BY <3>1 DEF Inv, Inside
    <3>3. f.thread = t /\ le[t][1].thread = t /\ f.thread_id = le[t][1].thread_id
      BY <3>1, <3>2, LatestOf
    <3> QED BY <1>1, <1>2, <3>1, <3>3
  <2> QED BY <1>3, <2>1, <2>2, <2>3
<1>4. ASSUME NEW t \in Threads, f \in Elems(le'[t]), f \notin Elems(le[t])
      PROVE  /\ Zeros = {} /\ z \in Threads /\ Fill(z)
             /\ ~MallocMayFail => 0 \notin Excluded
  <2>1. Fill(t) /\ f.thread = t /\ f.thread_id = tls'[t]
    BY <1>4, EntryGets
  <2>2. PICK id : Gettid(t, id)
    BY <2>1 DEF Fill
  <2>3. id = 0 /\ next_id = 0 /\ (~MallocMayFail => 0 \notin Excluded)
    BY <1>1, <2>1, <2>2, FirstDraw
  <2>4. ASSUME NEW u \in Threads PROVE Elems(le[u]) = {}
    <3>1. le[u] = <<>>
      BY <2>3 DEF Inv, Inside, Latest
    <3> QED BY <3>1 DEF Elems
  <2>5. ASSUME NEW k \in Slots, NEW e \in Elems(buffer[k]) \cup Elems(file[k]) PROVE FALSE
    <3>1. k # 0 /\ tls[e.thread] = k
      BY <2>5 DEF Owned, OwnedBy
    <3>2. e.thread \in Threads
      BY <2>5, ElemTypes DEF Entry
    <3> QED BY <2>3, <3>1, <3>2 DEF Inv, Known
  <2>6. Zeros = {}
    BY <2>4, <2>5, ZerosAre
  <2> QED BY <1>1, <2>1, <2>3, <2>6
<1>5. ASSUME NEW t \in Threads, f \in Elems(le[t]) PROVE z \in Zeros
  BY <1>1, <1>5, ZerosAre
<1> QED BY <1>1, <1>3, <1>4, <1>5

(* So there is one such thread at most.                                    *)
LEMMA OneZeroStep == Inv /\ Latest /\ Owned /\ OneZero /\ [Next]_vars => OneZero'
<1> SUFFICES ASSUME Inv, Latest, Owned, OneZero, [Next]_vars,
                    NEW t \in Zeros', NEW u \in Zeros', t # u
             PROVE  FALSE
  BY DEF OneZero
<1>1. CASE t \in Zeros
  <2>1. u \in Zeros
    BY <1>1, ZerosStep
  <2> QED BY <1>1, <2>1 DEF OneZero
<1>2. CASE t \notin Zeros
  <2>1. t \in Threads /\ Fill(t) /\ Zeros = {}
    BY <1>2, ZerosStep
  <2>2. u \in Threads /\ Fill(u)
    BY <2>1, ZerosStep
  <2>3. at[t] = "outside" /\ at'[t] = "filled"
    BY <2>1, GoTypes DEF Inv, Fill
  <2>4. at'[t] = at[t]
    BY <2>1, <2>2, DrawFrame
  <2> QED BY <2>3, <2>4
<1> QED BY <1>1, <1>2

(* With memory for the exclusion list, no excluded id gets a slot.         *)
LEMMA NoneExcludedStep ==
  ASSUME ~MallocMayFail, Inv, Latest, Owned, NoneExcluded, [Next]_vars
  PROVE  NoneExcluded'
<1>1. 0 \in Excluded => Zeros' = {}
  BY ZerosStep DEF NoneExcluded
<1>2. ASSUME NEW t \in Threads, tls'[t] \in Slots \ {0} PROVE tls'[t] \notin Excluded
  <2>1. CASE tls'[t] = tls[t]
    BY <1>2, <2>1 DEF NoneExcluded
  <2>2. CASE tls'[t] # tls[t]
    <3>1. tls[t] = 0
      BY <2>2, OwnerKept
    <3>2. Fill(t) \/ Discard(t) \/ Enter(t)
      <4>1. ASSUME NEW u \in Threads, Fill(u) \/ Discard(u) \/ Enter(u), u # t
            PROVE  FALSE
        BY <2>2, <4>1, DrawFrame
      <4>2. ASSUME NEW u \in Threads,
                   Flush(u) \/ Open(u) \/ Write(u) \/ Empty(u) \/ Store(u)
            PROVE  FALSE
        BY <2>2, <4>2, WorkFrame
      <4>3. ASSUME ExitStep \/ LogExit \/ UNCHANGED vars PROVE FALSE
        BY <2>2, <4>3, ExitSteps, LogExitStep DEF vars
      <4> QED BY <4>1, <4>2, <4>3 DEF Next, ThreadStep, Terminated
    <3>3. PICK id : Gettid(t, id)
      BY <3>2 DEF Fill, Discard, Enter
    <3> QED BY <1>2, <3>1, <3>3, FirstDraw
  <2> QED BY <2>1, <2>2
<1>3. Slots' = Slots
  BY DEF Slots
<1> QED BY <1>1, <1>2, <1>3 DEF NoneExcluded

(* The trace of a slot is in its file and its buffer.                      *)
LEMMA TraceElems ==
  ASSUME Inv, NEW k \in Slots, NEW e \in Complete(Trace(k))
  PROVE  e \in Elems(buffer[k]) \cup Elems(file[k]) /\ e.seq # Torn /\ e \in Entry
<1>1. /\ buffer[k] \in Seq(Entry) /\ file[k] \in Seq(Entry) /\ <<>> \in Seq(Entry)
      /\ Elems(buffer[k]) \subseteq Entry /\ Elems(file[k]) \subseteq Entry
      /\ Elems(<<>>) = {}
  BY ElemTypes, ElemsOf
<1>2. e \in Elems(Trace(k)) /\ e.seq # Torn
  BY DEF Complete, Elems
<1>3. Elems(Trace(k)) \subseteq Elems(file[k]) \cup Elems(buffer[k])
  <2>1. /\ Elems(file[k] \o buffer[k]) = Elems(file[k]) \cup Elems(buffer[k])
        /\ Elems(file[k] \o <<>>) = Elems(file[k]) \cup Elems(<<>>)
    BY <1>1, ElemsOf
  <2>2. Trace(k) \in {file[k], file[k] \o buffer[k], file[k] \o <<>>}
    BY DEF Trace
  <2> QED BY <1>1, <2>1, <2>2
<1> QED BY <1>1, <1>2, <1>3

(* The invariant of what is in the trace.                                  *)
StampInv == Inv /\ Latest /\ Owned /\ OneZero

(* It holds at first, when there are no entries,                           *)
LEMMA StampInit == Init => StampInv /\ NoneExcluded
<1> SUFFICES ASSUME Init PROVE StampInv /\ NoneExcluded
  OBVIOUS
<1>1. Inv
  BY InvInit
<1>2. /\ \A k \in Slots : Elems(buffer[k]) = {} /\ Elems(file[k]) = {}
      /\ \A t \in Threads : Elems(le[t]) = {} /\ Len(le[t]) = 0
  BY DEF Init, Elems
<1>3. Latest
  BY <1>2 DEF Latest, Init
<1>4. Owned
  BY <1>2 DEF Owned
<1>5. \A z : z \notin Zeros
  BY <1>2, ZerosAre
<1>6. OneZero /\ NoneExcluded
  BY <1>5 DEF OneZero, NoneExcluded, Init
<1> QED BY <1>1, <1>3, <1>4, <1>6 DEF StampInv

(* and every step keeps it.                                                *)
LEMMA StampStep == StampInv /\ [Next]_vars => StampInv'
BY InvStep, LatestStep, OwnedStep, OneZeroStep DEF StampInv

(* It says whose an entry of the trace is.                                 *)
LEMMA TraceOwned ==
  ASSUME StampInv, NEW k \in Slots, NEW e \in Complete(Trace(k))
  PROVE  /\ e \in Entry /\ k # 0 /\ tls[e.thread] = k
         /\ e.thread_id = k \/ (e.thread_id = 0 /\ e.seq = 0 /\ e.thread \in Zeros)
<1>1. Inv /\ Owned
  BY DEF StampInv
<1>2. e \in Elems(buffer[k]) \cup Elems(file[k]) /\ e.seq # Torn /\ e \in Entry
  BY <1>1, TraceElems
<1>3. OwnedBy(k, e)
  BY <1>1, <1>2 DEF Owned
<1>4. e.thread_id = 0 => e.thread \in Zeros
  BY <1>2, ZerosAre
<1> QED BY <1>2, <1>3, <1>4 DEF OwnedBy

(* Whatever fails and whoever races: a complete entry of the trace carries *)
(* the number of its file, but for the first entry of the one thread that  *)
(* drew id 0.                                                              *)
THEOREM StampsAreRight == Spec => []StampsAgree
<1>1. ASSUME StampInv PROVE StampsAgree
  <2> SUFFICES ASSUME NEW k \in Slots, NEW e \in Complete(Trace(k)), e.thread_id # k
               PROVE  /\ e.thread_id = 0 /\ e.seq = 0
                      /\ \A l \in Slots : \A f \in Complete(Trace(l)) :
                           f.thread_id = 0 => l = k /\ f = e
    BY DEF StampsAgree
  <2>1. /\ e \in Entry /\ tls[e.thread] = k
        /\ e.thread_id = 0 /\ e.seq = 0 /\ e.thread \in Zeros
    BY <1>1, TraceOwned
  <2>2. ASSUME NEW l \in Slots, NEW f \in Complete(Trace(l)), f.thread_id = 0
        PROVE  l = k /\ f = e
    <3>1. /\ f \in Entry /\ l # 0 /\ tls[f.thread] = l
          /\ f.thread_id = l \/ (f.thread_id = 0 /\ f.seq = 0 /\ f.thread \in Zeros)
      BY <1>1, TraceOwned
    <3>2. f.seq = 0 /\ f.thread \in Zeros
      BY <2>2, <3>1
    <3>3. f.thread = e.thread
      BY <1>1, <2>1, <3>2 DEF StampInv, OneZero
    <3> QED BY <2>1, <2>2, <3>1, <3>2, <3>3 DEF Entry
  <2> QED BY <2>1, <2>2
<1> QED BY <1>1, StampInit, StampStep, PTL DEF Spec

(* While there is memory for the exclusion list, an excluded thread id has *)
(* no file and stamps no entry, for any list and any number of threads.    *)
THEOREM ExcludedIdsAreDiscarded ==
  ASSUME ~MallocMayFail
  PROVE  Spec => []ExcludedDiscarded
<1>1. ASSUME StampInv, NoneExcluded PROVE ExcludedDiscarded
  <2> SUFFICES ASSUME NEW k \in Slots, NEW e \in Complete(Trace(k))
               PROVE  k \notin Excluded /\ e.thread_id \notin Excluded
    BY DEF ExcludedDiscarded
  <2>1. /\ e \in Entry /\ k # 0 /\ tls[e.thread] = k
        /\ e.thread_id = k \/ (e.thread_id = 0 /\ e.thread \in Zeros)
    BY <1>1, TraceOwned
  <2>2. e.thread \in Threads
    BY <2>1 DEF Entry
  <2> QED BY <1>1, <2>1, <2>2 DEF NoneExcluded
<1>2. StampInv /\ NoneExcluded /\ [Next]_vars => NoneExcluded'
  BY NoneExcludedStep DEF StampInv
<1> QED BY <1>1, <1>2, StampInit, StampStep, PTL DEF Spec

-----------------------------------------------------------------------------
(* Who can crash the program.                                              *)

(* The slot of an id that was nobody's is as it was at first.              *)
LEMMA NewSlotEmpty ==
  ASSUME Inv, Owned, NEW k \in Slots, \A t \in Threads : tls[t] # k
  PROVE  buffer[k] = <<>> /\ file[k] = <<>>
<1>1. /\ buffer[k] \in Seq(Entry) /\ file[k] \in Seq(Entry)
      /\ Elems(buffer[k]) \subseteq Entry /\ Elems(file[k]) \subseteq Entry
  BY ElemTypes
<1>2. ASSUME NEW e \in Elems(buffer[k]) \cup Elems(file[k]) PROVE FALSE
  <2>1. tls[e.thread] = k /\ e.thread \in Threads
    BY <1>1, <1>2 DEF Owned, OwnedBy, Entry
  <2> QED BY <2>1
<1>3. Elems(buffer[k]) = {} /\ Elems(file[k]) = {}
  BY <1>2
<1> QED BY <1>1, <1>3, ElemsOf

(* The numbers of a thread, before and after a step.                       *)
LEMMA NumberTypes ==
  ASSUME Inv, NEW t \in Threads
  PROVE  /\ count[t] \in Nat /\ Len(le[t]) \in Nat
         /\ BufferSize \in Nat \ {0}
         /\ tls[t] \in Slots =>
              /\ buffer[tls[t]] \in Seq(Entry) /\ file[tls[t]] \in Seq(Entry)
              /\ Len(buffer[tls[t]]) \in Nat /\ Len(buffer[tls[t]]) <= BufferSize
<1>1. le[t] \in Seq(Entry)
  BY DEF Inv, TypeOK
<1>2. ASSUME tls[t] \in Slots
      PROVE  buffer[tls[t]] \in Seq(Entry) /\ file[tls[t]] \in Seq(Entry)
  BY <1>2, ElemTypes
<1> QED BY <1>1, <1>2, BinaryTraceAssumption DEF Inv, TypeOK

(* Which steps move a thread into a flush, or within one.                  *)
LEMMA FlushFrom ==
  ASSUME Inv, [Next]_vars, NEW t \in Threads, at'[t] \in Flushing
  PROVE  \/ at[t] \in Flushing /\ ~Empty(t) /\ ~Store(t)
         \/ /\ Enter(t) /\ at'[t] = "flush"
            /\ tls'[t] \in Slots /\ Full(tls'[t])
<1>1. TypeOK
  BY DEF Inv
<1>2. ASSUME NEW u \in Threads, ThreadStep(u), u # t PROVE at'[t] = at[t]
  BY <1>2, DrawFrame, WorkFrame DEF ThreadStep
<1>3. Empty(t) => at'[t] = "store" /\ at[t] = "reset"
  BY <1>1, GoTypes DEF Empty
<1>4. Store(t) => at'[t] = "outside" /\ at[t] = "store"
  BY <1>1, GoTypes DEF Store, Flushing
<1>5. CASE Fill(t) \/ Discard(t)
  BY <1>1, <1>5, GoTypes DEF Fill, Discard, Flushing
<1>6. CASE Enter(t)
  <2>1. PICK id \in Tids(t) \cap Slots :
          Gettid(t, id) /\ Go(t, "filled", IF Full(id) THEN "flush" ELSE "store")
    BY <1>6 DEF Enter
  <2>2. at'[t] = IF Full(id) THEN "flush" ELSE "store"
    <3> DEFINE to == IF Full(id) THEN "flush" ELSE "store"
    <3>1. to \in {"outside", "filled", "store"} \cup Flushing
      BY DEF Flushing
    <3> QED BY <1>1, <2>1, <3>1, GoTypes
  <2>3. tls'[t] = id
    BY <2>1, FirstDraw
  <2> QED BY <1>6, <2>1, <2>2, <2>3 DEF Flushing
<1>7. CASE Flush(t) \/ Open(t) \/ Write(t)
  <2>1. at[t] \in Flushing
    BY <1>7 DEF Flush, Open, Write, Go, Flushing
  <2>2. ~Empty(t) /\ ~Store(t)
    BY <1>3, <1>4, Zenon DEF Flushing
  <2> QED BY <2>1, <2>2
<1>8. CASE ExitStep \/ LogExit \/ UNCHANGED vars
  <2>1. at' = at
    BY <1>8, ExitSteps, LogExitStep DEF vars
  <2> QED BY <1>3, <1>4, <2>1 DEF Flushing
<1>9. ASSUME NEW u \in Threads, ThreadStep(u), u # t
      PROVE  at[t] \in Flushing /\ ~Empty(t) /\ ~Store(t)
  <2>1. at[t] \in Flushing
    BY <1>2, <1>9
  <2> QED BY <1>3, <1>4, <2>1 DEF Flushing
<1>10. \/ \E u \in Threads : ThreadStep(u) /\ u # t
       \/ ThreadStep(t)
       \/ ExitStep \/ LogExit \/ UNCHANGED vars
  BY DEF Next, Terminated
<1>11. CASE Empty(t) \/ Store(t)
  BY <1>3, <1>4, <1>11 DEF Flushing
<1> QED BY <1>5, <1>6, <1>7, <1>8, <1>9, <1>10, <1>11 DEF ThreadStep

(* A thread that is given a slot: either it had it, or the slot is new.    *)
LEMMA SlotOf ==
  ASSUME Inv, Latest, Owned, [Next]_vars, NEW t \in Threads, tls'[t] \in Slots \ {0}
  PROVE  \/ tls[t] = tls'[t]
         \/ /\ tls[t] = 0 /\ (Fill(t) \/ Discard(t) \/ Enter(t))
            /\ \A u \in Threads : tls[u] # tls'[t]
            /\ buffer[tls'[t]] = <<>> /\ file[tls'[t]] = <<>>
            /\ UNCHANGED <<buffer, file>>
<1> SUFFICES ASSUME tls[t] # tls'[t]
             PROVE  /\ tls[t] = 0 /\ (Fill(t) \/ Discard(t) \/ Enter(t))
                    /\ \A u \in Threads : tls[u] # tls'[t]
                    /\ buffer[tls'[t]] = <<>> /\ file[tls'[t]] = <<>>
                    /\ UNCHANGED <<buffer, file>>
  OBVIOUS
<1>1. tls[t] = 0
  BY OwnerKept
<1>2. Fill(t) \/ Discard(t) \/ Enter(t)
  <2>1. ASSUME NEW u \in Threads, Fill(u) \/ Discard(u) \/ Enter(u), u # t
        PROVE  FALSE
    BY <2>1, DrawFrame
  <2>2. ASSUME NEW u \in Threads,
               Flush(u) \/ Open(u) \/ Write(u) \/ Empty(u) \/ Store(u)
        PROVE  FALSE
    BY <2>2, WorkFrame
  <2>3. ASSUME ExitStep \/ LogExit \/ UNCHANGED vars PROVE FALSE
    BY <2>3, ExitSteps, LogExitStep DEF vars
  <2> QED BY <2>1, <2>2, <2>3 DEF Next, ThreadStep, Terminated
<1>3. \A u \in Threads : tls[u] # tls'[t]
  BY <1>1, <1>2, DrawFrame
<1>4. buffer[tls'[t]] = <<>> /\ file[tls'[t]] = <<>>
  BY <1>3, NewSlotEmpty
<1>5. UNCHANGED <<buffer, file>>
  BY <1>2, DrawFrame
<1> QED BY <1>1, <1>2, <1>3, <1>4, <1>5

(* The number of log calls only grows.                                     *)
LEMMA CountGrows ==
  ASSUME Inv, [Next]_vars, NEW t \in Threads
  PROVE  count'[t] \in Nat /\ count'[t] >= count[t]
<1>1. TypeOK /\ count[t] \in Nat
  BY DEF Inv, TypeOK
<1>2. count' = count \/ \E u \in Threads : count' = [count EXCEPT ![u] = @ + 1]
  <2>1. ASSUME ExitStep \/ LogExit \/ UNCHANGED vars PROVE count' = count
    BY <2>1, ExitSteps, LogExitStep DEF vars
  <2>2. ASSUME NEW u \in Threads, ThreadStep(u)
        PROVE  count' = count \/ count' = [count EXCEPT ![u] = @ + 1]
    BY <2>2 DEF ThreadStep, Fill, Discard, Enter, Flush, Open, Write, Empty, Store
  <2> QED BY <2>1, <2>2 DEF Next, Terminated
<1>3. count \in [Threads -> Nat]
  BY <1>1 DEF TypeOK
<1>4. CASE count' = count
  BY <1>1, <1>4
<1>5. ASSUME NEW u \in Threads, count' = [count EXCEPT ![u] = @ + 1]
      PROVE  count'[t] = count[t] \/ count'[t] = count[t] + 1
  BY <1>3, <1>5
<1>6. count'[t] = count[t] \/ count'[t] = count[t] + 1
  BY <1>2, <1>4, <1>5
<1> QED BY <1>1, <1>6

(* A buffer that held what its thread had logged still does, when the      *)
(* thread has logged more, and when it has stored an entry.                *)
LEMMA RoomStays ==
  ASSUME NEW a \in Nat, NEW b \in Nat, NEW c \in Nat, NEW d \in Nat, NEW e \in Nat,
         a + b <= c
  PROVE  /\ d - e >= c - b => a + e <= d
         /\ b = 1 /\ d - e = c => a + 1 + e <= d
OBVIOUS

(* The count of what is buffered is inductive.                             *)
LEMMA CountedStep == Inv /\ Latest /\ Owned /\ Counted /\ [Next]_vars => Counted'
<1> SUFFICES ASSUME Inv, Latest, Owned, Counted, [Next]_vars, NEW t \in Threads
             PROVE  /\ tls'[t] \in Slots \ {0} =>
                         Len(buffer'[tls'[t]]) + Len(le'[t]) <= count'[t]
                    /\ at'[t] \in Flushing =>
                         count'[t] > BufferSize /\ Len(buffer'[tls'[t]]) = BufferSize
  BY DEF Counted, Slots, Flushing
<1>0. Inv'
  BY InvStep
<1>1. /\ count[t] \in Nat /\ Len(le[t]) \in Nat
      /\ BufferSize \in Nat \ {0}
      /\ count'[t] \in Nat /\ count'[t] >= count[t]
  BY NumberTypes, CountGrows
<1>2. le'[t] \in Seq(Entry) /\ Len(le'[t]) \in Nat
  <2>1. le'[t] \in Seq(Entry)
    BY <1>0 DEF Inv, TypeOK
  <2> QED BY <2>1
<1>3. count'[t] - Len(le'[t]) >= count[t] - Len(le[t])
  BY OwnerKept
<1>4. count'[t] >= Len(le'[t])
  BY LatestStep DEF Latest
<1>5. ASSUME tls'[t] \in Slots \ {0}
      PROVE  Len(buffer'[tls'[t]]) + Len(le'[t]) <= count'[t]
  <2>1. CASE tls[t] = tls'[t]
    <3>1. /\ buffer[tls[t]] \in Seq(Entry) /\ Len(buffer[tls[t]]) \in Nat
          /\ Len(buffer[tls[t]]) + Len(le[t]) <= count[t]
      BY <1>5, <2>1, NumberTypes DEF Counted
    <3>2. CASE buffer'[tls[t]] = buffer[tls[t]]
      <4>1. Len(buffer'[tls[t]]) = Len(buffer[tls[t]])
        BY <3>2
      <4>2. Len(le'[t]) \in Nat /\ Len(buffer[tls[t]]) \in Nat
        BY <1>2, <3>1
      <4>3. Len(buffer[tls[t]]) + Len(le[t]) <= count[t]
        BY <3>1
      <4>4. Len(buffer[tls[t]]) + Len(le'[t]) <= count'[t]
        BY <1>1, <1>3, <4>2, <4>3, RoomStays
      <4> QED BY <2>1, <4>1, <4>4
    <3>3. CASE buffer'[tls[t]] = <<>>
      <4>1. Len(buffer'[tls[t]]) = 0
        BY <3>3
      <4>2. Len(le'[t]) \in Nat
        BY <1>2
      <4> QED BY <1>1, <1>4, <2>1, <4>1, <4>2
    <3>4. ASSUME NEW u \in Threads, Store(u), tls[u] = tls[t], le[u][1] \in Entry,
                 buffer'[tls[t]] = Append(buffer[tls[t]], le[u][1])
          PROVE  Len(buffer'[tls'[t]]) + Len(le'[t]) <= count'[t]
      <4>1. u = t /\ Len(le[t]) = 1
        BY <1>5, <2>1, <3>4, WorkFrame
      <4>2. Len(buffer'[tls[t]]) = Len(buffer[tls[t]]) + 1
        BY <3>1, <3>4, EntrySeqs
      <4>3. count'[t] - Len(le'[t]) = count[t]
        BY <3>4, <4>1, OwnerKept
      <4>4. Len(buffer[tls[t]]) + Len(le[t]) <= count[t] /\ Len(buffer[tls[t]]) \in Nat
        BY <3>1
      <4>5. Len(le'[t]) \in Nat
        BY <1>2
      <4>6. Len(buffer[tls[t]]) + 1 + Len(le'[t]) <= count'[t]
        BY <1>1, <4>1, <4>3, <4>4, <4>5, RoomStays
      <4> QED BY <2>1, <4>2, <4>6
    <3>5. \/ buffer'[tls[t]] = buffer[tls[t]] \/ buffer'[tls[t]] = <<>>
          \/ \E u \in Threads :
               /\ Store(u) /\ tls[u] = tls[t] /\ le[u][1] \in Entry
               /\ buffer'[tls[t]] = Append(buffer[tls[t]], le[u][1])
      BY <1>5, <2>1, BufferSteps
    <3> QED BY <3>2, <3>3, <3>4, <3>5
  <2>2. CASE tls[t] # tls'[t]
    <3>1. buffer'[tls'[t]] = <<>>
      BY <1>5, <2>2, SlotOf
    <3>2. Len(buffer'[tls'[t]]) = 0
      BY <3>1
    <3> QED BY <1>1, <1>2, <1>4, <3>2
  <2> QED BY <2>1, <2>2
<1>6. ASSUME at'[t] \in Flushing
      PROVE  count'[t] > BufferSize /\ Len(buffer'[tls'[t]]) = BufferSize
  <2>1. CASE at[t] \in Flushing /\ ~Empty(t) /\ ~Store(t)
    <3>1. tls[t] \in Slots \ {0} /\ count[t] > BufferSize /\ Len(buffer[tls[t]]) = BufferSize
      BY <2>1 DEF Inv, Inside, Counted
    <3>2. tls'[t] = tls[t]
      BY <3>1, OwnerKept
    <3>3. ASSUME NEW u \in Threads, Empty(u) \/ Store(u), tls[u] = tls[t] PROVE FALSE
      BY <2>1, <3>1, <3>3, WorkFrame
    <3>4. buffer'[tls[t]] = buffer[tls[t]]
      BY <3>1, <3>3, BufferSteps
    <3> QED BY <1>1, <3>1, <3>2, <3>4
  <2>2. CASE Enter(t) /\ at'[t] = "flush" /\ tls'[t] \in Slots /\ Full(tls'[t])
    <3>1. tls'[t] \in Slots \ {0}
      BY <1>0, <1>6 DEF Inv, Inside
    <3>2. buffer' = buffer /\ count' = count /\ le' = le
      BY <2>2 DEF Enter
    <3>3. Len(le[t]) = 1
      BY <1>0, <2>2, <3>2 DEF Inv, Inside
    <3>4. Len(buffer[tls'[t]]) >= BufferSize
      BY <2>2 DEF Full
    <3>5. Len(buffer[tls'[t]]) \in Nat /\ Len(buffer[tls'[t]]) <= BufferSize
      <4>1. buffer[tls'[t]] \in Seq(Entry)
        BY <3>1, ElemTypes
      <4> QED BY <3>1, <4>1 DEF Inv, TypeOK
    <3>6. Len(buffer[tls'[t]]) + Len(le[t]) <= count[t]
      BY <1>5, <3>1, <3>2
    <3> QED BY <1>1, <3>2, <3>3, <3>4, <3>5, <3>6
  <2> QED BY <1>6, <2>1, <2>2, FlushFrom
<1> QED BY <1>5, <1>6

(* The places of a thread from which it uses a FILE.                       *)
Using == {"open", "write", "reset"}

(* A thread that may draw an id brings no slot into a flush, and a thread  *)
(* at work none but its own; logExit moves no thread.                      *)
LEMMA ThreadInKept ==
  ASSUME Inv, [Next]_vars, NEW k \in Slots, NEW S \in SUBSET Using,
         \A t \in Threads : tls[t] = k =>
           ~(Flush(t) \/ Open(t) \/ Write(t) \/ Empty(t) \/ Store(t))
  PROVE  ThreadIn(k, S)' <=> ThreadIn(k, S)
<1> SUFFICES ASSUME NEW t \in Threads
             PROVE  tls'[t] = k /\ at'[t] \in S <=> tls[t] = k /\ at[t] \in S
  BY DEF ThreadIn
<1>1. ASSUME NEW u \in Threads, Fill(u) \/ Discard(u) \/ Enter(u)
      PROVE  tls'[t] = k /\ at'[t] \in S <=> tls[t] = k /\ at[t] \in S
  <2>1. /\ t # u => tls'[t] = tls[t] /\ at'[t] = at[t]
        /\ at[u] \in {"outside", "filled"}
        /\ at'[u] \in {"outside", "filled", "flush", "store"}
    BY <1>1, DrawFrame
  <2> QED BY <2>1 DEF Using
<1>2. ASSUME NEW u \in Threads, Flush(u) \/ Open(u) \/ Write(u) \/ Empty(u) \/ Store(u)
      PROVE  tls'[t] = k /\ at'[t] \in S <=> tls[t] = k /\ at[t] \in S
  <2>1. /\ UNCHANGED tls /\ (t # u => at'[t] = at[t]) /\ tls[u] # k
    BY <1>2, WorkFrame
  <2> QED BY <2>1
<1>3. ASSUME ExitStep \/ LogExit \/ UNCHANGED vars
      PROVE  tls'[t] = k /\ at'[t] \in S <=> tls[t] = k /\ at[t] \in S
  BY <1>3, ExitSteps, LogExitStep DEF vars
<1> QED BY <1>1, <1>2, <1>3 DEF Next, ThreadStep, Terminated

(* The places of logExit are its own.                                      *)
LEMMA IdleLooks ==
  ASSUME TypeOK, NEW k \in Slots
  PROVE  /\ exitAt = Idle => exitAt.slot # k /\ exitAt.step = "look"
         /\ MaxThreads \in Nat /\ k \in Nat
BY BinaryTraceAssumption DEF Idle, Slots

(* A thread at work on a slot that is not raced has it to itself.          *)
LEMMA ApartWork ==
  ASSUME Inv, NEW t \in Threads, NEW k \in Slots, k = tls[t], k \notin raced',
         Apart(k), Flush(t) \/ Open(t) \/ Write(t) \/ Empty(t) \/ Store(t)
  PROVE  Apart(k)'
<1>1. /\ TypeOK /\ tls[t] = k /\ UNCHANGED <<tls, exitAt>>
      /\ \A u \in Threads : u # t => tls[u] # tls[t]
  BY WorkFrame DEF Inv
<1>2. \A S : ThreadIn(k, S)' <=> at'[t] \in S
  BY <1>1 DEF ThreadIn
<1>3. \A S : ThreadIn(k, S) <=> at[t] \in S
  BY <1>1 DEF ThreadIn
<1>4. ~Store(t) => exitAt.slot # k \/ exitAt.step = "look"
  <2>1. ~Store(t) => raced' = raced \cup Races(t)
    BY DEF Flush, Open, Write, Empty
  <2> QED BY <2>1 DEF Races
<1>5. out[k] = "closed" => Store(t)
  BY <1>4 DEF Apart, ExitIn
<1>6. ASSUME NEW S PROVE ExitIn(k, S)' <=> ExitIn(k, S)
  BY <1>1 DEF ExitIn
<1>7. CASE Store(t)
  <2>1. at'[t] = "outside" /\ UNCHANGED out
    BY <1>1, <1>7, GoTypes DEF Store
  <2> QED BY <1>1, <1>2, <2>1 DEF Apart, ExitIn
<1>8. CASE ~Store(t)
  <2>1. out'[k] # "closed"
    BY <1>1, <1>5, <1>8 DEF Flush, Open, Write, Empty, TypeOK, slots
  <2>2. at'[t] = "write" => out'[k] = "open"
    <3>1. CASE Flush(t)
      <4>1. Go(t, "flush", IF out[k] = "null" THEN "open" ELSE "write") /\ UNCHANGED out
        BY <3>1 DEF Flush, slots
      <4>2. at'[t] = IF out[k] = "null" THEN "open" ELSE "write"
        <5> DEFINE to == IF out[k] = "null" THEN "open" ELSE "write"
        <5>1. to \in {"outside", "filled", "store"} \cup Flushing
          BY DEF Flushing
        <5> QED BY <1>1, <4>1, <5>1, GoTypes
      <4> QED BY <1>1, <1>5, <1>8, <4>1, <4>2 DEF TypeOK
    <3>2. CASE Open(t)
      <4>1. \/ out' = [out EXCEPT ![k] = "open"]
            \/ Go(t, "open", "reset")
        BY <3>2 DEF Open
      <4>2. Go(t, "open", "reset") => at'[t] = "reset"
        BY <1>1, GoTypes DEF Flushing
      <4> QED BY <1>1, <4>1, <4>2 DEF TypeOK
    <3>3. CASE Write(t) \/ Empty(t)
      <4>1. Go(t, "write", "reset") \/ Go(t, "reset", "store")
        BY <3>3 DEF Write, Empty
      <4>2. at'[t] \in {"reset", "store"}
        BY <1>1, <4>1, GoTypes DEF Flushing
      <4> QED BY <4>2
    <3> QED BY <1>8, <3>1, <3>2, <3>3
  <2>3. exitAt'.slot # k \/ exitAt'.step = "look"
    BY <1>1, <1>4, <1>8
  <2>4. at'[t] = "open" => out'[k] = "null"
    <3>1. CASE Flush(t)
      <4>1. Go(t, "flush", IF out[k] = "null" THEN "open" ELSE "write") /\ UNCHANGED out
        BY <1>1, <3>1 DEF Flush, slots
      <4>2. at'[t] = IF out[k] = "null" THEN "open" ELSE "write"
        <5> DEFINE to == IF out[k] = "null" THEN "open" ELSE "write"
        <5>1. to \in {"outside", "filled", "store"} \cup Flushing
          BY DEF Flushing
        <5> QED BY <1>1, <4>1, <5>1, GoTypes
      <4> QED BY <4>1, <4>2
    <3>2. CASE Open(t) \/ Write(t) \/ Empty(t)
      <4>1. PICK from, to \in {"open", "write", "reset", "store"} :
              Go(t, from, to) /\ to # "open"
        BY <3>2 DEF Open, Write, Empty
      <4>2. at'[t] = to
        BY <1>1, <4>1, GoTypes DEF Flushing
      <4> QED BY <4>1, <4>2
    <3> QED BY <1>8, <3>1, <3>2
  <2> QED BY <1>1, <1>2, <2>1, <2>2, <2>3, <2>4 DEF Apart, ExitIn
<1> QED BY <1>7, <1>8

(* logExit at a slot that is not raced has it to itself.                   *)
LEMMA ApartExit ==
  ASSUME Inv, NEW k \in Slots, k = exitAt.slot, k \notin raced', Apart(k), ExitStep
  PROVE  Apart(k)'
<1>1. /\ TypeOK /\ UNCHANGED <<tls, at>> /\ k + 1 # k
  BY ExitFrame DEF Inv, Slots
<1>2. ASSUME NEW S PROVE ThreadIn(k, S)' <=> ThreadIn(k, S)
  BY <1>1 DEF ThreadIn
<1>3. CASE ExitLook
  <2>1. exitAt.step = "look" /\ UNCHANGED out
    BY <1>3 DEF ExitLook, Exiting, slots
  <2>2. CASE exitAt'.slot = k /\ exitAt'.step = "check"
    <3>1. raced' = raced \cup ExitRacing
      BY <1>1, <1>3, <2>2 DEF ExitLook, ExitNext
    <3>2. ~ThreadIn(k, {"open", "write", "reset"})
      BY <3>1 DEF ExitRacing, ThreadIn, Flushing
    <3> QED BY <1>2, <2>1, <2>2, <3>2 DEF Apart, ExitIn
  <2>3. CASE exitAt'.slot # k
    BY <1>2, <2>1, <2>3 DEF Apart, ExitIn
  <2>4. \/ exitAt'.slot = k /\ exitAt'.step = "check"
        \/ exitAt'.slot # k
    BY <1>1, <1>3 DEF ExitLook, ExitGo, ExitNext, TypeOK
  <2> QED BY <2>2, <2>3, <2>4
<1>4. CASE ExitCheck
  <2>1. /\ exitAt.step = "check" /\ UNCHANGED out /\ exitAt'.slot = k
        /\ exitAt'.step = IF out[k] = "null" THEN "open" ELSE "write"
    BY <1>1, <1>4 DEF ExitCheck, Exiting, ExitGo, TypeOK, slots
  <2>2. out[k] \in {"null", "open", "closed"}
    BY <1>1 DEF TypeOK
  <2> QED BY <1>2, <2>1, <2>2 DEF Apart, ExitIn
<1>5. CASE ExitOpen
  <2>1. /\ exitAt.step = "open"
        /\ \/ out'[k] = "open" /\ exitAt'.slot = k /\ exitAt'.step = "write"
           \/ out'[k] = "null" /\ exitAt'.slot = k + 1
    BY <1>1, <1>5 DEF ExitOpen, Exiting, ExitGo, ExitNext, TypeOK
  <2>2. ~ThreadIn(k, {"open", "write", "reset"})
    BY <2>1 DEF Apart
  <2>3. ~ThreadIn(k, {"write"}) /\ ~ThreadIn(k, {"open"})
    BY <2>2 DEF ThreadIn
  <2> QED BY <1>1, <1>2, <2>1, <2>2, <2>3 DEF Apart, ExitIn
<1>6. CASE ExitWrite
  <2>1. /\ exitAt.step = "write" /\ UNCHANGED out
        /\ exitAt'.slot = k /\ exitAt'.step = "close"
    BY <1>1, <1>6 DEF ExitWrite, Exiting, ExitGo, TypeOK
  <2> QED BY <1>2, <2>1 DEF Apart, ExitIn
<1>7. CASE ExitClose
  <2>1. /\ exitAt.step = "close"
        /\ exitAt'.slot = k /\ exitAt'.step = "null"
    BY <1>1, <1>7 DEF ExitClose, Exiting, ExitGo, TypeOK
  <2>2. ~ThreadIn(k, {"open", "write", "reset"})
    BY <2>1 DEF Apart
  <2>3. ~ThreadIn(k, {"write"}) /\ ~ThreadIn(k, {"open"})
    BY <2>2 DEF ThreadIn
  <2> QED BY <1>2, <2>1, <2>2, <2>3 DEF Apart, ExitIn
<1>8. CASE ExitNull
  <2>1. /\ exitAt.step = "null" /\ out'[k] = "null" /\ exitAt'.slot = k + 1
    BY <1>1, <1>8 DEF ExitNull, Exiting, ExitNext, Reset, TypeOK
  <2>2. ~ThreadIn(k, {"open", "write", "reset"})
    BY <2>1 DEF Apart
  <2>3. ~ThreadIn(k, {"write"}) /\ ~ThreadIn(k, {"open"})
    BY <2>2 DEF ThreadIn
  <2> QED BY <1>1, <1>2, <2>1, <2>3 DEF Apart, ExitIn
<1> QED BY <1>3, <1>4, <1>5, <1>6, <1>7, <1>8 DEF ExitStep

(* They keep apart, at every slot that is not raced.                       *)
LEMMA ApartStep == Inv /\ KeptApart /\ [Next]_vars => KeptApart'
<1> SUFFICES ASSUME Inv, KeptApart, [Next]_vars, NEW k \in Slots, k \notin raced'
             PROVE  Apart(k)'
  BY DEF KeptApart, Slots
<1>0. TypeOK
  BY DEF Inv
<1>1. ASSUME raced \subseteq raced' PROVE Apart(k)
  BY <1>1 DEF KeptApart
<1>2. ASSUME NEW t \in Threads, tls[t] = k,
             Flush(t) \/ Open(t) \/ Write(t) \/ Empty(t) \/ Store(t)
      PROVE  Apart(k)'
  <2>1. raced \subseteq raced'
    BY <1>2, WorkFrame
  <2> QED BY <1>1, <1>2, <2>1, ApartWork
<1>3. CASE ExitStep /\ exitAt.slot = k
  <2>1. raced \subseteq raced'
    BY <1>3, ExitFrame
  <2> QED BY <1>1, <1>3, <2>1, ApartExit
<1>4. CASE /\ ~(ExitStep /\ exitAt.slot = k)
           /\ \A t \in Threads : tls[t] = k =>
                ~(Flush(t) \/ Open(t) \/ Write(t) \/ Empty(t) \/ Store(t))
  <2>1. raced \subseteq raced' /\ out'[k] = out[k]
    <3>1. ASSUME NEW t \in Threads, Fill(t) \/ Discard(t) \/ Enter(t)
          PROVE  raced \subseteq raced' /\ out'[k] = out[k]
      BY <3>1, DrawFrame
    <3>2. ASSUME NEW t \in Threads,
                 Flush(t) \/ Open(t) \/ Write(t) \/ Empty(t) \/ Store(t)
          PROVE  raced \subseteq raced' /\ out'[k] = out[k]
      BY <1>4, <3>2, WorkFrame
    <3>3. ASSUME ExitStep PROVE raced \subseteq raced' /\ out'[k] = out[k]
      BY <1>4, <3>3, ExitFrame
    <3>4. ASSUME LogExit \/ UNCHANGED vars PROVE raced \subseteq raced' /\ out'[k] = out[k]
      BY <3>4 DEF LogExit, vars, slots
    <3> QED BY <3>1, <3>2, <3>3, <3>4 DEF Next, ThreadStep, Terminated
  <2>2. Apart(k)
    BY <1>1, <2>1
  <2>3. /\ ThreadIn(k, {"open", "write", "reset"})' => ThreadIn(k, {"open", "write", "reset"})
        /\ ThreadIn(k, {"write"})' => ThreadIn(k, {"write"})
        /\ ThreadIn(k, {"open"})' => ThreadIn(k, {"open"})
    BY <1>4, ThreadInKept DEF Using
  <2>4. \/ exitAt' = exitAt
        \/ exitAt.slot # k /\ (exitAt'.slot = k => exitAt'.step = "look")
    <3>1. ASSUME NEW t \in Threads, ThreadStep(t) PROVE exitAt' = exitAt
      BY <3>1, DrawFrame, WorkFrame DEF ThreadStep
    <3>2. ASSUME ExitStep
          PROVE  exitAt.slot # k /\ (exitAt'.slot = k => exitAt'.step = "look")
      BY <1>4, <3>2, ExitFrame
    <3>3. ASSUME LogExit
          PROVE  exitAt.slot # k /\ (exitAt'.slot = k => exitAt'.step = "look")
      BY <1>0, <3>3, IdleLooks DEF LogExit
    <3>4. ASSUME UNCHANGED vars PROVE exitAt' = exitAt
      BY <3>4 DEF vars
    <3> QED BY <3>1, <3>2, <3>3, <3>4 DEF Next, Terminated
  <2>5. CASE exitAt' = exitAt
    BY <2>1, <2>2, <2>3, <2>5 DEF Apart, ExitIn
  <2>6. CASE exitAt.slot # k /\ (exitAt'.slot = k => exitAt'.step = "look")
    BY <2>1, <2>2, <2>3, <2>6 DEF Apart, ExitIn
  <2> QED BY <2>4, <2>5, <2>6
<1> QED BY <1>2, <1>3, <1>4

(* A thread that flushes has logged more than a buffer; nothing else races.*)
LEMMA RacedByFlush ==
  ASSUME Inv, Counted, [Next]_vars, raced' # raced
  PROVE  \E t \in Threads : count[t] > BufferSize
<1>1. ASSUME NEW t \in Threads, at[t] \in Flushing
      PROVE  \E u \in Threads : count[u] > BufferSize
  BY <1>1 DEF Counted
<1>2. ASSUME NEW t \in Threads, ThreadStep(t) PROVE at[t] \in Flushing
  <2>1. ~(Fill(t) \/ Discard(t) \/ Enter(t))
    BY DrawFrame
  <2>2. ~Store(t)
    BY DEF Store
  <2> QED BY <1>2, <2>1, <2>2 DEF ThreadStep, Flush, Open, Write, Empty, Go, Flushing
<1>3. ASSUME ExitStep PROVE \E t \in Threads : at[t] \in Flushing
  <2>1. ExitLook /\ raced' = raced \cup ExitRacing
    BY <1>3 DEF ExitStep, ExitLook, ExitCheck, ExitOpen, ExitWrite, ExitClose, ExitNull
  <2> QED BY <2>1 DEF ExitRacing
<1>4. ~LogExit /\ ~UNCHANGED vars
  BY DEF LogExit, vars
<1> QED BY <1>1, <1>2, <1>3, <1>4 DEF Next, Terminated

(* What crashes the program is the FILE of a raced slot.                   *)
LEMMA CrashStep == Inv /\ Counted /\ KeptApart /\ CrashInv /\ [Next]_vars => CrashInv'
<1> SUFFICES ASSUME Inv, Counted, KeptApart, CrashInv, [Next]_vars PROVE CrashInv'
  OBVIOUS
<1>1. raced \subseteq raced'
  <2>1. ASSUME NEW t \in Threads, ThreadStep(t) PROVE raced \subseteq raced'
    BY <2>1, DrawFrame, WorkFrame DEF ThreadStep
  <2>2. ASSUME ExitStep PROVE raced \subseteq raced'
    BY <2>2, ExitFrame
  <2>3. ASSUME LogExit \/ UNCHANGED vars PROVE raced \subseteq raced'
    BY <2>3 DEF LogExit, vars
  <2> QED BY <2>1, <2>2, <2>3 DEF Next, Terminated
<1>2. raced' # {} => \E t \in Threads : count'[t] > BufferSize
  <2>1. ASSUME NEW t \in Threads, count[t] > BufferSize PROVE count'[t] > BufferSize
    <3>1. count'[t] \in Nat /\ count'[t] >= count[t] /\ count[t] \in Nat
      BY CountGrows, NumberTypes
    <3> QED BY <2>1, <3>1, BinaryTraceAssumption
  <2>2. raced' # {} => \E t \in Threads : count[t] > BufferSize
    BY RacedByFlush DEF CrashInv
  <2> QED BY <2>1, <2>2
<1>3. ASSUME crashed', ~crashed PROVE raced # {}
  <2>1. ASSUME NEW t \in Threads, Write(t) PROVE raced # {}
    <3>1. tls[t] \in Slots /\ at[t] = "write" /\ out[tls[t]] # "open"
      BY <1>3, <2>1, WorkFrame DEF Write, Go
    <3>2. ThreadIn(tls[t], {"write"})
      BY <3>1 DEF ThreadIn
    <3> QED BY <3>1, <3>2 DEF KeptApart, Apart
  <2>2. ASSUME ExitWrite \/ ExitClose PROVE raced # {}
    <3>1. /\ exitAt.slot \in Slots /\ out[exitAt.slot] # "open"
          /\ ExitIn(exitAt.slot, {"write", "close"})
      BY <1>3, <2>2, ExitFrame DEF ExitWrite, ExitClose, Exiting, ExitIn, ExitStep
    <3> QED BY <3>1 DEF KeptApart, Apart
  <2>3. ASSUME NEW t \in Threads, ThreadStep(t) PROVE Write(t)
    <3>1. ~(Fill(t) \/ Discard(t) \/ Enter(t))
      BY <1>3, DrawFrame
    <3> QED BY <1>3, <2>3, <3>1 DEF ThreadStep, Flush, Open, Empty, Store
  <2>4. ASSUME ExitStep PROVE ExitWrite \/ ExitClose
    BY <1>3, <2>4 DEF ExitStep, ExitLook, ExitCheck, ExitOpen, ExitNull
  <2>5. ~LogExit /\ ~UNCHANGED vars
    BY <1>3 DEF LogExit, vars
  <2> QED BY <2>1, <2>2, <2>3, <2>4, <2>5 DEF Next, Terminated
<1>4. crashed' => raced' # {}
  BY <1>1, <1>3 DEF CrashInv
<1> QED BY <1>2, <1>4 DEF CrashInv

(* The invariant of what is done at a slot.                                *)
RaceInv == StampInv /\ Counted /\ KeptApart /\ CrashInv

(* It holds at first,                                                      *)
LEMMA RaceInit == Init => RaceInv
<1> SUFFICES ASSUME Init PROVE RaceInv
  OBVIOUS
<1>1. StampInv /\ Inv
  BY StampInit DEF StampInv
<1>2. Counted
  BY <1>1 DEF Init, Counted, Flushing, Slots
<1>3. KeptApart
  BY BinaryTraceAssumption DEF Init, KeptApart, Apart, ThreadIn, ExitIn, Idle, Slots
<1>4. CrashInv
  BY DEF Init, CrashInv
<1> QED BY <1>1, <1>2, <1>3, <1>4 DEF RaceInv

(* and every step keeps it.                                                *)
LEMMA RaceStep == RaceInv /\ [Next]_vars => RaceInv'
BY StampStep, CountedStep, ApartStep, CrashStep DEF RaceInv, StampInv

(* Whatever fails and whoever races: the library uses no FILE that is      *)
(* closed or NULL unless a thread has logged more entries than a buffer    *)
(* holds and has flushed it while logExit was at its slot.                 *)
THEOREM CrashesAreByFlush == Spec => []CrashOnlyByFlush
<1>1. RaceInv => CrashOnlyByFlush
  BY DEF RaceInv, CrashInv, CrashOnlyByFlush
<1> QED BY <1>1, RaceInit, RaceStep, PTL DEF Spec

-----------------------------------------------------------------------------
(* What logExit keeps.                                                     *)

(* A thread gets to work on a buffer that is allocated, and it stays so.   *)
LEMMA BackedStep == Inv /\ Backed /\ [Next]_vars => Backed'
<1> SUFFICES ASSUME Inv, Backed, [Next]_vars PROVE Backed'
  OBVIOUS
<1>0. TypeOK
  BY DEF Inv
<1>1. ASSUME NEW k \in Slots, allocated[k] PROVE allocated'[k]
  <2>1. ASSUME NEW t \in Threads, ThreadStep(t) PROVE allocated'[k]
    BY <1>1, <2>1, DrawFrame, WorkFrame DEF ThreadStep
  <2>2. ASSUME ExitStep \/ LogExit \/ UNCHANGED vars PROVE allocated'[k]
    BY <1>1, <2>2, ExitFrame DEF LogExit, vars, slots
  <2> QED BY <2>1, <2>2 DEF Next, Terminated
<1>2. ASSUME NEW t \in Threads, at'[t] \in Flushing \cup {"store"}
      PROVE  allocated'[tls'[t]]
  <2>1. CASE at[t] \in Flushing \cup {"store"}
    <3>1. tls[t] \in Slots \ {0} /\ allocated[tls[t]]
      BY <2>1 DEF Inv, Inside, Backed
    <3>2. tls'[t] = tls[t]
      <4>1. ASSUME NEW u \in Threads, ThreadStep(u) PROVE tls'[t] = tls[t]
        BY <3>1, <4>1, DrawFrame, WorkFrame DEF ThreadStep
      <4>2. ASSUME ExitStep \/ LogExit \/ UNCHANGED vars PROVE tls'[t] = tls[t]
        BY <4>2, ExitFrame DEF LogExit, vars, slots
      <4> QED BY <4>1, <4>2 DEF Next, Terminated
    <3> QED BY <1>1, <3>1, <3>2
  <2>2. CASE at[t] \notin Flushing \cup {"store"}
    <3>1. ASSUME NEW u \in Threads, ThreadStep(u), u # t PROVE FALSE
      BY <1>2, <2>2, <3>1, DrawFrame, WorkFrame DEF ThreadStep
    <3>2. ASSUME ExitStep \/ LogExit \/ UNCHANGED vars PROVE FALSE
      BY <1>2, <2>2, <3>2, ExitFrame DEF LogExit, vars, slots
    <3>3. ThreadStep(t)
      BY <3>1, <3>2 DEF Next, Terminated
    <3>4. ~(Flush(t) \/ Open(t) \/ Write(t) \/ Empty(t) \/ Store(t))
      BY <2>2 DEF Flush, Open, Write, Empty, Store, Go, Flushing
    <3>5. ~Fill(t) /\ ~Discard(t)
      BY <1>0, <1>2, GoTypes DEF Fill, Discard, Flushing
    <3>6. Enter(t)
      BY <3>3, <3>4, <3>5 DEF ThreadStep
    <3>7. PICK id \in Tids(t) \cap Slots :
            Gettid(t, id) /\ allocated' = [allocated EXCEPT ![id] = TRUE]
      BY <3>6 DEF Enter
    <3>8. tls'[t] = id
      BY <3>7, FirstDraw
    <3> QED BY <1>0, <3>7, <3>8 DEF TypeOK
  <2> QED BY <2>1, <2>2
<1>3. ASSUME NEW k \in Slots, buffer'[k] # <<>> PROVE allocated'[k]
  <2>1. CASE buffer[k] # <<>>
    BY <1>1, <2>1 DEF Backed
  <2>2. CASE buffer[k] = <<>>
    <3>1. PICK t \in Threads : Store(t) /\ tls[t] = k
      BY <1>3, <2>2, BufferSteps
    <3>2. allocated[k]
      BY <3>1 DEF Store, Go, Backed
    <3> QED BY <1>1, <3>2
  <2> QED BY <2>1, <2>2
<1> QED BY <1>2, <1>3 DEF Backed, Flushing, Slots

(* A thread at work keeps what is due at its slot.                         *)
LEMMA DueWork ==
  ASSUME Inv, NEW t \in Threads, NEW k \in Slots, k = tls[t],
         k \notin raced', k \notin failed', Apart(k), Due(k),
         Flush(t) \/ Open(t) \/ Write(t) \/ Empty(t) \/ Store(t)
  PROVE  Due(k)'
<1>1. /\ TypeOK /\ tls[t] = k /\ UNCHANGED <<tls, exitAt, due>>
      /\ \A u \in Threads : u # t => tls[u] # tls[t]
      /\ buffer[k] \in Seq(Entry) /\ file[k] \in Seq(Entry) /\ Elems(<<>>) = {}
  BY WorkFrame, ElemTypes, ElemsOf DEF Inv
<1>2. ASSUME NEW S PROVE /\ ThreadIn(k, S)' <=> at'[t] \in S
                         /\ ThreadIn(k, S) <=> at[t] \in S
                         /\ ExitIn(k, S)' <=> ExitIn(k, S)
  BY <1>1 DEF ThreadIn, ExitIn
<1>3. ~Store(t) => exitAt.slot # k \/ exitAt.step = "look"
  <2>1. ~Store(t) => raced' = raced \cup Races(t)
    BY DEF Flush, Open, Write, Empty
  <2> QED BY <2>1 DEF Races
<1>4. CASE Flush(t)
  <2>1. UNCHANGED <<buffer, out, file>> /\ at'[t] \in {"open", "write"}
    <3> DEFINE to == IF out[k] = "null" THEN "open" ELSE "write"
    <3>1. Go(t, "flush", to) /\ to \in {"outside", "filled", "store"} \cup Flushing
      BY <1>1, <1>4 DEF Flush, Flushing
    <3>2. at'[t] = to
      BY <1>1, <3>1, GoTypes
    <3> QED BY <1>4, <3>2 DEF Flush, slots
  <2> QED BY <1>1, <1>2, <2>1 DEF Due
<1>5. CASE Open(t)
  <2>1. /\ out'[k] = "open" /\ file'[k] = <<>> /\ UNCHANGED buffer
        /\ Go(t, "open", "write")
    BY <1>1, <1>5 DEF Open, Opened, TypeOK
  <2>2. out[k] = "null" /\ at'[t] = "write"
    BY <1>1, <1>2, <2>1, GoTypes DEF Apart, Flushing, Go
  <2>3. Elems(file'[k]) = {}
    BY <1>1, <2>1
  <2>4. ~ExitIn(k, {"close", "null"})
    BY <1>3, <1>5, GoTypes DEF ExitIn, Store, Open, Go
  <2> QED BY <1>1, <1>2, <2>1, <2>2, <2>4 DEF Due
<1>6. CASE Write(t)
  <2>1. at[t] = "write" /\ at'[t] = "reset" /\ UNCHANGED <<buffer, out>>
    BY <1>1, <1>6, GoTypes DEF Write, Flushing
  <2>2. out[k] = "open"
    BY <1>2, <2>1 DEF Apart
  <2>3. file'[k] = file[k] \o buffer[k]
    BY <1>1, <1>6, <2>2 DEF Write, TypeOK
  <2>4. Elems(file'[k]) = Elems(file[k]) \cup Elems(buffer[k])
    BY <1>1, <2>3, ElemsOf
  <2> QED BY <1>1, <1>2, <2>1, <2>2, <2>4 DEF Due
<1>7. CASE Empty(t)
  <2>1. at[t] = "reset" /\ at'[t] = "store" /\ UNCHANGED <<file, out>>
    BY <1>1, <1>7, GoTypes DEF Empty
  <2>2. buffer'[k] = <<>>
    BY <1>1, <1>7 DEF Empty, TypeOK
  <2>3. out[k] = "open" /\ Elems(buffer[k]) \subseteq Elems(file[k])
    BY <1>2, <2>1 DEF Due
  <2> QED BY <1>1, <1>2, <2>1, <2>2, <2>3 DEF Due
<1>8. CASE Store(t)
  <2>1. at'[t] = "outside" /\ UNCHANGED <<file, out>>
    BY <1>1, <1>8, GoTypes DEF Store
  <2>2. buffer'[k] = Append(buffer[k], le[t][1]) /\ le[t][1] \in Entry
    <3>1. le[t][1] \in Entry
      BY <1>8, WorkFrame
    <3>2. buffer' = [buffer EXCEPT ![tls[t]] = Append(@, le[t][1])]
      BY <1>8 DEF Store
    <3> QED BY <1>1, <3>1, <3>2 DEF TypeOK
  <2>3. Elems(buffer[k]) \subseteq Elems(buffer'[k])
    BY <1>1, <2>2, ElemsOf
  <2> QED BY <1>1, <1>2, <2>1, <2>3 DEF Due
<1> QED BY <1>4, <1>5, <1>6, <1>7, <1>8

(* logExit at a slot writes what is due there.                             *)
LEMMA DueExit ==
  ASSUME Inv, Backed, NEW k \in Slots, k = exitAt.slot,
         k \notin raced', k \notin failed', Apart(k), Due(k), ExitStep
  PROVE  Due(k)'
<1>1. /\ TypeOK /\ k + 1 # k /\ k + 1 > k /\ ~(k < k) /\ ~(k + 1 < k) /\ ~(k > k)
      /\ UNCHANGED <<tls, at, due, buffer>>
      /\ buffer[k] \in Seq(Entry) /\ file[k] \in Seq(Entry) /\ Elems(<<>>) = {}
  BY ExitFrame, ElemTypes, ElemsOf DEF Inv, Slots
<1>2. ASSUME NEW S PROVE ThreadIn(k, S)' <=> ThreadIn(k, S)
  BY <1>1 DEF ThreadIn
<1>3. exitAt.step # "look" => ~ThreadIn(k, {"reset"})
  BY DEF Apart, ThreadIn
<1>4. ThreadIn(k, {"reset"}) => out[k] = "open" /\ Elems(buffer[k]) \subseteq Elems(file[k])
  BY DEF Due
<1>5. CASE ExitLook
  <2>1. exitAt.step = "look" /\ UNCHANGED <<out, file>>
    BY <1>5 DEF ExitLook, Exiting, slots
  <2>2. \A e \in Elems(due[k]) :
          e \in Elems(buffer[k]) \/ (out[k] = "open" /\ e \in Elems(file[k]))
    BY <2>1 DEF Due, ExitIn
  <2>3. CASE Pending(k)
    <3>1. exitAt'.slot = k /\ exitAt'.step = "check"
      BY <1>1, <1>5, <2>3 DEF ExitLook, ExitGo, TypeOK
    <3> QED BY <1>1, <1>2, <1>4, <2>1, <2>2, <3>1 DEF Due, ExitIn
  <2>4. CASE ~Pending(k)
    <3>1. exitAt'.slot = k + 1
      BY <1>1, <1>5, <2>4 DEF ExitLook, ExitNext
    <3>2. buffer[k] = <<>>
      BY <2>4 DEF Pending, Backed
    <3>3. Elems(buffer[k]) = {}
      BY <1>1, <3>2
    <3> QED BY <1>1, <1>2, <1>4, <2>1, <2>2, <3>1, <3>3 DEF Due, ExitIn
  <2> QED BY <2>3, <2>4
<1>6. CASE ExitCheck
  <2>1. /\ exitAt.step = "check" /\ UNCHANGED <<out, file>> /\ exitAt'.slot = k
        /\ exitAt'.step \in {"open", "write"}
    BY <1>1, <1>6 DEF ExitCheck, Exiting, ExitGo, TypeOK, slots
  <2>2. \A e \in Elems(due[k]) :
          e \in Elems(buffer[k]) \/ (out[k] = "open" /\ e \in Elems(file[k]))
    BY <2>1 DEF Due, ExitIn
  <2> QED BY <1>1, <1>2, <1>4, <2>1, <2>2 DEF Due, ExitIn
<1>7. CASE ExitOpen
  <2>1. /\ exitAt.step = "open"
        /\ out'[k] = "open" /\ exitAt'.slot = k /\ exitAt'.step = "write"
    BY <1>1, <1>7 DEF ExitOpen, Exiting, ExitGo, ExitNext, TypeOK
  <2>2. out[k] = "null"
    BY <2>1 DEF Apart, ExitIn
  <2>3. \A e \in Elems(due[k]) : e \in Elems(buffer[k])
    BY <2>1, <2>2 DEF Due, ExitIn
  <2>4. ~ThreadIn(k, {"reset"})
    BY <1>3, <2>1
  <2> QED BY <1>1, <1>2, <2>1, <2>3, <2>4 DEF Due, ExitIn
<1>8. CASE ExitWrite
  <2>1. exitAt.step = "write" /\ exitAt'.slot = k /\ exitAt'.step = "close"
    BY <1>1, <1>8 DEF ExitWrite, Exiting, ExitGo, TypeOK
  <2>2. out[k] = "open"
    BY <2>1 DEF Apart, ExitIn
  <2>3. PICK r \in Written(k) : file' = [file EXCEPT ![k] = file[k] \o r]
    BY <1>8, <2>2 DEF ExitWrite
  <2>4. file'[k] = file[k] \o r
    BY <1>1, <2>3 DEF TypeOK
  <2>5. r \in Seq(Entry) /\ Elems(buffer[k]) \subseteq Elems(r)
    BY WrittenElems
  <2>6. Elems(file'[k]) = Elems(file[k]) \cup Elems(r)
    BY <1>1, <2>4, <2>5, ElemsOf
  <2>7. \A e \in Elems(due[k]) : e \in Elems(buffer[k]) \cup Elems(file[k])
    BY <2>1 DEF Due, ExitIn
  <2>8. Elems(due[k]) \subseteq Elems(file'[k]) /\ ~ThreadIn(k, {"reset"})
    BY <1>3, <2>1, <2>5, <2>6, <2>7
  <2> QED BY <1>1, <1>2, <2>1, <2>8 DEF Due, ExitIn
<1>9. CASE ExitClose
  <2>1. /\ exitAt.step = "close" /\ UNCHANGED file
        /\ exitAt'.slot = k /\ exitAt'.step = "null"
    BY <1>1, <1>9 DEF ExitClose, Exiting, ExitGo, TypeOK
  <2>2. Elems(due[k]) \subseteq Elems(file[k]) /\ ~ThreadIn(k, {"reset"})
    BY <1>3, <2>1 DEF Due, ExitIn
  <2> QED BY <1>1, <1>2, <2>1, <2>2 DEF Due, ExitIn
<1>10. CASE ExitNull
  <2>1. exitAt.step = "null" /\ UNCHANGED file /\ exitAt'.slot = k + 1
    BY <1>1, <1>10 DEF ExitNull, Exiting, ExitNext
  <2>2. Elems(due[k]) \subseteq Elems(file[k]) /\ ~ThreadIn(k, {"reset"})
    BY <1>3, <2>1 DEF Due, ExitIn
  <2> QED BY <1>1, <1>2, <2>1, <2>2 DEF Due, ExitIn
<1> QED BY <1>5, <1>6, <1>7, <1>8, <1>9, <1>10 DEF ExitStep

(* A step elsewhere keeps what is due at a slot.                           *)
LEMMA DueElsewhere ==
  ASSUME Inv, [Next]_vars, ~LogExit, NEW k \in Slots, Due(k),
         ~(ExitStep /\ exitAt.slot = k),
         \A t \in Threads : tls[t] = k =>
           ~(Flush(t) \/ Open(t) \/ Write(t) \/ Empty(t) \/ Store(t))
  PROVE  Due(k)'
<1>1. /\ buffer'[k] = buffer[k] /\ out'[k] = out[k] /\ file'[k] = file[k]
      /\ due'[k] = due[k]
  <2>1. ASSUME NEW t \in Threads, Fill(t) \/ Discard(t) \/ Enter(t)
        PROVE  UNCHANGED <<buffer, out, file, due>>
    BY <2>1, DrawFrame
  <2>2. ASSUME NEW t \in Threads, Flush(t) \/ Open(t) \/ Write(t) \/ Empty(t) \/ Store(t)
        PROVE  /\ buffer'[k] = buffer[k] /\ out'[k] = out[k] /\ file'[k] = file[k]
               /\ due'[k] = due[k]
    BY <2>2, WorkFrame
  <2>3. ASSUME ExitStep
        PROVE  /\ buffer'[k] = buffer[k] /\ out'[k] = out[k] /\ file'[k] = file[k]
               /\ due'[k] = due[k]
    BY <2>3, ExitFrame
  <2>4. ASSUME UNCHANGED vars PROVE UNCHANGED <<buffer, out, file, due>>
    BY <2>4 DEF vars, slots
  <2> QED BY <2>1, <2>2, <2>3, <2>4 DEF Next, ThreadStep, Terminated
<1>2. ThreadIn(k, {"reset"})' => ThreadIn(k, {"reset"})
  BY ThreadInKept DEF Using
<1>3. \/ exitAt' = exitAt
      \/ /\ ExitStep /\ exitAt.slot \in Slots
         /\ \/ exitAt'.slot = exitAt.slot
            \/ exitAt'.slot = exitAt.slot + 1 /\ exitAt'.step = "look"
  <2>1. ASSUME NEW t \in Threads, ThreadStep(t) PROVE exitAt' = exitAt
    BY <2>1, DrawFrame, WorkFrame DEF ThreadStep
  <2>2. ASSUME UNCHANGED vars PROVE exitAt' = exitAt
    BY <2>2 DEF vars
  <2> QED BY <2>1, <2>2, ExitFrame DEF Next, Terminated
<1>4. CASE exitAt' = exitAt
  BY <1>1, <1>2, <1>4 DEF Due, ExitIn
<1>5. CASE /\ ExitStep /\ exitAt.slot \in Slots
           /\ \/ exitAt'.slot = exitAt.slot
              \/ exitAt'.slot = exitAt.slot + 1 /\ exitAt'.step = "look"
  <2>1. exitAt.slot \in Nat /\ k \in Nat /\ exitAt.slot # k
    BY <1>5, BinaryTraceAssumption DEF Slots
  <2>2. /\ exitAt'.slot < k => exitAt.slot < k
        /\ exitAt'.slot > k => exitAt.slot > k
        /\ exitAt'.slot = k => exitAt'.step = "look" /\ exitAt.slot < k
    BY <1>5, <2>1
  <2> QED BY <1>1, <1>2, <2>1, <2>2 DEF Due, ExitIn
<1> QED BY <1>3, <1>4, <1>5

(* What is due is kept, at every slot where nothing races or fails.        *)
LEMMA DueStep == Inv /\ Backed /\ KeptApart /\ DueKept /\ [Next]_vars => DueKept'
<1> SUFFICES ASSUME Inv, Backed, KeptApart, DueKept, [Next]_vars,
                    NEW k \in Slots, k \notin raced', k \notin failed'
             PROVE  Due(k)'
  BY DEF DueKept, Slots
<1>1. k \notin raced /\ k \notin failed
  <2>1. ASSUME NEW t \in Threads, ThreadStep(t)
        PROVE  raced \subseteq raced' /\ failed \subseteq failed'
    BY <2>1, DrawFrame, WorkFrame DEF ThreadStep
  <2>2. ASSUME ExitStep PROVE raced \subseteq raced' /\ failed \subseteq failed'
    BY <2>2, ExitFrame
  <2>3. ASSUME LogExit \/ UNCHANGED vars PROVE raced \subseteq raced' /\ failed \subseteq failed'
    BY <2>3 DEF LogExit, vars
  <2> QED BY <2>1, <2>2, <2>3 DEF Next, Terminated
<1>2. Due(k) /\ Apart(k)
  BY <1>1 DEF DueKept, KeptApart
<1>3. CASE LogExit
  <2>1. /\ UNCHANGED <<buffer, out, file, tls, at>> /\ due' = buffer
        /\ exitAt'.slot = 0 /\ exitAt'.step = "look"
    BY <1>3 DEF LogExit, slots
  <2>2. ThreadIn(k, {"reset"})' <=> ThreadIn(k, {"reset"})
    BY <2>1 DEF ThreadIn
  <2>3. k \in Nat /\ ~(0 > k)
    BY DEF Slots
  <2> QED BY <1>2, <2>1, <2>2, <2>3 DEF Due, ExitIn
<1>4. CASE ~LogExit
  BY <1>2, <1>4, DueWork, DueExit, DueElsewhere
<1> QED BY <1>3, <1>4

(* Whatever fails, however often logExit is called and whoever logs        *)
(* meanwhile: when logExit returns, the entries that it found in a buffer  *)
(* are in the file, and stay there until the file is opened again, unless  *)
(* a flush met logExit at the slot or malloc or fopen failed for it.       *)
THEOREM ExitKeepsEntries == Spec => []ExitKeeps
<1>1. RaceInv /\ DueKept => ExitKeeps
  <2> SUFFICES ASSUME RaceInv, DueKept, exitAt = Idle,
                      NEW k \in Slots, k \notin raced, k \notin failed, out[k] = "null",
                      NEW i \in DOMAIN due[k]
               PROVE  \E j \in DOMAIN file[k] : file[k][j] = due[k][i]
    BY DEF ExitKeeps
  <2>1. exitAt.slot > k
    BY BinaryTraceAssumption DEF Idle, Slots
  <2>2. Elems(due[k]) \subseteq Elems(file[k])
    BY <2>1 DEF DueKept, Due
  <2> QED BY <2>2 DEF Elems
<1>2. Init => Backed /\ DueKept
  BY DEF Init, Backed, DueKept, Due, Elems, ThreadIn, Flushing
<1>3. RaceInv /\ Backed /\ DueKept /\ [Next]_vars => Backed' /\ DueKept'
  BY BackedStep, DueStep DEF RaceInv, StampInv
<1> QED BY <1>1, <1>2, <1>3, RaceInit, RaceStep, PTL DEF Spec

-----------------------------------------------------------------------------
(* In which order entries are written.                                     *)

(* Putting ascending sequences together.                                   *)
LEMMA AscendingOf ==
  ASSUME NEW s \in Seq(Entry), NEW r \in Seq(Entry), NEW e \in Entry, Ascending(s)
  PROVE  /\ Ascending(r) /\ Below(s, r) => Ascending(s \o r)
         /\ (e.seq # Torn => \A f \in Elems(s) : f.seq # Torn => f.seq < e.seq)
              => Ascending(Append(s, e))
         /\ Ascending(<<>>) /\ Below(<<>>, r) /\ Below(s, <<>>)
<1>1. ASSUME Ascending(r), Below(s, r) PROVE Ascending(s \o r)
  <2> SUFFICES ASSUME NEW i \in DOMAIN (s \o r), NEW j \in DOMAIN (s \o r), i < j,
                      (s \o r)[i].seq # Torn, (s \o r)[j].seq # Torn
               PROVE  (s \o r)[i].seq < (s \o r)[j].seq
    BY DEF Ascending
  <2>1. CASE j \in DOMAIN s
    <3>1. i \in DOMAIN s /\ (s \o r)[i] = s[i] /\ (s \o r)[j] = s[j]
      BY <2>1
    <3> QED BY <3>1, <2>1 DEF Ascending
  <2>2. CASE j \notin DOMAIN s /\ i \in DOMAIN s
    <3>1. /\ j - Len(s) \in DOMAIN r
          /\ (s \o r)[i] = s[i] /\ (s \o r)[j] = r[j - Len(s)]
      BY <2>2
    <3>2. (s \o r)[i] \in Elems(s) /\ (s \o r)[j] \in Elems(r)
      BY <2>2, <3>1 DEF Elems
    <3> QED BY <1>1, <3>2 DEF Below
  <2>3. CASE i \notin DOMAIN s
    <3>1. /\ i - Len(s) \in DOMAIN r /\ j - Len(s) \in DOMAIN r
          /\ i - Len(s) < j - Len(s)
          /\ (s \o r)[i] = r[i - Len(s)] /\ (s \o r)[j] = r[j - Len(s)]
      BY <2>3
    <3> QED BY <1>1, <3>1 DEF Ascending
  <2> QED BY <2>1, <2>2, <2>3
<1>2. ASSUME e.seq # Torn => \A f \in Elems(s) : f.seq # Torn => f.seq < e.seq
      PROVE  Ascending(Append(s, e))
  <2> SUFFICES ASSUME NEW i \in DOMAIN Append(s, e), NEW j \in DOMAIN Append(s, e), i < j,
                      Append(s, e)[i].seq # Torn, Append(s, e)[j].seq # Torn
               PROVE  Append(s, e)[i].seq < Append(s, e)[j].seq
    BY DEF Ascending
  <2>1. i \in DOMAIN s /\ Append(s, e)[i] = s[i]
    OBVIOUS
  <2>2. CASE j \in DOMAIN s
    <3>1. Append(s, e)[j] = s[j]
      BY <2>2
    <3> QED BY <2>1, <2>2, <3>1 DEF Ascending
  <2>3. CASE j \notin DOMAIN s
    <3>1. Append(s, e)[j] = e /\ s[i] \in Elems(s)
      BY <2>1, <2>3 DEF Elems
    <3> QED BY <1>2, <2>1, <3>1
  <2> QED BY <2>2, <2>3
<1>3. Ascending(<<>>) /\ Below(<<>>, r) /\ Below(s, <<>>)
  BY DEF Ascending, Below, Elems
<1> QED BY <1>1, <1>2, <1>3

(* What a thread stores comes after all that is in its buffer and file.    *)
LEMMA StoredIsLast ==
  ASSUME Inv, Latest, Owned, NEW t \in Threads, Len(le[t]) = 1, tls[t] \in Slots \ {0},
         NEW f \in Elems(buffer[tls[t]]) \cup Elems(file[tls[t]])
  PROVE  f.seq < le[t][1].seq /\ f.thread = t
<1>1. OwnedBy(tls[t], f) /\ f \in Entry
  BY ElemTypes DEF Owned
<1>2. f.thread = t
  BY <1>1 DEF OwnedBy, Inv, SlotPrivate, Entry
<1>3. le[t][1].seq = count[t] - 1
  BY LatestOf
<1> QED BY <1>1, <1>2, <1>3 DEF OwnedBy

(* A thread at work keeps its slot sorted.                                 *)
LEMMA SortedWork ==
  ASSUME Inv, Latest, Owned, NEW t \in Threads, NEW k \in Slots, k = tls[t],
         k \notin raced', Apart(k), Sorted(k),
         Flush(t) \/ Open(t) \/ Write(t) \/ Empty(t) \/ Store(t)
  PROVE  Sorted(k)'
<1>1. /\ TypeOK /\ tls[t] = k /\ k \in Slots \ {0} /\ UNCHANGED <<tls, exitAt>>
      /\ \A u \in Threads : u # t => tls[u] # tls[t]
      /\ buffer[k] \in Seq(Entry) /\ file[k] \in Seq(Entry) /\ Elems(<<>>) = {}
  BY WorkFrame, ElemTypes, ElemsOf DEF Inv
<1>2. ASSUME NEW S PROVE /\ ThreadIn(k, S)' <=> at'[t] \in S
                         /\ ThreadIn(k, S) <=> at[t] \in S
                         /\ ExitIn(k, S)' <=> ExitIn(k, S)
  BY <1>1 DEF ThreadIn, ExitIn
<1>3. ~Store(t) => exitAt.slot # k \/ exitAt.step = "look"
  <2>1. ~Store(t) => raced' = raced \cup Races(t)
    BY DEF Flush, Open, Write, Empty
  <2> QED BY <2>1 DEF Races
<1>4. Ascending(file[k]) /\ Ascending(buffer[k])
  BY DEF Sorted
<1>5. CASE Flush(t)
  <2>1. UNCHANGED <<buffer, out, file>> /\ at[t] = "flush"
    BY <1>5 DEF Flush, slots, Go
  <2> QED BY <1>2, <2>1 DEF Sorted, Fresh
<1>6. CASE Open(t)
  <2>1. /\ UNCHANGED buffer
        /\ \/ file'[k] = <<>>
           \/ out'[k] = "null" /\ file'[k] = file[k]
    BY <1>1, <1>6 DEF Open, Opened, TypeOK
  <2>2. Ascending(<<>>) /\ Below(<<>>, buffer[k])
    BY DEF Ascending, Below, Elems
  <2> QED BY <1>4, <2>1, <2>2 DEF Sorted, Fresh
<1>7. CASE Write(t)
  <2>1. at[t] = "write" /\ at'[t] = "reset" /\ UNCHANGED buffer /\ ~Store(t)
    BY <1>1, <1>7, GoTypes DEF Write, Flushing, Store, Go
  <2>2. out[k] = "open"
    BY <1>2, <2>1 DEF Apart
  <2>3. file'[k] = file[k] \o buffer[k]
    BY <1>1, <1>7, <2>2 DEF Write, TypeOK
  <2>4. Fresh(k)
    BY <1>2, <1>3, <2>1, <2>2 DEF Fresh, ExitIn
  <2>5. Below(file[k], buffer[k])
    BY <2>4 DEF Sorted
  <2>6. Ascending(file'[k])
    <3> PICK e : e \in Entry
      <4>1. le[t][1] \in Entry
        BY <1>7, WorkFrame
      <4> QED BY <4>1
    <3> QED BY <1>1, <1>4, <2>3, <2>5, AscendingOf
  <2> QED BY <1>2, <1>4, <2>1, <2>6 DEF Sorted, Fresh
<1>8. CASE Empty(t)
  <2>1. UNCHANGED file /\ buffer'[k] = <<>>
    BY <1>1, <1>8 DEF Empty, TypeOK
  <2>2. Ascending(<<>>) /\ Below(file[k], <<>>)
    BY DEF Ascending, Below, Elems
  <2> QED BY <1>4, <2>1, <2>2 DEF Sorted
<1>9. CASE Store(t)
  <2>1. UNCHANGED <<file, out>> /\ at[t] = "store"
    BY <1>9 DEF Store, Go
  <2>2. le[t][1] \in Entry /\ Len(le[t]) = 1
    BY <1>9, WorkFrame
  <2>3. buffer'[k] = Append(buffer[k], le[t][1])
    <3>1. buffer' = [buffer EXCEPT ![tls[t]] = Append(@, le[t][1])]
      BY <1>9 DEF Store
    <3> QED BY <1>1, <3>1 DEF TypeOK
  <2>4. Elems(buffer'[k]) = Elems(buffer[k]) \cup {le[t][1]}
    BY <1>1, <2>2, <2>3, ElemsOf
  <2>5. \A f \in Elems(buffer[k]) \cup Elems(file[k]) : f.seq < le[t][1].seq
    BY <1>1, <2>2, StoredIsLast
  <2>6. Ascending(buffer'[k])
    BY <1>1, <1>4, <2>2, <2>3, <2>5, AscendingOf
  <2>7. Fresh(k)' => Below(file[k], buffer[k])
    BY <1>2, <2>1 DEF Fresh, Sorted
  <2>8. Below(file[k], buffer[k]) => Below(file'[k], buffer'[k])
    BY <2>1, <2>4, <2>5 DEF Below
  <2> QED BY <1>4, <2>1, <2>6, <2>7, <2>8 DEF Sorted
<1> QED BY <1>5, <1>6, <1>7, <1>8, <1>9

(* logExit writes the buffer of a slot behind its file, in order.          *)
LEMMA SortedExit ==
  ASSUME Inv, Latest, Owned, NEW k \in Slots, k = exitAt.slot,
         k \notin raced', Apart(k), Sorted(k), ExitStep
  PROVE  Sorted(k)'
<1>1. /\ TypeOK /\ UNCHANGED <<tls, at, buffer>> /\ k + 1 # k
      /\ buffer[k] \in Seq(Entry) /\ file[k] \in Seq(Entry) /\ Elems(<<>>) = {}
  BY ExitFrame, ElemTypes, ElemsOf DEF Inv, Slots
<1>2. ASSUME NEW S PROVE ThreadIn(k, S)' <=> ThreadIn(k, S)
  BY <1>1 DEF ThreadIn
<1>3. Ascending(file[k]) /\ Ascending(buffer[k])
  BY DEF Sorted
<1>4. CASE ExitLook \/ ExitCheck
  <2>1. UNCHANGED <<out, file>> /\ exitAt.step \in {"look", "check"}
    BY <1>4 DEF ExitLook, ExitCheck, Exiting, slots
  <2> QED BY <1>1, <1>2, <2>1 DEF Sorted, Fresh, ExitIn
<1>5. CASE ExitOpen
  <2>1. \/ file'[k] = <<>>
        \/ out'[k] = "null" /\ file'[k] = file[k]
    BY <1>1, <1>5 DEF ExitOpen, Opened, TypeOK
  <2>2. Ascending(<<>>) /\ Below(<<>>, buffer[k])
    BY DEF Ascending, Below, Elems
  <2> QED BY <1>1, <1>3, <2>1, <2>2 DEF Sorted, Fresh
<1>6. CASE ExitWrite
  <2>1. exitAt.step = "write" /\ exitAt'.slot = k /\ exitAt'.step = "close"
    BY <1>1, <1>6 DEF ExitWrite, Exiting, ExitGo, TypeOK
  <2>2. out[k] = "open" /\ ~ThreadIn(k, {"reset"})
    BY <2>1 DEF Apart, ExitIn, ThreadIn
  <2>3. Below(file[k], buffer[k])
    BY <2>1, <2>2 DEF Sorted, Fresh, ExitIn
  <2>4. PICK r \in Written(k) : file' = [file EXCEPT ![k] = file[k] \o r]
    BY <1>6, <2>2 DEF ExitWrite
  <2>5. file'[k] = file[k] \o r
    BY <1>1, <2>4 DEF TypeOK
  <2>6. r \in Seq(Entry) /\ Ascending(r) /\ Below(file[k], r)
    <3>1. CASE r = buffer[k]
      BY <1>1, <1>3, <2>3, <3>1
    <3>2. CASE r # buffer[k]
      <4>1. r \in Seq(Entry) /\
            \E t \in Threads :
              /\ at[t] = "store" /\ tls[t] = k /\ Len(le[t]) = 1
              /\ TornOf(t) \in Entry /\ r = Append(buffer[k], TornOf(t))
              /\ Elems(r) = Elems(buffer[k]) \cup {TornOf(t)}
        BY <3>2, WrittenElems
      <4>2. PICK t \in Threads :
              /\ at[t] = "store" /\ tls[t] = k /\ Len(le[t]) = 1
              /\ TornOf(t) \in Entry /\ r = Append(buffer[k], TornOf(t))
              /\ Elems(r) = Elems(buffer[k]) \cup {TornOf(t)}
        BY <4>1
      <4>3. TornOf(t).seq = Torn
        BY <4>2, LatestOf DEF Inv, Inside
      <4>4. Ascending(r)
        BY <1>1, <1>3, <4>2, <4>3, AscendingOf
      <4>5. Below(file[k], r)
        BY <2>3, <4>2, <4>3 DEF Below
      <4> QED BY <4>1, <4>4, <4>5
    <3> QED BY <3>1, <3>2
  <2>7. Ascending(file'[k])
    <3>1. PICK e : e \in Entry \/ file[k] = <<>>
      <4>1. file[k] # <<>> => file[k][1] \in Entry
        BY <1>1
      <4> QED BY <4>1
    <3>2. CASE e \in Entry
      BY <1>1, <1>3, <2>5, <2>6, <3>2, AscendingOf
    <3>3. CASE file[k] = <<>>
      <4>1. file'[k] = r
        BY <1>1, <2>5, <2>6, <3>3
      <4> QED BY <2>6, <4>1
    <3> QED BY <3>1, <3>2, <3>3
  <2> QED BY <1>1, <1>3, <2>1, <2>7 DEF Sorted, Fresh, ExitIn
<1>7. CASE ExitClose
  <2>1. /\ UNCHANGED file /\ exitAt'.slot = k /\ exitAt'.step = "null"
    BY <1>1, <1>7 DEF ExitClose, Exiting, ExitGo, TypeOK
  <2> QED BY <1>1, <1>3, <2>1 DEF Sorted, Fresh, ExitIn
<1>8. CASE ExitNull
  <2>1. UNCHANGED file /\ out'[k] = "null"
    BY <1>1, <1>8 DEF ExitNull, Reset, TypeOK
  <2> QED BY <1>1, <1>3, <2>1 DEF Sorted, Fresh
<1> QED BY <1>4, <1>5, <1>6, <1>7, <1>8 DEF ExitStep

(* What a step elsewhere leaves of a slot.                                 *)
LEMMA Elsewhere ==
  ASSUME Inv, [Next]_vars, NEW k \in Slots,
         ~(ExitStep /\ exitAt.slot = k),
         \A t \in Threads : tls[t] = k =>
           ~(Flush(t) \/ Open(t) \/ Write(t) \/ Empty(t) \/ Store(t))
  PROVE  /\ buffer'[k] = buffer[k] /\ out'[k] = out[k] /\ file'[k] = file[k]
         /\ \A S \in SUBSET Using : ThreadIn(k, S)' <=> ThreadIn(k, S)
         /\ \/ exitAt' = exitAt
            \/ LogExit /\ exitAt.slot # k /\ exitAt' = [slot |-> 0, step |-> "look"]
            \/ /\ ExitStep /\ exitAt.slot \in Slots \ {k}
               /\ \/ exitAt'.slot = exitAt.slot
                  \/ exitAt'.slot = exitAt.slot + 1 /\ exitAt'.step = "look"
<1>1. /\ buffer'[k] = buffer[k] /\ out'[k] = out[k] /\ file'[k] = file[k]
  <2>1. ASSUME NEW t \in Threads, Fill(t) \/ Discard(t) \/ Enter(t)
        PROVE  UNCHANGED <<buffer, out, file>>
    BY <2>1, DrawFrame
  <2>2. ASSUME NEW t \in Threads, Flush(t) \/ Open(t) \/ Write(t) \/ Empty(t) \/ Store(t)
        PROVE  /\ buffer'[k] = buffer[k] /\ out'[k] = out[k] /\ file'[k] = file[k]
    BY <2>2, WorkFrame
  <2>3. ASSUME ExitStep
        PROVE  /\ buffer'[k] = buffer[k] /\ out'[k] = out[k] /\ file'[k] = file[k]
    BY <2>3, ExitFrame
  <2>4. ASSUME LogExit \/ UNCHANGED vars PROVE UNCHANGED <<buffer, out, file>>
    BY <2>4 DEF LogExit, vars, slots
  <2> QED BY <2>1, <2>2, <2>3, <2>4 DEF Next, ThreadStep, Terminated
<1>2. \A S \in SUBSET Using : ThreadIn(k, S)' <=> ThreadIn(k, S)
  BY ThreadInKept
<1>3. ASSUME NEW t \in Threads, ThreadStep(t) PROVE exitAt' = exitAt
  BY <1>3, DrawFrame, WorkFrame DEF ThreadStep
<1>4. ASSUME UNCHANGED vars PROVE exitAt' = exitAt
  BY <1>4 DEF vars
<1>5. ASSUME LogExit PROVE exitAt.slot # k /\ exitAt' = [slot |-> 0, step |-> "look"]
  BY <1>5, IdleLooks DEF LogExit, Inv
<1>6. ASSUME ExitStep
      PROVE  /\ exitAt.slot \in Slots \ {k}
             /\ \/ exitAt'.slot = exitAt.slot
                \/ exitAt'.slot = exitAt.slot + 1 /\ exitAt'.step = "look"
  BY <1>6, ExitFrame
<1> QED BY <1>1, <1>2, <1>3, <1>4, <1>5, <1>6 DEF Next, Terminated

(* Slots that are not raced stay sorted.                                   *)
LEMMA SortedStep ==
  Inv /\ Latest /\ Owned /\ KeptApart /\ AllSorted /\ [Next]_vars => AllSorted'
<1> SUFFICES ASSUME Inv, Latest, Owned, KeptApart, AllSorted, [Next]_vars,
                    NEW k \in Slots, k \notin raced'
             PROVE  Sorted(k)'
  BY DEF AllSorted, Slots
<1>1. k \notin raced
  <2>1. ASSUME NEW t \in Threads, ThreadStep(t) PROVE raced \subseteq raced'
    BY <2>1, DrawFrame, WorkFrame DEF ThreadStep
  <2>2. ASSUME ExitStep PROVE raced \subseteq raced'
    BY <2>2, ExitFrame
  <2>3. ASSUME LogExit \/ UNCHANGED vars PROVE raced \subseteq raced'
    BY <2>3 DEF LogExit, vars
  <2> QED BY <2>1, <2>2, <2>3 DEF Next, Terminated
<1>2. Sorted(k) /\ Apart(k)
  BY <1>1 DEF AllSorted, KeptApart
<1>3. CASE /\ ~(ExitStep /\ exitAt.slot = k)
           /\ \A t \in Threads : tls[t] = k =>
                ~(Flush(t) \/ Open(t) \/ Write(t) \/ Empty(t) \/ Store(t))
  <2>1. /\ buffer'[k] = buffer[k] /\ out'[k] = out[k] /\ file'[k] = file[k]
        /\ ThreadIn(k, {"reset"})' <=> ThreadIn(k, {"reset"})
        /\ exitAt' = exitAt \/ exitAt.slot # k
    BY <1>3, Elsewhere DEF Using
  <2> QED BY <1>2, <2>1 DEF Sorted, Fresh, ExitIn
<1> QED BY <1>2, <1>3, SortedWork, SortedExit

(* Whatever fails, however often logExit is called and whoever logs        *)
(* meanwhile: a file holds the entries of one thread, each at most once and*)
(* in the order of its log calls, unless a flush met logExit at the slot.  *)
THEOREM FilesAreInOrder == Spec => []InOrder
<1>1. RaceInv /\ AllSorted => InOrder
  <2> SUFFICES ASSUME RaceInv, AllSorted, NEW k \in Slots \ raced,
                      NEW i \in DOMAIN file[k], NEW j \in DOMAIN file[k], i < j,
                      file[k][i].seq # Torn, file[k][j].seq # Torn
               PROVE  /\ file[k][i].thread = file[k][j].thread
                      /\ file[k][i].seq < file[k][j].seq
    BY DEF InOrder
  <2>1. Inv /\ Owned /\ Ascending(file[k])
    BY DEF RaceInv, StampInv, AllSorted, Sorted
  <2>2. /\ file[k][i] \in Elems(file[k]) /\ file[k][j] \in Elems(file[k])
        /\ Elems(file[k]) \subseteq Entry
    BY <2>1, ElemTypes DEF Elems
  <2>3. /\ file[k][i].thread \in Threads /\ file[k][j].thread \in Threads
        /\ tls[file[k][i].thread] = k /\ tls[file[k][j].thread] = k /\ k # 0
    BY <2>1, <2>2 DEF Owned, OwnedBy, Entry
  <2>4. file[k][i].thread = file[k][j].thread
    BY <2>1, <2>3 DEF Inv, SlotPrivate
  <2> QED BY <2>1, <2>4 DEF Ascending
<1>2. Init => AllSorted
  BY DEF Init, AllSorted, Sorted, Ascending, Below, Elems
<1>3. RaceInv /\ AllSorted /\ [Next]_vars => AllSorted'
  BY SortedStep DEF RaceInv, StampInv
<1> QED BY <1>1, <1>2, <1>3, RaceInit, RaceStep, PTL DEF Spec

-----------------------------------------------------------------------------
(* What an early logExit costs.                                            *)

(* Multiples of the buffer size.                                           *)
LEMMA Multiples ==
  ASSUME NEW a \in Int, NEW b \in Int, Multiple(a), Multiple(b)
  PROVE  /\ Multiple(0) /\ Multiple(a - b) /\ Multiple(a + BufferSize)
         /\ a % BufferSize = 0
<1>1. BufferSize \in Nat \ {0}
  BY BinaryTraceAssumption
<1>2. PICK p \in Int : a = p * BufferSize
  BY DEF Multiple
<1>3. PICK q \in Int : b = q * BufferSize
  BY DEF Multiple
<1>4. 0 = 0 * BufferSize
  BY <1>1
<1>5. a - b = (p - q) * BufferSize /\ p - q \in Int
  BY <1>1, <1>2, <1>3
<1>6. a + BufferSize = (p + 1) * BufferSize /\ p + 1 \in Int
  BY <1>1, <1>2
<1>7. (p * BufferSize) % BufferSize = 0
  BY <1>1
<1> QED BY <1>2, <1>4, <1>5, <1>6, <1>7 DEF Multiple

(* An entry of a sequence has a number.                                    *)
LEMMA SeqNumbers ==
  ASSUME NEW s \in Seq(Entry), NEW i \in DOMAIN s
  PROVE  s[i] \in Entry /\ s[i].seq \in Int
<1>1. s[i] \in Entry
  OBVIOUS
<1> QED BY <1>1 DEF Entry, Torn

(* A run behind whole buffers leaves gaps of whole buffers.                *)
LEMMA GapsOf ==
  ASSUME NEW s \in Seq(Entry), NEW r \in Seq(Entry), NEW b \in Int,
         WholeGaps(s), WholeEnd(s), Run(b, r)
  PROVE  /\ WholeGaps(s \o r)
         /\ Len(r) = BufferSize /\ (\A e \in Elems(r) : e.seq # Torn) => WholeEnd(s \o r)
<1>1. /\ s \o r \in Seq(Entry) /\ Len(s \o r) = Len(s) + Len(r)
      /\ Len(s) \in Nat /\ Len(r) \in Nat
      /\ \A i \in DOMAIN s : i \in DOMAIN (s \o r) /\ (s \o r)[i] = s[i]
      /\ \A i \in DOMAIN r : (s \o r)[Len(s) + i] = r[i]
  OBVIOUS
<1>2. /\ \A i \in DOMAIN s : s[i].seq \in Int
      /\ \A i \in DOMAIN r : r[i].seq \in Int
  BY SeqNumbers
<1>3. Multiple(b)
  BY DEF Run
<1>4. ASSUME NEW i \in DOMAIN s PROVE s[i].seq # Torn
  BY <1>1, <1>4 DEF WholeGaps, WholeEnd
<1>5. ASSUME NEW i \in DOMAIN (s \o r)
      PROVE  LET before == IF i = 1 THEN -1 ELSE (s \o r)[i - 1].seq
             IN IF (s \o r)[i].seq = Torn THEN i = Len(s \o r)
                ELSE Multiple((s \o r)[i].seq - before - 1)
  <2>1. CASE i \in DOMAIN s
    <3>1. (s \o r)[i] = s[i] /\ (i # 1 => (s \o r)[i - 1] = s[i - 1])
      BY <1>1, <2>1
    <3>2. s[i].seq # Torn
      BY <1>4, <2>1
    <3> QED BY <2>1, <3>1, <3>2 DEF WholeGaps
  <2>2. CASE i \notin DOMAIN s
    <3> DEFINE j == i - Len(s)
    <3>0. j \in DOMAIN r /\ j \in Int /\ i = Len(s) + j
      BY <1>1, <2>2
    <3> HIDE DEF j
    <3>0a. (s \o r)[i] = r[j]
      BY <1>1, <3>0
    <3>0b. ASSUME j # 1 PROVE (s \o r)[i - 1] = r[j - 1] /\ j - 1 \in DOMAIN r
      <4>1. j - 1 \in DOMAIN r /\ i - 1 = Len(s) + (j - 1)
        BY <1>1, <3>0, <3>0b
      <4> QED BY <1>1, <4>1
    <3>0c. ASSUME j = 1, i # 1
           PROVE  (s \o r)[i - 1] = s[Len(s)] /\ Len(s) \in DOMAIN s
      <4>1. i - 1 = Len(s) /\ Len(s) \in DOMAIN s
        BY <1>1, <3>0, <3>0c
      <4> QED BY <1>1, <4>1
    <3>1. /\ j \in DOMAIN r /\ j \in Int /\ (s \o r)[i] = r[j] /\ i = Len(s) + j
          /\ j # 1 => (s \o r)[i - 1] = r[j - 1] /\ j - 1 \in DOMAIN r
          /\ j = 1 /\ i # 1 => (s \o r)[i - 1] = s[Len(s)] /\ Len(s) \in DOMAIN s
      BY <3>0, <3>0a, <3>0b, <3>0c
    <3>2. CASE r[j].seq = Torn
      <4>1. j = Len(r)
        BY <3>1, <3>2 DEF Run
      <4> QED BY <1>1, <3>1, <3>2, <4>1
    <3>3. CASE r[j].seq # Torn /\ j # 1
      <4>1. r[j].seq = b + j - 1
        BY <3>1, <3>3 DEF Run
      <4>2. r[j - 1].seq = b + (j - 1) - 1
        <5>1. j - 1 # Len(r)
          BY <3>1
        <5> QED BY <3>1, <3>3, <5>1 DEF Run
      <4>3. r[j].seq - r[j - 1].seq - 1 = 0
        BY <3>1, <4>1, <4>2
      <4>4. i # 1
        BY <1>1, <3>1, <3>3
      <4> QED BY <1>3, <3>1, <3>3, <4>3, <4>4, Multiples
    <3>4. CASE r[j].seq # Torn /\ j = 1
      <4>1. r[j].seq = b
        <5>1. r[j].seq = b + j - 1
          BY <3>1, <3>4 DEF Run
        <5> QED BY <3>4, <5>1
      <4>2. CASE i = 1
        <5>1. b - (-1) - 1 = b
          OBVIOUS
        <5> QED BY <1>3, <3>1, <3>4, <4>1, <4>2, <5>1
      <4>3. CASE i # 1
        <5>1. s # <<>> /\ Multiple(s[Len(s)].seq + 1) /\ s[Len(s)].seq \in Int
          BY <1>2, <3>1, <3>4, <4>3 DEF WholeEnd
        <5>2. Multiple(b - (s[Len(s)].seq + 1))
          <6>1. s[Len(s)].seq + 1 \in Int
            BY <5>1
          <6> QED BY <1>3, <5>1, <6>1, Multiples
        <5>3. b - (s[Len(s)].seq + 1) = b - s[Len(s)].seq - 1
          BY <5>1
        <5> QED BY <3>1, <3>4, <4>1, <4>3, <5>2, <5>3
      <4> QED BY <4>2, <4>3
    <3> QED BY <3>2, <3>3, <3>4
  <2> QED BY <2>1, <2>2
<1>6. ASSUME Len(r) = BufferSize, \A e \in Elems(r) : e.seq # Torn
      PROVE  WholeEnd(s \o r)
  <2>1. Len(r) \in DOMAIN r
    BY <1>1, <1>6, BinaryTraceAssumption
  <2>2. r[Len(r)].seq # Torn
    BY <1>6, <2>1 DEF Elems
  <2>3. r[Len(r)].seq = b + Len(r) - 1
    BY <2>1, <2>2 DEF Run
  <2>4. r[Len(r)].seq + 1 = b + BufferSize
    BY <1>1, <1>6, <2>3
  <2>5. (s \o r)[Len(s \o r)] = r[Len(r)]
    BY <1>1, <2>1
  <2> QED BY <1>3, <2>2, <2>4, <2>5, Multiples DEF WholeEnd
<1> QED BY <1>5, <1>6 DEF WholeGaps

(* One more entry makes a longer run.                                      *)
LEMMA RunOf ==
  ASSUME NEW r \in Seq(Entry), NEW b \in Int, NEW e \in Entry,
         Run(b, r), \A f \in Elems(r) : f.seq # Torn,
         e.seq = Torn \/ e.seq = b + Len(r)
  PROVE  Run(b, Append(r, e))
<1>1. ASSUME NEW i \in DOMAIN Append(r, e)
      PROVE  IF Append(r, e)[i].seq = Torn THEN i = Len(Append(r, e))
             ELSE Append(r, e)[i].seq = b + i - 1
  <2>1. CASE i \in DOMAIN r
    <3>1. Append(r, e)[i] = r[i] /\ r[i].seq # Torn
      BY <2>1 DEF Elems
    <3> QED BY <2>1, <3>1 DEF Run
  <2>2. CASE i \notin DOMAIN r
    <3>1. i = Len(r) + 1 /\ Append(r, e)[i] = e /\ Len(Append(r, e)) = i /\ i \in Nat
      BY <2>2
    <3> QED BY <3>1
  <2> QED BY <2>1, <2>2
<1> QED BY <1>1 DEF Run

(* How a step moves the first log call in the buffer of a thread: not, but *)
(* when the thread is given its slot, and when it empties the buffer.      *)
LEMMA BaseStep ==
  ASSUME Inv, Latest, Owned, Counted, [Next]_vars, NEW t \in Threads,
         NEW k \in Slots \ {0}, tls'[t] = k, k \notin failed'
  PROVE  /\ Base(t) \in Int /\ Base(t)' \in Int
         /\ \/ /\ \A u \in Threads : tls[u] # k
               /\ Base(t)' = 0 /\ buffer'[k] = <<>> /\ file'[k] = <<>>
               /\ exitAt' = exitAt /\ (Fill(t) \/ Enter(t))
            \/ tls[t] = k /\ Base(t)' = Base(t) /\ buffer'[k] = buffer[k]
            \/ /\ tls[t] = k /\ Empty(t) /\ buffer'[k] = <<>>
               /\ Base(t)' = Base(t) + BufferSize
               /\ Base(t)' = count[t] - Len(le[t])
            \/ /\ tls[t] = k /\ Store(t) /\ Base(t)' = Base(t)
               /\ buffer'[k] = Append(buffer[k], le[t][1])
               /\ le[t][1].seq = Base(t) + Len(buffer[k])
<1>0. Inv' /\ Latest'
  BY InvStep, LatestStep
<1>1. /\ TypeOK /\ TypeOK' /\ Len(<<>>) = 0 /\ tls[t] \in Nat
      /\ buffer[k] \in Seq(Entry) /\ buffer'[k] \in Seq(Entry)
      /\ le[t] \in Seq(Entry) /\ le'[t] \in Seq(Entry)
  BY <1>0 DEF Inv, TypeOK
<1>2. /\ count[t] \in Nat /\ count'[t] \in Nat /\ BufferSize \in Nat
      /\ Len(le[t]) \in Nat /\ Len(le'[t]) \in Nat
      /\ Len(buffer[k]) \in Nat /\ Len(buffer'[k]) \in Nat
  BY <1>1, BinaryTraceAssumption DEF TypeOK
<1>3. Base(t)' = count'[t] - Len(le'[t]) - Len(buffer'[k])
  BY DEF Base
<1>4. tls[t] = k => Base(t) = count[t] - Len(le[t]) - Len(buffer[k])
  BY DEF Base
<1>5. Base(t)' \in Int
  BY <1>2, <1>3
<1>6. CASE tls[t] # k
  <2>1. /\ tls[t] = 0 /\ (Fill(t) \/ Discard(t) \/ Enter(t))
        /\ \A u \in Threads : tls[u] # k
        /\ buffer'[k] = <<>> /\ file'[k] = <<>>
    <3>1. \/ tls[t] = k
          \/ /\ tls[t] = 0 /\ (Fill(t) \/ Discard(t) \/ Enter(t))
             /\ \A u \in Threads : tls[u] # k
             /\ buffer[k] = <<>> /\ file[k] = <<>>
             /\ UNCHANGED <<buffer, file>>
      BY SlotOf
    <3> QED BY <1>6, <3>1
  <2>2. ~Discard(t)
    <3> SUFFICES ASSUME Discard(t) PROVE FALSE
      OBVIOUS
    <3>1. PICK id : Gettid(t, id) /\ failed' = failed \cup ({id} \cap Slots)
      BY DEF Discard
    <3>2. id = k
      BY <3>1, FirstDraw
    <3> QED BY <3>1, <3>2
  <2>3. exitAt' = exitAt
    BY <2>1, DrawFrame
  <2>4. count'[t] = Len(le'[t])
    <3>1. count[t] = Len(le[t])
      BY <2>1 DEF Latest
    <3>2. CASE Enter(t)
      BY <3>1, <3>2 DEF Enter
    <3>3. CASE Fill(t)
      <4>1. at[t] = "outside" /\ at'[t] = "filled"
        BY <1>1, <3>3, GoTypes DEF Fill
      <4>2. Len(le[t]) = 0
        BY <1>1, <4>1 DEF Latest
      <4>3. Len(le'[t]) = 1
        BY <1>0, <4>1 DEF Inv, Inside
      <4>4. count'[t] = count[t] + 1
        BY <1>1, <3>3 DEF Fill, TypeOK
      <4> QED BY <3>1, <4>2, <4>3, <4>4
    <3> QED BY <2>1, <2>2, <3>2, <3>3
  <2>5. Len(buffer'[k]) = 0
    BY <1>1, <2>1
  <2>6. Base(t)' = 0
    BY <1>2, <1>3, <2>4, <2>5
  <2>7. Base(t) \in Int
    <3>1. tls[t] \in Slots
      BY <2>1, BinaryTraceAssumption DEF Slots
    <3>2. Len(buffer[tls[t]]) \in Nat
      BY <3>1, NumberTypes
    <3> QED BY <1>2, <3>2 DEF Base
  <2> QED BY <1>5, <2>1, <2>2, <2>3, <2>6, <2>7
<1>7. CASE tls[t] = k
  <2>0. Base(t) \in Int
    BY <1>2, <1>4, <1>7
  <2>1. CASE Store(t)
    <3>1. Len(le[t]) = 1 /\ count'[t] = count[t] /\ le[t][1] \in Entry
      BY <2>1, WorkFrame
    <3>2. Len(le'[t]) = 0 /\ buffer'[k] = Append(buffer[k], le[t][1])
      BY <1>1, <1>7, <2>1 DEF Store, TypeOK
    <3>3. Len(buffer'[k]) = Len(buffer[k]) + 1
      BY <1>1, <3>1, <3>2, EntrySeqs
    <3>4. Base(t)' = Base(t)
      BY <1>2, <1>3, <1>4, <1>7, <3>1, <3>2, <3>3
    <3>5. le[t][1].seq = count[t] - 1
      BY <1>7, <3>1, LatestOf
    <3>6. le[t][1].seq = Base(t) + Len(buffer[k])
      BY <1>2, <1>4, <1>7, <3>1, <3>5
    <3> QED BY <1>5, <1>7, <2>0, <2>1, <3>2, <3>4, <3>6
  <2>2. CASE Empty(t)
    <3>1. count'[t] = count[t] /\ le' = le /\ buffer'[k] = <<>>
      BY <1>1, <1>7, <2>2 DEF Empty, TypeOK
    <3>2. Len(buffer[k]) = BufferSize
      BY <1>7, <2>2 DEF Empty, Go, Counted, Flushing
    <3>3. Len(buffer'[k]) = 0
      BY <1>1, <3>1
    <3>4. Base(t)' = Base(t) + BufferSize /\ Base(t)' = count[t] - Len(le[t])
      BY <1>2, <1>3, <1>4, <1>7, <3>1, <3>2, <3>3
    <3> QED BY <1>5, <1>7, <2>0, <2>2, <3>1, <3>4
  <2>3. CASE ~Store(t) /\ ~Empty(t)
    <3>1. buffer'[k] = buffer[k]
      <4>1. ASSUME NEW u \in Threads, Store(u) \/ Empty(u), tls[u] = k PROVE FALSE
        BY <1>7, <2>3, <4>1, WorkFrame
      <4> QED BY <4>1, BufferSteps
    <3>2. count'[t] - Len(le'[t]) = count[t] - Len(le[t])
      <4>1. ASSUME NEW u \in Threads, ThreadStep(u), u # t
            PROVE  count'[t] = count[t] /\ le'[t] = le[t]
        BY <4>1, DrawFrame, WorkFrame DEF ThreadStep
      <4>2. CASE ExitStep \/ LogExit \/ UNCHANGED vars
        BY <4>2, ExitSteps, LogExitStep DEF vars
      <4>3. CASE Enter(t) \/ Flush(t) \/ Open(t) \/ Write(t)
        BY <4>3 DEF Enter, Flush, Open, Write
      <4>4. CASE Fill(t)
        <5>1. at[t] = "outside" /\ at'[t] = "filled"
          BY <1>1, <4>4, GoTypes DEF Fill
        <5>2. Len(le[t]) = 0
          BY <1>1, <5>1 DEF Latest
        <5>3. Len(le'[t]) = 1
          BY <1>0, <5>1 DEF Inv, Inside
        <5>4. count'[t] = count[t] + 1
          BY <1>1, <4>4 DEF Fill, TypeOK
        <5> QED BY <1>2, <5>2, <5>3, <5>4
      <4>5. CASE Discard(t)
        <5>1. PICK id : Gettid(t, id) /\ failed' = failed \cup ({id} \cap Slots)
          BY <4>5 DEF Discard
        <5>2. id = k
          BY <5>1, FirstDraw
        <5> QED BY <5>1, <5>2
      <4> QED BY <2>3, <4>1, <4>2, <4>3, <4>4, <4>5 DEF Next, ThreadStep, Terminated
    <3>3. Len(buffer'[k]) = Len(buffer[k])
      BY <3>1
    <3>4. Base(t)' = Base(t)
      BY <1>2, <1>3, <1>4, <1>7, <3>2, <3>3
    <3> QED BY <1>5, <1>7, <2>0, <3>1, <3>4
  <2> QED BY <2>1, <2>2, <2>3
<1> QED BY <1>6, <1>7

(* So what is in a buffer stays aligned.                                   *)
LEMMA AlignedStep ==
  Inv /\ Latest /\ Owned /\ Counted /\ Aligned /\ [Next]_vars => Aligned'
<1> SUFFICES ASSUME Inv, Latest, Owned, Counted, Aligned, [Next]_vars,
                    NEW t \in Threads, NEW k \in Slots \ {0}, tls'[t] = k, k \notin failed'
             PROVE  Run(Base(t)', buffer'[k])
  BY DEF Aligned, Slots
<1>1. Base(t) \in Int /\ buffer[k] \in Seq(Entry) /\ BufferSize \in Nat
  BY BaseStep, ElemTypes, BinaryTraceAssumption
<1>2. k \notin failed
  <2>1. ASSUME NEW u \in Threads, ThreadStep(u) PROVE failed \subseteq failed'
    BY <2>1, DrawFrame, WorkFrame DEF ThreadStep
  <2>2. CASE ExitStep \/ LogExit \/ UNCHANGED vars
    BY <2>2, ExitFrame DEF LogExit, vars
  <2> QED BY <2>1, <2>2 DEF Next, Terminated
<1>3. tls[t] = k => Run(Base(t), buffer[k])
  BY <1>2 DEF Aligned
<1>4. Multiple(0) /\ Run(0, <<>>)
  <2>1. 0 = 0 * BufferSize
    BY <1>1
  <2>2. Multiple(0)
    BY <2>1 DEF Multiple
  <2> QED BY <2>2 DEF Run
<1>5. CASE Base(t)' = 0 /\ buffer'[k] = <<>>
  BY <1>4, <1>5
<1>6. CASE tls[t] = k /\ Base(t)' = Base(t) /\ buffer'[k] = buffer[k]
  BY <1>3, <1>6
<1>7. CASE tls[t] = k /\ buffer'[k] = <<>> /\ Base(t)' = Base(t) + BufferSize
  <2>1. Multiple(Base(t) + BufferSize)
    BY <1>1, <1>3, <1>7, Multiples DEF Run
  <2> QED BY <1>7, <2>1 DEF Run
<1>8. CASE /\ tls[t] = k /\ Store(t) /\ Base(t)' = Base(t)
           /\ buffer'[k] = Append(buffer[k], le[t][1])
           /\ le[t][1].seq = Base(t) + Len(buffer[k])
  <2>1. le[t][1] \in Entry
    BY <1>8, WorkFrame
  <2>2. \A f \in Elems(buffer[k]) : f.seq # Torn
    BY DEF Owned
  <2>3. Run(Base(t), Append(buffer[k], le[t][1]))
    BY <1>1, <1>3, <1>8, <2>1, <2>2, RunOf
  <2> QED BY <1>8, <2>3
<1> QED BY <1>5, <1>6, <1>7, <1>8, BaseStep

(* A buffer is a run, whoever has the slot, and so is what logExit writes. *)
LEMMA BufferRuns ==
  ASSUME Inv, Owned, Latest, Aligned, NEW k \in Slots, k \notin failed,
         NEW r \in Written(k)
  PROVE  \E b \in Int : Run(b, r) /\ Run(b, buffer[k])
<1>1. buffer[k] \in Seq(Entry) /\ BufferSize \in Nat
  BY ElemTypes, BinaryTraceAssumption
<1>2. \A e \in Elems(buffer[k]) : e.seq # Torn
  BY DEF Owned
<1>3. \E b \in Int : Run(b, buffer[k])
  <2>1. CASE \E t \in Threads : tls[t] = k /\ k # 0
    <3>1. PICK t \in Threads : tls[t] = k /\ k # 0
      BY <2>1
    <3>2. Run(Base(t), buffer[k])
      BY <3>1 DEF Aligned
    <3>3. Base(t) \in Int
      BY <3>1, NumberTypes DEF Base
    <3> QED BY <3>2, <3>3
  <2>2. CASE \A t \in Threads : tls[t] # k \/ k = 0
    <3>1. buffer[k] = <<>>
      <4>1. ASSUME NEW e \in Elems(buffer[k]) PROVE FALSE
        <5>1. k # 0 /\ tls[e.thread] = k /\ e \in Entry
          BY ElemTypes DEF Owned, OwnedBy
        <5> QED BY <2>2, <5>1 DEF Entry
      <4> QED BY <1>1, <4>1, ElemsOf
    <3>2. 0 = 0 * BufferSize
      BY <1>1
    <3>3. Run(0, buffer[k])
      BY <3>1, <3>2 DEF Run, Multiple
    <3> QED BY <3>3
  <2> QED BY <2>1, <2>2
<1>4. PICK b \in Int : Run(b, buffer[k])
  BY <1>3
<1>5. CASE r = buffer[k]
  BY <1>4, <1>5
<1>6. CASE r # buffer[k]
  <2>1. PICK t \in Threads :
          /\ at[t] = "store" /\ tls[t] = k /\ Len(le[t]) = 1
          /\ TornOf(t) \in Entry /\ r = Append(buffer[k], TornOf(t))
    BY <1>6, WrittenElems
  <2>2. TornOf(t).seq = Torn
    BY <2>1, LatestOf DEF Inv, Inside
  <2>3. Run(b, r)
    BY <1>1, <1>2, <1>4, <2>1, <2>2, RunOf
  <2> QED BY <1>4, <2>3
<1> QED BY <1>5, <1>6

(* A thread at work writes whole buffers.                                  *)
LEMMA WholeWork ==
  ASSUME RaceInv, Aligned, NEW t \in Threads, NEW k \in Slots, k = tls[t],
         k \notin raced', k \notin failed', k \notin failed, Apart(k), Whole(k),
         Flush(t) \/ Open(t) \/ Write(t) \/ Empty(t) \/ Store(t)
  PROVE  Whole(k)'
<1>1. /\ Inv /\ TypeOK /\ Owned /\ Counted /\ tls[t] = k /\ UNCHANGED <<tls, exitAt>>
      /\ buffer[k] \in Seq(Entry) /\ file[k] \in Seq(Entry) /\ k # 0
  <2>1. Inv /\ Owned /\ Counted
    BY DEF RaceInv, StampInv
  <2> QED BY <2>1, WorkFrame, ElemTypes DEF Inv
<1>2. ASSUME NEW S PROVE ExitIn(k, S)' <=> ExitIn(k, S)
  BY <1>1 DEF ExitIn
<1>3. WholeGaps(file[k])
  BY DEF Whole
<1>4. CASE Flush(t) \/ Empty(t) \/ Store(t)
  <2>1. UNCHANGED <<out, file>>
    BY <1>4 DEF Flush, Empty, Store, slots
  <2> QED BY <1>2, <2>1 DEF Whole
<1>5. CASE Open(t)
  <2>1. file'[k] = <<>>
    BY <1>1, <1>5 DEF Open, Opened, TypeOK
  <2> QED BY <2>1 DEF Whole, WholeGaps, WholeEnd
<1>6. CASE Write(t)
  <2>1. at[t] = "write" /\ raced' = raced \cup Races(t)
    BY <1>6 DEF Write, Go
  <2>2. exitAt.slot # k \/ exitAt.step = "look"
    BY <1>1, <2>1 DEF Races
  <2>3. out[k] = "open"
    BY <1>1, <2>1 DEF Apart, ThreadIn
  <2>4. file'[k] = file[k] \o buffer[k]
    <3>1. file' = [file EXCEPT ![k] = file[k] \o buffer[k]]
      BY <1>1, <1>6, <2>3 DEF Write
    <3> QED BY <1>1, <3>1 DEF TypeOK
  <2>5. WholeEnd(file[k])
    BY <2>2, <2>3 DEF Whole, ExitIn
  <2>6. Run(Base(t), buffer[k]) /\ Base(t) \in Int
    BY <1>1, NumberTypes DEF Aligned, Base
  <2>7. Len(buffer[k]) = BufferSize
    BY <1>1, <2>1 DEF Counted, Flushing
  <2>8. \A e \in Elems(buffer[k]) : e.seq # Torn
    BY <1>1 DEF Owned
  <2>9. WholeGaps(file'[k]) /\ WholeEnd(file'[k])
    BY <1>1, <1>3, <2>4, <2>5, <2>6, <2>7, <2>8, GapsOf
  <2> QED BY <2>9 DEF Whole
<1> QED BY <1>4, <1>5, <1>6

(* logExit writes what is left of a run, and closes the file.              *)
LEMMA WholeExit ==
  ASSUME RaceInv, Aligned, NEW k \in Slots, k = exitAt.slot,
         k \notin raced', k \notin failed', k \notin failed, Apart(k), Whole(k), ExitStep
  PROVE  Whole(k)'
<1>1. /\ Inv /\ TypeOK /\ Owned /\ Latest /\ k + 1 # k
      /\ buffer[k] \in Seq(Entry) /\ file[k] \in Seq(Entry)
  <2>1. Inv /\ Owned /\ Latest
    BY DEF RaceInv, StampInv
  <2> QED BY <2>1, ElemTypes DEF Inv, Slots
<1>2. WholeGaps(file[k])
  BY DEF Whole
<1>3. CASE ExitLook \/ ExitCheck
  <2>1. UNCHANGED <<out, file>> /\ exitAt.step \in {"look", "check"}
    BY <1>3 DEF ExitLook, ExitCheck, Exiting, slots
  <2> QED BY <2>1 DEF Whole, ExitIn
<1>4. CASE ExitOpen
  <2>1. file'[k] = <<>>
    BY <1>1, <1>4 DEF ExitOpen, Opened, TypeOK
  <2> QED BY <2>1 DEF Whole, WholeGaps, WholeEnd
<1>5. CASE ExitWrite
  <2>1. exitAt.step = "write" /\ exitAt'.slot = k /\ exitAt'.step = "close"
    BY <1>1, <1>5 DEF ExitWrite, Exiting, ExitGo, TypeOK
  <2>2. out[k] = "open"
    BY <2>1 DEF Apart, ExitIn
  <2>3. WholeEnd(file[k])
    BY <2>1, <2>2 DEF Whole, ExitIn
  <2>4. PICK r \in Written(k) : file' = [file EXCEPT ![k] = file[k] \o r]
    BY <1>5, <2>2 DEF ExitWrite
  <2>5. file'[k] = file[k] \o r /\ r \in Seq(Entry)
    BY <1>1, <2>4, WrittenElems DEF TypeOK
  <2>6. PICK b \in Int : Run(b, r)
    BY <1>1, BufferRuns
  <2>7. WholeGaps(file'[k])
    BY <1>1, <1>2, <2>3, <2>5, <2>6, GapsOf
  <2> QED BY <2>1, <2>7 DEF Whole, ExitIn
<1>6. CASE ExitClose
  <2>1. /\ UNCHANGED file /\ exitAt'.slot = k /\ exitAt'.step = "null"
    BY <1>1, <1>6 DEF ExitClose, Exiting, ExitGo, TypeOK
  <2> QED BY <1>2, <2>1 DEF Whole, ExitIn
<1>7. CASE ExitNull
  <2>1. UNCHANGED file /\ out'[k] = "null"
    BY <1>1, <1>7 DEF ExitNull, Reset, TypeOK
  <2> QED BY <1>2, <2>1 DEF Whole
<1> QED BY <1>3, <1>4, <1>5, <1>6, <1>7 DEF ExitStep

(* Every step keeps the files of slots where nothing races or fails whole. *)
LEMMA WholeStep == RaceInv /\ Aligned /\ AllWhole /\ [Next]_vars => AllWhole'
<1> SUFFICES ASSUME RaceInv, Aligned, AllWhole, [Next]_vars,
                    NEW k \in Slots, k \notin raced', k \notin failed'
             PROVE  Whole(k)'
  BY DEF AllWhole, Slots
<1>0. Inv /\ KeptApart
  BY DEF RaceInv, StampInv
<1>1. k \notin raced /\ k \notin failed
  <2>1. ASSUME NEW t \in Threads, ThreadStep(t)
        PROVE  raced \subseteq raced' /\ failed \subseteq failed'
    BY <1>0, <2>1, DrawFrame, WorkFrame DEF ThreadStep
  <2>2. ASSUME ExitStep PROVE raced \subseteq raced' /\ failed \subseteq failed'
    BY <1>0, <2>2, ExitFrame
  <2>3. ASSUME LogExit \/ UNCHANGED vars PROVE raced \subseteq raced' /\ failed \subseteq failed'
    BY <2>3 DEF LogExit, vars
  <2> QED BY <2>1, <2>2, <2>3 DEF Next, Terminated
<1>2. Whole(k) /\ Apart(k)
  BY <1>0, <1>1 DEF AllWhole, KeptApart
<1>3. CASE /\ ~(ExitStep /\ exitAt.slot = k)
           /\ \A t \in Threads : tls[t] = k =>
                ~(Flush(t) \/ Open(t) \/ Write(t) \/ Empty(t) \/ Store(t))
  <2>1. /\ out'[k] = out[k] /\ file'[k] = file[k]
        /\ exitAt' = exitAt \/ exitAt.slot # k
    BY <1>0, <1>3, Elsewhere
  <2> QED BY <1>2, <2>1 DEF Whole, ExitIn
<1> QED BY <1>1, <1>2, <1>3, WholeWork, WholeExit

(* Whatever races or fails elsewhere: where no flush met logExit and malloc*)
(* and fopen did not fail, what logExit has cost a file is whole buffers of*)
(* its thread's entries, for every buffer size.                            *)
THEOREM GapsAreWholeBuffers == Spec => []WholeBuffersLost
<1>1. RaceInv /\ AllWhole => WholeBuffersLost
  <2> SUFFICES ASSUME RaceInv, AllWhole, NEW k \in Slots, k \notin raced, k \notin failed,
                      NEW i \in DOMAIN file[k]
               PROVE  LET before == IF i = 1 THEN -1 ELSE file[k][i - 1].seq
                      IN IF file[k][i].seq = Torn THEN i = Len(file[k])
                         ELSE (file[k][i].seq - before - 1) % BufferSize = 0
    BY DEF WholeBuffersLost
  <2>1. WholeGaps(file[k])
    BY DEF AllWhole, Whole
  <2>2. file[k] \in Seq(Entry)
    BY ElemTypes DEF RaceInv, StampInv
  <2>3. file[k][i].seq \in Int /\ (i # 1 => file[k][i - 1].seq \in Int)
    <3>1. i # 1 => i - 1 \in DOMAIN file[k]
      BY <2>2
    <3> QED BY <2>2, <3>1, SeqNumbers
  <2> DEFINE before == IF i = 1 THEN -1 ELSE file[k][i - 1].seq
  <2>4. file[k][i].seq - before - 1 \in Int
    BY <2>3
  <2>5. IF file[k][i].seq = Torn THEN i = Len(file[k])
        ELSE Multiple(file[k][i].seq - before - 1)
    BY <2>1 DEF WholeGaps
  <2> HIDE DEF before
  <2>6. Multiple(file[k][i].seq - before - 1) =>
          (file[k][i].seq - before - 1) % BufferSize = 0
    BY <2>4, Multiples
  <2>7. IF file[k][i].seq = Torn THEN i = Len(file[k])
        ELSE (file[k][i].seq - before - 1) % BufferSize = 0
    BY <2>5, <2>6
  <2> QED BY <2>7 DEF before
<1>2. Init => Aligned /\ AllWhole
  BY DEF Init, Aligned, AllWhole, Whole, WholeGaps, WholeEnd
<1>3. RaceInv /\ Aligned /\ AllWhole /\ [Next]_vars => Aligned' /\ AllWhole'
  BY AlignedStep, WholeStep DEF RaceInv, StampInv
<1> QED BY <1>1, <1>2, <1>3, RaceInit, RaceStep, PTL DEF Spec

-----------------------------------------------------------------------------
(* A program that calls logExit once.                                      *)

(* Under OneExit threads and logExit are never in the library together.    *)
LEMMA NothingRaces ==
  ASSUME OneExit, Inv, Latest, SavedInv, [Next]_vars
  PROVE  /\ raced' = {} /\ failed' = {}
         /\ exits' <= 1 /\ (exits' = 0 => exitAt' = Idle)
         /\ exits' > 0 => \A t \in Threads : at'[t] = "outside"
         /\ \A t \in Threads : ThreadStep(t) => exits = 0 /\ exitAt = Idle /\ exits' = 0
         /\ ExitStep => exits = 1 /\ \A t \in Threads : at[t] = "outside"
<1>1. /\ TypeOK /\ exits \in Nat /\ raced = {} /\ failed = {} /\ MaxExits \in Nat
      /\ MaxThreads \in Nat \ {0}
  BY BinaryTraceAssumption DEF Inv, TypeOK, SavedInv
<1>2. ASSUME NEW t \in Threads, ThreadStep(t)
      PROVE  /\ exits = 0 /\ exitAt = Idle /\ UNCHANGED <<exits, exitAt>>
             /\ raced' = {} /\ failed' = {}
  <2>1. Running
    BY <1>2, DrawFrame, WorkFrame DEF ThreadStep
  <2>2. exits < MaxExits /\ exitAt = Idle /\ MaxExits <= 1
    BY <2>1 DEF Running, OneExit
  <2>3. exits = 0
    BY <1>1, <2>2
  <2>4. UNCHANGED <<exits, exitAt>>
    BY <1>2, DrawFrame, WorkFrame DEF ThreadStep
  <2>5. CASE Fill(t) \/ Enter(t)
    BY <1>1, <2>2, <2>3, <2>4, <2>5 DEF Fill, Enter
  <2>6. CASE Discard(t)
    <3>1. PICK id : /\ id \in Slots => MallocMayFail
                    /\ failed' = failed \cup ({id} \cap Slots)
      BY <2>6 DEF Discard
    <3>2. raced' = raced
      BY <2>6 DEF Discard
    <3> QED BY <1>1, <2>2, <2>3, <2>4, <3>1, <3>2 DEF OneExit
  <2>7. CASE Flush(t) \/ Open(t) \/ Write(t) \/ Empty(t) \/ Store(t)
    <3>1. tls[t] \in Slots
      BY <2>7, WorkFrame
    <3>2. Races(t) = {}
      BY <1>1, <2>2, <3>1, IdleLooks DEF Races
    <3>3. failed' = failed
      BY <2>7 DEF Flush, Open, Write, Empty, Store, OneExit
    <3>4. raced' = raced \/ raced' = raced \cup Races(t)
      BY <2>7 DEF Flush, Open, Write, Empty, Store
    <3> QED BY <1>1, <2>2, <2>3, <2>4, <3>2, <3>3, <3>4
  <2> QED BY <1>2, <2>5, <2>6, <2>7 DEF ThreadStep
<1>3. ASSUME ExitStep
      PROVE  /\ exits = 1 /\ \A t \in Threads : at[t] = "outside"
             /\ UNCHANGED <<exits, at>> /\ raced' = {} /\ failed' = {}
  <2>1. exitAt # Idle
    BY <1>3 DEF ExitStep, ExitLook, ExitCheck, ExitOpen, ExitWrite, ExitClose,
                ExitNull, Exiting
  <2>2. exits = 1 /\ \A t \in Threads : at[t] = "outside"
    BY <1>1, <2>1 DEF SavedInv
  <2>3. UNCHANGED <<exits, at>>
    BY <1>3, ExitFrame
  <2>4. ExitRacing = {}
    BY <2>2 DEF ExitRacing, Flushing
  <2>5. raced' = {}
    BY <1>1, <1>3, <2>4 DEF ExitStep, ExitLook, ExitCheck, ExitOpen, ExitWrite, ExitClose,
                      ExitNull
  <2>6. failed' = {}
    BY <1>1, <1>3 DEF ExitStep, ExitLook, ExitCheck, ExitOpen, ExitWrite, ExitClose,
                      ExitNull, OneExit
  <2> QED BY <2>2, <2>3, <2>5, <2>6
<1>4. ASSUME LogExit
      PROVE  /\ exits' = 1 /\ \A t \in Threads : at'[t] = "outside"
             /\ raced' = {} /\ failed' = {}
  BY <1>1, <1>4 DEF LogExit, OneExit
<1>5. ASSUME UNCHANGED vars PROVE UNCHANGED <<raced, failed, exits, exitAt, at>>
  BY <1>5 DEF vars
<1>6. exits <= 1 /\ (exits = 0 => exitAt = Idle)
      /\ (exits > 0 => \A t \in Threads : at[t] = "outside")
  BY DEF SavedInv
<1>7. \/ \E t \in Threads : ThreadStep(t)
      \/ ExitStep \/ LogExit \/ UNCHANGED vars
  BY DEF Next, Terminated
<1>8. CASE \E t \in Threads : ThreadStep(t)
  BY <1>2, <1>3, <1>8
<1>9. CASE ExitStep
  BY <1>2, <1>3, <1>9
<1>10. CASE LogExit
  BY <1>2, <1>3, <1>4, <1>10
<1>11. CASE UNCHANGED vars
  BY <1>1, <1>2, <1>3, <1>5, <1>6, <1>11
<1> QED BY <1>7, <1>8, <1>9, <1>10, <1>11

(* A file that held the first log calls holds all, when the buffer behind  *)
(* them is written.                                                        *)
LEMMA HoldsMore ==
  ASSUME NEW t \in Threads, NEW s \in Seq(Entry), NEW r \in Seq(Entry), NEW b \in Int,
         Holds(t, s, b), Run(b, r), \A e \in Elems(r) : e.seq # Torn /\ e.thread = t
  PROVE  Holds(t, s \o r, b + Len(r))
<1>1. /\ Len(s \o r) = Len(s) + Len(r) /\ Len(s) = b /\ Len(r) \in Nat /\ b \in Nat
  BY DEF Holds
<1>2. ASSUME NEW i \in DOMAIN (s \o r)
      PROVE  (s \o r)[i].thread = t /\ (s \o r)[i].seq = i - 1
  <2>1. CASE i \in DOMAIN s
    <3>1. (s \o r)[i] = s[i]
      BY <2>1
    <3> QED BY <2>1, <3>1 DEF Holds
  <2>2. CASE i \notin DOMAIN s
    <3> DEFINE j == i - b
    <3>1. j \in DOMAIN r /\ j \in Int /\ i = b + j
      BY <1>1, <2>2
    <3>2. (s \o r)[i] = r[j]
      BY <1>1, <2>2
    <3> HIDE DEF j
    <3>3. r[j].seq # Torn /\ r[j].thread = t
      BY <3>1 DEF Elems
    <3>4. r[j].seq = b + j - 1
      BY <3>1, <3>3 DEF Run
    <3> QED BY <3>1, <3>2, <3>3, <3>4
  <2> QED BY <2>1, <2>2
<1> QED BY <1>1, <1>2 DEF Holds

(* What is in a buffer and where its thread is, in one step of the proof.  *)
LEMMA BufferOf ==
  ASSUME Inv, Latest, Owned, Aligned, failed = {}, NEW t \in Threads, NEW k \in Slots \ {0},
         tls[t] = k
  PROVE  /\ Base(t) \in Int /\ Base(t) + Len(buffer[k]) = count[t] - Len(le[t])
         /\ Run(Base(t), buffer[k])
         /\ \A e \in Elems(buffer[k]) : e.seq # Torn /\ e.thread = t
         /\ buffer[k] \in Seq(Entry) /\ file[k] \in Seq(Entry)
         /\ (buffer[k] = <<>> => Base(t) = count[t] - Len(le[t]))
<1>1. /\ buffer[k] \in Seq(Entry) /\ file[k] \in Seq(Entry)
      /\ Elems(buffer[k]) \subseteq Entry
  BY ElemTypes
<1>2. /\ count[t] \in Nat /\ Len(le[t]) \in Nat /\ Len(buffer[k]) \in Nat
  BY NumberTypes
<1>3. Base(t) = count[t] - Len(le[t]) - Len(buffer[k])
  BY DEF Base
<1>4. Base(t) \in Int /\ Base(t) + Len(buffer[k]) = count[t] - Len(le[t])
  BY <1>2, <1>3
<1>5. Run(Base(t), buffer[k])
  BY DEF Aligned
<1>6. ASSUME NEW e \in Elems(buffer[k]) PROVE e.seq # Torn /\ e.thread = t
  <2>1. e.seq # Torn /\ tls[e.thread] = k /\ e.thread \in Threads
    BY <1>1 DEF Owned, OwnedBy, Entry
  <2> QED BY <2>1 DEF Inv, SlotPrivate
<1>7. buffer[k] = <<>> => Base(t) = count[t] - Len(le[t])
  <2>1. buffer[k] = <<>> => Len(buffer[k]) = 0
    OBVIOUS
  <2> QED BY <1>2, <1>3, <2>1
<1> QED BY <1>1, <1>4, <1>5, <1>6, <1>7

(* A thread at work saves its entries, all when it has written them.       *)
LEMMA SavedWork ==
  ASSUME OneExit, RaceInv, Aligned, SavedInv, NEW t \in Threads, NEW k \in Slots \ {0},
         tls[t] = k, exitAt = Idle, exits = 0, exits' = 0, Base(t)' \in Int,
         ~Empty(t) => Base(t)' = Base(t),
         Empty(t) => Base(t)' = count[t] - Len(le[t]),
         Flush(t) \/ Open(t) \/ Write(t) \/ Empty(t) \/ Store(t)
  PROVE  Saved(t)'
<1>1. /\ Inv /\ TypeOK /\ Owned /\ Latest /\ Counted /\ KeptApart
      /\ UNCHANGED <<tls, exitAt, count>> /\ raced = {} /\ failed = {}
  <2>1. Inv /\ Owned /\ Counted /\ Latest /\ KeptApart
    BY DEF RaceInv, StampInv
  <2> QED BY <2>1, WorkFrame DEF Inv, SavedInv
<1>2. /\ Base(t) \in Int /\ Base(t) + Len(buffer[k]) = count[t] - Len(le[t])
      /\ Run(Base(t), buffer[k])
      /\ \A e \in Elems(buffer[k]) : e.seq # Torn /\ e.thread = t
      /\ buffer[k] \in Seq(Entry) /\ file[k] \in Seq(Entry)
  BY <1>1, BufferOf
<1>3. ~ExitIn(k, {"close", "null"}) /\ ~ExitIn(k, {"close", "null"})' /\ ~(exits > 0)
  BY <1>1, IdleLooks DEF ExitIn
<1>4. IF at[t] = "reset"
      THEN Holds(t, file[k], count[t] - Len(le[t])) /\ out[k] = "open"
      ELSE Holds(t, file[k], Base(t)) /\ (out[k] = "null" => file[k] = <<>>)
  BY <1>3 DEF SavedInv, Saved
<1>5. SUFFICES IF at'[t] = "reset"
               THEN Holds(t, file'[k], count[t] - Len(le'[t])) /\ out'[k] = "open"
               ELSE Holds(t, file'[k], Base(t)') /\ (out'[k] = "null" => file'[k] = <<>>)
  BY <1>1, <1>3 DEF Saved
<1>6. CASE Flush(t)
  <2>1. /\ UNCHANGED <<file, out>> /\ at[t] = "flush" /\ at'[t] # "reset" /\ ~Empty(t)
    <3>1. UNCHANGED <<file, out>> /\ at[t] = "flush"
          /\ Go(t, "flush", IF out[tls[t]] = "null" THEN "open" ELSE "write")
      BY <1>6 DEF Flush, slots, Go
    <3> DEFINE to == IF out[tls[t]] = "null" THEN "open" ELSE "write"
    <3>2. to \in {"outside", "filled", "store"} \cup Flushing
      BY DEF Flushing
    <3>3. at'[t] = to
      BY <1>1, <3>1, <3>2, GoTypes
    <3> QED BY <3>1, <3>3 DEF Empty, Go
  <2> QED BY <1>4, <2>1
<1>7. CASE Open(t)
  <2>1. /\ at[t] = "open" /\ at'[t] = "write" /\ ~Empty(t)
        /\ out'[k] = "open" /\ file'[k] = <<>>
    <3>1. Go(t, "open", "write") /\ out' = [out EXCEPT ![k] = "open"]
          /\ file' = [file EXCEPT ![k] = <<>>]
      BY <1>7 DEF Open, Opened, OneExit
    <3>2. at[t] = "open" /\ at'[t] = "write"
      BY <1>1, <3>1, GoTypes DEF Flushing
    <3> QED BY <1>1, <3>1, <3>2 DEF TypeOK, Empty, Go
  <2>2. out[k] = "null"
    BY <1>1, <2>1 DEF KeptApart, Apart, ThreadIn
  <2> QED BY <1>4, <2>1, <2>2
<1>8. CASE Write(t)
  <2>1. at[t] = "write" /\ at'[t] = "reset" /\ le' = le /\ UNCHANGED out
    BY <1>1, <1>8, GoTypes DEF Write, Flushing, Go
  <2>2. out[k] = "open"
    BY <1>1, <2>1 DEF KeptApart, Apart, ThreadIn
  <2>3. file' = [file EXCEPT ![k] = file[k] \o buffer[k]]
    BY <1>8, <2>2 DEF Write
  <2>4. file'[k] = file[k] \o buffer[k]
    BY <1>1, <2>3 DEF TypeOK
  <2>5. Holds(t, file'[k], Base(t) + Len(buffer[k]))
    BY <1>2, <1>4, <2>1, <2>4, HoldsMore
  <2> QED BY <1>2, <2>1, <2>2, <2>5
<1>9. CASE Empty(t)
  <2>1. at[t] = "reset" /\ at'[t] = "store" /\ UNCHANGED <<file, out>>
    BY <1>1, <1>9, GoTypes DEF Empty, Go
  <2> QED BY <1>4, <1>9, <2>1
<1>10. CASE Store(t)
  <2>1. at[t] = "store" /\ at'[t] = "outside" /\ UNCHANGED <<file, out>> /\ ~Empty(t)
    <3>1. at[t] = "store" /\ at'[t] = "outside" /\ UNCHANGED <<file, out>>
      BY <1>1, <1>10, GoTypes DEF Store, Go
    <3> QED BY <3>1 DEF Empty, Go
  <2> QED BY <1>4, <2>1
<1> QED BY <1>6, <1>7, <1>8, <1>9, <1>10

(* logExit passes no slot of which it has not saved all entries.           *)
LEMMA SavedExit ==
  ASSUME OneExit, RaceInv, Aligned, Backed, SavedInv, NEW t \in Threads,
         NEW k \in Slots \ {0}, tls[t] = k, exitAt.slot = k, exits = 1,
         \A u \in Threads : at[u] = "outside", ExitStep
  PROVE  Saved(t)'
<1>1. /\ Inv /\ TypeOK /\ Owned /\ Latest /\ KeptApart /\ k \in Nat /\ k + 1 > k /\ ~(k > k)
      /\ UNCHANGED <<tls, le, at, count, buffer, exits>> /\ raced = {} /\ failed = {}
  <2>1. Inv /\ Owned /\ Latest /\ KeptApart
    BY DEF RaceInv, StampInv
  <2>2. UNCHANGED <<tls, le, at, count, buffer, exits>>
    BY <2>1, ExitFrame
  <2> QED BY <2>1, <2>2 DEF Inv, SavedInv, Slots
<1>2. /\ Base(t) \in Int /\ Base(t) + Len(buffer[k]) = count[t] - Len(le[t])
      /\ Run(Base(t), buffer[k])
      /\ \A e \in Elems(buffer[k]) : e.seq # Torn /\ e.thread = t
      /\ buffer[k] \in Seq(Entry) /\ file[k] \in Seq(Entry)
      /\ (buffer[k] = <<>> => Base(t) = count[t] - Len(le[t]))
  BY <1>1, BufferOf
<1>3. Base(t)' = Base(t) /\ at[t] = "outside" /\ at'[t] = "outside"
  BY <1>1 DEF Base
<1>4. IF ExitIn(k, {"close", "null"})
      THEN Holds(t, file[k], count[t] - Len(le[t]))
      ELSE Holds(t, file[k], Base(t)) /\ (out[k] = "null" => file[k] = <<>>)
  BY <1>1, <1>3 DEF SavedInv, Saved
<1>5. SUFFICES IF exitAt'.slot > k \/ ExitIn(k, {"close", "null"})'
               THEN Holds(t, file'[k], count[t] - Len(le[t]))
               ELSE Holds(t, file'[k], Base(t)) /\ (out'[k] = "null" => file'[k] = <<>>)
  BY <1>1, <1>3 DEF Saved
<1>6. CASE ExitLook
  <2>1. exitAt.step = "look" /\ UNCHANGED <<out, file>>
    BY <1>6 DEF ExitLook, Exiting, slots
  <2>2. Holds(t, file[k], Base(t)) /\ (out[k] = "null" => file[k] = <<>>)
    BY <1>4, <2>1 DEF ExitIn
  <2>3. CASE Pending(k)
    <3>1. exitAt'.slot = k /\ exitAt'.step = "check"
      BY <1>1, <1>6, <2>3 DEF ExitLook, ExitGo, TypeOK
    <3> QED BY <1>1, <2>1, <2>2, <3>1 DEF ExitIn
  <2>4. CASE ~Pending(k)
    <3>1. exitAt'.slot = k + 1
      BY <1>1, <1>6, <2>4 DEF ExitLook, ExitNext
    <3>2. buffer[k] = <<>>
      BY <2>4 DEF Pending, Backed
    <3> QED BY <1>1, <1>2, <2>1, <2>2, <3>1, <3>2
  <2> QED BY <2>3, <2>4
<1>7. CASE ExitCheck
  <2>1. /\ exitAt.step = "check" /\ UNCHANGED <<out, file>> /\ exitAt'.slot = k
        /\ exitAt'.step \in {"open", "write"}
    BY <1>1, <1>7 DEF ExitCheck, Exiting, ExitGo, TypeOK, slots
  <2> QED BY <1>1, <1>4, <2>1 DEF ExitIn
<1>8. CASE ExitOpen
  <2>1. /\ exitAt.step = "open" /\ exitAt'.slot = k /\ exitAt'.step = "write"
        /\ out'[k] = "open" /\ file'[k] = <<>>
    BY <1>1, <1>8 DEF ExitOpen, Exiting, ExitGo, Opened, OneExit, TypeOK
  <2>2. out[k] = "null"
    BY <1>1, <2>1 DEF KeptApart, Apart, ExitIn
  <2> QED BY <1>1, <1>4, <2>1, <2>2 DEF ExitIn
<1>9. CASE ExitWrite
  <2>1. exitAt.step = "write" /\ exitAt'.slot = k /\ exitAt'.step = "close"
    BY <1>1, <1>9 DEF ExitWrite, Exiting, ExitGo, TypeOK
  <2>2. out[k] = "open"
    BY <1>1, <2>1 DEF KeptApart, Apart, ExitIn
  <2>3. PICK r \in Written(k) : file' = [file EXCEPT ![k] = file[k] \o r]
    BY <1>9, <2>2 DEF ExitWrite
  <2>4. r = buffer[k]
    BY <1>1, WrittenElems
  <2>5. file'[k] = file[k] \o buffer[k]
    BY <1>1, <2>3, <2>4 DEF TypeOK
  <2>6. Holds(t, file[k], Base(t))
    BY <1>4, <2>1 DEF ExitIn
  <2>7. Holds(t, file'[k], Base(t) + Len(buffer[k]))
    BY <1>2, <2>5, <2>6, HoldsMore
  <2> QED BY <1>2, <2>1, <2>7 DEF ExitIn
<1>10. CASE ExitClose
  <2>1. /\ UNCHANGED file /\ exitAt.step = "close" /\ exitAt'.slot = k
        /\ exitAt'.step = "null"
    BY <1>1, <1>10 DEF ExitClose, Exiting, ExitGo, TypeOK
  <2> QED BY <1>4, <2>1 DEF ExitIn
<1>11. CASE ExitNull
  <2>1. UNCHANGED file /\ exitAt.step = "null" /\ exitAt'.slot = k + 1
    BY <1>1, <1>11 DEF ExitNull, Exiting, ExitNext
  <2> QED BY <1>1, <1>4, <2>1 DEF ExitIn
<1> QED BY <1>6, <1>7, <1>8, <1>9, <1>10, <1>11 DEF ExitStep

(* What is saved stays so while others work, and a new slot is empty.      *)
LEMMA SavedElsewhere ==
  ASSUME OneExit, RaceInv, Aligned, SavedInv, [Next]_vars, NEW t \in Threads,
         NEW k \in Slots \ {0}, tls'[t] = k,
         ~(ExitStep /\ exitAt.slot = k),
         \A u \in Threads : tls[u] = k =>
           ~(Flush(u) \/ Open(u) \/ Write(u) \/ Empty(u) \/ Store(u))
  PROVE  Saved(t)'
<1>1. /\ Inv /\ TypeOK /\ Owned /\ Latest /\ Counted /\ k \in Nat /\ failed = {}
      /\ raced' = {} /\ failed' = {} /\ exits \in Nat
      /\ \A u \in Threads : ThreadStep(u) => exits = 0 /\ exitAt = Idle /\ exits' = 0
      /\ exitAt = Idle => exitAt.slot # k /\ exitAt.step = "look"
  <2>1. Inv /\ Owned /\ Counted /\ Latest
    BY DEF RaceInv, StampInv
  <2>2. TypeOK
    BY <2>1 DEF Inv
  <2> QED BY <2>1, <2>2, NothingRaces, IdleLooks DEF TypeOK, SavedInv, Slots
<1>2. CASE /\ \A u \in Threads : tls[u] # k
           /\ Base(t)' = 0 /\ buffer'[k] = <<>> /\ file'[k] = <<>>
           /\ exitAt' = exitAt /\ (Fill(t) \/ Enter(t))
  <2>1. at'[t] # "reset"
    BY <1>1, <1>2, DrawFrame
  <2>2. exits' = 0 /\ exitAt' = Idle /\ exitAt'.slot # k
    BY <1>1, <1>2 DEF ThreadStep
  <2>3. Holds(t, <<>>, 0)
    BY DEF Holds
  <2> QED BY <1>2, <2>1, <2>2, <2>3 DEF Saved, ExitIn
<1>3. CASE tls[t] = k /\ Base(t)' = Base(t) /\ buffer'[k] = buffer[k]
  <2>1. /\ out'[k] = out[k] /\ file'[k] = file[k]
        /\ ThreadIn(k, {"reset"})' <=> ThreadIn(k, {"reset"})
        /\ \/ exitAt' = exitAt
           \/ LogExit /\ exitAt.slot # k /\ exitAt' = [slot |-> 0, step |-> "look"]
           \/ /\ ExitStep /\ exitAt.slot \in Slots \ {k}
              /\ \/ exitAt'.slot = exitAt.slot
                 \/ exitAt'.slot = exitAt.slot + 1 /\ exitAt'.step = "look"
    BY <1>1, Elsewhere DEF Using
  <2>2. at'[t] = "reset" <=> at[t] = "reset"
    <3>1. \A u \in Threads : tls[u] = k => u = t
      BY <1>1, <1>3 DEF Inv, SlotPrivate
    <3>2. SlotPrivate'
      BY <1>1, InvStep DEF Inv
    <3>3. \A u \in Threads : tls'[u] = k => u = t
      BY <3>2 DEF SlotPrivate, Slots
    <3>4. ThreadIn(k, {"reset"}) <=> at[t] = "reset"
      BY <1>3, <3>1 DEF ThreadIn
    <3>5. ThreadIn(k, {"reset"})' <=> at'[t] = "reset"
      BY <3>3 DEF ThreadIn
    <3> QED BY <2>1, <3>4, <3>5
  <2>3. count'[t] - Len(le'[t]) = count[t] - Len(le[t])
    <3>1. /\ count[t] \in Nat /\ Len(le[t]) \in Nat /\ Len(buffer[k]) \in Nat
      BY <1>1, <1>3, NumberTypes
    <3>2. Inv'
      BY <1>1, InvStep
    <3>3. le'[t] \in Seq(Entry) /\ count'[t] \in Nat
      BY <3>2 DEF Inv, TypeOK
    <3>4. Len(le'[t]) \in Nat
      BY <3>3
    <3>5. Base(t)' = count'[t] - Len(le'[t]) - Len(buffer[k])
      BY <1>3 DEF Base
    <3>6. Base(t) = count[t] - Len(le[t]) - Len(buffer[k])
      BY <1>3 DEF Base
    <3>7. count'[t] - Len(le'[t]) - Len(buffer[k]) = count[t] - Len(le[t]) - Len(buffer[k])
      BY <1>3, <3>5, <3>6
    <3>8. count'[t] \in Nat
      BY <3>3
    <3> DEFINE a == count'[t]
               b == Len(le'[t])
               c == count[t]
               d == Len(le[t])
               e == Len(buffer[k])
    <3>9. a \in Nat /\ b \in Nat /\ c \in Nat /\ d \in Nat /\ e \in Nat
      BY <3>1, <3>4, <3>8
    <3>10. a - b - e = c - d - e
      BY <3>7
    <3> HIDE DEF a, b, c, d, e
    <3>11. a - b = c - d
      BY <3>9, <3>10
    <3> QED BY <3>11 DEF a, b, c, d
  <2>4. /\ (exits' > 0 /\ exitAt'.slot > k) <=> (exits > 0 /\ exitAt.slot > k)
        /\ ExitIn(k, {"close", "null"})' <=> ExitIn(k, {"close", "null"})
    <3>1. CASE LogExit
      <4>1. exits = 0 \/ exits = 1
        BY <1>1 DEF SavedInv
      <4>2. exits < MaxExits /\ MaxExits <= 1 /\ MaxExits \in Nat /\ exitAt = Idle
        BY <3>1, BinaryTraceAssumption DEF LogExit, OneExit
      <4>3. exits = 0
        BY <4>1, <4>2
      <4>4. exitAt'.slot = 0 /\ exitAt'.step = "look"
        BY <3>1 DEF LogExit
      <4> QED BY <1>1, <4>2, <4>3, <4>4 DEF ExitIn
    <3>2. CASE /\ ExitStep /\ exitAt.slot \in Slots \ {k}
               /\ \/ exitAt'.slot = exitAt.slot
                  \/ exitAt'.slot = exitAt.slot + 1 /\ exitAt'.step = "look"
      <4>1. UNCHANGED exits
        BY <1>1, <3>2, ExitFrame
      <4>2. exitAt.slot \in Nat /\ exitAt.slot # k
        BY <3>2 DEF Slots
      <4>3. exitAt'.slot > k <=> exitAt.slot > k
        BY <1>1, <3>2, <4>2
      <4> QED BY <3>2, <4>1, <4>2, <4>3 DEF ExitIn
    <3>3. CASE exitAt' = exitAt
      <4>1. ExitIn(k, {"close", "null"})' <=> ExitIn(k, {"close", "null"})
        BY <3>3 DEF ExitIn
      <4>2. CASE \E u \in Threads : ThreadStep(u)
        BY <1>1, <4>1, <4>2
      <4>3. CASE ExitStep \/ UNCHANGED vars
        <5>1. UNCHANGED exits
          BY <1>1, <4>3, ExitFrame DEF vars
        <5> QED BY <3>3, <4>1, <5>1
      <4> QED BY <3>1, <4>2, <4>3 DEF Next, Terminated
    <3> QED BY <2>1, <3>1, <3>2, <3>3
  <2>5. Saved(t)
    BY <1>3 DEF SavedInv
  <2> QED BY <1>3, <2>1, <2>2, <2>3, <2>4, <2>5 DEF Saved
<1>4. ~(tls[t] = k /\ (Empty(t) \/ Store(t)))
  OBVIOUS
<1> QED BY <1>1, <1>2, <1>3, <1>4, BaseStep

(* Under OneExit every step keeps the files and buffers together whole.    *)
LEMMA SavedStep ==
  ASSUME OneExit
  PROVE  RaceInv /\ Aligned /\ Backed /\ SavedInv /\ [Next]_vars => SavedInv'
<1> SUFFICES ASSUME RaceInv, Aligned, Backed, SavedInv, [Next]_vars PROVE SavedInv'
  OBVIOUS
<1>1. Inv /\ Latest /\ Owned /\ Counted
  BY DEF RaceInv, StampInv
<1>2. /\ raced' = {} /\ failed' = {}
      /\ exits' <= 1 /\ (exits' = 0 => exitAt' = Idle)
      /\ exits' > 0 => \A t \in Threads : at'[t] = "outside"
      /\ \A t \in Threads : ThreadStep(t) => exits = 0 /\ exitAt = Idle /\ exits' = 0
      /\ ExitStep => exits = 1 /\ \A t \in Threads : at[t] = "outside"
  BY <1>1, NothingRaces
<1>3. ASSUME NEW t \in Threads, NEW k \in Slots \ {0}, tls'[t] = k
      PROVE  Saved(t)'
  <2>1. ASSUME NEW u \in Threads, tls[u] = k,
               Flush(u) \/ Open(u) \/ Write(u) \/ Empty(u) \/ Store(u)
        PROVE  Saved(t)'
    <3>1. u = t
      <4>1. tls'[u] = k
        BY <1>1, <2>1, WorkFrame
      <4>2. SlotPrivate'
        BY <1>1, InvStep DEF Inv
      <4> QED BY <1>3, <4>1, <4>2 DEF SlotPrivate, Slots
    <3>2. exits = 0 /\ exitAt = Idle /\ exits' = 0
      BY <1>2, <2>1 DEF ThreadStep
    <3>3. /\ Base(t)' \in Int
          /\ \/ Base(t)' = Base(t)
             \/ Empty(t) /\ Base(t)' = count[t] - Len(le[t])
          /\ Empty(t) => Base(t)' = count[t] - Len(le[t])
      <4>1. /\ Base(t)' \in Int
            /\ \/ \A v \in Threads : tls[v] # k
               \/ tls[t] = k /\ Base(t)' = Base(t) /\ buffer'[k] = buffer[k]
               \/ Empty(t) /\ Base(t)' = count[t] - Len(le[t])
               \/ Store(t) /\ Base(t)' = Base(t)
        BY <1>1, <1>2, <1>3, BaseStep
      <4>2. Empty(t) => ~Store(t)
        BY DEF Empty, Store, Go
      <4>3. ASSUME Empty(t), buffer'[k] = buffer[k] PROVE FALSE
        <5>1. buffer' = [buffer EXCEPT ![k] = <<>>]
          BY <2>1, <3>1, <4>3 DEF Empty
        <5>2. buffer'[k] = <<>>
          BY <1>1, <5>1 DEF Inv, TypeOK
        <5>3. Len(buffer[k]) = BufferSize
          BY <1>1, <2>1, <3>1, <4>3 DEF Empty, Go, Counted, Flushing
        <5>4. Len(<<>>) = 0
          OBVIOUS
        <5> QED BY <4>3, <5>2, <5>3, <5>4, BinaryTraceAssumption
      <4> QED BY <2>1, <4>1, <4>2, <4>3
    <3> QED BY <2>1, <3>1, <3>2, <3>3, SavedWork
  <2>2. CASE ExitStep /\ exitAt.slot = k
    <3>1. tls[t] = k
      BY <1>1, <1>3, <2>2, ExitFrame
    <3> QED BY <1>2, <2>2, <3>1, SavedExit
  <2> QED BY <1>3, <2>1, <2>2, SavedElsewhere
<1> QED BY <1>2, <1>3 DEF SavedInv, Slots

(* A program that ends its threads, calls logExit once and has memory and  *)
(* files loses nothing, whatever the number of threads and the size of the *)
(* buffers: before that call the file and the buffer of a thread, and when *)
(* it has returned the file, are the thread's log calls, each once.        *)
THEOREM OneExitLosesNothing ==
  ASSUME OneExit
  PROVE  Spec => []NothingLost
<1>1. RaceInv /\ Aligned /\ SavedInv => NothingLost
  <2> SUFFICES ASSUME RaceInv, Aligned, SavedInv, exits = 0 \/ Over,
                      NEW t \in Threads, NEW k \in Slots \ {0}, tls[t] = k
               PROVE  Holds(t, Trace(k), count[t] - Len(le[t]))
    BY DEF NothingLost, Holds
  <2>1. Inv /\ Owned /\ Latest /\ failed = {}
    BY DEF RaceInv, StampInv, SavedInv
  <2>2. /\ Base(t) \in Int /\ Base(t) + Len(buffer[k]) = count[t] - Len(le[t])
        /\ Run(Base(t), buffer[k])
        /\ \A e \in Elems(buffer[k]) : e.seq # Torn /\ e.thread = t
        /\ buffer[k] \in Seq(Entry) /\ file[k] \in Seq(Entry)
    BY <2>1, BufferOf
  <2>3. exitAt = Idle /\ ~ExitIn(k, {"close", "null"}) /\ exitAt.slot > k
    <3>1. exitAt = Idle
      BY DEF SavedInv, Over
    <3> QED BY <3>1, BinaryTraceAssumption DEF ExitIn, Idle, Slots
  <2>4. exits \in Nat
    BY <2>1 DEF Inv, TypeOK
  <2>5. \A u \in Threads : tls[u] = k => u = t
    BY <2>1 DEF Inv, SlotPrivate
  <2>6. CASE exits = 0 /\ at[t] = "reset"
    <3>1. Holds(t, file[k], count[t] - Len(le[t]))
      BY <2>6 DEF SavedInv, Saved
    <3>2. Trace(k) = file[k] \o <<>>
      BY <2>6 DEF Trace
    <3>3. file[k] \o <<>> = file[k]
      BY <2>2
    <3> QED BY <3>1, <3>2, <3>3
  <2>7. CASE exits = 0 /\ at[t] # "reset"
    <3>1. Holds(t, file[k], Base(t))
      BY <2>3, <2>7 DEF SavedInv, Saved
    <3>2. Trace(k) = file[k] \o buffer[k]
      BY <2>5, <2>7 DEF Trace
    <3> QED BY <2>2, <3>1, <3>2, HoldsMore
  <2>8. CASE exits # 0
    <3>1. Holds(t, file[k], count[t] - Len(le[t]))
      BY <2>3, <2>4, <2>8 DEF SavedInv, Saved
    <3>2. Trace(k) = file[k]
      BY <2>8 DEF Trace
    <3> QED BY <3>1, <3>2
  <2> QED BY <2>6, <2>7, <2>8
<1>2. Init => Aligned /\ SavedInv /\ Backed
  BY DEF Init, Aligned, SavedInv, Backed, Flushing
<1>3. RaceInv /\ Aligned /\ Backed /\ SavedInv /\ [Next]_vars
        => Aligned' /\ Backed' /\ SavedInv'
  BY AlignedStep, BackedStep, SavedStep DEF RaceInv, StampInv
<1> QED BY <1>1, <1>2, <1>3, RaceInit, RaceStep, PTL DEF Spec
=============================================================================
