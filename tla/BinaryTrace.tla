----------------------------- MODULE BinaryTrace -----------------------------
(***************************************************************************)
(* library/binaryinstrumentation.c: the run-time library that instrumented *)
(* programs are linked with.  A thread gets a trace id when it first logs; *)
(* the id names a slot: a buffer of log entries and an output file, which  *)
(* the thread uses without a lock.  A full buffer is written to the file   *)
(* before the next entry is stored; logExit goes through all slots, writes *)
(* what is left in their buffers and closes their files.                   *)
(*                                                                         *)
(* A step of a thread reads or writes the slot once where logExit may come *)
(* in between: the test of out[tid], fopen, fwrite, current[tid] = 0 and   *)
(* the store of the entry are separate steps, and so are those of logExit. *)
(* logExit runs in a thread that is not one of Threads, or while no thread *)
(* is inside the library.  fwrite to a FILE that is closed or NULL is the  *)
(* end of the program (crashed), whatever it does.                         *)
(***************************************************************************)
EXTENDS Integers, Sequences, FiniteSets

CONSTANTS
  Threads,       (* threads of the instrumented program                    *)
  MaxThreads,    (* MAX_THREADS                                            *)
  BufferSize,    (* BUFFER_SIZE                                            *)
  Excluded,      (* the ids listed in DINAMITE_EXCLUDE_TID                 *)
  MaxEvents,     (* bound: log calls of each thread                        *)
  MaxExits,      (* calls of logExit, the last of them at the end of main  *)
  ExitRaces,     (* threads go on logging during and after logExit         *)
  MallocMayFail,
  OpenMayFail    (* fopen of a trace file may fail                         *)

ASSUME BinaryTraceAssumption ==
  /\ MaxThreads \in Nat \ {0}
  /\ BufferSize \in Nat \ {0}
  /\ Excluded \subseteq Nat
  /\ MaxEvents \in [Threads -> Nat]
  /\ MaxExits \in Nat
  /\ ExitRaces \in BOOLEAN
  /\ MallocMayFail \in BOOLEAN
  /\ OpenMayFail \in BOOLEAN

VARIABLES
  next_id,   (* the next trace id                                          *)
  tls,       (* the thread's tls_key value; 0 when it was never set        *)
  le,        (* the entry a log function has filled and not yet stored, as *)
             (* a sequence of at most one                                  *)
  at,        (* where the thread is in the library                         *)
  count,     (* log calls the thread has made                              *)
  allocated, (* entries[tid] # NULL                                        *)
  buffer,    (* entries[tid][0 .. current[tid]-1]                          *)
  out,       (* out[tid]: "null", "open", or "closed" and not yet NULL     *)
  file,      (* what has been written to trace.bin.<tid>                   *)
  exits,     (* calls of logExit so far                                    *)
  exitAt,    (* the slot logExit is at and where it is there               *)
  crashed,   (* the program has used a FILE it must not use                *)
  due,       (* history: the buffers as the latest logExit found them      *)
  raced,     (* history: slots flushed by their thread while logExit was   *)
             (* there                                                      *)
  failed     (* history: slots for which malloc or fopen has failed        *)

slots == <<allocated, buffer, out, file>>

vars == <<next_id, tls, le, at, count, slots, exits, exitAt, crashed, due,
          raced, failed>>

Slots == 0 .. MaxThreads - 1

(* The seq of an entry that logExit wrote while it was being stored.       *)
Torn == -1

(* An entry: who logged it as which of its log calls, and its thread_id.   *)
Entry == [thread : Threads, seq : Nat \cup {Torn}, thread_id : Nat]

Flushing == {"flush", "open", "write", "reset"}

Idle == [slot |-> MaxThreads, step |-> "look"]

(* The types of all variables.                                             *)
TypeOK ==
  /\ next_id \in Nat
  /\ tls \in [Threads -> Nat]
  /\ le \in [Threads -> Seq(Entry)] /\ \A t \in Threads : Len(le[t]) <= 1
  /\ at \in [Threads -> {"outside", "filled", "store"} \cup Flushing]
  /\ count \in [Threads -> Nat]
  /\ allocated \in [Slots -> BOOLEAN]
  /\ buffer \in [Slots -> Seq(Entry)]
  /\ \A k \in Slots : Len(buffer[k]) <= BufferSize
  /\ out \in [Slots -> {"null", "open", "closed"}]
  /\ file \in [Slots -> Seq(Entry)]
  /\ exits \in Nat
  /\ exitAt \in [slot : 0 .. MaxThreads,
                 step : {"look", "check", "open", "write", "close", "null"}]
  /\ crashed \in BOOLEAN
  /\ due \in [Slots -> Seq(Entry)]
  /\ raced \subseteq Slots /\ failed \subseteq Slots

Init ==
  /\ next_id = 0
  /\ tls = [t \in Threads |-> 0]
  /\ le = [t \in Threads |-> <<>>]
  /\ at = [t \in Threads |-> "outside"]
  /\ count = [t \in Threads |-> 0]
  /\ allocated = [k \in Slots |-> FALSE]
  /\ buffer = [k \in Slots |-> <<>>]
  /\ out = [k \in Slots |-> "null"]
  /\ file = [k \in Slots |-> <<>>]
  /\ exits = 0
  /\ exitAt = Idle
  /\ crashed = FALSE
  /\ due = [k \in Slots |-> <<>>]
  /\ raced = {} /\ failed = {}

-----------------------------------------------------------------------------
(* Trace ids.                                                              *)

(* The id a thread keeps when it has drawn n: one that has no slot if n is *)
(* excluded.  The mutant ignores the list.                                 *)
CheckedNot(n) == n

Checked(n) == IF n \in Excluded THEN MaxThreads ELSE n

(* What __dinamite_gettid may return.  A thread whose tls value is 0 draws *)
(* an id, and the thread that draws 0 draws again next time.  Without      *)
(* memory for the exclusion list nothing is excluded.  The mutant looks at *)
(* the tls value of no thread.                                             *)
TidsForgotten(t) == {Checked(next_id)}

Tids(t) ==
  IF tls[t] # 0 THEN {tls[t]}
  ELSE {Checked(next_id)} \cup (IF MallocMayFail THEN {next_id} ELSE {})

(* What next_id may be after a draw, under id_mtx, and without the mutex.  *)
DrawnUnlocked == {next_id, next_id + 1}

Drawn == {next_id + 1}

(* The effect of __dinamite_gettid when it returns id.                     *)
Gettid(t, id) ==
  /\ id \in Tids(t)
  /\ next_id' \in IF tls[t] = 0 THEN Drawn ELSE {next_id}
  /\ tls' = [tls EXCEPT ![t] = id]

-----------------------------------------------------------------------------
(* What the steps do to a slot.                                            *)

(* fopen(.., "wb") empties the file; the mutant opens it to append.        *)
OpenedAppending(k) == file[k]

Opened(k) == <<>>

(* current[tid] >= BUFFER_SIZE; the mutant is off by one.                  *)
FullLate(k) == Len(buffer[k]) > BufferSize

Full(k) == Len(buffer[k]) >= BufferSize

(* What is left in a buffer when logExit has written it: current[tid] is as*)
(* it was; the mutant sets it to 0.                                        *)
LeftNothing(k) == <<>>

Left(k) == buffer[k]

(* out[tid] when logExit has closed it; the mutant forgets to reset it.    *)
ResetNot == "closed"

Reset == "null"

(* Whether slot k has something for logExit to write; the mutant also asks *)
(* for an open file.                                                       *)
PendingOpen(k) == allocated[k] /\ buffer[k] # <<>> /\ out[k] = "open"

Pending(k) == allocated[k] /\ buffer[k] # <<>>

(* What logExit's fwrite may write: the entries below current[tid]; and if *)
(* the thread is storing one, current[tid] may count it already.           *)
Written(k) ==
  {buffer[k]} \cup
  {Append(buffer[k], [le[t][1] EXCEPT !.seq = Torn]) :
     t \in {u \in Threads : at[u] = "store" /\ tls[u] = k}}

-----------------------------------------------------------------------------
(* The log functions, called by a thread.                                  *)

(* No thread is inside the library while logExit runs, nor after the last  *)
(* one, unless the program lets its threads run on.                        *)
Running ==
  /\ ~crashed
  /\ ExitRaces \/ (exitAt = Idle /\ exits < MaxExits)

Go(t, from, to) ==
  /\ Running /\ at[t] = from /\ at' = [at EXCEPT ![t] = to]

(* fillFnLog, fillAccessLog, fillAllocLog                                  *)
Fill(t) ==
  /\ Go(t, "outside", "filled")
  /\ count[t] < MaxEvents[t]
  /\ \E id \in Tids(t) :
       /\ Gettid(t, id)
       /\ le' = [le EXCEPT ![t] =
                   <<[thread |-> t, seq |-> count[t], thread_id |-> id]>>]
  /\ count' = [count EXCEPT ![t] = @ + 1]
  /\ UNCHANGED <<slots, exits, exitAt, crashed, due, raced, failed>>

(* insertOrWrite(le): the thread has no slot, or there is no memory for its*)
(* buffer, and the entry is discarded.                                     *)
Discard(t) ==
  /\ Go(t, "filled", "outside")
  /\ \E id \in Tids(t) :
       /\ Gettid(t, id)
       /\ id \in Slots => MallocMayFail /\ ~allocated[id]
       /\ failed' = failed \cup ({id} \cap Slots)
  /\ le' = [le EXCEPT ![t] = <<>>]
  /\ UNCHANGED <<count, slots, exits, exitAt, crashed, due, raced>>

(* insertOrWrite(le): the buffer is there, or allocated, and full or not.  *)
Enter(t) ==
  /\ \E id \in Tids(t) \cap Slots :
       /\ Gettid(t, id)
       /\ Go(t, "filled", IF Full(id) THEN "flush" ELSE "store")
       /\ allocated' = [allocated EXCEPT ![id] = TRUE]
  /\ UNCHANGED <<le, count, buffer, out, file, exits, exitAt, crashed, due,
                 raced, failed>>

(* From here on the thread works on slot tls[t].  The slots it shares with *)
(* logExit while it flushes:                                               *)
Races(t) == IF exitAt.slot = tls[t] /\ exitAt.step # "look" THEN {tls[t]} ELSE {}

Flush(t) ==
  /\ Go(t, "flush", IF out[tls[t]] = "null" THEN "open" ELSE "write")
  /\ raced' = raced \cup Races(t)
  /\ UNCHANGED <<next_id, tls, le, count, slots, exits, exitAt, crashed, due,
                 failed>>

Open(t) ==
  /\ \/ /\ Go(t, "open", "write")
        /\ out' = [out EXCEPT ![tls[t]] = "open"]
        /\ file' = [file EXCEPT ![tls[t]] = Opened(tls[t])]
        /\ UNCHANGED failed
     \/ /\ Go(t, "open", "reset") /\ OpenMayFail
        /\ out' = [out EXCEPT ![tls[t]] = "null"]
        /\ failed' = failed \cup {tls[t]}
        /\ UNCHANGED file
  /\ raced' = raced \cup Races(t)
  /\ UNCHANGED <<next_id, tls, le, count, allocated, buffer, exits, exitAt,
                 crashed, due>>

Write(t) ==
  /\ Go(t, "write", "reset")
  /\ \/ /\ out[tls[t]] = "open"
        /\ file' = [file EXCEPT ![tls[t]] = @ \o buffer[tls[t]]]
        /\ UNCHANGED crashed
     \/ out[tls[t]] # "open" /\ crashed' = TRUE /\ UNCHANGED file
  /\ raced' = raced \cup Races(t)
  /\ UNCHANGED <<next_id, tls, le, count, allocated, buffer, out, exits, exitAt,
                 due, failed>>

Empty(t) ==
  /\ Go(t, "reset", "store")
  /\ buffer' = [buffer EXCEPT ![tls[t]] = <<>>]
  /\ raced' = raced \cup Races(t)
  /\ UNCHANGED <<next_id, tls, le, count, allocated, out, file, exits, exitAt,
                 crashed, due, failed>>

Store(t) ==
  /\ Go(t, "store", "outside")
  /\ buffer' = [buffer EXCEPT ![tls[t]] = Append(@, le[t][1])]
  /\ le' = [le EXCEPT ![t] = <<>>]
  /\ UNCHANGED <<next_id, tls, count, allocated, out, file, exits, exitAt,
                 crashed, due, raced, failed>>

-----------------------------------------------------------------------------
(* logExit                                                                 *)

Exiting(step) == ~crashed /\ exitAt # Idle /\ exitAt.step = step

ExitGo(step) == exitAt' = [exitAt EXCEPT !.step = step]

(* The next slot, if there is one.                                         *)
ExitNext == exitAt' = [slot |-> exitAt.slot + 1, step |-> "look"]

(* The threads that are flushing the slot logExit is at.                   *)
ExitRacing == {k \in {exitAt.slot} :
                 \E t \in Threads : tls[t] = k /\ at[t] \in Flushing}

LogExit ==
  /\ ~crashed /\ exitAt = Idle /\ exits < MaxExits
  /\ ~ExitRaces => \A t \in Threads : at[t] = "outside"
  /\ exits' = exits + 1
  /\ exitAt' = [slot |-> 0, step |-> "look"]
  /\ due' = buffer
  /\ UNCHANGED <<next_id, tls, le, at, count, slots, crashed, raced, failed>>

ExitLook ==
  /\ Exiting("look")
  /\ IF Pending(exitAt.slot)
     THEN ExitGo("check") /\ raced' = raced \cup ExitRacing
     ELSE ExitNext /\ UNCHANGED raced
  /\ UNCHANGED <<next_id, tls, le, at, count, slots, exits, crashed, due,
                 failed>>

ExitCheck ==
  /\ Exiting("check")
  /\ ExitGo(IF out[exitAt.slot] = "null" THEN "open" ELSE "write")
  /\ UNCHANGED <<next_id, tls, le, at, count, slots, exits, crashed, due, raced,
                 failed>>

ExitOpen ==
  /\ Exiting("open")
  /\ \/ /\ out' = [out EXCEPT ![exitAt.slot] = "open"]
        /\ file' = [file EXCEPT ![exitAt.slot] = Opened(exitAt.slot)]
        /\ ExitGo("write")
        /\ UNCHANGED failed
     \/ /\ OpenMayFail
        /\ out' = [out EXCEPT ![exitAt.slot] = "null"]
        /\ failed' = failed \cup {exitAt.slot}
        /\ ExitNext
        /\ UNCHANGED file
  /\ UNCHANGED <<next_id, tls, le, at, count, allocated, buffer, exits, crashed,
                 due, raced>>

ExitWrite ==
  /\ Exiting("write")
  /\ ExitGo("close")
  /\ LET k == exitAt.slot
     IN \/ /\ out[k] = "open"
           /\ \E entries \in Written(k) :
                file' = [file EXCEPT ![k] = @ \o entries]
           /\ buffer' = [buffer EXCEPT ![k] = Left(k)]
           /\ UNCHANGED crashed
        \/ out[k] # "open" /\ crashed' = TRUE /\ UNCHANGED <<file, buffer>>
  /\ UNCHANGED <<next_id, tls, le, at, count, allocated, out, exits, due, raced,
                 failed>>

(* fflush and fclose                                                       *)
ExitClose ==
  /\ Exiting("close")
  /\ ExitGo("null")
  /\ \/ /\ out[exitAt.slot] = "open"
        /\ out' = [out EXCEPT ![exitAt.slot] = "closed"]
        /\ UNCHANGED crashed
     \/ out[exitAt.slot] # "open" /\ crashed' = TRUE /\ UNCHANGED out
  /\ UNCHANGED <<next_id, tls, le, at, count, allocated, buffer, file, exits,
                 due, raced, failed>>

ExitNull ==
  /\ Exiting("null")
  /\ out' = [out EXCEPT ![exitAt.slot] = Reset]
  /\ ExitNext
  /\ UNCHANGED <<next_id, tls, le, at, count, allocated, buffer, file, exits,
                 crashed, due, raced, failed>>

(* logExit has been called for the last time, or the program has crashed.  *)
Over == exits = MaxExits /\ exitAt = Idle

Terminated == (Over \/ crashed) /\ UNCHANGED vars

ThreadStep(t) ==
  \/ Fill(t) \/ Discard(t) \/ Enter(t)
  \/ Flush(t) \/ Open(t) \/ Write(t) \/ Empty(t) \/ Store(t)

ExitStep ==
  ExitLook \/ ExitCheck \/ ExitOpen \/ ExitWrite \/ ExitClose \/ ExitNull

Next ==
  \/ \E t \in Threads : ThreadStep(t)
  \/ LogExit \/ ExitStep
  \/ Terminated

Spec == Init /\ [][Next]_vars

-----------------------------------------------------------------------------
(* Correctness.                                                            *)

(* Slots are private: no two threads ever share a buffer or a file, which  *)
(* is why insertOrWrite may use them without a lock.                       *)
SlotPrivate ==
  \A t, u \in Threads : t # u /\ tls[t] = tls[u] => tls[t] \notin Slots \ {0}

(* The complete entries of a sequence.                                     *)
Complete(entries) == {e \in {entries[i] : i \in DOMAIN entries} : e.seq # Torn}

(* The trace of slot k: on disk and in the buffer until logExit is called, *)
(* on disk only from then on.                                              *)
Trace(k) ==
  IF exits = 0
  THEN file[k] \o (IF \E t \in Threads : tls[t] = k /\ at[t] = "reset"
                   THEN <<>> ELSE buffer[k])
  ELSE file[k]

(* The thread_id in an entry is the number of the file it is in, but for   *)
(* at most one entry of the whole trace: the first entry of the thread that*)
(* drew id 0, which gettid does not remember.                              *)
StampsAgree ==
  \A k \in Slots : \A e \in Complete(Trace(k)) :
    \/ e.thread_id = k
    \/ /\ e.thread_id = 0 /\ e.seq = 0
       /\ \A l \in Slots : \A f \in Complete(Trace(l)) :
            f.thread_id = 0 => l = k /\ f = e

(* A discarded thread id has no entries in the trace, in any file.         *)
ExcludedDiscarded ==
  \A k \in Slots : \A e \in Complete(Trace(k)) :
    k \notin Excluded /\ e.thread_id \notin Excluded

(* The file of a slot holds the entries of one thread, each at most once   *)
(* and in the order of its log calls, whatever fails, however often logExit*)
(* is called and whoever logs meanwhile, unless a thread flushes its buffer*)
(* while logExit is at its slot.                                           *)
InOrder ==
  \A k \in Slots \ raced : \A i, j \in DOMAIN file[k] :
    i < j /\ Torn \notin {file[k][i].seq, file[k][j].seq} =>
      /\ file[k][i].thread = file[k][j].thread
      /\ file[k][i].seq < file[k][j].seq

(* A program that calls logExit once, and opens its files, loses nothing:  *)
(* the trace of a thread that has a slot is its log calls, each once and in*)
(* their order.                                                            *)
NothingLost ==
  exits = 0 \/ Over =>
    \A t \in Threads :
      tls[t] \in Slots \ {0} =>
        /\ Len(Trace(tls[t])) = count[t] - Len(le[t])
        /\ \A i \in DOMAIN Trace(tls[t]) :
             Trace(tls[t])[i].thread = t /\ Trace(tls[t])[i].seq = i - 1

(* What an earlier logExit (static initialisers call it) costs a thread is *)
(* whole buffers of entries: what is on disk has gaps of multiples of the  *)
(* buffer size only, unless malloc or fopen failed or logExit met a flush. *)
(* (An entry that logExit met half stored is the last of its file.)        *)
WholeBuffersLost ==
  \A k \in Slots \ (raced \cup failed) : \A i \in DOMAIN file[k] :
    LET before == IF i = 1 THEN -1 ELSE file[k][i - 1].seq
    IN IF file[k][i].seq = Torn THEN i = Len(file[k])
       ELSE (file[k][i].seq - before - 1) % BufferSize = 0

(* What logExit is for: when it returns the entries it found in the buffers*)
(* are on disk, even those of threads that go on logging, and they stay    *)
(* there until the thread opens its file again or logExit is called again; *)
(* unless a thread flushed its buffer while logExit was at its slot, or the*)
(* file could not be opened.                                               *)
ExitKeeps ==
  exitAt = Idle =>
    \A k \in Slots \ (raced \cup failed) :
      out[k] = "null" =>
        \A i \in DOMAIN due[k] : \E j \in DOMAIN file[k] : file[k][j] = due[k][i]

(* The program uses no FILE that is closed or NULL unless a thread has more*)
(* entries than a buffer holds and flushes while logExit is at its slot: a *)
(* program of short-lived threads may exit while they run.                 *)
CrashOnlyByFlush ==
  crashed => raced # {} /\ \E t \in Threads : count[t] > BufferSize

=============================================================================
