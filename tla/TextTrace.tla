------------------------------ MODULE TextTrace ------------------------------
(***************************************************************************)
(* library/textinstrumentation.c under a program that the pass has         *)
(* instrumented: one thread, its call stack, and the one FILE of the       *)
(* library.  Static initialisers (_GLOBAL_ functions) run first, then main,*)
(* then what was registered to run at exit.  main and initialisers log     *)
(* logInit and logExit where other functions log fb and fe, and a call of  *)
(* exit logs logExit if its caller logs function events.                   *)
(***************************************************************************)
EXTENDS Integers, Sequences

CONSTANTS
  Functions,        (* functions of the program                            *)
  Main, Initialiser,
  MaxDepth,         (* bound: frames on the stack                          *)
  MaxEvents,        (* bound: steps that may log                           *)
  MaxInits          (* initialisers                                        *)

ASSUME TextTraceAssumption ==
  /\ Main # Initialiser /\ {Main, Initialiser} \cap Functions = {}
  /\ MaxDepth \in Nat \ {0} /\ MaxEvents \in Nat /\ MaxInits \in Nat

VARIABLES
  outside,    (* functions run outside main and initialisers, too:         *)
              (* constructor functions, handlers at exit                   *)
  exceptions, (* frames may be left by an exception or longjmp             *)
  on,         (* functions whose function events the pass has inserted     *)
  accesses,   (* ... whose accesses or allocations it has instrumented     *)
  phase,      (* "initialisers", "main", "exit", "ended"; "crashed" when   *)
              (* an event met the null FILE                                *)
  inits,      (* initialisers that have run                                *)
  stack,
  out,        (* out # NULL                                                *)
  file,       (* access.trace                                              *)
  logged,     (* what has been logged since main, or the last initialiser  *)
              (* that is bracketed, began                                  *)
  steps       (* steps so far that may log                                 *)

(* What the program is, and how the pass has instrumented it.              *)
program == <<outside, exceptions, on, accesses>>

vars == <<program, phase, inits, stack, out, file, logged, steps>>

Frames == Functions \cup {Main, Initialiser}

Event == [op : {"fb", "fe", "access"}, function : Frames]

Phases == {"initialisers", "main", "exit", "ended", "crashed"}

(* The types of all variables.                                             *)
TypeOK ==
  /\ outside \in BOOLEAN /\ exceptions \in BOOLEAN
  /\ on \subseteq Frames /\ accesses \subseteq Frames
  /\ phase \in Phases
  /\ inits \in Nat
  /\ stack \in Seq(Frames)
  /\ out \in BOOLEAN
  /\ file \in Seq(Event) /\ logged \in Seq(Event)
  /\ steps \in Nat

(* The pass skips main as a whole or not at all.                           *)
Init ==
  /\ outside \in BOOLEAN /\ exceptions \in BOOLEAN
  /\ on \in SUBSET Frames /\ accesses \in SUBSET Frames
  /\ Main \in accesses => Main \in on
  /\ phase = "initialisers" /\ inits = 0
  /\ stack = <<>>
  /\ out = FALSE /\ file = <<>> /\ logged = <<>>
  /\ steps = 0

-----------------------------------------------------------------------------
(* The library; next is the phase of the program after the call.           *)

(* OPEN_LOG; the mutant opens the file to append.                          *)
LogInitAppend == out' = TRUE /\ UNCHANGED file

LogInit == out' = TRUE /\ file' = IF out THEN file ELSE <<>>

LogExit == out' = FALSE /\ UNCHANGED file

(* logFnBegin, logFnEnd, logAccess*: a line is written and flushed.        *)
Log(op, f, next) ==
  /\ UNCHANGED out
  /\ \/ /\ out
        /\ file' = Append(file, [op |-> op, function |-> f])
        /\ logged' = Append(logged, [op |-> op, function |-> f])
        /\ phase' = next
     \/ ~out /\ phase' = "crashed" /\ UNCHANGED <<file, logged>>

(* The begin event of f, and its end event, as instrumentFnEvent inserts   *)
(* them.  Mutants: an initialiser is like other functions; a function that *)
(* runs already is not logged again; no function has an end event.         *)
BeginInitialiser(f, next) ==
  \/ f \notin on /\ phase' = next /\ UNCHANGED <<out, file, logged>>
  \/ f \in on /\ f = Main /\ LogInit /\ phase' = next /\ logged' = <<>>
  \/ f \in on /\ f # Main /\ Log("fb", f, next)

BeginOnce(f, next) ==
  IF f \in on /\ f \in Functions /\ \A i \in DOMAIN stack : stack[i] # f
  THEN Log("fb", f, next)
  ELSE IF f \in on \ Functions
  THEN LogInit /\ phase' = next /\ logged' = <<>>
  ELSE phase' = next /\ UNCHANGED <<out, file, logged>>

EndBracketsOnly(f, next) ==
  /\ phase' = next /\ UNCHANGED logged
  /\ IF f \in on \ Functions THEN LogExit ELSE UNCHANGED <<out, file>>

Begin(f, next) ==
  \/ f \notin on /\ phase' = next /\ UNCHANGED <<out, file, logged>>
  \/ /\ f \in on /\ f \in {Main, Initialiser}
     /\ LogInit /\ phase' = next
     /\ logged' = <<>>
  \/ f \in on /\ f \in Functions /\ Log("fb", f, next)

End(f, next) ==
  \/ f \notin on /\ phase' = next /\ UNCHANGED <<out, file, logged>>
  \/ /\ f \in on /\ f \in {Main, Initialiser}
     /\ LogExit /\ phase' = next /\ UNCHANGED logged
  \/ f \in on /\ f \in Functions /\ Log("fe", f, next)

-----------------------------------------------------------------------------
(* The program.                                                            *)

Top == stack[Len(stack)]

Pop == SubSeq(stack, 1, Len(stack) - 1)

Running == stack # <<>> /\ phase \notin {"ended", "crashed"}

Counted ==
  steps < MaxEvents /\ steps' = steps + 1 /\ UNCHANGED program

RunInitialiser ==
  /\ phase = "initialisers" /\ stack = <<>> /\ inits < MaxInits
  /\ Begin(Initialiser, phase)
  /\ stack' = <<Initialiser>> /\ inits' = inits + 1
  /\ UNCHANGED <<program, steps>>

RunMain ==
  /\ phase = "initialisers" /\ stack = <<>>
  /\ Begin(Main, "main")
  /\ stack' = <<Main>>
  /\ UNCHANGED <<program, inits, steps>>

(* A call, by the function on top or from outside.                         *)
Call(f) ==
  /\ \/ Running
     \/ outside /\ stack = <<>> /\ phase \in {"initialisers", "exit"}
  /\ Len(stack) < MaxDepth
  /\ Begin(f, phase)
  /\ stack' = Append(stack, f)
  /\ UNCHANGED inits
  /\ Counted

Access ==
  /\ Running /\ Top \in accesses
  /\ Log("access", Top, phase)
  /\ UNCHANGED <<stack, inits>>
  /\ Counted

Return ==
  /\ Running
  /\ End(Top, IF Top = Main THEN "exit" ELSE phase)
  /\ stack' = Pop
  /\ UNCHANGED <<program, inits, steps>>

(* The function on top is left without its end event.                      *)
Unwind ==
  /\ exceptions /\ Running /\ Len(stack) > 1
  /\ stack' = Pop
  /\ UNCHANGED <<program, phase, inits, out, file, logged, steps>>

(* A call of exit: logExit, whose argument is ignored, and no returns.     *)
Exit ==
  /\ Running /\ phase # "exit"
  /\ IF Top \in on THEN LogExit ELSE UNCHANGED <<out, file>>
  /\ phase' = "exit" /\ stack' = <<>>
  /\ UNCHANGED <<program, inits, logged, steps>>

Finish ==
  /\ phase = "exit" /\ stack = <<>>
  /\ phase' = "ended"
  /\ UNCHANGED <<program, inits, stack, out, file, logged, steps>>

Next ==
  \/ RunInitialiser \/ RunMain
  \/ \E f \in Functions : Call(f)
  \/ Access \/ Return \/ Unwind \/ Exit \/ Finish

Spec == Init /\ [][Next]_vars

-----------------------------------------------------------------------------
(* Correctness.                                                            *)

(* If the pass brackets main and the initialisers, and nothing instrumented*)
(* runs outside them, no event ever meets the null FILE.                   *)
NullNeverWritten ==
  {Main, Initialiser} \subseteq on /\ ~outside => phase # "crashed"

(* The file has what has been logged since main, or the last initialiser   *)
(* before it, began: all of it, and nothing of earlier initialisers.       *)
BracketComplete == phase # "crashed" => file = logged

(* The functions a reader of the trace takes to be running: a begin event  *)
(* opens a function, an end event closes its latest call and, with it, the *)
(* calls inside that have no end event.                                    *)
Closed(open, f) ==
  LET calls == {i \in DOMAIN open : open[i] = f}
  IN IF calls = {} THEN open
     ELSE SubSeq(open, 1, (CHOOSE i \in calls : \A j \in calls : j <= i) - 1)

Read(open, event) ==
  CASE event.op = "fb" -> Append(open, event.function)
    [] event.op = "fe" -> Closed(open, event.function)
    [] OTHER -> open

OpenIn(trace) ==
  LET open[n \in 0 .. Len(trace)] ==
        IF n = 0 THEN <<>> ELSE Read(open[n - 1], trace[n])
  IN open[Len(trace)]

Open == OpenIn(file)

(* The frames on the stack of a set of functions, in order.                *)
FramesOf(frames, set) ==
  LET of[n \in 0 .. Len(frames)] ==
        IF n = 0 THEN <<>>
        ELSE IF frames[n] \in set THEN Append(of[n - 1], frames[n]) ELSE of[n - 1]
  IN of[Len(frames)]

Traced == FramesOf(stack, on \cap Functions)

(* The trace tells the call stack of the functions whose events are on,    *)
(* until the program calls exit.                                           *)
StackInTrace ==
  ~exceptions /\ out /\ phase \in {"initialisers", "main"} => Open = Traced

(* s is t without some of its elements.                                    *)
Within(s, t) ==
  \E to \in [DOMAIN s -> DOMAIN t] :
    \A i \in DOMAIN s :
      t[to[i]] = s[i] /\ \A j \in 1 .. i - 1 : to[j] < to[i]

(* With exceptions, a reader may take functions to be running that have    *)
(* been left, but never misses one that runs, nor their order.             *)
StackWithinTrace ==
  out /\ phase \in {"initialisers", "main"} => Within(Traced, Open)

=============================================================================
