---------------------------- MODULE TextTraceProofs ----------------------------
(***************************************************************************)
(* TextTrace for any functions, any depth and any number of initialisers:  *)
(* the null FILE is never written under brackets, the file is complete, and*)
(* its reader knows the call stack.                                        *)
(***************************************************************************)
EXTENDS TextTrace, SequenceTheorems, WellFoundedInduction, TLAPS

USE DEF Top, Pop, program

(* The first n elements of a sequence.                                     *)
LEMMA PrefixFacts ==
  ASSUME NEW S, NEW s \in Seq(S), NEW n \in Nat, n <= Len(s)
  PROVE  /\ SubSeq(s, 1, n) \in Seq(S) /\ Len(SubSeq(s, 1, n)) = n
         /\ \A i \in 1 .. n : SubSeq(s, 1, n)[i] = s[i]
         /\ n = 0 <=> SubSeq(s, 1, n) = <<>>
  <1>1. SubSeq(s, 1, n) \in Seq(S)
    OBVIOUS
  <1>2. Len(SubSeq(s, 1, n)) = n
    OBVIOUS
  <1>3. \A i \in 1 .. n : SubSeq(s, 1, n)[i] = s[i]
    OBVIOUS
  <1>4. n = 0 => SubSeq(s, 1, n) = <<>>
    OBVIOUS
  <1>5. n > 0 => SubSeq(s, 1, n) # <<>>
    OBVIOUS
  <1> QED
    BY <1>1, <1>2, <1>3, <1>4, <1>5

(* What is left of a stack after its last frame has been taken off.        *)
LEMMA PopFacts ==
  ASSUME NEW s \in Seq(Frames), s # <<>>
  PROVE  /\ Len(s) \in Nat \ {0}
         /\ s[1] \in Frames /\ s[Len(s)] \in Frames
         /\ SubSeq(s, 1, Len(s) - 1) \in Seq(Frames)
         /\ Len(SubSeq(s, 1, Len(s) - 1)) = Len(s) - 1
         /\ \A i \in 1 .. Len(s) - 1 : SubSeq(s, 1, Len(s) - 1)[i] = s[i]
         /\ Len(s) = 1 <=> SubSeq(s, 1, Len(s) - 1) = <<>>
  <1>1. Len(s) \in Nat \ {0}
    OBVIOUS
  <1>2. PICK n \in Nat : n = Len(s) - 1
    BY <1>1
  <1>3. n <= Len(s) /\ (n = 0 <=> Len(s) = 1)
    BY <1>1, <1>2
  <1>4. /\ SubSeq(s, 1, n) \in Seq(Frames) /\ Len(SubSeq(s, 1, n)) = n
        /\ \A i \in 1 .. n : SubSeq(s, 1, n)[i] = s[i]
        /\ n = 0 <=> SubSeq(s, 1, n) = <<>>
    BY <1>3, PrefixFacts
  <1>5. s[1] \in Frames /\ s[Len(s)] \in Frames
    BY <1>1
  <1> QED
    BY <1>1, <1>2, <1>3, <1>4, <1>5, Zenon

(* The empty sequence is one of frames and one of events.                  *)
LEMMA EmptyFacts == <<>> \in Seq(Event) /\ <<>> \in Seq(Frames) /\ Len(<<>>) = 0
  OBVIOUS

(* A frame on top of a stack.                                              *)
LEMMA AppendFacts ==
  ASSUME NEW t \in Seq(Frames), NEW f \in Frames
  PROVE  /\ Len(Append(t, f)) = Len(t) + 1 /\ Len(t) \in Nat
         /\ Append(t, f)[Len(t) + 1] = f
         /\ \A i \in 1 .. Len(t) : Append(t, f)[i] = t[i]
         /\ Append(t, f) # <<>>
         /\ t # <<>> => Len(t) > 0
  <1>1. Len(Append(t, f)) = Len(t) + 1 /\ Len(t) \in Nat
    OBVIOUS
  <1>2. Append(t, f)[Len(t) + 1] = f
    OBVIOUS
  <1>3. \A i \in 1 .. Len(t) : Append(t, f)[i] = t[i]
    OBVIOUS
  <1>4. Append(t, f) # <<>>
    BY <1>1, EmptyFacts
  <1>5. t # <<>> => Len(t) > 0
    OBVIOUS
  <1> QED
    BY <1>1, <1>2, <1>3, <1>4, <1>5

-----------------------------------------------------------------------------
(* What the library calls keep.                                            *)
LEMMA LogTypes ==
  ASSUME TypeOK, NEW op \in {"fb", "fe", "access"}, NEW f \in Frames,
         NEW next \in Phases, Log(op, f, next)
  PROVE  phase' \in Phases /\ out' \in BOOLEAN
         /\ file' \in Seq(Event) /\ logged' \in Seq(Event)
  <1>1. [op |-> op, function |-> f] \in Event
    BY DEF Event
  <1> QED
    <2>1. /\ Append(file, [op |-> op, function |-> f]) \in Seq(Event)
          /\ Append(logged, [op |-> op, function |-> f]) \in Seq(Event)
      BY <1>1 DEF TypeOK
    <2>2. phase' \in Phases
      BY DEF Log, Phases
    <2> QED
      BY <2>1, <2>2 DEF Log, TypeOK

LEMMA BeginTypes ==
  ASSUME TypeOK, NEW f \in Frames, NEW next \in Phases, Begin(f, next)
  PROVE  phase' \in Phases /\ out' \in BOOLEAN
         /\ file' \in Seq(Event) /\ logged' \in Seq(Event)
  <1>0. <<>> \in Seq(Event)
    OBVIOUS
  <1>1. CASE Log("fb", f, next)
    BY <1>1, LogTypes
  <1>2. CASE ~Log("fb", f, next)
    BY <1>2, <1>0 DEF Begin, LogInit, TypeOK
  <1> QED
    BY <1>1, <1>2

LEMMA EndTypes ==
  ASSUME TypeOK, NEW f \in Frames, NEW next \in Phases, End(f, next)
  PROVE  phase' \in Phases /\ out' \in BOOLEAN
         /\ file' \in Seq(Event) /\ logged' \in Seq(Event)
  <1>1. CASE Log("fe", f, next)
    BY <1>1, LogTypes
  <1>2. CASE ~Log("fe", f, next)
    BY <1>2 DEF End, LogExit, TypeOK
  <1> QED
    BY <1>1, <1>2

(* Types hold initially.                                                   *)
LEMMA TypeInit == Init => TypeOK
  <1> SUFFICES ASSUME Init PROVE TypeOK
    OBVIOUS
  <1>1. stack \in Seq(Frames) /\ file \in Seq(Event) /\ logged \in Seq(Event)
    BY EmptyFacts DEF Init
  <1> QED
    BY <1>1 DEF Init, TypeOK, Phases

(* Every step keeps them.                                                  *)
LEMMA TypeNext == TypeOK /\ [Next]_vars => TypeOK'
  <1> SUFFICES ASSUME TypeOK, [Next]_vars PROVE TypeOK'
    OBVIOUS
  <1>1. CASE RunInitialiser
    <2>1. phase \in Phases
      BY DEF TypeOK
    <2>2. Initialiser \in Frames /\ <<Initialiser>> \in Seq(Frames)
      BY DEF Frames
    <2> QED
      BY <1>1, <2>1, <2>2, BeginTypes DEF RunInitialiser, TypeOK
  <1>2. CASE RunMain
    <2>1. "main" \in Phases
      BY DEF Phases
    <2>2. Main \in Frames /\ <<Main>> \in Seq(Frames)
      BY DEF Frames
    <2> QED
      BY <1>2, <2>1, <2>2, BeginTypes DEF RunMain, TypeOK
  <1>3. ASSUME NEW f \in Functions, Call(f) PROVE TypeOK'
    <2>1. phase \in Phases
      BY DEF TypeOK
    <2>2. f \in Frames /\ Append(stack, f) \in Seq(Frames)
      BY DEF Frames, TypeOK
    <2> QED
      BY <1>3, <2>1, <2>2, BeginTypes DEF Call, Counted, TypeOK
  <1>4. CASE Access
    <2>1. phase \in Phases /\ stack[Len(stack)] \in Frames
      BY <1>4, PopFacts DEF Access, Running, TypeOK
    <2> QED
      BY <1>4, <2>1, LogTypes DEF Access, Counted, TypeOK
  <1>5. CASE Return
    <2> DEFINE next == IF stack[Len(stack)] = Main THEN "exit" ELSE phase
    <2>1. next \in Phases
      BY DEF TypeOK, Phases
    <2>2. stack[Len(stack)] \in Frames
      BY <1>5, PopFacts DEF Return, Running, TypeOK
    <2>3. SubSeq(stack, 1, Len(stack) - 1) \in Seq(Frames)
      BY <1>5, PopFacts DEF Return, Running, TypeOK
    <2>4. End(stack[Len(stack)], next)
      BY <1>5 DEF Return
    <2> HIDE DEF next
    <2> QED
      BY <1>5, <2>1, <2>2, <2>3, <2>4, EndTypes DEF Return, TypeOK
  <1>6. CASE Unwind
    BY <1>6, PopFacts DEF Unwind, Running, TypeOK
  <1>7. CASE Exit
    BY <1>7, EmptyFacts DEF Exit, LogExit, TypeOK, Phases
  <1>8. CASE Finish
    BY <1>8 DEF Finish, TypeOK, Phases
  <1>9. CASE UNCHANGED vars
    BY <1>9 DEF vars, TypeOK
  <1> QED
    BY <1>1, <1>2, <1>3, <1>4, <1>5, <1>6, <1>7, <1>8, <1>9 DEF Next

(* Every variable keeps its type.                                          *)
THEOREM TypeCorrect == Spec => []TypeOK
  BY TypeInit, TypeNext, PTL DEF Spec

-----------------------------------------------------------------------------
(* Frames above the first are functions; main's frame is there while main  *)
(* runs; before main, the FILE is open only inside a bracketed initialiser.*)
StackInv ==
  /\ \A i \in 2 .. Len(stack) : stack[i] \in Functions
  /\ phase = "main" => stack # <<>> /\ stack[1] = Main
  /\ phase = "exit" /\ stack # <<>> => stack[1] \in Functions
  /\ phase = "initialisers" /\ stack # <<>> => stack[1] # Main
  /\ phase = "initialisers" /\ out =>
       stack # <<>> /\ stack[1] = Initialiser /\ Initialiser \in on

(* With brackets and nothing outside them, the FILE is open whenever a     *)
(* function runs.                                                          *)
OpenInv ==
  {Main, Initialiser} \subseteq on /\ ~outside =>
    /\ phase # "crashed"
    /\ stack # <<>> => out /\ phase \in {"initialisers", "main"}
    /\ phase = "initialisers" /\ stack # <<>> => stack[1] = Initialiser

Inv == TypeOK /\ StackInv /\ OpenInv /\ BracketComplete

(* No function but main and the initialisers opens or closes the FILE.     *)
LEMMA FunctionBegins ==
  ASSUME NEW f \in Functions, NEW next, Begin(f, next)
  PROVE  /\ out' = out
         /\ phase' = next \/ (phase' = "crashed" /\ ~out)
         /\ file = logged => phase' = "crashed" \/ file' = logged'
  BY TextTraceAssumption DEF Begin, Log

(* A bracket that begins where the FILE is closed empties file and history.*)
LEMMA BracketBegins ==
  ASSUME NEW f \in {Main, Initialiser}, NEW next, Begin(f, next), ~out
  PROVE  /\ phase' = next
         /\ out' => f \in on
         /\ f \in on => out'
         /\ file = logged => file' = logged'
  BY TextTraceAssumption DEF Begin, LogInit

(* The end of a function leaves the FILE open, the end of a bracket closes *)
(* it.                                                                     *)
LEMMA Ends ==
  ASSUME NEW f \in Frames, NEW next, End(f, next)
  PROVE  /\ out' => out
         /\ f \in Functions => out' = out
         /\ f \in on /\ f \notin Functions => ~out'
         /\ phase' = next \/ (phase' = "crashed" /\ ~out)
         /\ file = logged => phase' = "crashed" \/ file' = logged'
  BY TextTraceAssumption DEF End, Log, LogExit, Frames

(* The invariant holds initially.                                          *)
LEMMA InvInit == Init => Inv
  <1> SUFFICES ASSUME Init PROVE Inv
    OBVIOUS
  <1>1. TypeOK
    BY TypeInit
  <1>2. stack = <<>> /\ Len(stack) = 0 /\ phase = "initialisers" /\ ~out
    BY EmptyFacts DEF Init
  <1>3. StackInv
    BY <1>2 DEF StackInv
  <1>4. OpenInv /\ BracketComplete
    BY <1>2 DEF OpenInv, BracketComplete, Init
  <1> QED
    BY <1>1, <1>3, <1>4 DEF Inv

(* ... and every step keeps it.                                            *)
LEMMA InvNext == Inv /\ [Next]_vars => Inv'
  <1> SUFFICES ASSUME Inv, [Next]_vars PROVE Inv'
    OBVIOUS
  <1>0. TypeOK /\ StackInv /\ OpenInv /\ BracketComplete /\ TypeOK'
    BY TypeNext DEF Inv
  <1>1. ASSUME NEW f \in {Main, Initialiser},
               NEW next \in {"main", "initialisers"},
               phase = "initialisers", stack = <<>>,
               f = Main <=> next = "main", Begin(f, next),
               stack' = <<f>>, UNCHANGED <<on, outside>>
        PROVE  Inv'
    <2>1. ~out
      BY <1>0, <1>1 DEF StackInv
    <2>2. phase' = next /\ (out' <=> f \in on) /\ (file = logged => file' = logged')
      BY <1>0, <1>1, <2>1, BracketBegins DEF TypeOK
    <2>3. Len(stack') = 1 /\ stack'[1] = f /\ stack' # <<>>
      BY <1>1
    <2>4. StackInv'
      BY <1>1, <2>2, <2>3, TextTraceAssumption DEF StackInv
    <2>5. OpenInv' /\ BracketComplete'
      BY <1>0, <1>1, <2>2, <2>3, TextTraceAssumption DEF OpenInv, BracketComplete
    <2> QED
      BY <1>0, <2>4, <2>5 DEF Inv
  <1>2. CASE RunInitialiser
    <2>1. Initialiser # Main
      BY TextTraceAssumption
    <2> QED
      BY <1>1, <1>2, <2>1 DEF RunInitialiser
  <1>3. CASE RunMain
    BY <1>1, <1>3 DEF RunMain
  <1>4. ASSUME NEW f \in Functions, Call(f) PROVE Inv'
    <2>1. /\ out' = out
          /\ phase' = phase \/ (phase' = "crashed" /\ ~out)
          /\ file = logged => phase' = "crashed" \/ file' = logged'
      BY <1>4, FunctionBegins DEF Call
    <2>2. stack' = Append(stack, f) /\ UNCHANGED <<on, outside>>
      BY <1>4 DEF Call, Counted
    <2>3. /\ Len(stack') = Len(stack) + 1 /\ stack' # <<>>
          /\ stack'[Len(stack) + 1] = f /\ Len(stack) \in Nat
          /\ \A i \in 1 .. Len(stack) : stack'[i] = stack[i]
          /\ stack # <<>> => Len(stack) > 0
      BY <1>0, <2>2, AppendFacts DEF TypeOK, Frames
    <2>4. /\ stack # <<>> => stack'[1] = stack[1]
          /\ stack = <<>> => stack'[1] = f
      BY <2>3, EmptyFacts
    <2>5. phase \in {"initialisers", "main", "exit"}
      BY <1>0, <1>4 DEF Call, Running, TypeOK, Phases
    <2>6. stack = <<>> => outside /\ phase # "main"
      BY <1>4 DEF Call, Running
    <2>7. StackInv'
      <3>1. \A i \in 2 .. Len(stack') : stack'[i] \in Functions
        BY <1>0, <2>3 DEF StackInv
      <3>2. phase' = "main" => stack' # <<>> /\ stack'[1] = Main
        BY <1>0, <2>1, <2>3, <2>4 DEF StackInv
      <3>3. phase' = "exit" /\ stack' # <<>> => stack'[1] \in Functions
        BY <1>0, <2>1, <2>4, <2>5 DEF StackInv
      <3>4. phase' = "initialisers" /\ stack' # <<>> => stack'[1] # Main
        BY <1>0, <2>1, <2>4, TextTraceAssumption DEF StackInv
      <3>5. phase' = "initialisers" /\ out' =>
              stack' # <<>> /\ stack'[1] = Initialiser /\ Initialiser \in on'
        BY <1>0, <2>1, <2>2, <2>3, <2>4 DEF StackInv
      <3> QED
        BY <3>1, <3>2, <3>3, <3>4, <3>5 DEF StackInv
    <2>8. OpenInv'
      BY <1>0, <2>1, <2>2, <2>3, <2>4, <2>6 DEF OpenInv
    <2>9. BracketComplete'
      BY <1>0, <2>1, <2>5 DEF BracketComplete
    <2> QED
      BY <1>0, <2>7, <2>8, <2>9 DEF Inv
  <1>5. CASE Access
    <2>1. /\ out' = out /\ UNCHANGED <<stack, on, outside>> /\ stack # <<>>
          /\ phase # "crashed"
          /\ phase' = phase \/ (phase' = "crashed" /\ ~out)
          /\ file = logged => phase' = "crashed" \/ file' = logged'
      BY <1>5 DEF Access, Running, Log, Counted
    <2>2. StackInv'
      BY <1>0, <2>1 DEF StackInv
    <2>3. OpenInv' /\ BracketComplete'
      BY <1>0, <2>1 DEF OpenInv, BracketComplete
    <2> QED
      BY <1>0, <2>2, <2>3 DEF Inv
  <1>6. CASE Return
    <2> DEFINE top == stack[Len(stack)]
               next == IF top = Main THEN "exit" ELSE phase
    <2>1. stack # <<>> /\ phase \notin {"ended", "crashed"} /\ End(top, next)
          /\ stack' = SubSeq(stack, 1, Len(stack) - 1) /\ UNCHANGED <<on, outside>>
      BY <1>6 DEF Return, Running
    <2>2. /\ Len(stack) \in Nat \ {0} /\ top \in Frames
          /\ Len(stack') = Len(stack) - 1
          /\ \A i \in 1 .. Len(stack) - 1 : stack'[i] = stack[i]
          /\ Len(stack) = 1 <=> stack' = <<>>
      BY <1>0, <2>1, PopFacts DEF TypeOK
    <2>3. /\ out' => out
          /\ top \in Functions => out' = out
          /\ top \in on /\ top \notin Functions => ~out'
          /\ phase' = next \/ (phase' = "crashed" /\ ~out)
          /\ file = logged => phase' = "crashed" \/ file' = logged'
      <3> HIDE DEF top, next
      <3> QED
        BY <2>1, <2>2, Ends
    <2>4. stack' # <<>> => /\ stack'[1] = stack[1] /\ top \in Functions
                           /\ top # Main
      BY <1>0, <2>2, TextTraceAssumption DEF StackInv
    <2>5. stack' = <<>> => top = stack[1]
      BY <2>2
    <2>6. StackInv'
      <3>1. \A i \in 2 .. Len(stack') : stack'[i] \in Functions
        BY <1>0, <2>2 DEF StackInv
      <3>2. phase' = "main" => stack' # <<>> /\ stack'[1] = Main
        BY <1>0, <2>1, <2>3, <2>4, <2>5 DEF StackInv
      <3>3. phase' = "exit" /\ stack' # <<>> => stack'[1] \in Functions
        BY <1>0, <2>1, <2>3, <2>4 DEF StackInv
      <3>4. phase' = "initialisers" /\ stack' # <<>> => stack'[1] # Main
        BY <1>0, <2>1, <2>3, <2>4 DEF StackInv
      <3>5. phase' = "initialisers" /\ out' =>
              stack' # <<>> /\ stack'[1] = Initialiser /\ Initialiser \in on'
        BY <1>0, <2>1, <2>3, <2>4, <2>5, TextTraceAssumption DEF StackInv
      <3> QED
        BY <3>1, <3>2, <3>3, <3>4, <3>5 DEF StackInv
    <2>7. OpenInv'
      BY <1>0, <2>1, <2>3, <2>4 DEF OpenInv
    <2>8. BracketComplete'
      BY <1>0, <2>1, <2>3 DEF BracketComplete
    <2> QED
      BY <1>0, <2>6, <2>7, <2>8 DEF Inv
  <1>7. CASE Unwind
    <2>1. stack # <<>> /\ Len(stack) > 1
          /\ stack' = SubSeq(stack, 1, Len(stack) - 1)
          /\ UNCHANGED <<on, outside, phase, out, file, logged>>
      BY <1>7 DEF Unwind, Running
    <2>2. /\ Len(stack) \in Nat \ {0}
          /\ Len(stack') = Len(stack) - 1
          /\ \A i \in 1 .. Len(stack) - 1 : stack'[i] = stack[i]
          /\ Len(stack) = 1 <=> stack' = <<>>
      BY <1>0, <2>1, PopFacts DEF TypeOK
    <2>3. stack' # <<>> /\ stack'[1] = stack[1]
      <3>1. 1 \in 1 .. Len(stack) - 1 /\ Len(stack) # 1
        BY <2>1, <2>2
      <3> QED
        BY <2>2, <3>1, Zenon
    <2>4. StackInv'
      BY <1>0, <2>1, <2>2, <2>3 DEF StackInv
    <2>5. OpenInv' /\ BracketComplete'
      BY <1>0, <2>1, <2>3 DEF OpenInv, BracketComplete
    <2> QED
      BY <1>0, <2>4, <2>5 DEF Inv
  <1>8. CASE Exit
    <2>1. phase' = "exit" /\ stack' = <<>> /\ Len(stack') = 0
          /\ UNCHANGED <<on, outside, file, logged>> /\ phase # "crashed"
      BY <1>8, EmptyFacts DEF Exit, LogExit, Running
    <2>2. StackInv'
      BY <2>1 DEF StackInv
    <2>3. OpenInv' /\ BracketComplete'
      BY <1>0, <2>1 DEF OpenInv, BracketComplete
    <2> QED
      BY <1>0, <2>2, <2>3 DEF Inv
  <1>9. CASE Finish
    <2>1. phase = "exit" /\ phase' = "ended" /\ stack = <<>>
          /\ UNCHANGED <<on, outside, stack, file, logged>>
      BY <1>9 DEF Finish
    <2>2. StackInv'
      BY <1>0, <2>1 DEF StackInv
    <2>3. OpenInv' /\ BracketComplete'
      BY <1>0, <2>1 DEF OpenInv, BracketComplete
    <2> QED
      BY <1>0, <2>2, <2>3 DEF Inv
  <1>10. CASE UNCHANGED vars
    BY <1>0, <1>10 DEF vars, Inv, StackInv, OpenInv, BracketComplete
  <1> QED
    BY <1>2, <1>3, <1>4, <1>5, <1>6, <1>7, <1>8, <1>9, <1>10 DEF Next

(* Under brackets, with nothing instrumented outside them, no log function *)
(* uses the null FILE.                                                     *)
THEOREM NullIsNeverWritten == Spec => []NullNeverWritten
  <1>1. Inv => NullNeverWritten
    BY DEF Inv, OpenInv, NullNeverWritten
  <1> QED
    BY <1>1, InvInit, InvNext, PTL DEF Spec

(* The trace file is complete since the last bracket began, whatever the   *)
(* pass has instrumented and however functions are left.                   *)
THEOREM BracketIsComplete == Spec => []BracketComplete
  <1>1. Inv => BracketComplete
    BY DEF Inv
  <1> QED
    BY <1>1, InvInit, InvNext, PTL DEF Spec


-----------------------------------------------------------------------------
(* What a reader computes, event by event, and what is on the stack.       *)

(* A non-empty set of naturals has a least element.                        *)
LEMMA Least ==
  ASSUME NEW T \in SUBSET Nat, T # {}
  PROVE  \E x \in T : \A y \in T : x <= y
  <1> DEFINE R == {ss \in Nat \X Nat : ss[1] < ss[2]}
  <1>1. IsWellFoundedOn(R, Nat)
    <2>1. R = OpToRel(<, Nat)
      BY DEF OpToRel
    <2> QED
      BY <2>1, NatLessThanWellFounded
  <1> HIDE DEF R
  <1>2. PICK x \in T : \A y \in T : ~(<<y, x>> \in R)
    <2> T \subseteq Nat
      OBVIOUS
    <2> QED
      BY <1>1, WFMin, Zenon
  <1>3. ASSUME NEW y \in T PROVE x <= y
    <2>1. x \in Nat /\ y \in Nat /\ <<y, x>> \notin R
      BY <1>2
    <2> QED
      BY <2>1 DEF R
  <1> QED
    BY <1>3

(* g says what is open after each of the first n events of s.              *)
Opens(s, n, g) ==
  g = [k \in 0 .. n |-> IF k = 0 THEN <<>> ELSE Read(g[k - 1], s[k])]

(* There is such a function,                                               *)
LEMMA OpensExists ==
  ASSUME NEW s, NEW n \in Nat
  PROVE  \E g : Opens(s, n, g)
  <1> DEFINE T == {k \in Nat : ~\E g : Opens(s, k, g)}
  <1>1. SUFFICES ASSUME T # {} PROVE FALSE
    OBVIOUS
  <1>2. PICK m \in T : \A k \in T : m <= k
    <2> T \subseteq Nat
      OBVIOUS
    <2> HIDE DEF T
    <2> QED
      BY <1>1, Least
  <1>3. CASE m = 0
    <2> DEFINE h == [k \in 0 .. m |-> <<>>]
    <2>1. h = [k \in 0 .. m |-> IF k = 0 THEN <<>> ELSE Read(h[k - 1], s[k])]
      BY <1>3
    <2> HIDE DEF h
    <2>2. Opens(s, m, h)
      BY <2>1 DEF Opens
    <2> QED
      BY <1>2, <2>2
  <1>4. CASE m # 0
    <2>1. m - 1 \in Nat /\ m - 1 \notin T
      BY <1>2, <1>4
    <2>2. PICK g : Opens(s, m - 1, g)
      BY <2>1
    <2> DEFINE h == [k \in 0 .. m |-> IF k = m THEN Read(g[m - 1], s[m]) ELSE g[k]]
    <2>3. ASSUME NEW k \in 0 .. m
          PROVE  h[k] = IF k = 0 THEN <<>> ELSE Read(h[k - 1], s[k])
      <3>1. CASE k = m
        BY <1>4, <3>1
      <3>2. CASE k # m
        <4>1. h[k] = g[k] /\ k \in 0 .. m - 1
          BY <3>2
        <4>2. g[k] = IF k = 0 THEN <<>> ELSE Read(g[k - 1], s[k])
          BY <2>2, <4>1 DEF Opens
        <4>3. k # 0 => h[k - 1] = g[k - 1]
          BY <4>1
        <4> HIDE DEF h
        <4> QED
          BY <4>1, <4>2, <4>3
      <3> QED
        BY <3>1, <3>2
    <2>4. h = [k \in 0 .. m |-> h[k]]
      OBVIOUS
    <2> HIDE DEF h
    <2>5. h = [k \in 0 .. m |-> IF k = 0 THEN <<>> ELSE Read(h[k - 1], s[k])]
      BY <2>3, <2>4
    <2>6. Opens(s, m, h)
      BY <2>5 DEF Opens
    <2> QED
      BY <1>2, <2>6
  <1> QED
    BY <1>3, <1>4

(* and only one, which depends on the first n events only.                 *)
LEMMA OpensUnique ==
  ASSUME NEW s, NEW r, NEW n \in Nat, NEW m \in Nat, n <= m,
         \A k \in 1 .. n : r[k] = s[k],
         NEW g, Opens(s, n, g), NEW h, Opens(r, m, h)
  PROVE  g[n] = h[n]
  <1> DEFINE T == {k \in 0 .. n : g[k] # h[k]}
  <1>1. SUFFICES ASSUME T # {} PROVE FALSE
    OBVIOUS
  <1>2. PICK k \in T : \A j \in T : k <= j
    <2> T \subseteq Nat
      OBVIOUS
    <2> HIDE DEF T
    <2> QED
      BY <1>1, Least
  <1>3. /\ g[k] = IF k = 0 THEN <<>> ELSE Read(g[k - 1], s[k])
        /\ h[k] = IF k = 0 THEN <<>> ELSE Read(h[k - 1], r[k])
    BY DEF Opens
  <1>4. k # 0
    BY <1>2, <1>3
  <1>5. k - 1 \in 0 .. n /\ k - 1 \notin T /\ k \in 1 .. n
    BY <1>2, <1>4
  <1>6. g[k - 1] = h[k - 1] /\ r[k] = s[k]
    BY <1>5
  <1> QED
    BY <1>2, <1>3, <1>4, <1>6

(* The recursion of OpenIn is well-founded.                                *)
LEMMA OpenInOpens ==
  ASSUME NEW s, Len(s) \in Nat
  PROVE  \E g : Opens(s, Len(s), g) /\ OpenIn(s) = g[Len(s)]
  <1> DEFINE g == CHOOSE g : Opens(s, Len(s), g)
  <1>1. Opens(s, Len(s), g)
    BY OpensExists
  <1>2. OpenIn(s) = g[Len(s)]
    BY DEF OpenIn, Opens
  <1> QED
    BY <1>1, <1>2

(* Nothing is open before the first event, and an event is read after those*)
(* before it.                                                              *)
LEMMA OpenAppend ==
  /\ OpenIn(<<>>) = <<>>
  /\ \A s \in Seq(Event), e \in Event : OpenIn(Append(s, e)) = Read(OpenIn(s), e)
  <1>1. OpenIn(<<>>) = <<>>
    <2>1. PICK g : Opens(<<>>, 0, g) /\ OpenIn(<<>>) = g[0]
      BY OpenInOpens
    <2>2. g[0] = <<>>
      BY <2>1 DEF Opens
    <2> QED
      BY <2>1, <2>2
  <1>2. ASSUME NEW s \in Seq(Event), NEW e \in Event
        PROVE  OpenIn(Append(s, e)) = Read(OpenIn(s), e)
    <2> DEFINE r == Append(s, e)
               n == Len(s)
    <2>1. n \in Nat /\ Len(r) = n + 1 /\ r[n + 1] = e /\ \A k \in 1 .. n : r[k] = s[k]
      OBVIOUS
    <2> HIDE DEF r, n
    <2>2. PICK g : Opens(s, n, g) /\ OpenIn(s) = g[n]
      BY <2>1, OpenInOpens DEF n
    <2>3. PICK h : Opens(r, n + 1, h) /\ OpenIn(r) = h[n + 1]
      BY <2>1, OpenInOpens
    <2>4. h[n + 1] = Read(h[n], r[n + 1])
      <3>1. h[n + 1] = IF n + 1 = 0 THEN <<>> ELSE Read(h[n + 1 - 1], r[n + 1])
        BY <2>1, <2>3 DEF Opens
      <3>2. n + 1 # 0 /\ n + 1 - 1 = n
        BY <2>1
      <3> QED
        BY <3>1, <3>2
    <2>5. g[n] = h[n]
      BY <2>1, <2>2, <2>3, OpensUnique
    <2> QED
      BY <2>1, <2>2, <2>3, <2>4, <2>5 DEF r
  <1> QED
    BY <1>1, <1>2

(* The frames of a set so far, and the next frame.                         *)
Picked(set, of, f) == IF f \in set THEN Append(of, f) ELSE of

(* g has the frames of a set among each of the first n of s.               *)
Selects(set, s, n, g) ==
  g = [k \in 0 .. n |-> IF k = 0 THEN <<>> ELSE Picked(set, g[k - 1], s[k])]

(* There is such a function,                                               *)
LEMMA SelectsExists ==
  ASSUME NEW set, NEW s, NEW n \in Nat
  PROVE  \E g : Selects(set, s, n, g)
  <1> DEFINE T == {k \in Nat : ~\E g : Selects(set, s, k, g)}
  <1>1. SUFFICES ASSUME T # {} PROVE FALSE
    OBVIOUS
  <1>2. PICK m \in T : \A k \in T : m <= k
    <2> T \subseteq Nat
      OBVIOUS
    <2> HIDE DEF T
    <2> QED
      BY <1>1, Least
  <1>3. CASE m = 0
    <2> DEFINE h == [k \in 0 .. m |-> <<>>]
    <2>1. h = [k \in 0 .. m |-> IF k = 0 THEN <<>> ELSE Picked(set, h[k - 1], s[k])]
      BY <1>3
    <2> HIDE DEF h
    <2>2. Selects(set, s, m, h)
      BY <2>1 DEF Selects
    <2> QED
      BY <1>2, <2>2
  <1>4. CASE m # 0
    <2>1. m - 1 \in Nat /\ m - 1 \notin T
      BY <1>2, <1>4
    <2>2. PICK g : Selects(set, s, m - 1, g)
      BY <2>1
    <2> DEFINE h == [k \in 0 .. m |-> IF k = m THEN Picked(set, g[m - 1], s[m]) ELSE g[k]]
    <2>3. ASSUME NEW k \in 0 .. m
          PROVE  h[k] = IF k = 0 THEN <<>> ELSE Picked(set, h[k - 1], s[k])
      <3>1. CASE k = m
        BY <1>4, <3>1
      <3>2. CASE k # m
        <4>1. h[k] = g[k] /\ k \in 0 .. m - 1
          BY <3>2
        <4>2. g[k] = IF k = 0 THEN <<>> ELSE Picked(set, g[k - 1], s[k])
          BY <2>2, <4>1 DEF Selects
        <4>3. k # 0 => h[k - 1] = g[k - 1]
          BY <4>1
        <4> HIDE DEF h
        <4> QED
          BY <4>1, <4>2, <4>3
      <3> QED
        BY <3>1, <3>2
    <2>4. h = [k \in 0 .. m |-> h[k]]
      OBVIOUS
    <2> HIDE DEF h
    <2>5. h = [k \in 0 .. m |-> IF k = 0 THEN <<>> ELSE Picked(set, h[k - 1], s[k])]
      BY <2>3, <2>4
    <2>6. Selects(set, s, m, h)
      BY <2>5 DEF Selects
    <2> QED
      BY <1>2, <2>6
  <1> QED
    BY <1>3, <1>4

(* and only one, which depends on the first n frames only.                 *)
LEMMA SelectsUnique ==
  ASSUME NEW set, NEW s, NEW r, NEW n \in Nat, NEW m \in Nat, n <= m,
         \A k \in 1 .. n : r[k] = s[k],
         NEW g, Selects(set, s, n, g), NEW h, Selects(set, r, m, h)
  PROVE  g[n] = h[n]
  <1> DEFINE T == {k \in 0 .. n : g[k] # h[k]}
  <1>1. SUFFICES ASSUME T # {} PROVE FALSE
    OBVIOUS
  <1>2. PICK k \in T : \A j \in T : k <= j
    <2> T \subseteq Nat
      OBVIOUS
    <2> HIDE DEF T
    <2> QED
      BY <1>1, Least
  <1>3. /\ g[k] = IF k = 0 THEN <<>> ELSE Picked(set, g[k - 1], s[k])
        /\ h[k] = IF k = 0 THEN <<>> ELSE Picked(set, h[k - 1], r[k])
    BY DEF Selects
  <1>4. k # 0
    BY <1>2, <1>3
  <1>5. k - 1 \in 0 .. n /\ k - 1 \notin T /\ k \in 1 .. n
    BY <1>2, <1>4
  <1>6. g[k - 1] = h[k - 1] /\ r[k] = s[k]
    BY <1>5
  <1> QED
    BY <1>2, <1>3, <1>4, <1>6

(* The recursion of FramesOf is well-founded.                              *)
LEMMA FramesOfSelects ==
  ASSUME NEW set, NEW s, Len(s) \in Nat
  PROVE  \E g : Selects(set, s, Len(s), g) /\ FramesOf(s, set) = g[Len(s)]
  <1> DEFINE g == CHOOSE g : Selects(set, s, Len(s), g)
  <1>1. Selects(set, s, Len(s), g)
    BY SelectsExists
  <1>2. FramesOf(s, set) = g[Len(s)]
    BY DEF FramesOf, Selects, Picked
  <1> QED
    BY <1>1, <1>2

(* A frame on top is the last, or not in the set.                          *)
LEMMA FramesOfAppend ==
  ASSUME NEW set
  PROVE  /\ FramesOf(<<>>, set) = <<>>
         /\ \A s \in Seq(Frames), e \in Frames : FramesOf(Append(s, e), set) = Picked(set, FramesOf(s, set), e)
  <1>1. FramesOf(<<>>, set) = <<>>
    <2>1. PICK g : Selects(set, <<>>, 0, g) /\ FramesOf(<<>>, set) = g[0]
      BY FramesOfSelects
    <2>2. g[0] = <<>>
      BY <2>1 DEF Selects
    <2> QED
      BY <2>1, <2>2
  <1>2. ASSUME NEW s \in Seq(Frames), NEW e \in Frames
        PROVE  FramesOf(Append(s, e), set) = Picked(set, FramesOf(s, set), e)
    <2> DEFINE r == Append(s, e)
               n == Len(s)
    <2>1. n \in Nat /\ Len(r) = n + 1 /\ r[n + 1] = e /\ \A k \in 1 .. n : r[k] = s[k]
      OBVIOUS
    <2> HIDE DEF r, n
    <2>2. PICK g : Selects(set, s, n, g) /\ FramesOf(s, set) = g[n]
      BY <2>1, FramesOfSelects DEF n
    <2>3. PICK h : Selects(set, r, n + 1, h) /\ FramesOf(r, set) = h[n + 1]
      BY <2>1, FramesOfSelects
    <2>4. h[n + 1] = Picked(set, h[n], r[n + 1])
      <3>1. h[n + 1] = IF n + 1 = 0 THEN <<>> ELSE Picked(set, h[n + 1 - 1], r[n + 1])
        BY <2>1, <2>3 DEF Selects
      <3>2. n + 1 # 0 /\ n + 1 - 1 = n
        BY <2>1
      <3> QED
        BY <3>1, <3>2
    <2>5. g[n] = h[n]
      BY <2>1, <2>2, <2>3, SelectsUnique
    <2> QED
      BY <2>1, <2>2, <2>3, <2>4, <2>5 DEF r
  <1> QED
    BY <1>1, <1>2

(* A sequence that is not empty is its last element after the others.      *)
LEMMA LastOf ==
  ASSUME NEW S, NEW s \in Seq(S), s # <<>>
  PROVE  /\ SubSeq(s, 1, Len(s) - 1) \in Seq(S) /\ s[Len(s)] \in S
         /\ Len(SubSeq(s, 1, Len(s) - 1)) = Len(s) - 1 /\ Len(s) \in Nat \ {0}
         /\ s = Append(SubSeq(s, 1, Len(s) - 1), s[Len(s)])
  <1>1. Len(s) \in Nat \ {0}
    OBVIOUS
  <1>2. PICK n \in Nat : n = Len(s) - 1
    BY <1>1
  <1> DEFINE p == SubSeq(s, 1, n)
  <1>3. p \in Seq(S) /\ Len(p) = n /\ \A i \in 1 .. n : p[i] = s[i]
    BY <1>1, <1>2, PrefixFacts
  <1>4. s[n + 1] \in S /\ Len(s) = n + 1
    BY <1>1, <1>2
  <1>5. s = Append(p, s[n + 1])
    <2> HIDE DEF p
    <2>1. Append(p, s[n + 1]) \in Seq(S) /\ Len(Append(p, s[n + 1])) = n + 1
      BY <1>3, <1>4
    <2>2. \A i \in 1 .. n + 1 : Append(p, s[n + 1])[i] = s[i]
      BY <1>3, <1>4
    <2> QED
      BY <1>4, <2>1, <2>2, SeqEqual
  <1>6. n + 1 = Len(s)
    BY <1>4
  <1> QED
    BY <1>1, <1>2, <1>3, <1>4, <1>5, <1>6

(* A function is closed with all that is open above its latest call.       *)
LEMMA ClosedFacts ==
  ASSUME NEW t \in Seq(Frames), NEW f \in Frames
  PROVE  /\ (\A i \in DOMAIN t : t[i] # f) => Closed(t, f) = t
         /\ (\E i \in DOMAIN t : t[i] = f) =>
              \E m \in DOMAIN t :
                /\ t[m] = f /\ \A i \in DOMAIN t : t[i] = f => i <= m
                /\ Closed(t, f) = SubSeq(t, 1, m - 1)
  <1> DEFINE calls == {i \in DOMAIN t : t[i] = f}
  <1>1. ASSUME NEW i \in DOMAIN t, t[i] = f
        PROVE  \E m \in calls : \A j \in calls : j <= m
    <2> DEFINE T == {Len(t) - j : j \in calls}
    <2>1. T \in SUBSET Nat /\ T # {}
      BY <1>1
    <2> HIDE DEF T
    <2>2. PICK x \in T : \A y \in T : x <= y
      BY <2>1, Least
    <2>3. PICK m \in calls : x = Len(t) - m
      BY <2>2 DEF T
    <2>4. ASSUME NEW j \in calls PROVE j <= m
      <3>1. Len(t) - j \in T
        BY DEF T
      <3>2. Len(t) - m <= Len(t) - j
        BY <2>2, <2>3, <3>1
      <3> QED
        BY <3>2
    <2> QED
      BY <2>4
  <1>2. ASSUME NEW i \in DOMAIN t, t[i] = f
        PROVE  \E m \in DOMAIN t :
                 /\ t[m] = f /\ \A j \in DOMAIN t : t[j] = f => j <= m
                 /\ Closed(t, f) = SubSeq(t, 1, m - 1)
    <2> DEFINE m == CHOOSE k \in calls : \A j \in calls : j <= k
    <2>1. m \in calls /\ \A j \in calls : j <= m
      BY <1>1, <1>2
    <2>2. Closed(t, f) = SubSeq(t, 1, m - 1)
      BY <1>2 DEF Closed
    <2> HIDE DEF m
    <2> QED
      BY <2>1, <2>2
  <1>3. (\A i \in DOMAIN t : t[i] # f) => Closed(t, f) = t
    BY DEF Closed
  <1> QED
    BY <1>2, <1>3

(* What is read is again a sequence of frames.                             *)
LEMMA ReadTypes ==
  ASSUME NEW t \in Seq(Frames), NEW e \in Event
  PROVE  Read(t, e) \in Seq(Frames)
  <1>1. e.function \in Frames
    BY DEF Event
  <1>2. Append(t, e.function) \in Seq(Frames)
    BY <1>1
  <1>3. Closed(t, e.function) \in Seq(Frames)
    <2>1. CASE \E i \in DOMAIN t : t[i] = e.function
      <3>1. PICK m \in DOMAIN t : Closed(t, e.function) = SubSeq(t, 1, m - 1)
        BY <1>1, <2>1, ClosedFacts
      <3> QED
        BY <3>1
    <2>2. CASE \A i \in DOMAIN t : t[i] # e.function
      BY <1>1, <2>2, ClosedFacts
    <2> QED
      BY <2>1, <2>2
  <1> QED
    BY <1>2, <1>3 DEF Read

(* So is what is open after any trace,                                     *)
LEMMA OpenTypes == \A s \in Seq(Event) : OpenIn(s) \in Seq(Frames)
  <1> DEFINE T == {n \in Nat : \E s \in Seq(Event) : Len(s) = n /\ OpenIn(s) \notin Seq(Frames)}
  <1>1. SUFFICES ASSUME T # {} PROVE FALSE
    OBVIOUS
  <1>2. PICK n \in T : \A k \in T : n <= k
    <2> T \subseteq Nat
      OBVIOUS
    <2> HIDE DEF T
    <2> QED
      BY <1>1, Least
  <1>3. PICK s \in Seq(Event) : Len(s) = n /\ OpenIn(s) \notin Seq(Frames)
    BY <1>2
  <1>4. s # <<>>
    BY <1>3, OpenAppend, EmptyFacts
  <1> DEFINE r == SubSeq(s, 1, Len(s) - 1)
             e == s[Len(s)]
  <1>5. /\ r \in Seq(Event) /\ e \in Event /\ s = Append(r, e)
        /\ Len(r) = n - 1 /\ n \in Nat \ {0}
    BY <1>3, <1>4, LastOf
  <1> HIDE DEF r, e
  <1>6. OpenIn(r) \in Seq(Frames)
    <2>1. n - 1 \notin T /\ n - 1 \in Nat
      BY <1>2, <1>5
    <2> QED
      BY <1>5, <2>1
  <1>7. OpenIn(s) = Read(OpenIn(r), e)
    BY <1>5, OpenAppend
  <1> QED
    BY <1>3, <1>5, <1>6, <1>7, ReadTypes

(* and what is picked from any stack.                                      *)
LEMMA FramesTypes ==
  ASSUME NEW set
  PROVE  \A s \in Seq(Frames) : FramesOf(s, set) \in Seq(Frames)
  <1> DEFINE T == {n \in Nat : \E s \in Seq(Frames) :
                                 Len(s) = n /\ FramesOf(s, set) \notin Seq(Frames)}
  <1>1. SUFFICES ASSUME T # {} PROVE FALSE
    OBVIOUS
  <1>2. PICK n \in T : \A k \in T : n <= k
    <2> T \subseteq Nat
      OBVIOUS
    <2> HIDE DEF T
    <2> QED
      BY <1>1, Least
  <1>3. PICK s \in Seq(Frames) : Len(s) = n /\ FramesOf(s, set) \notin Seq(Frames)
    BY <1>2
  <1>4. s # <<>>
    BY <1>3, FramesOfAppend, EmptyFacts
  <1> DEFINE r == SubSeq(s, 1, Len(s) - 1)
             f == s[Len(s)]
  <1>5. /\ r \in Seq(Frames) /\ f \in Frames /\ s = Append(r, f)
        /\ Len(r) = n - 1 /\ n \in Nat \ {0}
    BY <1>3, <1>4, LastOf
  <1> HIDE DEF r, f
  <1>6. FramesOf(r, set) \in Seq(Frames)
    <2>1. n - 1 \notin T /\ n - 1 \in Nat
      BY <1>2, <1>5
    <2> QED
      BY <1>5, <2>1
  <1>7. FramesOf(s, set) = Picked(set, FramesOf(r, set), f)
    BY <1>5, FramesOfAppend
  <1>8. Append(FramesOf(r, set), f) \in Seq(Frames)
    BY <1>5, <1>6
  <1> QED
    BY <1>3, <1>6, <1>7, <1>8 DEF Picked

-----------------------------------------------------------------------------
(* Sequences within others.                                                *)

(* One more element at both ends.                                          *)
LEMMA WithinAppend ==
  ASSUME NEW s \in Seq(Frames), NEW t \in Seq(Frames), NEW f \in Frames, Within(s, t)
  PROVE  Within(Append(s, f), Append(t, f))
  <1>1. PICK to \in [DOMAIN s -> DOMAIN t] :
          \A i \in DOMAIN s : t[to[i]] = s[i] /\ \A j \in 1 .. i - 1 : to[j] < to[i]
    BY DEF Within
  <1> DEFINE s2 == Append(s, f)
             t2 == Append(t, f)
             n  == Len(s)
             m  == Len(t)
  <1>2. /\ n \in Nat /\ m \in Nat /\ DOMAIN s = 1 .. n /\ DOMAIN t = 1 .. m
        /\ DOMAIN s2 = 1 .. n + 1 /\ DOMAIN t2 = 1 .. m + 1
        /\ s2[n + 1] = f /\ t2[m + 1] = f
    OBVIOUS
  <1>3. (\A i \in 1 .. n : s2[i] = s[i]) /\ (\A i \in 1 .. m : t2[i] = t[i])
    OBVIOUS
  <1> HIDE DEF s2, t2, n, m
  <1> DEFINE to2 == [i \in 1 .. n + 1 |-> IF i = n + 1 THEN m + 1 ELSE to[i]]
  <1>4. to2 \in [1 .. n + 1 -> 1 .. m + 1]
    BY <1>1, <1>2
  <1>5. ASSUME NEW i \in 1 .. n + 1
        PROVE  t2[to2[i]] = s2[i] /\ \A j \in 1 .. i - 1 : to2[j] < to2[i]
    <2>1. CASE i = n + 1
      <3>1. \A j \in 1 .. n : to2[j] = to[j] /\ to[j] \in 1 .. m
        BY <1>1, <1>2
      <3> QED
        BY <1>2, <2>1, <3>1
    <2>2. CASE i # n + 1
      <3>1. i \in 1 .. n
        BY <1>2, <2>2
      <3>2. to2[i] = to[i] /\ to[i] \in 1 .. m
        BY <1>1, <1>2, <3>1
      <3>3. \A j \in 1 .. i - 1 : to2[j] = to[j]
        BY <1>2, <3>1
      <3>4. t[to[i]] = s[i] /\ \A j \in 1 .. i - 1 : to[j] < to[i]
        BY <1>1, <1>2, <3>1
      <3> HIDE DEF to2
      <3> QED
        BY <1>3, <3>1, <3>2, <3>3, <3>4
    <2> QED
      BY <2>1, <2>2
  <1> HIDE DEF to2
  <1>6. Within(s2, t2)
    BY <1>2, <1>4, <1>5 DEF Within
  <1> QED
    BY <1>6 DEF s2, t2

(* One element less, which stands last.                                    *)
LEMMA WithinLess ==
  ASSUME NEW s \in Seq(Frames), NEW t \in Seq(Frames), NEW f \in Frames,
         Within(Append(s, f), t)
  PROVE  \E m \in DOMAIN t : t[m] = f /\ Within(s, SubSeq(t, 1, m - 1))
  <1> DEFINE s2 == Append(s, f)
             n  == Len(s)
  <1>1. /\ n \in Nat /\ DOMAIN s = 1 .. n /\ DOMAIN s2 = 1 .. n + 1
        /\ s2[n + 1] = f /\ \A i \in 1 .. n : s2[i] = s[i]
    OBVIOUS
  <1>2. PICK to \in [DOMAIN s2 -> DOMAIN t] :
          \A i \in DOMAIN s2 : t[to[i]] = s2[i] /\ \A j \in 1 .. i - 1 : to[j] < to[i]
    BY DEF Within
  <1> HIDE DEF s2, n
  <1> DEFINE m == to[n + 1]
  <1>3. m \in DOMAIN t /\ t[m] = f /\ \A j \in 1 .. n : to[j] < m
    BY <1>1, <1>2
  <1>4. m \in Nat \ {0} /\ m - 1 \in Nat /\ m <= Len(t) /\ DOMAIN t = 1 .. Len(t)
    BY <1>3
  <1> DEFINE r == SubSeq(t, 1, m - 1)
             to2 == [i \in 1 .. n |-> to[i]]
  <1>5. DOMAIN r = 1 .. m - 1 /\ \A i \in 1 .. m - 1 : r[i] = t[i]
    <2> HIDE DEF m
    <2>1. Len(r) = m - 1 /\ r \in Seq(Frames) /\ \A i \in 1 .. m - 1 : r[i] = t[i]
      BY <1>4, PrefixFacts
    <2> HIDE DEF r
    <2> QED
      BY <2>1
  <1> HIDE DEF m, r
  <1>6. \A i \in 1 .. n : to[i] \in 1 .. m - 1 /\ t[to[i]] = s[i]
                          /\ \A j \in 1 .. i - 1 : to[j] < to[i]
    <2>1. ASSUME NEW i \in 1 .. n PROVE to[i] \in 1 .. m - 1
      <3>1. to[i] \in 1 .. Len(t) /\ to[i] < m
        BY <1>1, <1>2, <1>3, <1>4
      <3> QED
        BY <1>4, <3>1
    <2>2. \A i \in 1 .. n : t[to[i]] = s[i]
      BY <1>1, <1>2
    <2>3. ASSUME NEW i \in 1 .. n PROVE \A j \in 1 .. i - 1 : to[j] < to[i]
      <3>1. i \in DOMAIN s2
        BY <1>1
      <3> QED
        BY <1>2, <3>1
    <2> QED
      BY <2>1, <2>2, <2>3
  <1>7. to2 \in [1 .. n -> 1 .. m - 1]
    BY <1>6
  <1>8. \A i \in 1 .. n : r[to2[i]] = s[i] /\ \A j \in 1 .. i - 1 : to2[j] < to2[i]
    <2>1. \A i \in 1 .. n : to2[i] = to[i]
      OBVIOUS
    <2>2. ASSUME NEW i \in 1 .. n PROVE r[to2[i]] = s[i]
      BY <1>5, <1>6, <2>1
    <2>3. ASSUME NEW i \in 1 .. n, NEW j \in 1 .. i - 1 PROVE to2[j] < to2[i]
      <3>1. j \in 1 .. n
        BY <1>1, <2>3
      <3>2. to[j] < to[i]
        BY <1>6, <2>3
      <3> HIDE DEF to2
      <3> QED
        BY <2>1, <3>1, <3>2
    <2> HIDE DEF to2
    <2> QED
      BY <2>2, <2>3
  <1> HIDE DEF to2
  <1>9. Within(s, r)
    BY <1>1, <1>5, <1>7, <1>8 DEF Within
  <1> QED
    BY <1>3, <1>9 DEF r

(* What is within a sequence's beginning is within the sequence.           *)
LEMMA WithinMore ==
  ASSUME NEW s \in Seq(Frames), NEW t \in Seq(Frames), NEW n \in Nat, NEW m \in Nat,
         n <= m, m <= Len(t), Within(s, SubSeq(t, 1, n))
  PROVE  Within(s, SubSeq(t, 1, m))
  <1> DEFINE r == SubSeq(t, 1, n)
             q == SubSeq(t, 1, m)
  <1>1. r \in Seq(Frames) /\ Len(r) = n /\ \A i \in 1 .. n : r[i] = t[i]
    BY PrefixFacts
  <1>2. q \in Seq(Frames) /\ Len(q) = m /\ \A i \in 1 .. m : q[i] = t[i]
    BY PrefixFacts
  <1> HIDE DEF r, q
  <1>3. DOMAIN r = 1 .. n /\ DOMAIN q = 1 .. m /\ \A i \in 1 .. n : r[i] = q[i]
    BY <1>1, <1>2
  <1>4. PICK to \in [DOMAIN s -> DOMAIN r] :
          \A i \in DOMAIN s : r[to[i]] = s[i] /\ \A j \in 1 .. i - 1 : to[j] < to[i]
    BY DEF Within, r
  <1>5. to \in [DOMAIN s -> DOMAIN q]
    BY <1>3, <1>4
  <1>6. \A i \in DOMAIN s : q[to[i]] = s[i]
    BY <1>3, <1>4
  <1>7. Within(s, q)
    BY <1>4, <1>5, <1>6 DEF Within
  <1> QED
    BY <1>7 DEF q

(* So a function can be left with or without its end event.                *)
LEMMA WithinReturn ==
  ASSUME NEW s \in Seq(Frames), NEW t \in Seq(Frames), NEW f \in Frames,
         Within(Append(s, f), t)
  PROVE  Within(s, t) /\ Within(s, Closed(t, f))
  <1>1. PICK m \in DOMAIN t : t[m] = f /\ Within(s, SubSeq(t, 1, m - 1))
    BY WithinLess
  <1>2. m \in Nat \ {0} /\ m <= Len(t) /\ Len(t) \in Nat /\ SubSeq(t, 1, Len(t)) = t
    OBVIOUS
  <1>3. Within(s, t)
    <2>1. m - 1 \in Nat /\ m - 1 <= Len(t) /\ Len(t) <= Len(t)
      BY <1>2
    <2>2. Within(s, SubSeq(t, 1, Len(t)))
      BY <1>1, <1>2, <2>1, WithinMore
    <2> QED
      BY <1>2, <2>2
  <1>4. PICK k \in DOMAIN t :
          /\ \A i \in DOMAIN t : t[i] = f => i <= k
          /\ Closed(t, f) = SubSeq(t, 1, k - 1)
    BY <1>1, ClosedFacts
  <1>5. Within(s, Closed(t, f))
    <2>1. m <= k /\ k \in 1 .. Len(t)
      BY <1>1, <1>4
    <2>2. m - 1 \in Nat /\ k - 1 \in Nat /\ m - 1 <= k - 1 /\ k - 1 <= Len(t)
      BY <1>2, <2>1
    <2> QED
      BY <1>1, <1>4, <2>2, WithinMore
  <1> QED
    BY <1>3, <1>5

(* A function that was called last is closed alone.                        *)
LEMMA ClosedLast ==
  ASSUME NEW t \in Seq(Frames), NEW f \in Frames
  PROVE  Closed(Append(t, f), f) = t
  <1> DEFINE t2 == Append(t, f)
             n  == Len(t)
  <1>1. /\ t2 \in Seq(Frames) /\ n \in Nat /\ Len(t2) = n + 1 /\ t2[n + 1] = f
        /\ DOMAIN t2 = 1 .. n + 1 /\ \A i \in 1 .. n : t2[i] = t[i]
    OBVIOUS
  <1> HIDE DEF t2, n
  <1>2. PICK k \in DOMAIN t2 :
          /\ \A i \in DOMAIN t2 : t2[i] = f => i <= k
          /\ Closed(t2, f) = SubSeq(t2, 1, k - 1)
    <2>1. \E i \in DOMAIN t2 : t2[i] = f
      BY <1>1
    <2> QED
      BY <1>1, <2>1, ClosedFacts
  <1>3. k - 1 = n
    BY <1>1, <1>2
  <1> DEFINE r == SubSeq(t2, 1, n)
  <1>4. r \in Seq(Frames) /\ Len(r) = n /\ \A i \in 1 .. n : r[i] = t2[i]
    <2>1. n <= Len(t2)
      BY <1>1
    <2> QED
      BY <1>1, <2>1, PrefixFacts
  <1> HIDE DEF r
  <1>5. r = t
    <2>1. \A i \in 1 .. n : r[i] = t[i]
      BY <1>1, <1>4
    <2> QED
      BY <1>4, <2>1, SeqEqual DEF n
  <1> QED
    BY <1>2, <1>3, <1>5 DEF r, t2

-----------------------------------------------------------------------------
(* The trace and the stack.                                                *)

TraceInv == StackInTrace /\ StackWithinTrace

(* Nothing is open in an empty trace, nor is anything traced of a bracket. *)
LEMMA TraceEmpty ==
  ASSUME file' = <<>>, NEW f \in {Main, Initialiser}, stack' = <<f>>
  PROVE  Open' = <<>> /\ Traced' = <<>> /\ Within(Traced, Open)'
  <1>1. Open' = <<>>
    BY OpenAppend DEF Open
  <1>2. Traced' = <<>>
    <2>1. stack' = Append(<<>>, f) /\ f \in Frames /\ <<>> \in Seq(Frames)
      BY DEF Frames
    <2>2. f \notin (on \cap Functions)'
      BY TextTraceAssumption
    <2>3. FramesOf(stack, on \cap Functions)'
            = Picked((on \cap Functions)', FramesOf(<<>>, (on \cap Functions)'), f)
      BY <2>1, FramesOfAppend
    <2> QED
      BY <2>2, <2>3, FramesOfAppend DEF Traced, Picked
  <1>3. Within(<<>>, <<>>)
    <2>1. [i \in {} |-> i] \in [DOMAIN <<>> -> DOMAIN <<>>] /\ DOMAIN <<>> = {}
      OBVIOUS
    <2> QED
      BY <2>1 DEF Within
  <1> QED
    BY <1>1, <1>2, <1>3 DEF Within

(* An event is logged, and read.                                           *)
LEMMA OpenLog ==
  ASSUME TypeOK, NEW op \in {"fb", "fe", "access"}, NEW f \in Frames,
         NEW next, Log(op, f, next), out
  PROVE  Open' = CASE op = "fb" -> Append(Open, f)
                   [] op = "fe" -> Closed(Open, f)
                   [] OTHER -> Open
  <1> DEFINE e == [op |-> op, function |-> f]
  <1>1. e \in Event /\ file' = Append(file, e) /\ file \in Seq(Event)
    BY DEF Event, Log, TypeOK
  <1>2. OpenIn(file') = Read(OpenIn(file), e)
    <2> HIDE DEF e
    <2> QED
      BY <1>1, OpenAppend
  <1> QED
    BY <1>2 DEF Open, Read

(* What a call and its begin event do to both.                             *)
LEMMA TraceBegin ==
  ASSUME TypeOK, NEW f \in Functions, NEW next, Begin(f, next), out,
         stack' = Append(stack, f), on' = on
  PROVE  \/ Open' = Append(Open, f) /\ Traced' = Append(Traced, f)
         \/ Open' = Open /\ Traced' = Traced
  <1>1. f \in Frames /\ stack \in Seq(Frames)
    BY DEF Frames, TypeOK
  <1>2. Traced' = Picked(on \cap Functions, Traced, f)
    BY <1>1, FramesOfAppend DEF Traced
  <1>3. CASE f \in on
    <2>1. Log("fb", f, next)
      BY <1>3, TextTraceAssumption DEF Begin
    <2>2. Open' = Append(Open, f)
      BY <1>1, <2>1, OpenLog
    <2> QED
      BY <1>2, <1>3, <2>2 DEF Picked
  <1>4. CASE f \notin on
    <2>1. Open' = Open
      BY <1>4 DEF Begin, Open
    <2> QED
      BY <1>2, <1>4, <2>1 DEF Picked
  <1> QED
    BY <1>3, <1>4

(* The frames traced are those below the top and, if it is traced, the top.*)
LEMMA TracedPop ==
  ASSUME TypeOK, stack # <<>>, stack' = SubSeq(stack, 1, Len(stack) - 1), on' = on
  PROVE  Traced = Picked(on \cap Functions, Traced', stack[Len(stack)])
  <1>1. /\ stack' \in Seq(Frames) /\ stack[Len(stack)] \in Frames
        /\ stack = Append(stack', stack[Len(stack)])
    BY LastOf DEF TypeOK
  <1> QED
    BY <1>1, FramesOfAppend DEF Traced

(* While initialisers or main run and the FILE is open, what returns and   *)
(* leaves it open is a function.                                           *)
LEMMA ReturnsFunction ==
  ASSUME Inv, Return, out', phase' \in {"initialisers", "main"}
  PROVE  /\ stack # <<>> /\ stack[Len(stack)] \in Functions /\ phase' = phase /\ out
         /\ End(stack[Len(stack)], phase)
  <1> DEFINE top == stack[Len(stack)]
             next == IF top = Main THEN "exit" ELSE phase
  <1>1. /\ stack # <<>> /\ phase \notin {"ended", "crashed"} /\ End(top, next)
    BY DEF Return, Running
  <1>2. top \in Frames /\ Len(stack) \in Nat \ {0}
    BY <1>1, PopFacts DEF Inv, TypeOK
  <1>3. /\ out /\ phase' = next
        /\ top \in on /\ top \notin Functions => ~out'
    <2> HIDE DEF top, next
    <2> QED
      BY <1>1, <1>2, Ends
  <1>4. top # Main /\ phase' = phase
    BY <1>3
  <1>5. top \in Functions
    <2> HIDE DEF next
    <2>1. /\ \A i \in 2 .. Len(stack) : stack[i] \in Functions
          /\ phase = "main" => stack[1] = Main
          /\ phase = "initialisers" /\ out => stack[1] = Initialiser /\ Initialiser \in on
      BY DEF Inv, StackInv
    <2>2. CASE Len(stack) = 1
      <3>1. top = stack[1] /\ phase \in {"initialisers", "main"}
        BY <1>4, <2>2
      <3>2. top \in on
        BY <1>3, <1>4, <2>1, <3>1
      <3> QED
        BY <1>3, <3>2
    <2>3. CASE Len(stack) # 1
      <3>1. Len(stack) \in 2 .. Len(stack)
        BY <1>2, <2>3
      <3> QED
        BY <2>1, <3>1
    <2> QED
      BY <2>2, <2>3
  <1> QED
    BY <1>1, <1>3, <1>4, <1>5

(* Every step keeps trace and stack together.                              *)
LEMMA TraceStep == Inv /\ TraceInv /\ [Next]_vars => TraceInv'
  <1> SUFFICES ASSUME Inv, TraceInv, [Next]_vars PROVE TraceInv'
    OBVIOUS
  <1> USE DEF TraceInv
  <1>0. TypeOK /\ StackInv /\ TypeOK'
    BY TypeNext DEF Inv
  <1>a. ~(out' /\ phase' \in {"initialisers", "main"}) => TraceInv'
    BY DEF StackInTrace, StackWithinTrace
  <1>1. SUFFICES ASSUME out', phase' \in {"initialisers", "main"} PROVE TraceInv'
    BY <1>a
  <1>b. /\ Open \in Seq(Frames) /\ Open' \in Seq(Frames)
        /\ Traced \in Seq(Frames) /\ Traced' \in Seq(Frames)
    <2>1. /\ file \in Seq(Event) /\ file' \in Seq(Event)
          /\ stack \in Seq(Frames) /\ stack' \in Seq(Frames)
      BY <1>0 DEF TypeOK
    <2>2. \A set : FramesOf(stack, set) \in Seq(Frames) /\ FramesOf(stack', set) \in Seq(Frames)
      BY <2>1, FramesTypes
    <2> QED
      BY <2>1, <2>2, OpenTypes DEF Open, Traced
  <1>c. UNCHANGED <<exceptions, on>>
    BY DEF Next, vars, RunInitialiser, RunMain, Call, Counted, Access, Return, Unwind,
           Exit, Finish
  <1>2. ASSUME out, phase' = phase, UNCHANGED <<file, stack>>
        PROVE  TraceInv'
    <2>1. Open' = Open /\ Traced' = Traced
      BY <1>c, <1>2 DEF Open, Traced
    <2> QED
      BY <1>1, <1>2, <1>c, <2>1 DEF StackInTrace, StackWithinTrace
  <1>3. ASSUME NEW f \in {Main, Initialiser}, NEW next, Begin(f, next), stack' = <<f>>, ~out
        PROVE  TraceInv'
    <2>1. file' = <<>>
      BY <1>1, <1>3, TextTraceAssumption DEF Begin, LogInit
    <2>2. Open' = <<>> /\ Traced' = <<>> /\ Within(Traced, Open)'
      BY <1>3, <2>1, TraceEmpty
    <2> QED
      BY <2>2 DEF StackInTrace, StackWithinTrace
  <1>4. CASE RunInitialiser
    <2>1. ~out
      BY <1>0, <1>4 DEF RunInitialiser, StackInv
    <2> QED
      BY <1>3, <1>4, <2>1, <1>0 DEF RunInitialiser, TypeOK
  <1>5. CASE RunMain
    <2>1. ~out
      BY <1>0, <1>5 DEF RunMain, StackInv
    <2> QED
      BY <1>3, <1>5, <2>1, <1>0 DEF RunMain, TypeOK
  <1>6. ASSUME NEW f \in Functions, Call(f) PROVE TraceInv'
    <2>1. Begin(f, phase) /\ stack' = Append(stack, f)
      BY <1>6 DEF Call
    <2>2. out /\ phase' = phase
      <3>1. out' = out /\ (phase' = phase \/ (phase' = "crashed" /\ ~out))
        BY <2>1, FunctionBegins
      <3> QED
        BY <1>1, <3>1
    <2>3. \/ Open' = Append(Open, f) /\ Traced' = Append(Traced, f)
          \/ Open' = Open /\ Traced' = Traced
      BY <1>0, <1>c, <2>1, <2>2, TraceBegin
    <2>4. StackInTrace'
      BY <1>1, <1>c, <2>2, <2>3 DEF StackInTrace
    <2>5. Within(Traced, Open)
      BY <1>1, <2>2 DEF StackWithinTrace
    <2>6. Within(Traced', Open')
      <3>1. f \in Frames
        BY DEF Frames
      <3> QED
        BY <1>b, <2>3, <2>5, <3>1, WithinAppend
    <2>7. StackWithinTrace'
      BY <2>6 DEF StackWithinTrace, Within
    <2> QED
      BY <2>4, <2>7
  <1>7. CASE Access
    <2>1. /\ Log("access", stack[Len(stack)], phase) /\ stack # <<>>
          /\ UNCHANGED stack
      BY <1>7 DEF Access, Running
    <2>2. stack[Len(stack)] \in Frames
      BY <1>0, <2>1, PopFacts DEF TypeOK
    <2>3. out /\ phase' = phase
      BY <1>1, <2>1 DEF Log
    <2>4. Open' = Open
      BY <1>0, <2>1, <2>2, <2>3, OpenLog
    <2>5. Traced' = Traced
      BY <1>c, <2>1 DEF Traced
    <2> QED
      BY <1>1, <1>c, <2>3, <2>4, <2>5 DEF StackInTrace, StackWithinTrace
  <1>8. ASSUME stack # <<>>, stack' = SubSeq(stack, 1, Len(stack) - 1), out, phase' = phase,
               NEW f \in Frames, f = stack[Len(stack)],
               \/ Open' = Open /\ (f \in on \cap Functions => exceptions)
               \/ Open' = Closed(Open, f) /\ f \in on \cap Functions
        PROVE  TraceInv'
    <2>1. Traced = Picked(on \cap Functions, Traced', f)
      BY <1>0, <1>8, <1>c, TracedPop
    <2>2. Within(Traced, Open) /\ (~exceptions => Open = Traced)
      BY <1>1, <1>8 DEF StackInTrace, StackWithinTrace
    <2>3. CASE f \in on \cap Functions
      <3>1. Traced = Append(Traced', f)
        BY <2>1, <2>3 DEF Picked
      <3>2. Within(Traced', Open) /\ Within(Traced', Closed(Open, f))
        BY <1>8, <1>b, <2>2, <3>1, WithinReturn
      <3>3. ~exceptions => Open' = Traced'
        BY <1>8, <1>b, <2>2, <2>3, <3>1, ClosedLast
      <3>4. Within(Traced', Open')
        BY <1>8, <3>2
      <3> QED
        BY <1>c, <3>3, <3>4 DEF StackInTrace, StackWithinTrace, Within
    <2>4. CASE f \notin on \cap Functions
      <3>1. Traced' = Traced /\ Open' = Open
        BY <1>8, <2>1, <2>4 DEF Picked
      <3> QED
        BY <1>c, <2>2, <3>1 DEF StackInTrace, StackWithinTrace
    <2> QED
      BY <2>3, <2>4
  <1>9. CASE Return
    <2>1. /\ stack # <<>> /\ stack[Len(stack)] \in Functions /\ phase' = phase /\ out
          /\ End(stack[Len(stack)], phase)
      BY <1>1, <1>9, ReturnsFunction
    <2>2. stack' = SubSeq(stack, 1, Len(stack) - 1)
      BY <1>9 DEF Return
    <2>3. stack[Len(stack)] \in Frames
      BY <2>1 DEF Frames
    <2>4. CASE stack[Len(stack)] \in on
      <3>1. Log("fe", stack[Len(stack)], phase)
        BY <2>1, <2>4, TextTraceAssumption DEF End
      <3>2. Open' = Closed(Open, stack[Len(stack)])
        BY <1>0, <2>1, <2>3, <3>1, OpenLog
      <3> QED
        BY <1>8, <2>1, <2>2, <2>3, <2>4, <3>2
    <2>5. CASE stack[Len(stack)] \notin on
      <3>1. Open' = Open
        BY <2>1, <2>5 DEF End, Open
      <3> QED
        BY <1>8, <2>1, <2>2, <2>3, <2>5, <3>1
    <2> QED
      BY <2>4, <2>5
  <1>10. CASE Unwind
    <2>1. /\ stack # <<>> /\ stack' = SubSeq(stack, 1, Len(stack) - 1)
          /\ exceptions /\ UNCHANGED <<phase, out, file>>
      BY <1>10 DEF Unwind, Running
    <2>2. stack[Len(stack)] \in Frames /\ Open' = Open
      BY <1>0, <2>1, PopFacts DEF TypeOK, Open
    <2> QED
      BY <1>1, <1>8, <2>1, <2>2
  <1>11. CASE Exit
    BY <1>1, <1>11 DEF Exit
  <1>12. CASE Finish
    BY <1>1, <1>12 DEF Finish
  <1>13. CASE UNCHANGED vars
    BY <1>1, <1>2, <1>13 DEF vars
  <1> QED
    BY <1>4, <1>5, <1>6, <1>7, <1>9, <1>10, <1>11, <1>12, <1>13 DEF Next

(* At first the FILE is closed.                                            *)
LEMMA TraceInit == Init => TraceInv
  BY DEF Init, TraceInv, StackInTrace, StackWithinTrace

(* Without exceptions, a reader of the trace who has come to its end knows *)
(* the call stack, whatever program has run and however it calls itself.   *)
THEOREM TraceTellsStack == Spec => []StackInTrace
  <1>1. TraceInv => StackInTrace
    BY DEF TraceInv
  <1> QED
    BY <1>1, InvInit, InvNext, TraceInit, TraceStep, PTL DEF Spec

(* With exceptions, the reader misses no function that runs.               *)
THEOREM TraceHasStack == Spec => []StackWithinTrace
  <1>1. TraceInv => StackWithinTrace
    BY DEF TraceInv
  <1> QED
    BY <1>1, InvInit, InvNext, TraceInit, TraceStep, PTL DEF Spec

=============================================================================
