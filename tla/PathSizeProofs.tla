--------------------------- MODULE PathSizeProofs ----------------------------
(***************************************************************************)
(* Theorems about PathSize, for any control-flow graph: the exploration    *)
(* keeps its types and never explores a block within its own exploration;  *)
(* the lines it finds are those of a path, no more than the function's;    *)
(* and without loops there is no longer path.                              *)
(***************************************************************************)
EXTENDS PathSize, FiniteSetTheorems, TLAPS

(* A stack without its top.                                                *)
LEMMA Popped ==
  ASSUME NEW s \in Seq(Frame), s # <<>>
  PROVE  LET b == SubSeq(s, 1, Len(s) - 1)
         IN /\ Len(s) \in Nat \ {0} /\ s[Len(s)] \in Frame
            /\ DOMAIN s = 1 .. Len(s)
            /\ b \in Seq(Frame) /\ Len(b) = Len(s) - 1
            /\ \A j \in 1 .. Len(s) - 1 : b[j] = s[j]
<1> DEFINE b == SubSeq(s, 1, Len(s) - 1)
<1>1. Len(s) \in Nat \ {0} /\ s[Len(s)] \in Frame /\ DOMAIN s = 1 .. Len(s)
  OBVIOUS
<1>2. b \in Seq(Frame) /\ Len(b) = Len(s) - 1
  <2>1. Len(s) - 1 \in Nat /\ Len(s) - 1 <= Len(s)
    BY <1>1
  <2>2. b = [i \in 1 .. Len(s) - 1 |-> s[i]]
    BY <2>1
  <2>3. \A i \in 1 .. Len(s) - 1 : s[i] \in Frame
    BY <1>1
  <2> HIDE DEF b
  <2> QED BY <2>1, <2>2, <2>3
<1>3. \A j \in 1 .. Len(s) - 1 : b[j] = s[j]
  BY <1>1
<1> QED BY <1>1, <1>2, <1>3

(* A stack with a new top.                                                 *)
LEMMA Pushed ==
  ASSUME NEW s \in Seq(Frame), NEW f \in Frame
  PROVE  /\ Append(s, f) \in Seq(Frame) /\ Len(Append(s, f)) = Len(s) + 1
         /\ \A j \in 1 .. Len(s) : Append(s, f)[j] = s[j]
         /\ Append(s, f)[Len(s) + 1] = f
         /\ DOMAIN Append(s, f) = 1 .. Len(s) + 1
         /\ DOMAIN s = 1 .. Len(s) /\ Len(s) \in Nat
OBVIOUS

(* There is no call on the empty stack.                                    *)
LEMMA NoCalls == <<>> \in Seq(Frame) /\ DOMAIN <<>> = {}
OBVIOUS

(* No block is being explored twice.                                       *)
Distinct(s) == \A i, j \in DOMAIN s : s[i].block = s[j].block => i = j

(* What has been found is made of the function's lines.                    *)
Found ==
  /\ \A b \in DOMAIN visits : visits[b] \subseteq AllLines
  /\ \A i \in DOMAIN stack : stack[i].best \subseteq AllLines

(* The inductive invariant: the blocks being explored have been entered,   *)
(* and the entry block is, once the exploration has begun.                 *)
Inv ==
  /\ TypeOK
  /\ Found
  /\ \A i \in DOMAIN stack : stack[i].block \in DOMAIN visits
  /\ pc = "path" => fn.entry \in DOMAIN visits
  /\ PathWithinLoc

(* A function has finitely many lines, those of a block among them.        *)
LEMMA LinesFinite ==
  ASSUME TypeOK
  PROVE  /\ IsFiniteSet(AllLines) /\ AllLines \subseteq Lines
         /\ Cardinality(AllLines) \in Nat /\ Cardinality(Blocks) \in Nat
         /\ \A b \in Blocks : fn.lines[b] \subseteq AllLines
<1>1. AllLines \subseteq Lines /\ \A b \in Blocks : fn.lines[b] \subseteq AllLines
  BY DEF TypeOK, IsFunction, AllLines
<1>2. IsFiniteSet(AllLines)
  BY <1>1, PathSizeAssumption, FS_Subset
<1> QED BY <1>1, <1>2, PathSizeAssumption, FS_CardinalityType

(* An entry in visits.                                                     *)
LEMMA WithTypes ==
  ASSUME TypeOK, Found, NEW b \in Blocks, NEW set \in SUBSET AllLines
  PROVE  /\ DOMAIN With(b, set) = DOMAIN visits \cup {b}
         /\ DOMAIN With(b, set) \subseteq Blocks
         /\ With(b, set) \in [DOMAIN With(b, set) -> SUBSET Lines]
         /\ \A c \in DOMAIN With(b, set) : With(b, set)[c] \subseteq AllLines
<1>1. AllLines \subseteq Lines
  BY LinesFinite
<1>2. DOMAIN visits \subseteq Blocks
  BY DEF TypeOK
<1>3. DOMAIN With(b, set) = DOMAIN visits \cup {b}
  BY DEF With
<1>4. \A c \in DOMAIN visits \cup {b} : With(b, set)[c] \in SUBSET AllLines
  BY DEF With, Found
<1>5. With(b, set) = [c \in DOMAIN visits \cup {b} |-> With(b, set)[c]]
  BY DEF With
<1> HIDE DEF With
<1> QED BY <1>1, <1>2, <1>3, <1>4, <1>5

(* A call of explorePath on a block that has not been visited.             *)
LEMMA EnterStep ==
  ASSUME TypeOK, Found, \A i \in DOMAIN stack : stack[i].block \in DOMAIN visits,
         NEW b \in Blocks \ DOMAIN visits, Enter(b, stack),
         UNCHANGED <<fn, metric, loops, fnSize>>, pc' \in {"size", "path", "done"}
  PROVE  /\ TypeOK' /\ Found'
         /\ \A i \in DOMAIN stack' : stack'[i].block \in DOMAIN visits'
         /\ DOMAIN visits' = DOMAIN visits \cup {b}
<1> DEFINE f == [block |-> b, next |-> 1, best |-> {}]
<1>1. /\ visits' = With(b, fn.lines[b])
      /\ stack' = stack \/ stack' = Append(stack, f)
  BY DEF Enter, Entered
<1>2. fn.lines[b] \in SUBSET AllLines
  BY LinesFinite
<1>3. /\ DOMAIN visits' = DOMAIN visits \cup {b} /\ DOMAIN visits' \subseteq Blocks
      /\ visits' \in [DOMAIN visits' -> SUBSET Lines]
      /\ \A c \in DOMAIN visits' : visits'[c] \subseteq AllLines
  BY <1>1, <1>2, WithTypes
<1>4. f \in Frame /\ f.block = b /\ f.best = {}
  BY DEF Frame
<1> HIDE DEF f
<1>5. /\ stack' \in Seq(Frame) /\ Distinct(stack')
      /\ \A i \in DOMAIN stack' : stack'[i].block \in DOMAIN visits'
      /\ \A i \in DOMAIN stack' : stack'[i].best \subseteq AllLines
  <2>1. stack \in Seq(Frame) /\ Distinct(stack)
    BY DEF TypeOK, Distinct
  <2>2. CASE stack' = stack
    BY <1>3, <2>1, <2>2 DEF Found
  <2>3. CASE stack' = Append(stack, f)
    <3>1. /\ stack' \in Seq(Frame) /\ DOMAIN stack' = 1 .. Len(stack) + 1
          /\ DOMAIN stack = 1 .. Len(stack) /\ Len(stack) \in Nat
          /\ \A j \in 1 .. Len(stack) : stack'[j] = stack[j]
          /\ stack'[Len(stack) + 1] = f
      BY <1>4, <2>1, <2>3, Pushed
    <3>2. \A j \in 1 .. Len(stack) : stack[j].block # b
      BY <3>1
    <3>3. Distinct(stack')
      BY <1>4, <2>1, <3>1, <3>2 DEF Distinct
    <3>4. \A i \in DOMAIN stack' : stack'[i].block \in DOMAIN visits'
      BY <1>3, <1>4, <3>1
    <3>5. \A i \in DOMAIN stack' : stack'[i].best \subseteq AllLines
      BY <1>4, <3>1 DEF Found
    <3> QED BY <3>1, <3>3, <3>4, <3>5
  <2> QED BY <1>1, <2>2, <2>3
<1>6. TypeOK'
  BY <1>3, <1>5 DEF TypeOK, Distinct
<1>7. Found'
  BY <1>3, <1>5 DEF Found, AllLines
<1> QED BY <1>3, <1>5, <1>6, <1>7

(* The top of the stack and what is below it.                              *)
LEMMA TopOf ==
  ASSUME TypeOK, stack # <<>>
  PROVE  /\ stack \in Seq(Frame) /\ Distinct(stack)
         /\ Len(stack) \in Nat \ {0} /\ Top \in Frame /\ Top = stack[Len(stack)]
         /\ DOMAIN stack = 1 .. Len(stack)
         /\ Below \in Seq(Frame) /\ Len(Below) = Len(stack) - 1
         /\ \A j \in 1 .. Len(stack) - 1 : Below[j] = stack[j]
<1>1. stack \in Seq(Frame) /\ Distinct(stack)
  BY DEF TypeOK, Distinct
<1> QED BY <1>1, Popped DEF Top, Below

(* The top of the stack after a turn of the loop.                          *)
LEMMA Turned ==
  ASSUME TypeOK, Found, stack # <<>>, Successor(Top) \in DOMAIN visits
  PROVE  LET f == Advanced(Top)
             s == Append(Below, f)
         IN /\ f \in Frame /\ f.block = Top.block /\ f.next = Top.next + 1
            /\ f.best = MaxLineSet(Top) /\ MaxLineSet(Top) \subseteq AllLines
            /\ s \in Seq(Frame) /\ DOMAIN s = DOMAIN stack /\ Len(s) = Len(stack)
            /\ \A j \in 1 .. Len(stack) - 1 : s[j] = stack[j]
            /\ s[Len(stack)] = f
<1> DEFINE f == Advanced(Top)
           s == Append(Below, f)
<1>1. /\ Len(stack) \in Nat \ {0} /\ Top \in Frame /\ Top = stack[Len(stack)]
      /\ DOMAIN stack = 1 .. Len(stack)
      /\ Below \in Seq(Frame) /\ Len(Below) = Len(stack) - 1
      /\ \A j \in 1 .. Len(stack) - 1 : Below[j] = stack[j]
  BY TopOf
<1>2. MaxLineSet(Top) \subseteq AllLines /\ AllLines \subseteq Lines
  <2>1. Top.best \subseteq AllLines
    BY <1>1 DEF Found
  <2>2. Top.block \in Blocks
    BY <1>1 DEF Frame
  <2>3. OnPath(Top) \subseteq AllLines
    BY <2>2, LinesFinite DEF OnPath, Found
  <2> QED BY <2>1, <2>3, LinesFinite DEF MaxLineSet
<1>3. /\ f \in Frame /\ f.block = Top.block /\ f.next = Top.next + 1
      /\ f.best = MaxLineSet(Top)
  <2> DEFINE best == MaxLineSet(Top)
  <2>1. f = [Top EXCEPT !.best = best, !.next = @ + 1]
    BY DEF Advanced
  <2> HIDE DEF f, best
  <2>2. /\ f.block = Top.block /\ f.next = Top.next + 1 /\ f.best = MaxLineSet(Top)
        /\ f = [block |-> f.block, next |-> f.next, best |-> f.best]
    BY <1>1, <2>1 DEF Frame, best
  <2>3. f.block \in Blocks /\ f.next \in Nat \ {0} /\ f.best \in SUBSET Lines
    BY <1>1, <1>2, <2>2 DEF Frame
  <2> QED BY <2>2, <2>3 DEF Frame
<1> HIDE DEF f
<1>4. /\ s \in Seq(Frame) /\ Len(s) = Len(Below) + 1
      /\ \A j \in 1 .. Len(Below) : s[j] = Below[j]
      /\ s[Len(Below) + 1] = f
      /\ DOMAIN s = 1 .. Len(Below) + 1
  BY <1>1, <1>3, Pushed
<1>5. Len(Below) + 1 = Len(stack)
  BY <1>1
<1> HIDE DEF s
<1>6. /\ s \in Seq(Frame) /\ DOMAIN s = DOMAIN stack /\ Len(s) = Len(stack)
      /\ \A j \in 1 .. Len(stack) - 1 : s[j] = stack[j]
      /\ s[Len(stack)] = f
  BY <1>1, <1>4, <1>5
<1> QED BY <1>2, <1>3, <1>6 DEF f, s

(* A turn of the loop replaces the top of the stack.                       *)
LEMMA TakeStep ==
  ASSUME Inv, Take
  PROVE  Inv'
<1>1. /\ TypeOK /\ Found
      /\ \A i \in DOMAIN stack : stack[i].block \in DOMAIN visits
      /\ pc = "path" /\ stack # <<>> /\ HasNext /\ Successor(Top) \in DOMAIN visits
      /\ stack' = Append(Below, Advanced(Top))
      /\ UNCHANGED <<fn, metric, loops, pc, visits, fnSize>>
  BY DEF Inv, Take, Exploring
<1>2. /\ stack \in Seq(Frame) /\ Distinct(stack) /\ Len(stack) \in Nat \ {0}
      /\ Top = stack[Len(stack)] /\ DOMAIN stack = 1 .. Len(stack)
  BY <1>1, TopOf
<1> DEFINE f == Advanced(Top)
<1>3. /\ f.block = Top.block /\ f.best \subseteq AllLines
      /\ stack' \in Seq(Frame) /\ DOMAIN stack' = DOMAIN stack
      /\ \A j \in 1 .. Len(stack) - 1 : stack'[j] = stack[j]
      /\ stack'[Len(stack)] = f
  BY <1>1, Turned
<1> HIDE DEF f
<1>4. ASSUME NEW j \in DOMAIN stack
      PROVE  stack'[j].block = stack[j].block /\ stack'[j].best \subseteq AllLines
  <2>1. CASE j = Len(stack)
    BY <1>2, <1>3, <2>1
  <2>2. CASE j \in 1 .. Len(stack) - 1
    BY <1>1, <1>3, <2>2 DEF Found
  <2> QED BY <1>2, <2>1, <2>2
<1>5. Distinct(stack')
  BY <1>2, <1>3, <1>4 DEF Distinct
<1>6. TypeOK'
  BY <1>1, <1>3, <1>5 DEF TypeOK, Distinct
<1>7. Found'
  BY <1>1, <1>3, <1>4 DEF Found, AllLines
<1>8. (\A i \in DOMAIN stack : stack[i].block \in DOMAIN visits)'
  BY <1>1, <1>3, <1>4
<1> QED BY <1>1, <1>6, <1>7, <1>8 DEF Inv, PathWithinLoc

(* A return keeps the largest set found, in place of the block's own.      *)
LEMMA ReturnStep ==
  ASSUME Inv, Return
  PROVE  Inv'
<1>1. /\ TypeOK /\ Found
      /\ \A i \in DOMAIN stack : stack[i].block \in DOMAIN visits
      /\ pc = "path" /\ stack # <<>> /\ fn.entry \in DOMAIN visits
      /\ visits' = With(Top.block, Top.best) /\ stack' = Below
      /\ UNCHANGED <<fn, metric, loops, pc, fnSize>>
  BY DEF Inv, Return, Exploring
<1>2. stack \in Seq(Frame) /\ Distinct(stack)
  BY <1>1 DEF TypeOK, Distinct
<1>3. /\ Len(stack) \in Nat \ {0} /\ Top \in Frame /\ Top = stack[Len(stack)]
      /\ DOMAIN stack = 1 .. Len(stack)
      /\ stack' \in Seq(Frame) /\ DOMAIN stack' = 1 .. Len(stack) - 1
      /\ \A j \in DOMAIN stack' : stack'[j] = stack[j]
  BY <1>1, <1>2, Popped DEF Top, Below
<1>4. Top.best \in SUBSET AllLines /\ Top.block \in Blocks
  BY <1>1, <1>3 DEF Found, Frame
<1>5. /\ DOMAIN visits' = DOMAIN visits \cup {Top.block} /\ DOMAIN visits' \subseteq Blocks
      /\ visits' \in [DOMAIN visits' -> SUBSET Lines]
      /\ \A c \in DOMAIN visits' : visits'[c] \subseteq AllLines
  BY <1>1, <1>4, WithTypes
<1>6. Distinct(stack') /\ DOMAIN stack' \subseteq DOMAIN stack
  BY <1>2, <1>3 DEF Distinct
<1>7. TypeOK'
  BY <1>1, <1>3, <1>5, <1>6 DEF TypeOK, Distinct
<1>8. Found'
  BY <1>1, <1>3, <1>5, <1>6 DEF Found, AllLines
<1>9. (\A i \in DOMAIN stack : stack[i].block \in DOMAIN visits)'
  BY <1>1, <1>3, <1>5, <1>6
<1> QED BY <1>1, <1>5, <1>7, <1>8, <1>9 DEF Inv, PathWithinLoc

(* The exploration begins with nothing visited and goes on with blocks that*)
(* have not been.                                                          *)
LEMMA CallSteps ==
  ASSUME Inv, Begin \/ Call, (stack = <<>> /\ visits = [b \in {} |-> {}]) \/ Call
  PROVE  Inv'
<1>1. /\ TypeOK /\ Found
      /\ \A i \in DOMAIN stack : stack[i].block \in DOMAIN visits
      /\ pc = "path" => fn.entry \in DOMAIN visits
  BY DEF Inv
<1>2. CASE Call
  <2>1. /\ pc = "path" /\ stack # <<>> /\ HasNext
        /\ Successor(Top) \notin DOMAIN visits /\ Enter(Successor(Top), stack)
        /\ UNCHANGED <<fn, metric, loops, pc, fnSize>>
    BY <1>2 DEF Call, Exploring
  <2>2. stack \in Seq(Frame) /\ Top \in Frame
    BY <1>1, <2>1, Popped DEF TypeOK, Top
  <2>3. Top.block \in Blocks /\ Top.next \in DOMAIN fn.succ[Top.block]
    BY <1>1, <2>1, <2>2 DEF Frame, HasNext, TypeOK, IsFunction
  <2>4. Successor(Top) \in Blocks
    BY <1>1, <2>3 DEF TypeOK, IsFunction, Successor
  <2>5. pc' \in {"size", "path", "done"}
    BY <2>1
  <2>6. /\ TypeOK' /\ Found'
        /\ \A i \in DOMAIN stack' : stack'[i].block \in DOMAIN visits'
        /\ DOMAIN visits' = DOMAIN visits \cup {Successor(Top)}
    BY <1>1, <2>1, <2>4, <2>5, EnterStep
  <2> QED BY <1>1, <2>1, <2>6 DEF Inv, PathWithinLoc
<1>3. CASE Begin /\ stack = <<>> /\ visits = [b \in {} |-> {}]
  <2>1. /\ pc' = "path" /\ Enter(fn.entry, stack)
        /\ UNCHANGED <<fn, metric, loops, fnSize>>
    BY <1>3 DEF Begin
  <2>2. fn.entry \in Blocks \ DOMAIN visits
    BY <1>1, <1>3 DEF TypeOK, IsFunction
  <2>3. pc' \in {"size", "path", "done"}
    BY <2>1
  <2>4. /\ TypeOK' /\ Found'
        /\ \A i \in DOMAIN stack' : stack'[i].block \in DOMAIN visits'
        /\ DOMAIN visits' = DOMAIN visits \cup {fn.entry}
    BY <1>1, <2>1, <2>2, <2>3, EnterStep
  <2> QED BY <2>1, <2>4 DEF Inv, PathWithinLoc
<1> QED BY <1>2, <1>3

(* The size of a path is that of a set of the function's lines.            *)
LEMMA MeasureStep ==
  ASSUME Inv, Measure
  PROVE  Inv'
<1>1. /\ TypeOK /\ Found
      /\ \A i \in DOMAIN stack : stack[i].block \in DOMAIN visits
      /\ pc' = "done" /\ fn.entry \in DOMAIN visits
      /\ fnSize' = IF checkFunctionLoops /\ loopCheckEnabled THEN Huge
                   ELSE Cardinality(visits[fn.entry])
      /\ UNCHANGED <<fn, metric, loops, visits, stack>>
  BY DEF Inv, Measure
<1>2. visits[fn.entry] \subseteq AllLines /\ IsFiniteSet(AllLines)
  BY <1>1, LinesFinite DEF Found
<1>3. /\ Cardinality(visits[fn.entry]) \in Nat
      /\ Cardinality(visits[fn.entry]) <= Cardinality(AllLines)
  BY <1>2, FS_Subset, FS_CardinalityType
<1>4. fnSize' \in Nat
  BY <1>1, <1>3, PathSizeAssumption
<1>5. TypeOK'
  BY <1>1, <1>4 DEF TypeOK
<1>6. Found'
  BY <1>1 DEF Found, AllLines
<1>7. AllLines' = AllLines /\ checkFunctionLoops' = checkFunctionLoops
  BY <1>1 DEF AllLines, checkFunctionLoops, Reachable, ClosedUnderSucc
<1>8. PathWithinLoc'
  <2> SUFFICES ASSUME ~(checkFunctionLoops /\ loops # "false")
               PROVE  fnSize' <= Cardinality(AllLines)
    BY <1>1, <1>7 DEF PathWithinLoc, getFunctionLOCSize
  <2>1. fnSize' = Cardinality(visits[fn.entry])
    BY <1>1 DEF loopCheckEnabled
  <2> QED BY <1>3, <2>1
<1> QED BY <1>1, <1>5, <1>6, <1>8 DEF Inv

(* The other metrics count.                                                *)
LEMMA CountStep ==
  ASSUME Inv, Count
  PROVE  Inv'
<1>1. /\ TypeOK /\ Found
      /\ \A i \in DOMAIN stack : stack[i].block \in DOMAIN visits
      /\ pc' = "done" /\ metric # "LOC_PATH"
      /\ fnSize' = IF metric = "IR" THEN Cardinality(Blocks) ELSE Cardinality(AllLines)
      /\ UNCHANGED <<fn, metric, loops, visits, stack>>
  BY DEF Inv, Count, getFunctionLOCSize
<1>2. fnSize' \in Nat
  BY <1>1, LinesFinite
<1>3. TypeOK'
  BY <1>1, <1>2 DEF TypeOK
<1>4. Found'
  BY <1>1 DEF Found, AllLines
<1> QED BY <1>1, <1>3, <1>4 DEF Inv, PathWithinLoc

-----------------------------------------------------------------------------
(* Before the exploration nothing is visited and nothing on the stack.     *)
Fresh == pc = "size" => stack = <<>> /\ visits = [b \in {} |-> {}]

(* Init establishes the invariant.                                         *)
LEMMA InvInit == Init => Inv /\ Fresh
<1> SUFFICES ASSUME Init PROVE Inv /\ Fresh
  OBVIOUS
<1>1. IsFunction(fn)
  BY PathSizeAssumption DEF Init
<1>2. /\ DOMAIN visits = {} /\ visits \in [DOMAIN visits -> SUBSET Lines]
      /\ stack \in Seq(Frame) /\ DOMAIN stack = {}
  BY NoCalls DEF Init
<1>3. TypeOK
  BY <1>1, <1>2 DEF Init, TypeOK
<1> QED BY <1>2, <1>3 DEF Init, Inv, Found, PathWithinLoc, Fresh

(* Every step keeps it.                                                    *)
LEMMA InvStep == Inv /\ Fresh /\ [Next]_vars => (Inv /\ Fresh)'
<1> SUFFICES ASSUME Inv, Fresh, [Next]_vars PROVE Inv' /\ Fresh'
  OBVIOUS
<1>1. Fresh'
  BY DEF Fresh, Next, Begin, Call, Take, Return, Count, Measure, Terminated, vars,
         Exploring
<1>2. CASE Begin \/ Call
  BY <1>1, <1>2, CallSteps DEF Fresh, Begin
<1>3. CASE UNCHANGED vars
  <2>1. /\ fn' = fn /\ metric' = metric /\ loops' = loops /\ pc' = pc
        /\ visits' = visits /\ stack' = stack /\ fnSize' = fnSize
    BY <1>3 DEF vars
  <2>2. TypeOK'
    BY <2>1 DEF Inv, TypeOK
  <2>3. Found'
    BY <2>1 DEF Inv, Found, AllLines
  <2>4. PathWithinLoc'
    BY <2>1 DEF Inv, PathWithinLoc, checkFunctionLoops, Reachable, ClosedUnderSucc,
                getFunctionLOCSize, AllLines
  <2>5. (pc = "path" => fn.entry \in DOMAIN visits)'
    BY <2>1 DEF Inv
  <2>6. (\A i \in DOMAIN stack : stack[i].block \in DOMAIN visits)'
    BY <2>1 DEF Inv
  <2> QED BY <1>1, <2>2, <2>3, <2>4, <2>5, <2>6 DEF Inv
<1> QED BY <1>1, <1>2, <1>3, TakeStep, ReturnStep, CountStep, MeasureStep
        DEF Next, Terminated

(* For any function: explorePath never explores a block within its own     *)
(* exploration, so that its recursion is no deeper than there are blocks.  *)
THEOREM TypeCorrect == Spec => []TypeOK
<1>1. Inv => TypeOK
  BY DEF Inv
<1> QED BY <1>1, InvInit, InvStep, PTL DEF Spec

(* For any function and filter: a path is never longer than the function.  *)
THEOREM PathIsWithinLoc == Spec => []PathWithinLoc
<1>1. Inv => PathWithinLoc
  BY DEF Inv
<1> QED BY <1>1, InvInit, InvStep, PTL DEF Spec
-----------------------------------------------------------------------------
(* The paths found.                                                        *)

(* A path from b that meets no block twice.                                *)
IsPath(w, b) ==
  /\ w \in Seq(Blocks) /\ w # <<>> /\ w[1] = b
  /\ \A i, j \in DOMAIN w : w[i] = w[j] => i = j
  /\ \A i \in DOMAIN w : i < Len(w) =>
       \E j \in DOMAIN fn.succ[w[i]] : fn.succ[w[i]][j] = w[i + 1]

LinesOn(w) == UNION {fn.lines[w[i]] : i \in DOMAIN w}

(* The calls under way, and the blocks whose exploration is over.          *)
Running == {stack[i] : i \in DOMAIN stack}

Finished == DOMAIN visits \ {f.block : f \in Running}

(* set is what a path from b has, one of blocks visited so far, all of them*)
(* finished but for the first and the last.                                *)
OnSomePath(b, set) ==
  \/ set = {}
  \/ \E w \in Seq(Blocks) :
       /\ IsPath(w, b) /\ set = LinesOn(w)
       /\ \A i \in DOMAIN w : w[i] \in DOMAIN visits /\ ~Dead(w[i])
       /\ \A i \in DOMAIN w : 1 < i /\ i < Len(w) => w[i] \in Finished

(* The calls on the stack are of blocks that follow one another.           *)
CallsInv ==
  /\ DOMAIN visits \subseteq Reachable
  /\ \A f \in Running :
       /\ ~Leaf(f.block) /\ visits[f.block] = fn.lines[f.block]
       /\ f.next <= Len(fn.succ[f.block]) + 1
  /\ \A i \in DOMAIN stack : i < Len(stack) =>
       /\ stack[i].next <= Len(fn.succ[stack[i].block])
       /\ fn.succ[stack[i].block][stack[i].next] = stack[i + 1].block

WalkInv ==
  /\ \A b \in Finished, set \in SUBSET Lines : visits[b] = set => OnSomePath(b, set)
  /\ \A f \in Running : OnSomePath(f.block, f.best)

(* No walk from b that goes on with one of its first n - 1 successors has  *)
(* more lines than set.                                                    *)
Bounds(set, b, n) ==
  \A w \in Walks(b) :
    IF Len(w) = 1 THEN n > 1 => Cardinality(LinesTaken(w)) <= Cardinality(set)
    ELSE \A k \in 1 .. n - 1 : k \in DOMAIN fn.succ[b] /\ w[2] = fn.succ[b][k] =>
           Cardinality(LinesTaken(w)) <= Cardinality(set)

(* In a function without loops nothing longer has been passed over.        *)
BoundInv ==
  Disjoint /\ ~checkFunctionLoops =>
    /\ \A b \in Finished : \A w \in Walks(b) :
         Cardinality(LinesTaken(w)) <= Cardinality(visits[b])
    /\ \A f \in Running : Bounds(f.best, f.block, f.next)

SizeInv == CallsInv /\ WalkInv /\ BoundInv /\ SizeExact

(* The walks from b are sequences.                                         *)
LEMMA WalksAre ==
  ASSUME TypeOK, NEW b \in Blocks, NEW w
  PROVE  w \in Walks(b) <=>
           /\ w \in Seq(Blocks) /\ Len(w) \in 1 .. Cardinality(Blocks) /\ w[1] = b
           /\ \A i \in 1 .. Len(w) - 1 :
                \E j \in DOMAIN fn.succ[w[i]] : fn.succ[w[i]][j] = w[i + 1]
<1>1. Cardinality(Blocks) \in Nat
  BY LinesFinite
<1>2. ASSUME NEW k \in 1 .. Cardinality(Blocks), w \in [1 .. k -> Blocks]
      PROVE  w \in Seq(Blocks) /\ Len(w) \in 1 .. Cardinality(Blocks)
  <2>1. k \in Nat
    BY <1>1
  <2>2. w \in Seq(Blocks) /\ Len(w) = k
    BY <1>2, <2>1
  <2> QED BY <2>2
<1>3. ASSUME w \in Seq(Blocks), Len(w) \in 1 .. Cardinality(Blocks)
      PROVE  w \in [1 .. Len(w) -> Blocks]
  BY <1>3
<1> QED BY <1>2, <1>3 DEF Walks

(* A path meets at most every block.                                       *)
LEMMA PathIsWalk ==
  ASSUME TypeOK, NEW b \in Blocks, NEW w, IsPath(w, b)
  PROVE  w \in Walks(b)
<1>1. /\ w \in Seq(Blocks) /\ w # <<>> /\ w[1] = b /\ Len(w) \in Nat \ {0}
      /\ DOMAIN w = 1 .. Len(w)
  BY DEF IsPath
<1>2. w \in Injection(1 .. Len(w), Blocks)
  BY <1>1 DEF IsPath, Injection, IsInjective
<1>3. Cardinality(1 .. Len(w)) <= Cardinality(Blocks)
  BY <1>2, PathSizeAssumption, FS_Injection
<1>4. Cardinality(1 .. Len(w)) = Len(w)
  <2>1. Cardinality(1 .. Len(w)) = IF 1 > Len(w) THEN 0 ELSE Len(w) - 1 + 1
    BY <1>1, FS_Interval
  <2> QED BY <1>1, <2>1
<1>5. Len(w) \in 1 .. Cardinality(Blocks)
  BY <1>1, <1>3, <1>4, LinesFinite
<1>6. \A i \in 1 .. Len(w) - 1 :
        \E j \in DOMAIN fn.succ[w[i]] : fn.succ[w[i]][j] = w[i + 1]
  BY <1>1 DEF IsPath
<1> QED BY <1>1, <1>5, <1>6, WalksAre

(* A block alone is a path.                                                *)
LEMMA OneBlock ==
  ASSUME NEW b \in Blocks
  PROVE  /\ IsPath(<<b>>, b) /\ LinesOn(<<b>>) = fn.lines[b]
         /\ DOMAIN <<b>> = {1} /\ Len(<<b>>) = 1 /\ <<b>>[1] = b
<1> DEFINE w == <<b>>
<1>1. w \in Seq(Blocks) /\ w # <<>> /\ DOMAIN w = {1} /\ Len(w) = 1 /\ w[1] = b
  OBVIOUS
<1> HIDE DEF w
<1>2. IsPath(w, b)
  BY <1>1 DEF IsPath
<1>3. LinesOn(w) = fn.lines[b]
  BY <1>1 DEF LinesOn
<1> QED BY <1>1, <1>2, <1>3 DEF w

(* A path with a block it does not meet put before it.                     *)
LEMMA Prepended ==
  ASSUME NEW b \in Blocks, NEW s \in Blocks, NEW w, IsPath(w, s),
         \A i \in DOMAIN w : w[i] # b,
         \E j \in DOMAIN fn.succ[b] : fn.succ[b][j] = s
  PROVE  \E v : /\ IsPath(v, b) /\ LinesOn(v) = fn.lines[b] \cup LinesOn(w)
                /\ Len(v) = Len(w) + 1 /\ DOMAIN v = 1 .. Len(w) + 1 /\ v[1] = b
                /\ \A i \in DOMAIN v : i > 1 => i - 1 \in DOMAIN w /\ v[i] = w[i - 1]
<1>1. /\ w \in Seq(Blocks) /\ w[1] = s /\ Len(w) \in Nat \ {0} /\ DOMAIN w = 1 .. Len(w)
  BY DEF IsPath
<1> DEFINE n == Len(w) + 1
           v == [i \in 1 .. n |-> IF i = 1 THEN b ELSE w[i - 1]]
<1>2. n \in Nat \ {0} /\ \A i \in 1 .. n : i # 1 => i - 1 \in DOMAIN w
  BY <1>1
<1>3. \A i \in 1 .. n : v[i] \in Blocks
  BY <1>1, <1>2
<1>4. /\ v[1] = b /\ \A i \in 1 .. n : i > 1 => i - 1 \in DOMAIN w /\ v[i] = w[i - 1]
  BY <1>1, <1>2
<1>5. v = [i \in 1 .. n |-> v[i]] /\ DOMAIN v = 1 .. n
  OBVIOUS
<1> HIDE DEF v
<1>6. v \in Seq(Blocks) /\ Len(v) = n /\ v # <<>>
  <2>1. v \in Seq(Blocks) /\ Len(v) = n
    BY <1>2, <1>3, <1>5
  <2> QED BY <1>2, <2>1
<1>7. \A i \in DOMAIN w : i + 1 \in 1 .. n /\ v[i + 1] = w[i]
  <2> SUFFICES ASSUME NEW i \in DOMAIN w PROVE i + 1 \in 1 .. n /\ v[i + 1] = w[i]
    OBVIOUS
  <2>1. i + 1 \in 1 .. n /\ i + 1 > 1 /\ (i + 1) - 1 = i
    BY <1>1
  <2> QED BY <1>4, <2>1
<1>8. ASSUME NEW i \in 1 .. n, NEW j \in 1 .. n, v[i] = v[j]
      PROVE  i = j
  <2>1. CASE i = 1 \/ j = 1
    BY <1>2, <1>4, <1>8, <2>1
  <2>2. CASE i # 1 /\ j # 1
    <3>1. i > 1 /\ j > 1
      BY <1>2, <2>2
    <3>2. i - 1 \in DOMAIN w /\ j - 1 \in DOMAIN w /\ w[i - 1] = w[j - 1]
      BY <1>4, <1>8, <3>1
    <3>3. i - 1 = j - 1
      BY <3>2 DEF IsPath
    <3> QED BY <1>2, <3>3
  <2> QED BY <2>1, <2>2
<1>9. ASSUME NEW i \in 1 .. n, i < n
      PROVE  \E j \in DOMAIN fn.succ[v[i]] : fn.succ[v[i]][j] = v[i + 1]
  <2>1. CASE i = 1
    <3>1. v[2] = s
      BY <1>1, <1>7
    <3> QED BY <1>4, <2>1, <3>1
  <2>2. CASE i # 1
    <3>1. i - 1 \in DOMAIN w /\ i - 1 < Len(w) /\ i \in DOMAIN w /\ (i - 1) + 1 = i /\ i > 1
      BY <1>1, <1>2, <1>9, <2>2
    <3>2. \E j \in DOMAIN fn.succ[w[i - 1]] : fn.succ[w[i - 1]][j] = w[i]
      BY <3>1 DEF IsPath
    <3>3. v[i] = w[i - 1] /\ v[i + 1] = w[i]
      BY <1>4, <1>7, <3>1
    <3> QED BY <3>2, <3>3
  <2> QED BY <2>1, <2>2
<1>10. IsPath(v, b)
  BY <1>4, <1>5, <1>6, <1>8, <1>9 DEF IsPath
<1>11. LinesOn(v) = fn.lines[b] \cup LinesOn(w)
  <2>1. ASSUME NEW x \in LinesOn(v) PROVE x \in fn.lines[b] \cup LinesOn(w)
    <3>1. PICK i \in DOMAIN v : x \in fn.lines[v[i]]
      BY <2>1 DEF LinesOn
    <3>2. CASE i = 1
      BY <1>4, <3>1, <3>2
    <3>3. CASE i # 1
      <4>1. i > 1
        BY <1>2, <1>5, <3>3
      <4> QED BY <1>4, <1>5, <3>1, <4>1 DEF LinesOn
    <3> QED BY <3>2, <3>3
  <2>2. fn.lines[b] \subseteq LinesOn(v)
    BY <1>2, <1>4, <1>5 DEF LinesOn
  <2>3. ASSUME NEW x \in LinesOn(w) PROVE x \in LinesOn(v)
    <3>1. PICK i \in DOMAIN w : x \in fn.lines[w[i]]
      BY <2>3 DEF LinesOn
    <3> QED BY <1>5, <1>7, <3>1 DEF LinesOn
  <2> QED BY <2>1, <2>2, <2>3
<1> QED BY <1>4, <1>5, <1>6, <1>10, <1>11

(* A path without its last block.                                          *)
LEMMA Shortened ==
  ASSUME NEW b, NEW w, IsPath(w, b), Len(w) > 1
  PROVE  \E v : /\ IsPath(v, b) /\ LinesOn(w) = LinesOn(v) \cup fn.lines[w[Len(w)]]
                /\ Len(v) = Len(w) - 1 /\ DOMAIN v = 1 .. Len(w) - 1
                /\ \A i \in DOMAIN v : v[i] = w[i]
<1>1. w \in Seq(Blocks) /\ w[1] = b /\ Len(w) \in Nat \ {0} /\ DOMAIN w = 1 .. Len(w)
  BY DEF IsPath
<1> DEFINE n == Len(w) - 1
           v == [i \in 1 .. n |-> w[i]]
<1>2. n \in Nat \ {0} /\ 1 .. n \subseteq DOMAIN w /\ n + 1 = Len(w)
  BY <1>1
<1>3. DOMAIN v = 1 .. n /\ \A i \in 1 .. n : v[i] = w[i] /\ v[i] \in Blocks
  BY <1>1, <1>2
<1>4. v = [i \in 1 .. n |-> v[i]]
  OBVIOUS
<1> HIDE DEF v
<1>5. v \in Seq(Blocks) /\ Len(v) = n /\ v # <<>>
  <2>1. v \in Seq(Blocks) /\ Len(v) = n
    BY <1>2, <1>3, <1>4
  <2> QED BY <1>2, <2>1
<1>6. \A i, j \in 1 .. n : v[i] = v[j] => i = j
  BY <1>2, <1>3 DEF IsPath
<1>7. ASSUME NEW i \in 1 .. n, i < n
      PROVE  \E j \in DOMAIN fn.succ[v[i]] : fn.succ[v[i]][j] = v[i + 1]
  <2>1. i \in DOMAIN w /\ i < Len(w) /\ i + 1 \in 1 .. n
    BY <1>1, <1>2, <1>7
  <2>2. \E j \in DOMAIN fn.succ[w[i]] : fn.succ[w[i]][j] = w[i + 1]
    BY <2>1 DEF IsPath
  <2> QED BY <1>3, <2>1, <2>2
<1>8. v[1] = b
  BY <1>1, <1>2, <1>3
<1>9. IsPath(v, b)
  BY <1>3, <1>5, <1>6, <1>7, <1>8 DEF IsPath
<1>10. LinesOn(w) = LinesOn(v) \cup fn.lines[w[Len(w)]]
  <2>1. DOMAIN w = DOMAIN v \cup {Len(w)}
    BY <1>1, <1>2, <1>3
  <2>2. ASSUME NEW x \in LinesOn(w) PROVE x \in LinesOn(v) \cup fn.lines[w[Len(w)]]
    <3>1. PICK i \in DOMAIN w : x \in fn.lines[w[i]]
      BY <2>2 DEF LinesOn
    <3> QED BY <1>3, <2>1, <3>1 DEF LinesOn
  <2>3. ASSUME NEW x \in LinesOn(v) PROVE x \in LinesOn(w)
    <3>1. PICK i \in DOMAIN v : x \in fn.lines[v[i]]
      BY <2>3 DEF LinesOn
    <3> QED BY <1>3, <2>1, <3>1 DEF LinesOn
  <2>4. fn.lines[w[Len(w)]] \subseteq LinesOn(w)
    BY <2>1 DEF LinesOn
  <2> QED BY <2>2, <2>3, <2>4
<1> QED BY <1>3, <1>5, <1>9, <1>10

(* Nothing the function says changes.                                      *)
LEMMA SameFunction ==
  ASSUME UNCHANGED fn
  PROVE  /\ \A b : /\ Walks(b)' = Walks(b) /\ (Leaf(b)' <=> Leaf(b)) /\ (Dead(b)' <=> Dead(b))
                   /\ \A w : IsPath(w, b)' <=> IsPath(w, b)
         /\ \A w : LinesTaken(w)' = LinesTaken(w) /\ LinesOn(w)' = LinesOn(w)
         /\ Reachable' = Reachable /\ (checkFunctionLoops' <=> checkFunctionLoops)
         /\ (Disjoint' <=> Disjoint)
<1>1. \A b : /\ Walks(b)' = Walks(b) /\ (Leaf(b)' <=> Leaf(b)) /\ (Dead(b)' <=> Dead(b))
  BY DEF Walks, Leaf, Dead
<1>2. \A b : \A w : IsPath(w, b)' <=> IsPath(w, b)
  BY DEF IsPath
<1>3. \A w : LinesOn(w)' = LinesOn(w)
  BY DEF LinesOn
<1>4. \A w : LinesTaken(w)' = LinesTaken(w)
  BY <1>1 DEF LinesTaken
<1>5. Reachable' = Reachable /\ (Disjoint' <=> Disjoint)
  BY DEF Reachable, ClosedUnderSucc, Disjoint
<1>6. checkFunctionLoops' <=> checkFunctionLoops
  BY <1>5 DEF checkFunctionLoops
<1> QED BY <1>1, <1>2, <1>3, <1>4, <1>5, <1>6

(* A path stays one while more is visited and finished.                    *)
LEMMA SamePath ==
  ASSUME UNCHANGED fn, DOMAIN visits \subseteq DOMAIN visits', Finished \subseteq Finished',
         NEW b, NEW set, OnSomePath(b, set)
  PROVE  OnSomePath(b, set)'
<1>1. CASE set = {}
  BY <1>1 DEF OnSomePath
<1>2. CASE set # {}
  <2>1. PICK w \in Seq(Blocks) :
          /\ IsPath(w, b) /\ set = LinesOn(w)
          /\ \A i \in DOMAIN w : w[i] \in DOMAIN visits /\ ~Dead(w[i])
          /\ \A i \in DOMAIN w : 1 < i /\ i < Len(w) => w[i] \in Finished
    BY <1>2 DEF OnSomePath
  <2>2. /\ IsPath(w, b)' /\ set = LinesOn(w)'
        /\ \A i \in DOMAIN w : w[i] \in DOMAIN visits' /\ ~Dead(w[i])'
        /\ \A i \in DOMAIN w : 1 < i /\ i < Len(w) => w[i] \in Finished'
    BY <2>1, SameFunction
  <2> QED BY <2>2 DEF OnSomePath
<1> QED BY <1>1, <1>2

(* A block being explored, put before a path that does not meet it.        *)
LEMMA PathBefore ==
  ASSUME TypeOK, NEW z \in DOMAIN visits, NEW s \in DOMAIN visits, NEW w, IsPath(w, s),
         \E j \in DOMAIN fn.succ[z] : fn.succ[z][j] = s,
         \A i \in DOMAIN w : w[i] # z /\ w[i] \in DOMAIN visits /\ ~Dead(w[i]),
         \A i \in DOMAIN w : i < Len(w) => w[i] \in Finished
  PROVE  OnSomePath(z, LinesOn(w) \cup fn.lines[z])
<1>1. z \in Blocks /\ s \in Blocks
  BY DEF TypeOK
<1>2. PICK v : /\ IsPath(v, z) /\ LinesOn(v) = fn.lines[z] \cup LinesOn(w)
               /\ Len(v) = Len(w) + 1 /\ DOMAIN v = 1 .. Len(w) + 1 /\ v[1] = z
               /\ \A i \in DOMAIN v : i > 1 => i - 1 \in DOMAIN w /\ v[i] = w[i - 1]
  BY <1>1, Prepended
<1>3. ~Dead(z)
  <2>1. DOMAIN <<>> = {}
    OBVIOUS
  <2> QED BY <2>1 DEF Dead
<1>4. v \in Seq(Blocks) /\ w \in Seq(Blocks) /\ Len(w) \in Nat
  BY <1>2 DEF IsPath
<1>5. ASSUME NEW i \in DOMAIN v PROVE v[i] \in DOMAIN visits /\ ~Dead(v[i])
  <2>1. CASE i = 1
    BY <1>2, <1>3, <2>1
  <2>2. CASE i # 1
    <3>1. i > 1
      BY <1>2, <2>2
    <3> QED BY <1>2, <3>1
  <2> QED BY <2>1, <2>2
<1>6. ASSUME NEW i \in DOMAIN v, 1 < i, i < Len(v) PROVE v[i] \in Finished
  <2>1. i - 1 \in DOMAIN w /\ v[i] = w[i - 1] /\ i - 1 < Len(w)
    BY <1>2, <1>4, <1>6
  <2> QED BY <2>1
<1>7. \A i \in DOMAIN v : 1 < i /\ i < Len(v) => v[i] \in Finished
  BY <1>6
<1>8. LinesOn(w) \cup fn.lines[z] = LinesOn(v)
  BY <1>2
<1> QED BY <1>2, <1>4, <1>5, <1>7, <1>8 DEF OnSomePath

(* What a successor has found, and the block's own lines, are on a path: if*)
(* the path from the successor ends in the block it is cut there, and a    *)
(* successor being explored stands for itself.                             *)
LEMMA PathOnward ==
  ASSUME TypeOK, WalkInv, NEW z \in DOMAIN visits, z \notin Finished,
         NEW s \in DOMAIN visits, \E j \in DOMAIN fn.succ[z] : fn.succ[z][j] = s,
         s \notin Finished => visits[s] = fn.lines[s] /\ ~Dead(s)
  PROVE  OnSomePath(z, visits[s] \cup fn.lines[z])
<1>1. z \in Blocks /\ s \in Blocks /\ ~Dead(z)
  <2>1. DOMAIN <<>> = {}
    OBVIOUS
  <2> QED BY <2>1 DEF TypeOK, Dead
<1>2. CASE visits[s] \subseteq fn.lines[z]
  <2>1. /\ IsPath(<<z>>, z) /\ LinesOn(<<z>>) = fn.lines[z]
        /\ DOMAIN <<z>> = {1} /\ Len(<<z>>) = 1 /\ <<z>>[1] = z
    BY <1>1, OneBlock
  <2> DEFINE w == <<z>>
  <2> HIDE DEF w
  <2>2. /\ IsPath(w, z) /\ visits[s] \cup fn.lines[z] = LinesOn(w)
        /\ \A i \in DOMAIN w : w[i] \in DOMAIN visits /\ ~Dead(w[i])
        /\ \A i \in DOMAIN w : 1 < i /\ i < Len(w) => w[i] \in Finished
    BY <1>1, <1>2, <2>1 DEF w
  <2> QED BY <2>2 DEF OnSomePath, IsPath
<1>3. CASE s \notin Finished /\ s # z
  <2>1. /\ IsPath(<<s>>, s) /\ LinesOn(<<s>>) = fn.lines[s]
        /\ DOMAIN <<s>> = {1} /\ Len(<<s>>) = 1 /\ <<s>>[1] = s
    BY <1>1, OneBlock
  <2> DEFINE w == <<s>>
  <2> HIDE DEF w
  <2>2. /\ IsPath(w, s) /\ visits[s] = LinesOn(w)
        /\ \A i \in DOMAIN w : w[i] # z /\ w[i] \in DOMAIN visits /\ ~Dead(w[i])
        /\ \A i \in DOMAIN w : i < Len(w) => w[i] \in Finished
    BY <1>3, <2>1 DEF w
  <2> QED BY <2>2, PathBefore
<1>4. CASE s \in Finished /\ visits[s] # {}
  <2>1. PICK w \in Seq(Blocks) :
          /\ IsPath(w, s) /\ visits[s] = LinesOn(w)
          /\ \A i \in DOMAIN w : w[i] \in DOMAIN visits /\ ~Dead(w[i])
          /\ \A i \in DOMAIN w : 1 < i /\ i < Len(w) => w[i] \in Finished
    <3>1. visits[s] \in SUBSET Lines
      BY DEF TypeOK
    <3>2. OnSomePath(s, visits[s])
      BY <1>4, <3>1 DEF WalkInv
    <3> QED BY <1>4, <3>2 DEF OnSomePath
  <2>2. Len(w) \in Nat \ {0} /\ DOMAIN w = 1 .. Len(w) /\ w[1] = s
    BY <2>1 DEF IsPath
  <2>3. \A i \in DOMAIN w : i < Len(w) => w[i] \in Finished
    <3> SUFFICES ASSUME NEW i \in DOMAIN w, i < Len(w) PROVE w[i] \in Finished
      OBVIOUS
    <3>1. CASE i = 1
      BY <1>4, <2>2, <3>1
    <3>2. CASE 1 < i
      BY <2>1, <3>2
    <3> QED BY <2>2, <3>1, <3>2
  <2>4. CASE \A i \in DOMAIN w : w[i] # z
    BY <2>1, <2>3, <2>4, PathBefore
  <2>5. CASE \E i \in DOMAIN w : w[i] = z
    <3>1. PICK k \in DOMAIN w : w[k] = z
      BY <2>5
    <3>2. k = Len(w) /\ Len(w) > 1
      BY <1>4, <2>2, <2>3, <3>1
    <3>3. PICK v : /\ IsPath(v, s) /\ LinesOn(w) = LinesOn(v) \cup fn.lines[w[Len(w)]]
                   /\ Len(v) = Len(w) - 1 /\ DOMAIN v = 1 .. Len(w) - 1
                   /\ \A i \in DOMAIN v : v[i] = w[i]
      BY <2>1, <3>2, Shortened
    <3>4. \A i \in DOMAIN v : i \in DOMAIN w /\ i < Len(w) /\ v[i] = w[i] /\ w[i] \in Finished
      BY <2>2, <2>3, <3>3
    <3>5. \A i \in DOMAIN v : v[i] # z /\ v[i] \in DOMAIN visits /\ ~Dead(v[i])
      BY <2>1, <3>4
    <3>6. \A i \in DOMAIN v : i < Len(v) => v[i] \in Finished
      BY <3>4
    <3>7. OnSomePath(z, LinesOn(v) \cup fn.lines[z])
      BY <3>3, <3>5, <3>6, PathBefore
    <3>8. visits[s] \cup fn.lines[z] = LinesOn(v) \cup fn.lines[z]
      BY <2>1, <3>1, <3>2, <3>3
    <3> QED BY <3>7, <3>8
  <2> QED BY <2>4, <2>5
<1> QED BY <1>2, <1>3, <1>4

-----------------------------------------------------------------------------
(* Functions without loops.                                                *)

(* What can be reached goes on among itself.                               *)
LEMMA ReachOn ==
  ASSUME TypeOK
  PROVE  /\ fn.entry \in Reachable /\ Reachable \subseteq Blocks
         /\ \A b \in Reachable : \A i \in DOMAIN fn.succ[b] : fn.succ[b][i] \in Reachable
<1>1. fn.entry \in Reachable /\ Reachable \subseteq Blocks
  BY DEF TypeOK, IsFunction, Reachable
<1>2. ASSUME NEW b \in Reachable, NEW i \in DOMAIN fn.succ[b]
      PROVE  fn.succ[b][i] \in Reachable
  <2>1. fn.succ[b][i] \in Blocks
    <3>1. b \in Blocks
      BY <1>1
    <3>2. fn.succ[b] \in Seq(Blocks)
      BY <3>1 DEF TypeOK, IsFunction
    <3> QED BY <3>2
  <2>2. ASSUME NEW S \in SUBSET Blocks, fn.entry \in S, ClosedUnderSucc(S)
        PROVE  fn.succ[b][i] \in S
    <3>1. b \in S
      BY <2>2 DEF Reachable
    <3> QED BY <2>2, <3>1 DEF ClosedUnderSucc
  <2> QED BY <2>1, <2>2 DEF Reachable
<1> QED BY <1>1, <1>2

(* Without loops no path from a successor of a block comes back to it.     *)
LEMMA NoWayBack ==
  ASSUME ~checkFunctionLoops, NEW z, NEW s, NEW w, IsPath(w, s),
         \A i \in DOMAIN w : w[i] \in Reachable,
         \E j \in DOMAIN fn.succ[z] : fn.succ[z][j] = s
  PROVE  \A i \in DOMAIN w : w[i] # z
<1> SUFFICES ASSUME NEW k \in DOMAIN w, w[k] = z PROVE FALSE
  OBVIOUS
<1>1. Len(w) \in Nat \ {0} /\ DOMAIN w = 1 .. Len(w) /\ w[1] = s
  BY DEF IsPath
<1> DEFINE S == {w[i] : i \in 1 .. k}
<1>2. S \in SUBSET Reachable /\ s \in S
  BY <1>1
<1>3. ASSUME NEW b \in S PROVE \E j \in DOMAIN fn.succ[b] : fn.succ[b][j] \in S
  <2>1. PICK i \in 1 .. k : b = w[i]
    BY <1>3
  <2>2. CASE i = k
    BY <1>2, <2>1, <2>2
  <2>3. CASE i # k
    <3>1. i \in DOMAIN w /\ i < Len(w) /\ i + 1 \in 1 .. k
      BY <1>1, <2>1, <2>3
    <3>2. PICK j \in DOMAIN fn.succ[w[i]] : fn.succ[w[i]][j] = w[i + 1]
      BY <3>1 DEF IsPath
    <3> QED BY <2>1, <3>1, <3>2
  <2> QED BY <2>2, <2>3
<1> HIDE DEF S
<1> QED BY <1>2, <1>3 DEF checkFunctionLoops

(* Without loops no successor of the top of the stack is being explored.   *)
LEMMA NoLoopOnStack ==
  ASSUME TypeOK, CallsInv, ~checkFunctionLoops, stack # <<>>,
         \A i \in DOMAIN stack : stack[i].block \in DOMAIN visits,
         NEW s \in DOMAIN visits, Top.next \in DOMAIN fn.succ[Top.block], Successor(Top) = s
  PROVE  s \in Finished
<1> SUFFICES ASSUME NEW k \in DOMAIN stack, stack[k].block = s PROVE FALSE
  BY DEF Finished, Running
<1>1. Len(stack) \in Nat \ {0} /\ DOMAIN stack = 1 .. Len(stack) /\ Top = stack[Len(stack)]
  BY Popped DEF TypeOK, Top
<1> DEFINE n == Len(stack)
<1>0. k \in k .. n /\ \A i \in k .. n : i \in DOMAIN stack /\ (i # n => i < n /\ i + 1 \in k .. n)
  <2>1. n \in Nat /\ DOMAIN stack = 1 .. n /\ k \in 1 .. n
    BY <1>1
  <2> HIDE DEF n
  <2> QED BY <2>1
<1> DEFINE S == {stack[i].block : i \in k .. Len(stack)}
<1>2. S \in SUBSET Reachable /\ s \in S
  <2>1. s \in S
    BY <1>0
  <2>2. \A i \in k .. n : i \in DOMAIN stack
    BY <1>0
  <2> QED BY <2>1, <2>2 DEF CallsInv
<1>3. ASSUME NEW b \in S PROVE \E j \in DOMAIN fn.succ[b] : fn.succ[b][j] \in S
  <2>1. PICK i \in k .. Len(stack) : b = stack[i].block
    BY <1>3
  <2>2. CASE i = Len(stack)
    BY <1>1, <1>2, <2>1, <2>2 DEF Successor
  <2>3. CASE i # Len(stack)
    <3>1. i \in DOMAIN stack /\ i < Len(stack) /\ i + 1 \in k .. Len(stack)
      BY <1>0, <2>1, <2>3
    <3>2. /\ stack[i].next <= Len(fn.succ[b]) /\ fn.succ[b][stack[i].next] = stack[i + 1].block
      BY <2>1, <3>1 DEF CallsInv
    <3>3. stack[i].next \in DOMAIN fn.succ[b]
      <4>1. stack[i] \in Frame
        BY <3>1 DEF TypeOK
      <4>2. stack[i].next \in Nat \ {0} /\ b \in Blocks
        BY <2>1, <4>1 DEF Frame
      <4>3. fn.succ[b] \in Seq(Blocks)
        BY <4>2 DEF TypeOK, IsFunction
      <4> QED BY <3>2, <4>2, <4>3
    <3> QED BY <3>1, <3>2, <3>3
  <2> QED BY <2>2, <2>3
<1> HIDE DEF S
<1> QED BY <1>2, <1>3 DEF checkFunctionLoops

(* Sizes of sets of lines.                                                 *)
LEMMA Sizes ==
  ASSUME TypeOK, NEW A \in SUBSET AllLines, NEW B \in SUBSET AllLines
  PROVE  /\ IsFiniteSet(A) /\ Cardinality(A) \in Nat
         /\ A \subseteq B => Cardinality(A) <= Cardinality(B)
         /\ Cardinality(A \cup B) \in Nat
         /\ Cardinality(A \cup B) <= Cardinality(A) + Cardinality(B)
         /\ A \cap B = {} => Cardinality(A \cup B) = Cardinality(A) + Cardinality(B)
<1>1. IsFiniteSet(A) /\ IsFiniteSet(B) /\ IsFiniteSet(A \cap B) /\ IsFiniteSet(A \cup B)
  BY LinesFinite, FS_Subset, FS_Union
<1>2. /\ Cardinality(A) \in Nat /\ Cardinality(B) \in Nat /\ Cardinality(A \cap B) \in Nat
      /\ Cardinality(A \cup B) \in Nat
  BY <1>1, FS_CardinalityType
<1>3. Cardinality(A \cup B) = Cardinality(A) + Cardinality(B) - Cardinality(A \cap B)
  BY <1>1, FS_Union
<1>4. A \cap B = {} => Cardinality(A \cap B) = 0
  BY FS_EmptySet
<1>5. A \subseteq B => Cardinality(A) <= Cardinality(B)
  BY <1>1, FS_Subset
<1> QED BY <1>1, <1>2, <1>3, <1>4, <1>5

(* The lines of walks are the function's.                                  *)
LEMMA WalkLines ==
  ASSUME TypeOK, NEW b \in Blocks, NEW w \in Walks(b)
  PROVE  LinesTaken(w) \subseteq AllLines
<1>1. w \in Seq(Blocks)
  BY WalksAre
<1>2. \A i \in DOMAIN w : w[i] \in Blocks
  BY <1>1
<1> QED BY <1>2, LinesFinite DEF LinesTaken

(* A walk of more than one block goes on with a walk from a successor.     *)
LEMMA WalkGoesOn ==
  ASSUME TypeOK, NEW b \in Blocks, NEW w \in Walks(b), Len(w) # 1
  PROVE  /\ w[2] \in Blocks /\ \E j \in DOMAIN fn.succ[b] : fn.succ[b][j] = w[2]
         /\ \E v \in Walks(w[2]) : LinesTaken(w) \subseteq fn.lines[b] \cup LinesTaken(v)
<1>1. /\ w \in Seq(Blocks) /\ Len(w) \in 1 .. Cardinality(Blocks) /\ w[1] = b
      /\ \A i \in 1 .. Len(w) - 1 :
           \E j \in DOMAIN fn.succ[w[i]] : fn.succ[w[i]][j] = w[i + 1]
  BY WalksAre
<1>2. Cardinality(Blocks) \in Nat
  BY LinesFinite
<1> DEFINE n == Len(w) - 1
           v == [i \in 1 .. n |-> w[i + 1]]
<1>3. n \in Nat \ {0} /\ n \in 1 .. Cardinality(Blocks) /\ DOMAIN w = 1 .. n + 1
  <2> DEFINE c == Cardinality(Blocks)
  <2>1. Len(w) \in 1 .. c /\ c \in Nat /\ DOMAIN w = 1 .. Len(w)
    BY <1>1, <1>2
  <2> HIDE DEF c
  <2>2. Len(w) \in Nat \ {0, 1} /\ Len(w) <= c
    BY <2>1
  <2>3. n \in Nat \ {0} /\ n <= c /\ n + 1 = Len(w)
    BY <2>1, <2>2
  <2> QED BY <2>1, <2>3 DEF c
<1>4. \A i \in 1 .. n : v[i] = w[i + 1] /\ v[i] \in Blocks /\ i + 1 \in DOMAIN w
  BY <1>1, <1>3
<1>5. v = [i \in 1 .. n |-> v[i]] /\ DOMAIN v = 1 .. n
  OBVIOUS
<1> HIDE DEF v
<1>6. v \in Seq(Blocks) /\ Len(v) = n
  BY <1>3, <1>4, <1>5
<1>7. v[1] = w[2] /\ w[2] \in Blocks
  <2>1. 1 \in 1 .. n /\ 1 + 1 = 2
    BY <1>3
  <2> QED BY <1>4, <2>1
<1>8. \E j \in DOMAIN fn.succ[b] : fn.succ[b][j] = w[2]
  <2>1. 1 \in 1 .. Len(w) - 1 /\ 1 + 1 = 2
    BY <1>1, <1>3
  <2> QED BY <1>1, <2>1
<1>9. ASSUME NEW i \in 1 .. Len(v) - 1
      PROVE  \E j \in DOMAIN fn.succ[v[i]] : fn.succ[v[i]][j] = v[i + 1]
  <2>1. i \in 1 .. n /\ i + 1 \in 1 .. n /\ i + 1 \in 1 .. Len(w) - 1
    BY <1>3, <1>6
  <2>2. v[i] = w[i + 1] /\ v[i + 1] = w[(i + 1) + 1]
    BY <1>4, <2>1
  <2> QED BY <1>1, <2>1, <2>2
<1>10. v \in Walks(w[2])
  BY <1>3, <1>6, <1>7, <1>9, WalksAre
<1>11. ASSUME NEW x \in LinesTaken(w) PROVE x \in fn.lines[b] \cup LinesTaken(v)
  <2>1. PICK i \in DOMAIN w : ~Dead(w[i]) /\ x \in fn.lines[w[i]]
    BY <1>11 DEF LinesTaken
  <2>2. CASE i = 1
    BY <1>1, <2>1, <2>2
  <2>3. CASE i # 1
    <3>1. i - 1 \in 1 .. n /\ (i - 1) + 1 = i
      BY <1>3, <2>3
    <3>2. v[i - 1] = w[i]
      BY <1>4, <3>1
    <3> QED BY <1>5, <2>1, <3>1, <3>2 DEF LinesTaken
  <2> QED BY <2>2, <2>3
<1> QED BY <1>7, <1>8, <1>10, <1>11

(* A walk of one block has at most its lines, and none if it is dead.      *)
LEMMA WalkOfOne ==
  ASSUME TypeOK, NEW b \in Blocks, NEW w \in Walks(b), Len(w) = 1
  PROVE  LinesTaken(w) \subseteq fn.lines[b] /\ (Dead(b) => LinesTaken(w) = {})
<1>1. w \in Seq(Blocks) /\ w[1] = b
  BY WalksAre
<1>2. DOMAIN w = {1}
  BY <1>1
<1> QED BY <1>1, <1>2 DEF LinesTaken

-----------------------------------------------------------------------------
(* The steps.                                                              *)

(* A step that writes neither visits nor the stack changes no path.        *)
LEMMA SameWalks ==
  ASSUME CallsInv, WalkInv, BoundInv, UNCHANGED <<fn, visits, stack>>
  PROVE  CallsInv' /\ WalkInv' /\ BoundInv'
<1>1. Finished' = Finished /\ Running' = Running
  BY DEF Finished, Running
<1>2. CallsInv'
  BY <1>1, SameFunction DEF CallsInv
<1>3. WalkInv'
  BY <1>1, SamePath DEF WalkInv
<1>4. BoundInv'
  BY <1>1, SameFunction DEF BoundInv, Bounds
<1> QED BY <1>2, <1>3, <1>4

(* A bound stays one.                                                      *)
LEMMA SameBounds ==
  ASSUME UNCHANGED fn, NEW set, NEW b, NEW n, Bounds(set, b, n)
  PROVE  Bounds(set, b, n)'
BY SameFunction DEF Bounds

(* A block entered stands for itself.                                      *)
LEMMA EnterWalks ==
  ASSUME TypeOK, CallsInv, WalkInv, BoundInv,
         \A i \in DOMAIN stack : stack[i].block \in DOMAIN visits,
         NEW b \in Blocks \ DOMAIN visits, b \in Reachable, Enter(b, stack), UNCHANGED fn,
         stack # <<>> => HasNext /\ Successor(Top) = b
  PROVE  CallsInv' /\ WalkInv' /\ BoundInv'
<1> DEFINE f == [block |-> b, next |-> 1, best |-> {}]
<1>1. /\ DOMAIN visits' = DOMAIN visits \cup {b} /\ visits'[b] = fn.lines[b]
      /\ \A c \in DOMAIN visits : visits'[c] = visits[c]
  BY DEF Enter, Entered, With
<1>2. f \in Frame /\ f.block = b /\ f.next = 1 /\ f.best = {}
  BY DEF Frame
<1>3. stack' = IF Leaf(b) THEN stack ELSE Append(stack, f)
  BY DEF Enter
<1> HIDE DEF f
<1>4. /\ stack \in Seq(Frame) /\ Len(stack) \in Nat /\ DOMAIN stack = 1 .. Len(stack)
      /\ Append(stack, f) \in Seq(Frame) /\ Len(Append(stack, f)) = Len(stack) + 1
      /\ DOMAIN Append(stack, f) = 1 .. Len(stack) + 1
      /\ \A j \in 1 .. Len(stack) : Append(stack, f)[j] = stack[j]
      /\ Append(stack, f)[Len(stack) + 1] = f
  BY <1>2, Pushed DEF TypeOK
<1>5. /\ Running \subseteq Running' /\ Running' \subseteq Running \cup {f}
      /\ ~Leaf(b) => f \in Running'
      /\ Leaf(b) => Running' = Running
  <2>1. CASE Leaf(b)
    BY <1>3, <2>1 DEF Running
  <2>2. CASE ~Leaf(b)
    <3> DEFINE t == Append(stack, f)
    <3>1. stack' = t /\ Running' = {t[i] : i \in DOMAIN t}
      BY <1>3, <2>2 DEF Running
    <3> HIDE DEF t
    <3>2. /\ DOMAIN stack = 1 .. Len(stack) /\ DOMAIN t = 1 .. Len(stack) + 1
          /\ \A j \in 1 .. Len(stack) : t[j] = stack[j]
          /\ t[Len(stack) + 1] = f /\ Len(stack) \in Nat
      BY <1>4 DEF t
    <3>3. DOMAIN t = DOMAIN stack \cup {Len(stack) + 1}
      BY <3>2
    <3>4. Running' = Running \cup {f}
      BY <3>1, <3>2, <3>3 DEF Running
    <3> QED BY <2>2, <3>4
  <2> QED BY <2>1, <2>2
<1>6. \A g \in Running : g.block \in DOMAIN visits /\ g.block # b
  BY DEF Running
<1>7. Finished' = Finished \cup (IF Leaf(b) THEN {b} ELSE {})
  BY <1>1, <1>2, <1>5, <1>6 DEF Finished
<1>8. CallsInv'
  <2>1. DOMAIN visits' \subseteq Reachable'
    BY <1>1, SameFunction DEF CallsInv
  <2>2. ASSUME NEW g \in Running'
        PROVE  /\ ~Leaf(g.block)' /\ visits'[g.block] = fn'.lines[g.block]
               /\ g.next <= Len(fn'.succ[g.block]) + 1
    <3>1. CASE g \in Running
      BY <1>1, <1>6, <3>1, SameFunction DEF CallsInv
    <3>2. CASE g \notin Running
      <4>1. g = f /\ ~Leaf(b)
        BY <1>5, <2>2, <3>2
      <4>2. fn.succ[b] \in Seq(Blocks)
        BY DEF TypeOK, IsFunction
      <4>3. f.next <= Len(fn.succ[b]) + 1
        BY <1>2, <4>2
      <4> QED BY <1>1, <1>2, <4>1, <4>3, SameFunction
    <3> QED BY <3>1, <3>2
  <2>3. ASSUME NEW i \in DOMAIN stack', i < Len(stack')
        PROVE  /\ stack'[i].next <= Len(fn'.succ[stack'[i].block])
               /\ fn'.succ[stack'[i].block][stack'[i].next] = stack'[i + 1].block
    <3>1. CASE Leaf(b)
      BY <1>3, <2>3, <3>1 DEF CallsInv
    <3>2. CASE ~Leaf(b)
      <4>1. stack' = Append(stack, f)
        BY <1>3, <3>2
      <4>2. i \in 1 .. Len(stack) /\ stack'[i] = stack[i]
        BY <1>4, <2>3, <4>1
      <4>3. CASE i < Len(stack)
        <5>1. i \in DOMAIN stack /\ i + 1 \in 1 .. Len(stack)
          BY <1>4, <4>2, <4>3
        <5>2. stack'[i + 1] = stack[i + 1]
          BY <1>4, <4>1, <5>1
        <5> QED BY <4>2, <4>3, <5>1, <5>2 DEF CallsInv
      <4>4. CASE i = Len(stack)
        <5>1. stack # <<>> /\ stack[i] = Top
          BY <1>4, <4>2, <4>4 DEF Top
        <5>2. HasNext /\ fn.succ[Top.block][Top.next] = b
          BY <5>1 DEF Successor
        <5>3. stack'[i + 1] = f
          BY <1>4, <4>1, <4>4
        <5> QED BY <1>2, <4>2, <5>1, <5>2, <5>3 DEF HasNext
      <4> QED BY <1>4, <4>2, <4>3, <4>4
    <3> QED BY <3>1, <3>2
  <2> QED BY <2>1, <2>2, <2>3 DEF CallsInv
<1>9. \A c, set : OnSomePath(c, set) => OnSomePath(c, set)'
  BY <1>1, <1>7, SamePath
<1>10. WalkInv'
  <2>1. ASSUME NEW c \in Finished', NEW set \in SUBSET Lines, visits'[c] = set
        PROVE  OnSomePath(c, set)'
    <3>1. CASE c \in Finished
      <4>1. c \in DOMAIN visits
        BY <3>1 DEF Finished
      <4>2. visits[c] = set
        BY <1>1, <2>1, <4>1
      <4>3. OnSomePath(c, set)
        BY <3>1, <4>2 DEF WalkInv
      <4> QED BY <1>9, <4>3
    <3>2. CASE c \notin Finished
      <4>1. c = b /\ Leaf(b) /\ ~Dead(b)
        BY <1>7, <2>1, <3>2 DEF Dead
      <4>2. /\ IsPath(<<b>>, b) /\ LinesOn(<<b>>) = fn.lines[b]
            /\ DOMAIN <<b>> = {1} /\ Len(<<b>>) = 1 /\ <<b>>[1] = b
        BY OneBlock
      <4> DEFINE w == <<b>>
      <4> HIDE DEF w
      <4>3. /\ w \in Seq(Blocks) /\ IsPath(w, b) /\ DOMAIN w = {1} /\ w[1] = b
            /\ set = LinesOn(w)
        BY <1>1, <2>1, <4>1, <4>2 DEF w, IsPath
      <4>4. /\ IsPath(w, b)' /\ set = LinesOn(w)'
            /\ \A i \in DOMAIN w : w[i] \in DOMAIN visits' /\ ~Dead(w[i])'
            /\ \A i \in DOMAIN w : 1 < i /\ i < Len(w) => w[i] \in Finished'
        BY <1>1, <4>1, <4>3, SameFunction
      <4> QED BY <4>1, <4>3, <4>4 DEF OnSomePath
    <3> QED BY <3>1, <3>2
  <2>2. ASSUME NEW g \in Running' PROVE OnSomePath(g.block, g.best)'
    <3>1. CASE g \in Running
      BY <1>9, <3>1 DEF WalkInv
    <3>2. CASE g \notin Running
      <4>1. g.best = {}
        BY <1>2, <1>5, <2>2, <3>2
      <4> QED BY <4>1 DEF OnSomePath
    <3> QED BY <3>1, <3>2
  <2> QED BY <2>1, <2>2 DEF WalkInv
<1>11. BoundInv'
  <2> SUFFICES ASSUME Disjoint', ~checkFunctionLoops'
               PROVE  /\ \A c \in Finished' : \A w \in Walks(c)' :
                           Cardinality(LinesTaken(w)') <= Cardinality(visits'[c])
                      /\ \A g \in Running' : Bounds(g.best, g.block, g.next)'
    BY DEF BoundInv
  <2>1. Disjoint /\ ~checkFunctionLoops
    BY SameFunction
  <2>2. ASSUME NEW c \in Finished', NEW w \in Walks(c)
        PROVE  Cardinality(LinesTaken(w)) <= Cardinality(visits'[c])
    <3>1. CASE c \in Finished
      <4>1. c \in DOMAIN visits
        BY <3>1 DEF Finished
      <4> QED BY <1>1, <2>1, <3>1, <4>1 DEF BoundInv
    <3>2. CASE c \notin Finished
      <4>1. c = b /\ Leaf(b)
        BY <1>7, <2>2, <3>2
      <4>2. fn.succ[b] = <<>> /\ DOMAIN <<>> = {}
        BY <4>1 DEF Leaf, TypeOK, IsFunction
      <4>3. Len(w) = 1
        BY <4>1, <4>2, WalkGoesOn
      <4>4. LinesTaken(w) \subseteq fn.lines[b]
        BY <4>1, <4>3, WalkOfOne
      <4>5. LinesTaken(w) \subseteq AllLines /\ fn.lines[b] \subseteq AllLines
        BY <4>1, WalkLines, LinesFinite
      <4> QED BY <1>1, <4>1, <4>4, <4>5, Sizes
    <3> QED BY <3>1, <3>2
  <2>3. ASSUME NEW g \in Running' PROVE Bounds(g.best, g.block, g.next)'
    <3>1. CASE g \in Running
      <4>1. Bounds(g.best, g.block, g.next)
        BY <2>1, <3>1 DEF BoundInv
      <4> QED BY <4>1, SameBounds
    <3>2. CASE g \notin Running
      <4>1. g.block = b /\ g.best = {} /\ g.next = 1
        BY <1>2, <1>5, <2>3, <3>2
      <4> QED BY <4>1 DEF Bounds
    <3> QED BY <3>1, <3>2
  <2>4. \A c \in Finished' : \A w \in Walks(c)' :
          Cardinality(LinesTaken(w)') <= Cardinality(visits'[c])
    BY <2>2, SameFunction
  <2> QED BY <2>3, <2>4
<1> QED BY <1>8, <1>10, <1>11

(* Without loops a block's lines and those found from a successor are      *)
(* disjoint, so that no walk by the successor has more than both.          *)
LEMMA TakeBound ==
  ASSUME TypeOK, Found, CallsInv, WalkInv, BoundInv, Disjoint, ~checkFunctionLoops,
         NEW z \in DOMAIN visits, NEW s \in Finished,
         \E j \in DOMAIN fn.succ[z] : fn.succ[z][j] = s,
         NEW w \in Walks(z), Len(w) # 1 => w[2] = s
  PROVE  Cardinality(LinesTaken(w)) <= Cardinality(visits[s] \cup fn.lines[z])
<1> DEFINE A == visits[s]
           B == fn.lines[z]
<1>1. s \in DOMAIN visits /\ z \in Blocks /\ s \in Blocks
  BY DEF Finished, TypeOK
<1>2. A \subseteq AllLines /\ B \subseteq AllLines /\ LinesTaken(w) \subseteq AllLines
  BY <1>1, LinesFinite, WalkLines DEF Found
<1>3. A \cap B = {}
  <2>1. A \in SUBSET Lines
    BY <1>1 DEF TypeOK
  <2>2. OnSomePath(s, A)
    BY <2>1 DEF WalkInv
  <2>3. CASE A = {}
    BY <2>3
  <2>4. CASE A # {}
    <3>1. PICK v \in Seq(Blocks) :
            /\ IsPath(v, s) /\ A = LinesOn(v)
            /\ \A i \in DOMAIN v : v[i] \in DOMAIN visits /\ ~Dead(v[i])
      BY <2>2, <2>4 DEF OnSomePath
    <3>2. \A i \in DOMAIN v : v[i] \in Reachable
      BY <3>1 DEF CallsInv
    <3>3. \A i \in DOMAIN v : v[i] # z /\ v[i] \in Blocks
      BY <3>1, <3>2, NoWayBack, ReachOn
    <3> HIDE DEF A
    <3> QED BY <1>1, <3>1, <3>3 DEF LinesOn, Disjoint
  <2> QED BY <2>3, <2>4
<1>4. \A v \in Walks(s) : Cardinality(LinesTaken(v)) <= Cardinality(A)
  BY DEF BoundInv
<1> HIDE DEF A, B
<1>5. /\ Cardinality(A \cup B) = Cardinality(A) + Cardinality(B)
      /\ Cardinality(A) \in Nat /\ Cardinality(B) \in Nat /\ Cardinality(A \cup B) \in Nat
      /\ A \cup B \subseteq AllLines
  BY <1>2, <1>3, Sizes
<1>6. CASE Len(w) = 1
  <2>1. LinesTaken(w) \subseteq A \cup B
    BY <1>1, <1>6, WalkOfOne DEF B
  <2>2. Cardinality(LinesTaken(w)) <= Cardinality(A \cup B)
    BY <1>2, <1>5, <2>1, Sizes
  <2> QED BY <2>2 DEF A, B
<1>7. CASE Len(w) # 1
  <2>1. PICK v \in Walks(s) : LinesTaken(w) \subseteq B \cup LinesTaken(v)
    BY <1>1, <1>7, WalkGoesOn DEF B
  <2> DEFINE C == LinesTaken(v)
             D == LinesTaken(w)
  <2>2. C \subseteq AllLines /\ Cardinality(C) <= Cardinality(A) /\ D \subseteq B \cup C
    BY <1>1, <1>4, <2>1, WalkLines
  <2>0. D \subseteq AllLines
    BY <1>2
  <2> HIDE DEF C, D
  <2>3. /\ Cardinality(B \cup C) <= Cardinality(B) + Cardinality(C)
        /\ Cardinality(B \cup C) \in Nat /\ Cardinality(C) \in Nat
    BY <1>2, <2>2, Sizes
  <2>4. Cardinality(D) <= Cardinality(B \cup C) /\ Cardinality(D) \in Nat
    <3>1. B \cup C \subseteq AllLines
      BY <1>2, <2>2
    <3> QED BY <2>0, <2>2, <3>1, Sizes
  <2>5. Cardinality(D) <= Cardinality(A \cup B)
    BY <1>5, <2>2, <2>3, <2>4
  <2> QED BY <2>5 DEF A, B, D
<1> QED BY <1>6, <1>7

(* A successor's lines are taken if they are more.                         *)
LEMMA TakeWalks ==
  ASSUME TypeOK, Found, CallsInv, WalkInv, BoundInv, stack # <<>>, HasNext,
         \A i \in DOMAIN stack : stack[i].block \in DOMAIN visits,
         Successor(Top) \in DOMAIN visits, stack' = Append(Below, Advanced(Top)),
         UNCHANGED <<fn, visits>>
  PROVE  CallsInv' /\ WalkInv' /\ BoundInv'
<1> DEFINE z == Top.block
           s == Successor(Top)
           f == Advanced(Top)
<1>1. /\ stack \in Seq(Frame) /\ Len(stack) \in Nat \ {0} /\ Top \in Frame
      /\ Top = stack[Len(stack)] /\ DOMAIN stack = 1 .. Len(stack)
  BY TopOf
<1>2. /\ f \in Frame /\ f.block = z /\ f.next = Top.next + 1 /\ f.best = MaxLineSet(Top)
      /\ MaxLineSet(Top) \subseteq AllLines
      /\ DOMAIN stack' = DOMAIN stack /\ Len(stack') = Len(stack)
      /\ \A j \in 1 .. Len(stack) - 1 : stack'[j] = stack[j]
      /\ stack'[Len(stack)] = f
  BY Turned
<1>3. /\ z \in Blocks /\ z \in DOMAIN visits /\ s \in DOMAIN visits
      /\ Top.next \in DOMAIN fn.succ[z] /\ fn.succ[z][Top.next] = s
      /\ Top.next \in Nat \ {0} /\ Top \in Running /\ Len(fn.succ[z]) \in Nat
  <2>1. z \in Blocks /\ Top.next \in Nat \ {0} /\ z \in DOMAIN visits
    BY <1>1 DEF Frame
  <2>2. fn.succ[z] \in Seq(Blocks)
    BY <2>1 DEF TypeOK, IsFunction
  <2>3. Top.next \in DOMAIN fn.succ[z]
    BY <2>1, <2>2 DEF HasNext
  <2>4. Top \in Running
    BY <1>1 DEF Running
  <2> QED BY <2>1, <2>2, <2>3, <2>4 DEF Successor
<1> HIDE DEF f
<1>4. /\ Running' \subseteq Running \cup {f}
      /\ \A g \in Running : g = Top \/ g \in Running'
      /\ f \in Running'
  <2>1. DOMAIN stack = 1 .. Len(stack) - 1 \cup {Len(stack)}
    BY <1>1
  <2>2. ASSUME NEW g \in Running' PROVE g \in Running \cup {f}
    BY <1>2, <2>1 DEF Running
  <2>3. ASSUME NEW g \in Running PROVE g = Top \/ g \in Running'
    BY <1>1, <1>2, <2>1 DEF Running
  <2>4. f \in Running'
    BY <1>1, <1>2, <2>1 DEF Running
  <2> QED BY <2>2, <2>3, <2>4
<1>5. Finished' = Finished
  <2>1. {g.block : g \in Running'} = {g.block : g \in Running}
    BY <1>2, <1>3, <1>4
  <2> QED BY <2>1 DEF Finished
<1>6. CallsInv'
  <2>1. DOMAIN visits' \subseteq Reachable'
    BY SameFunction DEF CallsInv
  <2>2. ASSUME NEW g \in Running'
        PROVE  /\ ~Leaf(g.block)' /\ visits'[g.block] = fn'.lines[g.block]
               /\ g.next <= Len(fn'.succ[g.block]) + 1
    <3>1. CASE g \in Running
      BY <3>1, SameFunction DEF CallsInv
    <3>2. CASE g = f
      <4>1. f.next <= Len(fn.succ[z]) + 1
        BY <1>2, <1>3 DEF HasNext
      <4> QED BY <1>2, <1>3, <3>2, <4>1, SameFunction DEF CallsInv
    <3> QED BY <1>4, <3>1, <3>2
  <2>3. ASSUME NEW i \in DOMAIN stack', i < Len(stack')
        PROVE  /\ stack'[i].next <= Len(fn'.succ[stack'[i].block])
               /\ fn'.succ[stack'[i].block][stack'[i].next] = stack'[i + 1].block
    <3> DEFINE n == Len(stack)
    <3>0. /\ i \in DOMAIN stack /\ i < n /\ i \in 1 .. n - 1
          /\ i + 1 = n \/ i + 1 \in 1 .. n - 1
      <4>1. i \in 1 .. n /\ n \in Nat /\ DOMAIN stack = 1 .. n /\ i < n
        BY <1>1, <1>2, <2>3
      <4> HIDE DEF n
      <4> QED BY <4>1
    <3>1. stack'[i] = stack[i]
      BY <1>2, <3>0
    <3>2. stack'[i + 1].block = stack[i + 1].block
      <4>1. CASE i + 1 = n
        BY <1>1, <1>2, <4>1
      <4>2. CASE i + 1 \in 1 .. n - 1
        BY <1>2, <4>2
      <4> QED BY <3>0, <4>1, <4>2
    <3> QED BY <3>0, <3>1, <3>2 DEF CallsInv
  <2> QED BY <2>1, <2>2, <2>3 DEF CallsInv
<1>7. OnSomePath(z, MaxLineSet(Top))
  <2>1. OnSomePath(z, Top.best)
    BY <1>3 DEF WalkInv
  <2>2. s \notin Finished => visits[s] = fn.lines[s] /\ ~Dead(s)
    <3> SUFFICES ASSUME s \notin Finished PROVE visits[s] = fn.lines[s] /\ ~Dead(s)
      OBVIOUS
    <3>1. PICK i \in DOMAIN stack : stack[i].block = s
      BY <1>3 DEF Finished, Running
    <3>2. visits[s] = fn.lines[s]
      BY <3>1 DEF CallsInv, Running
    <3>3. stack[i].next <= Len(fn.succ[s]) /\ stack[i].next \in Nat \ {0}
      <4>1. CASE i = Len(stack)
        BY <1>1, <1>3, <3>1, <4>1 DEF HasNext
      <4>2. CASE i # Len(stack)
        <5>1. i < Len(stack) /\ stack[i] \in Frame
          BY <1>1, <4>2
        <5> QED BY <3>1, <5>1 DEF CallsInv, Frame
      <4> QED BY <4>1, <4>2
    <3>4. fn.succ[s] # <<>>
      <4>1. Len(<<>>) = 0
        OBVIOUS
      <4> QED BY <3>3, <4>1
    <3> QED BY <3>2, <3>4 DEF Dead
  <2>3. z \notin Finished
    BY <1>3 DEF Finished
  <2>4. OnSomePath(z, visits[s] \cup fn.lines[z])
    BY <1>3, <2>2, <2>3, PathOnward
  <2>5. MaxLineSet(Top) = Top.best \/ MaxLineSet(Top) = visits[s] \cup fn.lines[z]
    BY DEF MaxLineSet, OnPath
  <2> HIDE DEF z, s
  <2> QED BY <2>1, <2>4, <2>5
<1>8. \A c, set : OnSomePath(c, set) => OnSomePath(c, set)'
  BY <1>5, SamePath
<1>9. WalkInv'
  <2>1. ASSUME NEW c \in Finished', NEW set \in SUBSET Lines, visits'[c] = set
        PROVE  OnSomePath(c, set)'
    BY <1>5, <1>8, <2>1 DEF WalkInv
  <2>2. ASSUME NEW g \in Running' PROVE OnSomePath(g.block, g.best)'
    <3>1. OnSomePath(g.block, g.best)
      <4>1. CASE g \in Running
        BY <4>1 DEF WalkInv
      <4>2. CASE g = f
        BY <1>2, <1>7, <4>2
      <4> QED BY <1>4, <4>1, <4>2
    <3> QED BY <1>8, <3>1
  <2> QED BY <2>1, <2>2 DEF WalkInv
<1>10. BoundInv'
  <2> SUFFICES ASSUME Disjoint', ~checkFunctionLoops'
               PROVE  /\ \A c \in Finished' : \A w \in Walks(c)' :
                           Cardinality(LinesTaken(w)') <= Cardinality(visits'[c])
                      /\ \A g \in Running' : Bounds(g.best, g.block, g.next)'
    BY DEF BoundInv
  <2>1. Disjoint /\ ~checkFunctionLoops
    BY SameFunction
  <2>2. \A c \in Finished' : \A w \in Walks(c)' :
          Cardinality(LinesTaken(w)') <= Cardinality(visits'[c])
    BY <1>5, <2>1, SameFunction DEF BoundInv
  <2>3. Bounds(f.best, f.block, f.next)
    <3>1. s \in Finished
      BY <1>3, <2>1, NoLoopOnStack
    <3> DEFINE A == Top.best
               B == visits[s] \cup fn.lines[z]
               M == MaxLineSet(Top)
    <3>2. /\ Cardinality(A) \in Nat /\ Cardinality(B) \in Nat /\ Cardinality(M) \in Nat
          /\ Cardinality(A) <= Cardinality(M) /\ Cardinality(B) <= Cardinality(M)
      <4>1. A \subseteq AllLines /\ B \subseteq AllLines
        BY <1>1, <1>3, LinesFinite DEF Found
      <4>2. M = IF Cardinality(A) < Cardinality(B) THEN B ELSE A
        BY DEF MaxLineSet, OnPath
      <4> HIDE DEF A, B, M
      <4>3. Cardinality(A) \in Nat /\ Cardinality(B) \in Nat
        BY <4>1, Sizes
      <4> QED BY <4>2, <4>3
    <3>3. Bounds(A, z, Top.next)
      BY <1>3, <2>1 DEF BoundInv
    <3>4. \A w \in Walks(z) : (Len(w) # 1 => w[2] = s) => Cardinality(LinesTaken(w)) <= Cardinality(B)
      BY <1>3, <2>1, <3>1, TakeBound
    <3>5. \A w \in Walks(z) : Cardinality(LinesTaken(w)) \in Nat
      BY <1>3, WalkLines, Sizes
    <3>6. /\ z \in Blocks /\ fn.succ[z][Top.next] = s /\ Top.next \in Nat \ {0}
      BY <1>3
    <3> HIDE DEF A, B, M, z, s
    <3>7. Bounds(M, z, Top.next + 1)
      <4> SUFFICES ASSUME NEW w \in Walks(z)
                   PROVE  IF Len(w) = 1
                          THEN Top.next + 1 > 1 => Cardinality(LinesTaken(w)) <= Cardinality(M)
                          ELSE \A k \in 1 .. (Top.next + 1) - 1 :
                                 k \in DOMAIN fn.succ[z] /\ w[2] = fn.succ[z][k] =>
                                   Cardinality(LinesTaken(w)) <= Cardinality(M)
        BY DEF Bounds
      <4>1. Cardinality(LinesTaken(w)) <= Cardinality(A) => Cardinality(LinesTaken(w)) <= Cardinality(M)
        BY <3>2, <3>5
      <4>2. Cardinality(LinesTaken(w)) <= Cardinality(B) => Cardinality(LinesTaken(w)) <= Cardinality(M)
        BY <3>2, <3>5
      <4>3. CASE Len(w) = 1
        BY <3>4, <4>2, <4>3
      <4>4. ASSUME Len(w) # 1, NEW k \in 1 .. (Top.next + 1) - 1, k \in DOMAIN fn.succ[z],
                   w[2] = fn.succ[z][k]
            PROVE  Cardinality(LinesTaken(w)) <= Cardinality(M)
        <5>1. CASE k = Top.next
          BY <3>4, <3>6, <4>2, <4>4, <5>1
        <5>2. CASE k # Top.next
          <6>1. k \in 1 .. Top.next - 1
            BY <3>6, <5>2
          <6> QED BY <3>3, <4>1, <4>4, <6>1 DEF Bounds
        <5> QED BY <5>1, <5>2
      <4> QED BY <4>3, <4>4
    <3> QED BY <1>2, <3>7 DEF M, z
  <2>4. ASSUME NEW g \in Running' PROVE Bounds(g.best, g.block, g.next)'
    <3>1. Bounds(g.best, g.block, g.next)
      <4>1. CASE g \in Running
        BY <2>1, <4>1 DEF BoundInv
      <4>2. CASE g = f
        BY <2>3, <4>2
      <4> QED BY <1>4, <4>1, <4>2
    <3> QED BY <3>1, SameBounds
  <2> QED BY <2>2, <2>4
<1> QED BY <1>6, <1>9, <1>10

(* A block left has the most its successors gave.                          *)
LEMMA ReturnWalks ==
  ASSUME TypeOK, Found, CallsInv, WalkInv, BoundInv, stack # <<>>, ~HasNext,
         \A i \in DOMAIN stack : stack[i].block \in DOMAIN visits,
         visits' = With(Top.block, Top.best), stack' = Below, UNCHANGED fn
  PROVE  CallsInv' /\ WalkInv' /\ BoundInv'
<1> DEFINE z == Top.block
           n == Len(stack)
<1>1. /\ stack \in Seq(Frame) /\ Distinct(stack) /\ n \in Nat \ {0} /\ Top \in Frame
      /\ Top = stack[n] /\ DOMAIN stack = 1 .. n
      /\ Len(stack') = n - 1 /\ DOMAIN stack' = 1 .. n - 1
      /\ \A j \in 1 .. n - 1 : stack'[j] = stack[j]
  <2>1. /\ stack \in Seq(Frame) /\ Distinct(stack) /\ n \in Nat \ {0} /\ Top \in Frame
        /\ Top = stack[n] /\ DOMAIN stack = 1 .. n
        /\ Below \in Seq(Frame) /\ Len(Below) = n - 1
        /\ \A j \in 1 .. n - 1 : Below[j] = stack[j]
    BY TopOf
  <2>2. DOMAIN Below = 1 .. Len(Below)
    BY <2>1
  <2> QED BY <2>1, <2>2
<1>2. z \in DOMAIN visits /\ z \in Blocks /\ Top \in Running
  <2>1. n \in DOMAIN stack
    BY <1>1
  <2> QED BY <1>1, <2>1 DEF Frame, Running
<1>3. /\ DOMAIN visits' = DOMAIN visits /\ visits'[z] = Top.best
      /\ \A c \in DOMAIN visits : c # z => visits'[c] = visits[c]
  BY <1>2 DEF With
<1> HIDE DEF n
<1>4. \A j \in 1 .. n - 1 : j \in DOMAIN stack /\ j # n /\ n \in DOMAIN stack
  BY <1>1
<1>5. /\ Running' \subseteq Running /\ \A g \in Running' : g.block # z
      /\ \A g \in Running : g.block # z => g \in Running'
  <2>1. ASSUME NEW g \in Running' PROVE g \in Running /\ g.block # z
    <3>1. PICK j \in 1 .. n - 1 : g = stack[j]
      BY <1>1, <2>1 DEF Running
    <3> QED BY <1>1, <1>4, <3>1 DEF Running, Distinct
  <2>2. ASSUME NEW g \in Running, g.block # z PROVE g \in Running'
    <3>1. PICK j \in 1 .. n : g = stack[j]
      BY <1>1, <2>2 DEF Running
    <3>2. j # n
      BY <1>1, <2>2, <3>1
    <3>3. j \in 1 .. n - 1
      BY <1>1, <3>1, <3>2
    <3> QED BY <1>1, <3>1, <3>3 DEF Running
  <2> QED BY <2>1, <2>2
<1>6. Finished' = Finished \cup {z} /\ z \notin Finished
  <2>1. {g.block : g \in Running'} = {g.block : g \in Running} \ {z}
    BY <1>5
  <2> QED BY <1>2, <1>3, <2>1 DEF Finished
<1>7. CallsInv'
  <2>1. DOMAIN visits' \subseteq Reachable'
    BY <1>3, SameFunction DEF CallsInv
  <2>2. ASSUME NEW g \in Running'
        PROVE  /\ ~Leaf(g.block)' /\ visits'[g.block] = fn'.lines[g.block]
               /\ g.next <= Len(fn'.succ[g.block]) + 1
    <3>1. g \in Running /\ g.block # z /\ g.block \in DOMAIN visits
      BY <1>5, <2>2 DEF Running
    <3> QED BY <1>3, <3>1, SameFunction DEF CallsInv
  <2>3. ASSUME NEW i \in DOMAIN stack', i < Len(stack')
        PROVE  /\ stack'[i].next <= Len(fn'.succ[stack'[i].block])
               /\ fn'.succ[stack'[i].block][stack'[i].next] = stack'[i + 1].block
    <3>1. i \in DOMAIN stack /\ i < n /\ i \in 1 .. n - 1 /\ i + 1 \in 1 .. n - 1
      BY <1>1, <2>3
    <3>2. stack'[i] = stack[i] /\ stack'[i + 1] = stack[i + 1]
      BY <1>1, <3>1
    <3> QED BY <3>1, <3>2 DEF CallsInv, n
  <2> QED BY <2>1, <2>2, <2>3 DEF CallsInv
<1>8. \A c, set : OnSomePath(c, set) => OnSomePath(c, set)'
  BY <1>3, <1>6, SamePath
<1>9. WalkInv'
  <2>1. ASSUME NEW c \in Finished', NEW set \in SUBSET Lines, visits'[c] = set
        PROVE  OnSomePath(c, set)'
    <3>1. CASE c = z
      <4>1. OnSomePath(z, Top.best)
        BY <1>2 DEF WalkInv
      <4>2. OnSomePath(c, set)
        BY <1>3, <2>1, <3>1, <4>1
      <4> QED BY <1>8, <4>2
    <3>2. CASE c # z
      <4>1. c \in Finished /\ c \in DOMAIN visits
        BY <1>6, <2>1, <3>2 DEF Finished
      <4>2. OnSomePath(c, set)
        BY <1>3, <2>1, <3>2, <4>1 DEF WalkInv
      <4> QED BY <1>8, <4>2
    <3> QED BY <3>1, <3>2
  <2>2. ASSUME NEW g \in Running' PROVE OnSomePath(g.block, g.best)'
    BY <1>5, <1>8, <2>2 DEF WalkInv
  <2> QED BY <2>1, <2>2 DEF WalkInv
<1>10. BoundInv'
  <2> SUFFICES ASSUME Disjoint', ~checkFunctionLoops'
               PROVE  /\ \A c \in Finished' : \A w \in Walks(c)' :
                           Cardinality(LinesTaken(w)') <= Cardinality(visits'[c])
                      /\ \A g \in Running' : Bounds(g.best, g.block, g.next)'
    BY DEF BoundInv
  <2>1. Disjoint /\ ~checkFunctionLoops
    BY SameFunction
  <2>2. ASSUME NEW w \in Walks(z) PROVE Cardinality(LinesTaken(w)) <= Cardinality(Top.best)
    <3>1. /\ Top.next = Len(fn.succ[z]) + 1 /\ Len(fn.succ[z]) \in Nat
          /\ DOMAIN fn.succ[z] = 1 .. Len(fn.succ[z]) /\ fn.succ[z] \in Seq(Blocks)
      <4>1. fn.succ[z] \in Seq(Blocks) /\ Top.next \in Nat \ {0}
        BY <1>1, <1>2 DEF TypeOK, IsFunction, Frame
      <4>2. Top.next <= Len(fn.succ[z]) + 1 /\ ~(Top.next <= Len(fn.succ[z]))
        BY <1>2 DEF CallsInv, HasNext
      <4> QED BY <4>1, <4>2
    <3>2. Bounds(Top.best, z, Top.next)
      BY <1>2, <2>1 DEF BoundInv
    <3>3. CASE Len(w) = 1 /\ Top.next > 1
      BY <3>2, <3>3 DEF Bounds
    <3>4. CASE Len(w) = 1 /\ ~(Top.next > 1)
      <4>1. Len(fn.succ[z]) = 0
        BY <3>1, <3>4
      <4>2. fn.succ[z] = <<>>
        BY <3>1, <4>1
      <4>3. LinesTaken(w) = {}
        BY <1>2, <3>4, <4>2, WalkOfOne DEF Dead, CallsInv
      <4>4. Top.best \subseteq AllLines /\ {} \subseteq AllLines
        BY <1>1, <1>2 DEF Found, Running
      <4> QED BY <4>3, <4>4, Sizes
    <3>5. CASE Len(w) # 1
      <4>1. PICK k \in DOMAIN fn.succ[z] : fn.succ[z][k] = w[2]
        BY <1>2, <3>5, WalkGoesOn
      <4>2. k \in 1 .. Top.next - 1
        BY <3>1, <4>1
      <4> QED BY <3>2, <3>5, <4>1, <4>2 DEF Bounds
    <3> QED BY <3>3, <3>4, <3>5
  <2>3. ASSUME NEW c \in Finished', NEW w \in Walks(c)
        PROVE  Cardinality(LinesTaken(w)) <= Cardinality(visits'[c])
    <3>1. CASE c = z
      BY <1>3, <2>2, <3>1
    <3>2. CASE c # z
      <4>1. c \in Finished /\ c \in DOMAIN visits
        BY <1>6, <2>3, <3>2 DEF Finished
      <4> QED BY <1>3, <2>1, <3>2, <4>1 DEF BoundInv
    <3> QED BY <3>1, <3>2
  <2>4. \A c \in Finished' : \A w \in Walks(c)' :
          Cardinality(LinesTaken(w)') <= Cardinality(visits'[c])
    BY <2>3, SameFunction
  <2>5. ASSUME NEW g \in Running' PROVE Bounds(g.best, g.block, g.next)'
    <3>1. Bounds(g.best, g.block, g.next)
      BY <1>5, <2>1 DEF BoundInv
    <3> QED BY <3>1, SameBounds
  <2> QED BY <2>4, <2>5
<1> QED BY <1>7, <1>9, <1>10

-----------------------------------------------------------------------------
(* Nothing is claimed before the exploration begins.                       *)
LEMMA SizeInit == Init => SizeInv
<1> SUFFICES ASSUME Init PROVE SizeInv
  OBVIOUS
<1>1. DOMAIN visits = {} /\ stack = <<>> /\ DOMAIN stack = {} /\ pc = "size"
  BY NoCalls DEF Init
<1>2. Running = {} /\ Finished = {}
  BY <1>1 DEF Running, Finished
<1> QED BY <1>1, <1>2 DEF SizeInv, CallsInv, WalkInv, BoundInv, SizeExact

(* The size measured is that of the set found from the entry block.        *)
LEMMA MeasureExact ==
  ASSUME Inv, CallsInv, WalkInv, BoundInv, Measure
  PROVE  SizeExact'
<1>1. /\ TypeOK /\ Found /\ stack = <<>> /\ fn.entry \in DOMAIN visits
      /\ fnSize' = IF checkFunctionLoops /\ loopCheckEnabled THEN Huge
                   ELSE Cardinality(visits[fn.entry])
      /\ UNCHANGED <<fn, metric, loops, visits, stack>>
  BY DEF Inv, Measure
<1> DEFINE e == fn.entry
<1>2. e \in Blocks /\ e \in Finished
  <2>1. Running = {}
    BY <1>1, NoCalls DEF Running
  <2> QED BY <1>1, <2>1 DEF Finished, TypeOK
<1> SUFFICES ASSUME loopCheckEnabled, Disjoint
             PROVE  IF checkFunctionLoops THEN fnSize' = Huge
                    ELSE /\ \E w \in Walks(e) : fnSize' = Cardinality(LinesTaken(w))
                         /\ \A w \in Walks(e) : fnSize' >= Cardinality(LinesTaken(w))
  BY <1>1, SameFunction DEF SizeExact, loopCheckEnabled
<1>3. CASE checkFunctionLoops
  BY <1>1, <1>3
<1>4. CASE ~checkFunctionLoops
  <2> DEFINE A == visits[e]
  <2>1. fnSize' = Cardinality(A) /\ A \subseteq AllLines /\ A \in SUBSET Lines
    BY <1>1, <1>4 DEF Found, TypeOK
  <2>2. \A w \in Walks(e) : Cardinality(LinesTaken(w)) <= Cardinality(A)
    BY <1>2, <1>4 DEF BoundInv
  <2>3. \A w \in Walks(e) : Cardinality(LinesTaken(w)) \in Nat
    BY <1>1, <1>2, WalkLines, Sizes
  <2>4. Cardinality(A) \in Nat
    BY <1>1, <2>1, Sizes
  <2>5. \E w \in Walks(e) : Cardinality(A) = Cardinality(LinesTaken(w))
    <3>1. OnSomePath(e, A)
      BY <1>2, <2>1 DEF WalkInv
    <3>2. CASE A = {}
      <4>1. <<e>> \in Walks(e)
        BY <1>1, <1>2, OneBlock, PathIsWalk
      <4>2. Cardinality(A) = 0
        BY <3>2, FS_EmptySet
      <4>3. Cardinality(LinesTaken(<<e>>)) = 0
        BY <2>2, <2>3, <4>1, <4>2
      <4> QED BY <4>1, <4>2, <4>3
    <3>3. CASE A # {}
      <4>1. PICK w \in Seq(Blocks) :
              IsPath(w, e) /\ A = LinesOn(w) /\ \A i \in DOMAIN w : ~Dead(w[i])
        BY <3>1, <3>3 DEF OnSomePath
      <4>2. w \in Walks(e)
        BY <1>1, <1>2, <4>1, PathIsWalk
      <4>3. LinesTaken(w) = LinesOn(w)
        BY <4>1 DEF LinesTaken, LinesOn
      <4> QED BY <4>1, <4>2, <4>3
    <3> QED BY <3>2, <3>3
  <2> HIDE DEF A, e
  <2>6. \A w \in Walks(e) : fnSize' >= Cardinality(LinesTaken(w))
    BY <2>1, <2>2, <2>3, <2>4
  <2> QED BY <1>4, <2>1, <2>5, <2>6
<1> QED BY <1>3, <1>4

(* Every step keeps the paths found and the bounds.                        *)
LEMMA SizeStep == Inv /\ Fresh /\ SizeInv /\ [Next]_vars => SizeInv'
<1> SUFFICES ASSUME Inv, Fresh, SizeInv, [Next]_vars PROVE SizeInv'
  OBVIOUS
<1>1. /\ TypeOK /\ Found /\ CallsInv /\ WalkInv /\ BoundInv /\ SizeExact
      /\ \A i \in DOMAIN stack : stack[i].block \in DOMAIN visits
  BY DEF Inv, SizeInv
<1>2. CASE Begin
  <2>1. /\ pc' = "path" /\ Enter(fn.entry, stack) /\ stack = <<>> /\ DOMAIN visits = {}
        /\ UNCHANGED fn
    BY <1>2 DEF Begin, Fresh
  <2>2. fn.entry \in Blocks \ DOMAIN visits /\ fn.entry \in Reachable
    BY <1>1, <2>1, ReachOn
  <2>3. CallsInv' /\ WalkInv' /\ BoundInv'
    BY <1>1, <2>1, <2>2, EnterWalks
  <2> QED BY <2>1, <2>3 DEF SizeInv, SizeExact
<1>3. CASE Call
  <2>1. /\ pc' = "path" /\ stack # <<>> /\ HasNext
        /\ Successor(Top) \notin DOMAIN visits /\ Enter(Successor(Top), stack)
        /\ UNCHANGED fn
    BY <1>3 DEF Call, Exploring
  <2>2. Top \in Frame /\ Top \in Running
    <3>1. Len(stack) \in DOMAIN stack /\ Top = stack[Len(stack)] /\ Top \in Frame
      BY <1>1, <2>1, TopOf
    <3> QED BY <3>1 DEF Running
  <2>3. Top.block \in Reachable /\ Top.next \in DOMAIN fn.succ[Top.block]
    <3>1. Top.block \in Reachable /\ Top.block \in Blocks /\ Top.next \in Nat \ {0}
      BY <1>1, <2>2 DEF CallsInv, Running, Frame
    <3>2. fn.succ[Top.block] \in Seq(Blocks)
      BY <1>1, <3>1 DEF TypeOK, IsFunction
    <3> QED BY <2>1, <3>1, <3>2 DEF HasNext
  <2>4. Successor(Top) \in Reachable /\ Successor(Top) \in Blocks
    BY <1>1, <2>3, ReachOn DEF Successor
  <2> DEFINE b == Successor(Top)
  <2>5. b \in Blocks \ DOMAIN visits /\ b \in Reachable /\ Enter(b, stack)
        /\ (stack # <<>> => HasNext /\ Successor(Top) = b)
    BY <2>1, <2>4
  <2> HIDE DEF b
  <2>6. CallsInv' /\ WalkInv' /\ BoundInv'
    BY <1>1, <2>1, <2>5, EnterWalks
  <2> QED BY <2>1, <2>6 DEF SizeInv, SizeExact
<1>4. CASE Take
  <2>1. /\ pc' = "path" /\ stack # <<>> /\ HasNext /\ Successor(Top) \in DOMAIN visits
        /\ stack' = Append(Below, Advanced(Top)) /\ UNCHANGED <<fn, visits>>
    BY <1>4 DEF Take, Exploring
  <2>2. CallsInv' /\ WalkInv' /\ BoundInv'
    BY <1>1, <2>1, TakeWalks
  <2> QED BY <2>1, <2>2 DEF SizeInv, SizeExact
<1>5. CASE Return
  <2>1. /\ pc' = "path" /\ stack # <<>> /\ ~HasNext
        /\ visits' = With(Top.block, Top.best) /\ stack' = Below /\ UNCHANGED fn
    BY <1>5 DEF Return, Exploring
  <2>2. CallsInv' /\ WalkInv' /\ BoundInv'
    BY <1>1, <2>1, ReturnWalks
  <2> QED BY <2>1, <2>2 DEF SizeInv, SizeExact
<1>6. CASE Measure
  <2>1. UNCHANGED <<fn, visits, stack>>
    BY <1>6 DEF Measure
  <2> QED BY <1>1, <1>6, <2>1, SameWalks, MeasureExact DEF SizeInv
<1>7. CASE Count
  <2>1. UNCHANGED <<fn, visits, stack>> /\ metric' # "LOC_PATH"
    BY <1>7 DEF Count
  <2> QED BY <1>1, <2>1, SameWalks DEF SizeInv, SizeExact
<1>8. CASE UNCHANGED vars
  <2>1. UNCHANGED <<fn, visits, stack>> /\ UNCHANGED <<pc, metric, loops, fnSize>>
    BY <1>8 DEF vars
  <2>2. SizeExact'
    BY <1>1, <2>1, SameFunction DEF SizeExact, loopCheckEnabled
  <2> QED BY <1>1, <2>1, <2>2, SameWalks DEF SizeInv
<1> QED BY <1>2, <1>3, <1>4, <1>5, <1>6, <1>7, <1>8 DEF Next, Terminated

(* What is found on a path is what a walk executes.                        *)
LEMMA SizeTaken == Inv /\ SizeInv => PathTaken
<1> SUFFICES ASSUME Inv, SizeInv, NEW b \in DOMAIN visits, visits[b] # {}
             PROVE  \E w \in Walks(b) : visits[b] = LinesOn(w)
  BY DEF PathTaken, LinesOn
<1>1. TypeOK /\ CallsInv /\ WalkInv /\ b \in Blocks /\ visits[b] \in SUBSET Lines
  BY DEF Inv, SizeInv, TypeOK
<1>2. CASE b \in Finished
  <2>1. OnSomePath(b, visits[b])
    BY <1>1, <1>2 DEF WalkInv
  <2>2. PICK w \in Seq(Blocks) : IsPath(w, b) /\ visits[b] = LinesOn(w)
    BY <2>1 DEF OnSomePath
  <2> QED BY <1>1, <2>2, PathIsWalk
<1>3. CASE b \notin Finished
  <2>1. visits[b] = fn.lines[b]
    BY <1>1, <1>3 DEF Finished, CallsInv
  <2>2. IsPath(<<b>>, b) /\ LinesOn(<<b>>) = fn.lines[b]
    BY <1>1, OneBlock
  <2>3. <<b>> \in Walks(b)
    BY <1>1, <2>2, PathIsWalk
  <2> QED BY <2>1, <2>2, <2>3
<1> QED BY <1>2, <1>3

(* For any function, with loops or not: what explorePath has found from a  *)
(* block is what a path of blocks that follow one another executes.        *)
THEOREM PathIsTaken == Spec => []PathTaken
<1> QED BY InvInit, InvStep, SizeInit, SizeStep, SizeTaken, PTL DEF Spec

(* For any function without loops whose lines are each in one block:       *)
(* visiting every block once finds the longest path; with the loop check   *)
(* one with loops is never small.                                          *)
THEOREM SizeIsExact == Spec => []SizeExact
<1>1. SizeInv => SizeExact
  BY DEF SizeInv
<1> QED BY <1>1, InvInit, InvStep, SizeInit, SizeStep, PTL DEF Spec
=============================================================================
