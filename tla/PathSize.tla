------------------------------ MODULE PathSize -------------------------------
(***************************************************************************)
(* Util.cpp and runOnModule in access_instrument.cpp: the size of a        *)
(* function, by which small functions are left out of the trace.  It is the*)
(* number of its basic blocks, of its source lines, or of the source lines *)
(* on its longest path; explorePath looks for that path depth first and    *)
(* keeps for every block the largest set of lines found from it on.        *)
(*                                                                         *)
(* A step is a call of explorePath, one turn of its loop over successors,  *)
(* or a return from it.                                                    *)
(***************************************************************************)
EXTENDS Naturals, Sequences, FiniteSets

CONSTANTS
  Blocks,    (* the basic blocks of a function                             *)
  Lines,     (* source lines                                               *)
  Functions, (* the functions considered: records of entry, succ, returns  *)
             (* and lines                                                  *)
  Huge       (* (uint32_t)~0, more than any function has lines             *)

(* The entry block, the successors of each block in the order of its       *)
(* terminator, the blocks that end in a return, and the lines of each.     *)
IsFunction(f) ==
  /\ f.entry \in Blocks
  /\ f.succ \in [Blocks -> Seq(Blocks)]
  /\ f.returns \subseteq Blocks
  /\ \A b \in f.returns : f.succ[b] = <<>>
  /\ f.lines \in [Blocks -> SUBSET Lines]

ASSUME PathSizeAssumption ==
  /\ IsFiniteSet(Blocks) /\ IsFiniteSet(Lines)
  /\ \A f \in Functions : IsFunction(f)
  /\ Huge \in Nat

(* The values of function_size_metric and check_small_function_loops in the*)
(* filter file, "null" where it has none.                                  *)
MetricValues == {"null", "IR", "LOC", "LOC_PATH"}
LoopCheckValues == {"null", "true", "false"}

VARIABLES
  fn,       (* the function                                                *)
  metric,   (* function_size_metric                                        *)
  loops,    (* check_small_function_loops                                  *)
  pc,       (* "size", "path" while explorePath runs, "done"               *)
  visits,   (* the lines found from each block visited so far              *)
  stack,    (* the calls of explorePath: block, next successor, maxLineSet *)
  fnSize

vars == <<fn, metric, loops, pc, visits, stack, fnSize>>

Frame == [block : Blocks, next : Nat \ {0}, best : SUBSET Lines]

(* The types of all variables; and a block is never being explored twice.  *)
TypeOK ==
  /\ IsFunction(fn)
  /\ metric \in MetricValues /\ loops \in LoopCheckValues
  /\ pc \in {"size", "path", "done"}
  /\ DOMAIN visits \subseteq Blocks /\ visits \in [DOMAIN visits -> SUBSET Lines]
  /\ stack \in Seq(Frame)
  /\ \A i, j \in DOMAIN stack : stack[i].block = stack[j].block => i = j
  /\ fnSize \in Nat

Init ==
  /\ fn \in Functions
  /\ metric \in MetricValues /\ loops \in LoopCheckValues
  /\ pc = "size"
  /\ visits = [b \in {} |-> {}]
  /\ stack = <<>>
  /\ fnSize = 0

-----------------------------------------------------------------------------
(* The function.                                                           *)

(* A leaf ends the path: it returns.                                       *)
Leaf(b) == b \in fn.returns

AllLines == UNION {fn.lines[b] : b \in Blocks}

(* The blocks control can reach.                                           *)
ClosedUnderSucc(S) == \A b \in S : \A i \in DOMAIN fn.succ[b] : fn.succ[b][i] \in S

Reachable ==
  {b \in Blocks : \A S \in SUBSET Blocks :
                    fn.entry \in S /\ ClosedUnderSucc(S) => b \in S}

(* FindFunctionBackedges finds one: some reachable blocks can go on for    *)
(* ever among themselves.                                                  *)
checkFunctionLoops ==
  \E S \in SUBSET Reachable :
    S # {} /\ \A b \in S : \E i \in DOMAIN fn.succ[b] : fn.succ[b][i] \in S

(* Loops are looked for unless the filter file says not to; the mutant     *)
(* does not ask it.                                                        *)
LoopCheckAlways == TRUE

loopCheckEnabled == loops # "false"

-----------------------------------------------------------------------------
(* explorePath                                                             *)

(* visits with an entry for b.                                             *)
With(b, set) == [c \in DOMAIN visits \cup {b} |-> IF c = b THEN set ELSE visits[c]]

Entered(b) == With(b, fn.lines[b])

(* explorePath(b) for a block not visited yet, called with calls below.    *)
Enter(b, calls) ==
  /\ visits' = Entered(b)
  /\ stack' = IF Leaf(b) THEN calls
              ELSE Append(calls, [block |-> b, next |-> 1, best |-> {}])

Top == stack[Len(stack)]

Below == SubSeq(stack, 1, Len(stack) - 1)

Successor(f) == fn.succ[f.block][f.next]

(* The lines of f's block and of the path found from its next successor;   *)
(* the mutant keeps what it has from the successors before.                *)
OnPathAll(f) == f.best \cup visits[Successor(f)] \cup fn.lines[f.block]

OnPath(f) == visits[Successor(f)] \cup fn.lines[f.block]

(* maxLineSet after that successor; the mutant keeps the last one.         *)
MaxLineSetLast(f) == OnPath(f)

MaxLineSet(f) ==
  IF Cardinality(f.best) < Cardinality(OnPath(f)) THEN OnPath(f) ELSE f.best

(* The loop goes on; the mutant does so only if it has found a longer path.*)
AdvancedIfLonger(f) ==
  [f EXCEPT !.best = MaxLineSet(f), !.next = IF MaxLineSet(f) = f.best THEN @ ELSE @ + 1]

Advanced(f) == [f EXCEPT !.best = MaxLineSet(f), !.next = @ + 1]

(* longestPathSize calls explorePath on the entry block.                   *)
Begin ==
  /\ pc = "size" /\ metric = "LOC_PATH"
  /\ pc' = "path"
  /\ Enter(fn.entry, <<>>)
  /\ UNCHANGED <<fn, metric, loops, fnSize>>

Exploring == pc = "path" /\ stack # <<>>

HasNext == Top.next <= Len(fn.succ[Top.block])

Call ==
  /\ Exploring /\ HasNext /\ Successor(Top) \notin DOMAIN visits
  /\ Enter(Successor(Top), stack)
  /\ UNCHANGED <<fn, metric, loops, pc, fnSize>>

(* A visited successor returns at once.                                    *)
Take ==
  /\ Exploring /\ HasNext /\ Successor(Top) \in DOMAIN visits
  /\ stack' = Append(Below, Advanced(Top))
  /\ UNCHANGED <<fn, metric, loops, pc, visits, fnSize>>

Return ==
  /\ Exploring /\ ~HasNext
  /\ visits' = With(Top.block, Top.best)
  /\ stack' = Below
  /\ UNCHANGED <<fn, metric, loops, pc, fnSize>>

-----------------------------------------------------------------------------
(* The size.                                                               *)

getFunctionLOCSize == Cardinality(AllLines)

Count ==
  /\ pc = "size" /\ metric # "LOC_PATH"
  /\ pc' = "done"
  /\ fnSize' = IF metric = "IR" THEN Cardinality(Blocks) ELSE getFunctionLOCSize
  /\ UNCHANGED <<fn, metric, loops, visits, stack>>

Measure ==
  /\ pc = "path" /\ stack = <<>>
  /\ pc' = "done"
  /\ fnSize' = IF checkFunctionLoops /\ loopCheckEnabled THEN Huge
               ELSE Cardinality(visits[fn.entry])
  /\ UNCHANGED <<fn, metric, loops, visits, stack>>

Terminated == pc = "done" /\ UNCHANGED vars

Next == Begin \/ Call \/ Take \/ Return \/ Count \/ Measure \/ Terminated

Spec == Init /\ [][Next]_vars

(* Sequential code of one thread.                                          *)
FairSpec == Spec /\ WF_vars(Next)

-----------------------------------------------------------------------------
(* Correctness.                                                            *)

(* What explorePath has found from a block is what a real path from there  *)
(* executes: the lines of blocks that follow one another, and of no others.*)
(* A block that neither returns nor goes on counts for nothing.            *)
Walks(b) ==
  {w \in UNION {[1 .. k -> Blocks] : k \in 1 .. Cardinality(Blocks)} :
     /\ w[1] = b
     /\ \A i \in 1 .. Len(w) - 1 :
          \E j \in DOMAIN fn.succ[w[i]] : fn.succ[w[i]][j] = w[i + 1]}

PathTaken ==
  \A b \in DOMAIN visits :
    visits[b] = {} \/ \E w \in Walks(b) : visits[b] = UNION {fn.lines[w[i]] : i \in DOMAIN w}

(* A block that is not taken for a part of any path.                       *)
Dead(b) == ~Leaf(b) /\ fn.succ[b] = <<>>

LinesTaken(w) == UNION {fn.lines[w[i]] : i \in {j \in DOMAIN w : ~Dead(w[j])}}

Disjoint == \A b, c \in Blocks : b # c => fn.lines[b] \cap fn.lines[c] = {}

(* Although it visits each block once, explorePath finds the longest path  *)
(* of a function without loops in which every line is in one block: its    *)
(* size is the lines of some path, and no path has more.  And functions    *)
(* with loops are as large as any minimum: with the loop check no function *)
(* is taken for a small one.                                               *)
SizeExact ==
  pc = "done" /\ metric = "LOC_PATH" /\ loopCheckEnabled /\ Disjoint =>
    IF checkFunctionLoops THEN fnSize = Huge
    ELSE /\ \E w \in Walks(fn.entry) : fnSize = Cardinality(LinesTaken(w))
         /\ \A w \in Walks(fn.entry) : fnSize >= Cardinality(LinesTaken(w))

(* A path is never longer than the function, unless it stands for a loop   *)
(* the filter file asks for.                                               *)
PathWithinLoc ==
  pc = "done" /\ metric = "LOC_PATH" /\ ~(checkFunctionLoops /\ loops # "false") =>
    fnSize <= getFunctionLOCSize

(* The exploration ends, whatever the loops of the function.               *)
Terminates == <>(pc = "done")

=============================================================================
