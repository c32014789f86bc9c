------------------------------ MODULE PassDriver ------------------------------
(***************************************************************************)
(* access_instrument.cpp: runOnModule rewrites a module, function by       *)
(* function, block by block, instruction by instruction, and inserts calls *)
(* of the log functions as the filter says.                                *)
(*                                                                         *)
(* An instruction is a record: its operation; the index of the parameter it*)
(* stores, -1 for everything else; type, the type of the value it loads or *)
(* stores, the function it calls, or the log function; the id of its source*)
(* file, -1 if it has no location; and what it is given as arguments.      *)
(***************************************************************************)
EXTENDS Integers, Sequences, FiniteSets, LogFunctions, AllocDefs

CONSTANTS
  Names, Events, FilterFiles,   (* of Filter                               *)
  AllocFiles,                   (* what alloc.in may be                    *)
  Symbols,                      (* functions that are called, and values   *)
  Modules                       (* what the compiler may be given          *)

VARIABLES
  allocOnly,   (* INST_ALLOC_ONLY was defined when the pass was built      *)
  filters,     (* insfilt                                                  *)
  allocDefs,   (* adm                                                      *)
  module,      (* the module as it was                                     *)
  code,        (* ... and as it is: a sequence of blocks for each function *)
  stage,       (* "start", "load", "function", "block", "instruction", or  *)
               (* how the pass has ended: "skipped", "died", "done"        *)
  fn, blk, pos,(* where the loops over functions, blocks, instructions are *)
  argLogSet    (* parameters waiting to be logged: <<fn, index>>           *)

vars == <<allocOnly, filters, allocDefs, module, code, stage, fn, blk, pos, argLogSet>>

Filter == INSTANCE Filter

Instruction(op) == [op |-> op, arg |-> -1, type |-> "i32", file |-> -1, given |-> <<>>]

(* main, the static initialisers, __dinamite_tracepoint, and all others.   *)
Kinds == {"main", "initialiser", "tracepoint", "plain"}

(* What the pass may insert: calls of log functions, copies of parameters, *)
(* and loads of what a load loads.                                         *)
AccessLogs == {"logAccess_a", "logAccess_r", "logAccess_w"}

Logs == {"logInit", "logExit", "logFnBegin", "logFnEnd", "logAlloc"} \cup AccessLogs

InsertedOps == Logs \cup {"argstore", "reload"}

(* "br" and "unreachable" stand for all that the pass does not look at.    *)
SourceOps == {"load", "store", "call", "exit", "ret", "br", "unreachable"}

(* Ids of files; -1 stands for no location, and the 16 bits that are logged*)
(* for it are no id's.                                                     *)
Files == -1 .. 65534

SourceInstructions ==
  [op : SourceOps, arg : Int, type : Types \cup Symbols, file : Files,
   given : Seq(Symbols)]

(* Blocks end with a terminator, and a return is one.                      *)
Terminated(block) ==
  /\ block # <<>>
  /\ block[Len(block)].op \notin {"load", "store", "call", "exit"}
  /\ \A p \in 1 .. Len(block) - 1 : block[p].op # "ret"

ASSUME PassDriverAssumption ==
  /\ Events = {"access", "function", "alloc"}
  /\ \A m \in Modules : Len(m.functions) \in Nat /\ \A f \in 1 .. Len(m.functions) :
       /\ m.functions[f].kind \in Kinds
       /\ m.functions[f].params \in Nat /\ m.functions[f].size \in Nat
       /\ m.functions[f].blocks \in Seq(Seq(SourceInstructions))
       /\ \A b \in DOMAIN m.functions[f].blocks :
            LET block == m.functions[f].blocks[b]
            IN /\ Terminated(block)
               /\ \A p \in DOMAIN block :
                    block[p].op \in {"load", "store"} => block[p].type \in Types

(* A call is given a size, and a count of it, where its definition says;   *)
(* without alloc.in these are malloc and calloc of C.                      *)
Labelled(call, numIdx, sizeIdx) ==
  /\ sizeIdx + 1 \in DOMAIN call.given /\ call.given[sizeIdx + 1] = "size"
  /\ IF numIdx = -1 THEN \A i \in DOMAIN call.given : call.given[i] # "count"
     ELSE numIdx + 1 \in DOMAIN call.given /\ call.given[numIdx + 1] = "count"

Unlabelled(call) == \A i \in DOMAIN call.given : call.given[i] \notin {"size", "count"}

LabelledByC(call) ==
  CASE call.type = "malloc" -> Labelled(call, -1, 0)
    [] call.type = "calloc" -> Labelled(call, 0, 1)
    [] OTHER -> Unlabelled(call)

LabelledBy(defs, call) ==
  IF HasAllocDef(defs, call.type)
  THEN LET def == GetAllocDef(defs, call.type) IN Labelled(call, def.numIdx, def.sizeIdx)
  ELSE Unlabelled(call)

ASSUME AllocationsAssumption ==
  \A m \in Modules : \A f \in 1 .. Len(m.functions) :
    \A b \in DOMAIN m.functions[f].blocks : \A p \in DOMAIN m.functions[f].blocks[b] :
      LET x == m.functions[f].blocks[b][p]
      IN x.op = "call" => \A file \in AllocFiles :
           IF file.found THEN LoadExits(file) \/ LabelledBy(LoadAllocDefs(file), x)
           ELSE LabelledByC(x)

-----------------------------------------------------------------------------
(* What the filter says of a function.                                     *)
On(f, event) ==
  Filter!CheckFunctionFilter(filters, module.functions[f].name, event)

Kept(f) ==
  Filter!CheckFunctionSize(filters, module.functions[f].name,
                           module.functions[f].size)

(* Function events are logged; main has them in any case, which the mutant *)
(* forgets.                                                                *)
BracketedUnlessOff(f) == On(f, "function")

Bracketed(f) == On(f, "function") \/ module.functions[f].kind = "main"

(* instrumentFnEvent                                                       *)
FnEvent(f, begin) ==
  IF module.functions[f].kind \in {"main", "initialiser"}
  THEN <<Instruction(IF begin THEN "logInit" ELSE "logExit")>>
  ELSE IF allocOnly THEN <<>>
  ELSE <<Instruction(IF begin THEN "logFnBegin" ELSE "logFnEnd")>>

(* queueAndInjectArgsToLog: the parameters the filter selects.             *)
Args(f) ==
  LET Selected(k) == Filter!CheckFunctionArgFilter(filters, module.functions[f].name, k)
      args[n \in 0 .. module.functions[f].params] ==
        IF n = 0 THEN <<>>
        ELSE IF Selected(n - 1) THEN Append(args[n - 1], n - 1) ELSE args[n - 1]
  IN IF On(f, "function") THEN args[module.functions[f].params] ELSE <<>>

(* The copies it stores of them, for each to be met by the loop.           *)
ArgStores(f) ==
  [i \in DOMAIN Args(f) |-> [Instruction("argstore") EXCEPT !.arg = Args(f)[i]]]

(* The block with items inserted before position i.                        *)
Inserted(block, i, items) ==
  SubSeq(block, 1, i - 1) \o items \o SubSeq(block, i, Len(block))

-----------------------------------------------------------------------------
(* runOnModule                                                             *)

Init ==
  /\ allocOnly \in BOOLEAN
  /\ filters = Filter!Null /\ allocDefs = <<>>
  /\ module \in Modules
  /\ code = [f \in 1 .. Len(module.functions) |-> module.functions[f].blocks]
  /\ stage = "start"
  /\ fn = 1 /\ blk = 1 /\ pos = 1
  /\ argLogSet = {}

(* The filter is loaded, and the module's file checked against it.         *)
LoadFilter ==
  /\ stage = "start"
  /\ filters' \in Filter!LoadFilterData
  /\ stage' = IF Filter!CheckFileFilter(filters', module.file)
              THEN "load" ELSE "skipped"
  /\ UNCHANGED <<allocOnly, allocDefs, module, code, fn, blk, pos, argLogSet>>

(* The allocation definitions and the log functions are loaded; a file of  *)
(* definitions that does not parse, or no library, ends the compiler.      *)
LoadDefinitions ==
  /\ stage = "load"
  /\ \E file \in AllocFiles, library \in BOOLEAN :
       IF LoadExits(file) \/ ~library
       THEN stage' = "died" /\ UNCHANGED allocDefs
       ELSE stage' = "function" /\ allocDefs' = LoadAllocDefs(file)
  /\ UNCHANGED <<allocOnly, filters, module, code, fn, blk, pos, argLogSet>>

AtFunction == stage = "function" /\ fn <= Len(module.functions)

(* A function that is too small, or has no body.                           *)
SkipFunction ==
  /\ AtFunction
  /\ ~Kept(fn) \/ code[fn] = <<>>
  /\ fn' = fn + 1
  /\ UNCHANGED <<allocOnly, filters, allocDefs, module, code, stage, blk, pos, argLogSet>>

(* The arguments to log are queued and copied, then the begin event is     *)
(* inserted before the copies.                                             *)
EnterFunction ==
  /\ AtFunction
  /\ Kept(fn) /\ code[fn] # <<>>
  /\ LET begin == IF Bracketed(fn) THEN FnEvent(fn, TRUE) ELSE <<>>
     IN code' = [code EXCEPT ![fn][1] = begin \o ArgStores(fn) \o @]
  /\ argLogSet' = argLogSet \cup {<<fn, Args(fn)[i]>> : i \in DOMAIN Args(fn)}
  /\ stage' = "block" /\ blk' = 1
  /\ UNCHANGED <<allocOnly, filters, allocDefs, module, fn, pos>>

(* The end event is inserted before a return.                              *)
EnterBlock ==
  /\ stage = "block" /\ blk <= Len(code[fn])
  /\ LET block == code[fn][blk]
         last == Len(block)
         end == IF block[last].op = "ret" /\ Bracketed(fn)
                THEN FnEvent(fn, FALSE) ELSE <<>>
     IN code' = [code EXCEPT ![fn][blk] = Inserted(block, last, end)]
  /\ stage' = "instruction" /\ pos' = 1
  /\ UNCHANGED <<allocOnly, filters, allocDefs, module, fn, blk, argLogSet>>

LeaveFunction ==
  /\ stage = "block" /\ blk > Len(code[fn])
  /\ stage' = "function" /\ fn' = fn + 1
  /\ UNCHANGED <<allocOnly, filters, allocDefs, module, code, blk, pos, argLogSet>>

LeaveBlock ==
  /\ stage = "instruction" /\ pos > Len(code[fn][blk])
  /\ stage' = "block" /\ blk' = blk + 1
  /\ UNCHANGED <<allocOnly, filters, allocDefs, module, code, fn, pos, argLogSet>>

AtInstruction(ops) ==
  /\ stage = "instruction" /\ pos <= Len(code[fn][blk])
  /\ code[fn][blk][pos].op \in ops

(* items are inserted before the instruction and the loop goes on after it.*)
InsertBefore(items) ==
  /\ code' = [code EXCEPT ![fn][blk] = Inserted(@, pos, items)]
  /\ pos' = pos + Len(items) + 1
  /\ stage' = stage

(* instrumentAccess: the log call is given what the instruction stores, or *)
(* a load of its own from the same place.  getLogFunction exits at a wide  *)
(* integer.                                                                *)
InstrumentAccess(op) ==
  LET instruction == code[fn][blk][pos]
      function == getLogFunction(instruction.type,
                                 module.functions[fn].kind = "tracepoint")
      reload == IF op = "logAccess_r" THEN <<Instruction("reload")>> ELSE <<>>
      log == [instruction EXCEPT !.op = op, !.type = function]
  IN IF instruction.type = "wide" THEN stage' = "died" /\ UNCHANGED <<code, pos>>
     ELSE InsertBefore(reload \o IF function = NULL THEN <<>> ELSE <<log>>)

(* The value a store stores, as a parameter.                              *)
Stored == <<fn, code[fn][blk][pos].arg>>

(* What isArg may be at a store: whether the argument was waiting, or, as  *)
(* checkAndConsumeArg is not called, anything.  The mutant takes any store *)
(* of a parameter for an argument.                                         *)
IsArgAnyStore == {Stored[2] >= 0}

IsArg ==
  IF On(fn, "function")
  THEN {Stored \in argLogSet} ELSE BOOLEAN

(* What is waiting after checkAndConsumeArg; the mutant forgets to erase.  *)
ConsumedNot == argLogSet

Consumed ==
  IF On(fn, "function") THEN argLogSet \ {Stored} ELSE argLogSet

VisitStore ==
  /\ AtInstruction({"store", "argstore"}) /\ ~allocOnly
  /\ \E isArg \in IsArg :
       IF (On(fn, "function") /\ isArg) \/ On(fn, "access")
       THEN InstrumentAccess(IF isArg THEN "logAccess_a" ELSE "logAccess_w")
       ELSE InsertBefore(<<>>)
  /\ argLogSet' = Consumed
  /\ UNCHANGED <<allocOnly, filters, allocDefs, module, fn, blk>>

VisitLoad ==
  /\ AtInstruction({"load"}) /\ ~allocOnly
  /\ IF On(fn, "access") THEN InstrumentAccess("logAccess_r")
     ELSE InsertBefore(<<>>)
  /\ UNCHANGED <<allocOnly, filters, allocDefs, module, fn, blk, argLogSet>>

(* instrumentAlloc: the log call is given two arguments of the call, or one*)
(* and the number 1.                                                       *)
LogAlloc(call, def) ==
  [call EXCEPT !.op = "logAlloc", !.type = "logAlloc",
               !.given = <<@[def.sizeIdx + 1],
                           IF def.numIdx # -1 THEN @[def.numIdx + 1] ELSE "1">>]

AllocLog(call) ==
  IF On(fn, "alloc") /\ HasAllocDef(allocDefs, call.type)
  THEN <<LogAlloc(call, GetAllocDef(allocDefs, call.type))>> ELSE <<>>

(* It is inserted after the call, so that the loop meets it.              *)
VisitCall ==
  /\ AtInstruction({"call"})
  /\ code' = [code EXCEPT ![fn][blk] = Inserted(@, pos + 1, AllocLog(code[fn][blk][pos]))]
  /\ pos' = pos + 1
  /\ UNCHANGED <<allocOnly, filters, allocDefs, module, stage, fn, blk, argLogSet>>

(* instrumentExit                                                          *)
VisitExit ==
  /\ AtInstruction({"exit"})
  /\ InsertBefore(IF Bracketed(fn) THEN <<Instruction("logExit")>> ELSE <<>>)
  /\ UNCHANGED <<allocOnly, filters, allocDefs, module, fn, blk, argLogSet>>

(* Everything else, the log calls among them.                              *)
VisitOther ==
  /\ stage = "instruction" /\ pos <= Len(code[fn][blk])
  /\ LET op == code[fn][blk][pos].op
     IN /\ op \notin {"call", "exit"}
        /\ op \in {"store", "argstore", "load"} => allocOnly
  /\ InsertBefore(<<>>)
  /\ UNCHANGED <<allocOnly, filters, allocDefs, module, fn, blk, argLogSet>>

(* The maps are saved (IdMap).                                             *)
Finish ==
  /\ stage = "function" /\ fn > Len(module.functions)
  /\ stage' = "done"
  /\ UNCHANGED <<allocOnly, filters, allocDefs, module, code, fn, blk, pos, argLogSet>>

Next ==
  \/ LoadFilter \/ LoadDefinitions \/ SkipFunction \/ EnterFunction \/ EnterBlock
  \/ LeaveFunction \/ LeaveBlock
  \/ VisitStore \/ VisitLoad \/ VisitCall \/ VisitExit \/ VisitOther
  \/ Finish

Spec == Init /\ [][Next]_vars

-----------------------------------------------------------------------------
(* Correctness.                                                            *)

(* The functions the pass is done with.                                    *)
Finished == IF stage \in {"start", "load"} THEN {} ELSE 1 .. fn - 1

(* Whether the instruction before position p of the block is op.           *)
After(block, p, op) == p > 1 /\ block[p - 1].op = op

(* Every load and store of a function whose accesses are on is logged just *)
(* before it happens, no other is, and a store of a parameter counts as    *)
(* such and not as the logging of an argument.                             *)
AccessesLogged ==
  \A f \in Finished : \A b \in DOMAIN code[f] : \A p \in DOMAIN code[f][b] :
    LET block == code[f][b]
        logged == Kept(f) /\ On(f, "access") /\ ~allocOnly
                  /\ block[p].type # "struct"
    IN /\ block[p].op = "load" => (logged <=> After(block, p, "logAccess_r"))
       /\ block[p].op = "store" /\ (On(f, "function") \/ ~On(f, "access")) =>
            (logged <=> After(block, p, "logAccess_w"))

(* The positions of op in the blocks of function f.                        *)
Places(f, ops) ==
  UNION {{<<b, p>> : p \in {q \in DOMAIN code[f][b] : code[f][b][q].op \in ops}}
         : b \in DOMAIN code[f]}

(* The arguments the filter selects are logged once, before any instruction*)
(* of the function, if its function events are on.                         *)
ArgumentsLogged ==
  \A f \in Finished :
    code[f] # <<>> /\ Kept(f) /\ On(f, "function") /\ ~allocOnly =>
      /\ Cardinality(Places(f, {"logAccess_a"})) = Len(Args(f))
      /\ \A i \in DOMAIN Args(f) :
           \E p \in 1 .. Len(code[f][1]) - 1 :
             /\ code[f][1][p].op = "logAccess_a"
             /\ code[f][1][p].arg = Args(f)[i]
             /\ code[f][1][p + 1].op = "argstore"
             /\ \A q \in 1 .. p : code[f][1][q].op \in InsertedOps

(* "Check for argument instrumentation, and remember the result": only an  *)
(* argument of a function whose function events are on is logged as one.   *)
OnlyArgumentsAsArguments ==
  \A f \in Finished :
    Places(f, {"logAccess_a"}) # {} => On(f, "function") /\ Args(f) # <<>>

(* In a function whose allocations are on, each is logged once, just after *)
(* it, though the loop meets what it has inserted; elsewhere none is.  What*)
(* is logged is all the call asks for, the size and the count of it.       *)
AllocationsLogged ==
  \A f \in Finished :
    /\ \A place \in Places(f, {"logAlloc"}) :
         After(code[f][place[1]], place[2], "call")
    /\ \A place \in Places(f, {"call"}) :
         LET block == code[f][place[1]]
             call == block[place[2]]
             next == block[place[2] + 1]
             size == {"size", "count"} \cap {call.given[i] : i \in DOMAIN call.given}
         IN IF Kept(f) /\ On(f, "alloc") /\ size # {}
            THEN /\ next.op = "logAlloc" /\ next.file = call.file
                 /\ next.given = <<"size", IF "count" \in size THEN "count" ELSE "1">>
            ELSE next.op # "logAlloc"

(* From the entry a log call will make, the reader of a trace gets the     *)
(* value of the access, whatever its type: no cast changes it, and of the  *)
(* union it is the member read that was written.  And it gets the file: the*)
(* entries for two files differ, and those without a location from both.   *)
EntriesRead ==
  \A f \in Finished :
    LET accesses == Places(f, AccessLogs)
        At(place) == code[f][place[1]][place[2]]
        Entry(place) == AccessEntry(At(place).type, At(place).file)
    IN \A place \in accesses :
         LET accessed == code[f][place[1]][place[2] + 1]
         IN /\ CastLegal(accessed.type, Entry(place).member)
            /\ Entry(place).member = MemberOf[Entry(place).value_type]
            /\ \A other \in accesses :
                 At(place).file # At(other).file => Entry(place).file # Entry(other).file

(* A function whose events are on, main and initialisers among them, begins*)
(* with its begin event, and nothing is between its end event and each     *)
(* return; main logs the end of the program before each call of exit too.  *)
Bracketing ==
  \A f \in Finished :
    /\ Kept(f) /\ code[f] # <<>> /\ ~allocOnly
    /\ On(f, "function") \/ module.functions[f].kind = "main"
    => /\ code[f][1][1].op \in {"logInit", "logFnBegin"}
       /\ \A place \in Places(f, {"ret"}) :
            \/ After(code[f][place[1]], place[2], "logExit")
            \/ After(code[f][place[1]], place[2], "logFnEnd")
       /\ \A place \in Places(f, {"exit"}) :
            After(code[f][place[1]], place[2], "logExit")

=============================================================================
