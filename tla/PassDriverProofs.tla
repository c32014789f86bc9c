--------------------------- MODULE PassDriverProofs ---------------------------
(***************************************************************************)
(* Theorems about PassDriver, for any modules, filter files and allocation *)
(* definitions: where the pass puts log calls, and what they are given.    *)
(***************************************************************************)
EXTENDS PassDriver, FiniteSetTheorems, FunctionTheorems, SequenceTheorems,
        WellFoundedInduction, TLAPS

-----------------------------------------------------------------------------
(* Instructions.                                                           *)

(* The instructions the compiler may be given,                             *)
Given ==
  {x \in SourceInstructions :
     \E m \in Modules : \E f \in 1 .. Len(m.functions) :
       \E b \in DOMAIN m.functions[f].blocks : \E p \in DOMAIN m.functions[f].blocks[b] :
         m.functions[f].blocks[b][p] = x}

(* the log calls of allocations,                                           *)
AllocLogs ==
  {LogAlloc(x, GetAllocDef(LoadAllocDefs(file), x.type)) : x \in Given, file \in AllocFiles}

(* and all else the pass inserts.                                          *)
LogTypes == {"i32", NULL} \cup DOMAIN Parameter

Added ==
  {x \in [op : InsertedOps \ {"logAlloc"}, arg : Int, type : LogTypes, file : Files,
          given : Seq(Symbols)] : x.op = "argstore" => x.type = "i32"}

Instructions == Given \cup AllocLogs \cup Added

(* A load or store, of a value some type has.                              *)
Accesses == {"load", "store", "argstore"}

(* What LogAlloc makes of a call.                                          *)
LEMMA LogAllocIs ==
  ASSUME NEW x \in SourceInstructions, NEW def
  PROVE  /\ LogAlloc(x, def).op = "logAlloc" /\ LogAlloc(x, def).arg = x.arg
         /\ LogAlloc(x, def).type = "logAlloc" /\ LogAlloc(x, def).file = x.file
         /\ LogAlloc(x, def).given =
              <<x.given[def.sizeIdx + 1],
                IF def.numIdx # -1 THEN x.given[def.numIdx + 1] ELSE "1">>
  <1> DEFINE g == <<x.given[def.sizeIdx + 1],
                    IF def.numIdx # -1 THEN x.given[def.numIdx + 1] ELSE "1">>
  <1>1. LogAlloc(x, def) =
          [x EXCEPT !.op = "logAlloc", !.type = "logAlloc", !.given = g]
    BY DEF LogAlloc
  <1> HIDE DEF g
  <1> DEFINE F == Files
  <1>2. x \in [op : SourceOps, arg : Int, type : Types \cup Symbols, file : F,
               given : Seq(Symbols)]
    BY DEF SourceInstructions
  <1> HIDE DEF F
  <1>3. /\ LogAlloc(x, def).op = "logAlloc" /\ LogAlloc(x, def).arg = x.arg
        /\ LogAlloc(x, def).type = "logAlloc" /\ LogAlloc(x, def).file = x.file
        /\ LogAlloc(x, def).given = g
    BY <1>1, <1>2
  <1> QED
    BY <1>3 DEF g

(* What every instruction is.                                              *)
LEMMA InstructionFacts ==
  ASSUME NEW x \in Instructions
  PROVE  /\ x.op \in SourceOps \cup InsertedOps /\ x.arg \in Int /\ x.file \in Files
         /\ x.op \in SourceOps => x \in Given
         /\ x.op \in Accesses => x.type \in Types /\ x.given \in Seq(Symbols)
  <1> DEFINE F == Files
  <1>1. CASE x \in Given
    <2>1. x \in [op : SourceOps, arg : Int, type : Types \cup Symbols, file : F,
                 given : Seq(Symbols)]
      BY <1>1 DEF Given, SourceInstructions
    <2> HIDE DEF F
    <2>2. x.op \in SourceOps /\ x.arg \in Int /\ x.file \in F /\ x.given \in Seq(Symbols)
      BY <2>1
    <2>3. x.op \in {"load", "store"} => x.type \in Types
      BY <1>1, PassDriverAssumption DEF Given
    <2>4. "argstore" \notin SourceOps
      BY DEF SourceOps
    <2> QED
      BY <1>1, <2>2, <2>3, <2>4 DEF Accesses, F
  <1>2. CASE x \in AllocLogs
    <2>1. PICK y \in Given, file \in AllocFiles :
            x = LogAlloc(y, GetAllocDef(LoadAllocDefs(file), y.type))
      BY <1>2 DEF AllocLogs
    <2>2. y \in SourceInstructions
      BY DEF Given
    <2>3. y \in [op : SourceOps, arg : Int, type : Types \cup Symbols, file : F,
                 given : Seq(Symbols)]
      BY <2>2 DEF SourceInstructions
    <2> HIDE DEF F
    <2>4. y.arg \in Int /\ y.file \in F
      BY <2>3
    <2>5. x.op = "logAlloc" /\ x.arg = y.arg /\ x.file = y.file
      BY <2>1, <2>2, LogAllocIs
    <2> QED
      BY <2>4, <2>5 DEF F, SourceOps, InsertedOps, Logs, Accesses
  <1>3. CASE x \in Added
    <2>1. x \in [op : InsertedOps \ {"logAlloc"}, arg : Int, type : LogTypes, file : F,
                 given : Seq(Symbols)]
      BY <1>3 DEF Added
    <2>2. x.op = "argstore" => x.type = "i32"
      BY <1>3 DEF Added
    <2> HIDE DEF F
    <2>3. x.op \in InsertedOps /\ x.arg \in Int /\ x.file \in F /\ x.given \in Seq(Symbols)
      BY <2>1
    <2>4. x.op \notin SourceOps /\ x.op \notin {"load", "store"}
      BY <2>3 DEF InsertedOps, Logs, AccessLogs, SourceOps
    <2> QED
      BY <2>2, <2>3, <2>4 DEF Accesses, F, Types, Bytes
  <1> QED
    BY <1>1, <1>2, <1>3 DEF Instructions

(* What has a location only.                                               *)
LEMMA InstructionIs ==
  ASSUME NEW op \in InsertedOps \ {"logAlloc"}
  PROVE  /\ Instruction(op) \in Instructions
         /\ Instruction(op).op = op
  <1> DEFINE x == Instruction(op)
             F == Files
             G == Seq(Symbols)
  <1>1. -1 \in F
    BY DEF Files
  <1>2. <<>> \in G
    OBVIOUS
  <1>3. "i32" \in LogTypes
    BY DEF LogTypes
  <1> HIDE DEF F, G
  <1>4. x \in [op : InsertedOps \ {"logAlloc"}, arg : Int, type : LogTypes, file : F, given : G]
    BY <1>1, <1>2, <1>3 DEF Instruction
  <1>5. x.type = "i32" /\ x.op = op
    BY DEF Instruction
  <1> QED
    BY <1>4, <1>5 DEF Instructions, Added, F, G

(* The copy of a parameter.                                                *)
LEMMA CopyIs ==
  ASSUME NEW v \in Int
  PROVE  LET x == [Instruction("argstore") EXCEPT !.arg = v]
         IN x \in Instructions /\ x.op = "argstore" /\ x.arg = v
  <1> DEFINE x == [Instruction("argstore") EXCEPT !.arg = v]
             F == Files
             G == Seq(Symbols)
  <1>1. -1 \in F
    BY DEF Files
  <1>2. <<>> \in G
    OBVIOUS
  <1>3. "i32" \in LogTypes /\ "argstore" \in InsertedOps \ {"logAlloc"}
    BY DEF LogTypes, InsertedOps
  <1> HIDE DEF F, G
  <1>4. x = [op |-> "argstore", arg |-> v, type |-> "i32", file |-> -1, given |-> <<>>]
    BY DEF Instruction
  <1> HIDE DEF x
  <1>5. x \in [op : InsertedOps \ {"logAlloc"}, arg : Int, type : LogTypes, file : F, given : G]
    BY <1>1, <1>2, <1>3, <1>4
  <1>6. x.type = "i32" /\ x.op = "argstore" /\ x.arg = v
    BY <1>4
  <1>7. x \in Instructions
    BY <1>5, <1>6 DEF Instructions, Added, F, G
  <1> QED
    BY <1>6, <1>7 DEF x

(* The log call of an access.                                              *)
LogOf(x, op, function) == [x EXCEPT !.op = op, !.type = function]

(* It is made of the instruction that accesses.                            *)
LEMMA LogIs ==
  ASSUME NEW x \in Instructions, x.op \in Accesses, NEW op \in AccessLogs,
         NEW function \in LogTypes
  PROVE  /\ LogOf(x, op, function) \in Instructions
         /\ LogOf(x, op, function).op = op /\ LogOf(x, op, function).type = function
         /\ LogOf(x, op, function).arg = x.arg /\ LogOf(x, op, function).file = x.file
  <1> DEFINE log == LogOf(x, op, function)
             F == Files
             G == Seq(Symbols)
  <1>1. x \in Given \cup Added
    <2>1. ASSUME x \in AllocLogs PROVE FALSE
      <3>1. PICK y \in Given, file \in AllocFiles :
              x = LogAlloc(y, GetAllocDef(LoadAllocDefs(file), y.type))
        BY <2>1 DEF AllocLogs
      <3>2. x.op = "logAlloc"
        BY <3>1, LogAllocIs DEF Given
      <3> QED
        BY <3>2 DEF Accesses
    <2> QED
      BY <2>1 DEF Instructions
  <1>2. \/ x \in [op : SourceOps, arg : Int, type : Types \cup Symbols, file : F, given : G]
        \/ x \in [op : InsertedOps \ {"logAlloc"}, arg : Int, type : LogTypes, file : F, given : G]
    BY <1>1 DEF Given, SourceInstructions, Added
  <1> HIDE DEF F, G
  <1>3. op \in InsertedOps \ {"logAlloc"} /\ op # "argstore"
    BY DEF AccessLogs, InsertedOps, Logs
  <1>4. /\ log \in [op : InsertedOps \ {"logAlloc"}, arg : Int, type : LogTypes, file : F,
                   given : G]
        /\ log.op = op /\ log.type = function /\ log.arg = x.arg /\ log.file = x.file
    BY <1>2, <1>3 DEF LogOf
  <1> HIDE DEF log
  <1>5. log \in Instructions
    BY <1>3, <1>4 DEF Instructions, Added, F, G
  <1> QED
    BY <1>4, <1>5 DEF log

-----------------------------------------------------------------------------
(* Blocks.                                                                 *)

(* Where the elements of a block are after items have been inserted.       *)
LEMMA InsertedIs ==
  ASSUME NEW S, NEW c \in Seq(S), NEW items \in Seq(S), NEW i \in 1 .. Len(c) + 1
  PROVE  /\ Inserted(c, i, items) \in Seq(S)
         /\ Len(Inserted(c, i, items)) = Len(c) + Len(items)
         /\ \A q \in 1 .. i - 1 : Inserted(c, i, items)[q] = c[q]
         /\ \A q \in 1 .. Len(items) : Inserted(c, i, items)[i - 1 + q] = items[q]
         /\ \A q \in i .. Len(c) : Inserted(c, i, items)[q + Len(items)] = c[q]
  <1> DEFINE l == Len(c)
             m == Len(items)
             s == SubSeq(c, 1, i - 1)
             t == SubSeq(c, i, l)
             u == s \o items
  <1>1. l \in Nat /\ m \in Nat /\ i \in 1 .. l + 1
    OBVIOUS
  <1>2. /\ s \in Seq(S) /\ Len(s) = i - 1 /\ \A q \in 1 .. i - 1 : s[q] = c[q]
        /\ t \in Seq(S) /\ Len(t) = l - i + 1 /\ \A q \in 1 .. l - i + 1 : t[q] = c[i - 1 + q]
    <2>1. \A q \in 1 .. l : c[q] \in S
      OBVIOUS
    <2>2. s \in Seq(S) /\ Len(s) = i - 1 /\ \A q \in 1 .. i - 1 : s[q] = c[q]
      BY <1>1, <2>1
    <2>3. t \in Seq(S) /\ Len(t) = l - i + 1 /\ \A q \in 1 .. l - i + 1 : t[q] = c[i - 1 + q]
      BY <1>1, <2>1
    <2> QED
      BY <2>2, <2>3
  <1> HIDE DEF s, t
  <1>3. /\ u \in Seq(S) /\ Len(u) = i - 1 + m
        /\ \A q \in 1 .. i - 1 + m : u[q] = IF q <= i - 1 THEN s[q] ELSE items[q - (i - 1)]
    <2>1. /\ u \in Seq(S) /\ Len(u) = Len(s) + Len(items)
          /\ \A q \in 1 .. Len(s) + Len(items) :
               u[q] = IF q <= Len(s) THEN s[q] ELSE items[q - Len(s)]
      BY <1>2, ConcatProperties, Zenon
    <2> QED
      BY <1>2, <2>1
  <1> HIDE DEF u
  <1>4. /\ u \o t \in Seq(S) /\ Len(u \o t) = l + m
        /\ \A q \in 1 .. l + m : (u \o t)[q] = IF q <= i - 1 + m THEN u[q] ELSE t[q - (i - 1 + m)]
    <2>1. /\ u \o t \in Seq(S) /\ Len(u \o t) = Len(u) + Len(t)
          /\ \A q \in 1 .. Len(u) + Len(t) :
               (u \o t)[q] = IF q <= Len(u) THEN u[q] ELSE t[q - Len(u)]
      BY <1>2, <1>3, ConcatProperties, Zenon
    <2>2. Len(u) + Len(t) = l + m
      BY <1>1, <1>2, <1>3
    <2> QED
      BY <1>2, <1>3, <2>1, <2>2
  <1>5. Inserted(c, i, items) = u \o t
    BY DEF Inserted, u, s, t
  <1> DEFINE w == u \o t
  <1> HIDE DEF w
  <1>6. \A q \in 1 .. i - 1 : w[q] = c[q]
    <2> TAKE q \in 1 .. i - 1
    <2>1. q \in 1 .. l + m /\ q <= i - 1 + m /\ q <= i - 1 /\ q \in 1 .. i - 1 + m
      BY <1>1
    <2> QED
      BY <1>2, <1>3, <1>4, <2>1 DEF w
  <1>7. \A q \in 1 .. m : w[i - 1 + q] = items[q]
    <2> TAKE q \in 1 .. m
    <2>1. /\ i - 1 + q \in 1 .. l + m /\ i - 1 + q <= i - 1 + m /\ ~(i - 1 + q <= i - 1)
          /\ i - 1 + q \in 1 .. i - 1 + m /\ (i - 1 + q) - (i - 1) = q
      BY <1>1
    <2>2. w[i - 1 + q] = u[i - 1 + q]
      BY <1>4, <2>1 DEF w
    <2>3. u[i - 1 + q] = items[(i - 1 + q) - (i - 1)]
      BY <1>3, <2>1
    <2> QED
      BY <2>1, <2>2, <2>3
  <1>8. \A q \in i .. l : w[q + m] = c[q]
    <2> TAKE q \in i .. l
    <2>1. /\ q + m \in 1 .. l + m /\ ~(q + m <= i - 1 + m)
          /\ (q + m) - (i - 1 + m) = q - i + 1
          /\ q - i + 1 \in 1 .. l - i + 1 /\ i - 1 + (q - i + 1) = q
      BY <1>1
    <2>2. w[q + m] = t[q - i + 1]
      BY <1>4, <2>1 DEF w
    <2>3. t[q - i + 1] = c[i - 1 + (q - i + 1)]
      BY <1>2, <2>1
    <2> QED
      BY <2>1, <2>2, <2>3
  <1> QED
    BY <1>4, <1>5, <1>6, <1>7, <1>8 DEF w

(* What is before position p of a block; nothing the pass looks at is      *)
(* before the first.                                                       *)
Before(c, p) == IF p = 1 THEN Instruction("br") ELSE c[p - 1]

(* The last instruction is a terminator, and a return is the last.         *)
Terminal(c) ==
  /\ c # <<>>
  /\ c[Len(c)].op \in {"ret", "br", "unreachable"}
  /\ \A p \in 1 .. Len(c) - 1 : c[p].op # "ret"

(* A block as it was, and one the loop has not come to.                    *)
Source(c) == c \in Seq(Given) /\ Terminal(c)

Fresh(c) ==
  /\ c \in Seq(Instructions) /\ Terminal(c)
  /\ \A p \in 1 .. Len(c) : c[p].op \notin AccessLogs \cup {"logAlloc"}

(* What the properties say of an instruction y and the x before it, in a   *)
(* function of which the settings k hold: the events that are on, its kind,*)
(* and whether only allocations are logged.                                *)
IsLogged(k, y) == "access" \in k /\ "allocOnly" \notin k /\ y.type # "struct"

Brackets(k) == "function" \in k \/ "main" \in k

FunctionFor(k, type) == getLogFunction(type, "tracepoint" \in k)

AccessPair(k, x, y) ==
  /\ y.op = "load" => (IsLogged(k, y) <=> x.op = "logAccess_r")
  /\ y.op = "store" /\ ("function" \in k \/ "access" \notin k) =>
       (IsLogged(k, y) <=> x.op = "logAccess_w")

EntryPair(k, x, y) ==
  x.op \in AccessLogs => y.type \in DOMAIN Bytes /\ x.type = FunctionFor(k, y.type)

ExitPair(k, x, y) == y.op = "exit" /\ Brackets(k) => x.op = "logExit"

RetPair(k, x, y) ==
  y.op = "ret" /\ Brackets(k) /\ "allocOnly" \notin k => x.op \in {"logExit", "logFnEnd"}

Allocates(k, d, x) == x.op = "call" /\ "alloc" \in k /\ HasAllocDef(d, x.type)

AllocPair(k, d, x, y) ==
  y.op = "logAlloc" => Allocates(k, d, x) /\ y = LogAlloc(x, GetAllocDef(d, x.type))

CallPair(k, d, x, y) == Allocates(k, d, x) => y.op = "logAlloc"

(* What holds of a pair wherever the loop is, once it has passed y, and    *)
(* when it is at y.                                                        *)
Always(k, d, x, y) == RetPair(k, x, y) /\ AllocPair(k, d, x, y)

Passed(k, x, y) == AccessPair(k, x, y) /\ EntryPair(k, x, y) /\ ExitPair(k, x, y)

(* A block in which the loop is at position p, and one it has left.        *)
Under(k, d, c, p) ==
  /\ c \in Seq(Instructions) /\ Terminal(c) /\ p \in 1 .. Len(c) + 1
  /\ \A q \in 1 .. Len(c) :
       /\ Always(k, d, Before(c, q), c[q])
       /\ q < p => Passed(k, Before(c, q), c[q])
       /\ q <= p => CallPair(k, d, Before(c, q), c[q])
       /\ q >= p => c[q].op \notin AccessLogs
       /\ q > p => c[q].op # "logAlloc"
  /\ p > 1 => c[p - 1].op \notin AccessLogs

Complete(k, d, c) == Under(k, d, c, Len(c) + 1)

(* What is inserted keeps the terminator at the end.                       *)
LEMMA TerminalInserted ==
  ASSUME NEW c \in Seq(Instructions), Terminal(c), NEW i \in 1 .. Len(c),
         NEW items \in Seq(Instructions), \A q \in 1 .. Len(items) : items[q].op # "ret"
  PROVE  Terminal(Inserted(c, i, items))
  <1> DEFINE l == Len(c)
             m == Len(items)
             w == Inserted(c, i, items)
  <1>1. l \in Nat /\ m \in Nat /\ i \in 1 .. l
    OBVIOUS
  <1>2. /\ Len(w) = l + m
        /\ \A q \in 1 .. i - 1 : w[q] = c[q]
        /\ \A q \in 1 .. m : w[i - 1 + q] = items[q]
        /\ \A q \in i .. l : w[q + m] = c[q]
    <2>1. i \in 1 .. Len(c) + 1
      BY <1>1
    <2>2. /\ Inserted(c, i, items) \in Seq(Instructions)
          /\ Len(Inserted(c, i, items)) = Len(c) + Len(items)
          /\ \A q \in 1 .. i - 1 : Inserted(c, i, items)[q] = c[q]
          /\ \A q \in 1 .. Len(items) : Inserted(c, i, items)[i - 1 + q] = items[q]
          /\ \A q \in i .. Len(c) : Inserted(c, i, items)[q + Len(items)] = c[q]
      BY <2>1, InsertedIs, Zenon
    <2> QED
      BY <2>2, Zenon
  <1>3. c[l].op \in {"ret", "br", "unreachable"} /\ \A q \in 1 .. l - 1 : c[q].op # "ret"
    BY DEF Terminal
  <1>a. Len(w) = l + m
    BY <1>2
  <1> HIDE DEF l, m, w
  <1>4. w # <<>>
    <2>1. Len(w) \in Nat \ {0}
      BY <1>1, <1>a
    <2> QED
      BY <2>1
  <1>5. w[l + m] = c[l]
    <2>1. l \in i .. l
      BY <1>1
    <2> QED
      BY <1>2, <2>1
  <1>6. ASSUME NEW q \in 1 .. l + m - 1 PROVE w[q].op # "ret"
    <2>1. CASE q < i
      <3>1. q \in 1 .. i - 1 /\ q \in 1 .. l - 1
        BY <1>1, <2>1
      <3> QED
        BY <1>2, <1>3, <3>1
    <2>2. CASE q >= i /\ q < i + m
      <3>1. q - i + 1 \in 1 .. m /\ i - 1 + (q - i + 1) = q
        BY <1>1, <2>2
      <3>2. w[q] = items[q - i + 1]
        BY <1>2, <3>1
      <3> QED
        BY <3>1, <3>2 DEF m
    <2>3. CASE q >= i + m
      <3>1. q - m \in i .. l /\ (q - m) + m = q /\ q - m \in 1 .. l - 1
        BY <1>1, <2>3
      <3> QED
        BY <1>2, <1>3, <3>1
    <2> QED
      BY <1>1, <2>1, <2>2, <2>3
  <1>7. w[Len(w)].op \in {"ret", "br", "unreachable"}
    BY <1>a, <1>3, <1>5
  <1>8. \A q \in 1 .. Len(w) - 1 : w[q].op # "ret"
    BY <1>1, <1>a, <1>6
  <1> QED
    BY <1>4, <1>7, <1>8 DEF Terminal, w

(* Something is inserted before the instruction at p, which is no call, and*)
(* each of what is inserted and this instruction stands well with what is  *)
(* before it.                                                              *)
LEMMA VisitIs ==
  ASSUME NEW k, NEW d, NEW c, NEW p, Under(k, d, c, p), p <= Len(c),
         NEW items \in Seq(Instructions),
         \A q \in 1 .. Len(items) : items[q].op # "ret",
         c[p].op # "call",
         \A q \in 1 .. Len(items) + 1 :
           LET x == IF q = 1 THEN Before(c, p) ELSE items[q - 1]
               y == IF q = Len(items) + 1 THEN c[p] ELSE items[q]
           IN Always(k, d, x, y) /\ Passed(k, x, y) /\ CallPair(k, d, x, y)
  PROVE  Under(k, d, Inserted(c, p, items), p + Len(items) + 1)
  <1> DEFINE l == Len(c)
             m == Len(items)
             w == Inserted(c, p, items)
             Well(x, y) == Always(k, d, x, y) /\ Passed(k, x, y) /\ CallPair(k, d, x, y)
  <1>1. /\ c \in Seq(Instructions) /\ Terminal(c) /\ p \in 1 .. l
        /\ l \in Nat /\ m \in Nat
    BY DEF Under
  <1>2. \A q \in 1 .. l :
          /\ Always(k, d, Before(c, q), c[q])
          /\ q < p => Passed(k, Before(c, q), c[q])
          /\ q <= p => CallPair(k, d, Before(c, q), c[q])
          /\ q >= p => c[q].op \notin AccessLogs
          /\ q > p => c[q].op # "logAlloc"
    BY DEF Under
  <1>3. /\ w \in Seq(Instructions) /\ Len(w) = l + m
        /\ \A q \in 1 .. p - 1 : w[q] = c[q]
        /\ \A q \in 1 .. m : w[p - 1 + q] = items[q]
        /\ \A q \in p .. l : w[q + m] = c[q]
    <2>1. p \in 1 .. Len(c) + 1 /\ c \in Seq(Instructions)
      BY <1>1
    <2>2. /\ Inserted(c, p, items) \in Seq(Instructions)
          /\ Len(Inserted(c, p, items)) = Len(c) + Len(items)
          /\ \A q \in 1 .. p - 1 : Inserted(c, p, items)[q] = c[q]
          /\ \A q \in 1 .. Len(items) : Inserted(c, p, items)[p - 1 + q] = items[q]
          /\ \A q \in p .. Len(c) : Inserted(c, p, items)[q + Len(items)] = c[q]
      BY <2>1, InsertedIs, Zenon
    <2> QED
      BY <2>2, Zenon
  <1>a. Len(w) = l + m
    BY <1>3
  <1>4. \A q \in 1 .. m + 1 : Well(IF q = 1 THEN Before(c, p) ELSE items[q - 1],
                                   IF q = m + 1 THEN c[p] ELSE items[q])
    OBVIOUS
  <1>5. Terminal(w)
    <2>1. p \in 1 .. Len(c)
      BY <1>1
    <2> QED
      BY <1>1, <2>1, TerminalInserted
  <1> HIDE DEF l, m, w, Well
  <1>6. ASSUME NEW q \in 1 .. l + m, q < p
        PROVE  w[q] = c[q] /\ Before(w, q) = Before(c, q) /\ q \in 1 .. l
    <2>1. q \in 1 .. p - 1 /\ q \in 1 .. l
      BY <1>1, <1>6
    <2>2. q = 1 \/ q - 1 \in 1 .. p - 1
      BY <1>1, <1>6
    <2> QED
      BY <1>3, <2>1, <2>2 DEF Before
  <1>7. ASSUME NEW q \in 1 .. l + m, q >= p, q <= p + m
        PROVE  Well(Before(w, q), w[q])
    <2>1. q - p + 1 \in 1 .. m + 1 /\ q \in 1 .. l + m
      BY <1>1, <1>7
    <2>2. Before(w, q) = IF q - p + 1 = 1 THEN Before(c, p) ELSE items[q - p]
      <3>1. CASE q = p
        <4>1. p = 1 \/ p - 1 \in 1 .. p - 1
          BY <1>1
        <4> QED
          BY <1>1, <1>3, <3>1, <4>1 DEF Before
      <3>2. CASE q # p
        <4>1. q # 1 /\ q - p \in 1 .. m /\ p - 1 + (q - p) = q - 1 /\ q - p + 1 # 1
          BY <1>1, <1>7, <3>2
        <4>2. w[q - 1] = items[q - p]
          BY <1>3, <4>1
        <4> QED
          BY <4>1, <4>2 DEF Before
      <3> QED
        BY <3>1, <3>2
    <2>3. w[q] = IF q - p + 1 = m + 1 THEN c[p] ELSE items[q - p + 1]
      <3>1. CASE q = p + m
        <4>1. p \in p .. l /\ q - p + 1 = m + 1
          BY <1>1, <3>1
        <4> QED
          BY <1>3, <3>1, <4>1
      <3>2. CASE q # p + m
        <4>1. q - p + 1 \in 1 .. m /\ p - 1 + (q - p + 1) = q /\ q - p + 1 # m + 1
          BY <1>1, <1>7, <3>2
        <4> QED
          BY <1>3, <4>1
      <3> QED
        BY <3>1, <3>2
    <2> DEFINE r == q - p + 1
    <2>4. r \in 1 .. m + 1 /\ r - 1 = q - p
      BY <1>1, <2>1
    <2>5. Before(w, q) = (IF r = 1 THEN Before(c, p) ELSE items[r - 1])
          /\ w[q] = (IF r = m + 1 THEN c[p] ELSE items[r])
      BY <2>2, <2>3, <2>4
    <2> HIDE DEF r
    <2>6. Well(IF r = 1 THEN Before(c, p) ELSE items[r - 1], IF r = m + 1 THEN c[p] ELSE items[r])
      BY <1>4, <2>4
    <2> QED
      BY <2>5, <2>6, Zenon
  <1>8. ASSUME NEW q \in 1 .. l + m, q > p + m
        PROVE  w[q] = c[q - m] /\ Before(w, q) = Before(c, q - m) /\ q - m \in p + 1 .. l
    <2>1. /\ q - m \in p + 1 .. l /\ q - m \in p .. l /\ (q - m) + m = q
          /\ (q - m) - 1 \in p .. l /\ ((q - m) - 1) + m = q - 1 /\ q # 1 /\ q - m # 1
      BY <1>1, <1>8
    <2> QED
      BY <1>3, <2>1 DEF Before
  <1>9. ASSUME NEW q \in 1 .. l + m
        PROVE  /\ Always(k, d, Before(w, q), w[q])
               /\ q < p + m + 1 => Passed(k, Before(w, q), w[q])
               /\ q <= p + m + 1 => CallPair(k, d, Before(w, q), w[q])
               /\ q >= p + m + 1 => w[q].op \notin AccessLogs
               /\ q > p + m + 1 => w[q].op # "logAlloc"
    <2>1. CASE q < p
      <3>1. ~(q >= p + m + 1) /\ ~(q > p + m + 1) /\ q <= p
        BY <1>1, <2>1
      <3> QED
        BY <1>2, <1>6, <2>1, <3>1
    <2>2. CASE q >= p /\ q <= p + m
      <3>1. ~(q >= p + m + 1) /\ ~(q > p + m + 1)
        BY <1>1, <2>2
      <3> QED
        BY <1>7, <2>2, <3>1 DEF Well
    <2>3. CASE q > p + m
      <3> DEFINE r == q - m
      <3>1. w[q] = c[r] /\ Before(w, q) = Before(c, r) /\ r \in p + 1 .. l /\ r \in 1 .. l
        BY <1>1, <1>8, <2>3
      <3>2. /\ ~(q < p + m + 1) /\ r >= p /\ r > p
            /\ (q <= p + m + 1 => r = p + 1)
        BY <1>1, <2>3, <3>1
      <3> HIDE DEF r
      <3>3. r = p + 1 => Before(c, r) = c[p]
        BY <1>1 DEF Before
      <3>4. q <= p + m + 1 => CallPair(k, d, Before(w, q), w[q])
        BY <3>1, <3>2, <3>3 DEF CallPair, Allocates
      <3> QED
        BY <1>2, <3>1, <3>2, <3>4
    <2> QED
      BY <1>1, <2>1, <2>2, <2>3
  <1>10. w[p + m + 1 - 1].op \notin AccessLogs
    <2>1. p + m + 1 - 1 = p + m /\ p \in p .. l /\ p \in 1 .. l /\ p >= p
      BY <1>1
    <2> QED
      BY <1>2, <1>3, <2>1
  <1>11. p + m + 1 \in 1 .. Len(w) + 1
    BY <1>1, <1>3
  <1>12. Under(k, d, w, p + m + 1)
    <2>1. \A q \in 1 .. Len(w) :
            /\ Always(k, d, Before(w, q), w[q])
            /\ q < p + m + 1 => Passed(k, Before(w, q), w[q])
            /\ q <= p + m + 1 => CallPair(k, d, Before(w, q), w[q])
            /\ q >= p + m + 1 => w[q].op \notin AccessLogs
            /\ q > p + m + 1 => w[q].op # "logAlloc"
      BY <1>a, <1>9
    <2>2. w \in Seq(Instructions)
      BY <1>3
    <2> QED
      BY <1>1, <1>5, <1>10, <1>11, <2>1, <2>2 DEF Under
  <1> QED
    BY <1>12 DEF w, m

(* The last instruction is none of those the loop looks at, so that one    *)
(* comes after a call.                                                     *)
LEMMA CallIsNotLast ==
  ASSUME NEW c, Terminal(c), Len(c) \in Nat, NEW p \in 1 .. Len(c), c[p].op = "call"
  PROVE  p < Len(c)
  BY DEF Terminal

(* Where the loop is at a call, the log call is inserted after it.         *)
LEMMA CallIs ==
  ASSUME NEW k, NEW d, NEW c, NEW p, Under(k, d, c, p), p <= Len(c), c[p].op = "call",
         LogAlloc(c[p], GetAllocDef(d, c[p].type)) \in Instructions
  PROVE  LET items == IF Allocates(k, d, c[p])
                      THEN <<LogAlloc(c[p], GetAllocDef(d, c[p].type))>> ELSE <<>>
         IN Under(k, d, Inserted(c, p + 1, items), p + 1)
  <1> DEFINE log == LogAlloc(c[p], GetAllocDef(d, c[p].type))
             items == IF Allocates(k, d, c[p]) THEN <<log>> ELSE <<>>
             l == Len(c)
             m == Len(items)
             w == Inserted(c, p + 1, items)
  <1>1. /\ c \in Seq(Instructions) /\ Terminal(c) /\ p \in 1 .. l
        /\ l \in Nat /\ p + 1 \in 1 .. Len(c) /\ p + 1 \in 1 .. Len(c) + 1
    <2>1. c \in Seq(Instructions) /\ Terminal(c) /\ p \in 1 .. l /\ l \in Nat
      BY DEF Under
    <2>2. p < l
      BY <2>1, CallIsNotLast
    <2> QED
      BY <2>1, <2>2
  <1>2. \A q \in 1 .. l :
          /\ Always(k, d, Before(c, q), c[q])
          /\ q < p => Passed(k, Before(c, q), c[q])
          /\ q <= p => CallPair(k, d, Before(c, q), c[q])
          /\ q >= p => c[q].op \notin AccessLogs
          /\ q > p => c[q].op # "logAlloc"
    BY DEF Under
  <1>3. Before(c, p).op \notin AccessLogs
    <2>1. CASE p = 1
      BY <2>1 DEF Before, Instruction, AccessLogs
    <2>2. CASE p # 1
      <3>1. p > 1
        BY <1>1, <2>2
      <3> QED
        BY <2>2, <3>1 DEF Before, Under
    <2> QED
      BY <2>1, <2>2
  <1>4. log.op = "logAlloc"
    <2>1. c[p] \in Instructions
      BY <1>1
    <2>2. c[p] \in SourceInstructions
      BY <2>1, InstructionFacts DEF Given, SourceOps
    <2> QED
      BY <2>2, LogAllocIs
  <1> HIDE DEF log
  <1>5. /\ items \in Seq(Instructions) /\ m \in Nat
        /\ Allocates(k, d, c[p]) => m = 1 /\ items[1] = log
        /\ ~Allocates(k, d, c[p]) => m = 0
    <2>1. log \in Instructions
      BY DEF log
    <2>2. CASE Allocates(k, d, c[p])
      <3>1. items = <<log>>
        BY <2>2
      <3> QED
        BY <2>1, <2>2, <3>1
    <2>3. CASE ~Allocates(k, d, c[p])
      <3>1. items = <<>>
        BY <2>3
      <3> QED
        BY <2>3, <3>1
    <2> QED
      BY <2>2, <2>3
  <1> HIDE DEF items
  <1>6. /\ w \in Seq(Instructions) /\ Len(w) = l + m
        /\ \A q \in 1 .. p : w[q] = c[q]
        /\ \A q \in 1 .. m : w[p + q] = items[q]
        /\ \A q \in p + 1 .. l : w[q + m] = c[q]
    <2>1. /\ Inserted(c, p + 1, items) \in Seq(Instructions)
          /\ Len(Inserted(c, p + 1, items)) = Len(c) + Len(items)
          /\ \A q \in 1 .. (p + 1) - 1 : Inserted(c, p + 1, items)[q] = c[q]
          /\ \A q \in 1 .. Len(items) : Inserted(c, p + 1, items)[(p + 1) - 1 + q] = items[q]
          /\ \A q \in p + 1 .. Len(c) : Inserted(c, p + 1, items)[q + Len(items)] = c[q]
      BY <1>1, <1>5, InsertedIs, Zenon
    <2>2. (p + 1) - 1 = p
      BY <1>1
    <2> HIDE DEF w
    <2>3. /\ w \in Seq(Instructions) /\ Len(w) = Len(c) + Len(items)
          /\ \A q \in 1 .. p : w[q] = c[q]
          /\ \A q \in 1 .. Len(items) : w[p + q] = items[q]
          /\ \A q \in p + 1 .. Len(c) : w[q + Len(items)] = c[q]
      BY <2>1, <2>2, Zenon DEF w
    <2> QED
      BY <2>3
  <1>7. Terminal(w)
    <2>1. \A q \in 1 .. Len(items) : items[q].op # "ret"
      BY <1>4, <1>5
    <2> QED
      BY <1>1, <1>5, <2>1, TerminalInserted
  <1> HIDE DEF l, m, w
  <1>a. Len(w) = l + m
    BY <1>6
  <1>b. m \in {0, 1} /\ p < l
    BY <1>1, <1>5 DEF l
  <1>8. ASSUME NEW q \in 1 .. l + m
        PROVE  /\ Always(k, d, Before(w, q), w[q])
               /\ q < p + 1 => Passed(k, Before(w, q), w[q])
               /\ q <= p + 1 => CallPair(k, d, Before(w, q), w[q])
               /\ q >= p + 1 => w[q].op \notin AccessLogs
               /\ q > p + 1 => w[q].op # "logAlloc"
    <2>1. CASE q <= p
      <3>1. q \in 1 .. p /\ (q = 1 \/ q - 1 \in 1 .. p) /\ q \in 1 .. l /\ ~(q >= p + 1)
            /\ ~(q > p + 1)
        BY <1>1, <2>1
      <3>2. w[q] = c[q] /\ Before(w, q) = Before(c, q)
        BY <1>6, <3>1 DEF Before
      <3>3. q = p => Passed(k, Before(c, q), c[q])
        BY <1>3 DEF Passed, AccessPair, EntryPair, ExitPair
      <3>4. q = p \/ q < p
        BY <1>1, <2>1
      <3> QED
        BY <1>2, <2>1, <3>1, <3>2, <3>3, <3>4
    <2>2. CASE q = p + 1 /\ Allocates(k, d, c[p])
      <3>1. w[q] = log /\ Before(w, q) = c[p]
        <4>1. 1 \in 1 .. m /\ p \in 1 .. p /\ q # 1 /\ q - 1 = p
          BY <1>1, <1>5, <2>2
        <4> QED
          BY <1>5, <1>6, <2>2, <4>1 DEF Before
      <3>2. ~(q < p + 1) /\ ~(q > p + 1)
        BY <1>1, <2>2
      <3> QED
        BY <1>4, <2>2, <3>1, <3>2 DEF Always, RetPair, AllocPair, CallPair, AccessLogs, log
    <2>3. CASE q = p + 1 /\ ~Allocates(k, d, c[p])
      <3>1. w[q] = c[q] /\ Before(w, q) = c[p] /\ Before(c, q) = c[p]
        <4>1. q \in p + 1 .. l /\ p \in 1 .. p /\ q # 1 /\ q - 1 = p /\ q + m = q
          BY <1>1, <1>5, <1>b, <2>3
        <4> QED
          BY <1>6, <2>3, <4>1 DEF Before
      <3>2. ~(q < p + 1) /\ ~(q > p + 1) /\ q \in 1 .. l /\ q >= p
        BY <1>1, <1>b, <2>3
      <3> QED
        BY <1>2, <2>3, <3>1, <3>2 DEF CallPair
    <2>4. CASE q > p + 1 /\ ~(q = p + 2 /\ m = 1)
      <3> DEFINE r == q - m
      <3>1. w[q] = c[r] /\ Before(w, q) = Before(c, r)
        <4>1. /\ r \in p + 1 .. l /\ r + m = q /\ q # 1 /\ r # 1
              /\ r - 1 \in p + 1 .. l /\ (r - 1) + m = q - 1
          BY <1>1, <1>b, <2>4
        <4> QED
          BY <1>6, <4>1 DEF Before
      <3>2. ~(q < p + 1) /\ ~(q <= p + 1) /\ r \in 1 .. l /\ r >= p /\ r > p
        BY <1>1, <1>b, <2>4
      <3> HIDE DEF r
      <3> QED
        BY <1>2, <3>1, <3>2
    <2>5. CASE q = p + 2 /\ m = 1
      <3>1. w[q] = c[p + 1] /\ Before(w, q) = log /\ Before(c, p + 1) = c[p]
        <4>1. /\ p + 1 \in p + 1 .. l /\ (p + 1) + m = q /\ q # 1 /\ p + 1 # 1
              /\ q - 1 = p + 1 /\ 1 \in 1 .. m /\ (p + 1) - 1 = p
          BY <1>1, <1>b, <2>5
        <4>2. w[p + 1] = log
          <5>1. items[1] = log
            BY <1>5, <2>5
          <5> QED
            BY <1>6, <4>1, <5>1
        <4> QED
          BY <1>6, <4>1, <4>2 DEF Before
      <3>2. ~(q < p + 1) /\ ~(q <= p + 1) /\ p + 1 \in 1 .. l /\ p + 1 >= p /\ p + 1 > p
        BY <1>1, <1>b, <2>5
      <3>3. /\ Always(k, d, c[p], c[p + 1])
            /\ c[p + 1].op \notin AccessLogs /\ c[p + 1].op # "logAlloc"
        BY <1>2, <3>1, <3>2
      <3>4. Always(k, d, log, c[p + 1])
        BY <3>3 DEF Always, RetPair, AllocPair
      <3> QED
        BY <3>1, <3>2, <3>3, <3>4
    <2> QED
      BY <1>1, <1>b, <2>1, <2>2, <2>3, <2>4, <2>5
  <1>9. Under(k, d, w, p + 1)
    <2>1. \A q \in 1 .. Len(w) :
            /\ Always(k, d, Before(w, q), w[q])
            /\ q < p + 1 => Passed(k, Before(w, q), w[q])
            /\ q <= p + 1 => CallPair(k, d, Before(w, q), w[q])
            /\ q >= p + 1 => w[q].op \notin AccessLogs
            /\ q > p + 1 => w[q].op # "logAlloc"
      BY <1>a, <1>8
    <2>2. w[p + 1 - 1].op \notin AccessLogs
      <3>1. p + 1 - 1 = p /\ p \in 1 .. p /\ p \in 1 .. l /\ p >= p
        BY <1>1
      <3> QED
        BY <1>2, <1>6, <3>1
    <2>3. p + 1 \in 1 .. Len(w) + 1
      BY <1>1, <1>a, <1>b
    <2>4. w \in Seq(Instructions)
      BY <1>6
    <2> QED
      BY <1>7, <2>1, <2>2, <2>3, <2>4 DEF Under
  <1> QED
    BY <1>9 DEF w, items, log

(* What is in the block then was there or is one of the items.             *)
LEMMA InsertedElements ==
  ASSUME NEW c \in Seq(Instructions), NEW items \in Seq(Instructions),
         NEW i \in 1 .. Len(c) + 1, NEW q \in 1 .. Len(Inserted(c, i, items))
  PROVE  \/ \E r \in 1 .. Len(c) : Inserted(c, i, items)[q] = c[r]
         \/ \E r \in 1 .. Len(items) : Inserted(c, i, items)[q] = items[r]
  <1> DEFINE l == Len(c)
             m == Len(items)
             w == Inserted(c, i, items)
  <1>1. l \in Nat /\ m \in Nat /\ i \in 1 .. l + 1
    OBVIOUS
  <1>2. /\ Len(w) = l + m
        /\ \A r \in 1 .. i - 1 : w[r] = c[r]
        /\ \A r \in 1 .. m : w[i - 1 + r] = items[r]
        /\ \A r \in i .. l : w[r + m] = c[r]
    <2>1. /\ Inserted(c, i, items) \in Seq(Instructions)
          /\ Len(Inserted(c, i, items)) = Len(c) + Len(items)
          /\ \A r \in 1 .. i - 1 : Inserted(c, i, items)[r] = c[r]
          /\ \A r \in 1 .. Len(items) : Inserted(c, i, items)[i - 1 + r] = items[r]
          /\ \A r \in i .. Len(c) : Inserted(c, i, items)[r + Len(items)] = c[r]
      BY InsertedIs, Zenon
    <2> QED
      BY <2>1, Zenon
  <1>3. q \in 1 .. Len(w)
    OBVIOUS
  <1> HIDE DEF l, m, w
  <1>4. q \in 1 .. l + m
    BY <1>2, <1>3
  <1>5. CASE q < i
    <2>1. q \in 1 .. i - 1 /\ q \in 1 .. l
      BY <1>1, <1>4, <1>5
    <2> QED
      BY <1>2, <2>1 DEF w, l
  <1>6. CASE q >= i /\ q < i + m
    <2>1. q - i + 1 \in 1 .. m /\ i - 1 + (q - i + 1) = q
      BY <1>1, <1>4, <1>6
    <2>2. w[q] = items[q - i + 1]
      BY <1>2, <2>1
    <2> QED
      BY <2>1, <2>2 DEF w, m
  <1>7. CASE q >= i + m
    <2>1. q - m \in i .. l /\ (q - m) + m = q /\ q - m \in 1 .. l
      BY <1>1, <1>4, <1>7
    <2>2. w[q] = c[q - m]
      BY <1>2, <2>1
    <2> QED
      BY <2>1, <2>2 DEF w, l
  <1> QED
    BY <1>1, <1>4, <1>5, <1>6, <1>7

(* In a fresh block the loop starts, after the end event has been inserted *)
(* before a return.                                                        *)
LEMMA EnterIs ==
  ASSUME NEW k, NEW d, NEW c, Fresh(c), NEW items \in Seq(Instructions),
         Len(items) <= 1,
         \A q \in 1 .. Len(items) : items[q].op \in {"logExit", "logFnEnd"},
         c[Len(c)].op = "ret" /\ Brackets(k) /\ "allocOnly" \notin k => Len(items) = 1
  PROVE  Under(k, d, Inserted(c, Len(c), items), 1)
  <1> DEFINE l == Len(c)
             m == Len(items)
             w == Inserted(c, l, items)
  <1>1. c \in Seq(Instructions) /\ Terminal(c) /\ l \in Nat \ {0} /\ m \in {0, 1}
    <2>1. c \in Seq(Instructions) /\ Terminal(c)
      BY DEF Fresh
    <2>2. l \in Nat \ {0}
      BY <2>1 DEF Terminal
    <2>3. m \in {0, 1}
      <3>1. m \in Nat /\ m <= 1
        OBVIOUS
      <3> HIDE DEF m
      <3> QED
        BY <3>1
    <2> QED
      BY <2>1, <2>2, <2>3
  <1>2. /\ w \in Seq(Instructions) /\ Len(w) = l + m
        /\ \A r \in 1 .. l - 1 : w[r] = c[r]
        /\ \A r \in 1 .. m : w[l - 1 + r] = items[r]
        /\ \A r \in l .. l : w[r + m] = c[r]
    <2>1. Len(c) \in 1 .. Len(c) + 1
      BY <1>1
    <2>2. /\ Inserted(c, Len(c), items) \in Seq(Instructions)
          /\ Len(Inserted(c, Len(c), items)) = Len(c) + Len(items)
          /\ \A r \in 1 .. Len(c) - 1 : Inserted(c, Len(c), items)[r] = c[r]
          /\ \A r \in 1 .. Len(items) : Inserted(c, Len(c), items)[Len(c) - 1 + r] = items[r]
          /\ \A r \in Len(c) .. Len(c) : Inserted(c, Len(c), items)[r + Len(items)] = c[r]
      BY <1>1, <2>1, InsertedIs, Zenon
    <2> QED
      BY <2>2, Zenon
  <1>3. Terminal(w)
    <2>1. l \in 1 .. Len(c)
      BY <1>1
    <2>2. \A q \in 1 .. Len(items) : items[q].op # "ret"
      OBVIOUS
    <2> QED
      BY <1>1, <2>1, <2>2, TerminalInserted
  <1>4. ASSUME NEW q \in 1 .. Len(w) PROVE w[q].op \notin AccessLogs \cup {"logAlloc"}
    <2>1. \/ \E r \in 1 .. Len(c) : w[q] = c[r]
          \/ \E r \in 1 .. Len(items) : w[q] = items[r]
      <3>1. l \in 1 .. Len(c) + 1
        BY <1>1
      <3> QED
        BY <1>1, <3>1, InsertedElements, Zenon
    <2> QED
      BY <2>1 DEF Fresh, AccessLogs
  <1>5. c[l].op = "ret" /\ Brackets(k) /\ "allocOnly" \notin k => m = 1
    OBVIOUS
  <1>6. \A q \in 1 .. m : items[q].op \in {"logExit", "logFnEnd"}
    OBVIOUS
  <1> HIDE DEF l, m, w
  <1>7. ASSUME NEW q \in 1 .. Len(w), w[q].op = "ret", Brackets(k), "allocOnly" \notin k
        PROVE  Before(w, q).op \in {"logExit", "logFnEnd"}
    <2>1. q = l + m
      <3>1. Len(w) = l + m
        BY <1>2
      <3>2. ~(q \in 1 .. Len(w) - 1)
        BY <1>3, <1>7 DEF Terminal
      <3> QED
        BY <1>1, <3>1, <3>2
    <2>2. w[q] = c[l]
      <3>1. l \in l .. l
        BY <1>1
      <3> QED
        BY <1>2, <2>1, <3>1
    <2>3. m = 1
      BY <1>5, <1>7, <2>2
    <2>4. 1 \in 1 .. m /\ l - 1 + 1 = l /\ q - 1 = l /\ q # 1
      BY <1>1, <2>1, <2>3
    <2>5. w[q - 1] = items[1]
      BY <1>2, <2>4
    <2> QED
      BY <1>6, <2>4, <2>5 DEF Before
  <1>8. \A q \in 1 .. Len(w) :
          /\ Always(k, d, Before(w, q), w[q])
          /\ q < 1 => Passed(k, Before(w, q), w[q])
          /\ q <= 1 => CallPair(k, d, Before(w, q), w[q])
          /\ q >= 1 => w[q].op \notin AccessLogs
          /\ q > 1 => w[q].op # "logAlloc"
    <2> TAKE q \in 1 .. Len(w)
    <2>1. Always(k, d, Before(w, q), w[q])
      BY <1>4, <1>7 DEF Always, RetPair, AllocPair
    <2>2. Len(w) \in Nat
      BY <1>2
    <2>3. q <= 1 => q = 1
      BY <2>2
    <2>4. CallPair(k, d, Before(w, 1), w[1])
      BY DEF CallPair, Allocates, Before, Instruction
    <2>5. ~(q < 1)
      BY <2>2
    <2> QED
      BY <1>4, <2>1, <2>3, <2>4, <2>5
  <1>9. 1 \in 1 .. Len(w) + 1
    BY <1>1, <1>2
  <1>10. w \in Seq(Instructions)
    BY <1>2
  <1>11. Under(k, d, w, 1)
    BY <1>3, <1>8, <1>9, <1>10 DEF Under
  <1> QED
    BY <1>11 DEF w, l

(* At the end of the block it is complete.                                 *)
LEMMA LeaveIs ==
  ASSUME NEW k, NEW d, NEW c, NEW p, Under(k, d, c, p), p > Len(c)
  PROVE  Complete(k, d, c)
  <1>1. p = Len(c) + 1
    BY DEF Under
  <1> QED
    BY <1>1 DEF Complete

(* The instructions the pass is given are as the assumption says.          *)
LEMMA SourceOfModule ==
  ASSUME NEW m \in Modules, NEW f \in 1 .. Len(m.functions)
  PROVE  /\ m.functions[f].blocks \in Seq(Seq(Given))
         /\ \A b \in 1 .. Len(m.functions[f].blocks) : Source(m.functions[f].blocks[b])
  <1> DEFINE blocks == m.functions[f].blocks
             S == SourceInstructions
  <1>1. /\ blocks \in Seq(Seq(S))
        /\ \A b \in DOMAIN blocks : Terminated(blocks[b])
    BY PassDriverAssumption
  <1>2. ASSUME NEW b \in DOMAIN blocks, NEW p \in DOMAIN blocks[b], blocks[b][p] \in S
        PROVE  blocks[b][p] \in Given
    <2> DEFINE x == blocks[b][p]
    <2>1. \E n \in Modules : \E g \in 1 .. Len(n.functions) :
            \E h \in DOMAIN n.functions[g].blocks : \E r \in DOMAIN n.functions[g].blocks[h] :
              n.functions[g].blocks[h][r] = x
      BY <1>2, Zenon
    <2>2. x \in SourceInstructions
      BY <1>2
    <2> HIDE DEF x
    <2>3. x \in Given
      BY <2>1, <2>2, Zenon DEF Given
    <2> QED
      BY <2>3 DEF x
  <1> HIDE DEF blocks, S
  <1>3. ASSUME NEW b \in 1 .. Len(blocks)
        PROVE  blocks[b] \in Seq(Given) /\ Terminal(blocks[b])
    <2> DEFINE c == blocks[b]
    <2>1. c \in Seq(S) /\ b \in DOMAIN blocks
      BY <1>1
    <2>2. DOMAIN c = 1 .. Len(c) /\ Len(c) \in Nat /\ \A p \in 1 .. Len(c) : c[p] \in S
      BY <2>1
    <2>3. \A p \in 1 .. Len(c) : c[p] \in Given
      BY <1>2, <2>1, <2>2
    <2>4. Terminated(c)
      BY <1>1, <2>1
    <2> HIDE DEF c
    <2>5. c \in [1 .. Len(c) -> Given]
      BY <2>1, <2>2, <2>3
    <2>6. c \in Seq(Given)
      BY <2>1, <2>2, <2>3
    <2>7. c # <<>> /\ Len(c) \in 1 .. Len(c)
      BY <2>1, <2>2, <2>4 DEF Terminated
    <2>8. c[Len(c)].op \in SourceOps
      <3>1. c[Len(c)] \in Instructions
        BY <2>3, <2>7 DEF Instructions
      <3>2. c[Len(c)] \in S
        BY <2>2, <2>7
      <3> HIDE DEF S
      <3> DEFINE y == c[Len(c)]
                 F == Files
      <3>3. y \in [op : SourceOps, arg : Int, type : Types \cup Symbols, file : F,
                   given : Seq(Symbols)]
        BY <3>2 DEF S, SourceInstructions
      <3> HIDE DEF y, F
      <3>4. y.op \in SourceOps
        BY <3>3
      <3> QED
        BY <3>4 DEF y
    <2>9. Terminal(c)
      BY <2>4, <2>7, <2>8 DEF Terminal, Terminated, SourceOps
    <2> QED
      BY <2>6, <2>9 DEF c
  <1>4. blocks \in Seq(Seq(Given))
    <2>1. Len(blocks) \in Nat /\ \A b \in 1 .. Len(blocks) : blocks[b] \in Seq(Given)
      BY <1>1, <1>3
    <2> DEFINE G == Seq(Given)
               T == Seq(S)
    <2>2. blocks \in Seq(T) /\ \A b \in 1 .. Len(blocks) : blocks[b] \in G
      BY <1>1, <2>1
    <2> HIDE DEF G, T
    <2>3. blocks \in Seq(G)
      BY <2>1, <2>2
    <2> QED
      BY <2>3 DEF G
  <1> QED
    BY <1>3, <1>4 DEF Source, blocks

-----------------------------------------------------------------------------
(* The arguments of a function.                                            *)

(* A non-empty set of naturals has a least element.                        *)
LEMMA Least ==
  ASSUME NEW T \in SUBSET Nat, T # {}
  PROVE  \E x \in T : \A y \in T : x <= y
  <1> DEFINE R == {ss \in Nat \X Nat : ss[1] < ss[2]}
  <1>1. IsWellFoundedOn(R, Nat)
    <2>1. R = OpToRel(<, Nat)
      BY DEF OpToRel
    <2> QED
      BY <2>1, NatLessThanWellFounded
  <1> HIDE DEF R
  <1>2. PICK x \in T : \A y \in T : ~(<<y, x>> \in R)
    <2> T \subseteq Nat
      OBVIOUS
    <2> QED
      BY <1>1, WFMin, Zenon
  <1>3. ASSUME NEW y \in T PROVE x <= y
    <2>1. x \in Nat /\ y \in Nat /\ <<y, x>> \notin R
      BY <1>2
    <2> QED
      BY <2>1 DEF R
  <1> QED
    BY <1>3

(* g says which of the first n parameters the filter selects.              *)
Selected(f, v) == Filter!CheckFunctionArgFilter(filters, module.functions[f].name, v)

Selects(f, n, g) ==
  g = [l \in 0 .. n |-> IF l = 0 THEN <<>>
                        ELSE IF Selected(f, l - 1) THEN Append(g[l - 1], l - 1) ELSE g[l - 1]]

(* There is such a function,                                               *)
LEMMA SelectsExists ==
  ASSUME NEW f, NEW n \in Nat
  PROVE  \E g : Selects(f, n, g)
  <1> DEFINE Turn(s, l) == IF Selected(f, l - 1) THEN Append(s, l - 1) ELSE s
             T == {l \in Nat : ~\E g : Selects(f, l, g)}
  <1>1. SUFFICES ASSUME T # {} PROVE FALSE
    OBVIOUS
  <1>2. PICK m \in T : \A l \in T : m <= l
    <2> T \subseteq Nat
      OBVIOUS
    <2> HIDE DEF T
    <2> QED
      BY <1>1, Least
  <1>3. CASE m = 0
    <2> DEFINE h == [l \in 0 .. m |-> <<>>]
    <2>1. h = [l \in 0 .. m |-> IF l = 0 THEN <<>>
                                ELSE IF Selected(f, l - 1) THEN Append(h[l - 1], l - 1)
                                ELSE h[l - 1]]
      BY <1>3
    <2> HIDE DEF h
    <2>2. Selects(f, m, h)
      BY <2>1 DEF Selects
    <2> QED
      BY <1>2, <2>2
  <1>4. CASE m # 0
    <2>1. m - 1 \in Nat /\ m - 1 \notin T
      BY <1>2, <1>4
    <2>2. PICK g : Selects(f, m - 1, g)
      BY <2>1
    <2> DEFINE h == [l \in 0 .. m |-> IF l = m THEN Turn(g[m - 1], m) ELSE g[l]]
    <2>3. ASSUME NEW l \in 0 .. m
          PROVE  h[l] = IF l = 0 THEN <<>> ELSE Turn(h[l - 1], l)
      <3>1. CASE l = m
        BY <1>4, <3>1
      <3>2. CASE l # m
        <4>1. h[l] = g[l] /\ l \in 0 .. m - 1
          BY <3>2
        <4>2. g[l] = IF l = 0 THEN <<>> ELSE Turn(g[l - 1], l)
          BY <2>2, <4>1 DEF Selects
        <4>3. l # 0 => h[l - 1] = g[l - 1]
          BY <4>1
        <4> HIDE DEF h, Turn
        <4> QED
          BY <4>1, <4>2, <4>3
      <3> QED
        BY <3>1, <3>2
    <2>4. h = [l \in 0 .. m |-> h[l]]
      OBVIOUS
    <2> HIDE DEF h
    <2>5. h = [l \in 0 .. m |-> IF l = 0 THEN <<>> ELSE Turn(h[l - 1], l)]
      BY <2>3, <2>4
    <2>6. Selects(f, m, h)
      BY <2>5 DEF Selects
    <2> QED
      BY <1>2, <2>6
  <1> QED
    BY <1>3, <1>4

(* and what it lists are different parameters.                             *)
LEMMA SelectsOnce ==
  ASSUME NEW f, NEW n \in Nat, NEW g, Selects(f, n, g)
  PROVE  \A l \in 0 .. n :
           /\ g[l] \in Seq(Int)
           /\ \A i \in 1 .. Len(g[l]) : g[l][i] < l
           /\ \A i, j \in 1 .. Len(g[l]) : i # j => g[l][i] # g[l][j]
  <1> DEFINE Good(s, l) == /\ s \in Seq(Int)
                           /\ \A i \in 1 .. Len(s) : s[i] < l
                           /\ \A i, j \in 1 .. Len(s) : i # j => s[i] # s[j]
             T == {l \in 0 .. n : ~Good(g[l], l)}
  <1>1. SUFFICES ASSUME T # {} PROVE FALSE
    OBVIOUS
  <1>2. PICK l \in T : \A j \in T : l <= j
    <2> T \subseteq Nat
      OBVIOUS
    <2> HIDE DEF T
    <2> QED
      BY <1>1, Least
  <1>3. g[l] = IF l = 0 THEN <<>>
               ELSE IF Selected(f, l - 1) THEN Append(g[l - 1], l - 1) ELSE g[l - 1]
    BY DEF Selects
  <1>4. l \in Nat /\ ~Good(g[l], l)
    <2>1. l \in 0 .. n
      BY <1>2
    <2>2. ~Good(g[l], l)
      <3>1. l \in T
        BY <1>2
      <3> HIDE DEF Good
      <3> QED
        BY <3>1
    <2> QED
      BY <2>1, <2>2
  <1>5. CASE l = 0
    <2>1. g[l] = <<>>
      BY <1>3, <1>5
    <2>2. Good(<<>>, l)
      OBVIOUS
    <2> QED
      BY <1>4, <2>1, <2>2
  <1>6. CASE l # 0
    <2> DEFINE s == g[l - 1]
    <2>1. l - 1 \in 0 .. n /\ l - 1 \notin T
      BY <1>2, <1>6
    <2>2. Good(s, l - 1)
      BY <2>1
    <2> HIDE DEF s, T
    <2>3. Good(s, l)
      BY <1>4, <2>2
    <2>4. Good(Append(s, l - 1), l)
      <3> DEFINE t == Append(s, l - 1)
      <3>1. /\ s \in Seq(Int) /\ l - 1 \in Int /\ Len(s) \in Nat
            /\ \A i \in 1 .. Len(s) : s[i] \in Int /\ s[i] < l - 1
        BY <1>4, <2>2
      <3>2. /\ t \in Seq(Int) /\ Len(t) = Len(s) + 1
            /\ \A i \in 1 .. Len(s) : t[i] = s[i]
            /\ t[Len(s) + 1] = l - 1
        BY <3>1
      <3> HIDE DEF t
      <3>3. \A i, j \in 1 .. Len(s) : i # j => s[i] # s[j]
        BY <2>2
      <3>4. \A i \in 1 .. Len(t) : t[i] < l
        <4> TAKE i \in 1 .. Len(t)
        <4>1. CASE i \in 1 .. Len(s)
          <5>1. t[i] = s[i] /\ s[i] < l - 1 /\ s[i] \in Int
            BY <3>1, <3>2, <4>1
          <5> QED
            BY <1>4, <5>1
        <4>2. CASE i = Len(s) + 1
          <5>1. t[i] = l - 1
            BY <3>2, <4>2
          <5> QED
            BY <1>4, <5>1
        <4> QED
          BY <3>1, <3>2, <4>1, <4>2
      <3>5. \A i, j \in 1 .. Len(t) : i # j => t[i] # t[j]
        <4> TAKE i, j \in 1 .. Len(t)
        <4>1. CASE i \in 1 .. Len(s) /\ j \in 1 .. Len(s)
          BY <3>2, <3>3, <4>1
        <4>2. CASE i = Len(s) + 1 /\ j \in 1 .. Len(s)
          BY <3>1, <3>2, <4>2
        <4>3. CASE i \in 1 .. Len(s) /\ j = Len(s) + 1
          BY <3>1, <3>2, <4>3
        <4> QED
          BY <3>1, <3>2, <4>1, <4>2, <4>3
      <3>6. Good(t, l)
        BY <3>2, <3>4, <3>5
      <3> QED
        BY <3>6 DEF t
    <2>5. g[l] = Append(s, l - 1) \/ g[l] = s
      BY <1>3, <1>6 DEF s
    <2> HIDE DEF Good
    <2> QED
      BY <1>4, <2>3, <2>4, <2>5
  <1> QED
    BY <1>5, <1>6

(* The arguments to log are parameters, each of them once, and none if     *)
(* function events are off.                                                *)
LEMMA ArgsAre ==
  ASSUME NEW f, module.functions[f].params \in Nat
  PROVE  /\ Args(f) \in Seq(Int) /\ Len(Args(f)) \in Nat
         /\ \A i, j \in 1 .. Len(Args(f)) : i # j => Args(f)[i] # Args(f)[j]
         /\ ~On(f, "function") => Args(f) = <<>>
  <1> DEFINE n == module.functions[f].params
             g == CHOOSE g : Selects(f, n, g)
  <1>1. Selects(f, n, g)
    BY SelectsExists
  <1>2. On(f, "function") => Args(f) = g[n]
    BY DEF Args, Selects, Selected
  <1>3. ~On(f, "function") => Args(f) = <<>>
    BY DEF Args
  <1> HIDE DEF g
  <1>4. n \in 0 .. n
    OBVIOUS
  <1>5. /\ g[n] \in Seq(Int)
        /\ \A i, j \in 1 .. Len(g[n]) : i # j => g[n][i] # g[n][j]
    <2>1. n \in Nat
      OBVIOUS
    <2> HIDE DEF n
    <2> QED
      BY <1>1, <1>4, <2>1, SelectsOnce
  <1> HIDE DEF n
  <1>6. CASE On(f, "function")
    <2>1. Args(f) = g[n]
      BY <1>2, <1>6
    <2> QED
      BY <1>5, <1>6, <2>1
  <1>7. CASE ~On(f, "function")
    BY <1>3, <1>7
  <1> QED
    BY <1>6, <1>7

(* The events at the begin and at the end of a function.                   *)
LEMMA EventIs ==
  ASSUME NEW f
  PROVE  /\ FnEvent(f, TRUE) \in Seq(Instructions) /\ Len(FnEvent(f, TRUE)) \in {0, 1}
         /\ ~allocOnly => Len(FnEvent(f, TRUE)) = 1
         /\ \A q \in 1 .. Len(FnEvent(f, TRUE)) :
              FnEvent(f, TRUE)[q].op \in {"logInit", "logFnBegin"}
         /\ FnEvent(f, FALSE) \in Seq(Instructions) /\ Len(FnEvent(f, FALSE)) \in {0, 1}
         /\ ~allocOnly => Len(FnEvent(f, FALSE)) = 1
         /\ \A q \in 1 .. Len(FnEvent(f, FALSE)) :
              FnEvent(f, FALSE)[q].op \in {"logExit", "logFnEnd"}
  <1>1. ASSUME NEW op \in {"logInit", "logFnBegin", "logExit", "logFnEnd"}
        PROVE  /\ <<Instruction(op)>> \in Seq(Instructions)
               /\ Len(<<Instruction(op)>>) = 1
               /\ \A q \in 1 .. 1 : <<Instruction(op)>>[q].op = op
    <2>1. op \in InsertedOps \ {"logAlloc"}
      BY DEF InsertedOps, Logs
    <2>2. Instruction(op) \in Instructions /\ Instruction(op).op = op
      BY <2>1, InstructionIs
    <2> QED
      BY <2>2
  <1>2. /\ <<>> \in Seq(Instructions) /\ Len(<<>>) = 0
    OBVIOUS
  <1>3. \/ FnEvent(f, TRUE) = <<Instruction("logInit")>>
        \/ FnEvent(f, TRUE) = <<Instruction("logFnBegin")>>
        \/ FnEvent(f, TRUE) = <<>> /\ allocOnly
    BY DEF FnEvent
  <1>4. \/ FnEvent(f, FALSE) = <<Instruction("logExit")>>
        \/ FnEvent(f, FALSE) = <<Instruction("logFnEnd")>>
        \/ FnEvent(f, FALSE) = <<>> /\ allocOnly
    BY DEF FnEvent
  <1> DEFINE b == FnEvent(f, TRUE)
             e == FnEvent(f, FALSE)
  <1> HIDE DEF b, e
  <1>5. /\ b \in Seq(Instructions) /\ Len(b) \in {0, 1}
        /\ ~allocOnly => Len(b) = 1
        /\ \A q \in 1 .. Len(b) : b[q].op \in {"logInit", "logFnBegin"}
    <2>1. CASE b = <<Instruction("logInit")>>
      BY <1>1, <2>1
    <2>2. CASE b = <<Instruction("logFnBegin")>>
      BY <1>1, <2>2
    <2>3. CASE b = <<>> /\ allocOnly
      BY <1>2, <2>3
    <2> QED
      BY <1>3, <2>1, <2>2, <2>3 DEF b
  <1>6. /\ e \in Seq(Instructions) /\ Len(e) \in {0, 1}
        /\ ~allocOnly => Len(e) = 1
        /\ \A q \in 1 .. Len(e) : e[q].op \in {"logExit", "logFnEnd"}
    <2>1. CASE e = <<Instruction("logExit")>>
      BY <1>1, <2>1
    <2>2. CASE e = <<Instruction("logFnEnd")>>
      BY <1>1, <2>2
    <2>3. CASE e = <<>> /\ allocOnly
      BY <1>2, <2>3
    <2> QED
      BY <1>4, <2>1, <2>2, <2>3 DEF e
  <1> QED
    BY <1>5, <1>6 DEF b, e

(* The copies of the arguments.                                            *)
LEMMA ArgStoresAre ==
  ASSUME NEW f, module.functions[f].params \in Nat
  PROVE  /\ ArgStores(f) \in Seq(Instructions)
         /\ Len(ArgStores(f)) = Len(Args(f))
         /\ \A i \in 1 .. Len(Args(f)) :
              ArgStores(f)[i].op = "argstore" /\ ArgStores(f)[i].arg = Args(f)[i]
  <1> DEFINE a == Args(f)
             Copy(v) == [Instruction("argstore") EXCEPT !.arg = v]
             s == [i \in 1 .. Len(a) |-> Copy(a[i])]
  <1>1. a \in Seq(Int) /\ Len(a) \in Nat
    BY ArgsAre
  <1>2. ArgStores(f) = s
    <2>1. DOMAIN a = 1 .. Len(a)
      BY <1>1
    <2> QED
      BY <2>1 DEF ArgStores
  <1> HIDE DEF a
  <1>3. ASSUME NEW i \in 1 .. Len(a)
        PROVE  Copy(a[i]) \in Instructions /\ Copy(a[i]).op = "argstore" /\ Copy(a[i]).arg = a[i]
    <2>1. a[i] \in Int
      BY <1>1
    <2> QED
      BY <2>1, CopyIs
  <1> HIDE DEF Copy
  <1>4. s \in Seq(Instructions) /\ Len(s) = Len(a)
    BY <1>1, <1>3
  <1>5. \A i \in 1 .. Len(a) : s[i].op = "argstore" /\ s[i].arg = a[i]
    BY <1>3
  <1> QED
    BY <1>2, <1>4, <1>5 DEF a

-----------------------------------------------------------------------------
(* The first block of a function whose events are on, when the first j of  *)
(* its arguments have been logged: the begin event, each of these with its *)
(* copy, the other copies.                                                 *)
Layout(c, a, j) ==
  /\ Len(c) > 1 + Len(a) + j
  /\ c[1].op \in {"logInit", "logFnBegin"}
  /\ \A i \in 1 .. j : /\ c[2 * i].op = "logAccess_a" /\ c[2 * i].arg = a[i]
                       /\ c[2 * i + 1].op = "argstore"
  /\ \A i \in j + 1 .. Len(a) : c[1 + j + i].op = "argstore" /\ c[1 + j + i].arg = a[i]
  /\ \A p \in 1 .. Len(c) : c[p].op = "logAccess_a" => \E i \in 1 .. j : p = 2 * i

(* What is inserted after the copies does not matter,                      *)
LEMMA LayoutKept ==
  ASSUME NEW c \in Seq(Instructions), NEW a, Len(a) \in Nat, NEW j \in 0 .. Len(a),
         Layout(c, a, j), NEW items \in Seq(Instructions),
         \A q \in 1 .. Len(items) : items[q].op # "logAccess_a",
         NEW i \in 1 .. Len(c) + 1, i > 1 + Len(a) + j
  PROVE  Layout(Inserted(c, i, items), a, j)
  <1> DEFINE l == Len(c)
             m == Len(items)
             n == Len(a)
             w == Inserted(c, i, items)
  <1>1. l \in Nat /\ m \in Nat /\ n \in Nat /\ i \in 1 .. l + 1 /\ j \in 0 .. n /\ i > 1 + n + j
    OBVIOUS
  <1>2. /\ Len(w) = l + m
        /\ \A q \in 1 .. i - 1 : w[q] = c[q]
        /\ \A q \in 1 .. m : w[i - 1 + q] = items[q]
        /\ \A q \in i .. l : w[q + m] = c[q]
    <2>1. /\ Inserted(c, i, items) \in Seq(Instructions)
          /\ Len(Inserted(c, i, items)) = Len(c) + Len(items)
          /\ \A q \in 1 .. i - 1 : Inserted(c, i, items)[q] = c[q]
          /\ \A q \in 1 .. Len(items) : Inserted(c, i, items)[i - 1 + q] = items[q]
          /\ \A q \in i .. Len(c) : Inserted(c, i, items)[q + Len(items)] = c[q]
      BY InsertedIs, Zenon
    <2> QED
      BY <2>1, Zenon
  <1>3. \A q \in 1 .. m : items[q].op # "logAccess_a"
    OBVIOUS
  <1>4. /\ l > 1 + n + j
        /\ c[1].op \in {"logInit", "logFnBegin"}
        /\ \A q \in 1 .. j : /\ c[2 * q].op = "logAccess_a" /\ c[2 * q].arg = a[q]
                             /\ c[2 * q + 1].op = "argstore"
        /\ \A q \in j + 1 .. n : c[1 + j + q].op = "argstore" /\ c[1 + j + q].arg = a[q]
        /\ \A p \in 1 .. l : c[p].op = "logAccess_a" => \E q \in 1 .. j : p = 2 * q
    BY DEF Layout
  <1>a. Len(w) = l + m
    BY <1>2
  <1> HIDE DEF l, m, n, w
  <1>5. Len(w) > 1 + n + j
    BY <1>1, <1>a, <1>4
  <1>6. w[1].op \in {"logInit", "logFnBegin"}
    <2>1. 1 \in 1 .. i - 1
      BY <1>1
    <2> QED
      BY <1>2, <1>4, <2>1
  <1>7. \A q \in 1 .. j : /\ w[2 * q].op = "logAccess_a" /\ w[2 * q].arg = a[q]
                          /\ w[2 * q + 1].op = "argstore"
    <2> TAKE q \in 1 .. j
    <2>1. 2 * q \in 1 .. i - 1 /\ 2 * q + 1 \in 1 .. i - 1
      BY <1>1
    <2> QED
      BY <1>2, <1>4, <2>1
  <1>8. \A q \in j + 1 .. n : w[1 + j + q].op = "argstore" /\ w[1 + j + q].arg = a[q]
    <2> TAKE q \in j + 1 .. n
    <2>1. 1 + j + q \in 1 .. i - 1
      BY <1>1
    <2> QED
      BY <1>2, <1>4, <2>1
  <1>9. ASSUME NEW p \in 1 .. l + m, w[p].op = "logAccess_a"
        PROVE  \E q \in 1 .. j : p = 2 * q
    <2>1. CASE p < i
      <3>1. p \in 1 .. i - 1 /\ p \in 1 .. l
        BY <1>1, <2>1
      <3> QED
        BY <1>2, <1>4, <1>9, <3>1
    <2>2. CASE p >= i /\ p < i + m
      <3>1. p - i + 1 \in 1 .. m /\ i - 1 + (p - i + 1) = p
        BY <1>1, <2>2
      <3> QED
        BY <1>2, <1>3, <1>9, <3>1
    <2>3. CASE p >= i + m
      <3> DEFINE r == p - m
      <3>1. r \in i .. l /\ r + m = p /\ r \in 1 .. l /\ i > 2 * j
        BY <1>1, <2>3
      <3> HIDE DEF r
      <3>2. w[p] = c[r]
        BY <1>2, <3>1
      <3>3. PICK q \in 1 .. j : r = 2 * q
        BY <1>4, <1>9, <3>1, <3>2
      <3> QED
        BY <1>1, <3>1, <3>3
    <2> QED
      BY <1>1, <2>1, <2>2, <2>3
  <1>10. \A p \in 1 .. Len(w) : w[p].op = "logAccess_a" => \E q \in 1 .. j : p = 2 * q
    BY <1>1, <1>a, <1>9
  <1> QED
    BY <1>5, <1>6, <1>7, <1>8, <1>10 DEF Layout, n, w

(* and one more argument is logged before its copy.                        *)
LEMMA LayoutNext ==
  ASSUME NEW c \in Seq(Instructions), NEW a, Len(a) \in Nat, NEW j \in 0 .. Len(a), j < Len(a),
         Layout(c, a, j), NEW log \in Instructions,
         log.op = "logAccess_a", log.arg = a[j + 1]
  PROVE  Layout(Inserted(c, 2 * j + 2, <<log>>), a, j + 1)
  <1> DEFINE l == Len(c)
             n == Len(a)
             i == 2 * j + 2
             w == Inserted(c, i, <<log>>)
  <1>1. l \in Nat /\ n \in Nat /\ j \in 0 .. n /\ j < n /\ i = 2 * j + 2
    OBVIOUS
  <1>2. /\ l > 1 + n + j
        /\ c[1].op \in {"logInit", "logFnBegin"}
        /\ \A q \in 1 .. j : /\ c[2 * q].op = "logAccess_a" /\ c[2 * q].arg = a[q]
                             /\ c[2 * q + 1].op = "argstore"
        /\ \A q \in j + 1 .. n : c[1 + j + q].op = "argstore" /\ c[1 + j + q].arg = a[q]
        /\ \A p \in 1 .. l : c[p].op = "logAccess_a" => \E q \in 1 .. j : p = 2 * q
    BY DEF Layout
  <1> HIDE DEF i
  <1>3. /\ Len(w) = l + 1
        /\ \A q \in 1 .. i - 1 : w[q] = c[q]
        /\ w[i] = log
        /\ \A q \in i .. l : w[q + 1] = c[q]
    <2>1. i \in 1 .. Len(c) + 1 /\ <<log>> \in Seq(Instructions)
      BY <1>1, <1>2
    <2>2. /\ Inserted(c, i, <<log>>) \in Seq(Instructions)
          /\ Len(Inserted(c, i, <<log>>)) = Len(c) + Len(<<log>>)
          /\ \A q \in 1 .. i - 1 : Inserted(c, i, <<log>>)[q] = c[q]
          /\ \A q \in 1 .. Len(<<log>>) : Inserted(c, i, <<log>>)[i - 1 + q] = <<log>>[q]
          /\ \A q \in i .. Len(c) : Inserted(c, i, <<log>>)[q + Len(<<log>>)] = c[q]
      BY <2>1, InsertedIs, Zenon
    <2> HIDE DEF w
    <2>3. Len(<<log>>) = 1 /\ <<log>>[1] = log /\ 1 \in 1 .. Len(<<log>>) /\ i - 1 + 1 = i
      BY <1>1
    <2>4. w = Inserted(c, i, <<log>>)
      BY DEF w
    <2>5. Len(w) = l + 1 /\ \A q \in i .. l : w[q + 1] = c[q]
      BY <2>2, <2>3, <2>4
    <2>6. w[i] = log
      BY <2>2, <2>3, <2>4
    <2> QED
      BY <2>2, <2>4, <2>5, <2>6
  <1>a. Len(w) = l + 1
    BY <1>3
  <1> HIDE DEF l, n, w
  <1>4. Len(w) > 1 + n + (j + 1)
    BY <1>1, <1>a, <1>2
  <1>5. w[1].op \in {"logInit", "logFnBegin"}
    <2>1. 1 \in 1 .. i - 1
      BY <1>1
    <2> QED
      BY <1>2, <1>3, <2>1
  <1>6. \A q \in 1 .. j + 1 : /\ w[2 * q].op = "logAccess_a" /\ w[2 * q].arg = a[q]
                              /\ w[2 * q + 1].op = "argstore"
    <2> TAKE q \in 1 .. j + 1
    <2>1. CASE q <= j
      <3>1. q \in 1 .. j /\ 2 * q \in 1 .. i - 1 /\ 2 * q + 1 \in 1 .. i - 1
        BY <1>1, <2>1
      <3>2. w[2 * q] = c[2 * q] /\ w[2 * q + 1] = c[2 * q + 1]
        BY <1>3, <3>1
      <3>3. /\ c[2 * q].op = "logAccess_a" /\ c[2 * q].arg = a[q]
            /\ c[2 * q + 1].op = "argstore"
        BY <1>2, <3>1
      <3> QED
        BY <3>2, <3>3
    <2>2. CASE q = j + 1
      <3>1. 2 * q = i /\ i \in i .. l /\ 2 * q + 1 = i + 1 /\ i = 1 + j + q /\ q \in j + 1 .. n
        BY <1>1, <1>2, <2>2
      <3>2. w[2 * q] = log /\ w[2 * q + 1] = c[1 + j + q]
        BY <1>3, <3>1
      <3> QED
        BY <1>2, <2>2, <3>1, <3>2
    <2> QED
      BY <1>1, <2>1, <2>2
  <1>7. \A q \in (j + 1) + 1 .. n :
          w[1 + (j + 1) + q].op = "argstore" /\ w[1 + (j + 1) + q].arg = a[q]
    <2> TAKE q \in (j + 1) + 1 .. n
    <2>1. 1 + j + q \in i .. l /\ (1 + j + q) + 1 = 1 + (j + 1) + q /\ q \in j + 1 .. n
      BY <1>1, <1>2
    <2>2. w[1 + (j + 1) + q] = c[1 + j + q]
      BY <1>3, <2>1
    <2> QED
      BY <1>2, <2>1, <2>2
  <1>8. ASSUME NEW p \in 1 .. l + 1, w[p].op = "logAccess_a"
        PROVE  \E q \in 1 .. j + 1 : p = 2 * q
    <2>1. CASE p < i
      <3>1. p \in 1 .. i - 1 /\ p \in 1 .. l
        BY <1>1, <1>2, <2>1
      <3>2. PICK q \in 1 .. j : p = 2 * q
        BY <1>2, <1>3, <1>8, <3>1
      <3> QED
        BY <1>1, <3>2
    <2>2. CASE p = i
      <3>1. j + 1 \in 1 .. j + 1 /\ p = 2 * (j + 1)
        BY <1>1, <2>2
      <3> QED
        BY <3>1
    <2>3. CASE p > i
      <3> DEFINE r == p - 1
      <3>1. r \in i .. l /\ r + 1 = p /\ r \in 1 .. l
        BY <1>1, <2>3
      <3> HIDE DEF r
      <3>2. w[p] = c[r]
        BY <1>3, <3>1
      <3>3. PICK q \in 1 .. j : r = 2 * q
        BY <1>2, <1>8, <3>1, <3>2
      <3> QED
        BY <1>1, <3>1, <3>3
    <2> QED
      BY <1>1, <2>1, <2>2, <2>3
  <1>9. \A p \in 1 .. Len(w) : w[p].op = "logAccess_a" => \E q \in 1 .. j + 1 : p = 2 * q
    BY <1>1, <1>a, <1>8
  <1>10. Layout(w, a, j + 1)
    BY <1>4, <1>5, <1>6, <1>7, <1>9 DEF Layout, n
  <1> QED
    BY <1>10 DEF w, i

(* A block of the source has the instructions of the source only.          *)
LEMMA SourceFacts ==
  ASSUME NEW c, Source(c)
  PROVE  /\ c \in Seq(Instructions) /\ Len(c) \in Nat \ {0}
         /\ \A p \in 1 .. Len(c) : c[p].op \in SourceOps
         /\ Fresh(c)
  <1>1. c \in Seq(Given) /\ Terminal(c)
    BY DEF Source
  <1>2. /\ Len(c) \in Nat /\ DOMAIN c = 1 .. Len(c)
        /\ \A p \in 1 .. Len(c) : c[p] \in Given
    BY <1>1
  <1>3. c \in Seq(Instructions)
    <2>1. \A p \in 1 .. Len(c) : c[p] \in Instructions
      BY <1>2 DEF Instructions
    <2> QED
      BY <1>1, <1>2, <2>1
  <1>4. \A p \in 1 .. Len(c) : c[p].op \in SourceOps
    <2> TAKE p \in 1 .. Len(c)
    <2> DEFINE y == c[p]
               F == Files
    <2>1. y \in [op : SourceOps, arg : Int, type : Types \cup Symbols, file : F,
                 given : Seq(Symbols)]
      BY <1>2 DEF Given, SourceInstructions
    <2> HIDE DEF y, F
    <2>2. y.op \in SourceOps
      BY <2>1
    <2> QED
      BY <2>2 DEF y
  <1>5. Len(c) # 0
    BY <1>1, <1>2 DEF Terminal
  <1>6. Fresh(c)
    <2>1. \A p \in 1 .. Len(c) : c[p].op \notin AccessLogs \cup {"logAlloc"}
      BY <1>4 DEF SourceOps, AccessLogs
    <2> QED
      BY <1>1, <1>3, <2>1 DEF Fresh
  <1> QED
    BY <1>2, <1>3, <1>4, <1>5, <1>6

(* The first block when the function has been entered.                     *)
LEMMA EnteredIs ==
  ASSUME NEW f, module.functions[f].params \in Nat, NEW c, Source(c)
  PROVE  LET begin == IF Bracketed(f) THEN FnEvent(f, TRUE) ELSE <<>>
             w == begin \o ArgStores(f) \o c
         IN /\ Fresh(w)
            /\ Bracketed(f) /\ ~allocOnly => w[1].op \in {"logInit", "logFnBegin"}
            /\ On(f, "function") /\ ~allocOnly => Layout(w, Args(f), 0)
  <1> DEFINE begin == IF Bracketed(f) THEN FnEvent(f, TRUE) ELSE <<>>
             s == ArgStores(f)
             a == Args(f)
             t == begin \o s
             w == t \o c
             b == Len(begin)
             n == Len(a)
             l == Len(c)
  <1>1. /\ c \in Seq(Instructions) /\ l \in Nat \ {0} /\ Terminal(c)
        /\ \A p \in 1 .. l : c[p].op \in SourceOps
    BY SourceFacts DEF Source
  <1>2. /\ s \in Seq(Instructions) /\ Len(s) = n /\ n \in Nat
        /\ \A i \in 1 .. n : s[i].op = "argstore" /\ s[i].arg = a[i]
    BY ArgStoresAre, ArgsAre
  <1>3. /\ begin \in Seq(Instructions) /\ b \in {0, 1}
        /\ Bracketed(f) /\ ~allocOnly => b = 1
        /\ \A q \in 1 .. b : begin[q].op \in {"logInit", "logFnBegin"}
    <2>1. CASE Bracketed(f)
      <3>1. begin = FnEvent(f, TRUE)
        BY <2>1
      <3> HIDE DEF begin
      <3> QED
        BY <3>1, EventIs
    <2>2. CASE ~Bracketed(f)
      <3>1. begin = <<>>
        BY <2>2
      <3> HIDE DEF begin
      <3> QED
        BY <2>2, <3>1
    <2> QED
      BY <2>1, <2>2
  <1>4. On(f, "function") => Bracketed(f)
    BY DEF Bracketed
  <1> HIDE DEF begin, s, a
  <1>5. /\ t \in Seq(Instructions) /\ Len(t) = b + n
        /\ \A q \in 1 .. b + n : t[q] = IF q <= b THEN begin[q] ELSE s[q - b]
    <2>1. /\ begin \o s \in Seq(Instructions) /\ Len(begin \o s) = Len(begin) + Len(s)
          /\ \A q \in 1 .. Len(begin) + Len(s) :
               (begin \o s)[q] = IF q <= Len(begin) THEN begin[q] ELSE s[q - Len(begin)]
      <3>1. begin \in Seq(Instructions) /\ s \in Seq(Instructions)
        BY <1>2, <1>3
      <3> QED
        BY <3>1, ConcatProperties, Zenon
    <2>2. Len(s) = Len(a)
      BY <1>2
    <2> QED
      BY <2>1, <2>2, Zenon
  <1> HIDE DEF t
  <1>6. /\ w \in Seq(Instructions) /\ Len(w) = (b + n) + l
        /\ \A q \in 1 .. (b + n) + l : w[q] = IF q <= b + n THEN t[q] ELSE c[q - (b + n)]
    <2>1. /\ t \o c \in Seq(Instructions) /\ Len(t \o c) = Len(t) + Len(c)
          /\ \A q \in 1 .. Len(t) + Len(c) :
               (t \o c)[q] = IF q <= Len(t) THEN t[q] ELSE c[q - Len(t)]
      BY <1>1, <1>5, ConcatProperties, Zenon
    <2>2. Len(t) = Len(begin) + Len(a)
      BY <1>5
    <2> QED
      BY <2>1, <2>2, Zenon
  <1> HIDE DEF w, b, n, l
  <1>7. ASSUME NEW q \in 1 .. b PROVE w[q] = begin[q]
    <2>1. q \in 1 .. (b + n) + l /\ q \in 1 .. b + n /\ q <= b /\ q <= b + n
      BY <1>1, <1>2, <1>3
    <2> QED
      BY <1>5, <1>6, <2>1
  <1>8. ASSUME NEW i \in 1 .. n PROVE w[b + i] = s[i]
    <2>1. /\ b + i \in 1 .. (b + n) + l /\ b + i \in 1 .. b + n /\ ~(b + i <= b)
          /\ b + i <= b + n /\ (b + i) - b = i
      BY <1>1, <1>2, <1>3
    <2> QED
      BY <1>5, <1>6, <2>1
  <1>9. ASSUME NEW i \in 1 .. l PROVE w[(b + n) + i] = c[i]
    <2>1. /\ (b + n) + i \in 1 .. (b + n) + l /\ ~((b + n) + i <= b + n)
          /\ ((b + n) + i) - (b + n) = i
      BY <1>1, <1>2, <1>3
    <2> QED
      BY <1>6, <2>1
  <1>10. ASSUME NEW q \in 1 .. (b + n) + l
         PROVE  \/ q \in 1 .. b /\ w[q].op \in {"logInit", "logFnBegin"}
                \/ q - b \in 1 .. n /\ w[q].op = "argstore"
                \/ q - (b + n) \in 1 .. l /\ w[q] = c[q - (b + n)] /\ w[q].op \in SourceOps
    <2>1. CASE q <= b
      <3>1. q \in 1 .. b
        BY <2>1
      <3> QED
        BY <1>3, <1>7, <3>1
    <2>2. CASE q > b /\ q <= b + n
      <3>1. q - b \in 1 .. n /\ b + (q - b) = q
        BY <1>2, <1>3, <2>2
      <3>2. w[q] = s[q - b]
        BY <1>8, <3>1
      <3> QED
        BY <1>2, <3>1, <3>2
    <2>3. CASE q > b + n
      <3>1. q - (b + n) \in 1 .. l /\ (b + n) + (q - (b + n)) = q
        BY <1>1, <1>2, <1>3, <2>3
      <3>2. w[q] = c[q - (b + n)]
        BY <1>9, <3>1
      <3> QED
        BY <1>1, <3>1, <3>2
    <2> QED
      BY <1>1, <1>2, <1>3, <2>1, <2>2, <2>3
  <1>a. Len(w) = (b + n) + l
    BY <1>6
  <1>11. Terminal(w)
    <2>1. c[l].op \in {"ret", "br", "unreachable"} /\ \A p \in 1 .. l - 1 : c[p].op # "ret"
      BY <1>1 DEF Terminal, l
    <2>2. w[Len(w)] = c[l]
      <3>1. l \in 1 .. l
        BY <1>1
      <3> QED
        BY <1>a, <1>9, <3>1
    <2>3. w # <<>>
      <3>1. Len(w) \in Nat \ {0}
        BY <1>1, <1>2, <1>3, <1>a
      <3> QED
        BY <3>1
    <2>4. ASSUME NEW q \in 1 .. Len(w) - 1 PROVE w[q].op # "ret"
      <3>1. q \in 1 .. (b + n) + l /\ q - (b + n) # l /\ Len(w) - 1 = (b + n) + l - 1
        BY <1>1, <1>2, <1>3, <1>a
      <3>2. CASE q \in 1 .. b /\ w[q].op \in {"logInit", "logFnBegin"}
        BY <3>2
      <3>3. CASE q - b \in 1 .. n /\ w[q].op = "argstore"
        BY <3>3
      <3>4. CASE q - (b + n) \in 1 .. l /\ w[q] = c[q - (b + n)]
        <4>1. q - (b + n) \in 1 .. l - 1
          BY <1>1, <1>2, <1>3, <3>1, <3>4
        <4> QED
          BY <2>1, <3>4, <4>1
      <3> QED
        BY <1>10, <3>1, <3>2, <3>3, <3>4
    <2> QED
      BY <2>1, <2>2, <2>3, <2>4 DEF Terminal
  <1>12. Fresh(w)
    <2>1. ASSUME NEW q \in 1 .. Len(w) PROVE w[q].op \notin AccessLogs \cup {"logAlloc"}
      <3>1. q \in 1 .. (b + n) + l
        BY <1>a
      <3>2. \/ w[q].op \in {"logInit", "logFnBegin"} \/ w[q].op = "argstore"
            \/ w[q].op \in SourceOps
        BY <1>10, <3>1
      <3> QED
        BY <3>2 DEF AccessLogs, SourceOps
    <2> QED
      BY <1>6, <1>11, <2>1 DEF Fresh
  <1>13. ASSUME b = 1 PROVE w[1].op \in {"logInit", "logFnBegin"}
    <2>1. 1 \in 1 .. b
      BY <1>13
    <2> QED
      BY <1>3, <1>7, <2>1
  <1>14. ASSUME b = 1 PROVE Layout(w, a, 0)
    <2>1. Len(w) > 1 + Len(a) + 0
      BY <1>1, <1>2, <1>14, <1>a DEF n
    <2>2. \A i \in 0 + 1 .. Len(a) : w[1 + 0 + i].op = "argstore" /\ w[1 + 0 + i].arg = a[i]
      <3> TAKE i \in 0 + 1 .. Len(a)
      <3>1. i \in 1 .. n /\ 1 + 0 + i = b + i
        BY <1>14 DEF n
      <3> QED
        BY <1>2, <1>8, <3>1
    <2>3. \A p \in 1 .. Len(w) : w[p].op # "logAccess_a"
      BY <1>12 DEF Fresh, AccessLogs
    <2>4. \A i \in 1 .. 0 : FALSE
      OBVIOUS
    <2> QED
      BY <1>13, <1>14, <2>1, <2>2, <2>3, <2>4 DEF Layout
  <1>15. /\ Bracketed(f) /\ ~allocOnly => w[1].op \in {"logInit", "logFnBegin"}
         /\ On(f, "function") /\ ~allocOnly => Layout(w, a, 0)
    BY <1>3, <1>4, <1>13, <1>14
  <1> QED
    BY <1>12, <1>15 DEF w, t, s, a, begin

-----------------------------------------------------------------------------
(* One turn of the loop over a block.                                      *)

Well(k, d, x, y) == Always(k, d, x, y) /\ Passed(k, x, y) /\ CallPair(k, d, x, y)

(* Nothing is inserted,                                                    *)
LEMMA VisitNone ==
  ASSUME NEW k, NEW d, NEW c, NEW p, Under(k, d, c, p), p <= Len(c), c[p].op # "call",
         Well(k, d, Before(c, p), c[p])
  PROVE  Under(k, d, Inserted(c, p, <<>>), p + Len(<<>>) + 1)
  <1> DEFINE items == <<>>
  <1>1. items \in Seq(Instructions) /\ Len(items) = 0
    OBVIOUS
  <1> HIDE DEF items
  <1>2. \A q \in 1 .. Len(items) : items[q].op # "ret"
    BY <1>1
  <1>3. \A q \in 1 .. Len(items) + 1 :
          LET x == IF q = 1 THEN Before(c, p) ELSE items[q - 1]
              y == IF q = Len(items) + 1 THEN c[p] ELSE items[q]
          IN Always(k, d, x, y) /\ Passed(k, x, y) /\ CallPair(k, d, x, y)
    <2> TAKE q \in 1 .. Len(items) + 1
    <2>1. q = 1 /\ q = Len(items) + 1
      BY <1>1
    <2> QED
      BY <2>1 DEF Well
  <1>4. Under(k, d, Inserted(c, p, items), p + Len(items) + 1)
    BY <1>1, <1>2, <1>3, VisitIs
  <1> QED
    BY <1>4 DEF items

(* one instruction is,                                                     *)
LEMMA VisitOne ==
  ASSUME NEW k, NEW d, NEW c, NEW p, Under(k, d, c, p), p <= Len(c), c[p].op # "call",
         NEW z \in Instructions, z.op # "ret",
         Well(k, d, Before(c, p), z), Well(k, d, z, c[p])
  PROVE  Under(k, d, Inserted(c, p, <<z>>), p + Len(<<z>>) + 1)
  <1> DEFINE items == <<z>>
  <1>1. items \in Seq(Instructions) /\ Len(items) = 1 /\ items[1] = z
    OBVIOUS
  <1> HIDE DEF items
  <1>2. \A q \in 1 .. Len(items) : items[q].op # "ret"
    BY <1>1
  <1>3. \A q \in 1 .. Len(items) + 1 :
          LET x == IF q = 1 THEN Before(c, p) ELSE items[q - 1]
              y == IF q = Len(items) + 1 THEN c[p] ELSE items[q]
          IN Always(k, d, x, y) /\ Passed(k, x, y) /\ CallPair(k, d, x, y)
    <2> TAKE q \in 1 .. Len(items) + 1
    <2>1. CASE q = 1
      <3>1. q # Len(items) + 1
        BY <1>1, <2>1
      <3> QED
        BY <1>1, <2>1, <3>1 DEF Well
    <2>2. CASE q = 2
      <3>1. q = Len(items) + 1 /\ q # 1 /\ q - 1 = 1
        BY <1>1, <2>2
      <3> QED
        BY <1>1, <3>1 DEF Well
    <2> QED
      BY <1>1, <2>1, <2>2
  <1>4. Under(k, d, Inserted(c, p, items), p + Len(items) + 1)
    BY <1>1, <1>2, <1>3, VisitIs
  <1> QED
    BY <1>4 DEF items

(* or two are.                                                             *)
LEMMA VisitTwo ==
  ASSUME NEW k, NEW d, NEW c, NEW p, Under(k, d, c, p), p <= Len(c), c[p].op # "call",
         NEW z \in Instructions, z.op # "ret", NEW u \in Instructions, u.op # "ret",
         Well(k, d, Before(c, p), z), Well(k, d, z, u), Well(k, d, u, c[p])
  PROVE  Under(k, d, Inserted(c, p, <<z, u>>), p + Len(<<z, u>>) + 1)
  <1> DEFINE items == <<z, u>>
  <1>1. items \in Seq(Instructions) /\ Len(items) = 2 /\ items[1] = z /\ items[2] = u
    OBVIOUS
  <1> HIDE DEF items
  <1>2. \A q \in 1 .. Len(items) : items[q].op # "ret"
    <2> TAKE q \in 1 .. Len(items)
    <2>1. q = 1 \/ q = 2
      BY <1>1
    <2> QED
      BY <1>1, <2>1
  <1>3. \A q \in 1 .. Len(items) + 1 :
          LET x == IF q = 1 THEN Before(c, p) ELSE items[q - 1]
              y == IF q = Len(items) + 1 THEN c[p] ELSE items[q]
          IN Always(k, d, x, y) /\ Passed(k, x, y) /\ CallPair(k, d, x, y)
    <2> TAKE q \in 1 .. Len(items) + 1
    <2>1. CASE q = 1
      <3>1. q # Len(items) + 1
        BY <1>1, <2>1
      <3> QED
        BY <1>1, <2>1, <3>1 DEF Well
    <2>2. CASE q = 2
      <3>1. q # Len(items) + 1 /\ q # 1 /\ q - 1 = 1
        BY <1>1, <2>2
      <3> QED
        BY <1>1, <2>2, <3>1 DEF Well
    <2>3. CASE q = 3
      <3>1. q = Len(items) + 1 /\ q # 1 /\ q - 1 = 2
        BY <1>1, <2>3
      <3> QED
        BY <1>1, <3>1 DEF Well
    <2> QED
      BY <1>1, <2>1, <2>2, <2>3
  <1>4. Under(k, d, Inserted(c, p, items), p + Len(items) + 1)
    BY <1>1, <1>2, <1>3, VisitIs
  <1> QED
    BY <1>4 DEF items

(* What the loop finds at its position.                                    *)
LEMMA AtPosition ==
  ASSUME NEW k, NEW d, NEW c, NEW p, Under(k, d, c, p), p <= Len(c)
  PROVE  /\ c[p] \in Instructions
         /\ Always(k, d, Before(c, p), c[p]) /\ CallPair(k, d, Before(c, p), c[p])
         /\ Before(c, p).op \notin AccessLogs
  <1>1. /\ p \in 1 .. Len(c) /\ Len(c) \in Nat /\ c \in Seq(Instructions)
    BY DEF Under
  <1>2. Before(c, p).op \notin AccessLogs
    <2>1. CASE p = 1
      BY <2>1 DEF Before, Instruction, AccessLogs
    <2>2. CASE p # 1
      <3>1. p > 1
        BY <1>1, <2>2
      <3> QED
        BY <2>2, <3>1 DEF Before, Under
    <2> QED
      BY <2>1, <2>2
  <1>3. p <= p
    BY <1>1
  <1>4. Always(k, d, Before(c, p), c[p]) /\ CallPair(k, d, Before(c, p), c[p])
    BY <1>1, <1>3 DEF Under
  <1> QED
    BY <1>1, <1>2, <1>4

(* Something that is neither logged nor a call of exit,                    *)
LEMMA PlainIs ==
  ASSUME NEW k, NEW d, NEW c, NEW p, Under(k, d, c, p), p <= Len(c),
         c[p].op \notin {"call", "exit"},
         c[p].op \in {"load", "store"} => "access" \notin k \/ "allocOnly" \in k
  PROVE  Under(k, d, Inserted(c, p, <<>>), p + Len(<<>>) + 1)
  <1>1. /\ Always(k, d, Before(c, p), c[p]) /\ CallPair(k, d, Before(c, p), c[p])
        /\ Before(c, p).op \notin AccessLogs
    BY AtPosition
  <1>2. Passed(k, Before(c, p), c[p])
    BY <1>1 DEF Passed, AccessPair, EntryPair, ExitPair, IsLogged, AccessLogs
  <1> QED
    BY <1>1, <1>2, VisitNone DEF Well

(* and a call of exit.                                                     *)
LEMMA ExitIs ==
  ASSUME NEW k, NEW d, NEW c, NEW p, Under(k, d, c, p), p <= Len(c), c[p].op = "exit"
  PROVE  /\ Brackets(k) => Under(k, d, Inserted(c, p, <<Instruction("logExit")>>),
                                 p + Len(<<Instruction("logExit")>>) + 1)
         /\ ~Brackets(k) => Under(k, d, Inserted(c, p, <<>>), p + Len(<<>>) + 1)
  <1> DEFINE z == Instruction("logExit")
             x == Before(c, p)
  <1>1. z \in Instructions /\ z.op = "logExit"
    <2>1. "logExit" \in InsertedOps \ {"logAlloc"}
      BY DEF InsertedOps, Logs
    <2> QED
      BY <2>1, InstructionIs
  <1>2. /\ Always(k, d, x, c[p]) /\ CallPair(k, d, x, c[p]) /\ x.op \notin AccessLogs
    BY AtPosition
  <1> HIDE DEF z, x
  <1>3. Well(k, d, x, z)
    BY <1>1, <1>2 DEF Well, Always, RetPair, AllocPair, Passed, AccessPair, EntryPair, ExitPair,
                      CallPair
  <1>4. Well(k, d, z, c[p])
    BY <1>1, <1>2 DEF Well, Always, RetPair, AllocPair, Passed, AccessPair, EntryPair, ExitPair,
                      CallPair, Allocates, AccessLogs
  <1>5. ~Brackets(k) => Well(k, d, x, c[p])
    BY <1>2 DEF Well, Passed, AccessPair, EntryPair, ExitPair
  <1>6. c[p].op # "call" /\ z.op # "ret"
    BY <1>1
  <1>7. Under(k, d, Inserted(c, p, <<z>>), p + Len(<<z>>) + 1)
    BY <1>1, <1>3, <1>4, <1>6, VisitOne DEF x
  <1>8. ~Brackets(k) => Under(k, d, Inserted(c, p, <<>>), p + Len(<<>>) + 1)
    BY <1>5, <1>6, VisitNone DEF x
  <1> QED
    BY <1>7, <1>8 DEF z

(* Every type but the wide integers and structs has a log function.        *)
LEMMA LogFunctionIs ==
  ASSUME NEW k, NEW type \in Types
  PROVE  /\ type \in {"wide", "struct"} => FunctionFor(k, type) = NULL
         /\ type \notin {"wide", "struct"} =>
              /\ type \in DOMAIN Bytes
              /\ FunctionFor(k, type) \in DOMAIN Parameter /\ FunctionFor(k, type) # NULL
         /\ FunctionFor(k, type) \in LogTypes
  <1>1. type \in {"i1", "i8", "i16", "i32", "i64", "float", "double", "ptr", "wide", "struct"}
    BY DEF Types, Bytes
  <1>2. DOMAIN Parameter = {"logAccessI8", "logAccessI16", "logAccessI32", "logAccessI64",
                            "logAccessF64", "logAccessPtr", "logAccessStaticString"}
    BY DEF Parameter
  <1>3. DOMAIN Bytes = {"i1", "i8", "i16", "i32", "i64", "float", "double", "ptr"}
    BY DEF Bytes
  <1>4. DOMAIN logFunctions = {"i1", "i8", "i16", "i32", "i64"}
    BY DEF logFunctions
  <1>5. FunctionFor(k, type) =
          IF type \in {"float", "double"} THEN "logAccessF64"
          ELSE IF type = "ptr"
          THEN IF "tracepoint" \in k THEN "logAccessStaticString" ELSE "logAccessPtr"
          ELSE IF type \in {"i1", "i8", "i16", "i32", "i64"} THEN logFunctions[type] ELSE "NULL"
    BY <1>1, <1>4 DEF FunctionFor, getLogFunction, Floats, NULL
  <1>6. /\ logFunctions["i1"] = "logAccessI8" /\ logFunctions["i8"] = "logAccessI8"
        /\ logFunctions["i16"] = "logAccessI16" /\ logFunctions["i32"] = "logAccessI32"
        /\ logFunctions["i64"] = "logAccessI64"
    BY DEF logFunctions
  <1>7. type \in {"wide", "struct"} => FunctionFor(k, type) = NULL
    BY <1>5 DEF NULL
  <1>8. type \notin {"wide", "struct"} =>
          /\ type \in DOMAIN Bytes
          /\ FunctionFor(k, type) \in DOMAIN Parameter /\ FunctionFor(k, type) # NULL
    BY <1>1, <1>2, <1>3, <1>5, <1>6 DEF NULL
  <1> QED
    BY <1>7, <1>8 DEF LogTypes

(* An access that is logged.                                               *)
LEMMA AccessIs ==
  ASSUME NEW k, NEW d, NEW c, NEW p, Under(k, d, c, p), p <= Len(c),
         c[p].op \in Accesses, c[p].type # "wide", NEW op \in AccessLogs,
         "allocOnly" \notin k,
         c[p].op = "load" => op = "logAccess_r" /\ "access" \in k,
         c[p].op = "store" => "access" \in k /\ (op = "logAccess_w" \/ "function" \notin k)
  PROVE  LET function == FunctionFor(k, c[p].type)
             reload == IF op = "logAccess_r" THEN <<Instruction("reload")>> ELSE <<>>
             log == [c[p] EXCEPT !.op = op, !.type = function]
             items == reload \o IF function = NULL THEN <<>> ELSE <<log>>
         IN Under(k, d, Inserted(c, p, items), p + Len(items) + 1)
  <1> DEFINE y == c[p]
             x == Before(c, p)
             function == FunctionFor(k, y.type)
             r == Instruction("reload")
             log == [y EXCEPT !.op = op, !.type = function]
             reload == IF op = "logAccess_r" THEN <<r>> ELSE <<>>
             items == reload \o IF function = NULL THEN <<>> ELSE <<log>>
  <1>1. /\ y \in Instructions /\ Always(k, d, x, y) /\ CallPair(k, d, x, y)
        /\ x.op \notin AccessLogs
    BY AtPosition
  <1>2. y.type \in Types
    BY <1>1, InstructionFacts
  <1>3. /\ y.type = "struct" => function = NULL
        /\ y.type # "struct" => /\ y.type \in DOMAIN Bytes /\ function # NULL
        /\ function \in LogTypes
    BY <1>2, LogFunctionIs
  <1> HIDE DEF function
  <1>a. log = LogOf(y, op, function) /\ y.op \in Accesses
    BY DEF LogOf
  <1> HIDE DEF log, y
  <1>4. /\ log \in Instructions /\ log.op = op /\ log.type = function
    BY <1>1, <1>3, <1>a, LogIs
  <1>5. r \in Instructions /\ r.op = "reload"
    <2>1. "reload" \in InsertedOps \ {"logAlloc"}
      BY DEF InsertedOps
    <2> QED
      BY <2>1, InstructionIs
  <1> HIDE DEF log, r, x, y
  <1>6. /\ y.op \in {"load", "store", "argstore"}
        /\ op \in {"logAccess_a", "logAccess_r", "logAccess_w"}
    BY DEF Accesses, AccessLogs, y
  <1>7. ~Allocates(k, d, x)
    BY <1>1, <1>6 DEF CallPair
  <1>8. Well(k, d, x, log)
    BY <1>1, <1>4, <1>6, <1>7
       DEF Well, Always, RetPair, AllocPair, Passed, AccessPair, EntryPair, ExitPair, CallPair
  <1>9. Well(k, d, x, r)
    BY <1>1, <1>5, <1>7
       DEF Well, Always, RetPair, AllocPair, Passed, AccessPair, EntryPair, ExitPair, CallPair
  <1>10. Well(k, d, r, log)
    BY <1>4, <1>5, <1>6
       DEF Well, Always, RetPair, AllocPair, Passed, AccessPair, EntryPair, ExitPair, CallPair,
           Allocates, AccessLogs
  <1>11. y.type # "struct" => Well(k, d, log, y)
    <2> SUFFICES ASSUME y.type # "struct" PROVE Well(k, d, log, y)
      OBVIOUS
    <2>1. Always(k, d, log, y) /\ ExitPair(k, log, y) /\ CallPair(k, d, log, y)
      BY <1>4, <1>6 DEF Always, RetPair, AllocPair, ExitPair, CallPair, Allocates
    <2>2. EntryPair(k, log, y)
      BY <1>3, <1>4 DEF EntryPair, function
    <2>3. AccessPair(k, log, y)
      BY <1>4, <1>6 DEF AccessPair, IsLogged, y
    <2> QED
      BY <2>1, <2>2, <2>3 DEF Well, Passed
  <1>12. y.type = "struct" => Well(k, d, r, y)
    BY <1>5, <1>6
       DEF Well, Always, RetPair, AllocPair, Passed, AccessPair, EntryPair, ExitPair, CallPair,
           Allocates, IsLogged, AccessLogs
  <1>13. y.type = "struct" => Well(k, d, x, y)
    BY <1>1, <1>6
       DEF Well, Passed, AccessPair, EntryPair, ExitPair, IsLogged, AccessLogs
  <1>14. c[p].op # "call" /\ log.op # "ret" /\ r.op # "ret"
    BY <1>4, <1>5, <1>6 DEF y
  <1>15. /\ <<r>> \o <<>> = <<r>> /\ <<r>> \o <<log>> = <<r, log>>
         /\ <<>> \o <<>> = <<>> /\ <<>> \o <<log>> = <<log>>
    <2>1. <<r>> \in Seq(Instructions) /\ <<log>> \in Seq(Instructions)
          /\ <<>> \in Seq(Instructions)
      BY <1>4, <1>5
    <2>2. <<r>> \o <<>> = <<r>>
      BY <2>1, ConcatEmptySeq, Zenon
    <2>3. <<>> \o <<>> = <<>>
      BY <2>1, ConcatEmptySeq, Zenon
    <2>4. <<>> \o <<log>> = <<log>>
      BY <2>1, ConcatEmptySeq, Zenon
    <2>5. <<r>> \o <<log>> = <<r, log>>
      <3>1. /\ <<r>> \o <<log>> \in Seq(Instructions)
            /\ Len(<<r>> \o <<log>>) = Len(<<r>>) + Len(<<log>>)
            /\ \A i \in 1 .. Len(<<r>>) + Len(<<log>>) : (<<r>> \o <<log>>)[i] =
                 IF i <= Len(<<r>>) THEN <<r>>[i] ELSE <<log>>[i - Len(<<r>>)]
        BY <2>1, ConcatProperties, Zenon
      <3> DEFINE s == <<r>> \o <<log>>
      <3> HIDE DEF s
      <3>2. s \in Seq(Instructions) /\ Len(s) = 2 /\ s[1] = r /\ s[2] = log
        BY <3>1 DEF s
      <3>3. <<r, log>> \in Seq(Instructions) /\ Len(<<r, log>>) = 2
        BY <1>4, <1>5
      <3>4. \A i \in 1 .. Len(s) : s[i] = <<r, log>>[i]
        BY <3>2
      <3>5. s = <<r, log>>
        BY <3>2, <3>3, <3>4, SeqEqual
      <3> QED
        BY <3>5 DEF s
    <2> QED
      BY <2>2, <2>3, <2>4, <2>5
  <1>16. CASE y.type = "struct" /\ op = "logAccess_r"
    <2>1. items = <<r>>
      BY <1>3, <1>15, <1>16
    <2>2. Under(k, d, Inserted(c, p, <<r>>), p + Len(<<r>>) + 1)
      BY <1>5, <1>9, <1>12, <1>14, <1>16, VisitOne DEF x, y
    <2> QED
      BY <2>1, <2>2 DEF y, log, r, function
  <1>17. CASE y.type = "struct" /\ op # "logAccess_r"
    <2>1. items = <<>>
      BY <1>3, <1>15, <1>17
    <2>2. Under(k, d, Inserted(c, p, <<>>), p + Len(<<>>) + 1)
      BY <1>13, <1>14, <1>17, VisitNone DEF x, y
    <2> QED
      BY <2>1, <2>2 DEF y, log, r, function
  <1>18. CASE y.type # "struct" /\ op = "logAccess_r"
    <2>1. items = <<r, log>>
      BY <1>3, <1>15, <1>18
    <2>2. Under(k, d, Inserted(c, p, <<r, log>>), p + Len(<<r, log>>) + 1)
      BY <1>4, <1>5, <1>9, <1>10, <1>11, <1>14, <1>18, VisitTwo DEF x, y
    <2> QED
      BY <2>1, <2>2 DEF y, log, r, function
  <1>19. CASE y.type # "struct" /\ op # "logAccess_r"
    <2>1. items = <<log>>
      BY <1>3, <1>15, <1>19
    <2>2. Under(k, d, Inserted(c, p, <<log>>), p + Len(<<log>>) + 1)
      BY <1>4, <1>8, <1>11, <1>14, <1>19, VisitOne DEF x, y
    <2> QED
      BY <2>1, <2>2 DEF y, log, r, function
  <1> QED
    BY <1>16, <1>17, <1>18, <1>19


-----------------------------------------------------------------------------
(* The inductive invariant.                                                *)

NF == Len(module.functions)

(* What decides how a function is instrumented.                            *)
Settings(f) ==
  {e \in Events : On(f, e)} \cup {module.functions[f].kind}
  \cup (IF allocOnly THEN {"allocOnly"} ELSE {})

(* It is what the model asks for.                                          *)
LEMMA SettingsAre ==
  ASSUME module \in Modules, NEW f \in 1 .. NF
  PROVE  /\ "access" \in Settings(f) <=> On(f, "access")
         /\ "function" \in Settings(f) <=> On(f, "function")
         /\ "alloc" \in Settings(f) <=> On(f, "alloc")
         /\ "allocOnly" \in Settings(f) <=> allocOnly
         /\ "main" \in Settings(f) <=> module.functions[f].kind = "main"
         /\ "tracepoint" \in Settings(f) <=> module.functions[f].kind = "tracepoint"
         /\ Brackets(Settings(f)) <=> Bracketed(f)
  <1>1. Events = {"access", "function", "alloc"}
    BY PassDriverAssumption
  <1>2. module.functions[f].kind \in Kinds
    BY PassDriverAssumption DEF NF
  <1>3. \A e : e \in Settings(f) <=> \/ e \in Events /\ On(f, e)
                                     \/ e = module.functions[f].kind
                                     \/ allocOnly /\ e = "allocOnly"
    BY DEF Settings
  <1>4. /\ "access" \in Settings(f) <=> On(f, "access")
        /\ "function" \in Settings(f) <=> On(f, "function")
        /\ "alloc" \in Settings(f) <=> On(f, "alloc")
    BY <1>1, <1>2, <1>3 DEF Kinds
  <1>5. /\ "allocOnly" \in Settings(f) <=> allocOnly
        /\ "main" \in Settings(f) <=> module.functions[f].kind = "main"
        /\ "tracepoint" \in Settings(f) <=> module.functions[f].kind = "tracepoint"
    BY <1>1, <1>2, <1>3 DEF Kinds
  <1> QED
    BY <1>4, <1>5 DEF Brackets, Bracketed

(* It does not change once the filter has been loaded.                     *)
LEMMA Frame ==
  ASSUME allocOnly' = allocOnly, filters' = filters, module' = module, NEW f
  PROVE  /\ Settings(f)' = Settings(f) /\ Kept(f)' = Kept(f) /\ Args(f)' = Args(f)
         /\ On(f, "function")' = On(f, "function") /\ Bracketed(f)' = Bracketed(f)
  <1>1. ASSUME NEW e PROVE On(f, e)' = On(f, e)
    BY DEF On
  <1>2. Settings(f)' = Settings(f)
    BY <1>1 DEF Settings
  <1>3. Kept(f)' = Kept(f)
    BY DEF Kept
  <1>4. Args(f)' = Args(f)
    BY DEF Args, On
  <1>5. Bracketed(f)' = Bracketed(f)
    BY <1>1 DEF Bracketed
  <1> QED
    BY <1>1, <1>2, <1>3, <1>4, <1>5

(* The loop is in a function.                                              *)
Active == stage \in {"block", "instruction"}

(* Where the loops are, and what they run over.                            *)
PlaceInv ==
  /\ module \in Modules /\ allocOnly \in BOOLEAN
  /\ fn \in Nat \ {0} /\ fn <= NF + 1
  /\ stage \in {"start", "load", "function", "block", "instruction",
                "skipped", "died", "done"}
  /\ stage \in {"start", "load", "skipped"} => fn = 1
  /\ code \in [1 .. NF -> Seq(Seq(Instructions))]
  /\ stage \in {"function", "block", "instruction", "done"} \/ fn > 1 =>
       \E file \in AllocFiles : ~LoadExits(file) /\ allocDefs = LoadAllocDefs(file)
  /\ Active => /\ fn <= NF /\ Kept(fn) /\ code[fn] # <<>>
               /\ blk \in 1 .. Len(code[fn]) + 1
  /\ stage = "instruction" => blk <= Len(code[fn])

(* What is known of block b of function f: it is as it was, it has been    *)
(* instrumented, it will be, or the loop is in it.                         *)
Untouched(f) ==
  \/ f > fn
  \/ f = fn /\ stage \in {"start", "load", "function", "skipped"}
  \/ f < fn /\ ~Kept(f)

Behind(f, b) == Kept(f) /\ (f < fn \/ (f = fn /\ Active /\ b < blk))

Ahead(f, b) == f = fn /\ Active /\ (b > blk \/ (b = blk /\ stage = "block"))

BlocksInv ==
  \A f \in 1 .. NF : \A b \in 1 .. Len(code[f]) :
    /\ Untouched(f) => Source(code[f][b])
    /\ Behind(f, b) => Complete(Settings(f), allocDefs, code[f][b])
    /\ Ahead(f, b) => Fresh(code[f][b])
    /\ f = fn /\ b = blk /\ stage = "instruction" =>
         Under(Settings(f), allocDefs, code[f][b], pos)

(* The functions that have been entered, and those of them with events.    *)
Entered(f) == code[f] # <<>> /\ Kept(f) /\ (f < fn \/ (f = fn /\ Active))

BeginInv ==
  \A f \in 1 .. NF : Entered(f) /\ Bracketed(f) /\ ~allocOnly =>
    code[f][1][1].op \in {"logInit", "logFnBegin"}

(* Only arguments of functions that have been entered wait.                *)
QueueInv ==
  /\ \A e \in argLogSet : e[1] \in Nat
  /\ stage # "died" => \A e \in argLogSet : e[1] < fn \/ (e[1] = fn /\ Active)

(* The arguments a wait to be logged, but for the first j; which of them   *)
(* have been logged says where the loop is.                                *)
Waiting(a, j) == \A v \in Int : <<fn, v>> \in argLogSet <=> \E i \in j + 1 .. Len(a) : v = a[i]

Progress(n, j) ==
  /\ stage = "block" /\ blk = 1 => j = 0
  /\ stage = "instruction" /\ blk = 1 =>
       (pos = 1 /\ j = 0) \/ pos = 2 * j + 2 \/ (j = n /\ pos >= 2 * n + 2)
  /\ blk > 1 => j = n

NoArguments(c) == \A p \in 1 .. Len(c) : c[p].op # "logAccess_a"

ArgsInv ==
  \A f \in 1 .. NF : Entered(f) /\ On(f, "function") /\ ~allocOnly =>
    /\ \A b \in 2 .. Len(code[f]) : NoArguments(code[f][b])
    /\ f < fn => Layout(code[f][1], Args(f), Len(Args(f)))
    /\ f = fn => \E j \in 0 .. Len(Args(f)) :
         Layout(code[f][1], Args(f), j) /\ Waiting(Args(f), j) /\ Progress(Len(Args(f)), j)

IInv == PlaceInv /\ BlocksInv /\ BeginInv /\ QueueInv /\ ArgsInv

(* At first.                                                               *)
LEMMA InitIInv == Init => IInv
  <1> SUFFICES ASSUME Init PROVE IInv
    OBVIOUS
  <1> USE DEF Init
  <1>1. \A f \in 1 .. NF : /\ module.functions[f].blocks \in Seq(Seq(Given))
                           /\ \A b \in 1 .. Len(module.functions[f].blocks) :
                                Source(module.functions[f].blocks[b])
    BY SourceOfModule DEF NF
  <1>2. \A f \in 1 .. NF : code[f] = module.functions[f].blocks
    BY DEF NF
  <1>3. code \in [1 .. NF -> Seq(Seq(Instructions))]
    <2>1. Seq(Seq(Given)) \subseteq Seq(Seq(Instructions))
      BY DEF Instructions
    <2> QED
      BY <1>1, <2>1 DEF NF
  <1>a. NF \in Nat
    BY PassDriverAssumption DEF NF
  <1>4. PlaceInv
    BY <1>3, <1>a DEF PlaceInv, Active
  <1>5. BlocksInv
    <2> SUFFICES ASSUME NEW f \in 1 .. NF, NEW b \in 1 .. Len(code[f])
                 PROVE  /\ Source(code[f][b]) /\ ~Behind(f, b) /\ ~Ahead(f, b)
                        /\ stage # "instruction"
      BY DEF BlocksInv
    <2>1. Source(code[f][b])
      BY <1>1, <1>2
    <2>2. ~(f < fn)
      OBVIOUS
    <2> QED
      BY <2>1, <2>2 DEF Behind, Ahead, Active
  <1>6. \A f \in 1 .. NF : ~Entered(f)
    BY DEF Entered, Active
  <1> QED
    BY <1>4, <1>5, <1>6 DEF IInv, BeginInv, QueueInv, ArgsInv

-----------------------------------------------------------------------------
(* The steps of the loops, and what they do to the blocks.                 *)

(* One block is changed.                                                   *)
LEMMA OneBlock ==
  ASSUME code \in [1 .. NF -> Seq(Seq(Instructions))],
         NEW g \in 1 .. NF, NEW h \in 1 .. Len(code[g]),
         NEW w \in Seq(Instructions), code' = [code EXCEPT ![g][h] = w]
  PROVE  /\ code' \in [1 .. NF -> Seq(Seq(Instructions))]
         /\ \A f \in 1 .. NF : Len(code'[f]) = Len(code[f]) /\ (code'[f] = <<>> <=> code[f] = <<>>)
         /\ \A f \in 1 .. NF : f # g => code'[f] = code[f]
         /\ \A b \in 1 .. Len(code[g]) : b # h => code'[g][b] = code[g][b]
         /\ code'[g][h] = w
  <1> DEFINE S == Seq(Instructions)
             n == NF
             s == code[g]
             t == [s EXCEPT ![h] = w]
  <1>1. code \in [1 .. n -> Seq(S)] /\ g \in 1 .. n /\ s \in Seq(S) /\ h \in 1 .. Len(s)
    OBVIOUS
  <1>2. code' = [code EXCEPT ![g] = t]
    OBVIOUS
  <1>3. w \in S
    OBVIOUS
  <1> HIDE DEF S, n
  <1>4. /\ t \in Seq(S) /\ Len(t) = Len(s) /\ t[h] = w
        /\ \A b \in 1 .. Len(s) : b # h => t[b] = s[b]
    BY <1>1, <1>3
  <1>5. t = <<>> <=> s = <<>>
    BY <1>1, <1>4
  <1> HIDE DEF t
  <1>6. code' \in [1 .. n -> Seq(S)] /\ code'[g] = t
    BY <1>1, <1>2, <1>4
  <1>7. \A f \in 1 .. n : f # g => code'[f] = code[f]
    BY <1>1, <1>2
  <1> QED
    BY <1>1, <1>4, <1>5, <1>6, <1>7 DEF S, n

(* Nothing the invariant is about changes but where the loop is, and the   *)
(* block it is in.                                                         *)
Quiet == UNCHANGED <<allocOnly, filters, allocDefs, module, fn, blk>>

(* In a block, the loop is at another position after the step.             *)
LEMMA LoopIs ==
  ASSUME PlaceInv, BlocksInv, Active, blk <= Len(code[fn]), Quiet, stage' = "instruction",
         NEW w \in Seq(Instructions), code' = [code EXCEPT ![fn][blk] = w],
         NEW p, pos' = p, Under(Settings(fn), allocDefs, w, p)
  PROVE  PlaceInv' /\ BlocksInv'
  <1>1. /\ code' \in [1 .. NF -> Seq(Seq(Instructions))]
        /\ \A f \in 1 .. NF : Len(code'[f]) = Len(code[f]) /\ (code'[f] = <<>> <=> code[f] = <<>>)
        /\ \A f \in 1 .. NF : f # fn => code'[f] = code[f]
        /\ \A b \in 1 .. Len(code[fn]) : b # blk => code'[fn][b] = code[fn][b]
        /\ code'[fn][blk] = w
        /\ fn \in 1 .. NF /\ blk \in 1 .. Len(code[fn])
    <2>1. fn \in 1 .. NF /\ blk \in 1 .. Len(code[fn])
      BY PassDriverAssumption DEF PlaceInv, NF
    <2>2. code \in [1 .. NF -> Seq(Seq(Instructions))]
      BY DEF PlaceInv
    <2> QED
      BY <2>1, <2>2, OneBlock
  <1>2. /\ allocOnly' = allocOnly /\ filters' = filters /\ allocDefs' = allocDefs
        /\ module' = module /\ fn' = fn /\ blk' = blk
    BY DEF Quiet
  <1>3. NF' = NF
    BY <1>2 DEF NF
  <1>4. \A f : Settings(f)' = Settings(f) /\ Kept(f)' = Kept(f)
    BY <1>2, Frame
  <1>5. PlaceInv'
    <2>1. Active' /\ stage' \notin {"start", "load", "skipped"}
      BY DEF Active
    <2>2. code'[fn'] # <<>> /\ Len(code'[fn']) = Len(code[fn]) /\ Kept(fn)'
      BY <1>1, <1>2, <1>4 DEF PlaceInv
    <2>3. \E file \in AllocFiles : ~LoadExits(file) /\ allocDefs' = LoadAllocDefs(file)
      BY <1>2 DEF PlaceInv, Active
    <2> QED
      BY <1>1, <1>2, <1>3, <2>1, <2>2, <2>3 DEF PlaceInv
  <1>6. BlocksInv'
    <2> SUFFICES ASSUME NEW f \in 1 .. NF, NEW b \in 1 .. Len(code'[f])
                 PROVE  /\ Untouched(f)' => Source(code'[f][b])
                        /\ Behind(f, b)' => Complete(Settings(f), allocDefs, code'[f][b])
                        /\ Ahead(f, b)' => Fresh(code'[f][b])
                        /\ f = fn /\ b = blk => Under(Settings(f), allocDefs, code'[f][b], p)
      BY <1>2, <1>3, <1>4 DEF BlocksInv
    <2>1. b \in 1 .. Len(code[f])
      BY <1>1
    <2>2. /\ Untouched(f) => Source(code[f][b])
          /\ Behind(f, b) => Complete(Settings(f), allocDefs, code[f][b])
          /\ Ahead(f, b) => Fresh(code[f][b])
      BY <2>1 DEF BlocksInv
    <2>3. stage \in {"block", "instruction"}
      BY DEF Active
    <2>4. Untouched(f)' => Untouched(f) /\ f # fn
      BY <1>2, <1>4, <2>3 DEF Untouched, PlaceInv
    <2>5. Behind(f, b)' => Behind(f, b) /\ ~(f = fn /\ b = blk)
      BY <1>1, <1>2, <1>4, <2>3 DEF Behind, Active, PlaceInv
    <2>6. Ahead(f, b)' => Ahead(f, b) /\ ~(f = fn /\ b = blk)
      BY <1>1, <1>2, <2>3 DEF Ahead, Active, PlaceInv
    <2>7. ~(f = fn /\ b = blk) => code'[f][b] = code[f][b]
      BY <1>1, <2>1
    <2>8. f = fn /\ b = blk => Under(Settings(f), allocDefs, code'[f][b], p)
      BY <1>1
    <2> QED
      BY <2>2, <2>4, <2>5, <2>6, <2>7, <2>8
  <1> QED
    BY <1>5, <1>6

(* The instructions the loop is at.                                        *)
LEMMA Position ==
  ASSUME PlaceInv, BlocksInv, stage = "instruction"
  PROVE  /\ Active /\ fn \in 1 .. NF /\ blk \in 1 .. Len(code[fn])
         /\ code[fn][blk] \in Seq(Instructions)
         /\ Under(Settings(fn), allocDefs, code[fn][blk], pos)
  <1>1. Active /\ fn \in 1 .. NF /\ blk \in 1 .. Len(code[fn])
    BY PassDriverAssumption DEF PlaceInv, Active, NF
  <1>2. Under(Settings(fn), allocDefs, code[fn][blk], pos)
    BY <1>1 DEF BlocksInv
  <1> QED
    BY <1>1, <1>2 DEF Under

(* What LoopIs needs, from InsertBefore.                                   *)
LEMMA InsertBeforeIs ==
  ASSUME PlaceInv, BlocksInv, stage = "instruction", Quiet, NEW items, InsertBefore(items),
         Under(Settings(fn), allocDefs, Inserted(code[fn][blk], pos, items), pos + Len(items) + 1)
  PROVE  PlaceInv' /\ BlocksInv'
  <1> DEFINE w == Inserted(code[fn][blk], pos, items)
             p == pos + Len(items) + 1
  <1>1. Active /\ fn \in 1 .. NF /\ blk \in 1 .. Len(code[fn])
    BY Position
  <1>2. blk <= Len(code[fn])
    BY <1>1
  <1>3. pos' = p /\ stage' = "instruction" /\ code' = [code EXCEPT ![fn][blk] = w]
    BY DEF InsertBefore
  <1>4. w \in Seq(Instructions) /\ Under(Settings(fn), allocDefs, w, p)
    BY DEF Under
  <1> HIDE DEF w, p
  <1> QED
    BY <1>1, <1>2, <1>3, <1>4, LoopIs

(* What waits is no parameter that the code stores itself: the copies come *)
(* first.                                                                  *)
LEMMA StoreIsNoArgument ==
  ASSUME PlaceInv, BlocksInv, ArgsInv, stage = "instruction", pos <= Len(code[fn][blk]),
         code[fn][blk][pos].op = "store", ~allocOnly, On(fn, "function")
  PROVE  Stored \notin argLogSet
  <1> DEFINE c == code[fn][blk]
             a == Args(fn)
             n == Len(a)
  <1>1. /\ Active /\ fn \in 1 .. NF /\ blk \in 1 .. Len(code[fn])
        /\ c \in Seq(Instructions) /\ pos \in 1 .. Len(c)
    BY Position DEF Under
  <1>2. n \in Nat
    <2>1. module.functions[fn].params \in Nat
      BY <1>1, PassDriverAssumption DEF PlaceInv, NF
    <2> QED
      BY <2>1, ArgsAre
  <1>3. c[pos].arg \in Int
    <2>1. c[pos] \in Instructions
      BY <1>1
    <2> QED
      BY <2>1, InstructionFacts
  <1>4. Entered(fn)
    BY <1>1 DEF PlaceInv, Entered
  <1>5. PICK j \in 0 .. n : Layout(code[fn][1], a, j) /\ Waiting(a, j) /\ Progress(n, j)
    BY <1>1, <1>4 DEF ArgsInv
  <1>6. j = n
    <2>1. CASE blk > 1
      BY <1>5, <2>1 DEF Progress
    <2>2. CASE blk = 1
      <3>1. /\ c[1].op \in {"logInit", "logFnBegin"}
            /\ \A i \in j + 1 .. n : c[1 + j + i].op = "argstore"
        BY <1>5, <2>2 DEF Layout
      <3>2. (pos = 1 /\ j = 0) \/ pos = 2 * j + 2 \/ j = n
        BY <1>5, <2>2 DEF Progress
      <3>3. c[pos].op = "store"
        OBVIOUS
      <3> HIDE DEF c, n
      <3>4. pos # 1
        BY <3>1, <3>3
      <3>5. CASE pos = 2 * j + 2 /\ j # n
        <4>1. j + 1 \in j + 1 .. n /\ 1 + j + (j + 1) = pos
          BY <1>2, <3>5
        <4>2. c[1 + j + (j + 1)].op = "argstore"
          BY <3>1, <4>1
        <4> QED
          BY <3>3, <4>1, <4>2
      <3> QED
        BY <3>2, <3>4, <3>5
    <2> QED
      BY <1>1, <2>1, <2>2
  <1>7. <<fn, c[pos].arg>> \notin argLogSet
    <2>1. ~\E i \in j + 1 .. n : c[pos].arg = a[i]
      BY <1>2, <1>6
    <2> QED
      BY <1>3, <1>5, <2>1 DEF Waiting
  <1> QED
    BY <1>7 DEF Stored

(* The step at an access.                                                  *)
LEMMA AccessStep ==
  ASSUME PlaceInv, BlocksInv, stage = "instruction", pos <= Len(code[fn][blk]), Quiet,
         code[fn][blk][pos].op \in Accesses, NEW op \in AccessLogs, ~allocOnly,
         InstrumentAccess(op),
         code[fn][blk][pos].op = "load" => op = "logAccess_r" /\ On(fn, "access"),
         code[fn][blk][pos].op = "store" =>
           On(fn, "access") /\ (op = "logAccess_w" \/ ~On(fn, "function"))
  PROVE  PlaceInv' /\ BlocksInv'
  <1> DEFINE c == code[fn][blk]
             k == Settings(fn)
             function == FunctionFor(k, c[pos].type)
             reload == IF op = "logAccess_r" THEN <<Instruction("reload")>> ELSE <<>>
             log == [c[pos] EXCEPT !.op = op, !.type = function]
             items == reload \o IF function = NULL THEN <<>> ELSE <<log>>
  <1>1. fn \in 1 .. NF /\ Under(k, allocDefs, c, pos)
    BY Position
  <1>2. /\ "access" \in k <=> On(fn, "access")
        /\ "function" \in k <=> On(fn, "function")
        /\ "allocOnly" \notin k
        /\ "tracepoint" \in k <=> module.functions[fn].kind = "tracepoint"
    BY <1>1, SettingsAre DEF PlaceInv
  <1>3. CASE c[pos].type = "wide"
    <2>1. stage' = "died" /\ code' = code /\ pos' = pos
      BY <1>3 DEF InstrumentAccess
    <2>2. PlaceInv'
      BY <2>1 DEF PlaceInv, Quiet, Active, NF
    <2>3. /\ NF' = NF /\ \A f : Settings(f)' = Settings(f) /\ Kept(f)' = Kept(f)
      BY Frame DEF Quiet, NF
    <2>4. BlocksInv'
      <3> SUFFICES ASSUME NEW f \in 1 .. NF, NEW b \in 1 .. Len(code[f])
                   PROVE  /\ Untouched(f)' => Source(code[f][b])
                          /\ Behind(f, b)' => Complete(Settings(f), allocDefs, code[f][b])
                          /\ ~Ahead(f, b)' /\ stage' # "instruction"
        BY <2>1, <2>3 DEF BlocksInv, Quiet
      <3>1. Untouched(f)' => Untouched(f)
        BY <2>1, <2>3 DEF Untouched, Quiet
      <3>2. Behind(f, b)' => Behind(f, b)
        BY <2>1, <2>3 DEF Behind, Active, Quiet
      <3> QED
        BY <2>1, <3>1, <3>2 DEF BlocksInv, Ahead, Active
    <2> QED
      BY <2>2, <2>4
  <1>4. CASE c[pos].type # "wide"
    <2>1. getLogFunction(c[pos].type, module.functions[fn].kind = "tracepoint") = function
      <3>1. ("tracepoint" \in k) = (module.functions[fn].kind = "tracepoint")
        BY <1>2
      <3> HIDE DEF k, c
      <3> QED
        BY <3>1, Zenon DEF FunctionFor
    <2>2. InsertBefore(items)
      BY <1>4, <2>1 DEF InstrumentAccess
    <2>3. c[pos].op \in Accesses /\ pos <= Len(c)
      OBVIOUS
    <2>4. /\ c[pos].op = "load" => op = "logAccess_r" /\ "access" \in k
          /\ c[pos].op = "store" => "access" \in k /\ (op = "logAccess_w" \/ "function" \notin k)
      BY <1>2
    <2> HIDE DEF c, k
    <2>5. Under(k, allocDefs, Inserted(c, pos, items), pos + Len(items) + 1)
      BY <1>1, <1>2, <1>4, <2>3, <2>4, AccessIs
    <2> HIDE DEF items
    <2> QED
      BY <2>2, <2>5, InsertBeforeIs DEF c, k
  <1> QED
    BY <1>3, <1>4

(* The steps at an instruction.                                            *)
LEMMA VisitKeepsBlocks ==
  ASSUME PlaceInv, BlocksInv, ArgsInv,
         VisitStore \/ VisitLoad \/ VisitCall \/ VisitExit \/ VisitOther
  PROVE  PlaceInv' /\ BlocksInv'
  <1> DEFINE c == code[fn][blk]
             k == Settings(fn)
  <1>1. /\ stage = "instruction" /\ pos <= Len(c) /\ Quiet
    BY DEF VisitStore, VisitLoad, VisitCall, VisitExit, VisitOther, AtInstruction, Quiet
  <1>2. /\ Active /\ fn \in 1 .. NF /\ blk \in 1 .. Len(code[fn])
        /\ c \in Seq(Instructions) /\ Under(k, allocDefs, c, pos)
    BY <1>1, Position
  <1>3. /\ "access" \in k <=> On(fn, "access")
        /\ "function" \in k <=> On(fn, "function")
        /\ "alloc" \in k <=> On(fn, "alloc")
        /\ "allocOnly" \in k <=> allocOnly
        /\ Brackets(k) <=> Bracketed(fn)
    BY <1>2, SettingsAre DEF PlaceInv
  <1>4. ASSUME InsertBefore(<<>>), c[pos].op \notin {"call", "exit"},
               c[pos].op \in {"load", "store"} => ~On(fn, "access") \/ allocOnly
        PROVE  PlaceInv' /\ BlocksInv'
    <2>1. /\ pos <= Len(c) /\ c[pos].op \notin {"call", "exit"}
          /\ c[pos].op \in {"load", "store"} => "access" \notin k \/ "allocOnly" \in k
      BY <1>1, <1>3, <1>4
    <2> HIDE DEF c, k
    <2>2. Under(k, allocDefs, Inserted(c, pos, <<>>), pos + Len(<<>>) + 1)
      BY <1>2, <2>1, PlainIs
    <2> QED
      BY <1>1, <1>4, <2>2, InsertBeforeIs DEF c, k
  <1>5. CASE VisitStore
    <2>1. c[pos].op \in {"store", "argstore"} /\ ~allocOnly
      BY <1>5 DEF VisitStore, AtInstruction
    <2>2. PICK isArg \in IsArg :
            IF (On(fn, "function") /\ isArg) \/ On(fn, "access")
            THEN InstrumentAccess(IF isArg THEN "logAccess_a" ELSE "logAccess_w")
            ELSE InsertBefore(<<>>)
      BY <1>5 DEF VisitStore
    <2>3. c[pos].op = "store" /\ On(fn, "function") => isArg = FALSE
      BY <1>1, <2>1, <2>2, StoreIsNoArgument DEF IsArg
    <2>4. CASE (On(fn, "function") /\ isArg) \/ On(fn, "access")
      <3> DEFINE op == IF isArg THEN "logAccess_a" ELSE "logAccess_w"
      <3>1. op \in AccessLogs /\ InstrumentAccess(op)
        BY <2>2, <2>4 DEF AccessLogs
      <3>2. c[pos].op = "store" => On(fn, "access") /\ (op = "logAccess_w" \/ ~On(fn, "function"))
        BY <2>3, <2>4
      <3>3. c[pos].op \in Accesses /\ c[pos].op # "load"
        BY <2>1 DEF Accesses
      <3> HIDE DEF op
      <3> QED
        BY <1>1, <2>1, <3>1, <3>2, <3>3, AccessStep
    <2>5. CASE ~((On(fn, "function") /\ isArg) \/ On(fn, "access"))
      BY <1>4, <2>1, <2>2, <2>5
    <2> QED
      BY <2>4, <2>5
  <1>6. CASE VisitLoad
    <2>1. c[pos].op = "load" /\ ~allocOnly
      BY <1>6 DEF VisitLoad, AtInstruction
    <2>2. CASE On(fn, "access")
      <3>1. InstrumentAccess("logAccess_r")
        BY <1>6, <2>2 DEF VisitLoad
      <3>2. "logAccess_r" \in AccessLogs /\ c[pos].op \in Accesses /\ c[pos].op # "store"
        BY <2>1 DEF AccessLogs, Accesses
      <3> QED
        BY <1>1, <2>1, <2>2, <3>1, <3>2, AccessStep
    <2>3. CASE ~On(fn, "access")
      BY <1>4, <1>6, <2>1, <2>3 DEF VisitLoad
    <2> QED
      BY <2>2, <2>3
  <1>7. CASE VisitCall
    <2> DEFINE log == LogAlloc(c[pos], GetAllocDef(allocDefs, c[pos].type))
               items == IF Allocates(k, allocDefs, c[pos]) THEN <<log>> ELSE <<>>
               w == Inserted(c, pos + 1, items)
               p == pos + 1
    <2>1. c[pos].op = "call" /\ pos <= Len(c)
      BY <1>1, <1>7 DEF VisitCall, AtInstruction
    <2>2. pos \in 1 .. Len(c)
      BY <1>2, <2>1 DEF Under
    <2>3. log \in Instructions
      <3>1. c[pos] \in Instructions
        BY <1>2, <2>2
      <3>2. c[pos] \in Given
        BY <2>1, <3>1, InstructionFacts DEF SourceOps
      <3>3. PICK file \in AllocFiles : allocDefs = LoadAllocDefs(file)
        BY <1>1 DEF PlaceInv
      <3> QED
        BY <3>2, <3>3 DEF Instructions, AllocLogs
    <2>4. AllocLog(c[pos]) = items
      <3>1. Allocates(k, allocDefs, c[pos]) <=>
              On(fn, "alloc") /\ HasAllocDef(allocDefs, c[pos].type)
        BY <1>3, <2>1 DEF Allocates
      <3> QED
        BY <3>1 DEF AllocLog
    <2>5. /\ code' = [code EXCEPT ![fn][blk] = Inserted(@, pos + 1, AllocLog(code[fn][blk][pos]))]
          /\ pos' = p /\ stage' = "instruction"
      BY <1>1, <1>7 DEF VisitCall
    <2>6. code' = [code EXCEPT ![fn][blk] = w]
      BY <2>4, <2>5
    <2> HIDE DEF c, k
    <2>7. Under(k, allocDefs, w, p)
      BY <1>2, <2>1, <2>3, CallIs
    <2>8. w \in Seq(Instructions)
      BY <2>7 DEF Under
    <2>9. blk <= Len(code[fn])
      BY <1>2
    <2> HIDE DEF w, p
    <2> QED
      BY <1>1, <1>2, <2>5, <2>6, <2>7, <2>8, <2>9, LoopIs DEF k
  <1>8. CASE VisitExit
    <2>1. c[pos].op = "exit" /\ pos <= Len(c)
      BY <1>1, <1>8 DEF VisitExit, AtInstruction
    <2> DEFINE items == IF Bracketed(fn) THEN <<Instruction("logExit")>> ELSE <<>>
    <2>2. InsertBefore(items)
      BY <1>8 DEF VisitExit
    <2> HIDE DEF c, k
    <2>3. Under(k, allocDefs, Inserted(c, pos, items), pos + Len(items) + 1)
      BY <1>2, <1>3, <2>1, ExitIs
    <2> HIDE DEF items
    <2> QED
      BY <1>1, <2>2, <2>3, InsertBeforeIs DEF c, k
  <1>9. CASE VisitOther
    BY <1>4, <1>9 DEF VisitOther
  <1> QED
    BY <1>5, <1>6, <1>7, <1>8, <1>9

(* The step into a block, at which the end event is inserted.              *)
LEMMA EnterBlockKeepsBlocks ==
  ASSUME PlaceInv, BlocksInv, EnterBlock
  PROVE  PlaceInv' /\ BlocksInv'
  <1> DEFINE c == code[fn][blk]
             k == Settings(fn)
             end == IF c[Len(c)].op = "ret" /\ Bracketed(fn) THEN FnEvent(fn, FALSE) ELSE <<>>
             w == Inserted(c, Len(c), end)
  <1>1. /\ stage = "block" /\ blk <= Len(code[fn]) /\ Quiet
        /\ stage' = "instruction" /\ pos' = 1
        /\ code' = [code EXCEPT ![fn][blk] = w]
    BY DEF EnterBlock, Quiet
  <1>2. /\ Active /\ fn \in 1 .. NF /\ blk \in 1 .. Len(code[fn])
    BY <1>1, PassDriverAssumption DEF PlaceInv, Active, NF
  <1>3. Fresh(c)
    BY <1>1, <1>2 DEF BlocksInv, Ahead
  <1>4. (Brackets(k) <=> Bracketed(fn)) /\ ("allocOnly" \in k <=> allocOnly)
    BY <1>2, SettingsAre DEF PlaceInv
  <1> HIDE DEF c, k
  <1>5. /\ end \in Seq(Instructions) /\ Len(end) <= 1
        /\ \A q \in 1 .. Len(end) : end[q].op \in {"logExit", "logFnEnd"}
        /\ c[Len(c)].op = "ret" /\ Brackets(k) /\ "allocOnly" \notin k => Len(end) = 1
    <2>1. CASE c[Len(c)].op = "ret" /\ Bracketed(fn)
      <3>1. end = FnEvent(fn, FALSE)
        BY <2>1
      <3>2. /\ end \in Seq(Instructions) /\ Len(end) \in {0, 1}
            /\ ~allocOnly => Len(end) = 1
            /\ \A q \in 1 .. Len(end) : end[q].op \in {"logExit", "logFnEnd"}
        BY <3>1, EventIs, Zenon
      <3> HIDE DEF end
      <3>3. Len(end) <= 1
        BY <3>2
      <3> QED
        BY <1>4, <3>2, <3>3, Zenon
    <2>2. CASE ~(c[Len(c)].op = "ret" /\ Bracketed(fn))
      <3>1. end = <<>>
        BY <2>2
      <3> HIDE DEF end
      <3> QED
        BY <1>4, <2>2, <3>1
    <2> QED
      BY <2>1, <2>2
  <1> HIDE DEF end
  <1>6. Under(k, allocDefs, w, 1)
    BY <1>3, <1>5, EnterIs
  <1>7. w \in Seq(Instructions)
    BY <1>6 DEF Under
  <1> HIDE DEF w
  <1> QED
    BY <1>1, <1>2, <1>6, <1>7, LoopIs DEF k

(* The step into a function.                                               *)
LEMMA EnterFunctionKeepsBlocks ==
  ASSUME PlaceInv, BlocksInv, EnterFunction
  PROVE  PlaceInv' /\ BlocksInv'
  <1> DEFINE begin == IF Bracketed(fn) THEN FnEvent(fn, TRUE) ELSE <<>>
             w == begin \o ArgStores(fn) \o code[fn][1]
  <1>1. /\ stage = "function" /\ fn <= NF /\ Kept(fn) /\ code[fn] # <<>>
        /\ stage' = "block" /\ blk' = 1
        /\ allocOnly' = allocOnly /\ filters' = filters /\ allocDefs' = allocDefs
        /\ module' = module /\ fn' = fn
        /\ code' = [code EXCEPT ![fn][1] = w]
    BY DEF EnterFunction, AtFunction, NF
  <1>2. /\ fn \in 1 .. NF /\ code \in [1 .. NF -> Seq(Seq(Instructions))]
        /\ module.functions[fn].params \in Nat
    BY <1>1, PassDriverAssumption DEF PlaceInv, NF
  <1>3. 1 \in 1 .. Len(code[fn]) /\ Len(code[fn]) \in Nat
    <2>1. code[fn] \in Seq(Seq(Instructions))
      BY <1>2
    <2>2. Len(code[fn]) \in Nat /\ (Len(code[fn]) = 0 <=> code[fn] = <<>>)
      BY <2>1
    <2> QED
      BY <1>1, <2>2
  <1>4. Source(code[fn][1])
    BY <1>1, <1>2, <1>3 DEF BlocksInv, Untouched
  <1>5. Fresh(w)
    BY <1>2, <1>4, EnteredIs
  <1>6. w \in Seq(Instructions)
    BY <1>5 DEF Fresh
  <1> HIDE DEF w
  <1>7. /\ code' \in [1 .. NF -> Seq(Seq(Instructions))]
        /\ \A f \in 1 .. NF : Len(code'[f]) = Len(code[f]) /\ (code'[f] = <<>> <=> code[f] = <<>>)
        /\ \A f \in 1 .. NF : f # fn => code'[f] = code[f]
        /\ \A b \in 1 .. Len(code[fn]) : b # 1 => code'[fn][b] = code[fn][b]
        /\ code'[fn][1] = w
    BY <1>1, <1>2, <1>3, <1>6, OneBlock
  <1>8. NF' = NF /\ \A f : Settings(f)' = Settings(f) /\ Kept(f)' = Kept(f)
    BY <1>1, Frame DEF NF
  <1>9. PlaceInv'
    <2>1. Active' /\ stage' \notin {"start", "load", "skipped", "instruction"}
      BY <1>1 DEF Active
    <2>2. code'[fn'] # <<>> /\ Len(code'[fn']) = Len(code[fn]) /\ Kept(fn)'
      BY <1>1, <1>2, <1>7, <1>8
    <2>3. \E file \in AllocFiles : ~LoadExits(file) /\ allocDefs' = LoadAllocDefs(file)
      BY <1>1 DEF PlaceInv
    <2>4. blk' \in 1 .. Len(code[fn]) + 1
      BY <1>1, <1>3
    <2> QED
      BY <1>1, <1>2, <1>7, <1>8, <2>1, <2>2, <2>3, <2>4 DEF PlaceInv
  <1>10. BlocksInv'
    <2> SUFFICES ASSUME NEW f \in 1 .. NF, NEW b \in 1 .. Len(code'[f])
                 PROVE  /\ Untouched(f)' => Source(code'[f][b])
                        /\ Behind(f, b)' => Complete(Settings(f), allocDefs, code'[f][b])
                        /\ Ahead(f, b)' => Fresh(code'[f][b])
      BY <1>1, <1>8 DEF BlocksInv
    <2>1. b \in 1 .. Len(code[f])
      BY <1>7
    <2>2. /\ Untouched(f) => Source(code[f][b])
          /\ Behind(f, b) => Complete(Settings(f), allocDefs, code[f][b])
      BY <2>1 DEF BlocksInv
    <2>3. Untouched(f)' => Untouched(f) /\ f # fn
      BY <1>1, <1>2, <1>8 DEF Untouched
    <2>4. Behind(f, b)' => Behind(f, b) /\ f # fn
      BY <1>1, <1>2, <1>8, <2>1 DEF Behind, Active
    <2>5. f # fn => code'[f][b] = code[f][b] /\ ~Ahead(f, b)'
      BY <1>1, <1>7 DEF Ahead
    <2>6. f = fn => Fresh(code'[f][b])
      <3>1. CASE f = fn /\ b = 1
        BY <1>5, <1>7, <3>1 DEF w
      <3>2. CASE f = fn /\ b # 1
        <4>1. Source(code[f][b])
          BY <1>1, <2>2, <3>2 DEF Untouched
        <4>2. Fresh(code[f][b])
          BY <4>1, SourceFacts
        <4> QED
          BY <1>7, <2>1, <3>2, <4>2
      <3> QED
        BY <3>1, <3>2
    <2> QED
      BY <2>2, <2>3, <2>4, <2>5, <2>6
  <1> QED
    BY <1>9, <1>10

(* The other steps change no code.                                         *)
LEMMA RestKeepsBlocks ==
  ASSUME PlaceInv, BlocksInv,
         \/ LoadFilter \/ LoadDefinitions \/ SkipFunction \/ LeaveFunction \/ LeaveBlock
         \/ Finish \/ UNCHANGED vars
  PROVE  PlaceInv' /\ BlocksInv'
  <1>1. code' = code /\ module' = module /\ allocOnly' = allocOnly /\ NF' = NF
    BY DEF LoadFilter, LoadDefinitions, SkipFunction, LeaveFunction, LeaveBlock, Finish, vars, NF
  <1>2. ASSUME NEW f \in 1 .. NF
        PROVE  code[f] \in Seq(Seq(Instructions)) /\ Len(code[f]) \in Nat
               /\ (code[f] = <<>> => Len(code[f]) = 0)
    BY DEF PlaceInv
  <1>3. NF \in Nat
    BY PassDriverAssumption DEF PlaceInv, NF
  <1>4. CASE LoadFilter
    <2>1. /\ stage = "start" /\ stage' \in {"load", "skipped"} /\ fn = 1 /\ fn' = 1
      BY <1>4 DEF LoadFilter, PlaceInv
    <2>2. PlaceInv'
      BY <1>1, <2>1 DEF PlaceInv, Active
    <2>3. \A f \in 1 .. NF : /\ Untouched(f) /\ \A b : ~Behind(f, b)' /\ ~Ahead(f, b)'
      BY <2>1 DEF Untouched, Behind, Ahead, Active
    <2>4. BlocksInv'
      BY <1>1, <2>1, <2>3 DEF BlocksInv
    <2> QED
      BY <2>2, <2>4
  <1>5. CASE LoadDefinitions
    <2>1. /\ stage = "load" /\ stage' \in {"died", "function"} /\ fn = 1 /\ fn' = 1
          /\ stage' = "function" =>
               \E file \in AllocFiles : ~LoadExits(file) /\ allocDefs' = LoadAllocDefs(file)
      BY <1>5 DEF LoadDefinitions, PlaceInv
    <2>2. PlaceInv'
      BY <1>1, <2>1 DEF PlaceInv, Active
    <2>3. \A f \in 1 .. NF : /\ Untouched(f) /\ \A b : ~Behind(f, b)' /\ ~Ahead(f, b)'
      BY <2>1 DEF Untouched, Behind, Ahead, Active
    <2>4. BlocksInv'
      BY <1>1, <2>1, <2>3 DEF BlocksInv
    <2> QED
      BY <2>2, <2>4
  <1>6. ASSUME filters' = filters, allocDefs' = allocDefs, PlaceInv',
               \A f \in 1 .. NF : \A b \in 1 .. Len(code[f]) :
                 /\ Untouched(f)' => Untouched(f)
                 /\ Behind(f, b)' =>
                      Behind(f, b) \/ Complete(Settings(f), allocDefs, code[f][b])
                 /\ Ahead(f, b)' => Ahead(f, b)
                 /\ f = fn' /\ b = blk' /\ stage' = "instruction" =>
                      f = fn /\ b = blk /\ stage = "instruction" /\ pos' = pos
        PROVE  PlaceInv' /\ BlocksInv'
    <2>1. \A f : Settings(f)' = Settings(f)
      BY <1>1, <1>6, Frame
    <2> SUFFICES ASSUME NEW f \in 1 .. NF, NEW b \in 1 .. Len(code[f])
                 PROVE  /\ Untouched(f)' => Source(code[f][b])
                        /\ Behind(f, b)' => Complete(Settings(f), allocDefs, code[f][b])
                        /\ Ahead(f, b)' => Fresh(code[f][b])
                        /\ f = fn' /\ b = blk' /\ stage' = "instruction" =>
                             Under(Settings(f), allocDefs, code[f][b], pos')
      BY <1>1, <1>6, <2>1 DEF BlocksInv
    <2> QED
      BY <1>6 DEF BlocksInv
  <1>7. CASE SkipFunction
    <2>1. /\ stage = "function" /\ stage' = "function" /\ fn <= NF
          /\ ~Kept(fn) \/ code[fn] = <<>>
          /\ fn' = fn + 1 /\ filters' = filters /\ allocDefs' = allocDefs
      BY <1>7 DEF SkipFunction, AtFunction, NF
    <2>2. fn \in 1 .. NF /\ fn \in Nat \ {0}
      BY <1>3, <2>1 DEF PlaceInv
    <2>a. fn' \in Nat \ {0} /\ fn' <= NF + 1
      BY <1>3, <2>1, <2>2
    <2>3. PlaceInv'
      BY <1>1, <2>1, <2>2, <2>a DEF PlaceInv, Active
    <2>4. \A f : Kept(f)' = Kept(f)
      BY <1>1, <2>1, Frame
    <2>5. ASSUME NEW f \in 1 .. NF, NEW b \in 1 .. Len(code[f])
          PROVE  /\ Untouched(f)' => Untouched(f)
                 /\ Behind(f, b)' => Behind(f, b)
                 /\ ~Ahead(f, b)' /\ stage' # "instruction"
      <3>1. Untouched(f)' => Untouched(f)
        BY <2>1, <2>2, <2>4 DEF Untouched
      <3>2. f = fn => ~Kept(f)
        <4>1. code[f] # <<>>
          BY <1>2
        <4> QED
          BY <2>1, <4>1
      <3>3. Behind(f, b)' => Behind(f, b)
        BY <2>1, <2>2, <2>4, <3>2 DEF Behind, Active
      <3> QED
        BY <2>1, <3>1, <3>3 DEF Ahead, Active
    <2> QED
      BY <1>6, <2>1, <2>3, <2>5
  <1>8. CASE LeaveFunction
    <2>1. /\ stage = "block" /\ stage' = "function" /\ blk > Len(code[fn])
          /\ fn' = fn + 1 /\ filters' = filters /\ allocDefs' = allocDefs
      BY <1>8 DEF LeaveFunction
    <2>2. fn \in 1 .. NF /\ fn \in Nat \ {0} /\ Kept(fn)
          /\ blk \in 1 .. Len(code[fn]) + 1
      BY <1>3, <2>1 DEF PlaceInv, Active
    <2>a. fn' \in Nat \ {0} /\ fn' <= NF + 1
      BY <1>3, <2>1, <2>2
    <2>3. PlaceInv'
      BY <1>1, <2>1, <2>2, <2>a DEF PlaceInv, Active
    <2>4. \A f : Kept(f)' = Kept(f)
      BY <1>1, <2>1, Frame
    <2>5. ASSUME NEW f \in 1 .. NF, NEW b \in 1 .. Len(code[f])
          PROVE  /\ Untouched(f)' => Untouched(f)
                 /\ Behind(f, b)' => Behind(f, b)
                 /\ ~Ahead(f, b)' /\ stage' # "instruction"
      <3>1. Untouched(f)' => Untouched(f)
        BY <2>1, <2>2, <2>4 DEF Untouched
      <3>2. f = fn => b < blk
        BY <1>2, <2>1, <2>2
      <3>3. Behind(f, b)' => Behind(f, b)
        BY <2>1, <2>2, <2>4, <3>2 DEF Behind, Active
      <3> QED
        BY <2>1, <3>1, <3>3 DEF Ahead, Active
    <2> QED
      BY <1>6, <2>1, <2>3, <2>5
  <1>9. CASE LeaveBlock
    <2>1. /\ stage = "instruction" /\ stage' = "block" /\ pos > Len(code[fn][blk])
          /\ blk' = blk + 1 /\ fn' = fn /\ filters' = filters /\ allocDefs' = allocDefs
      BY <1>9 DEF LeaveBlock
    <2>2. /\ fn \in 1 .. NF /\ blk \in 1 .. Len(code[fn])
          /\ Under(Settings(fn), allocDefs, code[fn][blk], pos)
      BY <2>1, Position
    <2>3. Complete(Settings(fn), allocDefs, code[fn][blk])
      BY <2>1, <2>2, LeaveIs
    <2>4. \A f : Kept(f)' = Kept(f)
      BY <1>1, <2>1, Frame
    <2>5. PlaceInv'
      <3>1. Active /\ Active' /\ blk' \in 1 .. Len(code[fn]) + 1 /\ Kept(fn)'
        BY <1>2, <2>1, <2>2, <2>4 DEF Active, PlaceInv
      <3> QED
        BY <1>1, <2>1, <2>2, <3>1 DEF PlaceInv
    <2>6. ASSUME NEW f \in 1 .. NF, NEW b \in 1 .. Len(code[f])
          PROVE  /\ Untouched(f)' => Untouched(f)
                 /\ Behind(f, b)' =>
                      Behind(f, b) \/ Complete(Settings(f), allocDefs, code[f][b])
                 /\ Ahead(f, b)' => Ahead(f, b)
                 /\ stage' # "instruction"
      <3>1. Untouched(f)' => Untouched(f)
        BY <2>1, <2>2, <2>4 DEF Untouched
      <3>2. Behind(f, b)' => Behind(f, b) \/ (f = fn /\ b = blk)
        BY <1>2, <2>1, <2>2, <2>4 DEF Behind, Active
      <3>3. Ahead(f, b)' => Ahead(f, b)
        BY <1>2, <2>1, <2>2 DEF Ahead, Active
      <3> QED
        BY <2>1, <2>3, <3>1, <3>2, <3>3
    <2> QED
      BY <1>6, <2>1, <2>5, <2>6
  <1>10. CASE Finish \/ UNCHANGED vars
    <2>1. /\ filters' = filters /\ allocDefs' = allocDefs /\ fn' = fn /\ blk' = blk
          /\ pos' = pos
          /\ \/ stage' = stage
             \/ stage = "function" /\ stage' = "done"
      BY <1>10 DEF Finish, vars
    <2>2. \A f : Kept(f)' = Kept(f)
      BY <1>1, <2>1, Frame
    <2>3. PlaceInv'
      <3>1. stage' # stage => ~Active'
        BY <2>1 DEF Active
      <3>2. Kept(fn)' = Kept(fn)
        BY <2>1, <2>2
      <3> QED
        BY <1>1, <2>1, <3>1, <3>2 DEF PlaceInv, Active
    <2>4. ASSUME NEW f \in 1 .. NF, NEW b \in 1 .. Len(code[f])
          PROVE  /\ Untouched(f)' => Untouched(f)
                 /\ Behind(f, b)' => Behind(f, b)
                 /\ Ahead(f, b)' => Ahead(f, b)
                 /\ stage' = "instruction" => stage = "instruction"
      BY <2>1, <2>2 DEF Untouched, Behind, Ahead, Active
    <2> QED
      BY <1>6, <2>1, <2>3, <2>4
  <1> QED
    BY <1>4, <1>5, <1>7, <1>8, <1>9, <1>10

(* Together: every step keeps what is known of the blocks.                 *)
LEMMA NextKeepsBlocks ==
  ASSUME PlaceInv, BlocksInv, ArgsInv, [Next]_vars
  PROVE  PlaceInv' /\ BlocksInv'
  BY RestKeepsBlocks, EnterFunctionKeepsBlocks, EnterBlockKeepsBlocks, VisitKeepsBlocks DEF Next

-----------------------------------------------------------------------------
(* What is inserted in a block, and the begin event.                       *)

(* The copies of parameters are of one type.                               *)
LEMMA CopyType ==
  ASSUME NEW x \in Instructions, x.op = "argstore"
  PROVE  x.type = "i32"
  <1>1. x \notin Given
    <2> SUFFICES ASSUME x \in Given PROVE FALSE
      OBVIOUS
    <2> DEFINE F == Files
    <2>1. x \in [op : SourceOps, arg : Int, type : Types \cup Symbols, file : F,
                 given : Seq(Symbols)]
      BY DEF Given, SourceInstructions
    <2> HIDE DEF F
    <2>2. x.op \in SourceOps
      BY <2>1
    <2> QED
      BY <2>2 DEF SourceOps
  <1>2. x \notin AllocLogs
    <2> SUFFICES ASSUME x \in AllocLogs PROVE FALSE
      OBVIOUS
    <2>1. PICK y \in Given, file \in AllocFiles :
            x = LogAlloc(y, GetAllocDef(LoadAllocDefs(file), y.type))
      BY DEF AllocLogs
    <2>2. x.op = "logAlloc"
      BY <2>1, LogAllocIs DEF Given
    <2> QED
      BY <2>2
  <1> QED
    BY <1>1, <1>2 DEF Instructions, Added

(* What is inserted at an access.                                          *)
LEMMA AccessItems ==
  ASSUME NEW y \in Instructions, y.op \in Accesses, NEW op \in AccessLogs, NEW k
  PROVE  LET function == FunctionFor(k, y.type)
             reload == IF op = "logAccess_r" THEN <<Instruction("reload")>> ELSE <<>>
             log == [y EXCEPT !.op = op, !.type = function]
             items == reload \o IF function = NULL THEN <<>> ELSE <<log>>
         IN /\ items \in Seq(Instructions)
            /\ op # "logAccess_a" => NoArguments(items)
            /\ op = "logAccess_a" /\ y.op = "argstore" =>
                 items = <<log>> /\ log \in Instructions /\ log.op = op /\ log.arg = y.arg
  <1> DEFINE function == FunctionFor(k, y.type)
             r == Instruction("reload")
             log == [y EXCEPT !.op = op, !.type = function]
             reload == IF op = "logAccess_r" THEN <<r>> ELSE <<>>
             logged == IF function = NULL THEN <<>> ELSE <<log>>
             items == reload \o logged
  <1>1. y.type \in Types
    BY InstructionFacts
  <1>2. function \in LogTypes
    BY <1>1, LogFunctionIs
  <1>3. y.op = "argstore" => function # NULL
    <2> SUFFICES ASSUME y.op = "argstore" PROVE function # NULL
      OBVIOUS
    <2>1. y.type = "i32"
      BY CopyType
    <2> QED
      BY <1>1, <2>1, LogFunctionIs
  <1> HIDE DEF function
  <1>a. log = LogOf(y, op, function)
    BY DEF LogOf
  <1> HIDE DEF log
  <1>4. log \in Instructions /\ log.op = op /\ log.arg = y.arg
    BY <1>2, <1>a, LogIs
  <1>5. r \in Instructions /\ r.op = "reload"
    <2>1. "reload" \in InsertedOps \ {"logAlloc"}
      BY DEF InsertedOps
    <2> QED
      BY <2>1, InstructionIs
  <1> HIDE DEF log, r
  <1>6. /\ reload \in Seq(Instructions) /\ Len(reload) \in Nat
        /\ \A q \in 1 .. Len(reload) : reload[q].op = "reload"
    BY <1>5
  <1>7. /\ logged \in Seq(Instructions) /\ Len(logged) \in Nat
        /\ \A q \in 1 .. Len(logged) : logged[q].op = op
    BY <1>4
  <1> HIDE DEF reload, logged
  <1>8. /\ reload \o logged \in Seq(Instructions)
        /\ Len(reload \o logged) = Len(reload) + Len(logged)
        /\ \A q \in 1 .. Len(reload) + Len(logged) : (reload \o logged)[q] =
             IF q <= Len(reload) THEN reload[q] ELSE logged[q - Len(reload)]
    BY <1>6, <1>7, ConcatProperties, Zenon
  <1> HIDE DEF items
  <1>9. /\ items \in Seq(Instructions) /\ Len(items) = Len(reload) + Len(logged)
        /\ \A q \in 1 .. Len(reload) + Len(logged) : items[q] =
             IF q <= Len(reload) THEN reload[q] ELSE logged[q - Len(reload)]
    BY <1>8 DEF items
  <1>10. ASSUME op # "logAccess_a", NEW q \in 1 .. Len(items)
         PROVE  items[q].op # "logAccess_a"
    <2>1. q \in 1 .. Len(reload) \/ q - Len(reload) \in 1 .. Len(logged)
      BY <1>6, <1>7, <1>9
    <2>2. CASE q \in 1 .. Len(reload)
      <3>1. items[q] = reload[q]
        BY <1>6, <1>7, <1>9, <2>2
      <3> QED
        BY <1>6, <2>2, <3>1
    <2>3. CASE ~(q <= Len(reload)) /\ q - Len(reload) \in 1 .. Len(logged)
      <3>1. items[q] = logged[q - Len(reload)]
        BY <1>6, <1>7, <1>9, <2>3
      <3> QED
        BY <1>7, <1>10, <2>3, <3>1
    <2> QED
      BY <1>6, <1>7, <2>1, <2>2, <2>3
  <1>11. op = "logAccess_a" /\ y.op = "argstore" => items = <<log>>
    <2> SUFFICES ASSUME op = "logAccess_a", y.op = "argstore" PROVE items = <<log>>
      OBVIOUS
    <2>1. reload = <<>> /\ logged = <<log>>
      BY <1>3 DEF reload, logged
    <2>2. <<>> \o logged = logged
      BY <1>7, ConcatEmptySeq, Zenon
    <2> QED
      BY <2>1, <2>2 DEF items
  <1>12. op # "logAccess_a" => NoArguments(items)
    BY <1>10 DEF NoArguments
  <1> QED
    BY <1>4, <1>9, <1>11, <1>12 DEF items, reload, logged, log, r, function

(* At an access, or the compiler has ended.                                *)
LEMMA AccessShape ==
  ASSUME PlaceInv, BlocksInv, stage = "instruction", pos <= Len(code[fn][blk]),
         code[fn][blk][pos].op \in Accesses, NEW op \in AccessLogs, InstrumentAccess(op)
  PROVE  \/ stage' = "died" /\ code' = code
         \/ \E items \in Seq(Instructions) :
              /\ InsertBefore(items)
              /\ op # "logAccess_a" => NoArguments(items)
              /\ op = "logAccess_a" /\ code[fn][blk][pos].op = "argstore" =>
                   \E log \in Instructions :
                     items = <<log>> /\ log.op = op /\ log.arg = code[fn][blk][pos].arg
  <1> DEFINE y == code[fn][blk][pos]
             k == Settings(fn)
             function == FunctionFor(k, y.type)
             reload == IF op = "logAccess_r" THEN <<Instruction("reload")>> ELSE <<>>
             log == [y EXCEPT !.op = op, !.type = function]
             items == reload \o IF function = NULL THEN <<>> ELSE <<log>>
  <1>1. /\ fn \in 1 .. NF /\ y \in Instructions
    <2>1. Under(k, allocDefs, code[fn][blk], pos) /\ fn \in 1 .. NF
      BY Position
    <2> QED
      BY <2>1, AtPosition
  <1>2. "tracepoint" \in k <=> module.functions[fn].kind = "tracepoint"
    BY <1>1, SettingsAre DEF PlaceInv
  <1>3. CASE y.type = "wide"
    BY <1>3 DEF InstrumentAccess
  <1>4. CASE y.type # "wide"
    <2>1. getLogFunction(y.type, module.functions[fn].kind = "tracepoint") = function
      <3>1. ("tracepoint" \in k) = (module.functions[fn].kind = "tracepoint")
        BY <1>2
      <3> HIDE DEF k, y
      <3> QED
        BY <3>1, Zenon DEF FunctionFor
    <2>2. InsertBefore(items)
      BY <1>4, <2>1 DEF InstrumentAccess
    <2>3. y.op \in Accesses
      OBVIOUS
    <2> HIDE DEF y, k
    <2>4. /\ items \in Seq(Instructions)
          /\ op # "logAccess_a" => NoArguments(items)
          /\ op = "logAccess_a" /\ y.op = "argstore" =>
               items = <<log>> /\ log \in Instructions /\ log.op = op /\ log.arg = y.arg
      BY <1>1, <2>3, AccessItems
    <2> HIDE DEF items, log
    <2> QED
      BY <2>2, <2>4 DEF y
  <1> QED
    BY <1>3, <1>4

(* What the steps at an instruction have in common: something is inserted, *)
(* no log call of an argument unless one waits, and the loop goes on.      *)
Waits == code[fn][blk][pos].op \in {"store", "argstore"} /\ Stored \in argLogSet

Shape(i, items) ==
  /\ items \in Seq(Instructions) /\ i \in {pos, pos + 1}
  /\ code' = [code EXCEPT ![fn][blk] = Inserted(code[fn][blk], i, items)]
  /\ stage' = "instruction" /\ pos' \in Nat /\ pos' > pos
  /\ code[fn][blk][pos].op \notin {"load", "store", "argstore", "call", "exit"} =>
       items = <<>> /\ pos' = pos + 1
  /\ On(fn, "function") /\ ~Waits => NoArguments(items) /\ argLogSet' = argLogSet
  /\ On(fn, "function") /\ Waits /\ code[fn][blk][pos].op = "argstore" =>
       /\ i = pos /\ pos' = pos + 2 /\ argLogSet' = argLogSet \ {Stored}
       /\ \E log \in Instructions :
            items = <<log>> /\ log.op = "logAccess_a" /\ log.arg = code[fn][blk][pos].arg

(* It is so, if not only allocations are logged.                           *)
LEMMA VisitShape ==
  ASSUME PlaceInv, BlocksInv, ~allocOnly,
         VisitStore \/ VisitLoad \/ VisitCall \/ VisitExit \/ VisitOther
  PROVE  (stage' = "died" /\ code' = code) \/ \E i, items : Shape(i, items)
  <1> DEFINE c == code[fn][blk]
             y == c[pos]
  <1>1. stage = "instruction" /\ pos <= Len(c)
    BY DEF VisitStore, VisitLoad, VisitCall, VisitExit, VisitOther, AtInstruction
  <1>2. /\ c \in Seq(Instructions) /\ pos \in Nat /\ y \in Instructions /\ y.arg \in Int
        /\ fn \in 1 .. NF
    <2>1. Under(Settings(fn), allocDefs, c, pos) /\ fn \in 1 .. NF
      BY <1>1, Position
    <2>2. c \in Seq(Instructions) /\ pos \in Nat /\ y \in Instructions
      BY <1>1, <2>1 DEF Under
    <2> QED
      BY <2>1, <2>2, InstructionFacts
  <1>3. ASSUME NEW items \in Seq(Instructions), InsertBefore(items)
        PROVE  /\ code' = [code EXCEPT ![fn][blk] = Inserted(c, pos, items)]
               /\ stage' = "instruction" /\ pos' \in Nat /\ pos' > pos
               /\ pos' = pos + Len(items) + 1
    <2>1. Len(items) \in Nat
      OBVIOUS
    <2>2. pos' = pos + Len(items) + 1
      BY <1>3 DEF InsertBefore
    <2> QED
      BY <1>1, <1>2, <1>3, <2>1, <2>2 DEF InsertBefore
  <1>4. <<>> \in Seq(Instructions) /\ Len(<<>>) = 0 /\ NoArguments(<<>>)
    BY DEF NoArguments
  <1>5. CASE VisitStore
    <2>1. y.op \in {"store", "argstore"} /\ argLogSet' = Consumed
      BY <1>5 DEF VisitStore, AtInstruction
    <2>2. PICK isArg \in IsArg :
            IF (On(fn, "function") /\ isArg) \/ On(fn, "access")
            THEN InstrumentAccess(IF isArg THEN "logAccess_a" ELSE "logAccess_w")
            ELSE InsertBefore(<<>>)
      BY <1>5 DEF VisitStore
    <2>3. On(fn, "function") => isArg = (Stored \in argLogSet)
      BY <2>2 DEF IsArg
    <2>4. On(fn, "function") => argLogSet' = argLogSet \ {Stored}
      BY <2>1 DEF Consumed
    <2>5. Waits <=> Stored \in argLogSet
      BY <2>1 DEF Waits
    <2>6. CASE (On(fn, "function") /\ isArg) \/ On(fn, "access")
      <3> DEFINE op == IF isArg THEN "logAccess_a" ELSE "logAccess_w"
      <3>1. op \in AccessLogs /\ InstrumentAccess(op) /\ y.op \in Accesses
        BY <2>1, <2>2, <2>6 DEF AccessLogs, Accesses
      <3>2. /\ On(fn, "function") /\ Waits => op = "logAccess_a"
            /\ On(fn, "function") /\ ~Waits => op # "logAccess_a"
        BY <2>3, <2>5
      <3> HIDE DEF op
      <3>3. CASE stage' = "died" /\ code' = code
        BY <3>3
      <3>4. CASE ~(stage' = "died" /\ code' = code)
        <4>1. PICK items \in Seq(Instructions) :
                /\ InsertBefore(items)
                /\ op # "logAccess_a" => NoArguments(items)
                /\ op = "logAccess_a" /\ y.op = "argstore" =>
                     \E log \in Instructions : items = <<log>> /\ log.op = op /\ log.arg = y.arg
          BY <1>1, <3>1, <3>4, AccessShape
        <4>2. On(fn, "function") /\ Waits /\ y.op = "argstore" =>
                /\ pos' = pos + 2
                /\ \E log \in Instructions :
                     items = <<log>> /\ log.op = "logAccess_a" /\ log.arg = y.arg
          <5> SUFFICES ASSUME On(fn, "function"), Waits, y.op = "argstore"
                       PROVE  /\ pos' = pos + 2
                              /\ \E log \in Instructions :
                                   items = <<log>> /\ log.op = "logAccess_a" /\ log.arg = y.arg
            OBVIOUS
          <5>1. PICK log \in Instructions :
                  items = <<log>> /\ log.op = "logAccess_a" /\ log.arg = y.arg
            BY <3>2, <4>1
          <5>2. Len(items) = 1
            BY <5>1
          <5>3. pos' = pos + Len(items) + 1
            BY <1>3, <4>1
          <5> QED
            BY <1>2, <5>1, <5>2, <5>3
        <4>3. On(fn, "function") /\ ~Waits => NoArguments(items) /\ argLogSet' = argLogSet
          BY <2>4, <2>5, <3>2, <4>1
        <4>4. Shape(pos, items)
          BY <1>3, <2>1, <2>4, <4>1, <4>2, <4>3 DEF Shape
        <4> QED
          BY <4>4
      <3> QED
        BY <3>3, <3>4
    <2>7. CASE ~((On(fn, "function") /\ isArg) \/ On(fn, "access"))
      <3>1. InsertBefore(<<>>)
        BY <2>2, <2>7
      <3>2. On(fn, "function") => ~Waits /\ argLogSet' = argLogSet
        BY <2>3, <2>4, <2>5, <2>7
      <3>3. Shape(pos, <<>>)
        BY <1>3, <1>4, <2>1, <3>1, <3>2 DEF Shape
      <3> QED
        BY <3>3
    <2> QED
      BY <2>6, <2>7
  <1>6. CASE VisitLoad
    <2>1. y.op = "load" /\ argLogSet' = argLogSet
      BY <1>6 DEF VisitLoad, AtInstruction
    <2>2. ~Waits
      BY <2>1 DEF Waits
    <2>3. CASE On(fn, "access") /\ ~(stage' = "died" /\ code' = code)
      <3>1. InstrumentAccess("logAccess_r")
        BY <1>6, <2>3 DEF VisitLoad
      <3>2. "logAccess_r" \in AccessLogs /\ y.op \in Accesses
        BY <2>1 DEF AccessLogs, Accesses
      <3>3. PICK items \in Seq(Instructions) : InsertBefore(items) /\ NoArguments(items)
        BY <1>1, <2>3, <3>1, <3>2, AccessShape
      <3>4. Shape(pos, items)
        BY <1>3, <2>1, <2>2, <3>3 DEF Shape
      <3> QED
        BY <3>4
    <2>4. CASE ~On(fn, "access")
      <3>1. InsertBefore(<<>>)
        BY <1>6, <2>4 DEF VisitLoad
      <3>2. Shape(pos, <<>>)
        BY <1>3, <1>4, <2>1, <2>2, <3>1 DEF Shape
      <3> QED
        BY <3>2
    <2> QED
      BY <2>3, <2>4
  <1>7. CASE VisitCall
    <2> DEFINE log == LogAlloc(y, GetAllocDef(allocDefs, y.type))
               items == AllocLog(y)
    <2>1. /\ y.op = "call" /\ argLogSet' = argLogSet
          /\ code' = [code EXCEPT ![fn][blk] = Inserted(c, pos + 1, items)]
          /\ pos' = pos + 1 /\ stage' = "instruction"
      BY <1>1, <1>7 DEF VisitCall, AtInstruction
    <2>2. y \in Given
      BY <1>2, <2>1, InstructionFacts DEF SourceOps
    <2>3. log \in Instructions /\ log.op = "logAlloc"
      <3>1. PICK file \in AllocFiles : allocDefs = LoadAllocDefs(file)
        BY <1>1 DEF PlaceInv
      <3>2. log \in Instructions
        BY <2>2, <3>1 DEF Instructions, AllocLogs
      <3>3. log.op = "logAlloc"
        BY <2>2, LogAllocIs DEF Given
      <3> QED
        BY <3>2, <3>3
    <2>4. items = <<>> \/ items = <<log>>
      BY DEF AllocLog
    <2> HIDE DEF items, log
    <2>5. items \in Seq(Instructions) /\ NoArguments(items)
      <3>1. <<log>> \in Seq(Instructions) /\ Len(<<log>>) = 1 /\ <<log>>[1] = log
        BY <2>3
      <3>2. NoArguments(<<log>>)
        BY <2>3, <3>1 DEF NoArguments
      <3> QED
        BY <1>4, <2>4, <3>1, <3>2
    <2>6. ~Waits
      BY <2>1 DEF Waits
    <2>7. Shape(pos + 1, items)
      BY <1>2, <2>1, <2>5, <2>6 DEF Shape
    <2> QED
      BY <2>7
  <1>8. CASE VisitExit
    <2>1. y.op = "exit" /\ argLogSet' = argLogSet
      BY <1>8 DEF VisitExit, AtInstruction
    <2>2. ~Waits
      BY <2>1 DEF Waits
    <2> DEFINE log == Instruction("logExit")
               items == IF Bracketed(fn) THEN <<log>> ELSE <<>>
    <2>3. InsertBefore(items)
      BY <1>8 DEF VisitExit
    <2>4. log \in Instructions /\ log.op = "logExit"
      <3>1. "logExit" \in InsertedOps \ {"logAlloc"}
        BY DEF InsertedOps, Logs
      <3> QED
        BY <3>1, InstructionIs
    <2> HIDE DEF log
    <2>5. items \in Seq(Instructions) /\ NoArguments(items)
      <3>1. <<log>> \in Seq(Instructions) /\ Len(<<log>>) = 1 /\ <<log>>[1] = log
        BY <2>4
      <3>2. NoArguments(<<log>>)
        BY <2>4, <3>1 DEF NoArguments
      <3> QED
        BY <1>4, <3>1, <3>2
    <2> HIDE DEF items
    <2>6. Shape(pos, items)
      BY <1>3, <2>1, <2>2, <2>3, <2>5 DEF Shape
    <2> QED
      BY <2>6
  <1>9. CASE VisitOther
    <2>1. /\ y.op \notin {"call", "exit", "store", "argstore", "load"} /\ InsertBefore(<<>>)
          /\ argLogSet' = argLogSet
      BY <1>9 DEF VisitOther
    <2>2. ~Waits
      BY <2>1 DEF Waits
    <2>3. pos' = pos + 1
      <3>1. pos' = pos + Len(<<>>) + 1
        BY <2>1 DEF InsertBefore
      <3> QED
        BY <1>2, <1>4, <3>1
    <2>4. Shape(pos, <<>>)
      BY <1>3, <1>4, <2>1, <2>2, <2>3 DEF Shape
    <2> QED
      BY <2>4
  <1> QED
    BY <1>5, <1>6, <1>7, <1>8, <1>9

(* Nothing is inserted.                                                    *)
LEMMA InsertedNone ==
  ASSUME NEW c \in Seq(Instructions), NEW i \in 1 .. Len(c) + 1
  PROVE  Inserted(c, i, <<>>) = c
  <1> DEFINE w == Inserted(c, i, <<>>)
             items == <<>>
  <1>1. items \in Seq(Instructions) /\ Len(items) = 0 /\ Len(c) \in Nat
    OBVIOUS
  <1>2. /\ Inserted(c, i, items) \in Seq(Instructions)
        /\ Len(Inserted(c, i, items)) = Len(c) + Len(items)
        /\ \A q \in 1 .. i - 1 : Inserted(c, i, items)[q] = c[q]
        /\ \A q \in 1 .. Len(items) : Inserted(c, i, items)[i - 1 + q] = items[q]
        /\ \A q \in i .. Len(c) : Inserted(c, i, items)[q + Len(items)] = c[q]
    BY <1>1, InsertedIs, Zenon
  <1>3. w = Inserted(c, i, items)
    OBVIOUS
  <1> HIDE DEF w, items
  <1>4. w \in Seq(Instructions) /\ Len(w) = Len(c)
    BY <1>1, <1>2, <1>3
  <1>5. \A q \in 1 .. Len(w) : w[q] = c[q]
    <2> TAKE q \in 1 .. Len(w)
    <2>1. q \in 1 .. i - 1 \/ q \in i .. Len(c)
      BY <1>1, <1>4
    <2>2. CASE q \in 1 .. i - 1
      BY <1>2, <1>3, <2>2
    <2>3. CASE q \in i .. Len(c)
      <3>1. w[q + Len(items)] = c[q]
        BY <1>2, <1>3, <2>3
      <3> QED
        BY <1>1, <2>3, <3>1
    <2> QED
      BY <2>1, <2>2, <2>3
  <1>6. w = c
    BY <1>4, <1>5, SeqEqual
  <1> QED
    BY <1>6 DEF w

(* Something is inserted after the first instruction.                      *)
LEMMA InsertedHead ==
  ASSUME NEW c \in Seq(Instructions), c # <<>>, NEW items \in Seq(Instructions),
         NEW i \in 1 .. Len(c) + 1, i > 1 \/ items = <<>>
  PROVE  Inserted(c, i, items)[1] = c[1]
  <1>1. CASE items = <<>>
    BY <1>1, InsertedNone
  <1>2. CASE i > 1
    <2>1. /\ Inserted(c, i, items) \in Seq(Instructions)
          /\ Len(Inserted(c, i, items)) = Len(c) + Len(items)
          /\ \A q \in 1 .. i - 1 : Inserted(c, i, items)[q] = c[q]
          /\ \A q \in 1 .. Len(items) : Inserted(c, i, items)[i - 1 + q] = items[q]
          /\ \A q \in i .. Len(c) : Inserted(c, i, items)[q + Len(items)] = c[q]
      BY InsertedIs, Zenon
    <2>2. 1 \in 1 .. i - 1
      BY <1>2
    <2> QED
      BY <2>1, <2>2
  <1> QED
    BY <1>1, <1>2

(* The settings of the pass, and the functions entered, as they were.      *)
Same == UNCHANGED <<allocOnly, filters, module>>

(* A step that inserts something after the begin event keeps it.           *)
LEMMA BeginKept ==
  ASSUME PlaceInv, BlocksInv, BeginInv, Active, Quiet, Active', blk <= Len(code[fn]),
         NEW items \in Seq(Instructions), NEW i \in 1 .. Len(code[fn][blk]) + 1,
         code' = [code EXCEPT ![fn][blk] = Inserted(code[fn][blk], i, items)],
         code[fn][blk][1].op \in {"logInit", "logFnBegin"} => i > 1 \/ items = <<>>
  PROVE  BeginInv'
  <1> DEFINE c == code[fn][blk]
             w == Inserted(c, i, items)
  <1>1. fn \in 1 .. NF /\ blk \in 1 .. Len(code[fn])
    BY PassDriverAssumption DEF PlaceInv, NF
  <1>2. c \in Seq(Instructions) /\ Terminal(c)
    <2>1. Ahead(fn, blk) \/ stage = "instruction"
      BY DEF Ahead, Active
    <2>2. Fresh(c) \/ Under(Settings(fn), allocDefs, c, pos)
      BY <1>1, <2>1 DEF BlocksInv
    <2> QED
      BY <2>2 DEF Fresh, Under
  <1>3. w \in Seq(Instructions)
    BY <1>2, InsertedIs
  <1>4. code \in [1 .. NF -> Seq(Seq(Instructions))]
    BY DEF PlaceInv
  <1>5. code' = [code EXCEPT ![fn][blk] = w]
    OBVIOUS
  <1>6. c[1].op \in {"logInit", "logFnBegin"} => w[1] = c[1]
    <2>1. c # <<>>
      BY <1>2 DEF Terminal
    <2> HIDE DEF c
    <2> QED
      BY <1>2, <2>1, InsertedHead DEF c
  <1>7. /\ code' \in [1 .. NF -> Seq(Seq(Instructions))]
        /\ \A f \in 1 .. NF : Len(code'[f]) = Len(code[f]) /\ (code'[f] = <<>> <=> code[f] = <<>>)
        /\ \A f \in 1 .. NF : f # fn => code'[f] = code[f]
        /\ \A b \in 1 .. Len(code[fn]) : b # blk => code'[fn][b] = code[fn][b]
        /\ code'[fn][blk] = w
    BY <1>1, <1>3, <1>4, OneBlock
  <1> HIDE DEF w, c
  <1>8. /\ NF' = NF /\ fn' = fn /\ allocOnly' = allocOnly
        /\ \A f : Bracketed(f)' = Bracketed(f) /\ Kept(f)' = Kept(f)
    BY Frame DEF Quiet, NF
  <1> SUFFICES ASSUME NEW f \in 1 .. NF, Entered(f)', Bracketed(f), ~allocOnly
               PROVE  code'[f][1][1].op \in {"logInit", "logFnBegin"}
    BY <1>8 DEF BeginInv
  <1>9. Entered(f)
    BY <1>7, <1>8 DEF Entered
  <1>10. code[f][1][1].op \in {"logInit", "logFnBegin"}
    BY <1>9 DEF BeginInv
  <1>11. CASE f = fn /\ blk = 1
    BY <1>6, <1>7, <1>10, <1>11 DEF c
  <1>12. CASE f # fn
    BY <1>7, <1>10, <1>12
  <1>13. CASE f = fn /\ blk # 1
    <2>1. 1 \in 1 .. Len(code[fn])
      BY <1>1
    <2> QED
      BY <1>7, <1>10, <1>13, <2>1
  <1> QED
    BY <1>11, <1>12, <1>13

(* A step that changes no code, and enters no function.                    *)
LEMMA BeginSame ==
  ASSUME BeginInv, Same, code' = code, \A f \in 1 .. NF : Entered(f)' => Entered(f)
  PROVE  BeginInv'
  <1>1. NF' = NF /\ allocOnly' = allocOnly /\ \A f : Bracketed(f)' = Bracketed(f)
    BY Frame DEF Same, NF
  <1> QED
    BY <1>1 DEF BeginInv

(* Where functions are not entered.                                        *)
LEMMA EnteredSame ==
  ASSUME PlaceInv, BlocksInv,
         \/ SkipFunction \/ LeaveFunction \/ LeaveBlock \/ Finish \/ UNCHANGED vars
  PROVE  Same /\ code' = code /\ \A f \in 1 .. NF : Entered(f)' => Entered(f)
  <1>1. Same /\ code' = code
    BY DEF SkipFunction, LeaveFunction, LeaveBlock, Finish, vars, Same
  <1>2. \A f : Kept(f)' = Kept(f)
    BY <1>1, Frame DEF Same
  <1>3. fn \in Nat \ {0}
    BY DEF PlaceInv
  <1> SUFFICES ASSUME NEW f \in 1 .. NF, Entered(f)' PROVE Entered(f)
    BY <1>1
  <1>4. CASE SkipFunction
    <2>1. fn' = fn + 1 /\ stage' = "function" /\ (~Kept(fn) \/ code[fn] = <<>>)
      BY <1>4 DEF SkipFunction, AtFunction
    <2> QED
      BY <1>1, <1>2, <1>3, <2>1 DEF Entered, Active
  <1>5. CASE LeaveFunction
    <2>1. fn' = fn + 1 /\ stage' = "function" /\ stage = "block"
      BY <1>5 DEF LeaveFunction
    <2> QED
      BY <1>1, <1>2, <1>3, <2>1 DEF Entered, Active
  <1>6. CASE LeaveBlock
    <2>1. fn' = fn /\ stage = "instruction"
      BY <1>6 DEF LeaveBlock
    <2> QED
      BY <1>1, <1>2, <1>3, <2>1 DEF Entered, Active
  <1>7. CASE Finish
    <2>1. fn' = fn /\ stage' = "done"
      BY <1>7 DEF Finish
    <2> QED
      BY <1>1, <1>2, <1>3, <2>1 DEF Entered, Active
  <1>8. CASE UNCHANGED vars
    BY <1>1, <1>2, <1>8 DEF Entered, Active, vars
  <1> QED
    BY <1>4, <1>5, <1>6, <1>7, <1>8

(* At an instruction: what is inserted is after the begin event.           *)
LEMMA ShapeFacts ==
  ASSUME PlaceInv, BlocksInv, stage = "instruction", pos <= Len(code[fn][blk]),
         NEW i, NEW items, Shape(i, items)
  PROVE  /\ fn \in 1 .. NF /\ blk \in 1 .. Len(code[fn])
         /\ code[fn][blk] \in Seq(Instructions) /\ pos \in 1 .. Len(code[fn][blk])
         /\ i \in 1 .. Len(code[fn][blk]) + 1 /\ items \in Seq(Instructions)
         /\ code[fn][blk][1].op \in {"logInit", "logFnBegin"} => i > 1 \/ items = <<>>
  <1> DEFINE c == code[fn][blk]
  <1>1. /\ fn \in 1 .. NF /\ blk \in 1 .. Len(code[fn])
        /\ c \in Seq(Instructions) /\ pos \in 1 .. Len(c) /\ Len(c) \in Nat
    BY Position DEF Under
  <1>2. i \in {pos, pos + 1} /\ items \in Seq(Instructions)
    BY DEF Shape
  <1>3. i \in 1 .. Len(c) + 1
    BY <1>1, <1>2
  <1>4. c[pos].op \in {"logInit", "logFnBegin"} => items = <<>>
    BY DEF Shape
  <1>5. i > 1 \/ pos = 1
    BY <1>1, <1>2
  <1> QED
    BY <1>1, <1>2, <1>3, <1>4, <1>5

(* The loop has come to an instruction.                                    *)
Visits == VisitStore \/ VisitLoad \/ VisitCall \/ VisitExit \/ VisitOther

(* At it, the loops over functions and blocks stay where they are.         *)
LEMMA VisitsAre ==
  ASSUME Visits
  PROVE  stage = "instruction" /\ pos <= Len(code[fn][blk]) /\ Quiet
  BY DEF Visits, VisitStore, VisitLoad, VisitCall, VisitExit, VisitOther, AtInstruction, Quiet

(* Every step keeps the begin events first.                                *)
LEMMA NextKeepsBegin ==
  ASSUME PlaceInv, BlocksInv, BeginInv, [Next]_vars
  PROVE  BeginInv'
  <1>1. fn \in Nat \ {0}
    BY DEF PlaceInv
  <1>2. CASE \/ SkipFunction \/ LeaveFunction \/ LeaveBlock \/ Finish \/ UNCHANGED vars
    BY <1>2, EnteredSame, BeginSame
  <1>3. CASE LoadFilter \/ LoadDefinitions
    <2>1. fn' = 1 /\ ~Active'
      BY <1>3 DEF LoadFilter, LoadDefinitions, PlaceInv, Active
    <2>2. \A f \in 1 .. NF' : ~Entered(f)'
      BY <2>1 DEF Entered
    <2> QED
      BY <2>2 DEF BeginInv
  <1>4. CASE EnterFunction
    <2> DEFINE begin == IF Bracketed(fn) THEN FnEvent(fn, TRUE) ELSE <<>>
               w == begin \o ArgStores(fn) \o code[fn][1]
    <2>1. /\ stage = "function" /\ fn <= NF /\ code[fn] # <<>> /\ fn' = fn /\ Same
          /\ code' = [code EXCEPT ![fn][1] = w]
      BY <1>4 DEF EnterFunction, AtFunction, NF, Same
    <2>2. /\ fn \in 1 .. NF /\ code \in [1 .. NF -> Seq(Seq(Instructions))]
          /\ module.functions[fn].params \in Nat /\ 1 \in 1 .. Len(code[fn])
      <3>1. /\ fn \in 1 .. NF /\ code \in [1 .. NF -> Seq(Seq(Instructions))]
            /\ module.functions[fn].params \in Nat
        BY <2>1, PassDriverAssumption DEF PlaceInv, NF
      <3>2. code[fn] \in Seq(Seq(Instructions))
        BY <3>1
      <3>3. Len(code[fn]) \in Nat /\ (Len(code[fn]) = 0 <=> code[fn] = <<>>)
        BY <3>2
      <3> QED
        BY <2>1, <3>1, <3>3
    <2>3. Source(code[fn][1])
      BY <2>1, <2>2 DEF BlocksInv, Untouched
    <2>4. /\ Fresh(w)
          /\ Bracketed(fn) /\ ~allocOnly => w[1].op \in {"logInit", "logFnBegin"}
      BY <2>2, <2>3, EnteredIs
    <2>5. w \in Seq(Instructions)
      BY <2>4 DEF Fresh
    <2> HIDE DEF w
    <2>6. /\ \A f \in 1 .. NF : Len(code'[f]) = Len(code[f]) /\ (code'[f] = <<>> <=> code[f] = <<>>)
          /\ \A f \in 1 .. NF : f # fn => code'[f] = code[f]
          /\ code'[fn][1] = w
      BY <2>1, <2>2, <2>5, OneBlock
    <2>7. /\ NF' = NF /\ allocOnly' = allocOnly
          /\ \A f : Bracketed(f)' = Bracketed(f) /\ Kept(f)' = Kept(f)
      BY <2>1, Frame DEF Same, NF
    <2> SUFFICES ASSUME NEW f \in 1 .. NF, Entered(f)', Bracketed(f), ~allocOnly
                 PROVE  code'[f][1][1].op \in {"logInit", "logFnBegin"}
      BY <2>7 DEF BeginInv
    <2>8. CASE f = fn
      BY <2>4, <2>6, <2>8
    <2>9. CASE f # fn
      <3>1. Entered(f)
        BY <2>1, <2>6, <2>7, <2>9 DEF Entered
      <3> QED
        BY <2>6, <2>9, <3>1 DEF BeginInv
    <2> QED
      BY <2>8, <2>9
  <1>5. CASE EnterBlock
    <2> DEFINE c == code[fn][blk]
               end == IF c[Len(c)].op = "ret" /\ Bracketed(fn) THEN FnEvent(fn, FALSE) ELSE <<>>
    <2>1. /\ stage = "block" /\ blk <= Len(code[fn]) /\ Quiet /\ stage' = "instruction"
          /\ code' = [code EXCEPT ![fn][blk] = Inserted(c, Len(c), end)]
      BY <1>5 DEF EnterBlock, Quiet
    <2>2. Active /\ Active' /\ fn \in 1 .. NF /\ blk \in 1 .. Len(code[fn])
      BY <2>1, PassDriverAssumption DEF PlaceInv, Active, NF
    <2>3. Fresh(c)
      BY <2>1, <2>2 DEF BlocksInv, Ahead
    <2>4. c \in Seq(Instructions) /\ Len(c) \in Nat \ {0}
          /\ (c[1].op \in {"logInit", "logFnBegin"} => Len(c) > 1)
      <3>1. /\ c \in Seq(Instructions) /\ c # <<>>
            /\ c[Len(c)].op \in {"ret", "br", "unreachable"}
        BY <2>3 DEF Fresh, Terminal
      <3>2. Len(c) \in Nat \ {0}
        BY <3>1
      <3> DEFINE l == Len(c)
      <3>4. l = 1 \/ l > 1
        <4>1. l \in Nat \ {0}
          BY <3>2
        <4> HIDE DEF l
        <4> QED
          BY <4>1
      <3> HIDE DEF c
      <3>3. Len(c) = 1 => c[1].op \in {"ret", "br", "unreachable"}
        BY <3>1
      <3> QED
        BY <3>1, <3>2, <3>3, <3>4
    <2>5. end \in Seq(Instructions)
      <3>1. FnEvent(fn, FALSE) \in Seq(Instructions)
        BY EventIs, Zenon
      <3>3. <<>> \in Seq(Instructions)
        OBVIOUS
      <3>2. end = FnEvent(fn, FALSE) \/ end = <<>>
        OBVIOUS
      <3> HIDE DEF end
      <3> QED
        BY <3>1, <3>2, <3>3
    <2>6. Len(c) \in 1 .. Len(c) + 1
      BY <2>4
    <2> HIDE DEF end
    <2> QED
      BY <2>1, <2>2, <2>4, <2>5, <2>6, BeginKept
  <1>6. CASE Visits
    <2>1. stage = "instruction" /\ pos <= Len(code[fn][blk]) /\ Quiet
      BY <1>6, VisitsAre
    <2>2. CASE allocOnly
      <3>1. allocOnly' = allocOnly
        BY <2>1 DEF Quiet
      <3> QED
        BY <2>2, <3>1 DEF BeginInv
    <2>3. CASE ~allocOnly
      <3>1. CASE stage' = "died" /\ code' = code
        <4>1. Same /\ fn' = fn /\ \A f : Kept(f)' = Kept(f)
          BY <2>1, Frame DEF Quiet, Same
        <4>2. \A f \in 1 .. NF : Entered(f)' => Entered(f)
          BY <3>1, <4>1 DEF Entered, Active
        <4> QED
          BY <3>1, <4>1, <4>2, BeginSame
      <3>2. ASSUME NEW i, NEW items, Shape(i, items) PROVE BeginInv'
        <4>1. /\ fn \in 1 .. NF /\ blk \in 1 .. Len(code[fn])
              /\ code[fn][blk] \in Seq(Instructions) /\ pos \in 1 .. Len(code[fn][blk])
              /\ i \in 1 .. Len(code[fn][blk]) + 1 /\ items \in Seq(Instructions)
              /\ code[fn][blk][1].op \in {"logInit", "logFnBegin"} => i > 1 \/ items = <<>>
          BY <2>1, <3>2, ShapeFacts
        <4>2. /\ code' = [code EXCEPT ![fn][blk] = Inserted(code[fn][blk], i, items)]
              /\ Active /\ Active' /\ blk <= Len(code[fn])
          BY <2>1, <3>2, <4>1 DEF Shape, Active
        <4> QED
          BY <2>1, <4>1, <4>2, BeginKept
      <3> QED
        BY <1>6, <2>3, <3>1, <3>2, VisitShape DEF Visits
    <2> QED
      BY <2>2, <2>3
  <1> QED
    BY <1>2, <1>3, <1>4, <1>5, <1>6 DEF Next, Visits

-----------------------------------------------------------------------------
(* The arguments.                                                          *)

(* Only what EnterFunction queues is added to the queue.                   *)
LEMMA NextKeepsQueue ==
  ASSUME PlaceInv, QueueInv, [Next]_vars
  PROVE  QueueInv'
  <1>1. fn \in Nat \ {0}
    BY DEF PlaceInv
  <1>2. \A e \in argLogSet : e[1] \in Nat
    BY DEF QueueInv
  <1>3. CASE EnterFunction
    <2>1. /\ argLogSet' = argLogSet \cup {<<fn, Args(fn)[i]>> : i \in DOMAIN Args(fn)}
          /\ stage = "function" /\ stage' = "block" /\ fn' = fn
      BY <1>3 DEF EnterFunction, AtFunction
    <2>2. \A e \in argLogSet' : e \in argLogSet \/ e[1] = fn
      BY <2>1
    <2>3. \A e \in argLogSet' : e[1] \in Nat
      BY <1>1, <1>2, <2>2
    <2>4. \A e \in argLogSet' : e[1] < fn \/ e[1] = fn
      BY <2>1, <2>2 DEF QueueInv
    <2> QED
      BY <2>1, <2>3, <2>4 DEF QueueInv, Active
  <1>4. CASE ~EnterFunction
    <2>1. argLogSet' \subseteq argLogSet
      BY <1>4 DEF Next, vars, LoadFilter, LoadDefinitions, SkipFunction, EnterBlock, LeaveFunction,
                  LeaveBlock, VisitStore, VisitLoad, VisitCall, VisitExit, VisitOther, Finish,
                  Consumed
    <2>2. \/ fn' = fn /\ (Active' \/ ~Active \/ stage' = "died")
          \/ fn' = fn + 1 /\ stage # "died"
      <3>1. CASE LoadFilter \/ LoadDefinitions \/ Finish
        BY <3>1 DEF LoadFilter, LoadDefinitions, Finish, Active
      <3>2. CASE SkipFunction \/ LeaveFunction
        BY <3>2 DEF SkipFunction, LeaveFunction, AtFunction
      <3>3. CASE EnterBlock \/ LeaveBlock \/ UNCHANGED vars
        BY <3>3 DEF EnterBlock, LeaveBlock, vars, Active
      <3>4. CASE VisitStore
        <4>1. \A items : InsertBefore(items) => stage' = stage
          BY DEF InsertBefore
        <4>2. \A op : InstrumentAccess(op) => stage' \in {stage, "died"}
          BY <4>1 DEF InstrumentAccess
        <4>3. stage' \in {stage, "died"} /\ fn' = fn /\ stage = "instruction"
          BY <3>4, <4>1, <4>2 DEF VisitStore, AtInstruction
        <4> QED
          BY <4>3 DEF Active
      <3>5. CASE VisitLoad
        <4>1. \A items : InsertBefore(items) => stage' = stage
          BY DEF InsertBefore
        <4>2. \A op : InstrumentAccess(op) => stage' \in {stage, "died"}
          BY <4>1 DEF InstrumentAccess
        <4>3. stage' \in {stage, "died"} /\ fn' = fn /\ stage = "instruction"
          BY <3>5, <4>1, <4>2 DEF VisitLoad, AtInstruction
        <4> QED
          BY <4>3 DEF Active
      <3>6. CASE VisitCall \/ VisitExit \/ VisitOther
        BY <3>6 DEF VisitCall, VisitExit, VisitOther, InsertBefore, Active
      <3> QED
        BY <1>4, <3>1, <3>2, <3>3, <3>4, <3>5, <3>6 DEF Next
    <2>3. stage = "died" => stage' = "died"
      BY <1>4 DEF Next, vars, LoadFilter, LoadDefinitions, SkipFunction, EnterBlock, LeaveFunction,
                  LeaveBlock, VisitStore, VisitLoad, VisitCall, VisitExit, VisitOther, Finish,
                  AtFunction, AtInstruction
    <2>4. ASSUME stage' # "died", NEW e \in argLogSet'
          PROVE  e[1] < fn' \/ (e[1] = fn' /\ Active')
      <3>1. e \in argLogSet /\ e[1] \in Nat /\ (e[1] < fn \/ (e[1] = fn /\ Active))
        BY <1>2, <2>1, <2>3, <2>4 DEF QueueInv
      <3> QED
        BY <1>1, <2>2, <2>4, <3>1
    <2> QED
      BY <1>2, <2>1, <2>4 DEF QueueInv
  <1> QED
    BY <1>3, <1>4

(* The arguments of a function of the module.                              *)
LEMMA ArgsOf ==
  ASSUME PlaceInv, NEW f \in 1 .. NF
  PROVE  /\ Args(f) \in Seq(Int) /\ Len(Args(f)) \in Nat
         /\ \A i, j \in 1 .. Len(Args(f)) : i # j => Args(f)[i] # Args(f)[j]
  <1>1. module.functions[f].params \in Nat
    BY PassDriverAssumption DEF PlaceInv, NF
  <1> QED
    BY <1>1, ArgsAre

(* Something that is not the log call of an argument is inserted.          *)
LEMMA NoArgumentsInserted ==
  ASSUME NEW c \in Seq(Instructions), NEW items \in Seq(Instructions),
         NEW i \in 1 .. Len(c) + 1, NoArguments(c), NoArguments(items)
  PROVE  NoArguments(Inserted(c, i, items))
  BY InsertedElements DEF NoArguments

(* In the function the loop is in, the step is to insert something after   *)
(* what Layout is about.                                                   *)
LEMMA ArgsKept ==
  ASSUME PlaceInv, BlocksInv, ArgsInv, Active, Quiet, Active', blk <= Len(code[fn]),
         NEW items \in Seq(Instructions), NEW i \in 1 .. Len(code[fn][blk]) + 1,
         code' = [code EXCEPT ![fn][blk] = Inserted(code[fn][blk], i, items)],
         On(fn, "function") => NoArguments(items) /\ argLogSet' = argLogSet,
         ASSUME On(fn, "function"), ~allocOnly,
                NEW j \in 0 .. Len(Args(fn)), Layout(code[fn][1], Args(fn), j),
                Waiting(Args(fn), j), Progress(Len(Args(fn)), j)
         PROVE  /\ Progress(Len(Args(fn)), j)'
                /\ blk = 1 => i > 1 + Len(Args(fn)) + j \/ items = <<>>
  PROVE  ArgsInv'
  <1> DEFINE c == code[fn][blk]
             w == Inserted(c, i, items)
             a == Args(fn)
  <1>1. fn \in 1 .. NF /\ blk \in 1 .. Len(code[fn])
    BY PassDriverAssumption DEF PlaceInv, NF
  <1>2. c \in Seq(Instructions)
    <2>1. code \in [1 .. NF -> Seq(Seq(Instructions))]
      BY DEF PlaceInv
    <2> QED
      BY <1>1, <2>1
  <1>3. w \in Seq(Instructions)
    BY <1>2, InsertedIs
  <1>4. code \in [1 .. NF -> Seq(Seq(Instructions))]
    BY DEF PlaceInv
  <1>5. /\ code' \in [1 .. NF -> Seq(Seq(Instructions))]
        /\ \A f \in 1 .. NF : Len(code'[f]) = Len(code[f]) /\ (code'[f] = <<>> <=> code[f] = <<>>)
        /\ \A f \in 1 .. NF : f # fn => code'[f] = code[f]
        /\ \A b \in 1 .. Len(code[fn]) : b # blk => code'[fn][b] = code[fn][b]
        /\ code'[fn][blk] = w
    BY <1>1, <1>3, <1>4, OneBlock
  <1>6. /\ NF' = NF /\ fn' = fn /\ blk' = blk /\ allocOnly' = allocOnly
        /\ \A f : /\ On(f, "function")' = On(f, "function") /\ Kept(f)' = Kept(f)
                  /\ Args(f)' = Args(f)
    BY Frame DEF Quiet, NF
  <1>7. NoArguments(c) /\ NoArguments(items) => NoArguments(w)
    BY <1>2, NoArgumentsInserted
  <1>8. ASSUME NEW j \in 0 .. Len(a), Layout(c, a, j), NoArguments(items),
               i > 1 + Len(a) + j \/ items = <<>>
        PROVE  Layout(w, a, j)
    <2>1. Len(a) \in Nat
      BY <1>1, ArgsOf
    <2> HIDE DEF c, a
    <2>2. CASE items = <<>>
      BY <1>2, <1>8, <2>2, InsertedNone DEF c
    <2>3. CASE i > 1 + Len(a) + j
      <3>1. \A q \in 1 .. Len(items) : items[q].op # "logAccess_a"
        BY <1>8 DEF NoArguments
      <3>2. i \in 1 .. Len(c) + 1
        BY DEF c
      <3> QED
        BY <1>2, <1>8, <2>1, <2>3, <3>1, <3>2, LayoutKept
    <2> QED
      BY <1>8, <2>2, <2>3
  <1> HIDE DEF w, c
  <1> SUFFICES ASSUME NEW f \in 1 .. NF, Entered(f)', On(f, "function"), ~allocOnly
               PROVE  /\ \A b \in 2 .. Len(code'[f]) : NoArguments(code'[f][b])
                      /\ f < fn => Layout(code'[f][1], Args(f), Len(Args(f)))
                      /\ f = fn => \E j \in 0 .. Len(Args(f)) :
                           /\ Layout(code'[f][1], Args(f), j)
                           /\ Waiting(Args(f), j)' /\ Progress(Len(Args(f)), j)'
    BY <1>6 DEF ArgsInv
  <1>9. Entered(f)
    BY <1>5, <1>6 DEF Entered
  <1>10. CASE f # fn
    BY <1>5, <1>9, <1>10 DEF ArgsInv
  <1>11. CASE f = fn
    <2>1. NoArguments(items) /\ argLogSet' = argLogSet
      BY <1>11
    <2>2. ASSUME NEW b \in 2 .. Len(code'[fn]) PROVE NoArguments(code'[fn][b])
      <3>1. b \in 2 .. Len(code[fn])
        BY <1>1, <1>5
      <3>2. NoArguments(code[fn][b]) /\ b \in 1 .. Len(code[fn])
        BY <1>1, <1>9, <1>11, <3>1 DEF ArgsInv
      <3> QED
        BY <1>5, <1>7, <2>1, <3>2 DEF c
    <2>3. PICK j \in 0 .. Len(a) :
            Layout(code[fn][1], a, j) /\ Waiting(a, j) /\ Progress(Len(a), j)
      BY <1>1, <1>9, <1>11 DEF ArgsInv
    <2>4. /\ Progress(Len(a), j)'
          /\ blk = 1 => i > 1 + Len(a) + j \/ items = <<>>
      BY <1>11, <2>3
    <2>5. Layout(code'[fn][1], a, j)
      <3>1. CASE blk = 1
        BY <1>5, <1>8, <2>1, <2>3, <2>4, <3>1 DEF c
      <3>2. CASE blk # 1
        <4>1. 1 \in 1 .. Len(code[fn])
          BY <1>1
        <4> QED
          BY <1>5, <2>3, <3>2, <4>1
      <3> QED
        BY <3>1, <3>2
    <2>6. Waiting(a, j)'
      BY <1>6, <2>1, <2>3 DEF Waiting
    <2>7. Args(fn)' = Args(f)' /\ Args(f) = a
      BY <1>6, <1>11
    <2>8. Waiting(Args(f), j)' /\ Progress(Len(Args(f)), j)'
      BY <2>4, <2>6, <2>7
    <2> QED
      BY <1>11, <2>2, <2>3, <2>5, <2>7, <2>8
  <1> QED
    BY <1>10, <1>11

(* Where the loop is when an argument waits.                               *)
LEMMA WhereIs ==
  ASSUME PlaceInv, stage = "instruction", fn \in 1 .. NF,
         code[fn][blk] \in Seq(Instructions), pos \in 1 .. Len(code[fn][blk]),
         code[fn][blk][pos] \in Instructions,
         NEW j \in 0 .. Len(Args(fn)), Layout(code[fn][1], Args(fn), j),
         Waiting(Args(fn), j), Progress(Len(Args(fn)), j),
         blk \in 1 .. Len(code[fn])
  PROVE  /\ blk = 1 /\ j < Len(Args(fn)) /\ pos # 1 =>
              /\ pos = 2 * j + 2 /\ code[fn][blk][pos].op = "argstore"
              /\ code[fn][blk][pos].arg = Args(fn)[j + 1] /\ Waits
         /\ Waits => blk = 1 /\ j < Len(Args(fn)) /\ pos # 1
  <1> DEFINE c == code[fn][blk]
             a == Args(fn)
             n == Len(a)
  <1>1. a \in Seq(Int) /\ n \in Nat
    BY ArgsOf
  <1>2. blk = 1 => (pos = 1 /\ j = 0) \/ pos = 2 * j + 2 \/ (j = n /\ pos >= 2 * n + 2)
    BY DEF Progress
  <1>3. blk > 1 => j = n
    BY DEF Progress
  <1>4. blk = 1 => /\ c[1].op \in {"logInit", "logFnBegin"}
                   /\ \A i \in j + 1 .. n : c[1 + j + i].op = "argstore" /\ c[1 + j + i].arg = a[i]
    BY DEF Layout
  <1>5. c[pos].arg \in Int
    BY InstructionFacts
  <1>6. ASSUME blk = 1, j < n, pos # 1
        PROVE  pos = 2 * j + 2 /\ c[pos].op = "argstore" /\ c[pos].arg = a[j + 1] /\ Waits
    <2> HIDE DEF c, n
    <2>1. /\ pos = 2 * j + 2 /\ j + 1 \in j + 1 .. n /\ 1 + j + (j + 1) = pos
      BY <1>1, <1>2, <1>6
    <2>2. c[pos].op = "argstore" /\ c[pos].arg = a[j + 1]
      BY <1>4, <1>6, <2>1
    <2>3. <<fn, c[pos].arg>> \in argLogSet
      BY <1>5, <2>1, <2>2 DEF Waiting, n
    <2>4. Waits
      BY <2>2, <2>3 DEF Waits, Stored, c
    <2> QED
      BY <2>1, <2>2, <2>4
  <1>7. ASSUME Waits PROVE blk = 1 /\ j < n /\ pos # 1
    <2>1. <<fn, c[pos].arg>> \in argLogSet /\ c[pos].op \in {"store", "argstore"}
      BY <1>7 DEF Waits, Stored
    <2>2. \E i \in j + 1 .. n : c[pos].arg = a[i]
      BY <1>5, <2>1 DEF Waiting
    <2> HIDE DEF c, n
    <2>3. j < n
      BY <1>1, <2>2 DEF n
    <2>4. blk = 1
      BY <1>1, <1>3, <2>3
    <2>5. pos # 1
      BY <1>4, <2>1, <2>4
    <2> QED
      BY <2>3, <2>4, <2>5
  <1> QED
    BY <1>6, <1>7

(* The step at the copy of an argument that waits.                         *)
LEMMA CopyKeepsArgs ==
  ASSUME PlaceInv, BlocksInv, ArgsInv, stage = "instruction", Quiet,
         fn \in 1 .. NF, blk \in 1 .. Len(code[fn]),
         code[fn][blk] \in Seq(Instructions), pos \in 1 .. Len(code[fn][blk]),
         ~allocOnly, On(fn, "function"), Waits,
         code[fn][blk][pos].op = "argstore", NEW i, NEW items, Shape(i, items)
  PROVE  ArgsInv'
  <1> DEFINE c == code[fn][blk]
             w == Inserted(c, i, items)
             a == Args(fn)
             n == Len(a)
  <1>1. /\ a \in Seq(Int) /\ n \in Nat
        /\ \A q, r \in 1 .. n : q # r => a[q] # a[r]
    BY ArgsOf
  <1>2. Entered(fn)
    <2>1. Active
      BY DEF Active
    <2> QED
      BY <2>1 DEF PlaceInv, Entered
  <1>3. PICK j \in 0 .. n : Layout(code[fn][1], a, j) /\ Waiting(a, j) /\ Progress(n, j)
    BY <1>2 DEF ArgsInv
  <1>4. c[pos] \in Instructions
    OBVIOUS
  <1>5. /\ blk = 1 /\ j < n /\ pos = 2 * j + 2 /\ c[pos].arg = a[j + 1]
    BY <1>3, <1>4, WhereIs
  <1>6. /\ i = pos /\ pos' = pos + 2 /\ argLogSet' = argLogSet \ {Stored}
        /\ code' = [code EXCEPT ![fn][blk] = w] /\ stage' = "instruction"
    BY DEF Shape
  <1>7. PICK log \in Instructions :
          items = <<log>> /\ log.op = "logAccess_a" /\ log.arg = c[pos].arg
    BY DEF Shape
  <1>8. w = Inserted(c, 2 * j + 2, <<log>>)
    BY <1>5, <1>6, <1>7
  <1>9. Layout(w, a, j + 1)
    <2>1. Layout(c, a, j) /\ log.arg = a[j + 1] /\ log.op = "logAccess_a" /\ c \in Seq(Instructions)
      BY <1>3, <1>5, <1>7
    <2> HIDE DEF c, a, w
    <2> QED
      BY <1>1, <1>5, <1>8, <2>1, LayoutNext
  <1>10. w \in Seq(Instructions)
    <2>1. items \in Seq(Instructions) /\ i \in 1 .. Len(c) + 1
      BY <1>6 DEF Shape
    <2> QED
      BY <2>1, InsertedIs
  <1>11. code \in [1 .. NF -> Seq(Seq(Instructions))]
    BY DEF PlaceInv
  <1> HIDE DEF w, c
  <1>12. /\ code' \in [1 .. NF -> Seq(Seq(Instructions))]
         /\ \A f \in 1 .. NF : Len(code'[f]) = Len(code[f]) /\ (code'[f] = <<>> <=> code[f] = <<>>)
         /\ \A f \in 1 .. NF : f # fn => code'[f] = code[f]
         /\ \A b \in 1 .. Len(code[fn]) : b # blk => code'[fn][b] = code[fn][b]
         /\ code'[fn][blk] = w
    BY <1>6, <1>10, <1>11, OneBlock
  <1>13. /\ NF' = NF /\ fn' = fn /\ blk' = blk /\ allocOnly' = allocOnly
         /\ \A f : /\ On(f, "function")' = On(f, "function") /\ Kept(f)' = Kept(f)
                   /\ Args(f)' = Args(f)
    BY Frame DEF Quiet, NF
  <1>14. Active /\ Active'
    BY <1>6 DEF Active
  <1> SUFFICES ASSUME NEW f \in 1 .. NF, Entered(f)', On(f, "function"), ~allocOnly
               PROVE  /\ \A b \in 2 .. Len(code'[f]) : NoArguments(code'[f][b])
                      /\ f < fn => Layout(code'[f][1], Args(f), Len(Args(f)))
                      /\ f = fn => \E l \in 0 .. Len(Args(f)) :
                           /\ Layout(code'[f][1], Args(f), l)
                           /\ Waiting(Args(f), l)' /\ Progress(Len(Args(f)), l)'
    BY <1>13 DEF ArgsInv
  <1>15. Entered(f)
    BY <1>12, <1>13, <1>14 DEF Entered
  <1>16. CASE f # fn
    BY <1>12, <1>13, <1>15, <1>16 DEF ArgsInv
  <1>17. CASE f = fn
    <2>1. ASSUME NEW b \in 2 .. Len(code'[fn]) PROVE NoArguments(code'[fn][b])
      <3>1. b \in 2 .. Len(code[fn]) /\ b # blk
        BY <1>5, <1>12
      <3>2. NoArguments(code[fn][b]) /\ b \in 1 .. Len(code[fn])
        BY <1>2, <3>1 DEF ArgsInv
      <3> QED
        BY <1>12, <3>1, <3>2
    <2>2. Layout(code'[fn][1], a, j + 1)
      BY <1>5, <1>9, <1>12
    <2>3. Args(fn)' = Args(f)' /\ Args(f) = a /\ Args(f)' = a
      BY <1>13, <1>17
    <2> DEFINE s == Args(f)
    <2>4. ASSUME NEW v \in Int
          PROVE  <<fn, v>> \in argLogSet' <=> \E q \in (j + 1) + 1 .. n : v = a[q]
      <3>1. <<fn, v>> \in argLogSet' <=> <<fn, v>> \in argLogSet /\ v # a[j + 1]
        BY <1>5, <1>6 DEF Stored, c
      <3>2. <<fn, v>> \in argLogSet <=> \E q \in j + 1 .. n : v = a[q]
        BY <1>3 DEF Waiting
      <3> HIDE DEF a, n
      <3>3. j + 1 \in 1 .. n
        BY <1>1, <1>5
      <3>4. ASSUME NEW q \in j + 1 .. n, q # j + 1 PROVE q \in (j + 1) + 1 .. n
        BY <1>1, <3>4
      <3>5. ASSUME NEW q \in (j + 1) + 1 .. n PROVE q \in j + 1 .. n /\ a[q] # a[j + 1]
        <4>1. q \in 1 .. n /\ q # j + 1 /\ q \in j + 1 .. n
          BY <1>1
        <4> QED
          BY <1>1, <3>3, <4>1
      <3> QED
        BY <3>1, <3>2, <3>4, <3>5
    <2>5. Waiting(Args(f), j + 1)'
      BY <1>13, <2>3, <2>4 DEF Waiting
    <2>6. Progress(Len(Args(f)), j + 1)'
      <3>1. blk' = 1 /\ stage' = "instruction" /\ pos' = 2 * (j + 1) + 2
        BY <1>5, <1>6, <1>13
      <3> QED
        BY <3>1 DEF Progress
    <2>7. j + 1 \in 0 .. Len(Args(f))
      <3>1. j + 1 \in 0 .. n
        BY <1>1, <1>5
      <3> QED
        BY <2>3, <3>1
    <2> QED
      BY <1>17, <2>1, <2>2, <2>3, <2>5, <2>6, <2>7
  <1> QED
    BY <1>16, <1>17

(* The steps at an instruction.                                            *)
LEMMA VisitKeepsArgs ==
  ASSUME PlaceInv, BlocksInv, ArgsInv, Visits
  PROVE  ArgsInv'
  <1>1. stage = "instruction" /\ pos <= Len(code[fn][blk]) /\ Quiet
    BY VisitsAre
  <1>2. CASE allocOnly
    <2>1. allocOnly' = allocOnly
      BY <1>1 DEF Quiet
    <2> QED
      BY <1>2, <2>1 DEF ArgsInv
  <1>3. CASE ~allocOnly
    <2>1. CASE stage' = "died" /\ code' = code
      <3>1. /\ NF' = NF /\ fn' = fn /\ allocOnly' = allocOnly
            /\ \A f : /\ On(f, "function")' = On(f, "function") /\ Kept(f)' = Kept(f)
                      /\ Args(f)' = Args(f)
        BY <1>1, Frame DEF Quiet, NF
      <3>2. \A f \in 1 .. NF : Entered(f)' => Entered(f) /\ f # fn
        <4>1. fn \in Nat
          BY DEF PlaceInv
        <4> QED
          BY <2>1, <3>1, <4>1 DEF Entered, Active
      <3> QED
        BY <2>1, <3>1, <3>2 DEF ArgsInv
    <2>2. ASSUME NEW i, NEW items, Shape(i, items) PROVE ArgsInv'
      <3> DEFINE c == code[fn][blk]
                 n == Len(Args(fn))
      <3>1. /\ fn \in 1 .. NF /\ blk \in 1 .. Len(code[fn])
            /\ c \in Seq(Instructions) /\ pos \in 1 .. Len(c)
            /\ i \in 1 .. Len(c) + 1 /\ items \in Seq(Instructions)
            /\ c[1].op \in {"logInit", "logFnBegin"} => i > 1 \/ items = <<>>
        BY <1>1, <2>2, ShapeFacts
      <3>2. CASE On(fn, "function") /\ Waits /\ c[pos].op = "argstore"
        BY <1>1, <1>3, <2>2, <3>1, <3>2, CopyKeepsArgs
      <3>3. CASE ~(On(fn, "function") /\ Waits /\ c[pos].op = "argstore")
        <4>1. On(fn, "function") => ~Waits
          <5>1. Waits => Stored \in argLogSet /\ c[pos].op \in {"store", "argstore"}
            BY DEF Waits
          <5> QED
            BY <1>1, <1>3, <3>3, <5>1, StoreIsNoArgument
        <4>2. On(fn, "function") => NoArguments(items) /\ argLogSet' = argLogSet
          BY <2>2, <4>1 DEF Shape
        <4>3. /\ code' = [code EXCEPT ![fn][blk] = Inserted(c, i, items)]
              /\ stage' = "instruction" /\ i \in {pos, pos + 1} /\ pos' \in Nat /\ pos' > pos
              /\ c[pos].op \notin {"load", "store", "argstore", "call", "exit"} =>
                   items = <<>> /\ pos' = pos + 1
          BY <2>2 DEF Shape
        <4>4. Active /\ Active' /\ blk <= Len(code[fn])
          BY <1>1, <3>1, <4>3 DEF Active
        <4>5. ASSUME On(fn, "function"), ~allocOnly,
                     NEW j \in 0 .. Len(Args(fn)), Layout(code[fn][1], Args(fn), j),
                     Waiting(Args(fn), j), Progress(Len(Args(fn)), j)
              PROVE  /\ Progress(Len(Args(fn)), j)'
                     /\ blk = 1 => i > 1 + Len(Args(fn)) + j \/ items = <<>>
          <5>1. c[pos] \in Instructions
            BY <3>1
          <5>2. blk = 1 /\ j < n /\ pos # 1 => Waits
            BY <1>1, <3>1, <4>5, <5>1, WhereIs
          <5>3. n \in Nat
            BY <3>1, ArgsOf
          <5>4. blk = 1 => (pos = 1 /\ j = 0) \/ pos = 2 * j + 2 \/ (j = n /\ pos >= 2 * n + 2)
            BY <1>1, <4>5 DEF Progress
          <5>5. blk > 1 => j = n
            BY <4>5 DEF Progress
          <5>6. blk = 1 /\ pos = 1 => items = <<>> /\ pos' = 2
            <6>1. blk = 1 => c[1].op \in {"logInit", "logFnBegin"}
              BY <4>5 DEF Layout
            <6> QED
              BY <4>3, <6>1
          <5> DEFINE m == Len(Args(fn))
          <5>7. pos \in Nat /\ i \in {pos, pos + 1} /\ pos' \in Nat /\ pos' > pos
            BY <3>1, <4>3
          <5>8. /\ blk = 1 => \/ pos' = 2 * j + 2
                              \/ j = n /\ pos' >= 2 * n + 2
                /\ blk = 1 => i > 1 + n + j \/ items = <<>>
            <6> HIDE DEF n, c
            <6>1. CASE pos = 1
              <7>1. blk = 1 => j = 0
                BY <5>3, <5>4, <6>1
              <7> QED
                BY <5>6, <6>1, <7>1
            <6>2. CASE pos # 1
              <7>1. blk = 1 => ~(j < n)
                BY <4>1, <4>5, <5>2, <6>2
              <7>2. blk = 1 => j = n
                BY <5>3, <7>1 DEF n
              <7> QED
                BY <5>3, <5>4, <5>7, <6>2, <7>2
            <6> QED
              BY <6>1, <6>2
          <5>9. Progress(n, j)'
            <6>1. n' = n
              BY <1>1, Frame DEF Quiet
            <6>2. blk' = blk /\ stage' = "instruction"
              BY <1>1, <4>3 DEF Quiet
            <6> HIDE DEF n
            <6> QED
              BY <5>5, <5>8, <6>1, <6>2 DEF Progress
          <5> QED
            BY <5>8, <5>9
        <4> QED
          BY <1>1, <3>1, <4>2, <4>3, <4>4, <4>5, ArgsKept
      <3> QED
        BY <3>2, <3>3
    <2> QED
      BY <1>3, <2>1, <2>2, VisitShape DEF Visits
  <1> QED
    BY <1>2, <1>3

(* The step into a block.                                                  *)
LEMMA EnterBlockKeepsArgs ==
  ASSUME PlaceInv, BlocksInv, ArgsInv, EnterBlock
  PROVE  ArgsInv'
  <1> DEFINE c == code[fn][blk]
             n == Len(Args(fn))
             end == IF c[Len(c)].op = "ret" /\ Bracketed(fn) THEN FnEvent(fn, FALSE) ELSE <<>>
  <1>1. /\ stage = "block" /\ blk <= Len(code[fn]) /\ Quiet /\ stage' = "instruction" /\ pos' = 1
        /\ argLogSet' = argLogSet
        /\ code' = [code EXCEPT ![fn][blk] = Inserted(c, Len(c), end)]
    BY DEF EnterBlock, Quiet
  <1>2. Active /\ Active' /\ fn \in 1 .. NF /\ blk \in 1 .. Len(code[fn])
    BY <1>1, PassDriverAssumption DEF PlaceInv, Active, NF
  <1>3. Fresh(c)
    BY <1>1, <1>2 DEF BlocksInv, Ahead
  <1>4. c \in Seq(Instructions) /\ Len(c) \in Nat \ {0}
    <2>1. c \in Seq(Instructions) /\ c # <<>>
      BY <1>3 DEF Fresh, Terminal
    <2> QED
      BY <2>1
  <1>5. end \in Seq(Instructions) /\ NoArguments(end)
    <2>1. /\ FnEvent(fn, FALSE) \in Seq(Instructions)
          /\ \A q \in 1 .. Len(FnEvent(fn, FALSE)) :
               FnEvent(fn, FALSE)[q].op \in {"logExit", "logFnEnd"}
      BY EventIs, Zenon
    <2>2. NoArguments(FnEvent(fn, FALSE))
      BY <2>1 DEF NoArguments
    <2>3. <<>> \in Seq(Instructions) /\ NoArguments(<<>>)
      BY DEF NoArguments
    <2>4. end = FnEvent(fn, FALSE) \/ end = <<>>
      OBVIOUS
    <2> HIDE DEF end
    <2> QED
      BY <2>1, <2>2, <2>3, <2>4
  <1>6. Len(c) \in 1 .. Len(c) + 1
    BY <1>4
  <1>7. ASSUME On(fn, "function"), ~allocOnly,
               NEW j \in 0 .. Len(Args(fn)), Layout(code[fn][1], Args(fn), j),
               Waiting(Args(fn), j), Progress(Len(Args(fn)), j)
        PROVE  /\ Progress(Len(Args(fn)), j)'
               /\ blk = 1 => Len(c) > 1 + Len(Args(fn)) + j \/ end = <<>>
    <2>1. blk = 1 => j = 0 /\ Len(c) > 1 + n + j
      BY <1>1, <1>7 DEF Progress, Layout
    <2>2. blk > 1 => j = n
      BY <1>7 DEF Progress
    <2>3. n' = n
      BY <1>1, Frame DEF Quiet
    <2>4. blk' = blk
      BY <1>1 DEF Quiet
    <2>5. Progress(n, j)'
      <3> HIDE DEF n, end, c
      <3> QED
        BY <1>1, <2>1, <2>2, <2>3, <2>4 DEF Progress
    <2> QED
      BY <2>1, <2>5
  <1> DEFINE i == Len(c)
  <1>8. i \in 1 .. Len(c) + 1 /\ code' = [code EXCEPT ![fn][blk] = Inserted(c, i, end)]
    BY <1>1, <1>6
  <1>9. ASSUME On(fn, "function"), ~allocOnly,
               NEW j \in 0 .. Len(Args(fn)), Layout(code[fn][1], Args(fn), j),
               Waiting(Args(fn), j), Progress(Len(Args(fn)), j)
        PROVE  /\ Progress(Len(Args(fn)), j)'
               /\ blk = 1 => i > 1 + Len(Args(fn)) + j \/ end = <<>>
    BY <1>7, <1>9
  <1> HIDE DEF end, i
  <1> QED
    BY <1>1, <1>2, <1>5, <1>8, <1>9, ArgsKept

(* The step into a function: its arguments are queued.                     *)
LEMMA EnterFunctionKeepsArgs ==
  ASSUME PlaceInv, BlocksInv, QueueInv, ArgsInv, EnterFunction
  PROVE  ArgsInv'
  <1> DEFINE begin == IF Bracketed(fn) THEN FnEvent(fn, TRUE) ELSE <<>>
             w == begin \o ArgStores(fn) \o code[fn][1]
             a == Args(fn)
  <1>1. /\ stage = "function" /\ fn <= NF /\ code[fn] # <<>> /\ fn' = fn /\ Same
        /\ stage' = "block" /\ blk' = 1
        /\ code' = [code EXCEPT ![fn][1] = w]
        /\ argLogSet' = argLogSet \cup {<<fn, Args(fn)[i]>> : i \in DOMAIN Args(fn)}
    BY DEF EnterFunction, AtFunction, NF, Same
  <1>2. /\ fn \in 1 .. NF /\ code \in [1 .. NF -> Seq(Seq(Instructions))]
        /\ module.functions[fn].params \in Nat /\ 1 \in 1 .. Len(code[fn])
    <2>1. /\ fn \in 1 .. NF /\ code \in [1 .. NF -> Seq(Seq(Instructions))]
          /\ module.functions[fn].params \in Nat
      BY <1>1, PassDriverAssumption DEF PlaceInv, NF
    <2>2. code[fn] \in Seq(Seq(Instructions))
      BY <2>1
    <2>3. Len(code[fn]) \in Nat /\ (Len(code[fn]) = 0 <=> code[fn] = <<>>)
      BY <2>2
    <2> QED
      BY <1>1, <2>1, <2>3
  <1>3. \A b \in 1 .. Len(code[fn]) : Source(code[fn][b])
    BY <1>1, <1>2 DEF BlocksInv, Untouched
  <1>4. /\ Fresh(w)
        /\ On(fn, "function") /\ ~allocOnly => Layout(w, a, 0)
    BY <1>2, <1>3, EnteredIs
  <1>5. w \in Seq(Instructions)
    BY <1>4 DEF Fresh
  <1> HIDE DEF w
  <1>6. /\ \A f \in 1 .. NF : Len(code'[f]) = Len(code[f]) /\ (code'[f] = <<>> <=> code[f] = <<>>)
        /\ \A f \in 1 .. NF : f # fn => code'[f] = code[f]
        /\ \A b \in 1 .. Len(code[fn]) : b # 1 => code'[fn][b] = code[fn][b]
        /\ code'[fn][1] = w
    BY <1>1, <1>2, <1>5, OneBlock
  <1>7. /\ NF' = NF /\ allocOnly' = allocOnly
        /\ \A f : /\ On(f, "function")' = On(f, "function") /\ Kept(f)' = Kept(f)
                  /\ Args(f)' = Args(f)
    BY <1>1, Frame DEF Same, NF
  <1> SUFFICES ASSUME NEW f \in 1 .. NF, Entered(f)', On(f, "function"), ~allocOnly
               PROVE  /\ \A b \in 2 .. Len(code'[f]) : NoArguments(code'[f][b])
                      /\ f < fn => Layout(code'[f][1], Args(f), Len(Args(f)))
                      /\ f = fn => \E j \in 0 .. Len(Args(f)) :
                           /\ Layout(code'[f][1], Args(f), j)
                           /\ Waiting(Args(f), j)' /\ Progress(Len(Args(f)), j)'
    BY <1>1, <1>7 DEF ArgsInv
  <1>8. CASE f # fn
    <2>1. Entered(f)
      BY <1>1, <1>6, <1>7, <1>8 DEF Entered
    <2> QED
      BY <1>6, <1>8, <2>1 DEF ArgsInv
  <1>9. CASE f = fn
    <2>1. ASSUME NEW b \in 2 .. Len(code'[fn]) PROVE NoArguments(code'[fn][b])
      <3>1. b \in 1 .. Len(code[fn]) /\ b # 1
        BY <1>2, <1>6
      <3>2. Fresh(code[fn][b])
        BY <1>3, <3>1, SourceFacts
      <3>3. NoArguments(code[fn][b])
        BY <3>2 DEF Fresh, NoArguments, AccessLogs
      <3> QED
        BY <1>6, <3>1, <3>3
    <2>2. Layout(code'[fn][1], a, 0)
      BY <1>4, <1>6, <1>9
    <2>3. Args(f) = a /\ Args(f)' = a
      BY <1>7, <1>9
    <2>4. a \in Seq(Int) /\ Len(a) \in Nat
      BY <1>2, ArgsOf
    <2>5. ASSUME NEW v \in Int
          PROVE  <<fn, v>> \in argLogSet' <=> \E q \in 0 + 1 .. Len(a) : v = a[q]
      <3>1. <<fn, v>> \notin argLogSet
        <4>1. ~(fn < fn) /\ <<fn, v>>[1] = fn
          BY <1>2
        <4> QED
          BY <1>1, <4>1 DEF QueueInv, Active
      <3>2. DOMAIN a = 0 + 1 .. Len(a)
        BY <2>4
      <3> HIDE DEF a
      <3>3. argLogSet' = argLogSet \cup {<<fn, a[i]>> : i \in 0 + 1 .. Len(a)}
        BY <1>1, <3>2 DEF a
      <3> QED
        BY <3>1, <3>3
    <2>6. Waiting(Args(f), 0)'
      BY <1>1, <2>3, <2>5 DEF Waiting
    <2>7. Progress(Len(Args(f)), 0)'
      BY <1>1 DEF Progress
    <2>8. 0 \in 0 .. Len(Args(f))
      BY <2>3, <2>4
    <2> QED
      BY <1>9, <2>1, <2>2, <2>3, <2>6, <2>7, <2>8
  <1> QED
    BY <1>8, <1>9

(* The other steps: none is left behind when the loop leaves a block.      *)
LEMMA RestKeepsArgs ==
  ASSUME PlaceInv, BlocksInv, ArgsInv,
         \/ LoadFilter \/ LoadDefinitions \/ SkipFunction \/ LeaveFunction \/ LeaveBlock
         \/ Finish \/ UNCHANGED vars
  PROVE  ArgsInv'
  <1>1. CASE LoadFilter \/ LoadDefinitions
    <2>1. fn' = 1 /\ ~Active'
      BY <1>1 DEF LoadFilter, LoadDefinitions, PlaceInv, Active
    <2>2. \A f \in 1 .. NF' : ~Entered(f)'
      BY <2>1 DEF Entered
    <2> QED
      BY <2>2 DEF ArgsInv
  <1>2. CASE \/ SkipFunction \/ LeaveFunction \/ LeaveBlock \/ Finish \/ UNCHANGED vars
    <2>1. Same /\ code' = code /\ \A f \in 1 .. NF : Entered(f)' => Entered(f)
      BY <1>2, EnteredSame
    <2>2. /\ NF' = NF /\ allocOnly' = allocOnly
          /\ \A f : /\ On(f, "function")' = On(f, "function") /\ Kept(f)' = Kept(f)
                    /\ Args(f)' = Args(f)
      BY <2>1, Frame DEF Same, NF
    <2> SUFFICES ASSUME NEW f \in 1 .. NF, Entered(f)', On(f, "function"), ~allocOnly
                 PROVE  /\ f < fn' => Layout(code[f][1], Args(f), Len(Args(f)))
                        /\ f = fn' => \E j \in 0 .. Len(Args(f)) :
                             /\ Layout(code[f][1], Args(f), j)
                             /\ Waiting(Args(f), j)' /\ Progress(Len(Args(f)), j)'
      BY <2>1, <2>2 DEF ArgsInv
    <2> DEFINE a == Args(f)
               n == Len(a)
    <2>3. Entered(f) /\ fn \in Nat \ {0} /\ f \in Nat
      BY <2>1 DEF PlaceInv
    <2>4. n \in Nat
      BY ArgsOf
    <2>5. f < fn => Layout(code[f][1], a, n)
      BY <2>3 DEF ArgsInv
    <2>6. f = fn => \E j \in 0 .. n : Layout(code[f][1], a, j) /\ Waiting(a, j) /\ Progress(n, j)
      BY <2>3 DEF ArgsInv
    <2>7. CASE SkipFunction
      <3>1. fn' = fn + 1 /\ stage' = "function" /\ stage = "function"
        BY <2>7 DEF SkipFunction, AtFunction
      <3>2. f < fn
        BY <2>3, <3>1 DEF Entered, Active
      <3> QED
        BY <2>3, <2>5, <3>1, <3>2
    <2>8. CASE LeaveFunction
      <3>1. fn' = fn + 1 /\ stage' = "function" /\ stage = "block" /\ blk > Len(code[fn])
        BY <2>8 DEF LeaveFunction
      <3>2. f # fn'
        BY <2>3, <3>1 DEF Entered, Active
      <3>3. CASE f = fn
        <4>1. PICK j \in 0 .. n : Layout(code[f][1], a, j) /\ Progress(n, j)
          BY <2>6, <3>3
        <4>2. blk > 1
          <5>1. code[fn] \in Seq(Seq(Instructions)) /\ code[fn] # <<>> /\ blk \in Nat
            BY <3>1, <3>3 DEF PlaceInv, Active
          <5>2. Len(code[fn]) \in Nat \ {0}
            BY <5>1
          <5> QED
            BY <3>1, <5>1, <5>2
        <4>3. j = n
          BY <4>1, <4>2 DEF Progress
        <4> QED
          BY <3>2, <4>1, <4>3
      <3>4. CASE f # fn
        <4>1. f < fn
          BY <2>3, <3>4 DEF Entered
        <4> QED
          BY <2>5, <3>2, <4>1
      <3> QED
        BY <3>3, <3>4
    <2>9. CASE LeaveBlock
      <3>1. /\ fn' = fn /\ stage' = "block" /\ stage = "instruction" /\ blk' = blk + 1
            /\ pos > Len(code[fn][blk]) /\ argLogSet' = argLogSet
        BY <2>9 DEF LeaveBlock
      <3>2. CASE f = fn
        <4>1. PICK j \in 0 .. n : Layout(code[f][1], a, j) /\ Waiting(a, j) /\ Progress(n, j)
          BY <2>6, <3>2
        <4>2. /\ blk \in Nat \ {0}
              /\ Under(Settings(fn), allocDefs, code[fn][blk], pos) /\ blk \in 1 .. Len(code[fn])
          BY <3>1, Position
        <4> DEFINE l == Len(code[fn][blk])
        <4>3. l \in Nat /\ pos \in Nat /\ pos > l
          BY <3>1, <4>2 DEF Under
        <4>4. blk = 1 => l > 1 + n + j
          BY <3>2, <4>1 DEF Layout
        <4>5. /\ blk = 1 => (pos = 1 /\ j = 0) \/ pos = 2 * j + 2 \/ (j = n /\ pos >= 2 * n + 2)
              /\ blk > 1 => j = n
          BY <3>1, <4>1 DEF Progress
        <4>6. j = n
          <5> HIDE DEF n, l
          <5> QED
            BY <2>4, <4>2, <4>3, <4>4, <4>5
        <4>7. Waiting(a, j)'
          BY <2>2, <3>1, <4>1 DEF Waiting
        <4>8. Progress(n, j)'
          <5>1. n' = n /\ blk' # 1
            BY <2>2, <3>1, <4>2
          <5> HIDE DEF n
          <5> QED
            BY <3>1, <4>6, <5>1 DEF Progress
        <4> QED
          BY <3>1, <3>2, <4>1, <4>7, <4>8
      <3>3. CASE f # fn
        <4>1. f < fn
          BY <2>3, <3>3 DEF Entered
        <4> QED
          BY <2>5, <3>1, <3>3, <4>1
      <3> QED
        BY <3>2, <3>3
    <2>10. CASE Finish
      <3>1. fn' = fn /\ stage = "function"
        BY <2>10 DEF Finish
      <3>2. f < fn
        BY <2>3, <3>1 DEF Entered, Active
      <3> QED
        BY <2>5, <3>1, <3>2
    <2>11. CASE UNCHANGED vars
      <3>1. /\ fn' = fn /\ stage' = stage /\ blk' = blk /\ pos' = pos /\ argLogSet' = argLogSet
        BY <2>11 DEF vars
      <3>2. \A j : Waiting(a, j) => Waiting(a, j)'
        BY <2>2, <3>1 DEF Waiting
      <3>3. \A j : Progress(n, j) => Progress(n, j)'
        <4>1. n' = n
          BY <2>2
        <4> HIDE DEF n
        <4> QED
          BY <3>1, <4>1 DEF Progress
      <3> QED
        BY <2>5, <2>6, <3>1, <3>2, <3>3
    <2> QED
      BY <1>2, <2>7, <2>8, <2>9, <2>10, <2>11
  <1> QED
    BY <1>1, <1>2

(* The invariant is inductive.                                             *)
THEOREM PassInvariant == Spec => []IInv
  <1>1. IInv /\ [Next]_vars => IInv'
    <2> SUFFICES ASSUME IInv, [Next]_vars PROVE IInv'
      OBVIOUS
    <2> USE DEF IInv
    <2>1. PlaceInv' /\ BlocksInv'
      BY NextKeepsBlocks
    <2>2. BeginInv'
      BY NextKeepsBegin
    <2>3. QueueInv'
      BY NextKeepsQueue
    <2>4. ArgsInv'
      BY RestKeepsArgs, EnterFunctionKeepsArgs, EnterBlockKeepsArgs, VisitKeepsArgs
         DEF Next, Visits
    <2> QED
      BY <2>1, <2>2, <2>3, <2>4
  <1> QED
    BY <1>1, InitIInv, PTL DEF Spec

-----------------------------------------------------------------------------
(* The properties.                                                         *)

(* What is known of the instructions of a function the pass is done with.  *)
LEMMA FinishedIs ==
  ASSUME IInv, NEW f \in Finished
  PROVE  /\ f \in 1 .. NF /\ f < fn /\ module \in Modules
         /\ module.functions[f].params \in Nat
         /\ Len(code[f]) \in Nat /\ DOMAIN code[f] = 1 .. Len(code[f])
         /\ \A b \in 1 .. Len(code[f]) :
              /\ code[f][b] \in Seq(Instructions) /\ Len(code[f][b]) \in Nat
              /\ DOMAIN code[f][b] = 1 .. Len(code[f][b])
              /\ Terminal(code[f][b])
              /\ Kept(f) => Complete(Settings(f), allocDefs, code[f][b])
              /\ ~Kept(f) => Source(code[f][b])
  <1>1. PlaceInv /\ BlocksInv
    BY DEF IInv
  <1>2. /\ module \in Modules /\ fn \in Nat \ {0} /\ fn <= NF + 1
        /\ code \in [1 .. NF -> Seq(Seq(Instructions))]
    BY <1>1 DEF PlaceInv
  <1>3. NF \in Nat
    BY <1>2, PassDriverAssumption DEF NF
  <1>4. f \in 1 .. fn - 1
    BY DEF Finished
  <1>5. f \in 1 .. NF /\ f < fn
    BY <1>2, <1>3, <1>4
  <1>6. module.functions[f].params \in Nat
    BY <1>2, <1>5, PassDriverAssumption DEF NF
  <1>7. code[f] \in Seq(Seq(Instructions))
    BY <1>2, <1>5
  <1>8. Len(code[f]) \in Nat /\ DOMAIN code[f] = 1 .. Len(code[f])
    BY <1>7
  <1>9. ASSUME NEW b \in 1 .. Len(code[f])
        PROVE  /\ code[f][b] \in Seq(Instructions) /\ Len(code[f][b]) \in Nat
               /\ DOMAIN code[f][b] = 1 .. Len(code[f][b])
               /\ Terminal(code[f][b])
               /\ Kept(f) => Complete(Settings(f), allocDefs, code[f][b])
               /\ ~Kept(f) => Source(code[f][b])
    <2>1. code[f][b] \in Seq(Instructions)
      BY <1>7
    <2>2. Kept(f) => Complete(Settings(f), allocDefs, code[f][b])
      BY <1>1, <1>5 DEF BlocksInv, Behind
    <2>3. ~Kept(f) => Source(code[f][b])
      BY <1>1, <1>5 DEF BlocksInv, Untouched
    <2>4. Terminal(code[f][b])
      BY <2>2, <2>3 DEF Complete, Under, Source
    <2> QED
      BY <2>1, <2>2, <2>3, <2>4
  <1> QED
    BY <1>2, <1>5, <1>6, <1>8, <1>9

(* What is before the last position of a block is an instruction of it.    *)
LEMMA CompleteIs ==
  ASSUME NEW k, NEW d, NEW c, Complete(k, d, c), Len(c) \in Nat, NEW p \in 1 .. Len(c)
  PROVE  /\ Always(k, d, Before(c, p), c[p]) /\ Passed(k, Before(c, p), c[p])
         /\ CallPair(k, d, Before(c, p), c[p])
  <1>1. p < Len(c) + 1 /\ p <= Len(c) + 1
    OBVIOUS
  <1> QED
    BY <1>1 DEF Complete, Under

(* The model asks what is after what.                                      *)
LEMMA AfterIs ==
  ASSUME NEW c, NEW n \in Nat, NEW p \in 1 .. n, NEW op, op # "br"
  PROVE  After(c, p, op) <=> Before(c, p).op = op
  <1>1. CASE p = 1
    <2>1. Before(c, p).op = "br"
      BY <1>1 DEF Before, Instruction
    <2> QED
      BY <1>1, <2>1 DEF After
  <1>2. CASE p # 1
    <2>1. p > 1
      BY <1>2
    <2> QED
      BY <1>2, <2>1 DEF After, Before
  <1> QED
    BY <1>1, <1>2

(* What was not kept is as it was, without any log calls.                  *)
LEMMA SourceBefore ==
  ASSUME NEW c, Source(c), NEW p \in 1 .. Len(c)
  PROVE  c[p].op \in SourceOps /\ Before(c, p).op \in SourceOps
  <1>1. Len(c) \in Nat /\ \A q \in 1 .. Len(c) : c[q].op \in SourceOps
    BY SourceFacts
  <1>2. CASE p = 1
    BY <1>1, <1>2 DEF Before, Instruction, SourceOps
  <1>3. CASE p # 1
    <2>1. p - 1 \in 1 .. Len(c)
      BY <1>1, <1>3
    <2> QED
      BY <1>1, <1>3, <2>1 DEF Before
  <1> QED
    BY <1>2, <1>3

(* The pass logs each load and store that it is to log just before it, and *)
(* nothing else: what instrumentAccess inserts stays there.                *)
THEOREM EveryAccessIsLogged == Spec => []AccessesLogged
  <1>1. IInv => AccessesLogged
    <2> SUFFICES ASSUME IInv, NEW f \in Finished, NEW b \in DOMAIN code[f],
                        NEW p \in DOMAIN code[f][b]
                 PROVE  LET block == code[f][b]
                            logged == Kept(f) /\ On(f, "access") /\ ~allocOnly
                                      /\ block[p].type # "struct"
                        IN /\ block[p].op = "load" =>
                                (logged <=> After(block, p, "logAccess_r"))
                           /\ block[p].op = "store" /\ (On(f, "function") \/ ~On(f, "access")) =>
                                (logged <=> After(block, p, "logAccess_w"))
      BY DEF AccessesLogged
    <2> DEFINE c == code[f][b]
               k == Settings(f)
    <2>1. /\ f \in 1 .. NF /\ module \in Modules /\ b \in 1 .. Len(code[f])
          /\ Len(c) \in Nat /\ p \in 1 .. Len(c)
          /\ Kept(f) => Complete(k, allocDefs, c)
          /\ ~Kept(f) => Source(c)
      BY FinishedIs
    <2>2. /\ "access" \in k <=> On(f, "access")
          /\ "function" \in k <=> On(f, "function")
          /\ "allocOnly" \in k <=> allocOnly
      BY <2>1, SettingsAre
    <2> HIDE DEF c, k
    <2>3. /\ After(c, p, "logAccess_r") <=> Before(c, p).op = "logAccess_r"
          /\ After(c, p, "logAccess_w") <=> Before(c, p).op = "logAccess_w"
      BY <2>1, AfterIs
    <2>4. Kept(f) => AccessPair(k, Before(c, p), c[p])
      BY <2>1, CompleteIs DEF Passed
    <2>5. ~Kept(f) => Before(c, p).op \in SourceOps
      BY <2>1, SourceBefore
    <2>6. "logAccess_r" \notin SourceOps /\ "logAccess_w" \notin SourceOps
      BY DEF SourceOps
    <2>7. /\ c[p].op = "load" =>
               (Kept(f) /\ On(f, "access") /\ ~allocOnly /\ c[p].type # "struct"
                <=> After(c, p, "logAccess_r"))
          /\ c[p].op = "store" /\ (On(f, "function") \/ ~On(f, "access")) =>
               (Kept(f) /\ On(f, "access") /\ ~allocOnly /\ c[p].type # "struct"
                <=> After(c, p, "logAccess_w"))
      BY <2>2, <2>3, <2>4, <2>5, <2>6 DEF AccessPair, IsLogged
    <2> QED
      BY <2>7 DEF c
  <1> QED
    BY <1>1, PassInvariant, PTL

(* Function events enclose every function that has them, main in any case: *)
(* what is inserted later comes neither before the first nor after the last*)
(* of them.                                                                *)
THEOREM FunctionsAreBracketed == Spec => []Bracketing
  <1>1. IInv => Bracketing
    <2> SUFFICES ASSUME IInv, NEW f \in Finished, Kept(f), code[f] # <<>>, ~allocOnly,
                        On(f, "function") \/ module.functions[f].kind = "main"
                 PROVE  /\ code[f][1][1].op \in {"logInit", "logFnBegin"}
                        /\ \A place \in Places(f, {"ret"}) :
                             \/ After(code[f][place[1]], place[2], "logExit")
                             \/ After(code[f][place[1]], place[2], "logFnEnd")
                        /\ \A place \in Places(f, {"exit"}) :
                             After(code[f][place[1]], place[2], "logExit")
      BY DEF Bracketing
    <2> DEFINE k == Settings(f)
    <2>1. f \in 1 .. NF /\ f < fn /\ module \in Modules
      BY FinishedIs
    <2>2. Bracketed(f) /\ Brackets(k) /\ "allocOnly" \notin k
      BY <2>1, SettingsAre DEF Bracketed
    <2>3. code[f][1][1].op \in {"logInit", "logFnBegin"}
      BY <2>1, <2>2 DEF IInv, BeginInv, Entered
    <2>4. ASSUME NEW op, NEW place \in Places(f, {op})
          PROVE  /\ code[f][place[1]][place[2]].op = op
                 /\ \A e : e # "br" =>
                      (After(code[f][place[1]], place[2], e)
                       <=> Before(code[f][place[1]], place[2]).op = e)
                 /\ RetPair(k, Before(code[f][place[1]], place[2]), code[f][place[1]][place[2]])
                 /\ ExitPair(k, Before(code[f][place[1]], place[2]), code[f][place[1]][place[2]])
      <3>a. PICK b \in DOMAIN code[f] : \E p \in DOMAIN code[f][b] :
              place = <<b, p>> /\ code[f][b][p].op = op
        BY <2>4 DEF Places
      <3>1. PICK p \in DOMAIN code[f][b] : place = <<b, p>> /\ code[f][b][p].op = op
        BY <3>a
      <3>2. place[1] = b /\ place[2] = p
        BY <3>1
      <3> DEFINE c == code[f][b]
      <3>3. Len(c) \in Nat /\ p \in 1 .. Len(c) /\ Complete(k, allocDefs, c)
        BY FinishedIs
      <3> HIDE DEF c, k
      <3>4. \A e : e # "br" => (After(c, p, e) <=> Before(c, p).op = e)
        BY <3>3, AfterIs
      <3>5. RetPair(k, Before(c, p), c[p]) /\ ExitPair(k, Before(c, p), c[p])
        BY <3>3, CompleteIs DEF Always, Passed
      <3> QED
        BY <3>1, <3>2, <3>4, <3>5 DEF c
    <2> HIDE DEF k
    <2>5. ASSUME NEW place \in Places(f, {"ret"})
          PROVE  \/ After(code[f][place[1]], place[2], "logExit")
                 \/ After(code[f][place[1]], place[2], "logFnEnd")
      BY <2>2, <2>4 DEF RetPair
    <2>6. ASSUME NEW place \in Places(f, {"exit"})
          PROVE  After(code[f][place[1]], place[2], "logExit")
      BY <2>2, <2>4 DEF ExitPair
    <2> QED
      BY <2>3, <2>5, <2>6
  <1> QED
    BY <1>1, PassInvariant, PTL

(* The member a log function writes is the one a reader reads, and the cast*)
(* to it keeps the value.                                                  *)
LEMMA EntryIs ==
  ASSUME NEW k, NEW type \in DOMAIN Bytes
  PROVE  LET function == FunctionFor(k, type)
         IN /\ CastLegal(type, Parameter[function])
            /\ Parameter[function] = MemberOf[ValueType[function]]
  <1> DEFINE function == FunctionFor(k, type)
  <1>1. type \in {"i1", "i8", "i16", "i32", "i64", "float", "double", "ptr"}
    BY DEF Bytes
  <1>2. /\ type \in {"i1", "i8"} => function = "logAccessI8"
        /\ type = "i16" => function = "logAccessI16"
        /\ type = "i32" => function = "logAccessI32"
        /\ type = "i64" => function = "logAccessI64"
        /\ type \in {"float", "double"} => function = "logAccessF64"
        /\ type = "ptr" => function \in {"logAccessPtr", "logAccessStaticString"}
    BY DEF FunctionFor, getLogFunction, Floats, logFunctions
  <1> HIDE DEF function
  <1>3. /\ Parameter["logAccessI8"] = "i8" /\ Parameter["logAccessI16"] = "i16"
        /\ Parameter["logAccessI32"] = "i32" /\ Parameter["logAccessI64"] = "i64"
        /\ Parameter["logAccessF64"] = "double" /\ Parameter["logAccessPtr"] = "ptr"
        /\ Parameter["logAccessStaticString"] = "ptr"
    BY DEF Parameter
  <1>4. /\ ValueType["logAccessI8"] = "I8" /\ ValueType["logAccessI16"] = "I16"
        /\ ValueType["logAccessI32"] = "I32" /\ ValueType["logAccessI64"] = "I64"
        /\ ValueType["logAccessF64"] = "F64" /\ ValueType["logAccessPtr"] = "PTR"
        /\ ValueType["logAccessStaticString"] = "PTR"
    BY DEF ValueType
  <1>5. /\ MemberOf["I8"] = "i8" /\ MemberOf["I16"] = "i16" /\ MemberOf["I32"] = "i32"
        /\ MemberOf["I64"] = "i64" /\ MemberOf["F64"] = "double" /\ MemberOf["PTR"] = "ptr"
    BY DEF MemberOf
  <1>6. /\ CastLegal("i1", "i8") /\ CastLegal("i8", "i8") /\ CastLegal("i16", "i16")
        /\ CastLegal("i32", "i32") /\ CastLegal("i64", "i64")
        /\ CastLegal("float", "double") /\ CastLegal("double", "double")
        /\ CastLegal("ptr", "ptr")
    BY DEF CastLegal, Floats
  <1>7. CastLegal(type, Parameter[function])
    BY <1>1, <1>2, <1>3, <1>6
  <1>8. Parameter[function] = MemberOf[ValueType[function]]
    BY <1>1, <1>2, <1>3, <1>4, <1>5
  <1> QED
    BY <1>7, <1>8 DEF function

(* Ids are integers.                                                       *)
LEMMA FilesAre == \A x \in Files : x \in Int /\ x >= -1 /\ x <= 65534
  BY DEF Files

(* No two ids of files are logged as one.                                  *)
LEMMA FieldsDiffer ==
  ASSUME NEW i \in Files, NEW j \in Files, i # j
  PROVE  Field(i) # Field(j)
  <1>1. \A x \in Files : x \in Int /\ x >= -1 /\ x <= 65534
    BY FilesAre
  <1>2. ASSUME NEW x \in Int, x >= -1, x <= 65534
        PROVE  x % 65536 = IF x = -1 THEN 65535 ELSE x
    BY <1>2
  <1>3. /\ Field(i) = IF i = -1 THEN 65535 ELSE i
        /\ Field(j) = IF j = -1 THEN 65535 ELSE j
    BY <1>1, <1>2 DEF Field, FieldValues
  <1> QED
    BY <1>1, <1>3

(* A place of a function is a position in a block of it.                   *)
LEMMA PlaceIs ==
  ASSUME IInv, NEW f \in Finished, NEW ops, NEW place \in Places(f, ops)
  PROVE  /\ place[1] \in 1 .. Len(code[f]) /\ place[1] \in DOMAIN code[f]
         /\ place[2] \in 1 .. Len(code[f][place[1]])
         /\ code[f][place[1]][place[2]].op \in ops
         /\ code[f][place[1]][place[2]] \in Instructions
  <1>1. PICK b \in DOMAIN code[f] : \E p \in DOMAIN code[f][b] :
          place = <<b, p>> /\ code[f][b][p].op \in ops
    BY DEF Places
  <1>2. PICK p \in DOMAIN code[f][b] : place = <<b, p>> /\ code[f][b][p].op \in ops
    BY <1>1
  <1>3. b \in 1 .. Len(code[f]) /\ p \in 1 .. Len(code[f][b]) /\ code[f][b] \in Seq(Instructions)
    BY FinishedIs
  <1>4. code[f][b][p] \in Instructions
    BY <1>3
  <1> QED
    BY <1>2, <1>3, <1>4

(* A log call of an access is before what it was made for, which it fits.  *)
LEMMA LogBefore ==
  ASSUME IInv, NEW f \in Finished, NEW place \in Places(f, AccessLogs)
  PROVE  LET log == code[f][place[1]][place[2]]
             accessed == code[f][place[1]][place[2] + 1]
         IN accessed.type \in DOMAIN Bytes /\ log.type = FunctionFor(Settings(f), accessed.type)
  <1> DEFINE c == code[f][place[1]]
             p == place[2]
             k == Settings(f)
             l == Len(c)
  <1>1. place[1] \in 1 .. Len(code[f]) /\ p \in 1 .. l /\ c[p].op \in AccessLogs
    BY PlaceIs
  <1>2. /\ l \in Nat /\ Terminal(c)
        /\ Kept(f) => Complete(k, allocDefs, c)
        /\ ~Kept(f) => Source(c)
    BY <1>1, FinishedIs
  <1> HIDE DEF c, p, k
  <1>3. Kept(f)
    <2>1. ASSUME Source(c) PROVE FALSE
      <3>1. c[p].op \in SourceOps
        BY <1>1, <2>1, SourceFacts
      <3> QED
        BY <1>1, <3>1 DEF SourceOps, AccessLogs
    <2> QED
      BY <1>2, <2>1
  <1>4. p # l
    BY <1>1, <1>2 DEF Terminal, AccessLogs
  <1>5. l \in Nat
    BY <1>2
  <1>6. p \in Int /\ p + 1 \in 1 .. l /\ p + 1 # 1 /\ p + 1 - 1 = p
    <2> HIDE DEF l
    <2> QED
      BY <1>1, <1>4, <1>5
  <1>7. Before(c, p + 1) = c[p]
    BY <1>6 DEF Before
  <1>8. EntryPair(k, Before(c, p + 1), c[p + 1])
    BY <1>2, <1>3, <1>6, CompleteIs DEF Passed
  <1>9. c[p + 1].type \in DOMAIN Bytes /\ c[p].type = FunctionFor(k, c[p + 1].type)
    BY <1>1, <1>7, <1>8 DEF EntryPair
  <1> QED
    BY <1>9 DEF c, p, k

(* From what the library makes of each log call, a reader gets the value of*)
(* the access, and whether two accesses are of one file.                   *)
THEOREM EntriesAreReadable == Spec => []EntriesRead
  <1>1. IInv => EntriesRead
    <2> SUFFICES ASSUME IInv, NEW f \in Finished, NEW place \in Places(f, AccessLogs)
                 PROVE  LET At(x) == code[f][x[1]][x[2]]
                            Entry(x) == AccessEntry(At(x).type, At(x).file)
                            accessed == code[f][place[1]][place[2] + 1]
                        IN /\ CastLegal(accessed.type, Entry(place).member)
                           /\ Entry(place).member = MemberOf[Entry(place).value_type]
                           /\ \A other \in Places(f, AccessLogs) :
                                At(place).file # At(other).file =>
                                  Entry(place).file # Entry(other).file
      BY DEF EntriesRead
    <2> DEFINE At(x) == code[f][x[1]][x[2]]
               Entry(x) == AccessEntry(At(x).type, At(x).file)
               accessed == code[f][place[1]][place[2] + 1]
    <2>1. /\ accessed.type \in DOMAIN Bytes
          /\ At(place).type = FunctionFor(Settings(f), accessed.type)
      BY LogBefore
    <2>2. \A x : /\ Entry(x).member = Parameter[At(x).type]
                 /\ Entry(x).value_type = ValueType[At(x).type]
                 /\ Entry(x).file = Field(At(x).file)
      BY DEF AccessEntry
    <2>3. \A x \in Places(f, AccessLogs) : At(x).file \in Files
      <3> TAKE x \in Places(f, AccessLogs)
      <3>1. At(x) \in Instructions
        BY PlaceIs
      <3> QED
        BY <3>1, InstructionFacts
    <2> HIDE DEF At, Entry, accessed
    <2>4. /\ CastLegal(accessed.type, Parameter[At(place).type])
          /\ Parameter[At(place).type] = MemberOf[ValueType[At(place).type]]
      BY <2>1, EntryIs
    <2>5. CastLegal(accessed.type, Entry(place).member)
      BY <2>2, <2>4
    <2>6. Entry(place).member = MemberOf[Entry(place).value_type]
      BY <2>2, <2>4
    <2>7. \A other \in Places(f, AccessLogs) :
            At(place).file # At(other).file => Entry(place).file # Entry(other).file
      BY <2>2, <2>3, FieldsDiffer
    <2> QED
      BY <2>5, <2>6, <2>7 DEF At, Entry, accessed
  <1> QED
    BY <1>1, PassInvariant, PTL

(* What lies in a block of a function whose arguments are all logged.      *)
LEMMA LaidOut ==
  ASSUME NEW c, NEW a, Len(a) \in Nat, Layout(c, a, Len(a)), Len(c) \in Nat
  PROVE  /\ \A i \in 1 .. Len(a) :
              /\ 2 * i \in 1 .. Len(c) - 1
              /\ c[2 * i].op = "logAccess_a" /\ c[2 * i].arg = a[i]
              /\ c[2 * i + 1].op = "argstore"
              /\ \A q \in 1 .. 2 * i : c[q].op \in InsertedOps
         /\ \A p \in 1 .. Len(c) : c[p].op = "logAccess_a" =>
              \E i \in 1 .. Len(a) : p = 2 * i
  <1> DEFINE n == Len(a)
             l == Len(c)
  <1>1. /\ l > 1 + n + n
        /\ c[1].op \in {"logInit", "logFnBegin"}
        /\ \A i \in 1 .. n : /\ c[2 * i].op = "logAccess_a" /\ c[2 * i].arg = a[i]
                             /\ c[2 * i + 1].op = "argstore"
        /\ \A p \in 1 .. l : c[p].op = "logAccess_a" => \E i \in 1 .. n : p = 2 * i
    BY DEF Layout
  <1>2. n \in Nat /\ l \in Nat
    OBVIOUS
  <1> HIDE DEF n, l
  <1>3. ASSUME NEW i \in 1 .. n, NEW q \in 1 .. 2 * i
        PROVE  c[q].op \in InsertedOps
    <2>1. \/ q = 1
          \/ \E r \in 1 .. n : q = 2 * r
          \/ \E r \in 1 .. n : q = 2 * r + 1
      <3> DEFINE r == q \div 2
      <3>1. r \in Int /\ (q = 2 * r \/ q = 2 * r + 1)
        BY <1>2
      <3> HIDE DEF r
      <3>2. q # 1 => r \in 1 .. n
        BY <1>2, <3>1
      <3> QED
        BY <3>1, <3>2
    <2>2. c[q].op \in {"logInit", "logFnBegin", "logAccess_a", "argstore"}
      BY <1>1, <2>1
    <2> QED
      BY <2>2 DEF InsertedOps, Logs, AccessLogs
  <1>4. ASSUME NEW i \in 1 .. n
        PROVE  2 * i \in 1 .. l - 1
    BY <1>1, <1>2
  <1> QED
    BY <1>1, <1>3, <1>4 DEF n, l

(* There is one place for each.                                            *)
LEMMA PlacesOfArguments ==
  ASSUME NEW n \in Nat
  PROVE  LET T == {<<1, 2 * i>> : i \in 1 .. n}
         IN IsFiniteSet(T) /\ Cardinality(T) = n
  <1> DEFINE T == {<<1, 2 * i>> : i \in 1 .. n}
             g == [i \in 1 .. n |-> <<1, 2 * i>>]
  <1>1. g \in [1 .. n -> T]
    OBVIOUS
  <1>2. \A i, j \in 1 .. n : g[i] = g[j] => i = j
    OBVIOUS
  <1>3. \A t \in T : \E i \in 1 .. n : g[i] = t
    OBVIOUS
  <1> HIDE DEF g, T
  <1>4. g \in Bijection(1 .. n, T)
    BY <1>1, <1>2, <1>3, Fun_IsBij
  <1>5. ExistsBijection(1 .. n, T)
    BY <1>4, Zenon DEF ExistsBijection
  <1>6. Cardinality(T) = n
    BY <1>5, FS_CountingElements
  <1>7. IsFiniteSet(T)
    BY <1>5, FS_NatBijection
  <1> QED
    BY <1>6, <1>7 DEF T

(* Each argument the filter selects is logged, once, before any instruction*)
(* of the function, and nothing else is logged as an argument there.       *)
THEOREM EveryArgumentIsLogged == Spec => []ArgumentsLogged
  <1>1. IInv => ArgumentsLogged
    <2> SUFFICES ASSUME IInv, NEW f \in Finished,
                        code[f] # <<>>, Kept(f), On(f, "function"), ~allocOnly
                 PROVE  /\ Cardinality(Places(f, {"logAccess_a"})) = Len(Args(f))
                        /\ \A i \in DOMAIN Args(f) :
                             \E p \in 1 .. Len(code[f][1]) - 1 :
                               /\ code[f][1][p].op = "logAccess_a"
                               /\ code[f][1][p].arg = Args(f)[i]
                               /\ code[f][1][p + 1].op = "argstore"
                               /\ \A q \in 1 .. p : code[f][1][q].op \in InsertedOps
      BY DEF ArgumentsLogged
    <2> DEFINE a == Args(f)
               n == Len(a)
               c == code[f][1]
               T == {<<1, 2 * i>> : i \in 1 .. n}
    <2>1. /\ f \in 1 .. NF /\ f < fn /\ Len(code[f]) \in Nat /\ DOMAIN code[f] = 1 .. Len(code[f])
          /\ \A b \in 1 .. Len(code[f]) :
               DOMAIN code[f][b] = 1 .. Len(code[f][b]) /\ Len(code[f][b]) \in Nat
          /\ module.functions[f].params \in Nat
      BY FinishedIs
    <2>2. Len(code[f]) > 0
      <3>1. code \in [1 .. NF -> Seq(Seq(Instructions))]
        BY DEF IInv, PlaceInv
      <3>2. code[f] \in Seq(Seq(Instructions))
        BY <2>1, <3>1
      <3> QED
        BY <3>2
    <2>3. a \in Seq(Int) /\ n \in Nat /\ DOMAIN a = 1 .. n
      BY <2>1, ArgsAre
    <2>4. Layout(c, a, n) /\ \A b \in 2 .. Len(code[f]) : NoArguments(code[f][b])
      BY <2>1 DEF IInv, ArgsInv, Entered
    <2>5. 1 \in 1 .. Len(code[f]) /\ Len(c) \in Nat
      BY <2>1, <2>2
    <2>6. /\ \A i \in 1 .. n :
               /\ 2 * i \in 1 .. Len(c) - 1
               /\ c[2 * i].op = "logAccess_a" /\ c[2 * i].arg = a[i]
               /\ c[2 * i + 1].op = "argstore"
               /\ \A q \in 1 .. 2 * i : c[q].op \in InsertedOps
          /\ \A p \in 1 .. Len(c) : c[p].op = "logAccess_a" => \E i \in 1 .. n : p = 2 * i
      <3> HIDE DEF a, c
      <3> QED
        BY <2>3, <2>4, <2>5, LaidOut
    <2>7. Places(f, {"logAccess_a"}) \subseteq T
      <3> SUFFICES ASSUME NEW place \in Places(f, {"logAccess_a"}) PROVE place \in T
        OBVIOUS
      <3>1. PICK b \in DOMAIN code[f] : \E p \in DOMAIN code[f][b] :
              place = <<b, p>> /\ code[f][b][p].op = "logAccess_a"
        BY DEF Places
      <3>2. PICK p \in DOMAIN code[f][b] : place = <<b, p>> /\ code[f][b][p].op = "logAccess_a"
        BY <3>1
      <3>3. b \in 1 .. Len(code[f]) /\ p \in 1 .. Len(code[f][b])
        BY <2>1
      <3> HIDE DEF a, n
      <3>4. b = 1
        <4>1. ~NoArguments(code[f][b])
          BY <3>2, <3>3 DEF NoArguments
        <4> QED
          BY <2>1, <2>4, <3>3, <4>1
      <3>5. PICK i \in 1 .. n : p = 2 * i
        BY <2>6, <3>2, <3>3, <3>4
      <3> QED
        BY <3>2, <3>4, <3>5
    <2>8. T \subseteq Places(f, {"logAccess_a"})
      <3> SUFFICES ASSUME NEW i \in 1 .. n PROVE <<1, 2 * i>> \in Places(f, {"logAccess_a"})
        OBVIOUS
      <3>1. 1 \in DOMAIN code[f] /\ DOMAIN c = 1 .. Len(c)
        BY <2>1, <2>5
      <3>2. 2 * i \in DOMAIN c /\ c[2 * i].op \in {"logAccess_a"}
        BY <2>3, <2>5, <2>6, <3>1
      <3> QED
        BY <3>1, <3>2 DEF Places
    <2>9. Cardinality(Places(f, {"logAccess_a"})) = n
      <3>1. Places(f, {"logAccess_a"}) = T
        BY <2>7, <2>8
      <3> HIDE DEF n
      <3>2. Cardinality(T) = n
        BY <2>3, PlacesOfArguments
      <3> QED
        BY <3>1, <3>2
    <2>10. ASSUME NEW i \in 1 .. n
           PROVE  \E p \in 1 .. Len(c) - 1 :
                    /\ c[p].op = "logAccess_a" /\ c[p].arg = a[i]
                    /\ c[p + 1].op = "argstore"
                    /\ \A q \in 1 .. p : c[q].op \in InsertedOps
      <3> HIDE DEF a, c, n
      <3>1. /\ 2 * i \in 1 .. Len(c) - 1
            /\ c[2 * i].op = "logAccess_a" /\ c[2 * i].arg = a[i]
            /\ c[2 * i + 1].op = "argstore"
            /\ \A q \in 1 .. 2 * i : c[q].op \in InsertedOps
        BY <2>6
      <3> QED
        BY <3>1
    <2> QED
      BY <2>3, <2>9, <2>10
  <1> QED
    BY <1>1, PassInvariant, PTL

(* Each call is given what the definition of it says, if there is one.     *)
LEMMA CallsAre ==
  ASSUME NEW x \in Given, x.op = "call", NEW file \in AllocFiles, ~LoadExits(file)
  PROVE  LabelledBy(LoadAllocDefs(file), x)
  <1>1. PICK m \in Modules : \E f \in 1 .. Len(m.functions) :
          \E b \in DOMAIN m.functions[f].blocks : \E p \in DOMAIN m.functions[f].blocks[b] :
            m.functions[f].blocks[b][p] = x
    BY DEF Given
  <1>2. IF file.found THEN LabelledBy(LoadAllocDefs(file), x) ELSE LabelledByC(x)
    BY <1>1, AllocationsAssumption
  <1>3. CASE file.found
    BY <1>2, <1>3
  <1>4. CASE ~file.found
    <2> DEFINE d == LoadAllocDefs(file)
               First(i) == d[i].name = x.type /\ \A j \in 1 .. i - 1 : d[j].name # x.type
    <2>1. /\ d = <<[name |-> "malloc", numIdx |-> -1, sizeIdx |-> 0, addrIdx |-> -1],
                   [name |-> "calloc", numIdx |-> 0, sizeIdx |-> 1, addrIdx |-> -1]>>
      BY <1>4 DEF LoadAllocDefs, Fallback, Definition
    <2>2. /\ DOMAIN d = {1, 2}
          /\ d[1].name = "malloc" /\ d[1].numIdx = -1 /\ d[1].sizeIdx = 0
          /\ d[2].name = "calloc" /\ d[2].numIdx = 0 /\ d[2].sizeIdx = 1
      BY <2>1
    <2> HIDE DEF d
    <2>3. LabelledByC(x)
      BY <1>2, <1>4
    <2>4. HasAllocDef(d, x.type) <=> x.type \in {"malloc", "calloc"}
      BY <2>2 DEF HasAllocDef
    <2>5. GetAllocDef(d, x.type) = d[CHOOSE i \in DOMAIN d : First(i)]
      BY Zenon DEF GetAllocDef
    <2>6. CASE x.type = "malloc"
      <3>1. First(1) /\ \A i \in DOMAIN d : First(i) => i = 1
        BY <2>2, <2>6
      <3>2. 1 \in DOMAIN d
        BY <2>2
      <3> HIDE DEF First
      <3>3. (CHOOSE i \in DOMAIN d : First(i)) = 1
        BY <3>1, <3>2
      <3>4. GetAllocDef(d, x.type) = d[1]
        BY <2>5, <3>3
      <3>5. Labelled(x, -1, 0)
        BY <2>3, <2>6 DEF LabelledByC
      <3> QED
        BY <2>2, <2>4, <2>6, <3>4, <3>5 DEF LabelledBy, d
    <2>7. CASE x.type = "calloc"
      <3>1. First(2) /\ \A i \in DOMAIN d : First(i) => i = 2
        BY <2>2, <2>7
      <3>2. 2 \in DOMAIN d
        BY <2>2
      <3> HIDE DEF First
      <3>3. (CHOOSE i \in DOMAIN d : First(i)) = 2
        BY <3>1, <3>2
      <3>4. GetAllocDef(d, x.type) = d[2]
        BY <2>5, <3>3
      <3>5. Labelled(x, 0, 1)
        BY <2>3, <2>7 DEF LabelledByC
      <3> QED
        BY <2>2, <2>4, <2>7, <3>4, <3>5 DEF LabelledBy, d
    <2>8. CASE x.type \notin {"malloc", "calloc"}
      <3>1. Unlabelled(x)
        BY <2>3, <2>8 DEF LabelledByC
      <3> QED
        BY <2>4, <2>8, <3>1 DEF LabelledBy, d
    <2> QED
      BY <2>6, <2>7, <2>8
  <1> QED
    BY <1>3, <1>4

(* Each allocation is logged just after it, with all the call asks for: the*)
(* log call that is inserted is neither taken for a call nor left behind   *)
(* by what is inserted later.                                              *)
THEOREM EveryAllocationIsLogged == Spec => []AllocationsLogged
  <1>1. ASSUME IInv, NEW f \in Finished, NEW place \in Places(f, {"logAlloc"})
        PROVE  After(code[f][place[1]], place[2], "call")
    <2> DEFINE c == code[f][place[1]]
               p == place[2]
               k == Settings(f)
    <2>1. place[1] \in 1 .. Len(code[f]) /\ p \in 1 .. Len(c) /\ c[p].op = "logAlloc"
      BY <1>1, PlaceIs
    <2>2. /\ Len(c) \in Nat
          /\ Kept(f) => Complete(k, allocDefs, c)
          /\ ~Kept(f) => Source(c)
      BY <1>1, <2>1, FinishedIs
    <2> HIDE DEF c, p, k
    <2>3. Kept(f)
      <3>1. ASSUME Source(c) PROVE FALSE
        <4>1. c[p].op \in SourceOps
          BY <2>1, <3>1, SourceFacts
        <4> QED
          BY <2>1, <4>1 DEF SourceOps
      <3> QED
        BY <2>2, <3>1
    <2>4. AllocPair(k, allocDefs, Before(c, p), c[p])
      BY <2>1, <2>2, <2>3, CompleteIs DEF Always
    <2>5. Before(c, p).op = "call"
      BY <2>1, <2>4 DEF AllocPair, Allocates
    <2>6. After(c, p, "call")
      BY <2>1, <2>2, <2>5, AfterIs
    <2> QED
      BY <2>6 DEF c, p
  <1>2. ASSUME IInv, NEW f \in Finished, NEW place \in Places(f, {"call"})
        PROVE  LET block == code[f][place[1]]
                   call == block[place[2]]
                   next == block[place[2] + 1]
                   size == {"size", "count"} \cap {call.given[i] : i \in DOMAIN call.given}
               IN IF Kept(f) /\ On(f, "alloc") /\ size # {}
                  THEN /\ next.op = "logAlloc" /\ next.file = call.file
                       /\ next.given = <<"size", IF "count" \in size THEN "count" ELSE "1">>
                  ELSE next.op # "logAlloc"
    <2> DEFINE c == code[f][place[1]]
               p == place[2]
               k == Settings(f)
               l == Len(c)
               x == c[p]
               y == c[p + 1]
               def == GetAllocDef(allocDefs, x.type)
               size == {"size", "count"} \cap {x.given[i] : i \in DOMAIN x.given}
    <2>1. /\ place[1] \in 1 .. Len(code[f]) /\ p \in 1 .. l
          /\ x.op = "call" /\ x \in Instructions
      BY <1>2, PlaceIs
    <2>2. /\ l \in Nat /\ Terminal(c) /\ f \in 1 .. NF /\ f < fn /\ module \in Modules
          /\ Kept(f) => Complete(k, allocDefs, c)
          /\ ~Kept(f) => Source(c)
      BY <1>2, <2>1, FinishedIs
    <2>3. "alloc" \in k <=> On(f, "alloc")
      BY <2>2, SettingsAre
    <2>4. x \in Given
      BY <2>1, InstructionFacts DEF SourceOps
    <2>5. PICK file \in AllocFiles : ~LoadExits(file) /\ allocDefs = LoadAllocDefs(file)
      <3>1. fn > 1
        <4>1. fn \in Nat /\ f \in 1 .. NF /\ f < fn
          BY <1>2, <2>2 DEF IInv, PlaceInv
        <4> QED
          BY <4>1
      <3> QED
        BY <1>2, <3>1 DEF IInv, PlaceInv
    <2>6. LabelledBy(allocDefs, x)
      BY <2>1, <2>4, <2>5, CallsAre
    <2> HIDE DEF k, c, p
    <2>7. p < l
      BY <2>1, <2>2, CallIsNotLast
    <2>8. p \in Int /\ p + 1 \in 1 .. l /\ p + 1 # 1 /\ p + 1 - 1 = p
      <3>1. l \in Nat /\ p \in 1 .. l /\ p < l
        BY <2>1, <2>2, <2>7
      <3> HIDE DEF l
      <3> QED
        BY <3>1
    <2>9. Before(c, p + 1) = x
      BY <2>8 DEF Before
    <2>10. Kept(f) => AllocPair(k, allocDefs, x, y) /\ CallPair(k, allocDefs, x, y)
      BY <2>2, <2>8, <2>9, CompleteIs DEF Always
    <2>11. ~Kept(f) => y.op # "logAlloc"
      <3>1. ~Kept(f) => y.op \in SourceOps
        BY <2>2, <2>8, SourceFacts
      <3> QED
        BY <3>1 DEF SourceOps
    <2>12. x \in SourceInstructions
      BY <2>4 DEF Given
    <2> HIDE DEF x, y, def, l
    <2>13. size # {} <=> HasAllocDef(allocDefs, x.type)
      BY <2>6 DEF LabelledBy, Labelled, Unlabelled
    <2>14. CASE Kept(f) /\ On(f, "alloc") /\ size # {}
      <3>1. Allocates(k, allocDefs, x)
        BY <2>1, <2>3, <2>13, <2>14 DEF Allocates
      <3>2. y = LogAlloc(x, def) /\ y.op = "logAlloc"
        BY <2>10, <2>14, <3>1 DEF AllocPair, CallPair, def
      <3>3. /\ y.file = x.file
            /\ y.given = <<x.given[def.sizeIdx + 1],
                           IF def.numIdx # -1 THEN x.given[def.numIdx + 1] ELSE "1">>
        BY <2>12, <3>2, LogAllocIs
      <3>4. Labelled(x, def.numIdx, def.sizeIdx)
        BY <2>6, <2>13, <2>14 DEF LabelledBy, def
      <3>5. x.given[def.sizeIdx + 1] = "size"
        BY <3>4 DEF Labelled
      <3>6. (IF def.numIdx # -1 THEN x.given[def.numIdx + 1] ELSE "1")
              = IF "count" \in size THEN "count" ELSE "1"
        <4>1. CASE def.numIdx = -1
          BY <3>4, <4>1 DEF Labelled
        <4>2. CASE def.numIdx # -1
          BY <3>4, <4>2 DEF Labelled
        <4> QED
          BY <4>1, <4>2
      <3> HIDE DEF size
      <3>7. y.given = <<"size", IF "count" \in size THEN "count" ELSE "1">>
        BY <3>3, <3>5, <3>6
      <3> QED
        BY <2>14, <3>2, <3>3, <3>7 DEF x, y, c, p, size
    <2>15. CASE ~(Kept(f) /\ On(f, "alloc") /\ size # {})
      <3>1. y.op # "logAlloc"
        BY <2>3, <2>10, <2>11, <2>13, <2>15 DEF AllocPair, Allocates
      <3> HIDE DEF size
      <3> QED
        BY <2>15, <3>1 DEF x, y, c, p, size
    <2> QED
      BY <2>14, <2>15
  <1>3. IInv => AllocationsLogged
    BY <1>1, <1>2 DEF AllocationsLogged
  <1> QED
    BY <1>3, PassInvariant, PTL
=============================================================================
