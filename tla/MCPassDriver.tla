----------------------------- MODULE MCPassDriver -----------------------------
(* PassDriver for TLC: modules of two functions, and filters.              *)
EXTENDS PassDriver, TLC

(* Names and file names: "m", "f", "gf", "x".                              *)
M == <<5>>
F == <<2>>
G == <<3, 2>>
X == <<9>>

MCNames == {M, F, G, X}

Store(k) == [Instruction("store") EXCEPT !.arg = k]

Of(op, type, file) == [Instruction(op) EXCEPT !.type = type, !.file = file]

Call(name, given) == [Instruction("call") EXCEPT !.type = name, !.given = given, !.file = 7]

I(op) == Instruction(op)

(* What calls call, and what they are given.                               *)
MCSymbols == {"f", "calloc", "malloc", "size", "count", "other"}

(* -O0 code: parameters are stored in the entry block; one is stored again,*)
(* loads and stores of all types in other blocks, allocations, two returns,*)
(* a call of exit.  The ids of some files differ in their high byte only.  *)
Bodies ==
  { <<>>,
    << <<Store(0), Store(1), Store(0), Call("f", <<"other">>), I("br")>>,
       <<Of("load", "i16", 255), Call("calloc", <<"count", "size">>), Of("store", "i1", 511), I("ret")>>,
       <<Of("load", "struct", 7), Of("store", "float", -1), I("ret")>> >>,
    << <<Of("store", "ptr", 65279), Call("malloc", <<"size">>), I("exit"), I("unreachable")>>,
       <<Of("store", "i64", 65534), Of("store", "wide", 7), I("ret")>> >> }

Functions ==
  {[name |-> n, kind |-> IF n = M THEN "main"
                         ELSE IF n = G THEN "initialiser"
                         ELSE IF s = 8 THEN "plain" ELSE "tracepoint",
    params |-> 2, size |-> s, blocks |-> b]
   : n \in {M, F, G}, s \in {2, 8}, b \in Bodies}

MCModules ==
  {[file |-> X, functions |-> <<f, g>>] :
     f \in {h \in Functions : h.name = F /\ h.size = 8},
     g \in {h \in Functions : h.name # F \/ (h.blocks = <<>> /\ h.size = 2)}}

(* No alloc.in, one with the functions in another order, with a definition *)
(* that comes too late and one of a macro, and one with an empty line.     *)
MCAllocFiles ==
  { [found |-> FALSE, lines |-> <<>>],
    [found |-> TRUE, lines |-> <<Comment, Definition("calloc", 0, 1, -1),
        Definition("malloc", -1, 0, -1), Definition("!f", -1, -1, 2),
        Definition("calloc", 1, 0, -1)>>],
    [found |-> TRUE, lines |-> <<Definition("malloc", -1, 0, -1), Unparsable>>] }

(* The second glob is "*f".                                                *)
Whitelists ==
  UNION {[globs -> {[events |-> choice[1], arguments |-> choice[2]] :
                      choice \in {<<{}, {0, 1, 2}>>, <<{"function"}, {}>>,
                                  <<{"function"}, {0, 1, 2}>>,
                                  <<{"access", "alloc"}, {}>>, <<Events, {0, 1, 2}>>}}]
         : globs \in {{}, {<<0>>}, {<<0, 2>>}}}

(* Blacklists and whitelists of files.                                     *)
FileLists == {<<{}, {}>>, <<{}, {F}>>, <<{X}, {}>>}

MCFilterFiles ==
  {[loaded |-> TRUE, functionFilters |-> w, minimum |-> choice[1],
    functionBlacklist |-> choice[2],
    fileBlacklist |-> choice[3][1], fileWhitelist |-> choice[3][2]] :
     w \in Whitelists,
     choice \in {<<{}, {}, l>> : l \in FileLists}
                \cup {<<{}, {F}, <<{}, {}>>>>, <<{5}, {}, <<{}, {}>>>>}}
=============================================================================
