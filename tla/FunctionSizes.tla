---------------------------- MODULE FunctionSizes -----------------------------
(***************************************************************************)
(* InstrumentationFilter.hpp: function_sizes.json, the sizes of all        *)
(* functions met so far.  Every compiler reads it when its filter is       *)
(* constructed, adds the functions of its module to its own copy, and      *)
(* writes the copy back when the filter is destroyed.  Nothing is locked.  *)
(*                                                                         *)
(* A text is the map it stands for.  One that does not parse, of a file    *)
(* that is being written or that two compilers have written into each      *)
(* other, reads as no entries.                                             *)
(***************************************************************************)
EXTENDS Integers

CONSTANTS
  Compilers,
  Functions,
  Sizes,     (* sizes of functions, of type size_t                         *)
  Modulus,   (* 2^32, one more than the largest size the pass finds        *)
  NoSize     (* the size of a function that has no entry                   *)

ASSUME FunctionSizesAssumption ==
  /\ Modulus \in Nat /\ Modulus \div 2 \in Nat /\ Modulus = 2 * (Modulus \div 2)
  /\ Sizes \subseteq 0 .. Modulus - 1
  /\ NoSize \notin Int

(* Texts: of an empty or missing file, and one that does not parse.        *)
Empty == [whole |-> FALSE, torn |-> FALSE, entries |-> [f \in Functions |-> NoSize]]

Torn == [Empty EXCEPT !.torn = TRUE]

(* std::map<string, int>                                                   *)
Int32 == -(Modulus \div 2) .. Modulus \div 2 - 1

Entries == [Functions -> Int32 \cup {NoSize}]

VARIABLES
  size,      (* of each function in the module of each compiler, 0 if it is*)
             (* only declared there or has no lines                        *)
  pc,        (* "off", "compiling", "saving", "ended", "killed"            *)
  todo,      (* the functions runOnModule has not come to                  *)
  functions, (* the map of each compiler's filter                          *)
  file,      (* function_sizes.json                                        *)
  intact,    (* the compilers saving to a file no other has touched since  *)
  \* What has happened:
  before,    (* the entries of the file when nobody was compiling last     *)
  alone,     (* the compiler started then, if no other has been since      *)
  clashed,   (* two have been saving at once, or one was killed saving     *)
  last       (* the compilers that have saved last                         *)

vars == <<size, pc, todo, functions, file, intact, before, alone, clashed, last>>

-----------------------------------------------------------------------------
(* An int of the size.                                                     *)
Recorded(s) == IF s >= Modulus \div 2 THEN s - Modulus ELSE s

Text(entries) == [whole |-> TRUE, torn |-> FALSE, entries |-> entries]

(* map[f] = s unless it is there already; the mutant notes no size too.    *)
NotedZero(map, f, s) ==
  IF map[f] = NoSize THEN [map EXCEPT ![f] = Recorded(s)] ELSE map

Noted(map, f, s) ==
  IF s > 0 /\ map[f] = NoSize THEN [map EXCEPT ![f] = Recorded(s)] ELSE map

Saving == {c \in Compilers : pc[c] = "saving"}

Running == {c \in Compilers : pc[c] \in {"compiling", "saving"}}

(* What is in the file after c has written its text: others may have       *)
(* written before it, longer texts too, or emptied the file half way.      *)
Written(c) ==
  IF c \in intact /\ file = Empty THEN {Text(functions[c])} ELSE {Text(functions[c]), Torn}

-----------------------------------------------------------------------------
(* The system.                                                             *)

Init ==
  /\ size \in [Compilers -> [Functions -> Sizes]]
  /\ pc = [c \in Compilers |-> "off"]
  /\ todo = [c \in Compilers |-> Functions]
  /\ functions = [c \in Compilers |-> Empty.entries]
  /\ file = Empty
  /\ intact = {}
  /\ before = Empty.entries /\ alone = {} /\ clashed = FALSE /\ last = {}

(* The filter is constructed, and reads the file.  The mutant leaves that  *)
(* to a load that never comes.                                             *)
LoadedNot == Empty.entries

Loaded == file.entries

Start(c) ==
  /\ pc[c] = "off"
  /\ pc' = [pc EXCEPT ![c] = "compiling"]
  /\ functions' = [functions EXCEPT ![c] = Loaded]
  /\ before' = IF Running = {} THEN file.entries ELSE before
  /\ alone' = IF Running = {} THEN {c} ELSE {}
  /\ UNCHANGED <<size, todo, file, intact, clashed, last>>

(* checkFunctionSize, for a function of the module.                        *)
CheckFunctionSize(c) ==
  /\ pc[c] = "compiling"
  /\ \E f \in todo[c] :
       /\ todo' = [todo EXCEPT ![c] = @ \ {f}]
       /\ functions' = [functions EXCEPT ![c] = Noted(@, f, size[c][f])]
  /\ UNCHANGED <<size, pc, file, intact, before, alone, clashed, last>>

(* The filter is destroyed: the file is opened with truncation.  The mutant*)
(* writes over what is there.                                              *)
OpenedOver == file

Opened == Empty

Open(c) ==
  /\ pc[c] = "compiling" /\ todo[c] = {}
  /\ pc' = [pc EXCEPT ![c] = "saving"]
  /\ file' = Opened
  /\ intact' = {c}
  /\ clashed' = (clashed \/ Saving # {})
  /\ UNCHANGED <<size, todo, functions, before, alone, last>>

(* ... the text is written and the file closed.                            *)
Save(c) ==
  /\ pc[c] = "saving"
  /\ pc' = [pc EXCEPT ![c] = "ended"]
  /\ file' \in Written(c)
  /\ intact' = {}
  /\ last' = {c}
  /\ UNCHANGED <<size, todo, functions, before, alone, clashed>>

(* The compiler is killed or exits: no destructor runs, or the file is left*)
(* with none or some of the text.                                          *)
Kill(c) ==
  /\ c \in Running
  /\ pc' = [pc EXCEPT ![c] = "killed"]
  /\ \/ UNCHANGED file /\ intact' = intact \ {c}
     \/ pc[c] = "saving" /\ file' = Torn /\ intact' = {}
  /\ clashed' = (clashed \/ pc[c] = "saving")
  /\ UNCHANGED <<size, todo, functions, before, alone, last>>

Next ==
  \E c \in Compilers :
    Start(c) \/ CheckFunctionSize(c) \/ Open(c) \/ Save(c) \/ Kill(c)

Spec == Init /\ [][Next]_vars

-----------------------------------------------------------------------------
(* Correctness.                                                            *)

(* The types of all variables: sizes are ints; and only a compiler that is *)
(* saving can have the file to itself.                                     *)
TypeOK ==
  /\ size \in [Compilers -> [Functions -> Sizes]]
  /\ pc \in [Compilers -> {"off", "compiling", "saving", "ended", "killed"}]
  /\ todo \in [Compilers -> SUBSET Functions]
  /\ functions \in [Compilers -> Entries]
  /\ file \in [whole : BOOLEAN, torn : BOOLEAN, entries : Entries]
  /\ intact \subseteq Saving
  /\ before \in Entries
  /\ alone \subseteq Compilers /\ clashed \in BOOLEAN
  /\ last \subseteq Compilers

(* A compiler that no other overlaps loses nothing: it leaves the file with*)
(* all entries that were in it, as they were, and with the sizes of the    *)
(* functions of its own module that had no entry.                          *)
AloneExtends ==
  \A c \in alone :
    pc[c] = "ended" =>
      file = Text([f \in Functions |->
                     IF before[f] # NoSize THEN before[f]
                     ELSE IF size[c][f] > 0 THEN Recorded(size[c][f]) ELSE NoSize])

(* However many compilers overlap or are killed, every entry is the size of*)
(* the function in one of the modules compiled, and not 0.                 *)
SizesGiven ==
  \A f \in Functions :
    LET given == {Recorded(size[c][f]) : c \in {d \in Compilers : pc[d] # "off"}}
    IN /\ file.entries[f] \in (given \ {0}) \cup {NoSize}
       /\ \A c \in Compilers : functions[c][f] \in (given \ {0}) \cup {NoSize}

(* As long as no two compilers save at once, and none is killed there, the *)
(* file is the whole map of the one that saved last: what is lost of others*)
(* is what that one had not read, and never more.                          *)
WholeMapOfLast ==
  ~clashed /\ Saving = {} => \A c \in last : file = Text(functions[c])

=============================================================================
