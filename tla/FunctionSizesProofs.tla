------------------------- MODULE FunctionSizesProofs --------------------------
(***************************************************************************)
(* Proofs about FunctionSizes, for any number of compilers and functions.  *)
(* The invariant adds to the properties what holds while the one compiler  *)
(* that runs alone is at work, and whose file it is while one saves.       *)
(***************************************************************************)
EXTENDS FunctionSizes, TLAPS

(* The entries before, extended by those functions of c it has come to.    *)
Extended(c) ==
  [f \in Functions |->
     IF before[f] # NoSize THEN before[f]
     ELSE IF f \notin todo[c] /\ size[c][f] > 0 THEN Recorded(size[c][f]) ELSE NoSize]

(* The compiler that runs alone, at each stage.                            *)
AloneInv ==
  \A c \in alone :
    /\ alone = {c} /\ Running \subseteq {c} /\ pc[c] # "off"
    /\ pc[c] = "compiling" => file.entries = before
    /\ pc[c] = "saving" => c \in intact
    /\ pc[c] = "ended" => file = Text(functions[c])
    /\ pc[c] \in {"saving", "ended"} => todo[c] = {}
    /\ pc[c] \in {"compiling", "saving", "ended"} => functions[c] = Extended(c)

(* A compiler that has the file to itself is the only one, and the file    *)
(* empty; without clashes every compiler that saves has it.                *)
OwnerInv ==
  /\ \A c \in intact : intact = {c} /\ file = Empty
  /\ ~clashed => \A c \in Saving : Saving = {c} /\ c \in intact
  /\ \A c \in last : pc[c] = "ended"
  /\ \A c \in Compilers : pc[c] = "off" => todo[c] = Functions

Inv == TypeOK /\ SizesGiven /\ WholeMapOfLast /\ AloneInv /\ OwnerInv

-----------------------------------------------------------------------------
(* A size is an int, and none but 0 becomes 0.                             *)
LEMMA RecordedInt ==
  ASSUME NEW s \in Sizes
  PROVE  /\ Recorded(s) \in Int32
         /\ s > 0 => Recorded(s) # 0
<1> DEFINE half == Modulus \div 2
<1>1. half \in Nat /\ Modulus = 2 * half /\ s \in Int /\ 0 <= s /\ s < 2 * half
  BY FunctionSizesAssumption
<1> HIDE DEF half
<1>2. Recorded(s) = IF s >= half THEN s - 2 * half ELSE s
  BY <1>1 DEF Recorded, half
<1>3. Int32 = -half .. half - 1
  BY DEF Int32, half
<1> QED BY <1>1, <1>2, <1>3

(* Texts and maps.                                                         *)
LEMMA TextType ==
  /\ Empty.entries \in Entries
  /\ Empty.entries = [f \in Functions |-> NoSize]
  /\ Empty \in [whole : BOOLEAN, torn : BOOLEAN, entries : Entries]
  /\ Torn \in [whole : BOOLEAN, torn : BOOLEAN, entries : Entries]
  /\ Torn.entries = Empty.entries
  /\ \A e \in Entries :
       /\ Text(e) \in [whole : BOOLEAN, torn : BOOLEAN, entries : Entries]
       /\ Text(e).entries = e
BY DEF Empty, Torn, Entries, Text

(* A function noted is the only one of which the map changes, if it had no *)
(* entry and has a size.                                                   *)
LEMMA NotedMap ==
  ASSUME NEW map \in Entries, NEW f \in Functions, NEW s \in Sizes
  PROVE  /\ Noted(map, f, s) \in Entries
         /\ Noted(map, f, s) =
              [g \in Functions |-> IF g = f /\ s > 0 /\ map[f] = NoSize
                                   THEN Recorded(s) ELSE map[g]]
<1>1. Recorded(s) \in Int32
  BY RecordedInt
<1> QED BY <1>1 DEF Noted, Entries

-----------------------------------------------------------------------------
(* Init establishes the invariant.                                         *)
LEMMA InvInit == Init => Inv
<1> SUFFICES ASSUME Init PROVE Inv
  OBVIOUS
<1>1. Saving = {} /\ Running = {}
  BY DEF Init, Saving, Running
<1>2. TypeOK
  BY <1>1, TextType DEF Init, TypeOK
<1>3. SizesGiven
  BY TextType DEF Init, SizesGiven
<1> QED BY <1>1, <1>2, <1>3 DEF Init, Inv, WholeMapOfLast, AloneInv, OwnerInv

(* A compiler starts: its map is that of the file.                         *)
LEMMA StartStep ==
  ASSUME Inv, NEW c \in Compilers, Start(c)
  PROVE  Inv'
<1>1. TypeOK /\ SizesGiven /\ WholeMapOfLast /\ AloneInv /\ OwnerInv
  BY DEF Inv
<1>2. /\ pc[c] = "off" /\ pc' = [pc EXCEPT ![c] = "compiling"]
      /\ functions' = [functions EXCEPT ![c] = file.entries]
      /\ before' = IF Running = {} THEN file.entries ELSE before
      /\ alone' = IF Running = {} THEN {c} ELSE {}
      /\ UNCHANGED <<size, todo, file, intact, clashed, last>>
  BY DEF Start, Loaded
<1>3. file.entries \in Entries
  BY <1>1 DEF TypeOK
<1>4. Saving' = Saving /\ Running' = Running \cup {c}
  BY <1>1, <1>2 DEF Saving, Running, TypeOK
<1>5. TypeOK'
  BY <1>1, <1>2, <1>3, <1>4 DEF TypeOK
<1>6. SizesGiven'
  BY <1>1, <1>2 DEF SizesGiven, TypeOK
<1>7. WholeMapOfLast'
  BY <1>1, <1>2, <1>4 DEF WholeMapOfLast, OwnerInv, TypeOK, Text
<1>8. AloneInv'
  <2> SUFFICES ASSUME NEW d \in alone' PROVE AloneInv'
    BY DEF AloneInv
  <2>1. Running = {} /\ d = c /\ alone' = {c} /\ before' = file.entries
    BY <1>2
  <2>2. pc'[c] = "compiling" /\ functions'[c] = file.entries /\ todo'[c] = Functions
    BY <1>1, <1>2 DEF TypeOK, OwnerInv
  <2>3. file.entries = Extended(c)'
    BY <1>3, <2>1, <2>2 DEF Extended, Entries
  <2> QED BY <1>2, <1>4, <2>1, <2>2, <2>3 DEF AloneInv
<1>9. OwnerInv'
  BY <1>1, <1>2, <1>4 DEF OwnerInv, TypeOK
<1> QED BY <1>5, <1>6, <1>7, <1>8, <1>9 DEF Inv

(* The pass comes to a function.                                           *)
LEMMA CheckStep ==
  ASSUME Inv, NEW c \in Compilers, CheckFunctionSize(c)
  PROVE  Inv'
<1>1. TypeOK /\ SizesGiven /\ WholeMapOfLast /\ AloneInv /\ OwnerInv
  BY DEF Inv
<1>2. PICK f \in todo[c] :
        /\ todo' = [todo EXCEPT ![c] = @ \ {f}]
        /\ functions' = [functions EXCEPT ![c] = Noted(@, f, size[c][f])]
  BY DEF CheckFunctionSize
<1>3. /\ pc[c] = "compiling" /\ f \in Functions /\ size[c][f] \in Sizes
      /\ UNCHANGED <<size, pc, file, intact, before, alone, clashed, last>>
  BY <1>1 DEF CheckFunctionSize, TypeOK
<1> DEFINE new == Noted(functions[c], f, size[c][f])
<1>4. /\ new \in Entries
      /\ new = [g \in Functions |->
                  IF g = f /\ size[c][f] > 0 /\ functions[c][f] = NoSize
                  THEN Recorded(size[c][f]) ELSE functions[c][g]]
  <2>1. functions[c] \in Entries
    BY <1>1 DEF TypeOK
  <2> QED BY <1>3, <2>1, NotedMap
<1>5. /\ functions' = [functions EXCEPT ![c] = new]
      /\ functions'[c] = new /\ todo'[c] = todo[c] \ {f}
      /\ \A d \in Compilers \ {c} : functions'[d] = functions[d] /\ todo'[d] = todo[d]
  BY <1>1, <1>2 DEF TypeOK
<1> HIDE DEF new
<1>6. Saving' = Saving /\ Running' = Running
  BY <1>3 DEF Saving, Running
<1>7. TypeOK'
  BY <1>1, <1>2, <1>3, <1>4, <1>5, <1>6 DEF TypeOK
<1>8. SizesGiven'
  <2> DEFINE given(g) == {Recorded(size[d][g]) : d \in {e \in Compilers : pc[e] # "off"}}
  <2>1. \A g \in Functions : new[g] \in (given(g) \ {0}) \cup {NoSize}
    <3> SUFFICES ASSUME NEW g \in Functions PROVE new[g] \in (given(g) \ {0}) \cup {NoSize}
      OBVIOUS
    <3>1. functions[c][g] \in (given(g) \ {0}) \cup {NoSize}
      BY <1>1 DEF SizesGiven
    <3>2. size[c][f] > 0 => Recorded(size[c][f]) \in given(f) \ {0}
      BY <1>3, RecordedInt
    <3> QED BY <1>4, <3>1, <3>2
  <2>2. \A d \in Compilers : \A g \in Functions :
          functions'[d][g] \in (given(g) \ {0}) \cup {NoSize}
    BY <1>1, <1>5, <2>1 DEF SizesGiven
  <2> QED BY <1>1, <1>3, <2>2 DEF SizesGiven
<1>9. WholeMapOfLast'
  <2>1. c \notin last /\ last \subseteq Compilers
    BY <1>1, <1>3 DEF OwnerInv, TypeOK
  <2> QED BY <1>1, <1>3, <1>5, <1>6, <2>1 DEF WholeMapOfLast, Text
<1>10. AloneInv'
  <2> SUFFICES ASSUME NEW d \in alone PROVE AloneInv'
    BY <1>3 DEF AloneInv
  <2>1. d = c /\ alone = {c}
    BY <1>1, <1>3 DEF AloneInv, Running
  <2>2. functions[c] = Extended(c) /\ file.entries = before /\ Running \subseteq {c}
    BY <1>1, <1>3, <2>1 DEF AloneInv
  <2>3. new = Extended(c)'
    <3> SUFFICES ASSUME NEW g \in Functions PROVE new[g] = Extended(c)'[g]
      BY <1>4 DEF Extended
    <3>1. CASE g = f
      BY <1>2, <1>3, <1>4, <1>5, <2>2, <3>1 DEF Extended
    <3>2. CASE g # f
      BY <1>3, <1>4, <1>5, <2>2, <3>2 DEF Extended
    <3> QED BY <3>1, <3>2
  <2> QED BY <1>3, <1>5, <1>6, <2>1, <2>2, <2>3 DEF AloneInv
<1>11. OwnerInv'
  BY <1>1, <1>3, <1>5, <1>6 DEF OwnerInv
<1> QED BY <1>7, <1>8, <1>9, <1>10, <1>11 DEF Inv

(* The file is opened with truncation.                                     *)
LEMMA OpenStep ==
  ASSUME Inv, NEW c \in Compilers, Open(c)
  PROVE  Inv'
<1>1. TypeOK /\ SizesGiven /\ WholeMapOfLast /\ AloneInv /\ OwnerInv
  BY DEF Inv
<1>2. /\ pc[c] = "compiling" /\ todo[c] = {} /\ pc' = [pc EXCEPT ![c] = "saving"]
      /\ file' = Empty /\ intact' = {c} /\ clashed' = (clashed \/ Saving # {})
      /\ UNCHANGED <<size, todo, functions, before, alone, last>>
  BY DEF Open, Opened
<1>3. Saving' = Saving \cup {c} /\ Running' = Running /\ c \in Running
  BY <1>1, <1>2 DEF Saving, Running, TypeOK
<1>4. TypeOK'
  BY <1>1, <1>2, <1>3, TextType DEF TypeOK
<1>5. SizesGiven'
  BY <1>1, <1>2, TextType DEF SizesGiven, TypeOK
<1>6. WholeMapOfLast'
  BY <1>3 DEF WholeMapOfLast
<1>7. AloneInv'
  BY <1>1, <1>2, <1>3 DEF AloneInv, TypeOK, Extended
<1>8. OwnerInv'
  BY <1>1, <1>2, <1>3 DEF OwnerInv, TypeOK
<1> QED BY <1>4, <1>5, <1>6, <1>7, <1>8 DEF Inv

(* The text is written.                                                    *)
LEMMA SaveStep ==
  ASSUME Inv, NEW c \in Compilers, Save(c)
  PROVE  Inv'
<1>1. TypeOK /\ SizesGiven /\ WholeMapOfLast /\ AloneInv /\ OwnerInv
  BY DEF Inv
<1>2. /\ pc[c] = "saving" /\ pc' = [pc EXCEPT ![c] = "ended"]
      /\ file' \in Written(c) /\ intact' = {} /\ last' = {c}
      /\ UNCHANGED <<size, todo, functions, before, alone, clashed>>
  BY DEF Save
<1>3. Saving' = Saving \ {c} /\ Running' = Running \ {c} /\ c \in Saving /\ c \in Running
  BY <1>1, <1>2 DEF Saving, Running, TypeOK
<1>4. functions[c] \in Entries
  BY <1>1 DEF TypeOK
<1>5. /\ file' = Text(functions[c]) \/ file' = Torn
      /\ c \in intact => file' = Text(functions[c])
  BY <1>1, <1>2 DEF Written, OwnerInv
<1>6. TypeOK'
  BY <1>1, <1>2, <1>3, <1>4, <1>5, TextType DEF TypeOK
<1>7. SizesGiven'
  <2>1. file'.entries = functions[c] \/ file'.entries = Empty.entries
    BY <1>4, <1>5, TextType
  <2> QED BY <1>1, <1>2, <2>1, TextType DEF SizesGiven, TypeOK
<1>8. WholeMapOfLast'
  BY <1>1, <1>2, <1>3, <1>5 DEF WholeMapOfLast, OwnerInv, Text
<1>9. AloneInv'
  <2> SUFFICES ASSUME NEW d \in alone PROVE AloneInv'
    BY <1>2 DEF AloneInv
  <2>1. d = c /\ alone = {c} /\ c \in intact /\ todo[c] = {} /\ functions[c] = Extended(c)
    BY <1>1, <1>2, <1>3 DEF AloneInv
  <2>2. file' = Text(functions'[c]) /\ Running' \subseteq {c} /\ pc'[c] = "ended"
    BY <1>1, <1>2, <1>3, <1>5, <2>1 DEF AloneInv, TypeOK
  <2>3. Extended(c)' = Extended(c)
    BY <1>2 DEF Extended
  <2> QED BY <1>2, <2>1, <2>2, <2>3 DEF AloneInv
<1>10. OwnerInv'
  BY <1>1, <1>2, <1>3 DEF OwnerInv, TypeOK
<1> QED BY <1>6, <1>7, <1>8, <1>9, <1>10 DEF Inv

(* A compiler is killed.                                                   *)
LEMMA KillStep ==
  ASSUME Inv, NEW c \in Compilers, Kill(c)
  PROVE  Inv'
<1>1. TypeOK /\ SizesGiven /\ WholeMapOfLast /\ AloneInv /\ OwnerInv
  BY DEF Inv
<1>2. /\ c \in Running /\ pc' = [pc EXCEPT ![c] = "killed"]
      /\ \/ file' = file /\ intact' = intact \ {c}
         \/ pc[c] = "saving" /\ file' = Torn /\ intact' = {}
      /\ clashed' = (clashed \/ pc[c] = "saving")
      /\ UNCHANGED <<size, todo, functions, before, alone, last>>
  BY DEF Kill
<1>3. Saving' = Saving \ {c} /\ Running' = Running \ {c} /\ pc[c] \in {"compiling", "saving"}
  BY <1>1, <1>2 DEF Saving, Running, TypeOK
<1>4. TypeOK'
  BY <1>1, <1>2, <1>3, TextType DEF TypeOK
<1>5. SizesGiven'
  BY <1>1, <1>2, <1>3, TextType DEF SizesGiven, TypeOK
<1>6. WholeMapOfLast'
  BY <1>1, <1>2, <1>3 DEF WholeMapOfLast, Saving, TypeOK
<1>7. AloneInv'
  BY <1>1, <1>2, <1>3 DEF AloneInv, TypeOK
<1>8. OwnerInv'
  BY <1>1, <1>2, <1>3 DEF OwnerInv, TypeOK, Saving
<1> QED BY <1>4, <1>5, <1>6, <1>7, <1>8 DEF Inv

(* Every step keeps the invariant.                                         *)
LEMMA InvStep == Inv /\ [Next]_vars => Inv'
<1> SUFFICES ASSUME Inv, [Next]_vars PROVE Inv'
  OBVIOUS
<1>1. CASE UNCHANGED vars
  BY <1>1 DEF vars, Inv, TypeOK, SizesGiven, WholeMapOfLast, AloneInv, OwnerInv,
              Saving, Running, Extended
<1>2. ASSUME NEW c \in Compilers,
             Start(c) \/ CheckFunctionSize(c) \/ Open(c) \/ Save(c) \/ Kill(c)
      PROVE  Inv'
  BY <1>2, StartStep, CheckStep, OpenStep, SaveStep, KillStep
<1> QED BY <1>1, <1>2 DEF Next

-----------------------------------------------------------------------------
(* Every size noted is an int, and a compiler has the file to itself only  *)
(* while it saves.                                                         *)
THEOREM TypeCorrect == Spec => []TypeOK
<1>1. Inv => TypeOK
  BY DEF Inv
<1> QED BY <1>1, InvInit, InvStep, PTL DEF Spec

(* However many compilers overlap or are killed, no entry is made up.      *)
THEOREM EntriesGiven == Spec => []SizesGiven
<1>1. Inv => SizesGiven
  BY DEF Inv
<1> QED BY <1>1, InvInit, InvStep, PTL DEF Spec

(* A compiler that overlaps no other loses nothing.                        *)
THEOREM AloneLosesNothing == Spec => []AloneExtends
<1>1. Inv => AloneExtends
  <2> SUFFICES ASSUME Inv, NEW c \in alone, pc[c] = "ended"
               PROVE  file = Text([f \in Functions |->
                        IF before[f] # NoSize THEN before[f]
                        ELSE IF size[c][f] > 0 THEN Recorded(size[c][f]) ELSE NoSize])
    BY DEF AloneExtends
  <2>1. file = Text(functions[c]) /\ todo[c] = {} /\ functions[c] = Extended(c)
    BY DEF Inv, AloneInv
  <2>2. Extended(c) = [f \in Functions |->
                        IF before[f] # NoSize THEN before[f]
                        ELSE IF size[c][f] > 0 THEN Recorded(size[c][f]) ELSE NoSize]
    BY <2>1 DEF Extended
  <2> QED BY <2>1, <2>2
<1> QED BY <1>1, InvInit, InvStep, PTL DEF Spec

(* Without two saves at once the file is the map of one compiler.          *)
THEOREM FileIsWhole == Spec => []WholeMapOfLast
<1>1. Inv => WholeMapOfLast
  BY DEF Inv
<1> QED BY <1>1, InvInit, InvStep, PTL DEF Spec
=============================================================================
