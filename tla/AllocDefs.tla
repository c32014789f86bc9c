------------------------------ MODULE AllocDefs --------------------------------
(***************************************************************************)
(* AllocDefs.cpp: alloc.in tells the pass which functions allocate, and    *)
(* which of their arguments are the size and the number of what they do.   *)
(*                                                                         *)
(* Lines that begin with # are comments; the others are definitions, the   *)
(* one without a name standing for empty lines and all that do not parse.  *)
(***************************************************************************)
EXTENDS Integers, Sequences

Definition(name, numIdx, sizeIdx, addrIdx) ==
  [name |-> name, numIdx |-> numIdx, sizeIdx |-> sizeIdx, addrIdx |-> addrIdx]

(* The definitions without a file.  The mutant pushes callocDef, which has *)
(* no name, for the second one.                                            *)
FallbackNoCalloc == <<Definition("malloc", -1, 0, -1), Definition("", 0, 1, -1)>>

Fallback == <<Definition("malloc", -1, 0, -1), Definition("calloc", 0, 1, -1)>>

Comment == Definition("#", 0, 0, 0)

Unparsable == Definition("", 0, 0, 0)

(* loadAllocDefs, which exits at a line it cannot parse.                   *)
LoadExits(file) == file.found /\ \E i \in DOMAIN file.lines : file.lines[i] = Unparsable

LoadAllocDefs(file) ==
  IF file.found THEN SelectSeq(file.lines, LAMBDA line : line # Comment) ELSE Fallback

(* getAllocDef: the first definition of the name, if there is one.         *)
HasAllocDef(defs, name) == \E i \in DOMAIN defs : defs[i].name = name

GetAllocDef(defs, name) ==
  defs[CHOOSE i \in DOMAIN defs :
         /\ defs[i].name = name
         /\ \A j \in 1 .. i - 1 : defs[j].name # name]

=============================================================================
