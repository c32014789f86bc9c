------------------------------ MODULE IdRegistry ------------------------------
(***************************************************************************)
(* What the compile-time id maps (map_sources.json, map_types.json,        *)
(* map_variables.json, map_functions.json) promise to whoever reads a      *)
(* trace, stated without processes, chunks, locks or files: an id is       *)
(* issued for one name only, and the published map only ever grows, by     *)
(* pairs that were issued.  IdMap implements this specification.           *)
(***************************************************************************)
EXTENDS Integers

CONSTANTS
  Names,   (* the strings that get ids: files, types, variables, functions *)
  NoId     (* the absence of an id                                         *)

VARIABLES
  issued,    (* set of <<name, id>>: the ids handed out to instrument code *)
  published  (* [Names -> id or NoId]: the map a trace reader consults     *)

vars == <<issued, published>>

Init ==
  /\ issued = {}
  /\ published = [n \in Names |-> NoId]

(* One fresh id is given to one name.                                      *)
Issue ==
  /\ \E pair \in issued' :
       /\ issued' = issued \cup {pair}
       /\ pair \in Names \X Nat
       /\ \A old \in issued : old[2] # pair[2]
  /\ UNCHANGED published

(* Names that had no entry get one, out of the issued pairs.               *)
Publish ==
  /\ published' \in [Names -> Nat \cup {NoId}]
  /\ \A n \in Names :
       \/ published'[n] = published[n]
       \/ published[n] = NoId /\ <<n, published'[n]>> \in issued
  /\ UNCHANGED issued

Next == Issue \/ Publish

Spec == Init /\ [][Next]_vars
=============================================================================
