------------------------------- MODULE MCIdMap -------------------------------
(***************************************************************************)
(* IdMap for TLC: compiler processes and strings are interchangeable.  The *)
(* history variable met has the pairs of compilations that were under way  *)
(* at the same time.                                                       *)
(***************************************************************************)
EXTENDS IdMap, TLC

VARIABLE met

Symmetry == Permutations(Procs) \cup Permutations(Names)

Overlapping == {e \in Procs \X Procs : Live(e[1]) /\ Live(e[2])}

MCInit == Init /\ met = {}

MCNext == Next /\ met' = met \cup Overlapping'

MCSpec == MCInit /\ [][MCNext]_<<vars, met>>

(* FairSpec with the history variable.                                     *)
MCFair == MCSpec /\ \A p \in Procs : WF_vars(Step(p))

(* An id in the object code of a compilation that has saved its map is the *)
(* one the map gives the name, unless another compilation that was under   *)
(* way at the same time met the name first, and it is that one's id the map*)
(* has: a serial build never loses an id, and no id comes from nowhere.    *)
LostToRival ==
  \A p \in Procs : Saved(p) =>
    \A a \in emitted[p] :
      \/ SettledMap[a[1]] = a[2]
      \/ \E q \in Procs \ {p} :
           /\ <<p, q>> \in met
           /\ <<a[1], SettledMap[a[1]]>> \in emitted[q]
=============================================================================
