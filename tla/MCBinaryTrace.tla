---------------------------- MODULE MCBinaryTrace ----------------------------
(* BinaryTrace for TLC: interchangeable threads of three log calls each, or*)
(* a busy thread of five beside others of one call.                         *)
EXTENDS BinaryTrace, TLC

CONSTANT Busy

Symmetry == Permutations(Threads)

Calls == [t \in Threads |-> IF Busy = {} THEN 3 ELSE IF t \in Busy THEN 5 ELSE 1]
=============================================================================
