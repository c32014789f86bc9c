------------------------------ MODULE MCTextTrace ------------------------------
(* TextTrace for TLC: functions are interchangeable.                       *)
EXTENDS TextTrace, TLC

Symmetry == Permutations(Functions)
=============================================================================
