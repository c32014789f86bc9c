----------------------------- MODULE MCPathSize ------------------------------
(***************************************************************************)
(* PathSize for TLC: functions of four blocks with branches, joins, loops  *)
(* of one to three blocks, blocks that end in "unreachable", blocks without*)
(* lines and lines that are in two blocks.                                 *)
(***************************************************************************)
EXTENDS PathSize

CONSTANTS b1, b2, b3, b4

MCBlocks == {b1, b2, b3, b4}

MCLines == 1 .. 7

Chosen(x1, x2, x3, x4) ==
  [b \in MCBlocks |-> CASE b = b1 -> x1 [] b = b2 -> x2 [] b = b3 -> x3 [] b = b4 -> x4]

MCFunctions ==
  {[entry   |-> b1,
    succ    |-> Chosen(s1, s2, s3, s4),
    returns |-> returns \cap {b \in MCBlocks : Chosen(s1, s2, s3, s4)[b] = <<>>},
    lines   |-> Chosen({1}, l2, l3, l4)] :
      s1 \in {<<b2>>, <<b2, b3>>, <<b4, b2>>},
      s2 \in {<<>>, <<b4>>, <<b3, b4>>, <<b2, b3>>},
      s3 \in {<<>>, <<b4>>, <<b2, b4>>},
      s4 \in {<<>>, <<b2>>},
      returns \in {{b4}, {b2, b3}},
      l2 \in {{1, 2}, {3}},
      l3 \in {{3}, {4, 5}},
      l4 \in {{}, {2}, {6, 7}}}
=============================================================================
