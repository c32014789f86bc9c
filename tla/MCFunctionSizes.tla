--------------------------- MODULE MCFunctionSizes ----------------------------
(* FunctionSizes for TLC: three compilers of modules with two functions.   *)
EXTENDS FunctionSizes, TLC

Symmetric == Permutations(Compilers) \cup Permutations(Functions)
=============================================================================
