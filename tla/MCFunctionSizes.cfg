SPECIFICATION Spec
CONSTANTS
  Compilers = {c1, c2, c3}
  Functions = {f, g}
  Sizes = {0, 3, 15}
  Modulus = 16
  NoSize = NoSize
SYMMETRY Symmetric
INVARIANTS AloneExtends SizesGiven WholeMapOfLast
CHECK_DEADLOCK FALSE
