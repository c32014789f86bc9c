SPECIFICATION Spec
CONSTANTS
  Functions = {f, g}
  Main = main
  Initialiser = init
  MaxDepth = 4
  MaxEvents = 4
  MaxInits = 2
SYMMETRY Symmetry
INVARIANTS   StackInTrace StackWithinTrace
CHECK_DEADLOCK FALSE
