SPECIFICATION FairSpec
CONSTANTS
  b1 = b1
  b2 = b2
  b3 = b3
  b4 = b4
  Blocks <- MCBlocks
  Lines <- MCLines
  Functions <- MCFunctions
  Huge = 255
INVARIANTS PathTaken SizeExact PathWithinLoc
PROPERTY Terminates
