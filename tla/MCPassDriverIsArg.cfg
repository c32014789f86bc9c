SPECIFICATION Spec
CONSTANTS
  Names <- MCNames
  Events = {"access", "function", "alloc"}
  FilterFiles <- MCFilterFiles
  AllocFiles <- MCAllocFiles
  Symbols <- MCSymbols
  Modules <- MCModules
INVARIANTS OnlyArgumentsAsArguments
CHECK_DEADLOCK FALSE
