SPECIFICATION Spec
CONSTANTS
  Names <- ShortNames
  Events = {"access", "function"}
  FilterFiles <- MCFilterFiles
INVARIANTS BlacklistedBySuffix
  EventsOnlyAdd LaterEntriesIdle
CHECK_DEADLOCK FALSE
