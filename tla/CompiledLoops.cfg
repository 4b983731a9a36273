SPECIFICATION Spec
CONSTANTS
  Names = {"p", "a", "q"}
  NoName = "-"
  Bodies <- CopiedBodies
  MaxLaps = 2
CHECK_DEADLOCK FALSE
INVARIANT
  SameValue
