SPECIFICATION Spec
CONSTANTS
  Names = {"p", "a", "q"}
  NoName = "-"
  Bodies <- QualifiedCalls
  MaxLaps = 2
CHECK_DEADLOCK FALSE
INVARIANT NeverUsesMoved
