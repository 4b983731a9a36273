SPECIFICATION Spec
CONSTANTS
  Names = {"p", "a", "q"}
  NoName = "-"
  Bodies <- TameBodies
  MaxLaps = 2
CHECK_DEADLOCK FALSE
INVARIANTS
  NeverUsesMoved
  NeverMovesBorrowed
  WalkCoversExecution
  MovesAreRecorded
  RejectsForCause
