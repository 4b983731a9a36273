SPECIFICATION Spec
CONSTANTS
  Names = {"p", "a", "q"}
  NoName = "-"
  Bodies <- TamedBodies
  MaxLaps = 2
CHECK_DEADLOCK FALSE
INVARIANTS
  TrackedOnce
  SameValue
  NeverUsesFreed
  DropsItsOwn
  FreesWhatItOwns
