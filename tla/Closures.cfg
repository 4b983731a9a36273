CONSTANTS
  Declarations <- Declared
  Sources <- AllClosures
  MaxLaps = 8
  MaxRounds = 6
SPECIFICATION Spec
INVARIANTS EveryNameIsCaptured
CHECK_DEADLOCK FALSE
