CONSTANTS
  Declarations <- Declared
  Sources <- AllSources
  MaxLaps = 8
  MaxRounds = 6
SPECIFICATION Spec
INVARIANTS NeverStuck ValuesHaveTypes InstancesAreComplete
CHECK_DEADLOCK FALSE
