SPECIFICATION FairSpec
CONSTANTS
  Modules = {"a", "b"}
  Root = "root"
  Files = {"f1", "f2", "f3"}
  Names <- MCNames
  Constructor <- MCConstructor
  Projects <- AllProjects
INVARIANTS TypeOK EveryUseIsMerged MergedOnceAndNeeded NearestFileWins FailsForCause
  OwnFunctionsWin CallsAreAnswered OneMeaning
PROPERTIES Terminates
CHECK_DEADLOCK FALSE
