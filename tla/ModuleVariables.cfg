SPECIFICATION Spec
CONSTANTS
  Modules = {"a", "b", "c"}
  Root = "root"
  Files = {"fa"}
  Names <- MCNames
  Constructor <- MCConstructor
  Projects <- VariableProjects
INVARIANTS VariablesWin
CHECK_DEADLOCK FALSE
