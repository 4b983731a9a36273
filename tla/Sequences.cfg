SPECIFICATION MCSpec
CONSTANTS
  Nothing = Nothing
  Null = Null
  Values = {1, 2}
  Nodes = {1, 2, 3, 4, 5, 6}
  MaxLength = 5
  Priorities = {1, 2, 3}
  MaxSize = 11
INVARIANTS SameBothWays HeapOrdered
PROPERTIES ImplementsSequence ImplementsBag
