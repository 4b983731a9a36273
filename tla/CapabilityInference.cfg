\* Every small call graph with every contract and every order of the walk.
CONSTANTS
  f = f  g = g  c = c
  f1 = f1  f2 = f2  g1 = g1  c1 = c1
  Functions = {f, g}
  Closures = {c}
  Slots = {f1, f2, g1, c1}
  OwnerOf <- MCOwnerOf
  Programs <- MCPrograms
  NoFunction = NoFunction
SPECIFICATION FairSpec
INVARIANTS
  TypeOK
  NeverOverestimates
  QuietExitIsClosed
  AcceptedHonoursContract
  RejectionIsJustified
  SmallSignaturesConverge
PROPERTIES
  Terminates
\* check() returns or throws, and then nothing more happens.
CHECK_DEADLOCK FALSE
