\* Arguments of struct methods are not propagated to the caller.
CONSTANTS
  f = f  g = g  c = c
  f1 = f1  f2 = f2  g1 = g1  c1 = c1
  Functions = {f, g}
  Closures = {c}
  Slots = {f1, f2, g1, c1}
  OwnerOf <- MCOwnerOf
  Programs <- MethodPrograms
  NoFunction = NoFunction
SPECIFICATION Spec
INVARIANT ForwardingIsCounted
CHECK_DEADLOCK FALSE
