CONSTANTS
  handler = handler
  level = level
  Var = {handler, level}
  x1 = x1
  x2 = x2
  Val = {x1, x2, x3}
  f1 = f1
  f2 = f2
  x3 = x3
  Fun = {f1, f2}
  Handler = handler
  none = none
  None = none
  MaxItems = 3
  MaxCalls = 3
SYMMETRY MCSymmetry
SPECIFICATION Spec
INVARIANTS RefsExact
PROPERTY ImplementsScopes
CHECK_DEADLOCK FALSE
