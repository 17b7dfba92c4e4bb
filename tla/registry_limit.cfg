\* One walk at once is the limit; two requests race for it.
SPECIFICATION Spec
CONSTANTS
  Operators = {o1, o2}
  MaxActive = 1
  MaxStarts = 2
  Claims = 1
SYMMETRY OperatorSymmetry
INVARIANT
  WalksAreBounded
CHECK_DEADLOCK FALSE
