CONSTANTS
  a = a
  b = b
  c = c
  Chars = {a, b, c}
  Items = {}
  Amounts = {1}
  InitialGold = 1
  MaxSessions = 2
  MaxExpiries = 0

SPECIFICATION Spec
CHECK_DEADLOCK FALSE
SYMMETRY Symmetry
INVARIANT GoldNonNegative
CONSTRAINT Overlap
