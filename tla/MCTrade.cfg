CONSTANTS
  a = a
  b = b
  c = c
  Chars = {a, b}
  Items = {i1}
  Amounts = {0, 1, 2}
  InitialGold = 1
  MaxSessions = 1
  MaxExpiries = 1

SPECIFICATION Spec
CHECK_DEADLOCK FALSE
SYMMETRY Symmetry
INVARIANTS TypeOK PairExclusive NoLeakedLock CommitsAgreed
PROPERTIES GoldConserved ItemsMoveByTrade
