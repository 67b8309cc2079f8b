CONSTANTS
  a = a
  b = b
  c = c
  Chars = {a, b}
  Items = {}
  Amounts = {0}
  InitialGold = 1
  MaxSessions = 2
  MaxExpiries = 1
SPECIFICATION FairSpec
CHECK_DEADLOCK FALSE
CONSTRAINT Overlap
PROPERTY CommitEnds
