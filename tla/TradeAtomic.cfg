CONSTANTS
  a = a
  b = b
  c = c
  Chars = {a, b}
  Items = {}
  Amounts = {0, 1}
  InitialGold = 1
  MaxSessions = 1
  MaxExpiries = 0
SPECIFICATION FairSpec
CHECK_DEADLOCK FALSE
PROPERTY GoldAlwaysConserved
