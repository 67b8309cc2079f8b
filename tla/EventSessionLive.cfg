CONSTANTS
  A = A
  B = B
  NoMap = NoMap
  Maps = {A, B}
  MaxGen = 2
  MaxAutoruns = 1
  MaxInbox = 1
SPECIFICATION FairSpec
CHECK_DEADLOCK FALSE
CONSTRAINTS EntersAFirst NoneDropped
PROPERTIES Unlocks AutorunServed GoneFromRooms
