CONSTANTS
  A = A
  B = B
  NoMap = NoMap
  Maps = {A, B}
  MaxGen = 3
  MaxAutoruns = 1
  MaxInbox = 1
SPECIFICATION Spec
CHECK_DEADLOCK FALSE
SYMMETRY Symmetry
CONSTRAINT Excepted
INVARIANTS TypeOK EventExclusive NeverStuck FlagHandedOver InOneRoom
