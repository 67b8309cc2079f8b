CONSTANTS
  slime = slime
  NumActors = 2
  Foes = {}
  InputCap = 3
  EventCap = 2
  Deadline = FALSE
SPECIFICATION FairSpec
CHECK_DEADLOCK FALSE
CONSTRAINT Undecided
PROPERTIES AutoGuard EscapeeFreed
