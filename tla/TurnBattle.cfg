CONSTANTS
  slime = slime
  NumActors = 2
  Foes = {slime}
  InputCap = 3
  EventCap = 2
  Deadline = TRUE
SPECIFICATION Spec
CHECK_DEADLOCK FALSE
INVARIANTS TypeOK NoInputLost FreshInput EndTold
