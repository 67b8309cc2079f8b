CONSTANTS
  slime = slime
  NumActors = 1
  Foes = {slime}
  InputCap = 3
  EventCap = 2
  Deadline = FALSE
SPECIFICATION FairSpec
CHECK_DEADLOCK FALSE
PROPERTY AllGoneEnds
