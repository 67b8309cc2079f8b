CONSTANTS
  Clients = {p}
  Chars = {x, y}
  Sockets = {s1, s2}
  NoChar = NoChar
  NoSocket = NoSocket
  NotListed = NotListed
  ReconnectMax = 1
  MaxDrops = 1
  MaxWait = 2
SPECIFICATION Spec
CHECK_DEADLOCK FALSE
SYMMETRY Symmetry
VIEW View
CONSTRAINT Apart
INVARIANTS TypeOK Coherent OneSocket PlaysChosen RegistryHonest
