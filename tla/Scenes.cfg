CONSTANTS
  MaxCmds = 3
  MaxEvents = 2
  MaxExpiries = 1
  Me = me
  Other = other
  None = none
  MaxHP = 1
  MaxReports = 2
  MaxBattles = 2
  NoNpc = nonpc
  Width = 4
  QueueMax = 2
  MaxNews = 2
  Others = {b, c}
  NoList = nolist
  NoOne = noone
  MaxMoves = 3
  Monsters = {m1}
  NoMonster = m0
  MaxBlows = 3
  DropPlayers = {q1, q2}
  MaxDrops = 1
  RoomQueue = 1
  MaxEnters = 3
  NoDrop = 0
  Wide = 3
  High = 2
  Maps = {1, 2}
  NoMap = nomap
  NoMinimap = nominimap
  Npcs = {1}
  MaxGaps = 2
  MaxNotices = 3
  Faces = {1, 2}
  Beneath = {2}
  MaxChars = 2
  MaxFormScenes = 4
  Comps = {1, 2}
  Slides = 2
  MaxTold = 2
  Objs = {t1, t2, t3, t4}
  MaxVisible = 2
  PoolMax = 1
  MaxShows = 4
  Stay = 2
  Top = 5
  Step = 2
  MaxLen = 3
  View = 2
  MaxItems = 4
  Blank = blank
  Widths = {0, 3}
  Room = 3
  Size = 1
  NoPlace = 99
  Line = 2
  MaxText = 3
  Fade = 2
SPECIFICATION MCSpec
CHECK_DEADLOCK FALSE
INVARIANTS TypesOK Answerable FreeAgain MapHonest WidgetsSound AsDrawn
