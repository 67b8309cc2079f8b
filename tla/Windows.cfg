CONSTANTS
  Nothing = nothing
  Slots = {F1}
  MaxRows = 2
  MaxGets = 1
  MaxScenes = 1
  MaxChanges = 1
  QueueMax = 1
  NoDeal = nodeal
  Items = {potion}
  Equips = {sword}
  StartGold = 6
  MaxDeals = 3
  MaxShops = 2
  NoTrade = notrade
  MaxGold = 1
  MaxTrades = 2
  TradeQueueMax = 1
  MaxMapScenes = 3
  Sessions = {a, b, c}
  NoOne = noone
  MaxParties = 2
  MaxInvites = 2
  Clients = {d, e}
  Rooms = {r1}
  Directly = directly
  MaxMessages = 2
  MaxSent = 3
  Gain = 30
  Percent = 50
  MaxKills = 2
  MaxDeaths = 1
  MaxSessions = 2
  k1 = k1
  k2 = k2
  g1 = g1
  g2 = g2
  MaxSets = 2
  Events = {1, 2}
  BatchSize = 1
  SendQueue = 1
  MaxValues = 3
  MaxBreaks = 2
  People = {a, b}
  MaxFriendships = 4
  NoRow = norow
  MaxFriends = 2
  InSight = 1
  MaxLoads = 2
SPECIFICATION MCSpec
CHECK_DEADLOCK FALSE
INVARIANTS TypesOK WindowsAgree ScreenCleared TiesAgree SenderOrder NoneInvented
PROPERTIES Durable
