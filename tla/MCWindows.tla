------------------------------ MODULE MCWindows ------------------------------
(***************************************************************************)
(* The player's windows and what the server keeps behind them, checked     *)
(* side by side: the bag and the shortcut bar (Inventory), Shop,           *)
(* TradeWindow, the panels of the map (MapPanels), Party, Friendships and  *)
(* FriendList, Chat, Experience, GameState and SelfVars. They share no     *)
(* state here; a behaviour takes the steps of one of them.                 *)
(***************************************************************************)
EXTENDS Inventory

CONSTANTS
  NoDeal, Items, Equips, StartGold, MaxDeals, MaxShops,
  NoTrade, MaxGold, MaxTrades, TradeQueueMax,
  MaxMapScenes,
  Sessions, NoOne, MaxParties, MaxInvites,
  Clients, Rooms, Directly, MaxMessages, MaxSent,
  Gain, Percent, MaxKills, MaxDeaths, MaxSessions,
  k1, k2, g1, g2, MaxSets,
  Events, BatchSize, SendQueue, MaxValues, MaxBreaks,
  People, MaxFriendships, NoRow,
  MaxFriends, InSight, MaxLoads

ASSUME ConstantsAssumption ==
  /\ MaxParties \in Nat /\ MaxSessions \in Nat /\ Gain \in Nat /\ Percent \in Int
  /\ StartGold \in Nat /\ MaxGold \in Nat
  /\ Directly \notin Rooms
  /\ NoTrade \notin [mine : 0..MaxGold, theirs : 0..MaxGold, me : BOOLEAN, them : BOOLEAN]
  /\ 0 \notin Events /\ BatchSize \in Nat \ {0}
  /\ MaxFriends \in Nat /\ InSight \in Nat \ {0} /\ MaxLoads \in Nat

\* There are finitely many clients, and every bound is a number.
ASSUME BoundsAssumption ==
  /\ IsFiniteSet(Clients) /\ MaxSent \in Nat /\ MaxMessages \in Nat
  /\ MaxRows \in Nat \ {0} /\ MaxChanges \in Nat /\ MaxShops \in Nat /\ MaxMapScenes \in Nat
  /\ MaxSets \in Nat /\ MaxValues \in Nat /\ MaxFriendships \in Nat \ {0}

VARIABLES
  part,
  gold, bag, shopGoods, shops, deals, toShop, fromShop, partyGold, partyBag, scenes,
  pendingBuy, pendingSell, refused,
  trade, stray, trades, toTrade, fromTrade, onMap, shown, myGold, theirGold, myConfirmed,
  theirConfirmed, goldEditing, asked, commitFailed,
  eventOn, eventBusy, phase, scene, chat, panelBar, typing, gameWindows,
  members, lastParty, byChar, invites, invited, telling, leaving, toParty, fromParty,
  inviteDialog, partyPanel,
  sent, toChat, fromChat, broadcastQ, chatHistory, chatChannel, chatUnread,
  row, sess, online, sessions, unsaved, award, death, earned, toBar, lastSelf, bar,
  value, last, setting, outlived, pending, batch, stopping, saved, overlaps,
  page, local, own, queued, flushTimer, timeouts, connected, toServer, toPage, stored, lost,
  values, breaks,
  friendships, doing, ids,
  friendsOf, here, loads, getting, answers, list, shownLoad, changed

ShopOf == INSTANCE Shop
TradeOf == INSTANCE TradeWindow WITH QueueMax <- TradeQueueMax
Panels == INSTANCE MapPanels WITH MaxScenes <- MaxMapScenes, bar <- panelBar
PartyOf == INSTANCE Party
ChatOf == INSTANCE Chat
Exp == INSTANCE Experience
Vars == INSTANCE SelfVars WITH pending <- queued
Ties == INSTANCE Friendships WITH rows <- friendships
Friends == INSTANCE FriendList

\* A key of all players and one of a single character, which two events set.
State == INSTANCE GameState WITH
  Keys <- {k1, k2}, Global <- {k1}, Goroutines <- {g1, g2}, MayFail <- TRUE

\* The variables of each.
i == bagVars
s == <<gold, bag, shopGoods, shops, deals, toShop, fromShop, partyGold, partyBag, scenes,
       pendingBuy, pendingSell, refused>>
t == <<trade, stray, trades, toTrade, fromTrade, onMap, shown, myGold, theirGold,
       myConfirmed, theirConfirmed, goldEditing, asked, commitFailed>>
m == <<eventOn, eventBusy, phase, scene, chat, panelBar, typing, gameWindows>>
p == <<members, lastParty, byChar, invites, invited, telling, leaving, toParty, fromParty,
       inviteDialog, partyPanel>>
c == <<sent, toChat, fromChat, broadcastQ, chatHistory, chatChannel, chatUnread>>
x == <<row, sess, online, sessions, unsaved, award, death, earned, toBar, lastSelf, bar>>
g == <<value, last, setting, outlived, pending, batch, stopping, saved, overlaps>>
v == <<page, local, own, queued, flushTimer, timeouts, connected, toServer, toPage, stored,
       lost, values, breaks>>
f == <<friendships, doing, ids>>
l == <<friendsOf, here, loads, getting, answers, list, shownLoad, changed>>

\* A part that does not run has one initial state.
MCInit ==
  /\ Init /\ ShopOf!Init /\ TradeOf!Init /\ Panels!Init /\ PartyOf!Init /\ ChatOf!Init
  /\ Exp!Init /\ State!Init /\ Vars!Init /\ Ties!Init /\ Friends!Init
  /\ part \in {"bag", "shop", "trade", "panels", "party", "chat", "exp", "state", "selfvars",
               "friendships", "friends"}
  /\ part # "friends" => friendsOf = {}

MCNext ==
  /\ UNCHANGED part
  /\ \/ part = "bag" /\ Next /\ UNCHANGED <<s, t, m, p, c, x, g, v, f, l>>
     \/ part = "shop" /\ ShopOf!Next /\ UNCHANGED <<i, t, m, p, c, x, g, v, f, l>>
     \/ part = "trade" /\ TradeOf!Next /\ UNCHANGED <<i, s, m, p, c, x, g, v, f, l>>
     \/ part = "panels" /\ Panels!Next /\ UNCHANGED <<i, s, t, p, c, x, g, v, f, l>>
     \/ part = "party" /\ PartyOf!Next /\ UNCHANGED <<i, s, t, m, c, x, g, v, f, l>>
     \/ part = "chat" /\ ChatOf!Next /\ UNCHANGED <<i, s, t, m, p, x, g, v, f, l>>
     \/ part = "exp" /\ Exp!Next /\ UNCHANGED <<i, s, t, m, p, c, g, v, f, l>>
     \/ part = "state" /\ State!Next /\ UNCHANGED <<i, s, t, m, p, c, x, v, f, l>>
     \/ part = "selfvars" /\ Vars!Next /\ UNCHANGED <<i, s, t, m, p, c, x, g, f, l>>
     \/ part = "friendships" /\ Ties!Next /\ UNCHANGED <<i, s, t, m, p, c, x, g, v, l>>
     \/ part = "friends" /\ Friends!Next /\ UNCHANGED <<i, s, t, m, p, c, x, g, v, f>>

MCSpec == MCInit /\ [][MCNext]_<<part, i, s, t, m, p, c, x, g, v, f, l>>

-----------------------------------------------------------------------------

\* The types of all.
TypesOK ==
  /\ part = "bag" => TypeOK
  /\ part = "shop" => ShopOf!TypeOK
  /\ part = "trade" => TradeOf!TypeOK
  /\ part = "panels" => Panels!TypeOK
  /\ part = "party" => PartyOf!TypeOK
  /\ part = "chat" => ChatOf!TypeOK
  /\ part = "exp" => Exp!TypeOK
  /\ part = "state" => State!TypeOK
  /\ part = "selfvars" => Vars!TypeOK
  /\ part = "friendships" => Ties!TypeOK
  /\ part = "friends" => Friends!TypeOK

\* With every message heard, a window shows what the server holds: the counts of the
\* bag, the skills of the shortcut bar after a map_init, the gold and goods of the shop,
\* the terms of the trade, the friends, and the variables that the server's events set; a
\* variable that the page sets is on its way (Inventory, Shop, TradeWindow, FriendList,
\* SelfVars).
WindowsAgree ==
  /\ part = "bag" => CountsAgree /\ SkillsKept
  /\ part = "shop" => ShopOf!AgreesUnrefused
  /\ part = "trade" => TradeOf!ShowsTerms
  /\ part = "friends" => Friends!ShowsFriends /\ Friends!SomeoneInSight
  /\ part = "selfvars" => Vars!Follows /\ Vars!FlushComes

\* Nothing lingers on the screen, and nothing is missing from it: a trade that has
\* ended is closed (TradeWindow); after an event the panels it hid are back, and the
\* keyboard is the map's (MapPanels).
ScreenCleared ==
  /\ part = "trade" => TradeOf!ClosedWhenOver
  /\ part = "panels" => Panels!PanelsReturn /\ Panels!KeyboardFree

\* Ties are the same from both ends: the index and the panels agree with the parties, and
\* a friendship goes both ways (Party, Friendships).
TiesAgree ==
  /\ part = "party" => PartyOf!IndexValid /\ PartyOf!PanelHonest
  /\ part = "friendships" => Ties!Mutual

\* A log keeps the order of each sender (Chat).
SenderOrder == part = "chat" => ChatOf!SenderOrder

\* No experience comes from nowhere (Experience).
NoneInvented == part = "exp" => Exp!NoneInvented

\* Saved switches and variables never go back (GameState implements StateRegister).
Durable == State!Durable
=============================================================================
