------------------------------- MODULE MCPlay -------------------------------
(***************************************************************************)
(* What an event, a battle and the map show the player, side by side: the  *)
(* dialogs of an event (Dialogs), a turn battle (BattlePuppet), and on the *)
(* map its NPCs (NpcView), the other players (OtherPlayers), the monsters  *)
(* (FieldBattle), what lies on the ground (Drops) and the minimap          *)
(* (Minimap). MCScenes adds the forms before the game and the widgets.     *)
(***************************************************************************)
EXTENDS Dialogs

CONSTANTS
  Me, Other, None, MaxHP, MaxReports, MaxBattles,
  Monsters, NoMonster, MaxBlows,
  NoNpc, Width, QueueMax, MaxNews,
  Others, NoList, NoOne, MaxMoves,
  DropPlayers, MaxDrops, RoomQueue, MaxEnters, NoDrop,
  Wide, High, Maps, NoMap, NoMinimap, Npcs, MaxGaps, MaxNotices

VARIABLES
  srv, asked, hp, escaped, first, reports, battles, toPuppet, fromPuppet, puppetMode, startHP,
  shown, deadActors, hidden, request, eventQueue, playing, battleReady, inBattle, defeatTimer,
  battleScene, goingTo, battleWindows, actorIndex, reading,
  mode, dead, gcd, blows, toField, fromField, fieldScene, nameless, isDead, autoAttack,
  attackCooldown, overlay, cutOff, healed,
  npc, news, toView, onMap, npcContainer, sprite, nodes, initNPCs, pendingNPCs, stale, displaced,
  room, unannounced, mine, snapshot, moves, toMap, mapScene, container, sprites, initPlayers,
  pendingPlayers, fadeHide, fadeTimers, menu, strayed,
  fallen, floor, spawning, expired, lostDrops, bag, broadcastQ, inbox, inRoom, entered,
  askedDrop, picking, claimed, dropScene, dropSprites, unheard,
  open, roomAt, npcTiles, told, notices, toMinimap, mapId, self, transfer, minimap, jumped

Puppet == INSTANCE BattlePuppet WITH
  dead <- deadActors, sceneReady <- battleReady, scene <- battleScene, active <- battleWindows
Field == INSTANCE FieldBattle
Npc == INSTANCE NpcView WITH container <- npcContainer
Peers == INSTANCE OtherPlayers WITH scene <- mapScene
Floor == INSTANCE Drops WITH
  Players <- DropPlayers, asked <- askedDrop, sprites <- dropSprites
Mini == INSTANCE Minimap WITH at <- roomAt

\* What the sprite of an NPC may be.
NpcSprites ==
  [x : Npc!Columns, moving : BOOLEAN, queue : Seq(Npc!Columns), look : Npc!Looks,
   through : BOOLEAN, route : BOOLEAN, data : Npc!Data, drawn : SUBSET {"icon", "label"}]

\* Nothing is asked of the numbers beyond that they are numbers, and that a map has a column
\* and one is the first; None is neither an actor nor a report of one, NoNpc neither an NPC's
\* data nor its sprite, NoDrop no drop.
PlayAssumption ==
  /\ MaxCmds \in Nat /\ MaxHP \in Nat /\ MaxDrops \in Nat /\ Width \in Nat \ {0}
  /\ Me # Other /\ None \notin {Me, Other} \union [t : {"action"}, a : {Me, Other}, hp : 0..MaxHP]
  /\ NoNpc \notin Npc!Data /\ NoNpc \notin NpcSprites
  /\ 1 \in Maps /\ NoDrop \notin Floor!Ids
ASSUME PlayAssumption

\* The variables of each.
d == vars
p == <<srv, asked, hp, escaped, first, reports, battles, toPuppet, fromPuppet, puppetMode, startHP,
       shown, deadActors, hidden, request, eventQueue, playing, battleReady, inBattle, defeatTimer,
       battleScene, goingTo, battleWindows, actorIndex, reading>>
f == <<mode, dead, gcd, blows, toField, fromField, fieldScene, nameless, isDead, autoAttack,
       attackCooldown, overlay, cutOff, healed>>
n == <<npc, news, toView, onMap, npcContainer, sprite, nodes, initNPCs, pendingNPCs, stale,
       displaced>>
o == <<room, unannounced, mine, snapshot, moves, toMap, mapScene, container, sprites,
       initPlayers, pendingPlayers, fadeHide, fadeTimers, menu, strayed>>
g == <<fallen, floor, spawning, expired, lostDrops, bag, broadcastQ, inbox, inRoom, entered,
       askedDrop, picking, claimed, dropScene, dropSprites, unheard>>
m == <<open, roomAt, npcTiles, told, notices, toMinimap, mapId, self, transfer, minimap, jumped>>
=============================================================================
