------------------------------- MODULE Minimap -------------------------------
(***************************************************************************)
(* The minimap of Scene_Map (Minimap in client_plugin/mmo-hud.js): the     *)
(* land the player can reach, found once per map by a breadth-first search *)
(* from his tile, and a dot for each NPC heard of in npc_sync. The server  *)
(* (server/api/ws/handlers_game.go, server/game/world/npc_movement.go)     *)
(* announces maps and steps; every Scene_Map has a minimap of its own.     *)
(*                                                                         *)
(* A tile is passable on all four sides or on none. The dots of the other  *)
(* players and the monsters are copied from their sprites and left out.    *)
(***************************************************************************)
EXTENDS Integers, FiniteSets, Sequences, SequencesExt

CONSTANTS
  Wide, High,     \* the columns and rows of the maps
  Maps,           \* their numbers
  NoMap,          \* no map is cached; before the first map_init, the empty one
  NoMinimap,      \* the scene has none
  Npcs,           \* event ids, the same on every map
  MaxGaps,        \* bound on the tiles of map 1 without passage; map 2 has just those
  MaxNotices      \* bound on the server's messages

Tiles == (0..Wide - 1) \X (0..High - 1)
Doors == {0, Wide - 1} \X {0}          \* bound on where the server puts the player
Paths == {0} \X (0..High - 1)          \* and on where NPCs walk

VARIABLES
  open,           \* the passable tiles of each map
  at, npcTiles,   \* the room the player is in, and where its NPCs stand
  told,           \* its map_init has been sent
  notices,        \* the messages sent so far
  toMinimap,      \* on their way to the client
  mapId, self,    \* $gameMap.mapId() and the tile of $gamePlayer
  transfer,       \* reserveTransfer: the map_init to be performed, or NoMap
  minimap,        \* scene._mmoMinimap: _cachedMapId, _terrainCache and _npcDots
  jumped          \* history: since the land was drawn relocated, or then on no land

roomVars == <<open, at, npcTiles, told, notices>>
playerVars == <<mapId, self, transfer>>
vars == <<roomVars, toMinimap, playerVars, minimap, jumped>>

Fresh == [cached |-> NoMap, land |-> {}, dots |-> <<>>]

Init ==
  /\ \E gaps \in SUBSET Tiles :
       /\ Cardinality(gaps) <= MaxGaps
       /\ open = [m \in Maps |-> IF m = 1 THEN Tiles \ gaps ELSE gaps]
  /\ at = 1 /\ npcTiles = [n \in Npcs |-> <<0, 0>>] /\ told = FALSE
  /\ notices = 0 /\ toMinimap = <<>>
  /\ mapId = NoMap /\ self = <<0, 0>> /\ transfer = NoMap
  /\ minimap = Fresh /\ jumped = FALSE

-----------------------------------------------------------------------------
(* The server. *)

Tell(msg) ==
  /\ notices < MaxNotices
  /\ notices' = notices + 1
  /\ toMinimap' = Append(toMinimap, msg)

\* EnterMapRoom: the player is in the room, and hears of its NPCs, before the map_init.
EnterRoom(m) ==
  /\ told /\ notices < MaxNotices
  /\ at' = m /\ told' = FALSE
  /\ npcTiles' = [n \in Npcs |-> <<0, 0>>]
  /\ UNCHANGED <<open, notices, toMinimap, playerVars, minimap, jumped>>

SendMapInit(tile) ==
  /\ ~told
  /\ Tell([t |-> "map_init", map |-> at, tile |-> tile])
  /\ told' = TRUE
  /\ UNCHANGED <<open, at, npcTiles, playerVars, minimap, jumped>>

Beside(a, b) == (a[1] = b[1] /\ a[2] - b[2] \in {-1, 1}) \/ (a[2] = b[2] /\ a[1] - b[1] \in {-1, 1})

\* tickNPCs announces a step.
NpcSteps(n) ==
  /\ \E tile \in Paths :
       /\ Beside(npcTiles[n], tile)
       /\ npcTiles' = [npcTiles EXCEPT ![n] = tile]
       /\ Tell([t |-> "npc_sync", npc |-> n, tile |-> tile])
  /\ UNCHANGED <<open, at, told, playerVars, minimap, jumped>>

\* transfer_player within the map, or move_reject.
Relocate(tile) ==
  /\ told
  /\ Tell([t |-> "locate", tile |-> tile])
  /\ UNCHANGED <<open, at, npcTiles, told, playerVars, minimap, jumped>>

-----------------------------------------------------------------------------
(* The terrain. *)

Passable(m) == IF m = NoMap THEN {} ELSE open[m]

\* The search goes on with the first tile of its queue.
Explored(land, s) ==
  IF s.queue = <<>> THEN s
  ELSE LET tile == Head(s.queue)
           dirs == << <<0, -1>>, <<1, 0>>, <<0, 1>>, <<-1, 0>> >>
           next == [i \in 1..4 |-> <<tile[1] + dirs[i][1], tile[2] + dirs[i][2]>>]
           found == SelectSeq(next, LAMBDA u : u \in land \ s.reached)
       IN [queue |-> Tail(s.queue) \o found, reached |-> s.reached \union Range(found)]

\* What the search from the player's tile reaches. A tile is in its queue once at most.
BuildTerrain(land, tile) ==
  IF tile \notin land THEN {}
  ELSE FoldLeft(LAMBDA s, i : Explored(land, s), [queue |-> <<tile>>, reached |-> {tile}],
                [i \in 1..Wide * High |-> i]).reached

-----------------------------------------------------------------------------
(* The client. *)

\* A known NPC's dot moves, another's is added.
UpdateNPC(dots, n, tile) ==
  LET i == SelectInSeq(dots, LAMBDA e : e.npc = n)
  IN IF i # 0 THEN [dots EXCEPT ![i].tile = tile] ELSE Append(dots, [npc |-> n, tile |-> tile])

\* map_init: a new map waits for the transfer, the same one is only relocated in; the
\* minimap that is shown draws its land anew and drops its dots.
HearMapInit(msg) ==
  /\ msg.t = "map_init"
  /\ IF msg.map # mapId
     THEN transfer' = msg /\ UNCHANGED <<mapId, self, jumped>>
     ELSE self' = msg.tile /\ jumped' = TRUE /\ UNCHANGED <<mapId, transfer>>
  /\ minimap' = IF minimap = NoMinimap THEN NoMinimap
                ELSE [minimap EXCEPT !.cached = NoMap, !.dots = <<>>]

HearNpcSync(msg) ==
  /\ msg.t = "npc_sync"
  /\ minimap' = IF minimap = NoMinimap THEN NoMinimap
                ELSE [minimap EXCEPT !.dots = UpdateNPC(@, msg.npc, msg.tile)]
  /\ UNCHANGED <<playerVars, jumped>>

HearLocate(msg) ==
  /\ msg.t = "locate"
  /\ self' = msg.tile /\ jumped' = TRUE
  /\ UNCHANGED <<mapId, transfer, minimap>>

Hear ==
  /\ toMinimap # <<>>
  /\ toMinimap' = Tail(toMinimap)
  /\ LET msg == Head(toMinimap) IN HearMapInit(msg) \/ HearNpcSync(msg) \/ HearLocate(msg)
  /\ UNCHANGED roomVars

\* refresh, each frame of the map: the land of another map than the cached one is built.
Refresh ==
  /\ minimap # NoMinimap
  /\ IF minimap.cached # mapId
     THEN /\ minimap' = [minimap EXCEPT !.cached = mapId,
                                        !.land = BuildTerrain(Passable(mapId), self)]
          /\ jumped' = (self \notin Passable(mapId))
     ELSE UNCHANGED <<minimap, jumped>>
  /\ UNCHANGED <<roomVars, toMinimap, playerVars>>

\* The player walks on the map, unless he is about to leave it.
Walk(tile) ==
  /\ minimap # NoMinimap /\ transfer = NoMap
  /\ Beside(self, tile) /\ tile \in Passable(mapId)
  /\ self' = tile
  /\ UNCHANGED <<roomVars, toMinimap, mapId, transfer, minimap, jumped>>

\* Another scene, a menu or a battle, comes in place of the map, or the map comes back,
\* after the transfer if there is one: createAllWindows of the new Scene_Map.
LeaveMap ==
  /\ minimap # NoMinimap
  /\ minimap' = NoMinimap
  /\ UNCHANGED <<roomVars, toMinimap, playerVars, jumped>>

CreateAllWindows ==
  /\ minimap = NoMinimap \/ transfer # NoMap
  /\ minimap' = Fresh /\ jumped' = FALSE
  /\ IF transfer # NoMap
     THEN mapId' = transfer.map /\ self' = transfer.tile /\ transfer' = NoMap
     ELSE UNCHANGED playerVars
  /\ UNCHANGED <<roomVars, toMinimap>>

Next ==
  \/ \E m \in Maps : EnterRoom(m)
  \/ \E tile \in Doors : SendMapInit(tile) \/ Relocate(tile)
  \/ \E tile \in Tiles : Walk(tile)
  \/ \E n \in Npcs : NpcSteps(n)
  \/ Hear \/ Refresh \/ LeaveMap \/ CreateAllWindows

Spec == Init /\ [][Next]_vars

-----------------------------------------------------------------------------
\* The type of the state.
TypeOK ==
  /\ at \in Maps /\ npcTiles \in [Npcs -> Tiles] /\ told \in BOOLEAN /\ jumped \in BOOLEAN
  /\ mapId \in Maps \union {NoMap} /\ self \in Tiles
  /\ transfer # NoMap => transfer.map \in Maps /\ transfer.tile \in Tiles
  /\ minimap # NoMinimap =>
       /\ minimap.cached \in Maps \union {NoMap}
       /\ minimap.land \subseteq Tiles
       /\ \A i \in DOMAIN minimap.dots : minimap.dots[i] \in [npc : Npcs, tile : Tiles]

\* The tiles a walk from this one leads to, in as many steps as there are tiles.
Reachable(land, tile) ==
  LET within[k \in 0..Wide * High] ==
        IF k = 0 THEN {tile} \intersect land
        ELSE LET near == within[k - 1]
             IN near \union {u \in land : \E v \in near : Beside(u, v)}
  IN within[Wide * High]

\* The land that is drawn is that which the player, wherever he has walked since, can still
\* reach: all of it and nothing else (mmo-hud.js:353-382). A relocation, or a start on a tile
\* of no passage, is excepted.
LandReached ==
  minimap # NoMinimap /\ minimap.cached = mapId /\ ~jumped =>
    minimap.land = Reachable(Passable(mapId), self)

\* With every message heard and no transfer to come, an NPC has at most one dot, where the
\* server has it, and none of another map's is left (mmo-hud.js:247-261, 763-765).
DotsTrue ==
  toMinimap = <<>> /\ told /\ transfer = NoMap /\ minimap # NoMinimap =>
    \A i \in DOMAIN minimap.dots :
      /\ minimap.dots[i].tile = npcTiles[minimap.dots[i].npc]
      /\ \A j \in DOMAIN minimap.dots : minimap.dots[i].npc = minimap.dots[j].npc => i = j

\* NOT kept: a player who is moved within the map to a part of its own sees the land he
\* came from (mmo-hud.js:446 looks at the map only).
LandIsHere ==
  minimap # NoMinimap /\ minimap.cached = mapId => minimap.land = Reachable(Passable(mapId), self)

\* NOT kept: an NPC that has not moved since the scene began has no dot; the map_init's
\* list is not read (mmo-hud.js:755-767).
NpcsDotted ==
  toMinimap = <<>> /\ told /\ transfer = NoMap /\ minimap # NoMinimap /\ mapId # NoMap =>
    Npcs \subseteq {minimap.dots[i].npc : i \in DOMAIN minimap.dots}
=============================================================================
