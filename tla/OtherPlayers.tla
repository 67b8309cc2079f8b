---------------------------- MODULE OtherPlayers ----------------------------
(***************************************************************************)
(* Who else is on the map: OtherPlayerManager in client_plugin/            *)
(* mmo-other-players.js, fed by the room of the player                     *)
(* (server/api/ws/handlers_game.go: EnterMapRoom, leaveMap, the mid-event  *)
(* instances).                                                             *)
(*                                                                         *)
(* The client keeps a sprite per player, a list that survives a change of  *)
(* scenes and what arrives before there is a tilemap. Its own context menu *)
(* invites or trades with the player that was clicked.                     *)
(***************************************************************************)
EXTENDS Naturals, Sequences

CONSTANTS
  Others,         \* the other characters
  NoList, NoOne,
  MaxMoves        \* bound on what the others and the player do on the server

VARIABLES
  room,           \* who is in the room the player is in or enters
  unannounced,    \* of those, who has not been announced yet
  mine,           \* how far the player's own entry is
  snapshot,       \* PlayerSnapshot, taken for a map_init not sent yet
  moves,
  toMap,          \* messages on their way
  scene,          \* "off" the map, a tilemap "made", the map "started"
  container,      \* _container: none, that of an old scene, the present one
  sprites,        \* _sprites: the characters, and whether their data are complete
  initPlayers, pendingPlayers,      \* _initPlayers, _pending
  fadeHide, fadeTimers,
  menu,           \* the context menu: for whom
  strayed         \* history: a join or a leave was sent before the map_init whose list
                  \* does not know of it, or an instance was entered or left off the map

roomVars == <<room, unannounced, mine, snapshot, moves>>
sceneVars == <<scene, container, fadeHide, fadeTimers, menu>>
otherVars == <<roomVars, toMap, sceneVars, sprites, initPlayers, pendingPlayers, strayed>>

Whole == "whole"        \* the data of a map_init or player_join: name, image
Bare == "bare"          \* those of player_sync
Kinds == {Whole, Bare}

NoSprites == [c \in {} |-> Whole]
Named(cs) == [c \in cs |-> Whole]
Without(f, c) == [d \in DOMAIN f \ {c} |-> f[d]]
Merged(f, g) == [d \in DOMAIN f \cup DOMAIN g |-> IF d \in DOMAIN f THEN f[d] ELSE g[d]]

Init ==
  /\ room \in SUBSET Others /\ unannounced = {}
  /\ mine = "out" /\ snapshot = {} /\ moves = 0
  /\ toMap = <<>>
  /\ scene = "off" /\ container = "none"
  /\ sprites = NoSprites /\ initPlayers = NoList /\ pendingPlayers = NoSprites
  /\ fadeHide = FALSE /\ fadeTimers = 0 /\ menu = NoOne
  /\ strayed = FALSE

-----------------------------------------------------------------------------
(* The server. *)

ClientSame == UNCHANGED <<sceneVars, sprites, initPlayers, pendingPlayers>>
Listening == mine \in {"added", "taken", "in"}
Broadcast(m) == toMap' = IF Listening THEN Append(toMap, m) ELSE toMap
Counted == moves < MaxMoves /\ moves' = moves + 1

\* EnterMapRoom of another player: AddPlayer, and his player_join later on.
Enter ==
  /\ Counted
  /\ \E c \in Others \ room : room' = room \cup {c} /\ unannounced' = unannounced \cup {c}
  /\ UNCHANGED <<mine, snapshot, toMap, strayed>> /\ ClientSame

Announce ==
  /\ \E c \in unannounced :
       /\ unannounced' = unannounced \ {c}
       /\ Broadcast([t |-> "join", c |-> c])
       /\ strayed' = (strayed \/ (mine = "taken" /\ c \notin snapshot))
  /\ UNCHANGED <<room, mine, snapshot, moves>> /\ ClientSame

\* leaveMap: RemovePlayer and player_leave.
Leave ==
  /\ Counted
  /\ \E c \in room \ unannounced :
       /\ room' = room \ {c}
       /\ Broadcast([t |-> "leave", c |-> c])
       /\ strayed' = (strayed \/ (mine = "taken" /\ c \in snapshot))
  /\ UNCHANGED <<unannounced, mine, snapshot>> /\ ClientSame

\* broadcastDirtyPlayers.
Dirty ==
  /\ Counted
  /\ \E c \in room : Broadcast([t |-> "sync", c |-> c])
  /\ UNCHANGED <<room, unannounced, mine, snapshot, strayed>> /\ ClientSame

\* EnterMapRoom of the player, into this room or another one with others in it.
EnterMapRoom ==
  /\ mine \in {"out", "in"} /\ Counted
  /\ room' \in {room} \cup SUBSET Others
  /\ unannounced' = {}
  /\ mine' = "added"
  /\ UNCHANGED <<snapshot, toMap, strayed>> /\ ClientSame

PlayerSnapshot ==
  /\ mine = "added"
  /\ snapshot' = room
  /\ mine' = "taken"
  /\ UNCHANGED <<room, unannounced, moves, toMap, strayed>> /\ ClientSame

SendMapInit ==
  /\ mine = "taken"
  /\ toMap' = Append(toMap, [t |-> "init", cs |-> snapshot])
  /\ mine' = "in" /\ snapshot' = {}
  /\ UNCHANGED <<room, unannounced, moves, strayed>> /\ ClientSame

\* EnterInstanceMidEvent and LeaveInstanceMidEvent: a room of one's own and back.
EnterInstanceMidEvent ==
  /\ mine = "in" /\ Counted
  /\ mine' = "instance"
  /\ toMap' = Append(toMap, [t |-> "instance"])
  /\ UNCHANGED <<room, unannounced, snapshot, strayed>> /\ ClientSame

LeaveInstanceMidEvent ==
  /\ mine = "instance"
  /\ mine' = "in"
  /\ toMap' = Append(toMap, [t |-> "shared", cs |-> room])
  /\ UNCHANGED <<room, unannounced, snapshot, moves, strayed>> /\ ClientSame

-----------------------------------------------------------------------------
(* OtherPlayerManager. *)

Heard(t) ==
  /\ toMap # <<>> /\ Head(toMap).t = t
  /\ toMap' = Tail(toMap)
  /\ UNCHANGED <<roomVars, sceneVars>>

\* add: before the first tilemap into _pending; else a sprite, in whatever tilemap
\* _container is.
OnJoin ==
  LET c == Head(toMap).c IN
  /\ Heard("join")
  /\ IF container = "none"
     THEN pendingPlayers' = Merged(Named({c}), pendingPlayers) /\ UNCHANGED sprites
     ELSE sprites' = Merged(Named({c}), sprites) /\ UNCHANGED pendingPlayers
  /\ UNCHANGED <<initPlayers, strayed>>

\* remove: from the sprites, the saved list and what is pending.
OnLeave ==
  LET c == Head(toMap).c IN
  /\ Heard("leave")
  /\ sprites' = Without(sprites, c)
  /\ initPlayers' = IF initPlayers = NoList THEN NoList ELSE Without(initPlayers, c)
  /\ pendingPlayers' = Without(pendingPlayers, c)
  /\ UNCHANGED strayed

\* syncData: the sprite's data become those of the message.
OnSync ==
  LET c == Head(toMap).c IN
  /\ Heard("sync")
  /\ sprites' = IF c \in DOMAIN sprites THEN [sprites EXCEPT ![c] = Bare] ELSE sprites
  /\ UNCHANGED <<initPlayers, pendingPlayers, strayed>>

\* map_init: the list is put by; clear() removes every sprite, and its character
\* from that list too; then sprites for the whole list.
OnMapInit ==
  LET cs == Head(toMap).cs IN
  /\ Heard("init")
  /\ initPlayers' = Named(cs \ DOMAIN sprites)
  /\ IF container = "none"
     THEN pendingPlayers' = Named(cs) /\ sprites' = NoSprites
     ELSE sprites' = Named(cs) /\ pendingPlayers' = NoSprites
  /\ UNCHANGED strayed

Cut(list, cs) == IF list = NoList THEN NoList ELSE [d \in DOMAIN list \ cs |-> list[d]]

\* instance_enter: clear(). A list saved for the next scene stays.
OnInstanceEnter ==
  /\ Heard("instance")
  /\ initPlayers' = Cut(initPlayers, DOMAIN sprites)
  /\ sprites' = NoSprites /\ pendingPlayers' = NoSprites
  /\ strayed' = (strayed \/ scene = "off" \/ initPlayers # NoList)

\* instance_leave: clear() and those of the shared room.
OnInstanceLeave ==
  /\ Heard("shared")
  /\ initPlayers' = Cut(initPlayers, DOMAIN sprites)
  /\ IF container = "none"
     THEN pendingPlayers' = Named(Head(toMap).cs) /\ sprites' = NoSprites
     ELSE sprites' = Named(Head(toMap).cs) /\ pendingPlayers' = NoSprites
  /\ strayed' = (strayed \/ scene = "off" \/ initPlayers # NoList)

\* createCharacters: init() with the saved list and what is pending, hidden until
\* the scene has faded in. The first map_init brings the first Scene_Map.
CreateCharacters ==
  LET saved == IF initPlayers = NoList THEN NoSprites ELSE initPlayers IN
  /\ scene = "off" /\ (container = "none" => initPlayers # NoList)
  /\ scene' = "made" /\ container' = "live"
  /\ fadeHide' = TRUE
  /\ sprites' = Merged(saved, pendingPlayers)
  /\ initPlayers' = NoList /\ pendingPlayers' = NoSprites
  /\ UNCHANGED <<roomVars, toMap, fadeTimers, menu, strayed>>

Start ==
  /\ scene = "made"
  /\ scene' = "started"
  /\ fadeTimers' = fadeTimers + 1
  /\ UNCHANGED <<roomVars, toMap, container, fadeHide, menu, sprites, initPlayers,
                 pendingPlayers, strayed>>

\* The timer of a scene's start, that scene being there still or not.
FadedIn ==
  /\ fadeTimers > 0
  /\ fadeTimers' = fadeTimers - 1
  /\ fadeHide' = FALSE
  /\ UNCHANGED <<roomVars, toMap, scene, container, menu, sprites, initPlayers,
                 pendingPlayers, strayed>>

\* Scene_Map.terminate: the list of the last map_init, or else the sprites as they
\* are, for the next scene; the context menu goes with its scene.
Terminate ==
  /\ scene = "started" /\ fadeTimers < 2
  /\ scene' = "off" /\ container' = "old"
  /\ menu' = NoOne
  /\ initPlayers' = IF initPlayers # NoList \/ sprites = NoSprites THEN initPlayers ELSE sprites
  /\ sprites' = NoSprites /\ pendingPlayers' = NoSprites
  /\ UNCHANGED <<roomVars, toMap, fadeHide, fadeTimers, strayed>>

\* The connection is lost: clear(); entering anew starts over.
Disconnected ==
  /\ mine = "in" /\ Counted
  /\ mine' = "out" /\ room' \in SUBSET Others /\ unannounced' = {} /\ toMap' = <<>>
  /\ initPlayers' = Cut(initPlayers, DOMAIN sprites)
  /\ sprites' = NoSprites /\ pendingPlayers' = NoSprites
  /\ UNCHANGED <<snapshot, sceneVars, strayed>>

-----------------------------------------------------------------------------
(* The context menu. *)

\* A right click on a player, when no menu is open.
RightClick ==
  /\ scene = "started" /\ menu = NoOne
  /\ menu' \in DOMAIN sprites
  /\ UNCHANGED <<roomVars, toMap, scene, container, fadeHide, fadeTimers, sprites,
                 initPlayers, pendingPlayers, strayed>>

\* A click on an item sends party_invite or trade_request to that player, who may
\* have left by now; one beside it closes the menu.
MenuClick ==
  /\ scene = "started" /\ menu # NoOne
  /\ menu' = NoOne
  /\ UNCHANGED <<roomVars, toMap, scene, container, fadeHide, fadeTimers, sprites,
                 initPlayers, pendingPlayers, strayed>>

-----------------------------------------------------------------------------

Next ==
  \/ Enter \/ Announce \/ Leave \/ Dirty \/ EnterMapRoom \/ PlayerSnapshot \/ SendMapInit
  \/ EnterInstanceMidEvent \/ LeaveInstanceMidEvent
  \/ OnJoin \/ OnLeave \/ OnSync \/ OnMapInit \/ OnInstanceEnter \/ OnInstanceLeave
  \/ CreateCharacters \/ Start \/ FadedIn \/ Terminate \/ Disconnected
  \/ RightClick \/ MenuClick

Spec == Init /\ [][Next]_otherVars

-----------------------------------------------------------------------------
(* Properties. *)

Lists == UNION {[cs -> Kinds] : cs \in SUBSET Others}

TypeOK ==
  /\ room \subseteq Others /\ unannounced \subseteq room /\ snapshot \subseteq Others
  /\ mine \in {"out", "added", "taken", "in", "instance"} /\ moves \in 0..MaxMoves
  /\ scene \in {"off", "made", "started"} /\ container \in {"none", "old", "live"}
  /\ scene # "off" <=> container = "live"
  /\ sprites \in Lists /\ pendingPlayers \in Lists /\ initPlayers \in Lists \cup {NoList}
  /\ container = "none" => sprites = NoSprites
  /\ menu \in Others \cup {NoOne}
  /\ scene = "started" /\ fadeTimers = 0 => ~fadeHide

Known == mine = "in" /\ toMap = <<>> /\ scene # "off"

\* Whoever is drawn on the map is in the room, once all messages have been heard:
\* neither a change of scenes nor a new map brings back a player who has left.
\* (Excepted when a leave overtook the map_init that still named him, or a list
\* saved for the next scene met an instance.)
NoGhosts == Known /\ ~strayed => DOMAIN sprites \subseteq room

\* Whoever is in the room is drawn (mmo-other-players.js:258: the saved list is
\* merged with those who joined during the change of scenes), with the same
\* exceptions.
EveryoneShown == Known /\ ~strayed => room \ unannounced \subseteq DOMAIN sprites
=============================================================================
