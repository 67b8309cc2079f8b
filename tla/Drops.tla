-------------------------------- MODULE Drops --------------------------------
(***************************************************************************)
(* What a monster leaves on the ground of one room: the room's drops       *)
(* (server/game/world/maproom.go), the handler that picks one up           *)
(* (server/api/ws/handlers_battle.go) and the sprites of the clients       *)
(* (client_plugin/mmo-battle.js). Each session's handler runs in its own   *)
(* goroutine, the room's in another; what the room tells everybody goes    *)
(* through one queue that drops what does not fit.                         *)
(*                                                                         *)
(* Drops are numbered in the order they fell and expire in that order.     *)
(***************************************************************************)
EXTENDS Integers, Sequences, FiniteSetsExt

CONSTANTS
  Players,
  MaxDrops,    \* drops that fall
  RoomQueue,   \* the room's broadcastQ holds so many
  MaxEnters,   \* how often players enter the room
  NoDrop

Ids == 1..MaxDrops

VARIABLES
  fallen,      \* dropIDCounter
  floor,       \* room.drops
  spawning,    \* drops that are not broadcast yet
  expired, lostDrops,  \* history: expired on the floor; claimed, but not written
  bag,         \* the rows written: drop -> characters that have it
  broadcastQ, inbox,
  inRoom,      \* player -> "no", "added" (its map_init is not sent yet), "yes"
  entered,
  asked,       \* player -> the drop its handler is about to look up
  picking,     \* player -> the drop its handler has found, or claimed
  claimed,     \* player -> the handler has claimed it
  dropScene,   \* player -> the client shows the map
  sprites,     \* player -> MonsterManager._drops
  unheard      \* history: removals and drops that did not fit into the queue

vars == <<fallen, floor, spawning, expired, lostDrops, bag, broadcastQ, inbox, inRoom, entered,
          asked, picking, claimed, dropScene, sprites, unheard>>
clients == <<dropScene, sprites>>
ground == <<fallen, floor, spawning, expired, lostDrops, bag>>
handlers == <<asked, picking, claimed>>
place == <<inRoom, entered>>

Init ==
  /\ fallen = 0 /\ floor = {} /\ spawning = {} /\ expired = {} /\ lostDrops = {}
  /\ bag = [d \in Ids |-> {}]
  /\ broadcastQ = <<>> /\ inbox = [p \in Players |-> <<>>]
  /\ inRoom = [p \in Players |-> "no"] /\ entered = 0
  /\ asked = [p \in Players |-> NoDrop] /\ picking = [p \in Players |-> NoDrop]
  /\ claimed = [p \in Players |-> FALSE]
  /\ dropScene = [p \in Players |-> FALSE] /\ sprites = [p \in Players |-> {}]
  /\ unheard = {}

-----------------------------------------------------------------------------
\* Broadcast: into the queue, or nowhere.
Broadcast(t, d) ==
  IF Len(broadcastQ) < RoomQueue
  THEN broadcastQ' = Append(broadcastQ, [t |-> t, id |-> d]) /\ UNCHANGED unheard
  ELSE unheard' = unheard \union {d} /\ UNCHANGED broadcastQ

\* handleMonsterDeath: AddDrop; the drop is broadcast when the experience has been given.
AddDrop ==
  /\ fallen < MaxDrops
  /\ fallen' = fallen + 1
  /\ floor' = floor \union {fallen + 1}
  /\ spawning' = spawning \union {fallen + 1}
  /\ UNCHANGED <<expired, lostDrops, bag, broadcastQ, inbox, place, handlers, clients, unheard>>

BroadcastSpawn(d) ==
  /\ d \in spawning /\ spawning' = spawning \ {d}
  /\ Broadcast("spawn", d)
  /\ UNCHANGED <<fallen, floor, expired, lostDrops, bag, inbox, place, handlers, clients>>

\* The room's goroutine: a packet of the queue to everybody in the room; a drop that has
\* been there for too long, without a word.
Deliver ==
  /\ broadcastQ # <<>> /\ broadcastQ' = Tail(broadcastQ)
  /\ inbox' = [p \in Players |-> IF inRoom[p] = "no" THEN inbox[p]
                                 ELSE Append(inbox[p], Head(broadcastQ))]
  /\ UNCHANGED <<ground, place, handlers, clients, unheard>>

CleanExpiredDrops ==
  /\ floor # {}
  /\ floor' = floor \ {Min(floor)} /\ expired' = expired \union {Min(floor)}
  /\ UNCHANGED <<fallen, spawning, lostDrops, bag, broadcastQ, inbox, place, handlers, clients,
                 unheard>>

\* enterMapRoom: AddPlayer, then map_init, which never lists a drop. leaveMap: RemovePlayer.
AddPlayer(p) ==
  /\ inRoom[p] = "no" /\ entered < MaxEnters
  /\ inRoom' = [inRoom EXCEPT ![p] = "added"]
  /\ entered' = entered + 1
  /\ UNCHANGED <<ground, broadcastQ, inbox, handlers, clients, unheard>>

SendMapInit(p) ==
  /\ inRoom[p] = "added"
  /\ inRoom' = [inRoom EXCEPT ![p] = "yes"]
  /\ inbox' = [inbox EXCEPT ![p] = Append(@, [t |-> "init", id |-> NoDrop])]
  /\ UNCHANGED <<ground, broadcastQ, entered, handlers, clients, unheard>>

RemovePlayer(p) ==
  /\ inRoom[p] = "yes" /\ picking[p] = NoDrop
  /\ inRoom' = [inRoom EXCEPT ![p] = "no"]
  /\ UNCHANGED <<ground, broadcastQ, inbox, entered, handlers, clients, unheard>>

-----------------------------------------------------------------------------
\* HandlePickup: the room and the drop are looked up; it may be gone, or too far.
GetDrop(p) ==
  /\ asked[p] # NoDrop /\ picking[p] = NoDrop
  /\ asked' = [asked EXCEPT ![p] = NoDrop]
  /\ \E near \in BOOLEAN :
       picking' = IF near /\ inRoom[p] = "yes" /\ asked[p] \in floor
                  THEN [picking EXCEPT ![p] = asked[p]] ELSE picking
  /\ UNCHANGED <<ground, broadcastQ, inbox, place, claimed, clients, unheard>>

\* The transaction: ConsumeDrop, under the room's lock, decides between two who have found
\* it; then the row is written, or is not (the drop is gone all the same). Nothing is told
\* of a drop that was not claimed or not written.
ConsumeDrop(p) ==
  LET d == picking[p] IN
  /\ d # NoDrop /\ ~claimed[p]
  /\ \E written \in BOOLEAN :
       /\ floor' = floor \ {d}
       /\ bag' = IF d \in floor /\ written THEN [bag EXCEPT ![d] = @ \union {p}] ELSE bag
       /\ lostDrops' = IF d \in floor /\ ~written THEN lostDrops \union {d} ELSE lostDrops
       /\ claimed' = [claimed EXCEPT ![p] = d \in floor /\ written]
       /\ picking' = IF d \in floor /\ written THEN picking
                     ELSE [picking EXCEPT ![p] = NoDrop]
  /\ UNCHANGED <<fallen, spawning, expired, broadcastQ, inbox, place, asked, clients, unheard>>

BroadcastRemove(p) ==
  /\ claimed[p]
  /\ Broadcast("remove", picking[p])
  /\ claimed' = [claimed EXCEPT ![p] = FALSE]
  /\ picking' = [picking EXCEPT ![p] = NoDrop]
  /\ UNCHANGED <<ground, inbox, place, asked, clients>>

-----------------------------------------------------------------------------
\* The client hears map_init (clear), drop_spawn or drop_remove, on any scene.
Hear(p) ==
  /\ inbox[p] # <<>> /\ inbox' = [inbox EXCEPT ![p] = Tail(@)]
  /\ LET m == Head(inbox[p]) IN
     sprites' = [sprites EXCEPT ![p] = CASE m.t = "init" -> {}
                                         [] m.t = "spawn" -> @ \union {m.id}
                                         [] m.t = "remove" -> @ \ {m.id}]
  /\ UNCHANGED <<ground, broadcastQ, place, handlers, dropScene, unheard>>

\* processMapTouch: the sprite under the pointer (of several on one tile the last).
Click(p, d) ==
  /\ dropScene[p] /\ asked[p] = NoDrop
  /\ asked' = [asked EXCEPT ![p] = d]
  /\ UNCHANGED <<ground, broadcastQ, inbox, place, picking, claimed, clients, unheard>>

\* The scene of the map is made (createCharacters: no sprites) or left (terminate: clear).
\* Battles, menus and shops leave it and come back.
ChangeScene(p) ==
  /\ dropScene' = [dropScene EXCEPT ![p] = ~@]
  /\ sprites' = [sprites EXCEPT ![p] = {}]
  /\ UNCHANGED <<ground, broadcastQ, inbox, place, handlers, unheard>>

Next ==
  \/ AddDrop \/ Deliver \/ CleanExpiredDrops
  \/ \E d \in Ids : BroadcastSpawn(d)
  \/ \E p \in Players :
       \/ AddPlayer(p) \/ SendMapInit(p) \/ RemovePlayer(p)
       \/ GetDrop(p) \/ ConsumeDrop(p) \/ BroadcastRemove(p)
       \/ Hear(p) \/ ChangeScene(p)
       \/ \E d \in sprites[p] : Click(p, d)

Spec == Init /\ [][Next]_vars

-----------------------------------------------------------------------------
\* The type of the state.
TypeOK ==
  /\ fallen \in 0..MaxDrops
  /\ \A p \in Players : /\ {asked[p], picking[p]} \subseteq Ids \union {NoDrop}
                        /\ claimed[p] => picking[p] # NoDrop
                        /\ sprites[p] \subseteq Ids
  /\ spawning \subseteq 1..fallen

\* A drop that has fallen is in one place: on the floor, in one character's bag, expired or
\* lost with a row that could not be written; two who have found it at once do not both get
\* it (handlers_battle.go:556, 583).
InOnePlace ==
  \A d \in 1..fallen :
    Cardinality(bag[d]) + Cardinality({s \in {1} : d \in floor})
      + Cardinality({s \in {1} : d \in expired}) + Cardinality({s \in {1} : d \in lostDrops}) = 1

\* A player who is told everything sees no drop that somebody has picked up, whatever
\* packets of others, map_inits and scene changes came between.
Settled(p) ==
  /\ inRoom[p] = "yes" /\ inbox[p] = <<>> /\ broadcastQ = <<>>
  /\ \A q \in Players : ~claimed[q]
NoneTaken ==
  \A p \in Players : Settled(p) =>
    \A d \in sprites[p] : d \in unheard \/ bag[d] = {}

\* NOT kept: nor one that is not there. Nobody is told of an expired drop (maproom.go:404)
\* or of one that was claimed and could not be written (handlers_battle.go:595).
NoGhostDrops == \A p \in Players : Settled(p) => sprites[p] \subseteq floor \union unheard

\* NOT kept: every drop on the floor can be seen. map_init lists none (handlers_game.go:814)
\* and a new scene of the map starts without (mmo-battle.js:335).
DropsSeen ==
  \A p \in Players : Settled(p) /\ dropScene[p] => floor \ (spawning \union unheard) \subseteq sprites[p]
=============================================================================
