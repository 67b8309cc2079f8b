------------------------------- MODULE NpcView -------------------------------
(***************************************************************************)
(* The client's view of one NPC: Sprite_ServerNPC and NPCManager in        *)
(* client_plugin/mmo-npc.js, fed by the map room's list and its npc_sync   *)
(* and npc_page_change messages (server/game/world/npc_movement.go).       *)
(*                                                                         *)
(* The sprite walks through a bounded queue of synced steps; its icon and  *)
(* its label are siblings in the tilemap. A scene change saves a list and  *)
(* destroys the tilemap; the next scene builds the sprites anew. Effects of *)
(* server events move the same character.                                  *)
(***************************************************************************)
EXTENDS Integers, Sequences

CONSTANTS
  NoNpc,          \* no data, no sprite
  Width,          \* the columns of the map
  QueueMax,       \* QUEUE_MAX
  MaxNews         \* bound on the server's messages

VARIABLES
  npc,            \* the server's NPC: its column and the look of its page
  news,           \* the messages sent so far
  toView,         \* on their way to the client
  onMap,          \* a Scene_Map with its tilemap is shown
  container,      \* _container is that scene's tilemap, an old one, or none
  sprite,         \* _sprites[event_id]
  nodes,          \* what hangs in the present tilemap
  initNPCs,       \* _initNPCs: the data of the NPC, if there is a list
  pendingNPCs,    \* _pending
  stale,          \* history: rebuilt from a saved list, not heard of since
  displaced       \* history: moved by an effect, not synced since

npcVars == <<npc, news>>
managerVars == <<onMap, container, nodes, initNPCs, pendingNPCs>>
npcViewVars == <<npcVars, toView, managerVars, sprite, stale, displaced>>

Columns == 0..Width - 1
Looks == {"none", "plain", "tagged"}     \* invisible; an image; an image, icon and label

\* The data of a list has the look of the page; that of npc_sync has none.
Data == [x : Columns, look : Looks]

Init ==
  /\ npc \in [x : {0}, look : {"tagged", "plain"}] /\ news = 0
  /\ toView = <<[t |-> "list", d |-> npc]>>
  /\ onMap = FALSE /\ container = "none"
  /\ sprite = NoNpc /\ nodes = {}
  /\ initNPCs = NoNpc /\ pendingNPCs = <<>>
  /\ stale = FALSE /\ displaced = FALSE

-----------------------------------------------------------------------------
(* The map room. *)

\* TickNPCs: a step, or the step of the page and that of the chase in one tick.
ServerMoves ==
  /\ news < MaxNews
  /\ news' = news + 1
  /\ \E x \in Columns : /\ x - npc.x \in -2..2
                        /\ npc' = [npc EXCEPT !.x = x]
                        /\ toView' = Append(toView, [t |-> "sync", d |-> [x |-> x, look |-> "none"]])
  /\ UNCHANGED <<managerVars, sprite, stale, displaced>>

\* Another page of the NPC comes up for this player.
ServerTurnsPage ==
  /\ news < MaxNews
  /\ news' = news + 1
  /\ \E look \in Looks : /\ npc' = [npc EXCEPT !.look = look]
                         /\ toView' = Append(toView, [t |-> "page", d |-> npc'])
  /\ UNCHANGED <<managerVars, sprite, stale, displaced>>

\* map_init, instance_enter and instance_leave carry the whole list; an event sends
\* the effects 203 and 205 for the NPC.
ServerSends ==
  /\ news < MaxNews
  /\ news' = news + 1
  /\ \E t \in {"list", "locate", "route"} : toView' = Append(toView, [t |-> t, d |-> npc])
  /\ UNCHANGED <<npc, managerVars, sprite, stale, displaced>>

-----------------------------------------------------------------------------
(* Sprite_ServerNPC. *)

Fresh(d) ==
  [x |-> d.x, moving |-> FALSE, queue |-> <<>>, look |-> d.look, through |-> FALSE,
   route |-> FALSE, data |-> d, drawn |-> {}]

\* Where the sprite will stand when its queue is through.
Goal(s) == IF s.queue = <<>> THEN s.x ELSE s.queue[Len(s.queue)]

Far(a, b) == a - b > 1 \/ b - a > 1

\* syncData: compared with the end of the queue; a jump or a full queue teleports,
\* a step is queued.
SyncData(s, d) ==
  IF Far(d.x, Goal(s)) \/ Len(s.queue) >= QueueMax
  THEN [s EXCEPT !.data = d, !.queue = <<>>, !.x = d.x, !.moving = FALSE]
  ELSE [s EXCEPT !.data = d, !.queue = IF d.x # Goal(s) THEN Append(@, d.x) ELSE @]

\* pageChange: the new image, icon and label; a label of another text is removed,
\* and a route in progress keeps its _through.
PageChange(s, d) ==
  [s EXCEPT !.look = d.look,
            !.through = @ /\ s.route,
            !.drawn = IF d.look = s.look THEN @ ELSE @ \ {"label"}]

\* update: the next step of the queue, once the last one is walked.
Walk ==
  /\ onMap /\ sprite # NoNpc /\ container = "live"
  /\ IF sprite.moving
     THEN sprite' = [sprite EXCEPT !.moving = FALSE]
     ELSE /\ sprite.queue # <<>>
          /\ sprite' = [sprite EXCEPT !.x = Head(sprite.queue), !.queue = Tail(sprite.queue),
                                      !.moving = Head(sprite.queue) # sprite.x]
  /\ UNCHANGED <<npcVars, toView, managerVars, stale, displaced>>

\* _updateNpcIcon: an icon is made, or removed when there is none any more.
DrawIcon ==
  /\ onMap /\ sprite # NoNpc /\ container = "live"
  /\ IF sprite.look = "tagged"
     THEN /\ "icon" \notin sprite.drawn
          /\ sprite' = [sprite EXCEPT !.drawn = @ \cup {"icon"}]
          /\ nodes' = nodes \cup {"icon"}
     ELSE /\ "icon" \in sprite.drawn
          /\ sprite' = [sprite EXCEPT !.drawn = @ \ {"icon"}]
          /\ nodes' = nodes \ {"icon"}
  /\ UNCHANGED <<npcVars, toView, onMap, container, initNPCs, pendingNPCs, stale, displaced>>

\* _updateNpcLabel.
DrawLabel ==
  /\ onMap /\ sprite # NoNpc /\ container = "live"
  /\ IF sprite.look = "tagged"
     THEN /\ "label" \notin sprite.drawn
          /\ sprite' = [sprite EXCEPT !.drawn = @ \cup {"label"}]
          /\ nodes' = nodes \cup {"label"}
     ELSE /\ "label" \in sprite.drawn
          /\ sprite' = [sprite EXCEPT !.drawn = @ \ {"label"}]
          /\ nodes' = nodes \ {"label"}
  /\ UNCHANGED <<npcVars, toView, onMap, container, initNPCs, pendingNPCs, stale, displaced>>

-----------------------------------------------------------------------------
(* NPCManager. *)

Live == container = "live"

\* _addOne on a list, after clear() or in a new container.
Added(list) ==
  IF Len(list) = 0 THEN NoNpc
  ELSE IF Len(list) = 1 THEN Fresh(list[1])
  ELSE SyncData(Fresh(list[1]), list[2])

\* Mutant: the label stays in the tilemap.
Cleared_Label == IF Live THEN nodes \ {"body", "icon"} ELSE nodes

\* clear(): the sprite and its siblings leave the tilemap they are in.
Cleared == IF Live THEN {} ELSE nodes

Heard(t) ==
  /\ toView # <<>> /\ Head(toView).t = t
  /\ toView' = Tail(toView)
  /\ UNCHANGED npcVars

\* populate: a whole list, put by for the next scene as well.
Populate ==
  LET d == Head(toView).d IN
  /\ Heard("list")
  /\ initNPCs' = d
  /\ IF container = "none"
     THEN sprite' = NoNpc /\ pendingNPCs' = <<d>> /\ nodes' = Cleared
     ELSE sprite' = Fresh(d) /\ pendingNPCs' = <<>>
          /\ nodes' = Cleared \cup (IF Live THEN {"body"} ELSE {})
  /\ stale' = FALSE
  /\ displaced' = FALSE
  /\ UNCHANGED <<onMap, container>>

\* sync: a sprite that is not there hears nothing.
Sync ==
  LET d == Head(toView).d IN
  /\ Heard("sync")
  /\ sprite' = IF sprite = NoNpc THEN NoNpc ELSE SyncData(sprite, d)
  /\ stale' = (IF sprite # NoNpc /\ Live THEN FALSE ELSE TRUE)
  /\ displaced' = (displaced /\ sprite # NoNpc /\ sprite.route)
  /\ UNCHANGED managerVars

Page ==
  /\ Heard("page")
  /\ sprite' = IF sprite = NoNpc THEN NoNpc ELSE PageChange(sprite, Head(toView).d)
  /\ nodes' = IF sprite # NoNpc /\ Live /\ sprite'.look # sprite.look
              THEN nodes \ {"label"} ELSE nodes
  /\ UNCHANGED <<onMap, container, initNPCs, pendingNPCs, stale, displaced>>

\* npc_effect 203: the character is put somewhere, its queue stays.
Locate ==
  /\ Heard("locate")
  /\ \E x \in Columns :
       sprite' = IF sprite = NoNpc THEN NoNpc ELSE [sprite EXCEPT !.x = x, !.moving = FALSE]
  /\ displaced' = TRUE
  /\ UNCHANGED <<managerVars, stale>>

\* npc_effect 205: a forced route, through everything.
StartRoute ==
  /\ Heard("route")
  /\ sprite' = IF sprite = NoNpc THEN NoNpc ELSE [sprite EXCEPT !.route = TRUE, !.through = TRUE]
  /\ displaced' = TRUE
  /\ UNCHANGED <<managerVars, stale>>

RouteStep ==
  /\ onMap /\ sprite # NoNpc /\ Live /\ sprite.route /\ ~sprite.moving
  /\ \E x \in Columns : ~Far(x, sprite.x) /\ sprite' = [sprite EXCEPT !.x = x, !.moving = x # sprite.x]
  /\ displaced' = TRUE
  /\ UNCHANGED <<npcVars, toView, managerVars, stale>>

RouteOver ==
  /\ onMap /\ sprite # NoNpc /\ Live /\ sprite.route
  /\ sprite' = [sprite EXCEPT !.route = FALSE]
  /\ UNCHANGED <<npcVars, toView, managerVars, stale, displaced>>

\* createCharacters of a new Spriteset_Map: init() with the saved list and what is
\* pending.
CreateCharacters ==
  LET list == (IF initNPCs = NoNpc THEN <<>> ELSE <<initNPCs>>) \o pendingNPCs IN
  /\ ~onMap
  /\ onMap' = TRUE /\ container' = "live"
  /\ sprite' = Added(list)
  /\ nodes' = IF list = <<>> THEN {} ELSE {"body"}
  /\ initNPCs' = NoNpc /\ pendingNPCs' = <<>>
  /\ displaced' = FALSE
  /\ UNCHANGED <<npcVars, toView, stale>>

\* Scene_Map.terminate: the list that map_init left, or else the sprites as they
\* are, is put by; the tilemap is destroyed.
Terminate ==
  /\ onMap
  /\ onMap' = FALSE /\ container' = "old"
  /\ initNPCs' = IF initNPCs # NoNpc \/ sprite = NoNpc THEN initNPCs
                 ELSE [sprite.data EXCEPT !.x = sprite.x]
  /\ pendingNPCs' = <<>>
  /\ sprite' = NoNpc
  /\ nodes' = {}
  /\ stale' = (stale \/ sprite # NoNpc)
  /\ UNCHANGED <<npcVars, toView, displaced>>

\* _disconnected: clear(). The next connection starts with a list.
Disconnected ==
  /\ news < MaxNews
  /\ news' = news + 1
  /\ toView' = <<[t |-> "list", d |-> npc]>>
  /\ sprite' = NoNpc
  /\ nodes' = Cleared
  /\ pendingNPCs' = <<>>
  /\ UNCHANGED <<npc, onMap, container, initNPCs, stale, displaced>>

-----------------------------------------------------------------------------

Next ==
  \/ ServerMoves \/ ServerTurnsPage \/ ServerSends
  \/ Walk \/ DrawIcon \/ DrawLabel
  \/ Populate \/ Sync \/ Page \/ Locate \/ StartRoute \/ RouteStep \/ RouteOver
  \/ CreateCharacters \/ Terminate \/ Disconnected

Spec == Init /\ [][Next]_npcViewVars

-----------------------------------------------------------------------------
(* Properties. *)

TypeOK ==
  /\ npc \in Data /\ news \in 0..MaxNews
  /\ container \in {"none", "old", "live"} /\ {onMap, stale, displaced} \subseteq BOOLEAN
  /\ onMap <=> Live
  /\ initNPCs # NoNpc => initNPCs \in Data
  /\ nodes \subseteq {"body", "icon", "label"}
  /\ sprite # NoNpc =>
       /\ sprite.x \in Columns /\ sprite.data \in Data /\ sprite.look \in Looks
       /\ Len(sprite.queue) <= QueueMax
       /\ sprite.route => sprite.through

\* When everything the server sent has been heard, the NPC stands, or will when its
\* queue is walked, where the server has it: queued steps, jumps and a full queue
\* add up. (Excepted while the sprite is one that a scene change rebuilt from saved
\* data, or that an effect has moved.)
Follows ==
  toView = <<>> /\ onMap /\ ~stale /\ ~displaced /\ sprite # NoNpc => Goal(sprite) = npc.x

\* The icon and the label in the tilemap are those of the sprite in it: none
\* outlives its sprite, its page or its list.
NoOrphans ==
  onMap => nodes = (IF sprite = NoNpc THEN {} ELSE {"body"} \cup sprite.drawn)

\* A scene change rebuilds the NPC as it was, with its look and in its place
\* (mmo-npc.js:445-446: the latest position is taken from the sprite).
Restored ==
  [][onMap /\ ~onMap' /\ sprite # NoNpc =>
       initNPCs' # NoNpc /\ initNPCs'.look = sprite.look /\ initNPCs'.x = sprite.x]_npcViewVars
=============================================================================
