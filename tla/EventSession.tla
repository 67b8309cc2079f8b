---------------------------- MODULE EventSession ----------------------------
(***************************************************************************)
(* The events of one player (server/api/ws/handlers_npc.go, the transfers  *)
(* of handlers_game.go and the client's event lock): goroutines that run   *)
(* event commands for the player one at a time under EventMu, tell the     *)
(* client with event_start and event_end, and hand the closing event_end   *)
(* over to the next map's autorun when an event transfers the player.      *)
(*                                                                         *)
(* Goroutines: the Reader (readPump, one message after the other), at most *)
(* one Event (npc_interact or a touched event: it holds EventMu from its   *)
(* creation to its end), and one autorun goroutine for each entry into a   *)
(* map, numbered by the map generation it was created with.                *)
(*                                                                         *)
(* What an event does besides transferring the player to another map       *)
(* (dialogs, effects, battles, a move within the map) is one phase, "run". *)
(* Packets to the client arrive in the order they are sent and the client  *)
(* acts on them at once: a client that acts later on what it received is   *)
(* the same as one whose message stays longer in the inbox. Bounds:        *)
(* MaxGen entries into a map, MaxAutoruns autorun events of one map,       *)
(* MaxInbox messages under way.                                            *)
(***************************************************************************)
EXTENDS Integers, Sequences, FiniteSets

CONSTANTS Maps, NoMap, MaxGen, MaxAutoruns, MaxInbox

ASSUME MapAssumption == NoMap \notin Maps
ASSUME BoundAssumption == MaxGen \in Nat /\ MaxAutoruns \in Nat \ {0} /\ MaxInbox \in Nat

VARIABLES
  mapId,       \* s.MapID
  mapGen,      \* s.mapGen
  rooms,       \* maps whose room holds the player
  eventMu,     \* the goroutine that holds s.EventMu, or Nobody
  needEnd,     \* s.needEventEnd
  cooling,     \* the last interaction is less than interactCooldown ago
  closed,      \* s.Done is closed
  pc,          \* where each goroutine is
  home,        \* the map it started on: startMapID, or ExecuteAutoruns' mapID
  dest,        \* where its EnterMapRoom goes
  todo,        \* autorun events it has left
  locked,      \* client: $MMO._serverEventActive
  scene,       \* client: no map yet, loading one since map_init, or on it
  inbox,       \* messages from the client the reader has not taken
  raced,       \* history: a transfer by the reader overlapped an event
  dropped      \* history: an interaction was dropped without an answer

sessionVars == <<mapId, mapGen, rooms, cooling, closed>>
flagVars    == <<eventMu, needEnd>>
procVars    == <<pc, home, dest, todo>>
clientVars  == <<locked, scene, inbox>>
histVars    == <<raced, dropped>>
vars == <<sessionVars, flagVars, procVars, clientVars, histVars>>

Autoruns == 1 .. MaxGen
Reader   == 0
Event    == MaxGen + 1
Procs    == 0 .. MaxGen + 1
Nobody   == -1

\* Inside EnterMapRoom.
EnterPhase == {"leave", "move", "join", "spawn"}
\* From event_start (or its inheritance) to the release of EventMu.
BodyPhase == {"greet", "mark", "head", "run", "close", "unmark", "tell", "unlock"}
Phase == EnterPhase \cup BodyPhase \cup
  {"none", "idle", "checked", "start", "fetch", "wait", "acquire", "recheck",
   "inherit", "bail", "bailTell"}

Message == {"interact", "move"}

Running(p)  == p # Reader /\ pc[p] \in EnterPhase \cup {"head", "run"}
Entering    == {p \in Procs : pc[p] \in EnterPhase}
Goto(p, at) == pc' = [pc EXCEPT ![p] = at]
\* The goroutine ends, and what it kept to itself with it.
Finish(p) ==
  /\ Goto(p, IF p = Event THEN "idle" ELSE "none")
  /\ home' = [home EXCEPT ![p] = NoMap]
  /\ todo' = [todo EXCEPT ![p] = 0]
\* Send: nothing reaches a client that has gone.
Tell(lock)  == locked' = IF closed THEN locked ELSE lock

\* enter_map, the first message, is being handled.
Init ==
  /\ mapId = NoMap /\ mapGen = 0 /\ rooms = {}
  /\ eventMu = Nobody /\ needEnd = FALSE
  /\ cooling = FALSE /\ closed = FALSE
  /\ pc = [p \in Procs |-> IF p = Reader THEN "checked"
                           ELSE IF p = Event THEN "idle" ELSE "none"]
  /\ home = [p \in Procs |-> NoMap] /\ dest = [p \in Procs |-> NoMap]
  /\ todo = [p \in Procs |-> 0]
  /\ locked = FALSE /\ scene = "none" /\ inbox = <<>>
  /\ raced = FALSE /\ dropped = FALSE

-----------------------------------------------------------------------------
(* The client *)

\* The player presses OK next to an NPC: the client locks itself first.
ClientInteract ==
  /\ ~closed /\ ~locked /\ scene = "map"
  /\ Len(inbox) < MaxInbox
  /\ inbox' = Append(inbox, "interact")
  /\ locked' = TRUE
  /\ UNCHANGED <<sessionVars, flagVars, procVars, scene, histVars>>

\* The player takes a step (or a map_transfer is sent).
ClientMove ==
  /\ ~closed /\ ~locked /\ scene = "map"
  /\ Len(inbox) < MaxInbox
  /\ inbox' = Append(inbox, "move")
  /\ UNCHANGED <<sessionVars, flagVars, procVars, locked, scene, histVars>>

\* Scene_Map.start. The scene_ready it sends does not decide anything: an
\* autorun that waits for it goes on without it after 15 seconds.
SceneStart ==
  /\ scene = "loading" /\ scene' = "map"
  /\ UNCHANGED <<sessionVars, flagVars, procVars, locked, inbox, histVars>>

CooldownOver ==
  /\ cooling /\ cooling' = FALSE
  /\ UNCHANGED <<mapId, mapGen, rooms, closed, flagVars, procVars,
                 clientVars, histVars>>

-----------------------------------------------------------------------------
(* The reader *)

\* EventMu.TryLock succeeds and a goroutine takes the event over.
StartEvent ==
  /\ eventMu = Nobody
  /\ eventMu' = Event
  /\ pc' = [pc EXCEPT ![Reader] = "idle", ![Event] = "greet"]
  /\ home' = [home EXCEPT ![Event] = mapId]
  /\ UNCHANGED <<needEnd, dest, todo>>

\* HandleInteract returns without an answer: in a battle (of this player's event
\* or of a party member's) or within interactCooldown of the last interaction;
\* or, with the cooldown taken, as the payload names no event or the session
\* has no room.
InteractDropped ==
  /\ pc[Reader] = "idle" /\ inbox # <<>> /\ Head(inbox) = "interact"
  /\ inbox' = Tail(inbox)
  /\ UNCHANGED cooling \/ (~cooling /\ cooling' = TRUE)
  /\ dropped' = TRUE
  /\ UNCHANGED <<mapId, mapGen, rooms, closed, flagVars, procVars,
                 locked, scene, raced>>

\* Mutant: the rejection returns without event_end.
InteractRejected_Silent ==
  /\ pc[Reader] = "idle" /\ inbox # <<>> /\ Head(inbox) = "interact"
  /\ inbox' = Tail(inbox)
  /\ ~cooling
  /\ cooling' = TRUE
  /\ UNCHANGED <<mapId, mapGen, rooms, closed, flagVars, procVars,
                 locked, scene, histVars>>

\* HandleInteract answers event_end: no such NPC, too far, no page that an
\* interaction triggers - or an event is running already.
InteractRejected ==
  /\ pc[Reader] = "idle" /\ inbox # <<>> /\ Head(inbox) = "interact"
  /\ inbox' = Tail(inbox)
  /\ ~cooling
  /\ cooling' = TRUE
  /\ Tell(FALSE)
  /\ UNCHANGED <<mapId, mapGen, rooms, closed, flagVars, procVars,
                 scene, histVars>>

InteractAccepted ==
  /\ pc[Reader] = "idle" /\ inbox # <<>> /\ Head(inbox) = "interact"
  /\ inbox' = Tail(inbox)
  /\ ~cooling
  /\ cooling' = TRUE
  /\ StartEvent
  /\ UNCHANGED <<mapId, mapGen, rooms, closed, locked, scene, histVars>>

\* HandleMove, HandleMapTransfer: EventMu is tried and released at once.
HandleMove ==
  /\ pc[Reader] = "idle" /\ inbox # <<>> /\ Head(inbox) = "move"
  /\ inbox' = Tail(inbox)
  /\ IF eventMu = Nobody THEN Goto(Reader, "checked") ELSE UNCHANGED pc
  /\ UNCHANGED <<sessionVars, flagVars, home, dest, todo, locked, scene, histVars>>

\* The step ends on a tile without event, or ExecuteTouchEvent finds EventMu taken.
PlainMove ==
  /\ pc[Reader] = "checked" /\ mapId # NoMap
  /\ Goto(Reader, "idle")
  /\ UNCHANGED <<sessionVars, flagVars, home, dest, todo, clientVars, histVars>>

TouchEvent ==
  /\ pc[Reader] = "checked" /\ mapId # NoMap
  /\ StartEvent
  /\ UNCHANGED <<sessionVars, clientVars, histVars>>

\* handleDisconnect: Close, leaveMap.
Disconnect ==
  /\ ~closed /\ pc[Reader] = "idle"
  /\ closed' = TRUE
  /\ rooms' = rooms \ {mapId}
  /\ locked' = FALSE /\ scene' = "none" /\ inbox' = <<>>
  /\ UNCHANGED <<mapId, mapGen, cooling, flagVars, procVars, histVars>>

\* Mutant: the rooms do not look at their players' sessions.
CleanStale_Never == FALSE /\ UNCHANGED vars

\* cleanStaleSessions: the tick of a room takes a closed session out.
CleanStale ==
  /\ closed
  /\ \E m \in rooms : rooms' = rooms \ {m}
  /\ UNCHANGED <<mapId, mapGen, cooling, closed, flagVars, procVars,
                 clientVars, histVars>>

-----------------------------------------------------------------------------
(* EnterMapRoom, called by the reader or by a running event *)

StartTransfer(p, m) ==
  /\ IF p = Reader THEN pc[p] = "checked" ELSE pc[p] = "run" /\ m # mapId
  /\ mapGen + Cardinality(Entering) < MaxGen
  /\ dest' = [dest EXCEPT ![p] = m]
  /\ Goto(p, "leave")
  /\ raced' = (raced \/ (p = Reader /\ eventMu # Nobody))
  /\ UNCHANGED <<sessionVars, flagVars, home, todo, clientVars, dropped>>

\* Mutant: leaveMap is not called.
LeaveMap_Stays(p) ==
  /\ pc[p] = "leave"
  /\ Goto(p, "move")
  /\ UNCHANGED <<sessionVars, flagVars, home, dest, todo, clientVars, histVars>>

LeaveMap(p) ==
  /\ pc[p] = "leave"
  /\ rooms' = rooms \ {mapId}
  /\ Goto(p, "move")
  /\ UNCHANGED <<mapId, mapGen, cooling, closed, flagVars,
                 home, dest, todo, clientVars, histVars>>

\* SetMapInfo (ClearNPCChannels follows)
MoveToMap(p) ==
  /\ pc[p] = "move"
  /\ mapId' = dest[p]
  /\ Goto(p, "join")
  /\ UNCHANGED <<mapGen, rooms, cooling, closed, flagVars, home, dest, todo,
                 clientVars, histVars>>

\* AddPlayer and map_init, on which the client loads a new scene
JoinRoom(p) ==
  /\ pc[p] = "join"
  /\ rooms' = rooms \cup {dest[p]}
  /\ scene' = IF closed THEN scene ELSE "loading"
  /\ Goto(p, "spawn")
  /\ UNCHANGED <<mapId, mapGen, cooling, closed, flagVars,
                 home, dest, todo, locked, inbox, histVars>>

\* IncrMapGen, and the goroutine for the new map's autoruns
SpawnAutorun(p) ==
  /\ pc[p] = "spawn"
  /\ mapGen' = mapGen + 1
  /\ pc' = [pc EXCEPT ![p] = IF p = Reader THEN "idle" ELSE "run",
                      ![mapGen + 1] = "start"]
  /\ home' = [home EXCEPT ![mapGen + 1] = dest[p]]
  /\ dest' = [dest EXCEPT ![p] = NoMap]
  /\ UNCHANGED <<mapId, rooms, cooling, closed, flagVars, todo, clientVars, histVars>>

EnterMapRoom(p) == LeaveMap(p) \/ MoveToMap(p) \/ JoinRoom(p) \/ SpawnAutorun(p)

-----------------------------------------------------------------------------
(* ExecuteAutoruns, up to the lock *)

\* The generation is compared once, when the goroutine starts.
StaleCheck(g) ==
  /\ pc[g] = "start"
  /\ IF mapGen = g THEN Goto(g, "fetch") /\ UNCHANGED <<home, todo>> ELSE Finish(g)
  /\ UNCHANGED <<sessionVars, flagVars, dest, clientVars, histVars>>

\* GetAutorunNPCsForPlayer: which pages are active depends on the game state.
FetchAutoruns(g) ==
  /\ pc[g] = "fetch"
  /\ \E n \in 0 .. MaxAutoruns :
       /\ todo' = [todo EXCEPT ![g] = n]
       /\ Goto(g, IF n = 0 THEN "bail" ELSE "wait")
  /\ UNCHANGED <<sessionVars, flagVars, home, dest, clientVars, histVars>>

\* scene_ready, 15 seconds or the end of the session; then the map is compared.
WaitScene(g) ==
  /\ pc[g] = "wait"
  /\ \/ mapId = home[g] /\ Goto(g, "acquire")
     \/ (mapId # home[g] \/ closed) /\ Goto(g, "bail")
  /\ UNCHANGED <<sessionVars, flagVars, home, dest, todo, clientVars, histVars>>

\* Mutant: Lock does not exclude.
Acquire_Shared(g) ==
  /\ pc[g] = "acquire"
  /\ eventMu' = g
  /\ Goto(g, "recheck")
  /\ raced' = (raced \/ pc[Reader] \in EnterPhase)
  /\ UNCHANGED <<sessionVars, needEnd, home, dest, todo, clientVars, dropped>>

Acquire(g) ==
  /\ pc[g] = "acquire"
  /\ eventMu = Nobody
  /\ eventMu' = g
  /\ Goto(g, "recheck")
  /\ raced' = (raced \/ pc[Reader] \in EnterPhase)
  /\ UNCHANGED <<sessionVars, needEnd, home, dest, todo, clientVars, dropped>>

\* Mutant: the early return keeps EventMu.
Recheck_KeepsLock(g) ==
  /\ pc[g] = "recheck"
  /\ Goto(g, IF mapId = home[g] THEN "inherit" ELSE "bail")
  /\ UNCHANGED <<sessionVars, flagVars, home, dest, todo, clientVars, histVars>>

\* The map is compared again; a goroutine whose map was left gives EventMu back.
Recheck(g) ==
  /\ pc[g] = "recheck"
  /\ IF mapId = home[g]
       THEN Goto(g, "inherit") /\ UNCHANGED eventMu
       ELSE Goto(g, "bail") /\ eventMu' = Nobody
  /\ UNCHANGED <<sessionVars, needEnd, home, dest, todo, clientVars, histVars>>

\* ClearNeedEventEnd: the event that led here has not closed, so the client is
\* still locked.
Inherit(g) ==
  /\ pc[g] = "inherit"
  /\ needEnd' = FALSE
  /\ Goto(g, IF needEnd THEN "mark" ELSE "greet")
  /\ UNCHANGED <<sessionVars, eventMu, home, dest, todo, clientVars, histVars>>

\* Mutant: the early returns of ExecuteAutoruns leave the flag to others.
Bail_Silent(g) ==
  /\ pc[g] = "bail"
  /\ Finish(g)
  /\ UNCHANGED <<sessionVars, flagVars, dest, clientVars, histVars>>

\* sendEventEndIfNeeded
Bail(g) ==
  /\ pc[g] = "bail"
  /\ needEnd' = FALSE
  /\ IF needEnd THEN Goto(g, "bailTell") /\ UNCHANGED <<home, todo>> ELSE Finish(g)
  /\ UNCHANGED <<sessionVars, eventMu, dest, clientVars, histVars>>

BailTell(g) ==
  /\ pc[g] = "bailTell"
  /\ Tell(FALSE)
  /\ Finish(g)
  /\ UNCHANGED <<sessionVars, flagVars, dest, scene, inbox, histVars>>

-----------------------------------------------------------------------------
(* An event with EventMu: HandleInteract's and ExecuteTouchEvent's goroutine, *)
(* and ExecuteAutoruns from event_start on                                    *)

\* event_start
Greet(p) ==
  /\ pc[p] = "greet"
  /\ Tell(TRUE)
  /\ Goto(p, "mark")
  /\ UNCHANGED <<sessionVars, flagVars, home, dest, todo, scene, inbox, histVars>>

\* SetNeedEventEnd(true)
Mark(p) ==
  /\ pc[p] = "mark"
  /\ needEnd' = TRUE
  /\ Goto(p, IF p = Event THEN "run" ELSE "head")
  /\ UNCHANGED <<sessionVars, eventMu, home, dest, todo, clientVars, histVars>>

\* Mutant: the loop runs once too often.
NextAutorun_Past(g) ==
  /\ pc[g] = "head"
  /\ \/ mapId = home[g]
        /\ todo' = [todo EXCEPT ![g] = @ - 1]
        /\ Goto(g, "run")
     \/ Goto(g, "close") /\ UNCHANGED todo
  /\ UNCHANGED <<sessionVars, flagVars, home, dest, clientVars, histVars>>

\* The loop over the autoruns stops once the player has left the map, or at an
\* event the client has to run; an event whose page has changed is skipped.
NextAutorun(g) ==
  /\ pc[g] = "head"
  /\ \/ todo[g] > 0 /\ mapId = home[g]
        /\ todo' = [todo EXCEPT ![g] = @ - 1]
        /\ Goto(g, "run")
     \/ Goto(g, "close") /\ UNCHANGED todo
  /\ UNCHANGED <<sessionVars, flagVars, home, dest, clientVars, histVars>>

\* Execute returns: the list has ended, its context has expired or the player
\* has gone.
EndExecute(p) ==
  /\ pc[p] = "run"
  /\ Goto(p, IF p = Event THEN "close" ELSE "head")
  /\ UNCHANGED <<sessionVars, flagVars, home, dest, todo, clientVars, histVars>>

\* After a transfer the flag stays, and the new map's autorun sends event_end.
Close(p) ==
  /\ pc[p] = "close"
  /\ Goto(p, IF mapId # home[p] THEN "unlock" ELSE "unmark")
  /\ UNCHANGED <<sessionVars, flagVars, home, dest, todo, clientVars, histVars>>

\* Mutant: the flag is left set.
Unmark_Skipped(p) ==
  /\ pc[p] = "unmark"
  /\ Goto(p, "tell")
  /\ UNCHANGED <<sessionVars, flagVars, home, dest, todo, clientVars, histVars>>

\* SetNeedEventEnd(false)
Unmark(p) ==
  /\ pc[p] = "unmark"
  /\ needEnd' = FALSE
  /\ Goto(p, "tell")
  /\ UNCHANGED <<sessionVars, eventMu, home, dest, todo, clientVars, histVars>>

\* event_end
TellEnd(p) ==
  /\ pc[p] = "tell"
  /\ Tell(FALSE)
  /\ Goto(p, "unlock")
  /\ UNCHANGED <<sessionVars, flagVars, home, dest, todo, scene, inbox, histVars>>

Unlock(p) ==
  /\ pc[p] = "unlock"
  /\ eventMu' = Nobody
  /\ Finish(p)
  /\ UNCHANGED <<sessionVars, needEnd, dest, clientVars, histVars>>

ReaderStep ==
  \/ InteractDropped \/ InteractRejected \/ InteractAccepted
  \/ HandleMove \/ PlainMove \/ TouchEvent
  \/ EnterMapRoom(Reader)

AutorunStep(g) ==
  \/ StaleCheck(g) \/ FetchAutoruns(g) \/ WaitScene(g)
  \/ Recheck(g) \/ Inherit(g) \/ Bail(g) \/ BailTell(g) \/ NextAutorun(g)

BodyStep(p) ==
  \/ Greet(p) \/ Mark(p) \/ EndExecute(p)
  \/ Close(p) \/ Unmark(p) \/ TellEnd(p) \/ Unlock(p)

ProcStep(p) == EnterMapRoom(p) \/ BodyStep(p) \/ (p # Event /\ AutorunStep(p))

Next ==
  \/ ClientInteract \/ ClientMove \/ SceneStart \/ CooldownOver
  \/ Disconnect \/ CleanStale
  \/ ReaderStep
  \/ \E p \in Procs, m \in Maps : StartTransfer(p, m)
  \/ \E p \in Procs \ {Reader} : ProcStep(p)
  \/ \E g \in Autoruns : Acquire(g)

Spec == Init /\ [][Next]_vars

\* The rooms tick and the scheduler runs every goroutine; Execute ends by its
\* watchdog at the latest; a client that has loaded a map says so or WaitScene's
\* timer fires; and sync.Mutex hands a lock to a goroutine that has waited too
\* long (each waits once, so it is enough that some waiting one gets it).
FairSpec ==
  /\ Spec
  /\ WF_vars(CleanStale)
  /\ WF_vars(ReaderStep)
  /\ \A p \in Procs \ {Reader} : WF_vars(ProcStep(p))
  /\ SF_vars(\E g \in Autoruns : Acquire(g))
-----------------------------------------------------------------------------
(* Properties *)

TypeOK ==
  /\ mapId \in Maps \cup {NoMap}
  /\ mapGen \in 0 .. MaxGen
  /\ rooms \subseteq Maps
  /\ eventMu \in Procs \cup {Nobody}
  /\ needEnd \in BOOLEAN /\ cooling \in BOOLEAN /\ closed \in BOOLEAN
  /\ pc \in [Procs -> Phase]
  /\ home \in [Procs -> Maps \cup {NoMap}]
  /\ dest \in [Procs -> Maps \cup {NoMap}]
  /\ todo \in [Procs -> 0 .. MaxAutoruns]
  /\ locked \in BOOLEAN /\ scene \in {"none", "loading", "map"}
  /\ inbox \in Seq(Message)
  /\ raced \in BOOLEAN /\ dropped \in BOOLEAN

\* Nothing is under way on the server, and no message is on its way to it.
Quiet ==
  /\ pc[Reader] = "idle" /\ pc[Event] = "idle" /\ inbox = <<>>
  /\ \A g \in Autoruns : pc[g] = "none"

\* Two goroutines never run event commands for the same player, from the first
\* check after Lock to Unlock: what EventMu is for.
EventExclusive ==
  \A p, q \in Procs : Running(p) /\ Running(q) => p = q

\* When everything has come to rest the client is not left locked: each
\* event_start is answered by one event_end, across any chain of transfers
\* and goroutines that hand the closing over or give up - unless a transfer by
\* the reader overlapped an event, or an interaction was dropped silently.
NeverStuck == Quiet /\ locked => raced \/ dropped

\* ... and no goroutine leaves needEventEnd behind for an event to come, which
\* would make it start without event_start.
FlagHandedOver == Quiet /\ needEnd => raced

\* At rest the player is in the room of the map the session says, and in no other.
InOneRoom == Quiet /\ ~closed /\ ~raced => rooms = {mapId}

\* A locked client is unlocked again.
Unlocks == locked ~> (~locked \/ raced \/ dropped)

\* A player who has gone is out of every room in the end, and stays out, even
\* when an event of his goes on and transfers him after handleDisconnect.
GoneFromRooms == closed ~> [](rooms = {})

\* An autorun that waits for EventMu gets it, whatever events the player goes
\* on starting.
AutorunServed == \A g \in Autoruns : pc[g] = "acquire" ~> pc[g] # "acquire"

-----------------------------------------------------------------------------
(* What comments say, and the code does not do *)

\* handlers_npc.go: a rejected interaction must be answered by event_end, or
\* the client stays locked.
InteractAnswered == Quiet /\ locked => ~dropped

\* handlers_npc.go: whatever the order of transfers, an event that transferred
\* the player is closed by the next map's autorun.
ClosedByNextAutorun == Quiet /\ locked => dropped
=============================================================================
