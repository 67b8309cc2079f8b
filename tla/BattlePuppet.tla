---------------------------- MODULE BattlePuppet ----------------------------
(***************************************************************************)
(* The client's side of a turn battle: client_plugin/mmo-battle-puppet.js  *)
(* and mmo-battle-core.js, where RPG Maker's battle scene is a puppet of   *)
(* the server's battle (server/game/battle/instance.go, modelled by        *)
(* TurnBattle).                                                            *)
(*                                                                         *)
(* The server tells the start, requests inputs, reports actions, shows     *)
(* texts and tells the end; the client queues the reports and plays them   *)
(* frame by frame, keeps one request until everything is played, lets the  *)
(* player choose in RPG Maker's windows and acknowledges the texts.        *)
(***************************************************************************)
EXTENDS Naturals, Sequences

CONSTANTS
  Me, Other,      \* the actors: the player's own and another player's
  None,
  MaxHP,
  MaxReports,     \* bound on the reports of all battles together
  MaxBattles      \* bound on the battles

VARIABLES
  srv,            \* what the server's battle does
  asked,          \* the actor whose input it waits for
  hp,             \* the hit points it has told the client of
  escaped,        \* the actors that have left the battle
  first,          \* the actor with index 0; the server names actors by their index
  reports, battles,
  toPuppet,       \* battle messages on their way to the client
  fromPuppet,     \* and from it
  puppetMode,     \* _puppetMode, $MMO._serverBattle
  startHP,        \* _puppetActors
  shown,          \* the hit points the client shows
  dead,           \* the actors that RPG Maker counts as dead or hidden
  hidden,         \* the other actor is hidden and no longer among $gameParty.battleMembers()
  request,        \* _pendingInputRequest
  eventQueue,     \* _puppetEventQueue
  playing,        \* the action being animated (_processingAction), its results applied or not
  sceneReady,     \* _puppetSceneReady
  inBattle,       \* $gameParty._inBattle
  defeatTimer,    \* _puppetDefeatTimer
  scene, goingTo, \* the scene, and the one SceneManager changes to
  active,         \* the active windows
  actorIndex,     \* BattleManager._actorIndex
  reading         \* a battle text is on the screen, its poll runs

battleVars == <<srv, asked, hp, escaped, first, reports, battles>>
playVars == <<request, eventQueue, playing>>
sceneVars == <<sceneReady, inBattle, scene, goingTo>>
bodyVars == <<startHP, shown, dead, hidden>>
inputVars == <<active, actorIndex>>
vars == <<battleVars, toPuppet, fromPuppet, puppetMode, bodyVars, playVars, sceneVars,
          defeatTimer, inputVars, reading>>

Actors == {Me, Other}
HP == 0..MaxHP
Full == [a \in Actors |-> MaxHP]
Idle == [report |-> None, applied |-> FALSE]
Windows == {"command", "list", "enemy", "actor"}

Init ==
  /\ srv = "none" /\ asked = None /\ hp \in [Actors -> HP \ {0}] /\ escaped = {}
  /\ first = Me /\ reports = 0 /\ battles = 0
  /\ toPuppet = <<>> /\ fromPuppet = <<>>
  /\ puppetMode = FALSE
  /\ startHP = Full /\ shown = Full /\ dead = {} /\ hidden = FALSE
  /\ request = None /\ eventQueue = <<>> /\ playing = Idle
  /\ sceneReady = FALSE /\ inBattle = FALSE /\ defeatTimer = FALSE
  /\ scene = "map" /\ goingTo = "map"
  /\ active = {} /\ actorIndex = None
  /\ reading = FALSE

-----------------------------------------------------------------------------
(* The server's battle, as far as the client sees it. *)

Tell(m) == toPuppet' = Append(toPuppet, m)
Fighting == {a \in Actors \ escaped : hp[a] > 0}
ServerOnly == UNCHANGED <<puppetMode, bodyVars, playVars, sceneVars, defeatTimer, inputVars, reading>>

\* Run: battle_start with the snapshots, once the player is back on his map and
\* those who fell have been recovered by the event.
BattleBegins ==
  /\ srv = "none" /\ battles < MaxBattles
  /\ scene = "map" /\ goingTo = "map" /\ toPuppet = <<>> /\ dead = {}
  /\ srv' = "turn"
  /\ battles' = battles + 1
  /\ escaped' = {}
  /\ first' \in Actors
  /\ Tell([t |-> "start", hp |-> hp])
  /\ UNCHANGED <<asked, hp, reports, fromPuppet>>
  /\ ServerOnly

\* collectActions asks every actor in turn, and every client hears it.
RequestInput ==
  /\ srv = "turn" /\ reports < MaxReports
  /\ \E a \in Fighting :
       /\ asked' = a
       /\ Tell([t |-> "input", a |-> a])
  /\ srv' = "input"
  /\ reports' = reports + 1
  /\ UNCHANGED <<hp, escaped, first, battles, fromPuppet>>
  /\ ServerOnly

\* SubmitInput of the player's own actor; other actors are answered by their own
\* clients. waitForInput gives up at its deadline.
TakeInput ==
  /\ srv = "input"
  /\ \/ /\ asked = Me /\ fromPuppet # <<>> /\ Head(fromPuppet) = [t |-> "input", a |-> Me]
        /\ fromPuppet' = Tail(fromPuppet)
     \/ UNCHANGED fromPuppet
  /\ srv' = "turn"
  /\ asked' = None
  /\ UNCHANGED <<hp, escaped, first, reports, battles, toPuppet>>
  /\ ServerOnly

\* HandleBattleInput and HandleTroopAck drop what nobody waits for.
DropAnswer ==
  /\ fromPuppet # <<>>
  /\ LET m == Head(fromPuppet) IN
       \/ m.t = "input" /\ ~(srv = "input" /\ m.a = Me /\ asked = Me)
       \/ m.t = "ack" /\ srv = "none"
       \/ m.t = "result"
  /\ fromPuppet' = Tail(fromPuppet)
  /\ UNCHANGED <<battleVars, toPuppet>>
  /\ ServerOnly

\* An action's result, and the end of a turn with what it regenerates.
Report ==
  /\ srv = "turn" /\ reports < MaxReports /\ Fighting # {}
  /\ reports' = reports + 1
  /\ \E a \in Actors \ escaped, n \in HP :
       /\ hp' = [hp EXCEPT ![a] = n]
       /\ \/ Tell([t |-> "action", a |-> a, hp |-> n])
          \/ hp[a] > 0 /\ n > 0 /\ Tell([t |-> "turnend", a |-> a, by |-> <<hp[a], n>>])
  /\ UNCHANGED <<srv, asked, escaped, first, battles, fromPuppet>>
  /\ ServerOnly

\* Another actor escapes: the others hear of it.
OtherEscapes ==
  /\ srv = "turn" /\ Other \in Fighting /\ Me \in Fighting
  /\ escaped' = {Other}
  /\ Tell([t |-> "escape", a |-> Other])
  /\ UNCHANGED <<srv, asked, hp, first, reports, battles, fromPuppet>>
  /\ ServerOnly

\* A troop event shows a text and waits for the acknowledgement (30 s): RunMoment
\* comes before checkBattleEnd, so the party may just have fallen.
ShowText ==
  /\ srv = "turn" /\ reports < MaxReports
  /\ srv' = "text"
  /\ reports' = reports + 1
  /\ Tell([t |-> "text"])
  /\ UNCHANGED <<asked, hp, escaped, first, battles, fromPuppet>>
  /\ ServerOnly

TakeAck ==
  /\ srv = "text"
  /\ \/ /\ fromPuppet # <<>> /\ Head(fromPuppet).t = "ack"
        /\ fromPuppet' = Tail(fromPuppet)
     \/ UNCHANGED fromPuppet
  /\ srv' = "turn"
  /\ UNCHANGED <<asked, hp, escaped, first, reports, battles, toPuppet>>
  /\ ServerOnly

\* emitBattleEnd: everyone has fallen, or the battle is won or left.
BattleEnds ==
  /\ srv = "turn"
  /\ srv' = "none"
  /\ Tell([t |-> "end"])
  /\ UNCHANGED <<asked, hp, escaped, first, reports, battles, fromPuppet>>
  /\ ServerOnly

\* The event recovers the fallen and forwards that to the client.
Recover ==
  /\ srv = "none" /\ dead # {} /\ toPuppet = <<>> /\ battles < MaxBattles
  /\ scene = "map" /\ goingTo = "map"
  /\ hp' = Full
  /\ Tell([t |-> "recover"])
  /\ UNCHANGED <<srv, asked, escaped, first, reports, battles, fromPuppet>>
  /\ ServerOnly

-----------------------------------------------------------------------------
(* The client's messages. *)

Answer(m) == fromPuppet' = Append(fromPuppet, m)

Received(t) ==
  /\ toPuppet # <<>> /\ Head(toPuppet).t = t
  /\ toPuppet' = Tail(toPuppet)
  /\ UNCHANGED battleVars

Ignored(t) ==
  /\ Received(t)
  /\ ~puppetMode
  /\ UNCHANGED <<fromPuppet, puppetMode, bodyVars, playVars, sceneVars, defeatTimer, inputVars, reading>>

\* battle_battle_start: all state anew, the actors as the server sees them, and
\* Scene_Battle on top of the map.
OnBattleStart ==
  /\ Received("start")
  /\ puppetMode' = TRUE
  /\ startHP' = Head(toPuppet).hp
  /\ shown' = Head(toPuppet).hp
  /\ request' = None /\ eventQueue' = <<>> /\ playing' = Idle
  /\ sceneReady' = FALSE
  /\ defeatTimer' = FALSE
  /\ goingTo' = "battle"
  /\ UNCHANGED <<fromPuppet, dead, hidden, inBattle, scene, inputVars, reading>>

\* Mutant: a request that comes while an action is animated is ignored.
OnInputRequest_Busy ==
  /\ Received("input") /\ puppetMode
  /\ request' = IF playing = Idle THEN Head(toPuppet).a ELSE request
  /\ UNCHANGED <<fromPuppet, puppetMode, bodyVars, eventQueue, playing, sceneVars, defeatTimer,
                 inputVars, reading>>

\* battle_input_request: kept until everything before it has been played.
OnInputRequest ==
  /\ Received("input") /\ puppetMode
  /\ request' = Head(toPuppet).a
  /\ UNCHANGED <<fromPuppet, puppetMode, bodyVars, eventQueue, playing, sceneVars, defeatTimer,
                 inputVars, reading>>

\* battle_action_result, battle_actor_escape, battle_turn_end: queued.
OnReport ==
  /\ \E t \in {"action", "escape", "turnend"} : Received(t)
  /\ puppetMode
  /\ eventQueue' = Append(eventQueue, Head(toPuppet))
  /\ UNCHANGED <<fromPuppet, puppetMode, bodyVars, request, playing, sceneVars, defeatTimer,
                 inputVars, reading>>

\* battle_troop_command, show text: into $gameMessage, and a poll that
\* acknowledges when nothing is shown any more.
OnTroopText ==
  /\ Received("text") /\ puppetMode
  /\ reading' = TRUE
  /\ UNCHANGED <<fromPuppet, puppetMode, bodyVars, playVars, sceneVars, defeatTimer, inputVars>>

\* The player has read it and the poll finds $gameMessage idle.
TextRead ==
  /\ reading
  /\ reading' = FALSE
  /\ Answer([t |-> "ack"])
  /\ UNCHANGED <<battleVars, toPuppet, puppetMode, bodyVars, playVars, sceneVars, defeatTimer, inputVars>>

\* _getBattler, BattleManager.actor(): who stands at the index of an actor. Hidden
\* actors are not counted, so that once the first is hidden the second has moved to
\* index 0 and nobody is found at his own.
Found(a) == IF ~hidden THEN a ELSE IF a = first THEN Me ELSE None

\* The results of the actions that are still queued.
Applied(q, f) ==
  [a \in Actors |->
     LET mine == {i \in DOMAIN q : q[i].t = "action" /\ Found(q[i].a) = a} IN
     IF mine = {} THEN f[a] ELSE q[CHOOSE i \in mine : \A j \in mine : j <= i].hp]
Fallen(q, d) ==
  {a \in Actors :
     LET mine == {i \in DOMAIN q : q[i].t = "action" /\ Found(q[i].a) = a} IN
     IF mine = {} THEN a \in d ELSE q[CHOOSE i \in mine : \A j \in mine : j <= i].hp = 0}

\* battle_battle_end: what is queued is applied without its animation, the puppet
\* is let go and the map's scene is restored.
OnBattleEnd ==
  /\ Received("end") /\ puppetMode
  /\ request' = None /\ eventQueue' = <<>> /\ playing' = Idle
  /\ shown' = Applied(eventQueue, shown)
  /\ dead' = Fallen(eventQueue, dead)
  /\ puppetMode' = FALSE
  /\ inBattle' = FALSE
  /\ defeatTimer' = FALSE
  /\ goingTo' = "map"
  /\ Answer([t |-> "result"])
  /\ UNCHANGED <<startHP, hidden, sceneReady, scene, inputVars, reading>>

\* npc_effect 314, which RPG Maker's own interpreter carries out.
OnRecover ==
  /\ Received("recover")
  /\ shown' = Full
  /\ dead' = {}
  /\ UNCHANGED <<fromPuppet, puppetMode, startHP, hidden, playVars, sceneVars, defeatTimer,
                 inputVars, reading>>

-----------------------------------------------------------------------------
(* Frames. *)

ClientOnly == UNCHANGED <<battleVars, toPuppet>>

\* SceneManager changes the scene; a new Scene_Battle marks the party, and the end of
\* one (RPG Maker's onBattleEnd) makes the hidden appear.
SceneChange ==
  /\ scene # goingTo
  /\ scene' = goingTo
  /\ inBattle' = (inBattle \/ (goingTo = "battle" /\ puppetMode))
  /\ active' = {}
  /\ hidden' = (hidden /\ goingTo = "battle")
  /\ ClientOnly
  /\ UNCHANGED <<fromPuppet, puppetMode, startHP, shown, dead, playVars, sceneReady, goingTo,
                 defeatTimer, actorIndex, reading>>

Frame == puppetMode /\ scene = "battle" /\ goingTo = "battle"

\* 15 frames of a scene with its windows.
BecomeReady ==
  /\ Frame /\ ~sceneReady
  /\ sceneReady' = TRUE
  /\ ClientOnly
  /\ UNCHANGED <<fromPuppet, puppetMode, bodyVars, playVars, inBattle, scene, goingTo, defeatTimer,
                 inputVars, reading>>

\* An action's results: the hit points the server computed, and death with them.
Apply(r) ==
  /\ shown' = [a \in Actors |-> IF a = Found(r.a) THEN r.hp ELSE shown[a]]
  /\ dead' = {a \in Actors : IF a = Found(r.a) THEN r.hp = 0 ELSE a \in dead}

\* An action starts its animation; one without has its results at once.
StartPuppetAction(r) ==
  \E now \in BOOLEAN :
    /\ playing' = [report |-> r, applied |-> now]
    /\ IF now THEN Apply(r) ELSE UNCHANGED <<shown, dead>>

\* A turn's end adds what it regenerates to what is shown, down to 0.
ApplyTurnEnd(r) ==
  /\ shown' = [a \in Actors |->
       IF a # Found(r.a) THEN shown[a]
       ELSE IF shown[a] + r.by[2] > r.by[1] THEN shown[a] + r.by[2] - r.by[1] ELSE 0]
  /\ UNCHANGED <<dead, hidden, playing>>

\* An actor that has escaped is hidden.
ApplyActorEscape(r) ==
  /\ shown' = [shown EXCEPT ![r.a] = 0]
  /\ dead' = dead \cup {r.a}
  /\ hidden' = TRUE
  /\ UNCHANGED playing

\* The next report of the queue.
PlayNext ==
  /\ Frame /\ sceneReady /\ playing = Idle /\ eventQueue # <<>>
  /\ eventQueue' = Tail(eventQueue)
  /\ LET r == Head(eventQueue) IN
       \/ r.t = "action" /\ StartPuppetAction(r) /\ UNCHANGED hidden
       \/ r.t = "turnend" /\ ApplyTurnEnd(r)
       \/ r.t = "escape" /\ ApplyActorEscape(r)
  /\ ClientOnly
  /\ UNCHANGED <<fromPuppet, puppetMode, startHP, request, sceneVars, defeatTimer, inputVars, reading>>

\* Frame 12 of an animation: the results.
HitFrame ==
  /\ Frame /\ playing # Idle /\ ~playing.applied
  /\ Apply(playing.report)
  /\ playing' = [playing EXCEPT !.applied = TRUE]
  /\ ClientOnly
  /\ UNCHANGED <<fromPuppet, puppetMode, startHP, hidden, request, eventQueue, sceneVars,
                 defeatTimer, inputVars, reading>>

\* Its end: the animation is over and 30 frames have passed, or 180 have.
ActionOver ==
  /\ Frame /\ playing # Idle /\ playing.applied
  /\ playing' = Idle
  /\ ClientOnly
  /\ UNCHANGED <<fromPuppet, puppetMode, bodyVars, request, eventQueue, sceneVars, defeatTimer,
                 inputVars, reading>>

AllDead == dead = Actors

\* The party is annihilated and the end has not come: 3 s are granted.
ArmDefeat ==
  /\ Frame /\ sceneReady /\ playing = Idle /\ eventQueue = <<>>
  /\ AllDead /\ ~defeatTimer
  /\ defeatTimer' = TRUE
  /\ ClientOnly
  /\ UNCHANGED <<fromPuppet, puppetMode, bodyVars, playVars, sceneVars, inputVars, reading>>

\* They are over: the battle is left as lost.
LeaveDefeated ==
  /\ defeatTimer
  /\ defeatTimer' = FALSE
  /\ IF puppetMode
     THEN /\ puppetMode' = FALSE /\ inBattle' = FALSE /\ goingTo' = "map"
          /\ Answer([t |-> "result"])
     ELSE UNCHANGED <<puppetMode, inBattle, goingTo, fromPuppet>>
  /\ ClientOnly
  /\ UNCHANGED <<bodyVars, playVars, sceneReady, scene, inputVars, reading>>

\* _ensurePuppetParty: the actors as battle_start told them.
EnsureParty ==
  shown' = [a \in Actors |-> IF startHP[a] = 0 THEN 1 ELSE startHP[a]]

\* _processInputRequest, when nothing is left to play: the party as it was at the
\* start, and the command window of the actor. A request for an index at which nobody
\* is found is gone with a warning.
ProcessInput ==
  /\ Frame /\ sceneReady /\ playing = Idle /\ eventQueue = <<>> /\ ~AllDead
  /\ request # None
  /\ request' = None
  /\ EnsureParty
  /\ actorIndex' = request
  /\ active' = IF Found(request) = None THEN active ELSE active \cup {"command"}
  /\ inBattle' = TRUE
  /\ ClientOnly
  /\ UNCHANGED <<fromPuppet, puppetMode, startHP, dead, hidden, eventQueue, playing, sceneReady,
                 scene, goingTo, defeatTimer, reading>>

-----------------------------------------------------------------------------
(* The player. *)

Choosing ==
  /\ Frame
  /\ ClientOnly
  /\ UNCHANGED <<puppetMode, bodyVars, playVars, sceneVars, defeatTimer, actorIndex, reading>>

SendInput == Answer([t |-> "input", a |-> actorIndex])

\* Attack: which enemy.
CommandAttack ==
  /\ Choosing /\ "command" \in active
  /\ active' = (active \ {"command"}) \cup {"enemy"}
  /\ UNCHANGED fromPuppet

\* Guard and escape are sent at once.
CommandGuard ==
  /\ Choosing /\ "command" \in active
  /\ active' = active \ {"command"}
  /\ SendInput

CommandEscape ==
  /\ Choosing /\ "command" \in active
  /\ active' = active \ {"command"}
  /\ SendInput

\* A skill of its own command: sent at once, or its target chosen.
CommandCustom ==
  /\ Choosing /\ "command" \in active
  /\ \/ /\ active' = active \ {"command"}
        /\ SendInput
     \/ /\ \E w \in {"enemy", "actor"} : active' = (active \ {"command"}) \cup {w}
        /\ UNCHANGED fromPuppet

\* Skills and items: a list, which leads back or on.
OpenList ==
  /\ Choosing /\ "command" \in active
  /\ active' = (active \ {"command"}) \cup {"list"}
  /\ UNCHANGED fromPuppet

ListOk ==
  /\ Choosing /\ "list" \in active
  /\ \/ /\ active' = active \ {"list"}
        /\ SendInput
     \/ /\ \E w \in {"enemy", "actor"} : active' = (active \ {"list"}) \cup {w}
        /\ UNCHANGED fromPuppet

ListCancel ==
  /\ Choosing /\ "list" \in active
  /\ active' = (active \ {"list"}) \cup {"command"}
  /\ UNCHANGED fromPuppet

\* onEnemyOk, onActorOk: the input goes out with the skill or item chosen before.
TargetOk ==
  /\ Choosing
  /\ \E w \in active \cap {"enemy", "actor"} : active' = active \ {w}
  /\ SendInput

TargetCancel ==
  /\ Choosing
  /\ \E w \in active \cap {"enemy", "actor"} : active' = (active \ {w}) \cup {"command"}
  /\ UNCHANGED fromPuppet

-----------------------------------------------------------------------------

Battle == BattleBegins \/ RequestInput \/ TakeInput \/ DropAnswer \/ Report \/ OtherEscapes
          \/ ShowText \/ TakeAck \/ BattleEnds \/ Recover

Messages == OnBattleStart \/ OnInputRequest \/ OnReport \/ OnTroopText \/ TextRead
            \/ OnBattleEnd \/ OnRecover
            \/ \E t \in {"input", "action", "escape", "turnend", "text", "end"} : Ignored(t)

Frames == SceneChange \/ BecomeReady \/ PlayNext \/ HitFrame \/ ActionOver \/ ArmDefeat
          \/ LeaveDefeated \/ ProcessInput

Choices == CommandAttack \/ CommandGuard \/ CommandEscape \/ CommandCustom \/ OpenList \/ ListOk
           \/ ListCancel \/ TargetOk \/ TargetCancel

Next == Battle \/ Messages \/ Frames \/ Choices

Spec == Init /\ [][Next]_vars

-----------------------------------------------------------------------------
(* Properties. *)

TypeOK ==
  /\ srv \in {"none", "turn", "input", "text"} /\ asked \in Actors \cup {None}
  /\ hp \in [Actors -> HP] /\ escaped \subseteq Actors /\ first \in Actors
  /\ shown \in [Actors -> 0..2 * MaxHP] /\ startHP \in [Actors -> HP] /\ dead \subseteq Actors
  /\ request \in Actors \cup {None} /\ actorIndex \in Actors \cup {None}
  /\ {puppetMode, hidden, sceneReady, inBattle, defeatTimer, reading} \subseteq BOOLEAN
  /\ {scene, goingTo} \subseteq {"map", "battle"} /\ active \subseteq Windows

Sent(s, t) == \E i \in DOMAIN s : s[i].t = t

\* The server waits for the player's input or for the end of a text only while
\* the client has the request still to come, keeps it, has a window open for that
\* actor, shows the text, or has answered: no animation, scene change or other
\* actor's request loses it before the server's deadline. (A text for a party that
\* has fallen may come after the client has left the battle, and a player whose index
\* an escape has shifted is not found.)
Answerable ==
  /\ srv = "input" /\ asked = Me /\ Found(Me) = Me =>
       \/ Sent(toPuppet, "input") \/ Sent(toPuppet, "start")
       \/ request = Me
       \/ actorIndex = Me /\ active # {}
       \/ Sent(fromPuppet, "input")
  /\ srv = "text" /\ Fighting # {} =>
       Sent(toPuppet, "text") \/ reading \/ Sent(fromPuppet, "ack")

\* The 3 s timer and the mark of the party belong to the battle that is on: none
\* outlives it to end the next one or to lock the map.
OwnBattle == defeatTimer \/ inBattle => puppetMode
=============================================================================
