# Verification of the RPG Maker MV/MMO server and client

This directory holds TLA+ models of the multiplayer server in `server/` (Go) and
of the client plugin in `client_plugin/` (JavaScript) and of the protocols between
them, TLC configurations that check them on small instances, and TLAPS proofs.

The program puts RPG Maker MV games on line. A Go process serves WebSocket
connections, runs the game's event commands, battles, trades, parties, maps and
monsters on the server, and keeps characters in a database and some short-lived
keys in a cache. The client is the RPG Maker engine with a plugin that replaces
its event, battle and map logic by messages, and a library of widgets.

1. [Inventory](#1-inventory)
2. [Modules and plan](#2-modules-and-plan)
3. [Trade](#3-trade)
4. [EventSession](#4-eventsession)
5. [TurnBattle](#5-turnbattle)
6. [Connection](#6-connection)
7. [Events and battles on the client](#7-events-and-battles-on-the-client)
8. [The map](#8-the-map)
9. [The player's windows](#9-the-players-windows)
10. [Parties, chat, experience, saved state](#10-parties-chat-experience-saved-state)
11. [Forms and widgets](#11-forms-and-widgets)
12. [Side by side](#12-side-by-side)
13. [Runs](#13-runs)
14. [What is proved](#14-what-is-proved)
15. [Divergences](#15-divergences)
16. [What is not modelled](#16-what-is-not-modelled)

To check: `tlc -config X.cfg M` for the runs of section 13, `tlapm M.tla` for the
modules `*Proofs.tla`.

## 1. Inventory

Paths are relative to `server/` unless they begin with `client_plugin/`.
"Hard" is what makes the component worth a model; "correct" what it has to keep.

### How the server runs

Each connection has a reader goroutine (`api/ws/handler.go readPump`), which handles
the messages of one client one after the other, and a writer goroutine fed by
`SendChan`. Handlers of different clients interleave. Around them run goroutines
that act for a player: one per accepted NPC interaction or touched event, one autorun
goroutine per entry into a map, parallel-event goroutines, a battle inside the
event that started it, a battle's broadcaster and monitors. Each map room has a
ticking goroutine, game state a flushing one, the scheduler one per task.

### Sessions and world

| Component | State | Operations | Talks to | Hard | Correct |
|---|---|---|---|---|---|
| Player session registry (`game/player`, `api/ws/handler.go`, `router.go`) | `sessions` by character, each session's `Done`, buckets, cooldowns, `EventMu`, ack channels | connect, `Register`, `Unregister`, `Close`, disconnect clean-up, rate limit, dispatch by sequence number | every handler | duplicate logins; every new session registers under character 0; clean-up goes by character, not by session; position saved by a goroutine while the player comes back | at most one live session per character, and the one found is the live one; what the last session saved is what the next one loads |
| World rooms and instances (`game/world/world.go`, `instance.go`, `maproom.go`) | `rooms`, `instances`, `instByOwner`, players per room | get or create, enter, leave, destroy when empty, clean stale sessions | sessions, spawner, NPC runtime | a room obtained and destroyed before it is entered; stale removal against re-entry | a player is in one room, and it runs |
| Event session protocol (`api/ws/handlers_npc.go`, `handlers_game.go`, `client_plugin/mmo-npc.js`) | `EventMu`, `needEventEnd`, map and map generation; the client's `_serverEventActive` | interact, touch, autorun, transfer, disconnect | NPC interpreter, rooms | the closing `event_end` is handed from goroutine to goroutine over transfers; try-lock and release before a transfer | one event at a time; a locked client is unlocked; one room |
| NPC event interpreter (`game/npc/executor*.go`) | command index, call stack, per-run state | dispatch, branch, loop, dialog, effect, transfer, battle, parallel scheduler | session's ack channels, game state, inventory | acks that belong to an earlier wait; a parallel loop that never yields; waits without a timeout | an ack ends the wait it was sent for; every parallel event gets its turns |
| Script and template events (`game/script`, `executor_script.go`, `executor_template.go`, `executor_plugins.go`, `handlers_template_event.go`, `mmo-template-event-hook.js`) | sandbox; variables of events, on both sides | evaluate; set, batch, push | interpreter, game state | interpretation of project data; a queue with a timer against pushes, breaks and reloads | what waits will be sent; a variable set by the server is shown |
| Map NPC runtime (`npc_runtime.go`, `npc_movement.go`) | NPC positions, pages | page choice per player, autonomous moves | rooms, game state | per-player pages over one shared position | no NPC in a wall or on a player |
| Game state persistence (`gamestate.go`, `player_gamestate.go`) | switches, variables, `pending`, per-player caches | set, flush, load, unload | interpreter, database | write-behind, failed and overlapping flushes, unload under a writer, crash | memory and rows agree in the end; no change is lost but by a crash |

### Battle

| Component | State | Operations | Talks to | Hard | Correct |
|---|---|---|---|---|---|
| Turn battle session (`api/ws/handlers_battle_session.go`) | `sessions` by character, `InBattle` | choose participants, start, input, troop ack, broadcast, write back, reward | engine, party, sessions | monitors, broadcaster, readers and battle all interleave; escape of one of a party; everybody gone | every participant hears once of the end and is free again |
| Turn battle engine (`game/battle/instance.go`, `turn.go`, `troop_event.go`) | turn, actions, `inputCh`, `events`, escaped, disconnected | collect, order, act, escape, end | session | inputs of other actors put back; inputs that stand for gone players; bounded channels | the action of a turn is an answer to its request; no input lost; nobody gone is waited for |
| Battle rules (`action.go`, `battler.go`, `damage.go`, `formula.go`, `ai.go`, `loot.go`) | battlers | damage, states, buffs, AI, drops | engine | expiry order, clamping, guards | HP in range, states and their counters agree |
| Realtime field battle (`api/ws/handlers_battle.go`) | monsters' HP, drops | attack, kill, pick up | spawner, inventory | two killers, two pickers | one kill, one reward, one owner |
| Monsters, spawner, field AI (`game/world/monster.go`, `spawner.go`, `game/ai`) | monsters, threat, respawn timers | spawn, chase, group assist, respawn | rooms | death against respawn, threat of the departed | population within its limit |
| Skills and buffs (`game/skill`) | cooldown keys, buffs | use, expire | cache, sessions | check, then set | one use per cooldown |

### Social and economy

| Component | State | Operations | Talks to | Hard | Correct |
|---|---|---|---|---|---|
| Player trading (`game/trade/service.go`, `api/ws/handlers_trade.go`) | `active`, sessions' offers, lock key, transaction | request, accept, offer, confirm, commit, cancel | cache, database, inventory | a commit races offers, cancels and other sessions | gold is conserved and not negative, rows move only as agreed, no lock left behind |
| Party (`game/party/manager.go`) | parties, `byChar`, invites | invite, accept, decline, leave, kick | sessions, battle, instances | acceptance always creates a party; leaders who leave | membership and index agree, one party each, leader a member |
| Inventory and equipment (`game/item`) | inventory rows | equip, unequip, add, remove | database | read, then update by value | quantities are conserved, one item per slot |
| Shop and mail (`api/rest`) | gold, rows, mail | buy, sell, claim | database | concurrent requests of one account | no negative gold, one claim |
| Quests (`game/quest`) | progress rows | accept, progress, complete | inventory | two completions | one reward |
| Chat (`game/chat`) | channels, cooldowns | send | sessions, pub/sub | - | delivery to members |
| Friends (`api/rest/social.go`, `mmo-social.js`) | rows of friendships; the panel's list | ask, accept, delete, block; fetch, scroll | database, sessions | each handler reads, then writes what it read; answers overtake one another | a friendship goes both ways; the panel shows the server's friends |
| Guilds, ranking, admin (`api/rest`, `api/sse`) | rows | CRUD | database | two joins at the member limit | limits |
| Accounts and characters (`api/rest/auth.go`, `character.go`, `middleware`) | token cache, rows | login, create, delete | cache | two logins | one token |

### Infrastructure

| Component | State | Operations | Hard |
|---|---|---|---|
| Cache and pub/sub (`cache`) | keys with expiry, subscribers | SetNX, Del, GC, publish | expiry against GC; slow subscribers |
| Scheduler, hooks, audit (`scheduler`, `plugin/hook`, `audit`) | tasks, queue | run, stop, batch | queue full, stop against submit |
| Server start and stop (`main.go`) | - | start, shut down | order of closing and flushing |
| Resources, configuration, storage (`resource`, `config`, `db`, `model`) | loaded data | load | none: parsing |
| Debug handlers (`api/ws/handlers_debug.go`) | - | developer commands | none |

### Client

One page is one thread: a message, a timer, an HTTP answer, a key or a frame of the
running scene is handled to its end before the next. What makes it hard is that these come
in any order, that scenes are torn down and rebuilt under state that belongs to the page, and
that its messages and the server's cross.

| Component | State | Operations | Hard | Correct |
|---|---|---|---|---|
| Connection and scenes before the game (`mmo-core.js`, `mmo-auth.js`, `mmo-loader.js`) | socket, back-off, token, character; forms, faces, cards | log in, list, create, delete, enter, reconnect, leave | answers that find another scene; handlers left by earlier entries | one socket, which plays the chosen character; what is drawn as chosen is what is sent |
| Events and dialogs (`mmo-npc.js`, `mmo-core.js`) | event lock, `$gameMessage`, queued dialogs, effect queue | lock, show, play, acknowledge | messages while no map is shown; drains spread over frames | the server never waits for an answer the player cannot give; nothing outlives its event |
| NPCs, other players, monsters, drops on the map (`mmo-npc.js`, `mmo-other-players.js`, `mmo-battle.js`) | sprites, saved lists, pending lists | populate, sync, add, remove, rebuild | scene changes between a message and its sprite | the map shows what there is |
| Battle (`mmo-battle-puppet.js`, `mmo-battle-core.js`, `mmo-realtime-battle.js`) | event queue, kept request, windows, timers | play, ask, answer, end | a request or an end during an animation or a scene change | requests are answerable, nothing outlives its battle |
| Windows (`mmo-inventory.js`, `mmo-skill-bar.js`, `mmo-trade.js`, `mmo-party.js`, `mmo-chat.js`, `mmo-game-window.js`, `mmo-social.js`) | copies of what the server holds | open, show, drag, send | updates on two connections; optimistic changes | they agree with the server once all is heard |
| HUD (`mmo-hud.js`) | bar, minimap, quest tracker | draw | a cache per map, dots per scene | the land and the dots are those of now |
| UI toolkit (`ui/`, bundled as `mmo-ui.js`) | widgets, registries, pools | make, show, hide, click, drag | widgets that end in the middle of a frame; lists that outlive scenes | owners hear once; what is drawn is what is held |
| Tests (`integration`, `e2e`, `client_plugin/tests`) | - | - | - | used as documentation |

## 2. Modules and plan

Order: what costs players most when it goes wrong, and what others rest on, first; then
what the page shows.

| Module | Subject | State |
|---|---|---|
| `Trade` | trading on the server | proved |
| `EventSession` | events of one player, transfers, the client's lock | proved |
| `TurnBattle` | one turn battle, its channels and participants | proved |
| `Connection` | a page and the session registry | proved |
| `Dialogs` | what an event shows and waits for | proved |
| `BattlePuppet` | a turn battle as the client plays it | proved |
| `NpcView`, `OtherPlayers`, `FieldBattle`, `Drops`, `Minimap` | the map | proved, but for `LandReached` |
| `Inventory` | the bag and the shortcut bar | proved |
| `Shop`, `TradeWindow`, `MapPanels` | windows against what they show | proved |
| `Party`, `Chat`, `Experience` | server and clients together | proved |
| `GameState` | switches and variables, written behind; implements `StateRegister` | proved |
| `SelfVars` | variables of events, between page and server | proved |
| `Friendships`, `FriendList` | friends in the database and in the panel | proved |
| `Forms` | forms before the game | proved |
| `Fields`, `Selectors`, `Draggable` | widgets that hold a value, an item, a place | proved, but for `WidthsFill` |
| `Overlays`, `Toasts`, `Bubble` | widgets that open and end | checked |
| `MCTrade`, `MCEventSession`, `MCTurnBattle`, `MCConnection` | instances for TLC | |
| `MCScenes`, `MCWindows` | instances of the rest, side by side (section 12); `MCPlay` holds events, battles and the map, the first seven parts of `MCScenes` | |

How they meet: `EventSession` treats an event's commands as one phase; `Dialogs` is what
happens inside it, and `TurnBattle` what one of its commands starts. `BattlePuppet` is the
other end of `TurnBattle`, `TradeWindow` the other end of `Trade`. `Connection` is the
environment of all: it opens and closes the sessions the others suppose open.

The abstract specification is `StateRegister`: a row per key that never goes back to an older
value, unless the sets of the two values overlapped or the server is stopping. `GameState`, with its queue, its two
flushers, failures, crashes and the loads of a player's state by each of his connections, implements it (`Durable`,
`underway` being the sets that have not returned, every other variable itself).

The theorems about a component are in `<component>Proofs`; those about the parts of `MCWindows` are in
`WindowsProofs`, which takes what it needs of `Party` and `GameState` from `KeptProofs`; those about the parts of `MCScenes` are in
`ScenesProofs`, which takes the invariants of the parts in `MCPlay` from `PlayProofs` and has those of the others.

Still to be modelled: several battles over shared players (choice of participants, flags,
write-back), destruction of instances, the cooperative scheduler of parallel events, the
cache's sweep, cooldowns of skills, guilds.

## 3. Trade

`Trade.tla` models `game/trade/service.go` and its handlers.

*State.* `active`, `sessions`, `party` and `offer` are `Service.active` and the sessions it
has made; `keys` the cache keys `lock:trade:<a>_<b>`; `rowLock`, `delta` and `moved` the
open transactions (rows read with `FOR UPDATE`, gold added so far, rows handed over);
`gold`, `owner` and `equipped` the database. `pc[c]` and `cur[c]` say where the
reader goroutine of character `c` is and in which session: one client's messages are
handled in order, those of different clients interleave.

*Actions.* A handler is cut where it holds no mutex. `AcceptTrade`, `Lookup` (the read
of `svc.active` that `UpdateOffer` and `Confirm` begin with), `UpdateOffer`, `Confirm`
and `Cancel` are the handlers; `Confirm` of the second side goes on as `Commit` in the same
goroutine: `SetNX`, `LockRow` for A and B, `CheckGold`, `MoveItems` of each side, `Debit` and
`Credit` in the code's order, `WriteTx`, then `Cleanup` of `svc.active` and the deferred
`Unlock`. `AbortTx` is any statement that fails. Commit reads each amount where the code
reads it, so an offer rewritten meanwhile is seen half old, half new. `LockExpire` lets a
key outlive its 30 s. `ToggleEquip` is the equipment handler as one step. `RequestTrade`
only sends a message and is not an action.

*Properties.* `PairExclusive`: the key does what it is for as long as none has expired.
`NoLeakedLock`: no return path leaves a key or a row lock behind. `CommitsAgreed`,
`ItemsMoveByTrade`: what is exchanged was confirmed by both and is not equipped.
`GoldConserved`, `GoldNonNegative`. All but the first two except sessions in
`late`, those whose offers were rewritten under a running commit; what happens then is the
finding `GoldAlwaysConserved`. `CommitEnds`: commits of sessions that name the same pair in
opposite orders do not deadlock on the rows, although each locks its own A first, because
each client's messages are handled one after the other and the key excludes the pair.

*Fairness.* `FairSpec`: the scheduler runs a goroutine inside Commit, the database answers, a
row lock is granted once the row is free. A lock-wait timeout is possible but not relied on.
Nothing is assumed of players.

*Bounds.* `MaxSessions` sessions and `MaxExpiries` expired keys. One session with one item
and amounts up to twice what a character owns reaches every statement, every failure and
a key that outlives its time; repeated confirmations make it commit more than once. Three
characters and two sessions reach every way in which a session replaces another that is
open or committing; items play no part in it. The constraint `Overlap` leaves trades with
oneself and rewritten offers to the first run.

## 4. EventSession

`EventSession.tla` models the events of one player over `api/ws/handlers_npc.go`, the
transfers of `handlers_game.go` and the lock of `client_plugin/mmo-npc.js`.

*State.* Goroutines: `Reader`, `Event` (the accepted interaction or touched event; it holds
`EventMu` from its creation, so there is at most one), and one autorun goroutine per entry
into a map, numbered by the map generation it was made with. `eventMu` and `needEnd` are
`EventMu` and `needEventEnd`; `mapId`, `mapGen` and `rooms` the session's map and the rooms
that hold it; `locked`, `scene` and `inbox` the client's event lock, whether it has
loaded its map, and its messages under way. `raced` and `dropped` are history: the
reader transferred the player while an event ran; an interaction was dropped without an answer.

*Actions.* `ClientInteract`, `ClientMove`, `SceneStart` (client); `InteractDropped`,
`InteractRejected`, `InteractAccepted`, `HandleMove`, `PlainMove`, `TouchEvent`, `StartTransfer`,
`Disconnect` (reader; `InteractDropped` is each of the silent returns of `HandleInteract`: a battle, also one
of a party member's event, the cooldown, a payload without an event, no room); `LeaveMap`, `MoveToMap`, `JoinRoom`, `SpawnAutorun` (the four steps of
`EnterMapRoom`, which no lock covers, in whichever goroutine); `Greet` to `Unlock` (an event
from `event_start` to the release of `EventMu`); `StaleCheck` to `BailTell` (an autorun
goroutine: generation check, autoruns of the map, `scene_ready` or its timer, lock, second
check, inheriting `needEventEnd`); `CleanStale` (the room's tick). What commands do besides
transferring to another map is the phase `run`; it may end at any time and, under fairness,
ends, since the executor's contexts have deadlines and a touched event waits for a client
that answers.

*Properties.* `EventExclusive`. At rest (`Quiet`): `NeverStuck`, the client is not left locked;
`FlagHandedOver`, no `needEventEnd` is left for an event to come; `InOneRoom`. Along the way:
`Unlocks`, `AutorunServed`, `GoneFromRooms`. `HandleMapTransfer` and `HandleMove` try `EventMu`
and release it before they transfer: runs in which an event started in that window are
`raced`, and the properties except them, since there the code does not keep them (section 15,
`ClosedByNextAutorun`).

*Fairness.* Weak, of the reader, of every goroutine and of the rooms' tick; strong, of the
autoruns' `Lock`, because Go's mutex turns to starvation mode after 1 ms, in which a waiter gets
it before any later `TryLock`; each autorun waits once, so it is enough that some waiting one gets it. Nothing of the client's wish to interact.

*Bounds.* `MaxGen` entries into maps, `MaxAutoruns` autorun events per map, `MaxInbox`
messages under way. Two maps and three entries give an event that transfers into an autorun
that transfers again, and A, B, A with a stale autorun of the first visit. The live run has
two entries: a transfer chain and a goroutine left behind. The maps are symmetric; the live
run, where TLC's symmetry reduction is not sound, explores those behaviours that enter A first
(`EntersAFirst`), and without dropped interactions (`NoneDropped`), which change nothing on the server.
In the safety run the behaviours its properties except, `raced` or `dropped`, are followed up to the
last entry (`Excepted`): a dropped interaction changes nothing on the server, and of the raced behaviours
only `EventExclusive` says more, which is proved.

## 5. TurnBattle

`TurnBattle.tla` models one battle: `RunBattle` and what it starts
(`api/ws/handlers_battle_session.go`) around `BattleInstance.Run`
(`game/battle/instance.go`).

*State.* `pc` and `at` are the turn loop and the actor it collects from; `held` an input of
another actor between being taken and being put back; `action`, `todo`, `alive`, `fled` the
battle; `inputCh` and `events` the channels; `off` closed sessions, `disc` the disconnected
flags, `mon` the monitors, `cancelled` the context; `inBattle` the flag `InBattle()` together with
the entry in `bm.sessions`; `asked` and `told` the clients. `lost`, `dropped` (the events that found their channel full)
and `expired` are history.

*Actions.* `TurnStart`, `Collect`, `Ask`, `Receive`, `PutBack`, `GiveUp`, `Order`, `Act`,
`EscapeFails`, `Escape`, `TurnEnd`, `End`, `Cleanup` are the battle's goroutine; `Answer` and
`Disconnect` the participants; `Mark`, `PushDummy`, `CancelIfAllGone`, `StopWatching` a
monitor; `Broadcast` the broadcaster; `Expire` the deadline of the event that began the battle.
Damage, states, enemies and troop events are abstracted to what they may change:
after any action, and at either end of a turn, any set of actors may be alive, and the battle
may be decided, as enemies that died or fled or a script's abort decide it. Of the events only
requests, escapes and ends are kept; since the others take slots of the channel too, `Emit` may drop an event at
any time, as `emitEvent` does when the channel is full. A client answers a request at most once, at any time.

*Properties.* `NoInputLost`: `inputCh` never overflows, so neither an answer nor an input that
is put back is dropped. `FreshInput`: an answer lies in the channel only while the battle waits
for that actor, so it is never the action of a later turn. `EndTold`: each participant is told
once that it is over for him, whichever way escapes and the end overtake one another in the
broadcaster, which reads `IsEscaped` when it sends; only he whose last event was dropped is not told, and not twice
in its stead. `AutoGuard`: a player who has gone is not
waited for for ever, although the flag and the request race. `EscapeeFreed`, but for an escape that was dropped.

*Fairness.* Weak, of the battle, each monitor and the broadcaster; strong, of `GiveUp`: a `select`
with `ctx.Done()` ready picks it in the end although an input that is taken and put back is
always ready too. Nothing is assumed of players, who may think for ever.

*Bounds.* Two actors, alive or not in any combination, and one enemy; the number of turns is not
bounded. `inputCh` holds 3 where the code has 8 for up to four actors: in every run at most
one input more than there are actors is in it; section 14 proves that twice the number of actors
suffices. `events` holds 2 where the code has 64: nothing depends on how many it holds, since any may be dropped. The live run drops the enemy, whose action differs from any other's in nothing
these properties see, and the deadline, which only helps a battle to end.
It stops where the battle is over (`Undecided`): then nobody waits and nobody is held.
Deadlock is not checked in any run: all three systems may stop, when a bound is reached or when
the battle is over and everything has been sent.

## 6. Connection

`Connection.tla` models one page and the server's end of its sockets: `$MMO` in `mmo-core.js`, the
login, selection and creation scenes of `mmo-auth.js`, `api/ws/handler.go`, `handleEnterMap` of
`handlers_game.go` and `game/player/session_manager.go`.

*State.* Per page: the scene, the list shown, the requests without an answer, `_state`, `_ws`,
`_reconnectAttempts`, the reconnect and heartbeat timers, the `onConnected` handlers that wait
for `_connected`, `charID`, `token`, `_lastSelf`. Per socket: its two ends, the goroutine that reads
it (`pc`) and what is on its way. On the server: `sessions`, the room, the characters of the account.

*Actions.* The player's buttons (`User`), HTTP answers that come in whatever scene (`Answers`), the
browser's socket callbacks and timers (`Browser`), the deletion served, the goroutine of a socket
(`Server`: register, take over the character, leave its old entry, take the new one, enter, leave the room,
unregister, which are steps of their own and interleave) and
a failing network (`Cut`).

*Properties.* `Coherent`: socket, timers and `_state` tell one story, and a reconnection has a token.
`OneSocket`. `PlaysChosen`: handlers left by earlier entries do not make the server play another
character than the one chosen. `RegistryHonest`: the registry names a session only under its own
character, or the one it is just leaving, and only while its goroutine lives; and it finds every open session that has
entered, unless another session of that character has removed its entry (`robbed`).

*Bounds.* One page, two characters, two sockets at a time (an object whose two ends are finished
is used again), one reconnection, one network failure; a second socket is what a late callback and a
displaced session need. `Apart` explores creation, deletion, failure and waiting handlers apart from one
another, since they meet only in the list of characters. `View` forgets `charID` and `_lastSelf` outside
the game, where they are only ever overwritten. No fairness: all properties are safety.

## 7. Events and battles on the client

**Dialogs** models `executor_dialog.go`, `executor_effect.go` and the acknowledgements of `handlers_npc.go`
against the message override, effect queue and event lock of `mmo-npc.js` and `mmo-core.js`. Which command
comes next is open. A command is a text, a menu, an effect, a route or a wait for the scene; the reader offers
acknowledgements to channels of capacity one, drained before each wait. The client puts a dialog into
`$gameMessage`, keeps it while no map is shown or the message is busy, drains effects over frames and delays
`event_end` past a drain. `AnswerComing`: whenever the server waits (with no deadline but the event's), the
question is on its way, kept, shown, or answered, and an answer in the channel is the one to this question. `FreeAtRest`: with no
event left and nothing on its way, no delayed end or route is left, and no lock but that of a player whose interaction the server
has dropped in silence (`ignored`). `upset` excepts the histories in which a wait expired, the end of another event swept a dialog,
or a menu kept for the map was answered by a reply and an acknowledgement.

**BattlePuppet** models `mmo-battle-puppet.js` and `mmo-battle-core.js` against a battle reduced to its messages.
The client keeps one request until the queue of reports is played, animates (an action's results are applied at
its animation's hit), opens RPG Maker's command windows, moves between `Scene_Map` and `Scene_Battle`, and starts a 3 s
timer when its party falls. `Answerable`: a wait of the server has a request under way, kept, a window open for that
actor, a text on the screen, or an answer; of the player only while the client finds an actor at his index (`Found`), which the
escape of the first actor shifts. `OwnBattle`: timer and party mark do not outlive the battle.

## 8. The map

**NpcView**: one NPC, from the room's list and its `npc_sync`, `npc_page_change` and effects to the sprite with its queue
of steps, icon and label, the saved list and the pending list. `Follows`: queued steps, jumps and a full queue add up to
where the server has it. `NoOrphans`: icon and label never outlive their sprite, page or list.

**OtherPlayers**: who is in the room, what `EnterMapRoom` and `PlayerSnapshot` tell in which order, and the manager's sprites,
its saved and pending lists over scene changes and instances entered in the middle of an event, the fade and the
context menu. `NoGhosts`: whoever is drawn is in the room. `strayed` excepts what crosses a `map_init`.

**FieldBattle**: attack, cooldown, death, revival, transfer and the HP that events and items give and take (`SetStats`) by the server, and the client's automatic attack, keys,
cooldown and death overlay, with a connection that may be lost. `AutoRests`: the automatic attack does not outlive its player,
map or scene. `NoLastingShroud`: no overlay over a player who lives, unless he was healed in silence (`healed`).

**Drops**: a monster's drops on the floor of one room, the bounded broadcast queue that drops what does not fit,
two players' pick-up handlers, expiry, players entering between `AddPlayer` and `map_init`, and their sprites. `InOnePlace`: a
drop is on the floor, in one bag, expired or lost with a failed insert, and in one of these only. `NoneTaken`: nobody who has heard everything sees a drop
that somebody has.

**Minimap**: breadth-first search of the land from the player's tile, cached by map, and the dots of `npc_sync`, over
relocations, transfers and scene changes. `LandReached` compares the search with a definition by paths on
every map the bounds give. `DotsTrue`: one dot per NPC, where the server has it, none from another map.

## 9. The player's windows

**Inventory**: rows in the database and the client's list, fetched over HTTP and updated over the socket, the item menu and
drag by index, the shortcut bar and its copy in localStorage, and the rows that trades, shops and events change without an
`inventory_update` (`ChangeRows`). `CountsAgree`: if no change overlapped the last fetch and none was silent since, the
window counts what the database holds: `Total`, the units of a kind over all rows, each unit its row and its number in it. `SkillsKept`: what is stored is the skills of the bar.

**Shop**: optimistic purchases and sales, their results and refusals, shops opened over one another. `AgreesUnrefused`:
gold and goods agree once everything is dealt with, as long as nothing was refused.

**TradeWindow**: one player's window against a session that may be replaced by another and a commit that may fail.
`ShowsTerms`, `ClosedWhenOver`.

**FriendList**: the panel of `mmo-social.js`, made anew by every map, and `ListFriends`, whose answers come in any order. A
list is the set of its rows; the place of a row is the number of those the panel's sort puts before it.
`ShowsFriends`: the answer to the last request is drawn, those online on top, from the row it is scrolled to.
`SomeoneInSight`: scrolling never leaves a panel with friends empty.

**MapPanels**: chat, bars and windows made anew by every `Scene_Map`, registries, `_eventBusy` and the keyboard that outlive them.
`PanelsReturn`, `KeyboardFree`.

**Draggable**: dragging with a threshold, the pointer off the screen, a panel hidden in the middle, and the place kept in
localStorage for the next scene. `PlaceKept`: nothing the player has arranged is forgotten, unless the panel was hidden in the
middle of a drag (`cut`).

## 10. Parties, friends, chat, experience, saved state

**Party**: `manager.go`, its handlers and the disconnect's two steps, with the updates each party is told later, and every
client's panel and invitation dialog. `IndexValid`, `PanelHonest`.

**Friendships**: the rows of `api/rest/social.go`. A handler reads, then writes what it has read, so an acceptance and a
block are two steps each, between which the other player's requests come. `Mutual`: no friendship goes one way, whatever is
accepted, deleted and blocked meanwhile; the transaction of an acceptance may fail.

**Chat**: channels, delivery by the sender's handler or, of a `!text`, by the goroutine of the room he is in, each client's bounded
history, unread marks. `SenderOrder`: a log has one sender's messages in the order they were sent; only a `!text` may be overtaken, and
only by what does not go through the same room.

**Experience**: awards, death penalties (which leave nothing at worst) and late saves are goroutines that outlive their session and read, write and sync in
separate steps, against logins and the bar of the client. `NoneInvented`.

**GameState**: sets in memory, then queued (shared keys of the whitelist) or written at once (per player); `Flush` by the ticker
and by `Stop`, failing writes, crash and load; every goroutine may set every key, and the events of an ended connection go on with
the state they had of it. `Durable`: what is saved was set and not forgotten, and goes back only between sets that overlapped.
It is the property that `StateRegister` states as a specification.

**SelfVars**: the variables that events of TemplateEvent.js have to themselves, from `mmo-template-event-hook.js`
(a queue by key, a timer, batches, the end of a scene) to `HandleSelfVarSetBatch`, and back from `teSetSelfVariable` through a
bounded `SendChan`. `FlushComes`: whatever waits has a timeout that will send it. `Follows`: a variable the page has not set is the
server's, once all is heard, unless the last change was lost.

## 11. Forms and widgets

**Forms** models the login, selection and creation scenes of `mmo-auth.js` apart from the network: HTML inputs over the canvas, the
focus timer, faces whose images come when they come, an open list over other controls, answers that find another scene.
`DrawnAsChosen`: the page has the inputs of its scene only, and what is drawn as chosen is what will be sent.

**Overlays** models what the widgets share (`ui/core/base.js`), the input blocker and dialog, popconfirm, drawer, alert, full
screen, sub-window, button and tooltip. A frame is one step: the map looks at the pointer, then the children are updated as
`Array.forEach` does while they remove themselves. `Shielded`: no click goes through to the map. `ToldOnce`: an owner hears once of the end.

**Toasts**: messages and notifications with their pool of objects, over scene changes. `EndsOnce`, `PoolApart`.

**Bubble**: wrapping, typing ahead of its text, lasting, fading, with an owner who changes the text or skips the typing at any
time. `NothingLost`: wrapping keeps every character. `WrittenInside`: the text is inside the bubble drawn for it. `ToldOnce`.

**Fields**: text, number, slider, switch, check box, radio, select, tabs, steps, pages: `InStep`, the value may be chosen, is
what the owner knows and what is drawn or waits to be. A slider clamps before it rounds to its step, so its value is one of the
steps, and may be beyond the range by up to half of one (`SliderInRange` is not kept). The fields' keyboard, `Input._keys`, is supplied by nothing in
the repository; it is taken to hold the key that was pressed.

**Selectors**: list, table, tree, menu, drop-down, collapse, breadcrumb: `PickedAsDrawn`, what is picked is what was drawn
where the player pressed; `InView`; `WidthsFill`, the integer divisions of columns and tabs lose no pixel.

The client itself uses the base, button, dialog, loading, select, typography, message, notification, input blocker and theme;
the other widgets are a library that the bundle ships.

## 12. Side by side

Twenty-five modules describe parts that share no state with one another. Their state spaces are small,
and a run for each would show no more than one for all: `MCScenes` and `MCWindows` instantiate them, a variable
`part` says which takes its steps, the rest stays in its initial state. A property of these modules is a conjunction
of the parts' properties on one theme, each under its part. `Durable` needs no such guard, since a part that does not run stutters.

*MCScenes* has `Dialogs`, `BattlePuppet`, `FieldBattle`, `NpcView`, `OtherPlayers`, `Drops`, `Minimap` (declared in `MCPlay`), `Forms`, `Overlays`, `Toasts`,
`Bubble`, `Fields`, `Selectors`, `Draggable`.

| Property | Of |
|---|---|
| `TypesOK` | each one's `TypeOK` |
| `Answerable` | `Dialogs` `AnswerComing`, `BattlePuppet` `Answerable` |
| `FreeAgain` | `Dialogs` `FreeAtRest`, `BattlePuppet` `OwnBattle`, `FieldBattle` `AutoRests` |
| `MapHonest` | `NpcView` `Follows`, `NoOrphans`; `OtherPlayers` `NoGhosts`; `FieldBattle` `NoLastingShroud`; `Drops` `InOnePlace`, `NoneTaken`; `Minimap` `DotsTrue` |
| `WidgetsSound` | `Overlays` `Shielded`, `ToldOnce`; `Toasts` `EndsOnce`, `PoolApart`; `Bubble` `ToldOnce`, `NothingLost`, `WrittenInside`; `Selectors` `WidthsFill`; `Minimap` `LandReached` |
| `AsDrawn` | `Forms` `DrawnAsChosen`; `Selectors` `PickedAsDrawn`, `InView`; `Fields` `InStep`; `Draggable` `PlaceKept` |

*MCWindows* has `Inventory`, `Shop`, `TradeWindow`, `MapPanels`, `Party`, `Friendships`, `FriendList`, `Chat`, `Experience`,
`GameState`, `SelfVars`.

| Property | Of |
|---|---|
| `TypesOK` | each one's `TypeOK` |
| `WindowsAgree` | `Inventory` `CountsAgree`, `SkillsKept`; `Shop` `AgreesUnrefused`; `TradeWindow` `ShowsTerms`; `FriendList` `ShowsFriends`, `SomeoneInSight`; `SelfVars` `Follows`, `FlushComes` |
| `ScreenCleared` | `TradeWindow` `ClosedWhenOver`; `MapPanels` `PanelsReturn`, `KeyboardFree` |
| `TiesAgree` | `Party` `IndexValid`, `PanelHonest`; `Friendships` `Mutual` |
| `SenderOrder` | `Chat` |
| `NoneInvented` | `Experience` |
| `Durable` | `GameState` implements `StateRegister` |

*Bounds of Scenes.cfg.* Three commands in two events and one time-out (an acknowledgement that comes late for the next command or the next event);
two battles with two reports, 1 hit point, one's own and another's actor (a request that waits while a report plays, an end in an
animation, a timer over the end); a row of four columns, a queue of two steps and two messages (a step, a jump, a
full queue, a page in between); two other players and three entries or leaves; three blows, heals and transfers; one drop, two players, a
queue of one and three entries; maps of 3 x 2 tiles with at most two gaps, which separate
the land in every way, two maps, one NPC, three notices; two faces of which one lies beneath the list, two
characters, four scenes; two overlays of any kinds, whose frame may end either while the other is still to come;
four texts of which two may be active and one pooled; values up to 5 with steps of 2, which do not divide them, texts of 3; lists of four
items in a view of two; a panel with three places; bubbles with texts of up to three characters, one of them broad and one a line break,
on lines of two, four kinds of typing and lasting, two frames to fade.

*Bounds of Windows.cfg.* Two rows, one change of them that the bag has not asked for, one slot, one fetch, one scene more, one message each way (a fetch that a message overtakes needs no more);
three deals in two shops with gold for two; two sessions of a trade; three scenes; three players, two parties, two invitations; two clients, a
history of two, three messages (it overflows once), one room (a second is one more queue, as any two messages differ in it); two kills whose sum passes a level, one death, two sessions; two keys, one shared, two
goroutines that set either, two values each (they overlap), writes that may fail; two events, batches of one, a queue of one, three changes and two breaks
or reloads; two players and four rows of friendships; two friends in a panel of one row, two fetches.

Neither run checks deadlock: the parts stop where their bounds are reached. Neither assumes fairness.

## 13. Runs

| Run | Module, cfg | Checks | Expect |
|---|---|---|---|
| trade_exchange | MCTrade, MCTrade.cfg | TypeOK, PairExclusive, NoLeakedLock, CommitsAgreed, GoldConserved, ItemsMoveByTrade | pass |
| trade_overlap | MCTrade, MCTradeOverlap.cfg | GoldNonNegative with two sessions that share characters | pass |
| trade_live | MCTrade, TradeLive.cfg | CommitEnds | pass |
| trade_atomic | MCTrade, TradeAtomic.cfg | GoldAlwaysConserved | violation |
| event_session | MCEventSession, MCEventSession.cfg | TypeOK, EventExclusive, NeverStuck, FlagHandedOver, InOneRoom | pass |
| event_live | MCEventSession, EventSessionLive.cfg | Unlocks, AutorunServed, GoneFromRooms | pass |
| battle | MCTurnBattle, TurnBattle.cfg | TypeOK, NoInputLost, FreshInput, EndTold | pass |
| battle_live | MCTurnBattle, TurnBattleLive.cfg | AutoGuard, EscapeeFreed | pass |
| battle_allgone | MCTurnBattle, BattleAllGone.cfg | AllGoneEnds | violation |
| connection | MCConnection, Connection.cfg | TypeOK, Coherent, OneSocket, PlaysChosen, RegistryHonest | pass |
| scenes | MCScenes, Scenes.cfg | TypesOK, Answerable, FreeAgain, MapHonest, WidgetsSound, AsDrawn | pass |
| windows | MCWindows, Windows.cfg | TypesOK, WindowsAgree, ScreenCleared, TiesAgree, SenderOrder, NoneInvented, Durable | pass |

Definitions whose comment begins with "Mutant" (`Collect_Past`, `Receive_Keeps`) are
a plausible mistake in the code they stand beside. No action uses them; with
one in the place of its original, TLC finds the property it is for violated.

## 14. What is proved

For every value of the constants that satisfies the assumptions beside them, and with no
bound on the number of steps. All proofs have the shape Init => Inv, Inv and a step give
Inv', Inv gives the property.

*TradeProofs.* `TypeCorrect` (`TypeOK`), `AgreedCorrect` (`CommitsAgreed`), `ExclusiveCorrect`
(`PairExclusive`), `GoldIsConserved` (`GoldConserved`), `GoldStaysNonNegative` (`GoldNonNegative`).
`TypeInv` adds to the types that a goroutine inside a handler holds a session that exists.
Exclusion needs `KeyHeld`: a goroutine between `SetNX` and `Del` has its key in the cache.
Gold needs `GoldInv == TypeInv /\ CommitsAgreed /\ OwnSession /\ RowsLocked /\ Ledgers`: the ledger
of an open transaction (what it has added to either side so far, and that both sides could pay when
it checked) is kept from statement to statement because it holds the rows (`RowsLocked`), no other
goroutine writes them, and the amounts are those of the offers unless the session is `late`.
`OwnSession` rules out a trade with oneself reaching Commit, in which both sides are one row.
`LocksGivenBack` (`NoLeakedLock`) is inductive over `TypeInv`: every return path out of the locked part of
Commit goes through `Cleanup` and `Unlock`. `ItemsOnlyByTrade` (`ItemsMoveByTrade`) needs `RowsMoved`: a row a
transaction has handed over belongs to one of the two, is not worn, and was offered by its owner.

*EventSessionProofs.* `TypeCorrect` (`TypeOK`), `EventsExclude` (`EventExclusive`), `ClientUnlocked`
(`NeverStuck`), `FlagCleared` (`FlagHandedOver`), `OneRoom` (`InOneRoom`).
`BaseInv` ties `eventMu` to the phase of its holder, keeps generations that are not yet reached
without a goroutine, and counts entries under way against `MaxGen`. `ClientInv`: a locked
client has `needEventEnd` set, a request in its inbox, or a goroutine that is about to answer,
unless something was dropped. `FlagInv`: `needEventEnd` has somebody who will see to it, the event
that is still on its own map or under way to another, or the newest autorun. `RoomInv` follows
the one `EnterMapRoom` under way. At rest none of the alternatives is left but the property.

*TurnBattleProofs.* `TypeCorrect` (`TypeOK`), `AnswersFresh` (`FreshInput`), and `ChannelSuffices`: with
`InputCap >= 2 * NumActors`, which 8 is for a party of four, `NoInputLost`.
`InputInv == TypeOK /\ AtInv /\ ChanInv /\ DummyInv /\ OnceInv /\ PendingInv` says that a request of an actor is in
one place at a time - on its way to the client, with the client, or answered and in flight -,
that only the actor who is waited for has one, but for those who have gone or after the end,
and that a monitor pushes one input, after its flag. Hence inputs in flight differ in actor or
origin, and by the pigeonhole lemma `ApartFits` there are at most two per actor.
`EndIsTold` (`EndTold`), for any `EventCap`, rests on `EndInv`: the end is the last event there is, an escape is announced once,
and whoever has not been told of either is named by an event still to come, or by one that was dropped - which holds only
because the broadcaster sends the events in their order, and the engine emits none after the end.

*ConnectionProofs.* `ConnectionTyped` (`TypeOK`), `RegistryIsHonest` (`RegistryHonest`), `OneSocketHeld`
(`OneSocket`), `SocketCoherent` (`Coherent`), `PlaysWhatWasChosen` (`PlaysChosen`), from
`ConnectionInv == Types /\ Characters /\ Registry /\ SocketInv /\ EntryInv`. `Registry` says of each step between the read of
the character and the new entry where the session is found, and that nobody else's entry can be taken for it. `SocketInv`: what a page
holds is the one socket that it has not closed, and the state, both timers and the token follow it. `EntryInv`: the
`enter_map` that waits, the last one on its way, the session's character, the last `map_init` on its way and
the character shown are each the one chosen last, as far as the later of them have not been reached; that needs the
handlers of aborted entries to be called in the order they were added. Assumed: `ConstantsAssumption`, that no character
is the value for none, no socket either, and that the two bounds are naturals.

*KeptProofs*, first part. `PartiesAgree` (`Party`'s `IndexValid` and `PanelHonest`), from `PartyInv`: either all that the index
sends to a party are its members, or the party has a member whom the index sends elsewhere, and then it is never
deleted (`Kept`); the newest update on its way to a client, or else its panel, names the members, or one more update is due
(`Shown`).

*KeptProofs*, second part. `ImplementsRegister` (`GameState`'s `Durable`): whichever goroutines set a key, every step maps to a step
of `StateRegister` or a stutter. `StateInv`: what has waited longer - the row, the ticker's batch, `pending`, a set under way -
is older, or the two sets overlapped (`InOrder`), unless the server is stopping, when `Stop`'s flush overtakes the ticker's; two sets
of which one began before the other returned are on record (`Overlapped`). *WindowsProofs* has it of the run's instance (`WindowsDurable`).

*WindowsProofs.* The properties of the run `windows` for every value of its constants. A step of one part leaves the
variables of the others alone, so each part has an invariant of its own:

| Theorem | Property | Invariant |
|---|---|---|
| `WindowsDurable` | `Durable` | `StateInv`, through `KeptProofs` |
| `TiesAgreeAlways` | `TiesAgree` | `PartyInv`, and `TiesInv`: a row has the same two players for life, in the copies the handlers save as well, and only who was asked accepts |
| `OrderOfSender` | `SenderOrder` | `ChatInv`: every queue and history is ordered but for what a room has kept, and of those that go the same way what is further on it was sent earlier |
| `NothingInvented` | `NoneInvented` | `ExpInv`: each copy of experience and level is at most what has been granted (`LevelAt` is the least level whose threshold is not reached, so it grows with experience: `LevelGrows`) |
| `NothingLingers` | `ScreenCleared` | `TradeInv`: the last message on its way that opens or closes the window closes it when the trade is over; `PanelsInv`: a panel is visible, or the event that hid it is still on |
| `WindowsShow` | `WindowsAgree` | `ShopInv`: the client's gold and goods are the database's after all deals under way (a run from the one to the other, a state for each message); `TradeInv`: the last message that tells the terms tells those of the session; `BagInv` and `FriendsInv`, below; `VarsInv`: what is stored of an event is under way, was lost, or is what the page has; `SkillsKept` |
| `WindowsTyped` | `TypesOK` | all of those above, and a bounds invariant for each part, below |

`WindowsTyped` adds to those invariants a bounds invariant for each part that needs one (`BagBounds`, `ShopBounds`, `PanelBounds`,
`PartyBounds`, `ChatBounds`, `ExpBounds`, `StateBounds`, `VarsBounds`, `TiesBounds`). Most of them say that a counter is at most its bound; four
say why a type is what it is. A session that has been cleaned up has no invitation (`Uninvited`): the clean-up removes it, and
only who is registered is invited again. No experience is below nothing, since a penalty and a level are taken from what is there. An event has one change
of a variable waiting, because a later one replaces it in the batch. A client has sent as many messages as there are pairs of it
in `Sent`, which the bound on all of them limits.

`BagInv` is about the time since a fetch that nothing overlapped and no silent change followed. `CountsMeet`: of each kind, the client's list and the
`add`s on their way are as many as the rows and the `remove`s on their way. The code applies an `add` to the row of its kind, a
`remove` to the row of its number, and ignores a `remove` whose row it does not have; so a count is right only because every
`remove` finds its row: `RemovalsHeard` (it is in the client's list, a consumable's), `Enough` (that row has as many as are to be taken
away and the server still holds), `AddsNew` (a row still to come is not in the list, comes once, and nothing was stacked upon
it) and `KindsAgree` (what the server holds is of the same kind in the list). A row that a request can name (`Named`) is in the
client's list, since the client has its number from there. A row used up on the server may stay in the list until the `remove` comes.

`FriendsInv`: the answer to the last request has the friends of now, if nothing has changed since; what is drawn is a window of
the list, scrolled to a place that has a row (`WellScrolled`). `PlaceFound` says that n rows are at the places 0 to n - 1:
two rows are never level, so that they have n places of the n there are.

Assumed: the bounds are naturals, a batch holds at least one change, a row of the friends is in sight, `NoTrade` is no session,
`Directly` no room, and no event is number 0 (`ConstantsAssumption`); for `WindowsTyped` also that there are finitely many clients, and that a friendship
and a row of the bag can be made at all (`BoundsAssumption`). The queues are unbounded in these proofs but where the code bounds them.

*PlayProofs, ScenesProofs.* The properties of the run `scenes`, for every value of its constants:

| Theorem | Property | Invariants |
|---|---|---|
| `FreedAgain` | `FreeAgain` | `FreeInv`: a locked player has an event, its end or his own interaction still under way, or his interaction was ignored since the last end; a route is somebody's whose end is to come, and with no event on, every start or effect on its way is followed by an end; `PuppetOwn` and `FieldInv`, which are the parts' own properties |
| `AnswersCome` | `Answerable` | `AskInv` for the dialogs and `PuppetInv` for the battle, below |
| `MapIsHonest` | `MapHonest` | `NpcInv`, `PeersInv`, `ShroudInv`, `MiniInv`, `GroundInv` and `TakenInv`, below |
| `DrawnAsHeld` | `AsDrawn` | `FormInv`, `FillInv`, `ListInv`, `DragInv`, below |

`AskInv`: until a late acknowledgement upsets the order, a question is in one place (`Stage`): nothing is asked; it is on its way
with no `dialog_end` behind it; it waits for the map; it is on the screen under its own number; or its answer is on the way
or in the channel, where an answer is always the one to this question.
And no acknowledgement is younger than the question (`UpTo`), since the one for an earlier dialog would end this one.

`PuppetInv` has six parts. `BattleTold`: whoever a report on its way takes down is brought back before the next report that
needs somebody standing, so that the client never gives a battle up that the server fights on. `Hiding`: an actor is hidden only in
the battle's scene, and where that makes the player's own actor unfindable at his index (`Found`), he is standing. `Ordered`: a battle's first
and last messages delimit it, and the client is in it from the one to the other. `Scened`: it is on its way to the battle's scene, or in it.
`Armed`: the 3 s timer runs only when everybody is down and nothing is left to play. `Requested`: a request is the last message, is
kept, or, while its actor is found at his index, is open in a window or answered; of one who is not found it is used up with a warning.

The invariants of the map say what the last message on its way that concerns a thing will make of it (`Ends`, or `Free` of
such messages), since that is what a client that has heard everything goes by. `NpcInv`: the last message that places the NPC places it where the
server has it, or none does and the sprite, the saved list or what is pending has it there; an icon has its sprite. `PeersInv`: a player
who is not in the room is in none of the three places players are kept in, or a removal is under way with nobody who brings him back
behind it. `ShroudInv`: the same of a revival and the death overlay, until somebody dead is healed by an item or an event. `MiniInv`: of a step and its dot. `GroundInv`: each drop that
has fallen is in one place, because the handler that takes it from the floor is the only one that holds it. `TakenInv`: of a drop somebody has,
each client has been told, is being told, or will be by the queue of the room, and no spawn of it is behind.

Of the rest, `FormInv` and `DragInv` are the parts' properties with what is not running drawn as the next scene would find it, and with
the button down while a panel is dragged. `FillInv` is `InStep` of the record an update works on (`Filled`), kept by every
widget's update; `HalfStep` is the arithmetic of the slider. `ListInv`: what a clean widget shows is what refresh would draw of its
items, its offset and what is expanded (`Drawing`), and the offset of a list or a table leaves its last row in view at most.

Assumed: the bounds are naturals, a map has a column, a step moves something, a list has a row, there is an option, map 1 is one of the
maps, and what stands for no actor, NPC, drop, item or place is none (`PlayAssumption`, `ScenesAssumption`).

`PlayProofs` is about `MCPlay`, events, battles and the map, because a proof about all of `MCScenes` carries the declarations of
fourteen parts in each of its obligations.

Only model-checked:

- of *scenes*, `TypesOK` and `WidgetsSound`: a frame of the overlays and the texts is a fold over the children of the scene,
  a bubble's lines are folds over its text, the widths are sums over columns, and `LandReached` compares a flood over
  the map with the tiles that can be reached: all induction over data;
- all liveness properties (`CommitEnds`, `Unlocks`, `AutorunServed`, `GoneFromRooms`, `AutoGuard`, `EscapeeFreed`): TLAPS
  does not reason about fairness and ENABLED here.

## 15. Divergences

Two runs show what the code does against what a comment says of it:

- *trade_atomic*: `Commit` reads an amount for the debit and again for the credit, without the
  session's mutex; an offer written in between makes or loses gold.
- *battle_allgone*: a battle whose players have all gone is cancelled, but looks at its context only
  where it waits for an input, and plays on until it is decided.

Others are stated as properties of their modules, marked as not kept or named below, which no run lists. To
see one, add it to the module's configuration (for a module of section 12, as `<name>!<property>` in a
definition of the composite):

| Property | What the code does |
|---|---|
| `EventSession` `InteractAnswered` | an interaction in a battle, in the 300 ms cooldown, with a payload it cannot read or without a room is dropped without `event_end` (`handlers_npc.go:75`-92, against 155): the client stays locked until another event ends |
| `EventSession` `ClosedByNextAutorun` | a transfer by the reader between `event_start` and `SetNeedEventEnd` leaves the closing `event_end` to nobody (`handlers_npc.go:191`, 204) |
| `Experience` `ExpKept` | a late save writes the experience of an ended session over what the next has earned (`handlers_battle.go:444`) |
| `Experience` `BarFollows` | `exp_gain` does not reach `_lastSelf`: a bar made later shows the level of the last `map_init` or `player_sync` (`mmo-core.js:799`) |
| `GameState` `StopSaves`, `RowsFollow` | with `MayFail <- FALSE`: the ticker's flush may write its older batch after `Stop`'s (`gamestate.go:90`, 130); with failures, a batch is lost; two sets of a key that overlap may be queued in the other order (293-303), and the row keeps the earlier value |
| `SelfVars` `NoneUnnamed`, `QueuedIsCurrent` | the page's batches name `mapId` and `eventId`, the server reads `map_id` and `event_id`: all its changes are stored under map 0, event 0 (`mmo-template-event-hook.js:82`, `handlers_template_event.go:146`); an older value of the page is sent after a newer one of the server's has arrived |
| `Friendships` `BlockKept`, `NoTwins`, `NothingRevived` | an acceptance under way undoes a block or a deletion, only the first of several rows is blocked, and each of several requests can be accepted (`social.go:104`, 158) |
| `FriendList` `LatestShown` | an earlier answer may overtake the last (`mmo-social.js:107`) |
| `Party` `OneParty`, `NoGhosts` | an acceptance makes a new party whatever party the inviter is in (`manager.go:128`, 186), also for one who has left his party and whose own invitations nobody withdraws: they are removed by invitee (`handler.go:161`) |
| `Shop` `Agrees` | the roll-back waits for `ok: false`, which the server never sends; it sends `error` (`mmo-npc.js:1560`, 1627) |
| `TradeWindow` `AlwaysClosed`, `WindowForTrade` | a failed commit is told in a phase the window does not know (`service.go:162`, 316); a trade that begins off the map has no window (`mmo-trade.js:21`) |
| `Inventory` `ShownUsable`, `ShortcutsKept` | an `add` is merged into the row of its kind, so that a row used up on the server stays in the list; items of the bar are not stored (`mmo-skill-bar.js:287`, 298) |
| `MapPanels` `EscapeOpensMenu`, `PanelsAway` | windows of earlier scenes stay registered and swallow Escape; panels made during an event are not hidden (`mmo-core.js:923`) |
| `FieldBattle` `CanRevive`, `AttackNamesMonster` | a player who dies in a transfer is reset by `map_init` and cannot ask for revival (`mmo-realtime-battle.js:104`); monsters come with `id`, are kept by `inst_id` (`maproom.go:19`, `mmo-battle.js:356`): all share one nameless sprite that cannot be attacked |
| `OtherPlayers` `EveryoneShown` | the container of an ended scene still counts as ready: who joins then is added to it and lost when the next scene starts from the saved list (`mmo-other-players.js:258`, 270, 428) |
| `NpcView` `Restored` | `npc_sync` replaces the sprite's data by data without an image; the NPC is rebuilt from them, invisible (`mmo-npc.js:445`) |
| `Drops` `NoGhostDrops`, `DropsSeen` | nobody is told of an expired or lost drop (`maproom.go:404`, `handlers_battle.go:595`); `map_init` lists none (`handlers_game.go:814`) |
| `Minimap` `LandIsHere`, `NpcsDotted` | the land is cached by map (`mmo-hud.js:446`); NPCs that have not moved have no dot (755) |
| `Chat` `NoPrivateLost` | the client sends the channel "private", the server knows "whisper" (`mmo-chat.js:16`) |
| `Forms` `PreviewShown`, `FaceAsPicked`, `PanelHonest` | a face's preview is not redrawn when its image comes (`mmo-auth.js:1311`); a press on the open list also presses what lies beneath (1216, 1324); a dead character is shown unharmed (960) |
| `Overlays` `PopconfirmHeard`, `ListedIsShown` | `_dismiss` lets go of the callbacks before they are called (`popconfirm.js:114`, 138); what is closed without `destroy` stays in the list for resizing |
| `Toasts` `ActiveIsSeen`, `TextBlocks` | a scene change leaves phantoms that push new texts down (`message.js:107`); a pooled object believes it is registered (`base.js:242`) |
| `Bubble` `Counts`, `InsideAlways` | a typed bubble whose text lags behind waits for ever to catch up and never goes (`chat-bubble.js:348`); a text skipped before its first frame is drawn in a bubble of the earlier one (107) |
| `Fields` `SliderInRange` | a slider clamps first and rounds to its step afterwards, beyond a range the step does not divide (`slider.js:34`) |
| `Selectors` `MenuInView` | a menu or tree keeps its offset when fewer items are set (`menu.js:44`, `tree.js:139`) |
| `Draggable` `PlaceRemembered` | a panel hidden in the middle of a drag is not saved (`mmo-core.js:759`) |

Others are part of the models, which do what the code does:

- *Trade*: an offer changed after the second confirmation is exchanged although it was not confirmed;
  a second confirmation after the commit commits again; a cancel or a disconnect does not stop a
  running commit; `AcceptTrade` of a new trade leaves the old partner in the old session alone; a refused
  `SetNX` returns with the session still registered.
- *EventSession*: the generation check lets an autorun of the first visit run after A, B, A; the
  `event_end` that answers a rejected interaction unlocks the client while an event runs;
  two `EnterMapRoom` of one player at once can leave him in two rooms.
- *TurnBattle*: a battle whose context runs out ends without `battle_end`; so it does for everybody when the channel of events is full
  at its end, and an escape that is dropped leaves him who has fled in the battle until it ends (`instance.go:1037`); an input left for an actor that
  is not waited for keeps `waitForInput` busy, taking it and putting it back.
- *Connection*: each `onConnected` handler that an aborted entry left sends an `enter_map` of its own; late answers to
  DELETE and POST act in the game; two pages that reconnect displace one another at character 0; after an
  automatic reconnection nobody sends `enter_map`; the clean-up of a displaced session and a session that takes another character
  remove the entry by character, whosever it is (`session_manager.go:48`, 27): its owner plays on and is not found (`robbed`).
- *Dialogs*: an interaction dropped without an answer (see `InteractAnswered`) locks the player until another `event_end`, a reconnection
  (`mmo-core.js:699`) or an entry (`mmo-auth.js:1015`); a menu kept for the map is answered and acknowledged besides (`mmo-npc.js:772`,
  901-904); acknowledgements are not tied to what they acknowledge; a delayed `event_end` unlocks the next event; the
  `event_end` of a refused interaction clears the dialog of the running event.
- *BattlePuppet*: `input_request` is sent to every participant; the skill chosen for an actor stays pending for the next; once the first
  actor has escaped and is hidden the other moves to index 0, and requests and reports by the server's index miss him: the request is
  used up with a warning and the server's timeout guards (`mmo-battle-puppet.js:966`-974, 1102-1104).
- *FieldBattle*: items and events heal a dead player without `player_revive` (`handlers_skill.go:119`-162, `executor_stats.go:21`-44, 87-92):
  the overlay stays over the living, whose request to revive the server ignores; a dead player is hit again for 5 s and drops experience each time; `revive_transfer` is handled by nobody; 0 HP are
  saved, and the player is dead when he logs in. *Drops*: all drops of a monster lie on one tile, where the last shadows the others.
- *Party*: the client never sends `party_leave`; who leaves is not told; a new scene's panel is hidden until the next update.
- *Inventory*: trades, events and the shop change rows without `inventory_update`; an open bag shows the old ones until it is opened again.
- *Chat*: a `!text` waits in the room's queue, where the sender's next message overtakes it (`chat/handler.go:148`, 172-178); a refresh undoes the scrolling; guild chat is published to nobody. *Forms*: `selected: 0` is ignored by the select.
- *Fields*: a number's typed text is dropped on blur.
- `pagination.js` draws its arrow at `totalPages + 2` (50) and hit-tests it elsewhere when pages are left out (95).

Read in the code, outside the models:

- closing a session twice at once panics (`session.go:257`); an instance room can be destroyed between being found and being
  entered (`instance.go:119`); a full `SendChan` drops `event_end` (`session.go:213`);
- the shutdown order lets goroutines write after the last flush (`main.go:397`);
- inventory, equipment and the REST shop read before they write (`equip.go:30`, `executor.go:296`, `shop.go:142`), and
  skills check a cooldown before they set it (`skill/service.go:144`);
- a parallel event whose loop has no Wait keeps all others from running (`executor_parallel.go:132`);
- a rate-limited `npc_interact` gets no `event_end` (`router.go:47`), and the refill of the bucket is truncated while its
  clock moves on (`session.go:120`);
- two battles can take the same player (`handlers_battle_session.go:154`), and drops are rolled once for the message and once for the
  database (`instance.go:983`);
- no `map_init` names a guild, so the guild panel never loads, and no `friend_*` message is ever sent; the friends panel compares a row's `char_id` with its own and shows no names; `KickMember` clears the guild of non-members.

## 16. What is not modelled

Not yet: what section 2 names at its end. Not meant to be: battle rules, the script sandbox and the other template events (computation over
project data inside one step), behaviour trees and path search of monsters, the scheduler, hooks and audit log,
loading of project data and configuration, quests (`main.go` never registers their service), CRUD over REST without
concurrency of its own, developer commands, drawing and layout in the client, tests.

Within the modules: the wording and the layout of messages, damage formulas, positions beyond the axis or the few tiles a property
needs, the database beyond rows, row locks, commit and abort. Gold is an unbounded integer in `Trade`; the column is a 64-bit
one, and a trade never adds to it more than others hold. In `Dialogs` and `BattlePuppet` the connection is not lost; in the modules
of sections 7 to 10 an open connection delivers in order. Children of overlays, disabled buttons and geometry are left out of `Overlays`,
the cooldown of global messages out of `Chat`, slots of equipment out of `Inventory`, and dots of players and monsters out of `Minimap`.
