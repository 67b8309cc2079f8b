----------------------------- MODULE FieldBattle -----------------------------
(***************************************************************************)
(* Fighting on the map: client_plugin/mmo-battle.js (the monsters drawn,   *)
(* the death overlay), client_plugin/mmo-realtime-battle.js (attacks,      *)
(* cooldown, automatic attack, revival) and                                *)
(* server/api/ws/handlers_battle.go.                                       *)
(*                                                                         *)
(* The server lists its monsters in map_init under "id"; the client keeps  *)
(* its sprites by "inst_id", so that they all fall on one nameless entry   *)
(* whose number is NaN: it cannot be locked (NaN is no target), and an     *)
(* attack on it goes out with the target null, read as 0.                  *)
(***************************************************************************)
EXTENDS Naturals, Sequences

CONSTANTS
  Monsters,       \* the monsters of the room, by instance
  NoMonster,      \* the instance 0
  MaxBlows        \* bound on what happens on the server

VARIABLES
  mode,           \* combat_mode of the configuration
  dead,           \* the session's HP is 0
  gcd,            \* the last attack was less than the cooldown ago
  blows,
  toField, fromField,
  fieldScene,     \* "map", or "other": menu, shop, battle, loading
  nameless,       \* MonsterManager._sprites: none, drawn, or left in an old tilemap
  isDead, autoAttack, attackCooldown,
  overlay,        \* the death overlay: none, on the map, on another scene
  cutOff,         \* history: messages were lost with the connection
  healed          \* history: HP came back since the last revival, and no word of it

serverFieldVars == <<mode, dead, gcd, blows>>
clientFieldVars == <<fieldScene, nameless, isDead, autoAttack, attackCooldown, overlay>>
fieldVars == <<serverFieldVars, toField, fromField, clientFieldVars, cutOff, healed>>

Modes == {"turnbased", "hybrid"}
FieldAttack == mode # "turnbased"
MaxUnderway == 3     \* bound on the messages on their way

Init ==
  /\ mode \in Modes /\ dead = FALSE /\ gcd = FALSE /\ blows = 0
  /\ toField = <<>> /\ fromField = <<>>
  /\ fieldScene = "map" /\ nameless = "none"
  /\ isDead = FALSE /\ autoAttack = FALSE /\ attackCooldown = FALSE
  /\ overlay = "none" /\ cutOff = FALSE /\ healed = FALSE

-----------------------------------------------------------------------------
(* The server. *)

Counted == blows < MaxBlows /\ blows' = blows + 1
Tell(ts) == Len(fromField) < MaxUnderway /\ fromField' = fromField \o ts

\* handleMonsterAttackPlayer: the blow is broadcast, also one on another player; a
\* death is told to the dead only.
MonsterAttacks ==
  /\ Counted
  /\ \/ ~dead /\ dead' = TRUE /\ Tell(<<"result", "death">>)
     \/ UNCHANGED dead /\ Tell(<<"result">>)
  /\ UNCHANGED <<mode, gcd, toField, cutOff, healed, clientFieldVars>>

\* applyChangeHP, applyRecoverAll, applyItemEffects: an event or an item sets the HP,
\* also to 0 and also of the dead. What the client is sent for it, npc_effect or
\* inventory_update, says neither death nor revival.
SetStats ==
  /\ Counted
  /\ dead' \in BOOLEAN
  /\ healed' = (healed \/ (dead /\ ~dead'))
  /\ UNCHANGED <<mode, gcd, toField, fromField, cutOff, clientFieldVars>>

\* A transfer by an event, on this map or to another, whatever the HP; the HP are
\* kept.
TransferPlayer ==
  /\ Counted
  /\ \E t \in {"init_here", "init_elsewhere"} : Tell(<<t>>)
  /\ UNCHANGED <<mode, dead, gcd, toField, cutOff, healed, clientFieldVars>>

GcdOver ==
  /\ gcd /\ gcd' = FALSE
  /\ UNCHANGED <<mode, dead, blows, toField, fromField, cutOff, healed, clientFieldVars>>

\* HandleAttack: the mode, the HP, the cooldown, and only then the target.
HandleAttack ==
  /\ toField # <<>> /\ Head(toField).t = "attack"
  /\ toField' = Tail(toField)
  /\ gcd' = (gcd \/ (FieldAttack /\ ~dead))
  /\ Tell(<<IF FieldAttack /\ ~dead /\ gcd THEN "on_cooldown"
            ELSE IF FieldAttack /\ ~dead /\ Head(toField).target \in Monsters THEN "result"
            ELSE "error">>)
  /\ UNCHANGED <<mode, dead, blows, cutOff, healed, clientFieldVars>>

HandleReviveRequest ==
  /\ toField # <<>> /\ Head(toField).t = "revive"
  /\ toField' = Tail(toField)
  /\ dead' = FALSE
  /\ IF dead THEN Tell(<<"revive">>) /\ healed' = FALSE ELSE UNCHANGED <<fromField, healed>>
  /\ UNCHANGED <<mode, gcd, blows, cutOff, clientFieldVars>>

\* The connection is lost and made again: HP are saved and loaded, a map_init comes.
Reconnect ==
  /\ Counted
  /\ toField' = <<>> /\ fromField' = <<"init_here">>
  /\ cutOff' = (cutOff \/ fromField # <<>>)
  /\ UNCHANGED <<mode, dead, gcd, healed, clientFieldVars>>

-----------------------------------------------------------------------------
(* The client. *)

Heard(t) ==
  /\ fromField # <<>> /\ Head(fromField) = t
  /\ fromField' = Tail(fromField)
  /\ UNCHANGED <<serverFieldVars, toField, cutOff, healed, fieldScene>>

\* spawnMonster: nothing when one of that number, or lack of it, is there already.
SpawnMonster ==
  IF nameless # "none" THEN nameless ELSE IF fieldScene = "map" THEN "drawn" ELSE "old"

\* map_init: clear() finds no number for the nameless one and leaves it. The state of
\* the fight starts anew.
OnMapInit ==
  /\ \E t \in {"init_here", "init_elsewhere"} : Heard(t)
  /\ nameless' = SpawnMonster
  /\ isDead' = FALSE /\ autoAttack' = FALSE /\ attackCooldown' = FALSE
  /\ UNCHANGED overlay

\* battle_result, of whomever, and the refusal of an attack on cooldown.
OnCooldown ==
  /\ Heard("result") \/ Heard("on_cooldown")
  /\ attackCooldown' = TRUE
  /\ UNCHANGED <<nameless, isDead, autoAttack, overlay>>

OnError == Heard("error") /\ UNCHANGED <<nameless, isDead, autoAttack, attackCooldown, overlay>>

\* player_death: no second overlay; it is a child of the scene there is.
OnPlayerDeath ==
  /\ Heard("death")
  /\ isDead' = TRUE /\ autoAttack' = FALSE
  /\ overlay' = IF overlay # "none" THEN overlay
                ELSE IF fieldScene = "map" THEN "map" ELSE "other"
  /\ UNCHANGED <<nameless, attackCooldown>>

OnPlayerRevive ==
  /\ Heard("revive")
  /\ isDead' = FALSE /\ overlay' = "none"
  /\ UNCHANGED <<nameless, autoAttack, attackCooldown>>

Acts ==
  /\ fieldScene = "map" /\ Len(toField) < MaxUnderway
  /\ UNCHANGED <<serverFieldVars, fromField, cutOff, healed>>

\* processMapTouch on the monster drawn: NaN is locked, the attack goes out. It does
\* not start the cooldown. In the turn-based mode the code of mmo-battle.js sends it.
ClickMonster ==
  /\ Acts /\ nameless # "none"
  /\ FieldAttack => ~isDead /\ ~attackCooldown
  /\ toField' = Append(toField, [t |-> "attack", target |-> NoMonster])
  /\ UNCHANGED clientFieldVars

\* A click on the ground: no target, no automatic attack.
ClickGround ==
  /\ Acts /\ FieldAttack
  /\ autoAttack' = FALSE
  /\ UNCHANGED <<toField, fieldScene, nameless, isDead, attackCooldown, overlay>>

CooldownOver ==
  /\ Acts /\ FieldAttack /\ attackCooldown
  /\ attackCooldown' = FALSE
  /\ UNCHANGED <<toField, fieldScene, nameless, isDead, autoAttack, overlay>>

\* Update: R asks for revival.
PressR ==
  /\ Acts /\ FieldAttack /\ isDead
  /\ toField' = Append(toField, [t |-> "revive"])
  /\ UNCHANGED clientFieldVars

\* Mutant: the key is read before the dead are turned away.
PressA_WhileDead ==
  /\ Acts /\ FieldAttack
  /\ autoAttack' = ~autoAttack
  /\ UNCHANGED <<toField, fieldScene, nameless, isDead, attackCooldown, overlay>>

\* Update: A toggles the automatic attack. No target is ever locked, so neither it nor
\* the attack key sends anything.
PressA ==
  /\ Acts /\ FieldAttack /\ ~isDead
  /\ autoAttack' = ~autoAttack
  /\ UNCHANGED <<toField, fieldScene, nameless, isDead, attackCooldown, overlay>>

\* A death the client has not heard of.
DeathUnderway == \E k \in DOMAIN fromField : fromField[k] = "death"

\* Scene_Map.terminate, for a menu or a transfer: the overlay goes with the scene.
Terminate ==
  /\ fieldScene = "map" /\ fieldScene' = "other"
  /\ nameless' = IF nameless = "drawn" THEN "old" ELSE nameless
  /\ autoAttack' = FALSE /\ overlay' = "none"
  /\ healed' = (healed /\ DeathUnderway)
  /\ UNCHANGED <<serverFieldVars, toField, fromField, cutOff, isDead, attackCooldown>>

\* createCharacters: init() starts with no sprites, whatever map_init brought.
CreateCharacters ==
  /\ fieldScene = "other" /\ fieldScene' = "map"
  /\ nameless' = "none"
  /\ UNCHANGED <<serverFieldVars, toField, fromField, cutOff, healed, isDead, autoAttack,
                 attackCooldown, overlay>>

-----------------------------------------------------------------------------

Next ==
  \/ MonsterAttacks \/ SetStats \/ TransferPlayer \/ GcdOver \/ HandleAttack \/ HandleReviveRequest
  \/ Reconnect
  \/ OnMapInit \/ OnCooldown \/ OnError \/ OnPlayerDeath \/ OnPlayerRevive
  \/ ClickMonster \/ ClickGround \/ CooldownOver \/ PressR \/ PressA
  \/ Terminate \/ CreateCharacters

Spec == Init /\ [][Next]_fieldVars

-----------------------------------------------------------------------------
(* Properties. *)

Requests == {[t |-> "revive"]} \cup [t : {"attack"}, target : Monsters \cup {NoMonster}]

TypeOK ==
  /\ mode \in Modes /\ {dead, gcd, isDead, autoAttack, attackCooldown, cutOff, healed}
       \subseteq BOOLEAN
  /\ blows \in 0..MaxBlows
  /\ \A k \in DOMAIN toField : toField[k] \in Requests
  /\ \A k \in DOMAIN fromField :
       fromField[k] \in {"result", "death", "revive", "init_here", "init_elsewhere",
                         "on_cooldown", "error"}
  /\ fieldScene \in {"map", "other"} /\ nameless \in {"none", "drawn", "old"}
  /\ overlay \in {"none", "map", "other"}

\* The automatic attack never outlives its player, its map or the scene it was
\* started on, in whatever order a death, a map_init and a key come.
AutoRests == autoAttack => ~isDead /\ fieldScene = "map" /\ FieldAttack

\* The death overlay is gone once the player lives and the client has heard everything,
\* whatever scene it was put on. Two ways it stays are excepted, both of the code: the
\* news was lost with the connection, and the map_init that follows leaves the overlay;
\* or an event or an item gave the dead their HP back, of which no message speaks (then
\* R does not help: HandleReviveRequest returns for the living) until they are revived
\* after another death or the scene is left.
NoLastingShroud == ~dead /\ fromField = <<>> /\ ~cutOff /\ ~healed => overlay = "none"

\* A dead player on the map who has heard everything can ask for revival
\* (mmo-realtime-battle.js:18: R asks for it after the death).
CanRevive == FieldAttack /\ dead /\ fromField = <<>> /\ fieldScene = "map" => isDead

\* An attack names a monster of the room (mmo-battle.js:356: data has an inst_id).
AttackNamesMonster == \A k \in DOMAIN toField : toField[k].t = "attack" => toField[k].target \in Monsters
=============================================================================
