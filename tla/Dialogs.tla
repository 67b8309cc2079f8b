------------------------------ MODULE Dialogs ------------------------------
(***************************************************************************)
(* What a server event shows to its player, and the answers it waits for.  *)
(*                                                                         *)
(* The server (server/game/npc/executor_dialog.go, executor_effect.go and  *)
(* api/ws/handlers_npc.go) runs the commands of one event at a time: it    *)
(* sends a dialog, a menu or an effect and waits for the acknowledgement   *)
(* that the reader offers to a channel of capacity 1.  Which command comes *)
(* next is up to the game's data.                                          *)
(*                                                                         *)
(* The client (client_plugin/mmo-npc.js and mmo-core.js) puts dialogs into *)
(* $gameMessage, keeps those that arrive outside Scene_Map, plays effects  *)
(* through a queue with a time budget per frame, and holds the player      *)
(* between event_start and event_end.  Window_Message is RPG Maker's.      *)
(***************************************************************************)
EXTENDS Naturals, Sequences, FiniteSets

CONSTANTS
  MaxCmds,        \* bound on the commands of all events
  MaxEvents,      \* bound on the events
  MaxExpiries     \* bound on the server's time-outs

VARIABLES
  spc,            \* what the event goroutine does
  at,             \* the number of the command it is at
  events,         \* the events started so far
  dialogAck,      \* DialogAckCh: the dialogs an acknowledgement in it is for, if any
  choiceCh,       \* ChoiceCh: the menus a reply in it is for
  effectAck,      \* EffectAckCh
  sceneReady,     \* SceneReadyCh
  toClient, toServer,
  inMap,          \* the scene is a Scene_Map that has started
  gm,             \* $gameMessage: the dialogs and the menus whose lines it holds
  win,            \* Window_Message: what it is at, and the dialogs it shows
  pending,        \* $MMO._npcDialogPending
  queued,         \* $MMO._queuedDialogs
  active,         \* $MMO._serverEventActive
  endPending,     \* $MMO._eventEndPending
  effq,           \* _effectQueue
  draining,       \* _effectDraining
  forced,         \* $gamePlayer._moveRouteForcing
  timers,         \* the effects whose acknowledgement is scheduled
  expiries,
  upset,          \* history: a wait expired, the end of another event swept a dialog, or a
                  \* menu was answered by an acknowledgement too
  ignored         \* history: an interaction was dropped without an answer since the player
                  \* was last set free

serverVars == <<spc, at, events, dialogAck, choiceCh, effectAck, sceneReady>>
messageVars == <<gm, win, pending, queued>>
effectVars == <<active, endPending, effq, draining, forced, timers>>
vars == <<serverVars, toClient, toServer, inMap, messageVars, effectVars, expiries, upset, ignored>>

Nothing == [text |-> {}, menu |-> {}]
Closed == [mode |-> "closed", ids |-> {}]

\* The effects: those done when played, those that last, the routes that hold
\* their character, and battles and shops, which leave the map.
Kinds == {"plain", "timed", "route", "scene"}
Lasting == {"timed", "route"}

Init ==
  /\ spc = "idle" /\ at = 0 /\ events = 0
  /\ dialogAck = {} /\ choiceCh = {} /\ effectAck = FALSE /\ sceneReady = FALSE
  /\ toClient = <<>> /\ toServer = <<>>
  /\ inMap = TRUE
  /\ gm = Nothing /\ win = Closed
  /\ pending = FALSE /\ queued = <<>>
  /\ active = FALSE /\ endPending = FALSE
  /\ effq = <<>> /\ draining = FALSE /\ forced = FALSE /\ timers = {}
  /\ expiries = 0 /\ upset = FALSE /\ ignored = FALSE

-----------------------------------------------------------------------------
(* The server. *)

Send(m) == toClient' = Append(toClient, m)

\* The reader takes the next message: an answer is offered to its channel and
\* lost when there is one already; an interaction or a step onto an event starts
\* it if no event runs, and a refused interaction is answered with event_end. In a
\* battle, within 300 ms of the last one, without a room or a good event id it is dropped
\* in silence.
Read ==
  LET m == Head(toServer) IN
  /\ toServer # <<>>
  /\ toServer' = Tail(toServer)
  /\ dialogAck' = IF m.t = "ack" /\ dialogAck = {} THEN m.ids ELSE dialogAck
  /\ choiceCh' = IF m.t = "reply" /\ choiceCh = {} THEN m.ids ELSE choiceCh
  /\ effectAck' = (effectAck \/ m.t = "effectack")
  /\ sceneReady' = (sceneReady \/ m.t = "ready")
  /\ \/ /\ m.t \in {"interact", "move"}
        /\ spc = "idle" /\ events < MaxEvents
        /\ spc' = "run"
        /\ events' = events + 1
        /\ Send([t |-> "start"])
        /\ UNCHANGED ignored
     \/ /\ m.t = "interact"
        /\ UNCHANGED <<spc, events, ignored>>
        /\ Send([t |-> "end"])
     \/ /\ ignored' = (ignored \/ m.t = "interact")
        /\ UNCHANGED <<spc, events, toClient>>
  /\ UNCHANGED <<at, inMap, messageVars, effectVars, expiries, upset>>

\* The next command: a dialog, a menu with or without text, an effect.
Command ==
  /\ spc = "run" /\ at < MaxCmds
  /\ at' = at + 1
  /\ \/ /\ spc' = "dialog"
        /\ Send([t |-> "dialog", n |-> at'])
     \/ /\ spc' = "choice"
        /\ \E t \in {"choices", "both"} : Send([t |-> t, n |-> at'])
     \/ \E k \in Kinds, w \in BOOLEAN :
          /\ spc' = IF w THEN "effect" ELSE "run"
          /\ Send([t |-> "effect", n |-> at', kind |-> k, wait |-> w])
  /\ UNCHANGED <<events, dialogAck, choiceCh, effectAck, sceneReady, toServer, inMap,
                 messageVars, effectVars, expiries, upset, ignored>>

\* waitForDialogAck, waitForChoice and waitForEffectAck get their answer.
TakeAck ==
  /\ spc = "dialog" /\ dialogAck # {}
  /\ dialogAck' = {}
  /\ spc' = "run"
  /\ UNCHANGED <<at, events, choiceCh, effectAck, sceneReady, toClient, toServer, inMap,
                 messageVars, effectVars, expiries, upset, ignored>>

TakeReply ==
  /\ spc = "choice" /\ choiceCh # {}
  /\ choiceCh' = {}
  /\ spc' = "run"
  /\ UNCHANGED <<at, events, dialogAck, effectAck, sceneReady, toClient, toServer, inMap,
                 messageVars, effectVars, expiries, upset, ignored>>

TakeEffectAck ==
  /\ spc = "effect" /\ effectAck
  /\ effectAck' = FALSE
  /\ spc' = "run"
  /\ UNCHANGED <<at, events, dialogAck, choiceCh, sceneReady, toClient, toServer, inMap,
                 messageVars, effectVars, expiries, upset, ignored>>

\* transferPlayer within the event: ClearNPCChannels, map_init; the autoruns of
\* the new map go on with the player still held, once the scene is ready.
Transfer ==
  /\ spc = "run" /\ at < MaxCmds
  /\ at' = at + 1
  /\ spc' = "loading"
  /\ dialogAck' = {} /\ choiceCh' = {} /\ effectAck' = FALSE /\ sceneReady' = FALSE
  /\ toClient' = toClient \o <<[t |-> "init"], [t |-> "dialogend"]>>
  /\ UNCHANGED <<events, toServer, inMap, messageVars, effectVars, expiries, upset, ignored>>

Autorun ==
  /\ spc = "loading" /\ sceneReady
  /\ sceneReady' = FALSE
  /\ spc' = "run"
  /\ UNCHANGED <<at, events, dialogAck, choiceCh, effectAck, toClient, toServer, inMap,
                 messageVars, effectVars, expiries, upset, ignored>>

\* The event has no more commands, or its context has expired in a wait:
\* npc_dialog_end and event_end.
End ==
  /\ spc = "run"
  /\ spc' = "idle"
  /\ toClient' = toClient \o <<[t |-> "dialogend"], [t |-> "end"]>>
  /\ UNCHANGED <<at, events, dialogAck, choiceCh, effectAck, sceneReady, toServer, inMap,
                 messageVars, effectVars, expiries, upset, ignored>>

\* The wait for an effect (30 s) or for the scene (15 s) goes on without its
\* answer; that of a dialog or a menu ends the event (60 s, 5 minutes).
Expire ==
  /\ expiries < MaxExpiries
  /\ expiries' = expiries + 1
  /\ upset' = (upset \/ spc \in {"dialog", "choice"})
  /\ \/ /\ spc \in {"effect", "loading"}
        /\ spc' = "run"
        /\ UNCHANGED toClient
     \/ /\ spc \in {"dialog", "choice"}
        /\ spc' = "idle"
        /\ toClient' = toClient \o <<[t |-> "dialogend"], [t |-> "end"]>>
  /\ UNCHANGED <<at, events, dialogAck, choiceCh, effectAck, sceneReady, toServer, inMap,
                 messageVars, effectVars, ignored>>

-----------------------------------------------------------------------------
(* The client's messages. *)

Reply(m) == toServer' = Append(toServer, m)

Busy == gm # Nothing

\* The lines and the menu of a dialog go into $gameMessage.
Shown(d) ==
  [text |-> gm.text \cup {d.n}, menu |-> IF d.t = "dialog" THEN gm.menu ELSE {d.n}]

Received(t) ==
  /\ toClient # <<>> /\ Head(toClient).t = t
  /\ toClient' = Tail(toClient)
  /\ UNCHANGED <<serverVars, expiries>>

OnEventStart ==
  /\ Received("start")
  /\ active' = TRUE
  /\ UNCHANGED <<toServer, inMap, messageVars, endPending, effq, draining, forced, timers, upset, ignored>>

\* The end of another event clears what the running one shows.
Swept == spc # "idle" /\ gm # Nothing

\* event_end: the player is set free, now or when the effects are through; what
\* may still hold him is cleared.
OnEventEnd ==
  /\ Received("end")
  /\ endPending' = (endPending \/ draining)
  /\ active' = (active /\ draining)
  /\ forced' = FALSE
  /\ gm' = Nothing
  /\ upset' = (upset \/ Swept)
  /\ ignored' = (ignored /\ draining)
  /\ UNCHANGED <<toServer, inMap, win, pending, queued, effq, draining, timers>>

\* npc_dialog: outside Scene_Map it is kept for later.
OnDialog ==
  LET d == Head(toClient) IN
  /\ Received("dialog")
  /\ pending' = TRUE
  /\ IF inMap THEN gm' = Shown(d) /\ UNCHANGED queued
     ELSE queued' = Append(queued, d) /\ UNCHANGED gm
  /\ UNCHANGED <<toServer, inMap, win, effectVars, upset, ignored>>

\* npc_dialog_choices.
OnDialogChoices ==
  LET d == Head(toClient) IN
  /\ Received("both")
  /\ IF inMap THEN gm' = Shown(d) /\ UNCHANGED queued
     ELSE queued' = Append(queued, d) /\ UNCHANGED gm
  /\ UNCHANGED <<toServer, inMap, win, pending, effectVars, upset, ignored>>

\* npc_choices, in whatever scene.
OnChoices ==
  /\ Received("choices")
  /\ gm' = Shown(Head(toClient))
  /\ UNCHANGED <<toServer, inMap, win, pending, queued, effectVars, upset, ignored>>

OnDialogEnd ==
  /\ Received("dialogend")
  /\ pending' = FALSE
  /\ gm' = Nothing
  /\ UNCHANGED <<toServer, inMap, win, queued, effectVars, upset, ignored>>

\* map_init: the queued effects are forgotten and no route holds the player; for
\* another map the scene is left, and with it Window_Message.
OnMapInit ==
  /\ Received("init")
  /\ effq' = <<>>
  /\ forced' = FALSE
  /\ inMap' \in {inMap, FALSE}
  /\ win' = IF inMap' THEN win ELSE Closed
  /\ UNCHANGED <<toServer, gm, pending, queued, active, endPending, draining, timers, upset, ignored>>

-----------------------------------------------------------------------------
(* Effects. *)

\* _executeEffect for a run of effects: what they do to the player and the scene,
\* and the acknowledgements, at once or when the effect is over.
Some(es, k) == \E i \in DOMAIN es : es[i].kind = k
Execute(es) ==
  LET waited == {i \in DOMAIN es : es[i].wait}
      lasting == {i \in waited : es[i].kind \in Lasting}
      over == Cardinality(waited \ lasting)
  IN
  /\ inMap' = (inMap /\ ~Some(es, "scene"))
  /\ win' = IF inMap' THEN win ELSE Closed
  /\ timers' = timers \cup {es[i].n : i \in lasting}
  /\ toServer' = toServer \o [i \in 1..over |-> [t |-> "effectack"]]

\* npc_effect: played at once, or queued behind those of earlier frames; a frame
\* over its budget goes on with the next one.
OnEffect ==
  LET e == Head(toClient) IN
  /\ Received("effect")
  /\ IF draining
     THEN /\ effq' = Append(effq, e)
          /\ UNCHANGED <<draining, forced, timers, toServer, inMap, win>>
     ELSE /\ draining' \in BOOLEAN
          /\ forced' = (forced \/ e.kind = "route")
          /\ Execute(<<e>>)
          /\ UNCHANGED effq
  /\ UNCHANGED <<gm, pending, queued, active, endPending, upset, ignored>>

\* _drainEffectQueue in a later frame: one effect takes the whole budget.
DrainSome ==
  /\ draining /\ effq # <<>>
  /\ effq' = Tail(effq)
  /\ forced' = (forced \/ Head(effq).kind = "route")
  /\ Execute(<<Head(effq)>>)
  /\ UNCHANGED <<serverVars, toClient, gm, pending, queued, active, endPending, draining,
                 expiries, upset, ignored>>

\* The queue is played to its end; then the end of the event that came meanwhile
\* takes place, whatever event runs by now.
DrainAll ==
  /\ draining
  /\ draining' = FALSE
  /\ effq' = <<>>
  /\ Execute(effq)
  /\ endPending' = FALSE
  /\ active' = (active /\ ~endPending)
  /\ forced' = ((forced \/ Some(effq, "route")) /\ ~endPending)
  /\ gm' = IF endPending THEN Nothing ELSE gm
  /\ upset' = (upset \/ (endPending /\ Swept))
  /\ ignored' = (ignored /\ ~endPending)
  /\ UNCHANGED <<serverVars, toClient, pending, queued, expiries>>

\* _scheduleEffectAck, and _pollEffectAck whose effect has finished or which gives
\* up after 30 s.
AckEffect ==
  /\ \E n \in timers : timers' = timers \ {n}
  /\ Reply([t |-> "effectack"])
  /\ UNCHANGED <<serverVars, toClient, inMap, messageVars, active, endPending, effq,
                 draining, forced, expiries, upset, ignored>>

\* The route comes to its end.
RouteEnds ==
  /\ forced
  /\ forced' = FALSE
  /\ UNCHANGED <<serverVars, toClient, toServer, inMap, messageVars, active, endPending,
                 effq, draining, timers, expiries, upset, ignored>>

-----------------------------------------------------------------------------
(* RPG Maker's windows, the player. *)

\* Window_Message starts with the lines it finds in $gameMessage.
StartMessage ==
  /\ inMap /\ win = Closed /\ gm.text # {}
  /\ win' = [mode |-> "text", ids |-> gm.text]
  /\ UNCHANGED <<serverVars, toClient, toServer, inMap, gm, pending, queued, effectVars,
                 expiries, upset, ignored>>

\* onEndOfText: the menu, if there is one by now, or the pause.
EndOfText ==
  /\ win.mode = "text"
  /\ win' = [win EXCEPT !.mode = IF gm.menu # {} THEN "menu" ELSE "pause"]
  /\ UNCHANGED <<serverVars, toClient, toServer, inMap, gm, pending, queued, effectVars,
                 expiries, upset, ignored>>

\* The player presses OK: the menu's callback replies, terminateMessage clears
\* $gameMessage and acknowledges the dialog that is pending - which a menu kept for
\* the map's scene is, too, although nobody waits for that.
Dismiss ==
  LET chosen == win.mode = "menu" /\ gm.menu # {} IN
  /\ win.mode \in {"pause", "menu"}
  /\ toServer' = toServer
       \o (IF chosen THEN <<[t |-> "reply", ids |-> gm.menu]>> ELSE <<>>)
       \o (IF pending THEN <<[t |-> "ack", ids |-> win.ids]>> ELSE <<>>)
  /\ upset' = (upset \/ (chosen /\ pending))
  /\ win' = Closed
  /\ gm' = Nothing
  /\ pending' = FALSE
  /\ UNCHANGED <<serverVars, toClient, inMap, queued, effectVars, expiries, ignored>>

\* Scene_Map.start: scene_ready, and the first of the dialogs that were kept.
SceneStart ==
  /\ ~inMap
  /\ inMap' = TRUE
  /\ Reply([t |-> "ready"])
  /\ IF queued = <<>> THEN UNCHANGED <<gm, pending, queued>>
     ELSE /\ gm' = Shown(Head(queued))
          /\ pending' = TRUE
          /\ queued' = Tail(queued)
  /\ UNCHANGED <<serverVars, toClient, win, effectVars, expiries, upset, ignored>>

\* startMapEvent: the action key before an NPC holds the player at once.
Interact ==
  /\ inMap /\ ~active /\ ~Busy /\ events < MaxEvents
  /\ active' = TRUE
  /\ Reply([t |-> "interact"])
  /\ UNCHANGED <<serverVars, toClient, inMap, messageVars, endPending, effq, draining,
                 forced, timers, expiries, upset, ignored>>

\* canMove: a step, which may touch an event.
Walk ==
  /\ inMap /\ ~active /\ ~Busy /\ ~forced /\ events < MaxEvents
  /\ \A i \in DOMAIN toServer : toServer[i].t # "move"
  /\ Reply([t |-> "move"])
  /\ UNCHANGED <<serverVars, toClient, inMap, messageVars, effectVars, expiries, upset, ignored>>

-----------------------------------------------------------------------------

Server == Read \/ Command \/ TakeAck \/ TakeReply \/ TakeEffectAck \/ Transfer \/ Autorun
          \/ End \/ Expire

Client ==
  \/ OnEventStart \/ OnEventEnd \/ OnDialog \/ OnDialogChoices \/ OnChoices \/ OnDialogEnd
  \/ OnMapInit \/ OnEffect \/ DrainSome \/ DrainAll \/ AckEffect \/ RouteEnds

Player == StartMessage \/ EndOfText \/ Dismiss \/ SceneStart \/ Interact \/ Walk

Next == Server \/ Client \/ Player

Spec == Init /\ [][Next]_vars

-----------------------------------------------------------------------------
(* Properties. *)

Dialog == 1..MaxCmds

TypeOK ==
  /\ spc \in {"idle", "run", "dialog", "choice", "effect", "loading"}
  /\ at \in 0..MaxCmds /\ events \in 0..MaxEvents /\ expiries \in 0..MaxExpiries
  /\ dialogAck \subseteq Dialog /\ choiceCh \subseteq Dialog
  /\ {effectAck, sceneReady, inMap, pending, active, endPending, draining, forced, upset,
    ignored}
       \subseteq BOOLEAN
  /\ gm.text \subseteq Dialog /\ gm.menu \subseteq gm.text
  /\ win.mode \in {"closed", "text", "pause", "menu"} /\ win.ids \subseteq Dialog
  /\ timers \subseteq Dialog
  /\ effq # <<>> => draining

Sent(s, t) == \E i \in DOMAIN s : s[i].t = t

\* The dialog or the menu that the server waits for.
Asked(s) == \E i \in DOMAIN s : s[i].t \in {"dialog", "choices", "both"} /\ s[i].n = at

\* An event that waits for its player - the server sets no time for that but the
\* event's own - has asked him, or has his answer on its way, wherever the scene,
\* the queue of dialogs, $gameMessage and the windows stand; and an answer that lies
\* in the channel is the one to what it waits for, not to something earlier. (The
\* histories in which a wait expired, the end of another event swept a dialog or a kept
\* menu was answered twice are excepted.)
OnItsWay(t) == \E i \in DOMAIN toServer : toServer[i].t = t /\ at \in toServer[i].ids
AnswerComing ==
  ~upset =>
    /\ spc = "dialog" =>
         /\ \/ Asked(toClient) \/ Asked(queued)
            \/ at \in gm.text /\ pending
            \/ at \in win.ids /\ pending
            \/ at \in dialogAck \/ OnItsWay("ack")
         /\ dialogAck # {} => at \in dialogAck
    /\ spc = "choice" =>
         /\ \/ Asked(toClient) \/ Asked(queued)
            \/ at \in gm.menu
            \/ at \in choiceCh \/ OnItsWay("reply")
         /\ choiceCh # {} => at \in choiceCh

\* With no event left and nothing on its way, the player is free: no lock, no
\* delayed end, no route, whatever order effects, drains and ends came in. Only an
\* interaction that the server has dropped in silence leaves him locked.
FreeAtRest ==
  /\ spc = "idle" /\ toClient = <<>> /\ ~draining
  /\ ~Sent(toServer, "interact")
  => (active => ignored) /\ ~endPending /\ ~forced
=============================================================================
