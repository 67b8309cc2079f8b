----------------------------- MODULE MapPanels -----------------------------
(***************************************************************************)
(* What Scene_Map lays over the map: the bottom panels and the floating    *)
(* windows of client_plugin/mmo-core.js, mmo-game-window.js, mmo-chat.js   *)
(* and mmo-skill-bar.js.                                                   *)
(*                                                                         *)
(* Panels and windows belong to a Scene_Map and are made anew by the next  *)
(* one; the registries they are entered in, the flag _eventBusy and the    *)
(* chat's text field belong to the page. An event hides the panels and may *)
(* well go on over a change of scene.                                      *)
(***************************************************************************)
EXTENDS Integers, Sequences

CONSTANTS
  MaxScenes       \* bound on the Scene_Map instances

VARIABLES
  eventOn,        \* a server event runs or a message is shown: "busy" in update
  eventBusy,      \* $MMO._eventBusy
  phase,          \* of Scene_Map: "off", "made" (createAllWindows), "started"
  scene,          \* the number of the scene
  chat, bar,      \* the chat box; the skill bar and the action bar
  typing,         \* _inputFocused: the chat's text field takes the keyboard
  gameWindows     \* _gameWindows: every window registered, in order

panelVars == <<eventOn, eventBusy, phase, scene, chat, bar, typing, gameWindows>>

Panel == [exists |-> TRUE, visible |-> TRUE, hiddenByEvent |-> FALSE]
NoPanel == [exists |-> FALSE, visible |-> FALSE, hiddenByEvent |-> FALSE]
Keys == {"status", "system"}

Init ==
  /\ eventOn = FALSE /\ eventBusy = FALSE
  /\ phase = "off" /\ scene = 0
  /\ chat = NoPanel /\ bar = NoPanel
  /\ typing = FALSE
  /\ gameWindows = <<>>

-----------------------------------------------------------------------------
(* The scene. *)

\* createAllWindows: registerBottomUI and registerWindow.
CreateAllWindows ==
  /\ phase = "off" /\ scene < MaxScenes
  /\ phase' = "made"
  /\ scene' = scene + 1
  /\ chat' = Panel /\ bar' = Panel
  /\ gameWindows' = gameWindows \o <<[of |-> scene', key |-> "status", visible |-> FALSE],
                                     [of |-> scene', key |-> "system", visible |-> FALSE]>>
  /\ UNCHANGED <<eventOn, eventBusy, typing>>

\* Scene_Map.start shows the chat, whatever goes on.
Start ==
  /\ phase = "made"
  /\ phase' = "started"
  /\ chat' = [chat EXCEPT !.visible = TRUE]
  /\ UNCHANGED <<eventOn, eventBusy, scene, bar, typing, gameWindows>>

\* Scene_Map.terminate: the chat is unregistered, hidden and destroyed. The bars and
\* the windows stay registered.
Terminate ==
  /\ phase = "started"
  /\ phase' = "off"
  /\ chat' = NoPanel /\ bar' = NoPanel
  /\ typing' = FALSE
  /\ UNCHANGED <<eventOn, eventBusy, scene, gameWindows>>

-----------------------------------------------------------------------------
(* Scene_Map.update. *)

Hidden(p) == [p EXCEPT !.hiddenByEvent = p.visible, !.visible = FALSE]

Shown(p) ==
  IF p.hiddenByEvent THEN [p EXCEPT !.visible = TRUE, !.hiddenByEvent = FALSE] ELSE p

\* When busy changes, every registered panel is hidden or brought back; ChatBox.hide
\* blurs the text field.
HidePanels ==
  /\ phase # "off"
  /\ eventBusy # eventOn
  /\ eventBusy' = eventOn
  /\ chat' = (IF eventOn THEN Hidden(chat) ELSE Shown(chat))
  /\ bar' = (IF eventOn THEN Hidden(bar) ELSE Shown(bar))
  /\ typing' = (typing /\ ~eventOn)
  /\ UNCHANGED <<eventOn, phase, scene, gameWindows>>

\* event_start and event_end, and $gameMessage.
Event ==
  /\ eventOn' = ~eventOn
  /\ UNCHANGED <<eventBusy, phase, scene, chat, bar, typing, gameWindows>>

-----------------------------------------------------------------------------
(* The player. *)

\* The window of a key that $MMO refers to: the newest.
Newest(key) == CHOOSE i \in DOMAIN gameWindows : gameWindows[i].of = scene /\ gameWindows[i].key = key

Toggle(i) == gameWindows' = [gameWindows EXCEPT ![i].visible = ~@]

\* Alt+T and the buttons of the action bar: _triggerAction.
Trigger ==
  /\ phase = "started"
  /\ \E key \in Keys : Toggle(Newest(key))
  /\ UNCHANGED <<eventOn, eventBusy, phase, scene, chat, bar, typing>>

\* The registered windows that are visible.
Visible == {i \in DOMAIN gameWindows : gameWindows[i].visible}

\* Escape: closeTopWindow, or else the system menu. The text field keeps the key for
\* itself.
Escape ==
  /\ phase = "started" /\ ~typing
  /\ IF Visible # {}
     THEN gameWindows' = [gameWindows EXCEPT
            ![CHOOSE i \in Visible : \A j \in Visible : j <= i].visible = FALSE]
     ELSE Toggle(Newest("system"))
  /\ UNCHANGED <<eventOn, eventBusy, phase, scene, chat, bar, typing>>

\* Enter puts the cursor in the text field, if that is displayed.
Enter ==
  /\ phase = "started" /\ chat.visible /\ ~typing
  /\ typing' = TRUE
  /\ UNCHANGED <<eventOn, eventBusy, phase, scene, chat, bar, gameWindows>>

\* Escape in the text field, or a click elsewhere.
Blur ==
  /\ typing
  /\ typing' = FALSE
  /\ UNCHANGED <<eventOn, eventBusy, phase, scene, chat, bar, gameWindows>>

-----------------------------------------------------------------------------

Next ==
  \/ CreateAllWindows \/ Start \/ Terminate \/ HidePanels \/ Event
  \/ Trigger \/ Escape \/ Enter \/ Blur

Spec == Init /\ [][Next]_panelVars

-----------------------------------------------------------------------------
(* Properties. *)

TypeOK ==
  /\ \A p \in {chat, bar} : p.hiddenByEvent => p.exists /\ eventBusy
  /\ phase \in {"off", "made", "started"} /\ scene \in 0..MaxScenes
  /\ \A i \in DOMAIN gameWindows : gameWindows[i].of <= scene
  /\ (phase = "off") = ~chat.exists

\* Whatever scenes and events come between, no panel stays hidden once the scene has
\* seen that nothing is going on.
PanelsReturn == phase # "off" /\ ~eventBusy => chat.visible /\ bar.visible

\* The keyboard is taken from the game only by a text field the player sees.
KeyboardFree == typing => chat.visible

\* As long as the scene knows of an event, the panels are out of its way
\* (mmo-core.js:924: hides every registered panel while a dialogue is active).
PanelsAway == phase = "started" /\ eventBusy => ~chat.visible /\ ~bar.visible

\* With no window of this scene open, Escape opens the system menu
\* (mmo-core.js:923: otherwise toggles the system menu).
EscapeOpensMenu ==
  [][/\ Escape
     /\ \A i \in Visible : gameWindows[i].of # scene
     => \E i \in DOMAIN gameWindows' : gameWindows'[i].visible /\ gameWindows'[i].of = scene]_panelVars
=============================================================================
