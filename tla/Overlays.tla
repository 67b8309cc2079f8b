------------------------------ MODULE Overlays ------------------------------
(***************************************************************************)
(* The client's own widgets that open over the game (client_plugin/ui):    *)
(* what they share (core/base.js), the list of those that keep a click     *)
(* from the map (core/input-blocker.js), and the overlays themselves -     *)
(* dialog, popconfirm, drawer, alert, full screen, sub-window, button and  *)
(* tooltip.                                                                *)
(*                                                                         *)
(* A frame is one step: the map looks at the pointer first, then the scene *)
(* updates its children in turn, as Array.forEach does, so a child that    *)
(* removes itself makes the next one miss the frame. Owners make, show,    *)
(* hide and destroy overlays between the frames. Geometry is left out: the *)
(* pointer is over a set of overlays, on one spot of each.                 *)
(***************************************************************************)
EXTENDS Integers, SequencesExt

CONSTANTS
  Comps,     \* the components that can be made, numbered in the order of their making
  Slides,    \* the frames a drawer takes to open or to close
  MaxTold    \* how often a callback is counted

Kinds == {"dialog", "popconfirm", "drawer", "alert", "fullscreen", "subwindow", "button",
          "tooltip"}
OneShot == {"dialog", "popconfirm", "alert", "fullscreen"}
Calls == {"close", "ok", "cancel"}     \* the callbacks of an owner ("ok" is a button's click)
Spots == {"body", "title", "close", "ok", "cancel"}

VARIABLES
  comp,        \* component -> its fields
  children,    \* the children of the scene that is running, in order
  registered,  \* _registeredUI
  listed,      \* _allComponents
  held,        \* the pointer is down
  leaked       \* a click on an overlay that was up before the frame went to the map

vars == <<comp, children, registered, listed, held, leaked>>

Unmade == [kind |-> "none", visible |-> FALSE, last |-> FALSE, done |-> FALSE,
           destroyed |-> FALSE, calls |-> {}, slide |-> 0, anim |-> "no", press |-> "no",
           told |-> [k \in Calls |-> 0]]

\* What the constructors set. Window makes a component visible, and it registers at once; a
\* tooltip hides afterwards and stays registered until its next update.
Made(kind) ==
  [Unmade EXCEPT
     !.kind = kind,
     !.visible = (kind # "tooltip"),
     !.last = TRUE,
     !.calls = CASE kind \in {"drawer", "alert", "fullscreen", "subwindow"} -> {"close"}
                 [] kind = "popconfirm" -> {"ok", "cancel"}
                 [] kind = "button" -> {"ok"}
                 [] kind = "tooltip" -> {}
                 [] OTHER -> Calls]

Init ==
  /\ comp = [c \in Comps |-> Unmade]
  /\ children = <<>>
  /\ registered = {}
  /\ listed = {}
  /\ held = FALSE
  /\ leaked = FALSE

-----------------------------------------------------------------------------
\* One component's update works on a screen: the components, the children, the blocker.
Screen == [comp |-> comp, children |-> children, registered |-> registered]

Set(s, c, fields) == [s EXCEPT !.comp[c] = fields @@ s.comp[c]]
Detach(s, c) == [s EXCEPT !.children = SelectSeq(@, LAMBDA d : d # c)]

\* The callback is called if the component still holds it. How often is counted for the
\* overlays that end for good.
Tell(s, c, call) ==
  IF call \in s.comp[c].calls /\ s.comp[c].kind \in OneShot
  THEN [s EXCEPT !.comp[c].told[call] = IF @ < MaxTold THEN @ + 1 ELSE @]
  ELSE s

\* _updateInputBlocker: register and unregister when what is seen has changed.
UpdateBlocker(s, c) ==
  LET isVisible == s.comp[c].visible /\ ~s.comp[c].destroyed IN
  IF isVisible = s.comp[c].last THEN s
  ELSE [s EXCEPT !.comp[c].last = isVisible,
                 !.registered = IF isVisible THEN @ \union {c} ELSE @ \ {c}]

\* L2_Dialog.close: once.
CloseDialog(s, c) ==
  IF s.comp[c].done THEN s
  ELSE LET closed == Tell(Detach(Set(s, c, [done |-> TRUE, visible |-> FALSE]), c), c, "close")
       IN Set(closed, c, [calls |-> s.comp[c].calls \ {"close"}])

\* Mutant: a button leaves the dialog open.
PressDialogButton_Open(s, c, button) == Tell(s, c, button)

\* The buttons of alert and confirm close the dialog and then call their owner's function.
PressDialogButton(s, c, button) == Tell(CloseDialog(s, c), c, button)

UpdateDialog(s, c, in) ==
  IF in.triggered /\ in.spot = "close" THEN CloseDialog(s, c)
  ELSE LET pressed == IF in.triggered /\ in.spot \in {"ok", "cancel"}
                      THEN PressDialogButton(s, c, in.spot) ELSE s
       IN IF in.esc THEN CloseDialog(pressed, c) ELSE pressed

\* L2_Popconfirm._dismiss lets go of the callbacks; its callers call them afterwards.
Dismiss(s, c) ==
  IF s.comp[c].done THEN s
  ELSE Detach(Set(s, c, [done |-> TRUE, visible |-> FALSE, calls |-> {}]), c)

UpdatePopconfirm(s, c, in) ==
  LET clicked == CASE in.triggered /\ in.spot = "ok" -> Tell(Dismiss(s, c), c, "ok")
                   [] in.triggered /\ in.spot \in {"cancel", "off"} ->
                        Tell(Dismiss(s, c), c, "cancel")
                   [] OTHER -> s
  IN IF in.esc THEN Tell(Dismiss(clicked, c), c, "cancel") ELSE clicked

\* L2_Drawer.update: slide, and tell the owner when it is shut. The checks of the close
\* button and of ESC follow in the same update.
Slide(s, c) ==
  LET d == s.comp[c] IN
  CASE d.anim = "opening" ->
         LET slide == IF d.slide < Slides THEN d.slide + 1 ELSE Slides IN
         Set(s, c, [slide |-> slide, anim |-> IF slide = Slides THEN "no" ELSE "opening"])
    [] d.anim = "closing" /\ d.slide > 1 -> Set(s, c, [slide |-> d.slide - 1])
    [] d.anim = "closing" /\ d.slide <= 1 ->
         Tell(Set(s, c, [slide |-> 0, anim |-> "no", visible |-> FALSE]), c, "close")
    [] OTHER -> s

UpdateDrawer(s, c, in) ==
  LET slid == Slide(s, c)
      clicked == in.triggered /\ in.spot = "close" /\ slid.comp[c].slide > 0
  IN IF clicked \/ in.esc THEN Set(slid, c, [anim |-> "closing"]) ELSE slid

UpdateAlert(s, c, in) ==
  IF in.triggered /\ in.spot = "close"
  THEN Tell(Detach(Set(s, c, [visible |-> FALSE]), c), c, "close") ELSE s

\* L2_FullscreenWindow._doClose: once for good, whoever shows the window again.
UpdateFullscreen(s, c, in) ==
  IF ((in.triggered /\ in.spot = "close") \/ in.esc) /\ ~s.comp[c].done
  THEN Tell(Set(s, c, [done |-> TRUE, visible |-> FALSE]), c, "close") ELSE s

\* L2_SubWindow: a press on the title bar, which the close button is part of, may become a
\* drag; letting go ends it.
HandleDrag(s, c, in) ==
  LET pending == s.comp[c].press = "pending"
                 \/ (s.comp[c].press = "no" /\ in.triggered /\ in.spot \in {"title", "close"})
  IN CASE ~in.held -> Set(s, c, [press |-> "no"])
       [] in.held /\ pending -> Set(s, c, [press |-> IF in.moved THEN "dragging" ELSE "pending"])
       [] OTHER -> s

UpdateSubWindow(s, c, in) ==
  LET dragged == HandleDrag(s, c, in) IN
  IF in.triggered /\ in.spot = "close"
  THEN Tell(Set(dragged, c, [visible |-> FALSE]), c, "close") ELSE dragged

\* L2_Button: pressed inside, let go inside.
UpdateButton(s, c, in) ==
  LET inside == in.spot # "off"
      pressed == s.comp[c].press = "pending" \/ (inside /\ in.triggered)
  IN CASE in.held -> Set(s, c, [press |-> IF pressed THEN "pending" ELSE "no"])
       [] ~in.held /\ pressed /\ inside -> Tell(Set(s, c, [press |-> "no"]), c, "ok")
       [] OTHER -> Set(s, c, [press |-> "no"])

\* L2_Tooltip: it appears when its delay (one frame here) is over, seen or not before.
UpdateTooltip(s, c) ==
  IF s.comp[c].anim = "opening" THEN Set(s, c, [anim |-> "no", visible |-> TRUE]) ELSE s

\* The update of a child: the base's, then, while it is visible, its own.
UpdateChild(s, c, in) ==
  LET base == UpdateBlocker(s, c)
      kind == s.comp[c].kind
  IN CASE kind = "tooltip" -> UpdateTooltip(base, c)
       [] ~s.comp[c].visible -> base
       [] kind = "dialog" -> UpdateDialog(base, c, in)
       [] kind = "popconfirm" -> UpdatePopconfirm(base, c, in)
       [] kind = "drawer" -> UpdateDrawer(base, c, in)
       [] kind = "alert" -> UpdateAlert(base, c, in)
       [] kind = "fullscreen" -> UpdateFullscreen(base, c, in)
       [] kind = "subwindow" -> UpdateSubWindow(base, c, in)
       [] kind = "button" -> UpdateButton(base, c, in)

\* forEach over the children: by index, as many as there were, whatever is left of them.
UpdateChildren(in, under) ==
  FoldLeft(LAMBDA s, i :
             IF i > Len(s.children) THEN s
             ELSE LET c == s.children[i] IN
                  UpdateChild(s, c, [in EXCEPT !.spot = IF c \in under THEN @ ELSE "off"]),
           Screen, [i \in 1..Len(children) |-> i])

-----------------------------------------------------------------------------
\* L2_InputBlocker.isBlocking at a point over these components.
IsBlocking(under) ==
  \E c \in registered \intersect under : comp[c].visible /\ ~comp[c].destroyed

\* Overlays that are on the screen and were at the end of the frame before.
Up(under) == {c \in under : comp[c].visible /\ comp[c].last /\ ~comp[c].destroyed}

\* A frame: the pointer over some components, pressed, held, moved or let go, or ESC. The
\* map takes the click (processMapTouch) before the children are updated.
Frame(under, spot, down, moved, esc) ==
  LET triggered == down /\ ~held
      in == [spot |-> spot, triggered |-> triggered, held |-> down, moved |-> moved,
             esc |-> esc]
      after == UpdateChildren(in, under)
  IN /\ comp' = after.comp
     /\ children' = after.children
     /\ registered' = after.registered
     /\ held' = down
     /\ leaked' = (leaked \/ (triggered /\ Up(under) # {} /\ ~IsBlocking(under)))
     /\ UNCHANGED listed

\* The pointer is over none, one or several of the children; the spot matters to a press.
Frames ==
  \E under \in SUBSET Range(children), spot \in Spots, down, moved, esc \in BOOLEAN :
    /\ under = {} \/ ~down \/ held => spot = "body"
    /\ moved => held /\ down /\ \E c \in Range(children) : comp[c].press # "no"
    /\ Frame(under, spot, down, moved, esc)

\* An owner makes a component and adds it to the scene.
Make(c, kind) ==
  /\ comp[c].kind = "none" /\ \A b \in Comps : b < c => comp[b].kind # "none"
  /\ comp' = [comp EXCEPT ![c] = Made(kind)]
  /\ children' = Append(children, c)
  /\ registered' = registered \union {c}
  /\ listed' = listed \union {c}
  /\ UNCHANGED <<held, leaked>>

Alive(c) == comp[c].kind # "none" /\ ~comp[c].destroyed

\* An owner shows it: a drawer opens, a tooltip waits for its delay.
Show(c) ==
  /\ Alive(c) /\ c \in Range(children)
  /\ comp' = [comp EXCEPT ![c] =
       CASE @.kind = "drawer" -> [@ EXCEPT !.anim = "opening", !.visible = TRUE]
         [] @.kind = "tooltip" -> [@ EXCEPT !.anim = "opening"]
         [] OTHER -> [@ EXCEPT !.visible = TRUE]]
  /\ UNCHANGED <<children, registered, listed, held, leaked>>

\* An owner closes or hides it: a drawer slides, a dialog ends for good.
Hide(c) ==
  /\ Alive(c)
  /\ comp[c].kind \notin {"popconfirm", "alert"}
  /\ LET s == CASE comp[c].kind = "drawer" -> Set(Screen, c, [anim |-> "closing"])
                [] comp[c].kind = "dialog" -> CloseDialog(Screen, c)
                [] OTHER -> Set(Screen, c, [visible |-> FALSE, anim |-> "no"])
     IN comp' = s.comp /\ children' = s.children
  /\ UNCHANGED <<registered, listed, held, leaked>>

\* L2_Base.destroy.
Destroy(c) ==
  /\ Alive(c)
  /\ comp' = [comp EXCEPT ![c].destroyed = TRUE, ![c].calls = @ \ {"close"}]
  /\ children' = SelectSeq(children, LAMBDA d : d # c)
  /\ registered' = registered \ {c}
  /\ listed' = listed \ {c}
  /\ UNCHANGED <<held, leaked>>

\* SceneManager.goto: what was destroyed leaves the list (it has left it already), the
\* blocker forgets all, and the next scene starts without children.
Goto ==
  /\ children # <<>>
  /\ children' = <<>>
  /\ registered' = {}
  /\ listed' = {c \in listed : ~comp[c].destroyed}
  /\ UNCHANGED <<comp, held, leaked>>

Next ==
  \/ Frames
  \/ \E c \in Comps, kind \in Kinds : Make(c, kind)
  \/ \E c \in Comps : Show(c) \/ Hide(c) \/ Destroy(c)
  \/ Goto

Spec == Init /\ [][Next]_vars

-----------------------------------------------------------------------------
\* The type of the state.
TypeOK ==
  /\ \A c \in Comps :
       /\ comp[c].kind \in Kinds \union {"none"}
       /\ comp[c].calls \subseteq Calls
       /\ comp[c].slide \in 0..Slides
       /\ comp[c].anim \in {"no", "opening", "closing"}
       /\ comp[c].press \in {"no", "pending", "dragging"}
       /\ comp[c].told \in [Calls -> 0..MaxTold]
  /\ IsInjective(children) /\ Range(children) \subseteq Comps
  /\ registered \subseteq Comps /\ listed \subseteq Comps
  /\ {held, leaked} \subseteq BOOLEAN

\* A click on an overlay that was up at the end of the frame before never walks the player
\* (input-blocker.js:1-7): across showing, hiding, closing in the middle of a frame and
\* scene changes, what is up in the running scene is what the blocker knows.
Shielded ==
  /\ ~leaked
  /\ \A c \in Range(children) : comp[c].last <=> c \in registered

\* However a dialog, an alert or a full-screen window is ended - button, close box, ESC, its
\* owner, two of them in one frame - its owner hears of it once, and of one button at most;
\* a dialog's button is not heard before its end.
ToldOnce ==
  \A c \in Comps :
    LET told == comp[c].told IN
    /\ comp[c].kind \in {"dialog", "fullscreen"} => told["close"] <= 1
    /\ comp[c].kind = "dialog" => /\ told["ok"] + told["cancel"] <= 1
                                  /\ told["ok"] + told["cancel"] > 0 => comp[c].done
                                  /\ comp[c].visible => ~comp[c].done \/ told["close"] = 1

\* NOT kept: the owner of a popconfirm hears the answer. _dismiss has let go of the
\* functions before they are called (popconfirm.js:114-123, 138-140).
PopconfirmHeard ==
  \A c \in Comps : comp[c].kind = "popconfirm" /\ comp[c].done =>
                     comp[c].told["ok"] + comp[c].told["cancel"] > 0

\* NOT kept: the list for resizing holds the components of the running scene only. What is
\* closed or left behind without destroy() stays in it.
ListedIsShown == listed \subseteq Range(children)
=============================================================================
