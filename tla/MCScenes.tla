------------------------------- MODULE MCScenes -------------------------------
(***************************************************************************)
(* The scenes of the client, checked side by side: the dialogs of an event *)
(* (Dialogs), a turn battle that is played (BattlePuppet), the map with    *)
(* its NPCs, other players, monsters, drops and minimap (NpcView,          *)
(* OtherPlayers, FieldBattle, Drops, Minimap), the forms before the game   *)
(* (Forms), and the widgets all of them are made of (Overlays, Toasts,     *)
(* Bubble, Fields, Selectors, Draggable). They share no state here; a      *)
(* behaviour takes the steps of one of them.                               *)
(***************************************************************************)
EXTENDS MCPlay

CONSTANTS
  Faces, Beneath, MaxChars, MaxFormScenes,
  Comps, Slides, MaxTold,
  Objs, MaxVisible, PoolMax, MaxShows, Stay,
  Top, Step, MaxLen,
  View, MaxItems, Blank, Widths,
  Room, Size, NoPlace,
  Line, MaxText, Fade

VARIABLES
  part,
  formScene, gen, inputs, filled, focus, focusTimer, formBusy, requests, ready, face, class,
  listOpen, buttons, preview, wanted, chars, chosen, cards, panel,
  comp, children, registered, listed, held, leaked,
  toastKind, obj, toasts, pool, toastScene, blockers, shows, ended,
  fieldKind, value, text, focused, fieldDirty, fieldDrawn, known,
  listKind, columns, items, scroll, selected, expanded, listDirty, listDrawn, picked, aimed,
  place, drag, stored, panelShown, pressed, cut,
  opts, str, lines, total, shownChars, frame, done, timer, opacity, fading, disposed, dirty,
  bubble, inside, toldDone, toldGone, hasty

Form == INSTANCE Forms WITH
  MaxScenes <- MaxFormScenes, scene <- formScene, timer <- focusTimer, busy <- formBusy,
  open <- listOpen, selected <- chosen
Over == INSTANCE Overlays
Toast == INSTANCE Toasts WITH kind <- toastKind, active <- toasts, scene <- toastScene
Fill == INSTANCE Fields WITH kind <- fieldKind, dirty <- fieldDirty, drawn <- fieldDrawn
List == INSTANCE Selectors WITH kind <- listKind, dirty <- listDirty, drawn <- listDrawn
Drag == INSTANCE Draggable WITH shown <- panelShown
Talk == INSTANCE Bubble

\* The last option is one, a step moves something, a list has a row, and what stands for no
\* item or no place is none.
ScenesAssumption ==
  /\ Top \in Nat \ {0} /\ Step \in Nat \ {0}
  /\ View \in Nat \ {0} /\ MaxItems \in Nat /\ Blank \notin 1..MaxItems
  /\ Room \in Nat /\ Size \in Nat /\ NoPlace \notin 0..Room
ASSUME ScenesAssumption

\* The variables of each of the others.
a == <<formScene, gen, inputs, filled, focus, focusTimer, formBusy, requests, ready, face,
       class, listOpen, buttons, preview, wanted, chars, chosen, cards, panel>>
w == <<comp, children, registered, listed, held, leaked>>
t == <<toastKind, obj, toasts, pool, toastScene, blockers, shows, ended>>
e == <<fieldKind, value, text, focused, fieldDirty, fieldDrawn, known>>
l == <<listKind, columns, items, scroll, selected, expanded, listDirty, listDrawn, picked, aimed>>
h == <<place, drag, stored, panelShown, pressed, cut>>
b == <<opts, str, lines, total, shownChars, frame, done, timer, opacity, fading, disposed,
       dirty, bubble, inside, toldDone, toldGone, hasty>>

\* A part that does not run has one initial state.
MCInit ==
  /\ Init /\ Puppet!Init /\ Npc!Init /\ Peers!Init /\ Field!Init /\ Floor!Init /\ Form!Init
  /\ Over!Init /\ Drag!Init
  /\ part \in {"dialogs", "puppet", "npc", "players", "field", "drops", "minimap", "forms",
               "overlays", "toasts", "fields", "lists", "drag", "bubble"}
  /\ part # "npc" => npc.look = "plain"
  /\ part # "players" => room = {}
  /\ part # "field" => mode = CHOOSE x \in Field!Modes : TRUE
  /\ Mini!Init /\ (part # "minimap" => open[1] = Mini!Tiles)
  /\ Toast!Init /\ (part # "toasts" => toastKind = "message")
  /\ Fill!Init /\ (part # "fields" => fieldKind = "switch")
  /\ List!Init /\ (part # "lists" => listKind = "list")
  /\ Talk!Init /\ (part # "bubble" => str = <<>> /\ opts.speed = 2)

MCNext ==
  /\ UNCHANGED part
  /\ \/ part = "dialogs" /\ Next /\ UNCHANGED <<p, n, o, f, g, m, a, w, t, e, l, h, b>>
     \/ part = "puppet" /\ Puppet!Next /\ UNCHANGED <<d, n, o, f, g, m, a, w, t, e, l, h, b>>
     \/ part = "npc" /\ Npc!Next /\ UNCHANGED <<d, p, o, f, g, m, a, w, t, e, l, h, b>>
     \/ part = "players" /\ Peers!Next /\ UNCHANGED <<d, p, n, f, g, m, a, w, t, e, l, h, b>>
     \/ part = "field" /\ Field!Next /\ UNCHANGED <<d, p, n, o, g, m, a, w, t, e, l, h, b>>
     \/ part = "drops" /\ Floor!Next /\ UNCHANGED <<d, p, n, o, f, m, a, w, t, e, l, h, b>>
     \/ part = "minimap" /\ Mini!Next /\ UNCHANGED <<d, p, n, o, f, g, a, w, t, e, l, h, b>>
     \/ part = "forms" /\ Form!Next /\ UNCHANGED <<d, p, n, o, f, g, m, w, t, e, l, h, b>>
     \/ part = "overlays" /\ Over!Next /\ UNCHANGED <<d, p, n, o, f, g, m, a, t, e, l, h, b>>
     \/ part = "toasts" /\ Toast!Next /\ UNCHANGED <<d, p, n, o, f, g, m, a, w, e, l, h, b>>
     \/ part = "fields" /\ Fill!Next /\ UNCHANGED <<d, p, n, o, f, g, m, a, w, t, l, h, b>>
     \/ part = "lists" /\ List!Next /\ UNCHANGED <<d, p, n, o, f, g, m, a, w, t, e, h, b>>
     \/ part = "bubble" /\ Talk!Next /\ UNCHANGED <<d, p, n, o, f, g, m, a, w, t, e, l, h>>
     \/ part = "drag" /\ Drag!Next /\ UNCHANGED <<d, p, n, o, f, g, m, a, w, t, e, l, b>>

MCSpec == MCInit /\ [][MCNext]_<<part, d, p, n, o, f, g, m, a, w, t, e, l, h, b>>

-----------------------------------------------------------------------------

\* The types of all.
TypesOK ==
  /\ part = "dialogs" => TypeOK
  /\ part = "puppet" => Puppet!TypeOK
  /\ part = "npc" => Npc!TypeOK
  /\ part = "players" => Peers!TypeOK
  /\ part = "field" => Field!TypeOK
  /\ part = "drops" => Floor!TypeOK
  /\ part = "minimap" => Mini!TypeOK
  /\ part = "forms" => Form!TypeOK
  /\ part = "overlays" => Over!TypeOK
  /\ part = "toasts" => Toast!TypeOK
  /\ part = "fields" => Fill!TypeOK
  /\ part = "lists" => List!TypeOK
  /\ part = "drag" => Drag!TypeOK
  /\ part = "bubble" => Talk!TypeOK

\* The server waits for the player, in an event or in a battle, only while he has been
\* asked and can answer, or has answered (Dialogs, BattlePuppet).
Answerable ==
  /\ part = "dialogs" => AnswerComing
  /\ part = "puppet" => Puppet!Answerable

\* Nothing outlives the event, the battle or the life it was started for: no lock or
\* route, no timer, no automatic attack (Dialogs, BattlePuppet, FieldBattle).
FreeAgain ==
  /\ part = "dialogs" => FreeAtRest
  /\ part = "puppet" => Puppet!OwnBattle
  /\ part = "field" => Field!AutoRests

\* With every message heard, the map shows what there is: an NPC stands where the
\* server has it, and its dot with it; no icon is left without its NPC, no player who has
\* left, no death overlay over a player who lives, no drop that somebody has, and a drop
\* goes to one of those who pick it up
MapHonest ==
  /\ part = "npc" => Npc!Follows /\ Npc!NoOrphans
  /\ part = "players" => Peers!NoGhosts
  /\ part = "field" => Field!NoLastingShroud
  /\ part = "drops" => Floor!InOnePlace /\ Floor!NoneTaken
  /\ part = "minimap" => Mini!DotsTrue

\* A click never goes through an overlay that is up, and the owner of a dialog or a text
\* that has ended hears of it once, whatever ended it: button, key, expiry, displacement
\* or a change of scene; so does the owner of a bubble whose text is typed or that is
\* gone, of which no character is lost or written outside; a pooled text is in nobody's
\* hands; columns and tabs fill their width to the pixel, and the minimap's land is what
\* the player can reach (Overlays, Toasts, Bubble, Selectors, Minimap).
WidgetsSound ==
  /\ part = "overlays" => Over!Shielded /\ Over!ToldOnce
  /\ part = "toasts" => Toast!EndsOnce /\ Toast!PoolApart
  /\ part = "bubble" => Talk!ToldOnce /\ Talk!NothingLost /\ Talk!WrittenInside
  /\ part = "lists" => List!WidthsFill
  /\ part = "minimap" => Mini!LandReached

\* What is drawn is what is held, and what is picked is what was drawn: forms, lists,
\* fields, and a panel the player has put in its place (Forms, Selectors, Fields,
\* Draggable).
AsDrawn ==
  /\ part = "forms" => Form!DrawnAsChosen
  /\ part = "lists" => List!PickedAsDrawn /\ List!InView
  /\ part = "fields" => Fill!InStep
  /\ part = "drag" => Drag!PlaceKept
=============================================================================
