------------------------------ MODULE Draggable ------------------------------
(***************************************************************************)
(* A panel the player can drag (makeDraggable and updateDrag in            *)
(* client_plugin/mmo-core.js): minimap, chat box, skill bar, action bar    *)
(* and windows. Where it was left is kept in localStorage under its key    *)
(* and found again by the panel of the next scene.                         *)
(*                                                                         *)
(* One coordinate stands for both. The pointer may be off the screen's     *)
(* panel area; a move beyond the threshold of four pixels is any move.     *)
(***************************************************************************)
EXTENDS Integers

CONSTANTS
  Room,      \* the largest place at which the panel is on the screen
  Size,      \* the panel's width: the pointer is on it from its place to Size after
  NoPlace

Pointer == 0..Room + Size

VARIABLES
  place,     \* panel.x
  drag,      \* panel._drag: pending, active, where it started and was grabbed
  stored,    \* localStorage of its key
  shown,     \* panel.visible
  pressed,   \* the pointer was down in the last frame
  cut        \* history: hidden in the middle of a drag, whose end it did not see

vars == <<place, drag, stored, shown, pressed, cut>>

Fresh == [pending |-> FALSE, active |-> FALSE, start |-> 0, off |-> 0]

\* Mutant: a panel may be dragged off the screen.
Clamped_Free(x) == x

\* A panel is kept within the screen.
Clamped(x) == IF x < 0 THEN 0 ELSE IF x > Room THEN Room ELSE x

Init ==
  /\ place = 0 /\ drag = Fresh /\ stored = NoPlace /\ shown = TRUE
  /\ pressed = FALSE /\ cut = FALSE

\* A press on the panel is pending; any earlier drag is over.
Triggered(x, down) == down /\ ~pressed /\ x \in place..place + Size
Pressed(x, down) ==
  IF Triggered(x, down)
  THEN [pending |-> TRUE, active |-> FALSE, start |-> x, off |-> x - place] ELSE drag

\* updateDrag, of a panel that is visible: a move makes the press a drag, which the panel
\* follows within the screen; letting go of it keeps the place.
UpdateDrag(x, down) ==
  LET d == Pressed(x, down)
      active == d.active \/ (d.pending /\ x # d.start)
  IN /\ shown
     /\ IF d.pending \/ d.active
        THEN IF down
             THEN /\ drag' = [d EXCEPT !.active = active, !.pending = ~active]
                  /\ place' = IF active THEN Clamped(x - d.off) ELSE place
                  /\ UNCHANGED stored
             ELSE /\ drag' = [d EXCEPT !.active = FALSE, !.pending = FALSE]
                  /\ stored' = IF d.active THEN place ELSE stored
                  /\ UNCHANGED place
        ELSE drag' = d /\ UNCHANGED <<place, stored>>

\* A frame; a panel that is hidden looks at nothing.
Frame(x, down) ==
  /\ \/ UpdateDrag(x, down)
     \/ ~shown /\ UNCHANGED <<place, drag, stored>>
  /\ pressed' = down
  /\ UNCHANGED <<shown, cut>>

\* The panel's owner shows or hides it, between two frames.
Toggle ==
  /\ shown' = ~shown
  /\ cut' = (cut \/ (shown /\ drag.active))
  /\ UNCHANGED <<place, drag, stored, pressed>>

\* makeDraggable by the panel of the next scene.
MakeDraggable ==
  /\ place' = IF stored = NoPlace THEN 0 ELSE Clamped(stored)
  /\ drag' = Fresh /\ shown' = TRUE /\ cut' = FALSE
  /\ UNCHANGED <<stored, pressed>>

Next ==
  \/ \E x \in Pointer, down \in BOOLEAN : Frame(x, down)
  \/ Toggle
  \/ MakeDraggable

Spec == Init /\ [][Next]_vars

-----------------------------------------------------------------------------
\* The type of the state.
TypeOK ==
  /\ place \in 0..Room /\ stored \in 0..Room \union {NoPlace}
  /\ {drag.pending, drag.active, shown, pressed, cut} \subseteq BOOLEAN
  /\ {drag.start, drag.off} \subseteq Pointer

\* A panel that is not being dragged is where the next scene will put it: whatever was
\* pressed, dragged to the edge or let go of outside, nothing the player has arranged is
\* forgotten (mmo-core.js:779-792).
PlaceKept == ~drag.active /\ ~cut => place = (IF stored = NoPlace THEN 0 ELSE stored)

\* NOT kept: nor is it when the panel is hidden during the drag. The release is not seen,
\* and the next press on the panel begins anew without keeping where it is
\* (mmo-core.js:759, 768).
PlaceRemembered == ~drag.active => place = (IF stored = NoPlace THEN 0 ELSE stored)
=============================================================================
