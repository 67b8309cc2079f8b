---------------------------- MODULE ScenesProofs ----------------------------
(***************************************************************************)
(* What the scenes of the client promise, beside one another and for every *)
(* value of the constants: each part keeps its invariants, which are those *)
(* of PlayProofs and those of the forms, the fields, the lists and the     *)
(* panels below, and the others' steps leave it alone.                     *)
(***************************************************************************)
EXTENDS MCScenes, PlayProofs, Integers

-----------------------------------------------------------------------------
(* A panel the player drags *)

\* While it is dragged the button is down and the panel on the screen, or its end was cut off.
DragInv ==
  /\ place \in 0..Room /\ stored \in 0..Room \union {NoPlace}
  /\ drag \in [pending : BOOLEAN, active : BOOLEAN, start : Int, off : Int]
  /\ panelShown \in BOOLEAN /\ pressed \in BOOLEAN /\ cut \in BOOLEAN
  /\ drag.active /\ ~cut => pressed /\ panelShown
  /\ Drag!PlaceKept

LEMMA DragInitial == Drag!Init => DragInv
<1> SUFFICES ASSUME Drag!Init PROVE DragInv
  OBVIOUS
<1>1. /\ place = 0 /\ stored = NoPlace /\ panelShown = TRUE /\ pressed = FALSE /\ cut = FALSE
      /\ drag = [pending |-> FALSE, active |-> FALSE, start |-> 0, off |-> 0]
  BY DEF Drag!Init, Drag!Fresh
<1>2. drag \in [pending : BOOLEAN, active : BOOLEAN, start : Int, off : Int] /\ drag.active = FALSE
  BY <1>1
<1>3. 0 \in 0..Room
  BY ScenesAssumption DEF ScenesAssumption
<1> QED BY <1>1, <1>2, <1>3 DEF DragInv, Drag!PlaceKept

LEMMA DragStays == \A x \in Int : Drag!Clamped(x) \in 0..Room
BY ScenesAssumption DEF Drag!Clamped, ScenesAssumption

LEMMA DragFrame ==
  ASSUME DragInv, NEW x \in Int, NEW down \in BOOLEAN, Drag!UpdateDrag(x, down),
         pressed' = down, UNCHANGED <<panelShown, cut>>
  PROVE  DragInv'
<1> DEFINE Held == Drag!Pressed(x, down)
<1> DEFINE moved == Held.active \/ (Held.pending /\ x # Held.start)
<1> USE DEF DragInv
<1>1. /\ Held \in [pending : BOOLEAN, active : BOOLEAN, start : Int, off : Int]
      /\ Held = drag \/ (down /\ ~pressed /\ Held.active = FALSE)
  BY DEF Drag!Pressed, Drag!Triggered
<1>2. Held.active => Held = drag
  BY <1>1
<1>3. ~drag.active /\ ~cut => place = (IF stored = NoPlace THEN 0 ELSE stored)
  BY DEF Drag!PlaceKept
<1>4. ~Held.active /\ ~cut => ~drag.active
  BY <1>1
<1>5. CASE (Held.pending \/ Held.active) /\ down
  <2>1. /\ drag' = [Held EXCEPT !.active = moved, !.pending = ~moved]
        /\ place' = IF moved THEN Drag!Clamped(x - Held.off) ELSE place
        /\ stored' = stored /\ panelShown
    BY <1>5 DEF Drag!UpdateDrag
  <2> HIDE DEF Held
  <2>2. drag' \in [pending : BOOLEAN, active : BOOLEAN, start : Int, off : Int] /\ drag'.active = moved
    BY <1>1, <2>1
  <2>3. place' \in 0..Room
    BY <1>1, <2>1, DragStays
  <2> QED BY <1>3, <1>4, <1>5, <2>1, <2>2, <2>3 DEF Drag!PlaceKept
<1>6. CASE (Held.pending \/ Held.active) /\ ~down
  <2>1. /\ drag' = [Held EXCEPT !.active = FALSE, !.pending = FALSE]
        /\ stored' = IF Held.active THEN place ELSE stored
        /\ place' = place
    BY <1>6 DEF Drag!UpdateDrag
  <2> HIDE DEF Held
  <2>2. drag' \in [pending : BOOLEAN, active : BOOLEAN, start : Int, off : Int] /\ drag'.active = FALSE
    BY <1>1, <2>1
  <2> QED BY <1>3, <1>4, <1>6, <2>1, <2>2, ScenesAssumption DEF Drag!PlaceKept, ScenesAssumption
<1>7. CASE ~(Held.pending \/ Held.active)
  <2>1. drag' = Held /\ stored' = stored /\ place' = place
    BY <1>7 DEF Drag!UpdateDrag
  <2> HIDE DEF Held
  <2> QED BY <1>1, <1>3, <1>4, <1>7, <2>1 DEF Drag!PlaceKept
<1> QED BY <1>5, <1>6, <1>7

LEMMA DragStep == DragInv /\ [Drag!Next]_h => DragInv'
<1> SUFFICES ASSUME DragInv, [Drag!Next]_h PROVE DragInv'
  OBVIOUS
<1>1. CASE UNCHANGED h
  BY <1>1 DEF h, DragInv, Drag!PlaceKept
<1>2. ASSUME NEW x \in Drag!Pointer, NEW down \in BOOLEAN, Drag!Frame(x, down) PROVE DragInv'
  <2>1. x \in Int
    BY ScenesAssumption DEF Drag!Pointer, ScenesAssumption
  <2>2. CASE Drag!UpdateDrag(x, down)
    BY <1>2, <2>1, <2>2, DragFrame DEF Drag!Frame
  <2>3. CASE ~panelShown /\ UNCHANGED <<place, drag, stored>>
    BY <1>2, <2>3 DEF Drag!Frame, DragInv, Drag!PlaceKept
  <2> QED BY <1>2, <2>2, <2>3 DEF Drag!Frame
<1>3. ASSUME Drag!Toggle PROVE DragInv'
  BY <1>3 DEF Drag!Toggle, DragInv, Drag!PlaceKept
<1>4. ASSUME Drag!MakeDraggable PROVE DragInv'
  <2>1. /\ place' = IF stored = NoPlace THEN 0 ELSE Drag!Clamped(stored)
        /\ drag' = [pending |-> FALSE, active |-> FALSE, start |-> 0, off |-> 0]
        /\ panelShown' = TRUE /\ cut' = FALSE /\ stored' = stored /\ pressed' = pressed
    BY <1>4 DEF Drag!MakeDraggable, Drag!Fresh
  <2>2. stored # NoPlace => Drag!Clamped(stored) = stored /\ stored \in 0..Room
    BY ScenesAssumption DEF DragInv, Drag!Clamped, ScenesAssumption
  <2>3. drag' \in [pending : BOOLEAN, active : BOOLEAN, start : Int, off : Int] /\ drag'.active = FALSE
    BY <2>1
  <2>4. place' \in 0..Room /\ place' = IF stored = NoPlace THEN 0 ELSE stored
    BY <2>1, <2>2, ScenesAssumption DEF ScenesAssumption
  <2> QED BY <2>1, <2>3, <2>4 DEF DragInv, Drag!PlaceKept
<1> QED BY <1>1, <1>2, <1>3, <1>4 DEF Drag!Next

-----------------------------------------------------------------------------
(* A widget that holds a value *)

Fillable ==
  [value : Int, text : Int, focused : BOOLEAN, dirty : BOOLEAN, drawn : Int, known : Int]

\* What each kind lets a value be.
Choosable(v) ==
  /\ fieldKind \in {"number", "steps"} => v \in 0..Top
  /\ fieldKind = "slider" => (\E c \in Fill!Options : v = c * Step) /\ 2 * (v - Top) <= Step
  /\ fieldKind = "pages" => v \in 1..Top
  /\ fieldKind \in {"radio", "tabs"} => v \in Fill!Options

\* InStep of a widget that an update works on.
Filled(wd) ==
  /\ wd \in Fillable
  /\ Choosable(wd.value) /\ wd.known = wd.value
  /\ ~wd.dirty => wd.drawn = Fill!Displayed(wd)

FillInv == fieldKind \in Fill!Kinds /\ Filled(Fill!Widget)

\* A slider rounds to a step, by no more than half of one.
LEMMA HalfStep ==
  ASSUME NEW x \in 0..Top
  PROVE  LET k == (2 * x + Step) \div (2 * Step) IN k \in 0..Top /\ 2 * (k * Step - Top) <= Step
<1> DEFINE k == (2 * x + Step) \div (2 * Step)
<1> USE ScenesAssumption DEF ScenesAssumption
<1>1. k \in Int
  OBVIOUS
<1>2. k * (2 * Step) <= 2 * x + Step /\ 2 * x + Step < (k + 1) * (2 * Step)
  OBVIOUS
<1> HIDE DEF k
<1>3. k * (2 * Step) = 2 * (k * Step)
  BY <1>1
<1>4. 2 * (k * Step - Top) <= Step
  BY <1>1, <1>2, <1>3
<1>5. k >= 0
  BY <1>1, <1>2
<1>6. k <= x
  <2> SUFFICES ASSUME k >= x + 1 PROVE FALSE
    BY <1>1
  <2>1. k * Step >= k /\ (k - 1) * (Step - 1) >= 0
    BY <1>1, <1>5
  <2>2. 2 * (k * Step) >= 2 * k + 2 * Step - 2
    BY <1>1, <2>1
  <2> QED BY <1>1, <1>2, <1>3, <2>2
<1> QED BY <1>1, <1>4, <1>5, <1>6 DEF k

LEMMA ClampBetween ==
  ASSUME NEW v \in Int, NEW x \in Int, x <= Top
  PROVE  Fill!Clamp(v, x, Top) \in x..Top
BY ScenesAssumption DEF Fill!Clamp, Fill!Most, Fill!Least, ScenesAssumption

\* The parts of an update: a new value, the same value drawn again, the base's redraw.
LEMMA FillChanged ==
  ASSUME NEW wd, Filled(wd), NEW v \in Int, Choosable(v)
  PROVE  Filled(Fill!Change(wd, v))
BY DEF Filled, Fillable, Fill!Change

LEMMA FillTouched ==
  ASSUME NEW wd, Filled(wd), NEW w2 \in Fillable, w2.value = wd.value, w2.known = wd.known, w2.dirty
  PROVE  Filled(w2)
BY DEF Filled

LEMMA FillRefreshed ==
  ASSUME NEW wd, Filled(wd)
  PROVE  Filled(Fill!Refresh(wd)) /\ Filled(Fill!Redraw(wd))
<1>1. Fill!Displayed(wd) \in Int
  BY DEF Filled, Fillable, Fill!Displayed
<1>2. Filled(Fill!Refresh(wd))
  BY <1>1 DEF Filled, Fillable, Fill!Refresh, Fill!Displayed
<1>3. Filled([Fill!Refresh(wd) EXCEPT !.dirty = FALSE])
  BY <1>1 DEF Filled, Fillable, Fill!Refresh, Fill!Displayed
<1> QED BY <1>2, <1>3 DEF Fill!Redraw

LEMMA FillInitial == Fill!Init => FillInv
<1> SUFFICES ASSUME Fill!Init PROVE FillInv
  OBVIOUS
<1>1. fieldKind \in Fill!Kinds /\ Fill!First \in Int
  BY DEF Fill!Init, Fill!First, Fill!Kinds, Fill!NoValue
<1>2. Choosable(Fill!First)
  <2>1. 0 = 0 * Step /\ 0 \in Fill!Options /\ 2 * (0 - Top) <= Step
    BY ScenesAssumption DEF ScenesAssumption, Fill!Options
  <2> QED BY <1>1, <2>1, ScenesAssumption DEF ScenesAssumption, Choosable, Fill!First, Fill!Kinds
<1> QED BY <1>1, <1>2 DEF FillInv, Filled, Fillable, Fill!Widget, Fill!Init

LEMMA FillPut ==
  ASSUME NEW wd, Filled(wd), fieldKind \in Fill!Kinds, Fill!Put(wd)
  PROVE  FillInv'
<1>1. fieldKind' = fieldKind
  BY DEF Fill!Put
<1>2. Fill!Widget' = wd
  BY DEF Fill!Put, Fill!Widget, Filled, Fillable
<1>3. Filled(wd)'
  BY <1>1 DEF Filled, Choosable, Fill!Displayed
<1> QED BY <1>1, <1>2, <1>3, Zenon DEF FillInv

\* What the player types or presses.
LEMMA InputUpdated ==
  ASSUME NEW wd, Filled(wd), fieldKind \in {"input", "textarea"}, NEW in \in Fill!Inputs
  PROVE  Filled(Fill!UpdateInput(wd, in)) /\ Filled(Fill!UpdateTextarea(wd, in))
<1> DEFINE faced == IF in.press = "none" THEN wd
                    ELSE [wd EXCEPT !.focused = (in.press = "in"), !.dirty = TRUE]
<1> DEFINE blinked == [faced EXCEPT !.dirty = @ \/ in.blink]
<1>1. wd \in Fillable /\ in.blink \in BOOLEAN
  BY DEF Filled, Fill!Inputs
<1>2. Filled(faced)
  <2>1. CASE in.press = "none"
    BY <2>1
  <2>2. CASE in.press # "none"
    <3>1. faced \in Fillable /\ faced.value = wd.value /\ faced.known = wd.known /\ faced.dirty
      BY <1>1, <2>2 DEF Fillable
    <3> QED BY <3>1, FillTouched
  <2> QED BY <2>1, <2>2
<1>3. faced \in Fillable
  BY <1>2 DEF Filled
<1> HIDE DEF faced
<1>4. Filled(blinked)
  BY <1>1, <1>2, <1>3 DEF Filled, Fillable, Fill!Displayed
<1>6. blinked \in Fillable
  BY <1>4 DEF Filled
<1>7. \A v \in Int : Choosable(v)
  BY DEF Choosable
<1> HIDE DEF blinked
<1>8. Filled(Fill!Refresh([blinked EXCEPT !.focused = FALSE]))
  BY <1>4, <1>6 DEF Filled, Fillable, Fill!Refresh, Fill!Displayed
<1>9. Filled([faced EXCEPT !.focused = FALSE, !.dirty = TRUE])
  BY <1>2, <1>3 DEF Filled, Fillable, Fill!Displayed
<1>10. \A lim : Fill!Typed(wd.value, in.key, lim) \in Int
  BY <1>1 DEF Fill!Typed, Fillable
<1>11. /\ Filled(Fill!Change(blinked, Fill!Typed(wd.value, in.key, MaxLen)))
       /\ Filled(Fill!Change(faced, Fill!Typed(wd.value, in.key, Top)))
  BY <1>2, <1>4, <1>7, <1>10, FillChanged
<1>12. Filled(Fill!UpdateInput(wd, in))
  BY <1>2, <1>4, <1>8, <1>11 DEF Fill!UpdateInput, faced, blinked
<1>13. Filled(Fill!UpdateTextarea(wd, in))
  BY <1>2, <1>9, <1>11 DEF Fill!UpdateTextarea, faced
<1> QED BY <1>12, <1>13

LEMMA NumberSet ==
  ASSUME NEW wd, Filled(wd), fieldKind = "number", NEW v \in Int
  PROVE  Filled(Fill!SetNumber(wd, v))
<1> DEFINE k == Fill!Clamp(v, 0, Top)
<1>1. k \in 0..Top /\ k \in Int
  BY ClampBetween, ScenesAssumption DEF ScenesAssumption
<1>2. Choosable(k)
  BY <1>1 DEF Choosable
<1>3. k # wd.value => Fill!SetNumber(wd, v) = [Fill!Change(wd, k) EXCEPT !.text = k]
  BY DEF Fill!SetNumber
<1>4. k = wd.value => Fill!SetNumber(wd, v) = wd
  BY DEF Fill!SetNumber
<1> HIDE DEF k
<1>5. Filled(Fill!Change(wd, k)) /\ Fill!Change(wd, k).dirty
  BY <1>1, <1>2, FillChanged DEF Filled, Fillable, Fill!Change
<1> DEFINE w2 == Fill!Change(wd, k)
<1>6. Filled(w2) /\ w2.dirty
  BY <1>5
<1> HIDE DEF w2
<1>7. Filled([w2 EXCEPT !.text = k])
  BY <1>1, <1>6 DEF Filled, Fillable, Fill!Displayed
<1> QED BY <1>3, <1>4, <1>7 DEF w2

LEMMA NumberUpdated ==
  ASSUME NEW wd, Filled(wd), fieldKind = "number", NEW in \in Fill!Inputs
  PROVE  Filled(Fill!UpdateNumber(wd, in))
<1> DEFINE faced == CASE in.press = "none" -> wd
                      [] in.press = "in" -> [wd EXCEPT !.focused = TRUE, !.text = wd.value,
                                                       !.dirty = TRUE]
                      [] in.press = "out" -> [wd EXCEPT !.focused = FALSE, !.dirty = TRUE]
<1> DEFINE typed == CASE in.key = "char" -> 10 * faced.text + 1
                      [] in.key = "backspace" -> faced.text \div 10
                      [] OTHER -> faced.text
<1> DEFINE taken == Fill!Clamp(typed, 0, Top)
<1>1. wd \in Fillable /\ in.blink \in BOOLEAN /\ in.press \in {"in", "out", "none"}
  BY DEF Filled, Fill!Inputs
<1>2. Filled(faced) /\ faced \in Fillable
  BY <1>1 DEF Filled, Fillable
<1> HIDE DEF faced
<1>3. typed \in Int
  BY <1>2 DEF Fillable
<1>4. taken \in 0..Top /\ taken \in Int
  BY <1>3, ClampBetween, ScenesAssumption DEF ScenesAssumption
<1>5. Choosable(taken)
  BY <1>4 DEF Choosable
<1>6. Filled(Fill!SetNumber(wd, wd.value - Step)) /\ Filled(Fill!SetNumber(wd, wd.value + Step))
  BY <1>1, NumberSet, ScenesAssumption DEF ScenesAssumption, Fillable
<1>7. Filled([faced EXCEPT !.text = typed, !.dirty = @ \/ in.blink \/ typed # faced.text])
  <2> DEFINE w2 == [faced EXCEPT !.text = typed, !.dirty = @ \/ in.blink \/ typed # faced.text]
  <2> HIDE DEF typed
  <2>1. w2 \in Fillable /\ w2.value = faced.value /\ w2.known = faced.known /\ w2.drawn = faced.drawn
        /\ w2.focused = faced.focused /\ w2.text = typed
        /\ (~w2.dirty => ~faced.dirty /\ typed = faced.text)
    BY <1>1, <1>2, <1>3 DEF Fillable
  <2> HIDE DEF w2
  <2>2. Filled(w2)
    BY <1>2, <2>1 DEF Filled, Fill!Displayed
  <2> QED BY <2>2 DEF w2
<1> HIDE DEF taken, typed
<1>8. Filled([Fill!Change(faced, taken) EXCEPT !.text = taken, !.focused = FALSE])
  <2> DEFINE w2 == Fill!Change(faced, taken)
  <2>1. Filled(w2) /\ w2.dirty
    BY <1>2, <1>4, <1>5, FillChanged DEF Filled, Fillable, Fill!Change
  <2> HIDE DEF w2
  <2>2. Filled([w2 EXCEPT !.text = taken, !.focused = FALSE])
    BY <1>4, <2>1 DEF Filled, Fillable, Fill!Displayed
  <2> QED BY <2>2 DEF w2
<1> DEFINE minus == in.press = "in" /\ in.at = Fill!NoValue
<1> DEFINE plus == in.press = "in" /\ in.at = 0
<1>9. Fill!UpdateNumber(wd, in) =
        CASE minus -> Fill!SetNumber(wd, wd.value - Step)
          [] plus -> Fill!SetNumber(wd, wd.value + Step)
          [] ~minus /\ ~plus /\ ~faced.focused -> faced
          [] ~minus /\ ~plus /\ faced.focused /\ in.key \in {"ok", "escape"} ->
               [Fill!Change(faced, taken) EXCEPT !.text = taken, !.focused = FALSE]
          [] OTHER -> [faced EXCEPT !.text = typed, !.dirty = @ \/ in.blink \/ typed # faced.text]
  BY DEF Fill!UpdateNumber, faced, typed, taken
<1>10. ~(minus /\ plus)
  BY DEF Fill!NoValue
<1> QED BY <1>2, <1>6, <1>7, <1>8, <1>9, <1>10

LEMMA SliderSet ==
  ASSUME NEW wd, Filled(wd), fieldKind = "slider", NEW v \in Int
  PROVE  Filled(Fill!SetSlider(wd, v))
<1> DEFINE c1 == Fill!Clamp(v, 0, Top)
<1> DEFINE k == (2 * c1 + Step) \div (2 * Step)
<1>1. c1 \in 0..Top
  BY ClampBetween, ScenesAssumption DEF ScenesAssumption
<1>2. Fill!SetSlider(wd, v) = IF k * Step = wd.value THEN wd ELSE Fill!Change(wd, k * Step)
  BY DEF Fill!SetSlider
<1> HIDE DEF c1
<1>3. k \in 0..Top /\ 2 * (k * Step - Top) <= Step
  BY <1>1, HalfStep
<1> HIDE DEF k
<1>4. k * Step \in Int
  BY <1>3, ScenesAssumption DEF ScenesAssumption
<1>5. Choosable(k * Step)
  BY <1>3 DEF Choosable, Fill!Options
<1> QED BY <1>2, <1>4, <1>5, FillChanged

LEMMA SliderUpdated ==
  ASSUME NEW wd, Filled(wd), fieldKind = "slider", NEW in \in Fill!Inputs
  PROVE  Filled(Fill!UpdateSlider(wd, in))
<1> DEFINE dragging == (wd.focused \/ in.press = "in") /\ in.at # Fill!NoValue
<1>1. Fill!UpdateSlider(wd, in) = IF dragging THEN Fill!SetSlider([wd EXCEPT !.focused = dragging], in.at)
                                  ELSE [wd EXCEPT !.focused = dragging]
  BY DEF Fill!UpdateSlider
<1>2. dragging \in BOOLEAN /\ in.at \in Int
  BY ScenesAssumption DEF ScenesAssumption, Fill!Inputs, Fill!NoValue
<1> HIDE DEF dragging
<1>3. Filled([wd EXCEPT !.focused = dragging])
  BY <1>2 DEF Filled, Fillable, Fill!Displayed
<1> QED BY <1>1, <1>2, <1>3, SliderSet

LEMMA SwitchUpdated ==
  ASSUME NEW wd, Filled(wd), fieldKind \in {"switch", "checkbox"}, NEW in, NEW v \in Int
  PROVE  /\ Filled(Fill!SetOn(wd, v)) /\ Filled(Fill!SetChecked(wd, v))
         /\ Filled(Fill!UpdateSwitch(wd, in)) /\ Filled(Fill!UpdateCheckbox(wd, in))
<1>1. \A x \in Int : Filled(Fill!Change(wd, x))
  BY FillChanged DEF Choosable
<1>2. 1 - wd.value \in Int
  BY DEF Filled, Fillable
<1> QED BY <1>1, <1>2 DEF Fill!SetOn, Fill!SetChecked, Fill!UpdateSwitch, Fill!UpdateCheckbox

LEMMA IndexSet ==
  ASSUME NEW wd, Filled(wd), fieldKind \in {"radio", "select", "tabs"}, NEW v \in Fill!Options
  PROVE  Filled(Fill!SelectIndex(wd, v)) /\ Filled(Fill!SetActiveTab(wd, v))
<1>1. Filled(Fill!Change(wd, v))
  BY FillChanged, ScenesAssumption DEF Choosable, Fill!Options, ScenesAssumption
<1> QED BY <1>1 DEF Fill!SelectIndex, Fill!SetActiveTab

LEMMA IndexUpdated ==
  ASSUME NEW wd, Filled(wd), NEW in \in Fill!Inputs
  PROVE  /\ fieldKind = "radio" => Filled(Fill!UpdateRadio(wd, in))
         /\ fieldKind = "select" => Filled(Fill!UpdateSelect(wd, in))
         /\ fieldKind = "tabs" => Filled(Fill!UpdateTabs(wd, in))
<1>1. wd \in Fillable
  BY DEF Filled
<1>2. in.at # Fill!NoValue => in.at \in Fill!Options /\ Fill!Least(in.at, Top) \in Fill!Options
  BY ScenesAssumption DEF ScenesAssumption, Fill!Inputs, Fill!NoValue, Fill!Options, Fill!Least
<1>3. ASSUME fieldKind = "radio" PROVE Filled(Fill!UpdateRadio(wd, in))
  BY <1>2, <1>3, IndexSet DEF Fill!UpdateRadio
<1>4. ASSUME fieldKind = "tabs" PROVE Filled(Fill!UpdateTabs(wd, in))
  BY <1>2, <1>4, IndexSet DEF Fill!UpdateTabs
<1>5. ASSUME fieldKind = "select" PROVE Filled(Fill!UpdateSelect(wd, in))
  <2>1. Filled([wd EXCEPT !.focused = ~@, !.dirty = TRUE])
    BY <1>1, FillTouched DEF Fillable
  <2>2. Filled([wd EXCEPT !.focused = FALSE, !.dirty = TRUE])
    BY <1>1, FillTouched DEF Fillable
  <2>3. in.at # Fill!NoValue =>
          Filled([Fill!SelectIndex(wd, in.at) EXCEPT !.focused = FALSE, !.dirty = TRUE])
    <3> DEFINE w2 == Fill!SelectIndex(wd, in.at)
    <3>1. in.at # Fill!NoValue => Filled(w2)
      BY <1>2, <1>5, IndexSet
    <3> HIDE DEF w2
    <3>2. Filled(w2) => [w2 EXCEPT !.focused = FALSE, !.dirty = TRUE] \in Fillable
      BY DEF Filled, Fillable
    <3>3. Filled(w2) => Filled([w2 EXCEPT !.focused = FALSE, !.dirty = TRUE])
      BY <3>2, FillTouched DEF Filled, Fillable
    <3> QED BY <3>1, <3>3 DEF w2
  <2>4. ~(in.press = "in" /\ in.press = "out")
    OBVIOUS
  <2> QED BY <2>1, <2>2, <2>3, <2>4 DEF Fill!UpdateSelect
<1> QED BY <1>3, <1>4, <1>5

LEMMA PageSet ==
  ASSUME NEW wd, Filled(wd), NEW v \in Int
  PROVE  /\ fieldKind = "pages" => Filled(Fill!SetPage(wd, v))
         /\ fieldKind = "steps" => Filled(Fill!SetCurrent(wd, v))
<1>1. Fill!Clamp(v, 1, Top) \in 1..Top /\ Fill!Clamp(v, 0, Top) \in 0..Top
  <2>1. 1 <= Top /\ 0 <= Top /\ 1 \in Int /\ 0 \in Int
    BY ScenesAssumption DEF ScenesAssumption
  <2> QED BY <2>1, ClampBetween
<1>2. fieldKind = "pages" => Choosable(Fill!Clamp(v, 1, Top))
  BY <1>1 DEF Choosable
<1>3. fieldKind = "steps" => Choosable(Fill!Clamp(v, 0, Top))
  BY <1>1 DEF Choosable
<1>4. Fill!Clamp(v, 1, Top) \in Int /\ Fill!Clamp(v, 0, Top) \in Int
  BY <1>1
<1> QED BY <1>2, <1>3, <1>4, FillChanged DEF Fill!SetPage, Fill!SetCurrent

LEMMA PagesUpdated ==
  ASSUME NEW wd, Filled(wd), fieldKind = "pages", NEW in \in Fill!Inputs
  PROVE  Filled(Fill!UpdatePages(wd, in))
<1>1. in.at \in Int /\ wd.value \in Int /\ wd.value - 1 \in Int /\ wd.value + 1 \in Int
  BY ScenesAssumption DEF ScenesAssumption, Fill!Inputs, Fill!NoValue, Filled, Fillable
<1>2. \A v \in Int : Filled(Fill!SetPage(wd, v))
  BY PageSet
<1> QED BY <1>1, <1>2 DEF Fill!UpdatePages, Fill!NoValue

LEMMA FillStep == FillInv /\ [Fill!Next]_e => FillInv'
<1> SUFFICES ASSUME FillInv, [Fill!Next]_e PROVE FillInv'
  OBVIOUS
<1>1. CASE UNCHANGED e
  BY <1>1 DEF e, FillInv, Filled, Choosable, Fill!Displayed, Fill!Widget
<1>2. ASSUME NEW in \in Fill!Inputs, Fill!Update(in) PROVE FillInv'
  <2> DEFINE wd == Fill!Redraw(Fill!Widget)
  <2>1. Filled(wd) /\ fieldKind \in Fill!Kinds
    BY FillRefreshed DEF FillInv
  <2>2. Fill!Put(CASE fieldKind = "input" -> Fill!UpdateInput(wd, in)
        [] fieldKind = "textarea" -> Fill!UpdateTextarea(wd, in)
        [] fieldKind = "number" -> Fill!UpdateNumber(wd, in)
        [] fieldKind = "slider" -> Fill!UpdateSlider(wd, in)
        [] fieldKind = "switch" -> Fill!UpdateSwitch(wd, in)
        [] fieldKind = "checkbox" -> Fill!UpdateCheckbox(wd, in)
        [] fieldKind = "radio" -> Fill!UpdateRadio(wd, in)
        [] fieldKind = "select" -> Fill!UpdateSelect(wd, in)
        [] fieldKind = "tabs" -> Fill!UpdateTabs(wd, in)
        [] fieldKind = "steps" -> wd
        [] fieldKind = "pages" -> Fill!UpdatePages(wd, in))
    BY <1>2 DEF Fill!Update
  <2> HIDE DEF wd
  <2>3. CASE fieldKind \in {"input", "textarea"}
    BY <2>1, <2>2, <2>3, InputUpdated, FillPut
  <2>4. CASE fieldKind = "number"
    BY <2>1, <2>2, <2>4, NumberUpdated, FillPut
  <2>5. CASE fieldKind = "slider"
    BY <2>1, <2>2, <2>5, SliderUpdated, FillPut
  <2>6. CASE fieldKind \in {"switch", "checkbox"}
    BY <2>1, <2>2, <2>6, SwitchUpdated, FillPut
  <2>7. CASE fieldKind \in {"radio", "select", "tabs"}
    BY <2>1, <2>2, <2>7, IndexUpdated, FillPut
  <2>8. CASE fieldKind = "steps"
    BY <2>1, <2>2, <2>8, FillPut
  <2>9. CASE fieldKind = "pages"
    BY <2>1, <2>2, <2>9, PagesUpdated, FillPut
  <2> QED BY <2>1, <2>3, <2>4, <2>5, <2>6, <2>7, <2>8, <2>9 DEF Fill!Kinds
<1>3. ASSUME NEW v \in Fill!Options, Fill!SetBy(v) PROVE FillInv'
  <2> DEFINE wd == Fill!Widget
  <2>1. Filled(wd) /\ wd \in Fillable /\ fieldKind \in Fill!Kinds /\ v \in Int
    BY ScenesAssumption DEF FillInv, Filled, Fill!Options, ScenesAssumption
  <2>2. Fill!Put(CASE fieldKind \in {"input", "textarea"} -> Fill!SetText(wd, v)
        [] fieldKind = "number" -> Fill!SetNumber(wd, v)
        [] fieldKind = "slider" -> Fill!SetSlider(wd, v)
        [] fieldKind = "switch" -> Fill!SetOn(wd, Fill!Clamp(v, 0, 1))
        [] fieldKind = "checkbox" -> Fill!SetChecked(wd, Fill!Clamp(v, 0, 1))
        [] fieldKind \in {"radio", "select"} -> Fill!SelectIndex(wd, v)
        [] fieldKind = "tabs" -> Fill!SetActiveTab(wd, v)
        [] fieldKind = "steps" -> Fill!SetCurrent(wd, v)
        [] fieldKind = "pages" -> Fill!SetPage(wd, v))
    BY <1>3 DEF Fill!SetBy
  <2> HIDE DEF wd
  <2>3. CASE fieldKind \in {"input", "textarea"}
    <3>1. Filled(Fill!SetText(wd, v))
      BY <2>1, <2>3 DEF Fill!SetText, Filled, Fillable, Choosable
    <3> QED BY <2>1, <2>2, <2>3, <3>1, FillPut
  <2>4. CASE fieldKind = "number"
    BY <2>1, <2>2, <2>4, NumberSet, FillPut
  <2>5. CASE fieldKind = "slider"
    BY <2>1, <2>2, <2>5, SliderSet, FillPut
  <2>6. CASE fieldKind \in {"switch", "checkbox"}
    <3>1. Fill!Clamp(v, 0, 1) \in Int
      BY <2>1 DEF Fill!Clamp, Fill!Most, Fill!Least
    <3> QED BY <2>1, <2>2, <2>6, <3>1, SwitchUpdated, FillPut
  <2>7. CASE fieldKind \in {"radio", "select", "tabs"}
    BY <2>1, <2>2, <2>7, IndexSet, FillPut
  <2>8. CASE fieldKind \in {"steps", "pages"}
    BY <2>1, <2>2, <2>8, PageSet, FillPut
  <2> QED BY <2>1, <2>3, <2>4, <2>5, <2>6, <2>7, <2>8 DEF Fill!Kinds
<1> QED BY <1>1, <1>2, <1>3 DEF Fill!Next

LEMMA FillShown == FillInv => Fill!InStep
BY DEF FillInv, Filled, Choosable, Fill!InStep, Fill!Widget

-----------------------------------------------------------------------------
(* The forms before the game *)

\* In whichever scene: what is not of it is drawn as a new scene would find it.
FormInv ==
  /\ formScene \in DOMAIN Form!Own
  /\ inputs = Form!Own[formScene]
  /\ buttons = [x \in Faces |-> Form!FaceBtn(x, face, ready)]
  /\ preview \in {face, Form!NoFace}
  /\ \A i \in DOMAIN cards : cards[i] = Form!Card(i, chars, chosen, ready)
  /\ chars # <<>> => panel.who = chosen

LEMMA FormInitial == Form!Init => FormInv
<1> SUFFICES ASSUME Form!Init PROVE FormInv
  OBVIOUS
<1> USE DEF Form!Init, Form!NoFace, Form!NoPanel
<1>1. formScene \in DOMAIN Form!Own /\ inputs = Form!Own[formScene]
  BY DEF Form!Own
<1>2. buttons = [x \in Faces |-> Form!FaceBtn(x, face, ready)]
  OBVIOUS
<1> QED BY <1>1, <1>2 DEF FormInv

LEMMA FormOpened ==
  ASSUME FormInv, NEW s \in DOMAIN Form!Own, Form!Enter(s)
  PROVE  FormInv'
<1>1. formScene' = s /\ face' = 1 /\ chars' = <<>> /\ cards' = <<>> /\ chosen' = 0 /\ ready' = ready
  BY DEF Form!Enter
<1>2. inputs' = Form!Own[s]
  BY DEF Form!Enter, FormInv, Form!Cleanup
<1>3. buttons' = [x \in Faces |-> Form!FaceBtn(x, 1, ready)]
  BY DEF Form!Enter
<1>4. preview' \in {1, Form!NoFace}
  BY DEF Form!Enter, Form!Preview
<1>5. Form!Own' = Form!Own
  BY DEF Form!Own
<1> QED BY <1>1, <1>2, <1>3, <1>4, <1>5 DEF FormInv, Form!FaceBtn

\* A step that leaves the scene and its page alone.
LEMMA FormStays ==
  ASSUME FormInv, UNCHANGED <<formScene, inputs, face, ready, buttons, preview, chars, chosen, cards, panel>>
  PROVE  FormInv'
BY DEF FormInv, Form!FaceBtn, Form!Card

LEMMA FormListed ==
  ASSUME FormInv, UNCHANGED <<formScene, inputs, face, ready, buttons, preview>>,
         \A i \in DOMAIN cards' : cards'[i] = Form!Card(i, chars', chosen', ready),
         chars' # <<>> => panel'.who = chosen'
  PROVE  FormInv'
BY DEF FormInv, Form!FaceBtn, Form!Card

LEMMA FormMade ==
  ASSUME FormInv, UNCHANGED <<formScene, inputs, ready, chars, chosen, cards, panel>>,
         buttons' = [x \in Faces |-> Form!FaceBtn(x, face', ready)],
         preview' \in {face', Form!NoFace}
  PROVE  FormInv'
BY DEF FormInv, Form!FaceBtn, Form!Card

LEMMA FormStep == FormInv /\ [Form!Next]_a => FormInv'
<1> SUFFICES ASSUME FormInv, [Form!Next]_a PROVE FormInv'
  OBVIOUS
<1> USE DEF Form!page, Form!making, Form!listing
<1>1. CASE UNCHANGED a
  BY <1>1, FormStays DEF a
<1>2. ASSUME \/ Form!FocusTimer
             \/ \E x \in Form!Elements : Form!Focus(x) \/ Form!Type(filled \union {x}) \/ Form!Type(filled \ {x})
             \/ \E kd : Form!Ask(kd)
             \/ Form!Focus("pass")
             \/ \E rq \in requests : Form!Refuse(rq)
      PROVE FormInv'
  BY <1>2, FormStays DEF Form!FocusTimer, Form!Focus, Form!Type, Form!Ask, Form!Refuse
<1>3. ASSUME NEW rq \in requests, Form!Answer(rq) PROVE FormInv'
  BY <1>3, FormOpened DEF Form!Answer, Form!Goto, Form!Own
<1>4. ASSUME NEW s \in DOMAIN Form!Own, Form!Leave(s) PROVE FormInv'
  BY <1>4, FormOpened DEF Form!Leave, Form!Goto
<1>5. ASSUME NEW rq \in requests, NEW cs \in Form!Chars, Form!Listed(rq, cs) PROVE FormInv'
  <2>1. CASE rq.of = gen
    <3> DEFINE k == IF cs = <<>> THEN 0 ELSE 1
    <3>1. /\ chars' = cs /\ chosen' = k
          /\ cards' = [i \in 1..Len(cs) |-> Form!Card(i, cs, k, ready)]
          /\ panel' = IF cs = <<>> THEN Form!NoPanel ELSE Form!Panel(cs, k)
          /\ UNCHANGED <<formScene, inputs, face, ready, buttons, preview>>
      BY <1>5, <2>1 DEF Form!Listed
    <3> HIDE DEF k
    <3>2. chars' # <<>> => panel'.who = chosen'
      BY <3>1 DEF Form!Panel
    <3> QED BY <3>1, <3>2, FormListed
  <2>2. CASE rq.of # gen
    BY <1>5, <2>2, FormStays DEF Form!Listed
  <2> QED BY <2>1, <2>2
<1>6. ASSUME NEW x \in Faces, Form!Load(x) PROVE FormInv'
  <2>1. /\ ready' = ready \union {x} /\ x \notin ready
        /\ buttons' = [buttons EXCEPT ![x] = Form!FaceBtn(x, face, ready')]
        /\ cards' = [i \in DOMAIN cards |->
                 IF chars[i].look = x THEN Form!Card(i, chars, chosen, ready') ELSE cards[i]]
        /\ UNCHANGED <<formScene, inputs, face, preview, chars, chosen, panel>>
    BY <1>6 DEF Form!Load
  <2>2. \A x1 \in Faces : x1 # x => Form!FaceBtn(x1, face, ready) = Form!FaceBtn(x1, face, ready')
    BY <2>1 DEF Form!FaceBtn
  <2>3. buttons' = [x1 \in Faces |-> Form!FaceBtn(x1, face, ready')]
    BY <2>1, <2>2 DEF FormInv
  <2>4. \A i \in DOMAIN cards : chars[i].look # x => Form!Card(i, chars, chosen, ready) = Form!Card(i, chars, chosen, ready')
    BY <2>1 DEF Form!Card
  <2>5. \A i \in DOMAIN cards' : cards'[i] = Form!Card(i, chars, chosen, ready')
    BY <2>1, <2>4 DEF FormInv
  <2> QED BY <2>1, <2>3, <2>5 DEF FormInv, Form!FaceBtn, Form!Card
<1>7. ASSUME NEW x \in Faces, Form!Hover(x) PROVE FormInv'
  <2>1. UNCHANGED <<formScene, inputs, face, ready, preview, chars, chosen, panel>>
    BY <1>7 DEF Form!Hover
  <2>2. CASE buttons' = [buttons EXCEPT ![x] = Form!FaceBtn(x, face, ready)] /\ UNCHANGED cards
    <3>1. buttons' = buttons
      BY <2>2 DEF FormInv
    <3> QED BY <2>1, <2>2, <3>1, FormStays
  <2>3. CASE x \in DOMAIN cards /\ cards' = [cards EXCEPT ![x] = Form!Card(x, chars, chosen, ready)] /\ UNCHANGED buttons
    <3>1. \A i \in DOMAIN cards' : cards'[i] = Form!Card(i, chars, chosen, ready)
      BY <2>3 DEF FormInv
    <3>2. chars' # <<>> => panel'.who = chosen'
      BY <2>1 DEF FormInv
    <3> QED BY <2>1, <2>3, <3>1, <3>2, FormListed
  <2> QED BY <1>7, <2>2, <2>3 DEF Form!Hover
<1>8. ASSUME NEW x, Form!SelectCard(x) PROVE FormInv'
  <2>1. /\ x \in DOMAIN cards /\ x # chosen /\ chosen' = x
        /\ cards' = [c1 \in DOMAIN cards |->
                 IF c1 \in {chosen, x} THEN Form!Card(c1, chars, x, ready) ELSE cards[c1]]
        /\ panel' = Form!Panel(chars, x)
        /\ UNCHANGED <<formScene, inputs, face, ready, buttons, preview, chars>>
    BY <1>8 DEF Form!SelectCard
  <2>2. \A c1 \in DOMAIN cards : c1 \notin {chosen, x} =>
          Form!Card(c1, chars, chosen, ready) = Form!Card(c1, chars, x, ready)
    BY DEF Form!Card
  <2>3. \A i \in DOMAIN cards' : cards'[i] = Form!Card(i, chars', chosen', ready)
    BY <2>1, <2>2 DEF FormInv
  <2>4. panel'.who = chosen'
    BY <2>1 DEF Form!Panel
  <2> QED BY <2>1, <2>3, <2>4, FormListed
<1>9. ASSUME NEW x, NEW op, NEW box, Form!PressCreate(x, op, box) PROVE FormInv'
  <2>1. UNCHANGED <<formScene, inputs, ready, chars, chosen, cards, panel>>
    BY <1>9 DEF Form!PressCreate
  <2>2. CASE x = Form!NoFace
    BY <1>9, <2>1, <2>2, FormStays DEF Form!PressCreate
  <2>3. CASE x # Form!NoFace
    <3>1. /\ face' = x /\ preview' = Form!Preview(x, ready)
          /\ buttons' = [x1 \in Faces |-> IF x1 \in {face, x} THEN Form!FaceBtn(x1, x, ready) ELSE buttons[x1]]
      BY <1>9, <2>3 DEF Form!PressCreate, Form!SelectFace
    <3>2. \A x1 \in Faces : x1 \notin {face, x} => Form!FaceBtn(x1, face, ready) = Form!FaceBtn(x1, x, ready)
      BY DEF Form!FaceBtn
    <3>3. buttons' = [x1 \in Faces |-> Form!FaceBtn(x1, x, ready)]
      BY <3>1, <3>2 DEF FormInv
    <3>4. preview' \in {x, Form!NoFace}
      BY <3>1 DEF Form!Preview
    <3> QED BY <2>1, <3>1, <3>3, <3>4, FormMade
  <2> QED BY <2>2, <2>3
<1> QED BY <1>1, <1>2, <1>3, <1>4, <1>5, <1>6, <1>7, <1>8, <1>9 DEF Form!Next

LEMMA FormShown == FormInv => Form!DrawnAsChosen
BY DEF FormInv, Form!DrawnAsChosen

-----------------------------------------------------------------------------
(* A widget the player picks from *)

\* What an item is of, and where the offset may be.
ListPlaced ==
  /\ listKind = "tree" => items = List!Flat(expanded) /\ selected = List!NoIndex
  /\ listKind # "tree" =>
       /\ items \in Seq(List!Items) /\ scroll \in Nat
       /\ selected \in {List!NoIndex} \union (0..Len(items) - 1)
  /\ listKind \in {"list", "table"} => scroll \in 0..List!MaxScroll(items)

ListInv ==
  /\ listKind \in List!Kinds
  /\ picked = aimed
  /\ ~listDirty => listDrawn = List!Drawing(items, scroll, expanded)
  /\ ListPlaced

\* What stands in a row.
LEMMA ListRow ==
  ASSUME NEW r \in List!Rows, NEW s, NEW off, NEW op
  PROVE  /\ listKind \in {"list", "table", "tree", "menu"} =>
              List!Drawing(s, off, op)[r] = List!At(s, r + off + 1)
         /\ listKind = "dropdown" /\ op # {} => List!Drawing(s, off, op)[r] = List!At(s, r + 1)
         /\ listKind = "collapse" => List!Drawing(s, off, op)[r] = List!At(List!Panels(s, op), r + 1)
         /\ listKind = "breadcrumb" => List!Drawing(s, off, op)[r] = List!At(s, r + 1)
BY DEF List!Drawing

\* Before the widget looks at the pointer its rows show what it holds.
LEMMA ListRedrawn == ListInv => List!Redrawn = List!Drawing(items, scroll, expanded)
BY DEF ListInv, List!Redrawn

LEMMA ListDrawn ==
  ASSUME UNCHANGED listKind, listDrawn' = List!Drawing(items', scroll', expanded')
  PROVE  (listDrawn = List!Drawing(items, scroll, expanded))'
BY DEF List!Drawing, List!At

\* The wheel keeps the offset between the first row and the last screenful.
LEMMA ListScrolled ==
  ASSUME items \in Seq(List!Items), scroll \in Nat, NEW wheel \in {-1, 0, 1}
  PROVE  /\ List!MaxScroll(items) \in Nat
         /\ List!Scrolled(wheel) \in 0..List!MaxScroll(items)
         /\ scroll \in 0..List!MaxScroll(items) => List!Scrolled(0) = scroll
<1>1. Len(items) \in Nat
  OBVIOUS
<1>2. List!MaxScroll(items) \in Nat
  BY <1>1, ScenesAssumption DEF List!MaxScroll, ScenesAssumption
<1> QED BY <1>2 DEF List!Scrolled

LEMMA ListInitial == List!Init => ListInv
<1> SUFFICES ASSUME List!Init PROVE ListInv
  OBVIOUS
<1>1. /\ listKind \in List!Kinds /\ picked = Blank /\ aimed = Blank /\ listDirty = TRUE
      /\ items = (IF listKind = "tree" THEN List!Flat({}) ELSE <<>>)
      /\ expanded = {} /\ scroll = 0 /\ selected = List!NoIndex
  BY DEF List!Init
<1>2. List!MaxScroll(<<>>) = 0
  BY ScenesAssumption DEF List!MaxScroll, ScenesAssumption
<1>3. <<>> \in Seq(List!Items)
  OBVIOUS
<1>4. listKind \in {"list", "table"} => scroll \in 0..List!MaxScroll(items)
  BY <1>1, <1>2
<1> QED BY <1>1, <1>3, <1>4 DEF ListInv, ListPlaced

\* A row of a list, a table or a menu is picked, or none is.
LEMMA ListPicked ==
  ASSUME ListInv, listKind \in {"list", "table", "menu"}, NEW row \in List!Rows, NEW press,
         LET index == row + scroll + 1
             hit == press /\ index <= Len(items)
         IN /\ selected' = IF hit THEN index - 1 ELSE selected
            /\ IF hit THEN List!Tell(items[index], row, List!Redrawn) ELSE UNCHANGED <<picked, aimed>>
  PROVE  picked' = aimed' /\ selected' \in {List!NoIndex} \union (0..Len(items) - 1)
<1> DEFINE index == row + scroll + 1
<1> DEFINE hit == press /\ index <= Len(items)
<1>1. items \in Seq(List!Items) /\ scroll \in Nat /\ selected \in {List!NoIndex} \union (0..Len(items) - 1)
  BY DEF ListInv, ListPlaced
<1>2. row \in Nat
  BY ScenesAssumption DEF List!Rows, ScenesAssumption
<1>3. CASE hit
  <2>1. index \in 1..Len(items)
    BY <1>1, <1>2, <1>3
  <2>2. List!Redrawn[row] = List!At(items, index)
    BY ListRow, ListRedrawn
  <2>3. List!Redrawn[row] = items[index]
    BY <2>1, <2>2 DEF List!At
  <2>4. picked' = items[index] /\ aimed' = List!Redrawn[row] /\ selected' = index - 1
    BY <1>3 DEF List!Tell
  <2> QED BY <1>1, <2>1, <2>3, <2>4
<1>4. CASE ~hit
  BY <1>1, <1>4 DEF ListInv
<1> QED BY <1>3, <1>4

LEMMA ListRowStep ==
  ASSUME ListInv, listKind \in {"list", "table"}, NEW row \in List!Rows, NEW press, NEW wheel \in {-1, 0, 1},
         List!PickRow(row, press, wheel)
  PROVE  ListInv'
<1>1. /\ UNCHANGED <<listKind, items, expanded>> /\ scroll' = List!Scrolled(wheel)
      /\ listDrawn' = List!Redrawn /\ (~listDirty' => wheel = 0)
  BY DEF List!PickRow
<1>2. picked' = aimed' /\ selected' \in {List!NoIndex} \union (0..Len(items) - 1)
  BY ListPicked DEF List!PickRow
<1>3. items \in Seq(List!Items) /\ scroll \in Nat /\ scroll \in 0..List!MaxScroll(items)
  BY DEF ListInv, ListPlaced
<1>4. scroll' \in 0..List!MaxScroll(items) /\ List!MaxScroll(items) \in Nat /\ (~listDirty' => scroll' = scroll)
  BY <1>1, <1>3, ListScrolled
<1>5. ~listDirty' => (listDrawn = List!Drawing(items, scroll, expanded))'
  BY <1>1, <1>4, ListRedrawn, ListDrawn
<1>6. List!MaxScroll(items)' = List!MaxScroll(items)
  BY <1>1 DEF List!MaxScroll
<1> QED BY <1>1, <1>2, <1>3, <1>4, <1>5, <1>6 DEF ListInv, ListPlaced

LEMMA ListMenuStep ==
  ASSUME ListInv, NEW row \in List!Rows, NEW press, NEW wheel \in {-1, 0, 1}, List!UpdateMenu(row, press, wheel)
  PROVE  ListInv'
<1>1. /\ UNCHANGED <<listKind, items, expanded>> /\ listKind = "menu"
      /\ scroll' \in {scroll, List!Scrolled(wheel)} /\ listDrawn' = List!Redrawn
      /\ ~listDirty' => scroll' = scroll
  BY DEF List!UpdateMenu
<1>2. picked' = aimed' /\ selected' \in {List!NoIndex} \union (0..Len(items) - 1)
  BY ListPicked DEF List!UpdateMenu
<1>3. items \in Seq(List!Items) /\ scroll \in Nat
  BY <1>1 DEF ListInv, ListPlaced
<1>4. scroll' \in Nat
  BY <1>1, <1>3, ListScrolled
<1>5. ~listDirty' => (listDrawn = List!Drawing(items, scroll, expanded))'
  BY <1>1, ListRedrawn, ListDrawn
<1> QED BY <1>1, <1>2, <1>3, <1>4, <1>5 DEF ListInv, ListPlaced

LEMMA ListTreeStep ==
  ASSUME ListInv, NEW row \in List!Rows, NEW press, NEW wheel, List!UpdateTree(row, press, wheel)
  PROVE  ListInv'
<1> DEFINE offset == IF wheel # 0 THEN List!Scrolled(wheel) ELSE scroll
<1> DEFINE rows == IF wheel # 0 THEN List!Drawing(items, offset, expanded) ELSE List!Redrawn
<1> DEFINE index == row + offset + 1
<1> DEFINE hit == press /\ index <= Len(items)
<1>1. /\ listKind = "tree" /\ scroll' = offset /\ items' = List!Flat(expanded')
      /\ IF hit THEN List!Tell(List!At(items, index), row, rows) ELSE UNCHANGED <<picked, aimed>>
      /\ listDrawn' = rows /\ listDirty' = hit /\ UNCHANGED <<listKind, selected>>
      /\ ~hit => expanded' = expanded
  BY DEF List!UpdateTree
<1>2. items = List!Flat(expanded) /\ selected = List!NoIndex
  BY <1>1 DEF ListInv, ListPlaced
<1>3. rows = List!Drawing(items, offset, expanded)
  BY ListRedrawn
<1> HIDE DEF offset, rows, hit
<1>4. rows[row] = List!At(items, index)
  BY <1>1, <1>3, ListRow
<1>5. picked' = aimed'
  BY <1>1, <1>4 DEF List!Tell, ListInv
<1>6. ~hit => items' = items /\ expanded' = expanded
  BY <1>1, <1>2
<1>7. ~listDirty' => (listDrawn = List!Drawing(items, scroll, expanded))'
  BY <1>1, <1>3, <1>6, ListDrawn
<1> QED BY <1>1, <1>2, <1>5, <1>7 DEF ListInv, ListPlaced

LEMMA ListOpenStep ==
  ASSUME ListInv, NEW row \in List!Rows \union {List!NoIndex}, NEW press,
         \/ List!UpdateDropdown(row, press)
         \/ row \in List!Rows /\ \E acc \in BOOLEAN : List!UpdateCollapse(row, press, acc)
         \/ row \in List!Rows /\ List!UpdateBreadcrumb(row, press)
  PROVE  ListInv'
<1>1. UNCHANGED <<listKind, items, scroll, selected>> /\ listKind \in {"dropdown", "collapse", "breadcrumb"}
  BY DEF List!UpdateDropdown, List!UpdateCollapse, List!UpdateBreadcrumb
<1>2. ListPlaced'
  BY <1>1 DEF ListInv, ListPlaced
<1>3. items \in Seq(List!Items) /\ List!Redrawn = List!Drawing(items, scroll, expanded)
  BY <1>1, ListRedrawn DEF ListInv, ListPlaced
<1>4. SUFFICES picked' = aimed' /\ (~listDirty' => (listDrawn = List!Drawing(items, scroll, expanded))')
  BY <1>1, <1>2 DEF ListInv
<1>5. CASE List!UpdateDropdown(row, press)
  <2>1. listKind = "dropdown"
    BY <1>5 DEF List!UpdateDropdown
  <2>2. picked' = aimed'
    <3>1. CASE press /\ expanded # {} /\ row >= 0 /\ row + 1 <= Len(items)
      <4>1. picked' = items[row + 1] /\ aimed' = List!Redrawn[row]
        BY <1>5, <3>1 DEF List!UpdateDropdown, List!Tell
      <4>2. row \in List!Rows
        BY <3>1 DEF List!NoIndex
      <4>3. List!Redrawn[row] = List!At(items, row + 1)
        BY <1>3, <2>1, <3>1, <4>2, ListRow
      <4>4. row + 1 \in 1..Len(items)
        BY <1>3, <3>1, <4>2, ScenesAssumption DEF List!Rows, ScenesAssumption
      <4> QED BY <4>1, <4>3, <4>4 DEF List!At
    <3>2. CASE ~(press /\ expanded # {} /\ row >= 0 /\ row + 1 <= Len(items))
      BY <1>5, <3>2 DEF List!UpdateDropdown, ListInv
    <3> QED BY <3>1, <3>2
  <2>3. List!Drawing(items, 0, expanded') = List!Drawing(items, scroll, expanded')
    BY <2>1 DEF List!Drawing
  <2>4. listDrawn' = List!Drawing(items', scroll', expanded')
    BY <1>1, <1>3, <1>5, <2>3 DEF List!UpdateDropdown
  <2> QED BY <1>1, <2>2, <2>4, ListDrawn
<1>6. ASSUME row \in List!Rows, NEW acc \in BOOLEAN, List!UpdateCollapse(row, press, acc)
      PROVE  picked' = aimed' /\ (~listDirty' => (listDrawn = List!Drawing(items, scroll, expanded))')
  <2>1. List!Redrawn[row] = List!At(List!Panels(items, expanded), row + 1)
    BY <1>3, <1>6, ListRow DEF List!UpdateCollapse
  <2>2. picked' = aimed'
    BY <1>6, <2>1 DEF List!UpdateCollapse, List!Tell, ListInv
  <2>3. ~listDirty' => listDrawn' = List!Drawing(items', scroll', expanded')
    BY <1>1, <1>3, <1>6 DEF List!UpdateCollapse
  <2> QED BY <1>1, <2>2, <2>3, ListDrawn
<1>7. ASSUME row \in List!Rows, List!UpdateBreadcrumb(row, press)
      PROVE  picked' = aimed' /\ (~listDirty' => (listDrawn = List!Drawing(items, scroll, expanded))')
  <2>1. List!Redrawn[row] = List!At(items, row + 1)
    BY <1>3, <1>7, ListRow DEF List!UpdateBreadcrumb
  <2>2. row + 1 < Len(items) => row + 1 \in 1..Len(items)
    BY <1>3, <1>7, ScenesAssumption DEF List!Rows, ScenesAssumption
  <2>3. picked' = aimed'
    BY <1>7, <2>1, <2>2 DEF List!UpdateBreadcrumb, List!Tell, List!At, ListInv
  <2>4. listDrawn' = List!Drawing(items', scroll', expanded')
    BY <1>1, <1>3, <1>7 DEF List!UpdateBreadcrumb
  <2> QED BY <1>1, <2>3, <2>4, ListDrawn
<1> QED BY <1>5, <1>6, <1>7

LEMMA ListSetStep ==
  ASSUME ListInv, NEW s \in Seq(List!Items), List!SetItems(s)
  PROVE  ListInv'
<1>1. /\ listKind # "tree" /\ items' = s /\ scroll' = (IF listKind = "menu" THEN scroll ELSE 0)
      /\ selected' = List!NoIndex /\ listDirty' = TRUE /\ UNCHANGED <<listKind, picked, aimed>>
  BY DEF List!SetItems
<1>2. scroll' \in Nat /\ (listKind # "menu" => scroll' = 0)
  BY <1>1 DEF ListInv, ListPlaced
<1>3. List!MaxScroll(items)' = List!MaxScroll(s)
  BY <1>1 DEF List!MaxScroll
<1>4. List!MaxScroll(s) \in Nat
  BY ScenesAssumption DEF List!MaxScroll, ScenesAssumption
<1>5. listKind \in {"list", "table"} => scroll' \in 0..List!MaxScroll(items)'
  BY <1>2, <1>3, <1>4
<1> QED BY <1>1, <1>2, <1>5 DEF ListInv, ListPlaced

LEMMA ListStep == ListInv /\ [List!Next]_l => ListInv'
<1> SUFFICES ASSUME ListInv, [List!Next]_l PROVE ListInv'
  OBVIOUS
<1>1. CASE UNCHANGED l
  <2>1. UNCHANGED <<listKind, items, scroll, selected, expanded, listDirty, listDrawn, picked, aimed>>
    BY <1>1 DEF l
  <2>2. ~listDirty' => (listDrawn = List!Drawing(items, scroll, expanded))'
    BY <2>1, ListDrawn DEF ListInv
  <2>3. ListPlaced'
    BY <2>1 DEF ListInv, ListPlaced, List!MaxScroll
  <2> QED BY <2>1, <2>2, <2>3 DEF ListInv
<1>2. ASSUME List!Frame PROVE ListInv'
  <2>1. PICK row \in List!Rows \union {List!NoIndex}, press \in BOOLEAN, wheel \in {-1, 0, 1} :
          \/ row \in List!Rows /\ (\/ List!UpdateList(row, press, wheel) \/ List!UpdateTable(row, press, wheel)
                                   \/ List!UpdateMenu(row, press, wheel) \/ List!UpdateTree(row, press, wheel))
          \/ List!UpdateDropdown(row, press)
          \/ row \in List!Rows /\ \E acc \in BOOLEAN : List!UpdateCollapse(row, press, acc)
          \/ row \in List!Rows /\ List!UpdateBreadcrumb(row, press)
    BY <1>2, Zenon DEF List!Frame
  <2>2. CASE row \in List!Rows /\ (List!UpdateList(row, press, wheel) \/ List!UpdateTable(row, press, wheel))
    BY <2>2, ListRowStep DEF List!UpdateList, List!UpdateTable
  <2>3. CASE row \in List!Rows /\ List!UpdateMenu(row, press, wheel)
    BY <2>3, ListMenuStep
  <2>4. CASE row \in List!Rows /\ List!UpdateTree(row, press, wheel)
    BY <2>4, ListTreeStep
  <2> QED BY <2>1, <2>2, <2>3, <2>4, ListOpenStep
<1>3. ASSUME NEW c1 \in 0..MaxItems, NEW s \in {[i \in 1..c1 |-> i], [i \in 1..c1 |-> 1 + MaxItems - i]},
             List!SetItems(s)
      PROVE  ListInv'
  <2>1. s \in Seq(List!Items)
    BY ScenesAssumption DEF List!Items, ScenesAssumption
  <2> QED BY <1>3, <2>1, ListSetStep
<1> QED BY <1>1, <1>2, <1>3 DEF List!Next

LEMMA ListShown == ListInv => List!PickedAsDrawn /\ List!InView
<1> SUFFICES ASSUME ListInv PROVE List!PickedAsDrawn /\ List!InView
  OBVIOUS
<1>1. List!PickedAsDrawn
  BY DEF ListInv, ListPlaced, List!PickedAsDrawn, List!Kinds
<1>2. ASSUME listKind \in {"list", "table"}, ~listDirty, items # <<>>
      PROVE  \E r \in List!Rows : listDrawn[r] # Blank
  <2>1. items \in Seq(List!Items) /\ Len(items) \in Nat \ {0} /\ scroll \in 0..List!MaxScroll(items)
    BY <1>2 DEF ListInv, ListPlaced
  <2>2. scroll + 1 \in 1..Len(items)
    BY <2>1, ScenesAssumption DEF List!MaxScroll, ScenesAssumption
  <2>3. 0 \in List!Rows /\ scroll \in Int
    BY <2>1, ScenesAssumption DEF List!Rows, ScenesAssumption
  <2>4. listDrawn[0] = List!At(items, 0 + scroll + 1)
    BY <1>2, <2>3, ListRow DEF ListInv
  <2>5. listDrawn[0] = items[scroll + 1]
    BY <2>1, <2>2, <2>4 DEF List!At
  <2>6. items[scroll + 1] \in List!Items
    BY <2>1, <2>2
  <2> QED BY <2>3, <2>5, <2>6, ScenesAssumption DEF List!Items, ScenesAssumption
<1> QED BY <1>1, <1>2 DEF List!InView

-----------------------------------------------------------------------------
(* One part takes a step; the others stand still. *)

allScenes == <<part, d, p, n, o, f, g, m, a, w, t, e, l, h, b>>

LEMMA DialogsMoves == [MCNext]_allScenes => [Next]_d
BY DEF MCNext, allScenes

LEMMA PuppetMoves == [MCNext]_allScenes => [Puppet!Next]_p
BY DEF MCNext, allScenes

LEMMA FieldMoves == [MCNext]_allScenes => [Field!Next]_f
BY DEF MCNext, allScenes

LEMMA NpcMoves == [MCNext]_allScenes => [Npc!Next]_n
BY DEF MCNext, allScenes

LEMMA PeersMoves == [MCNext]_allScenes => [Peers!Next]_o
BY DEF MCNext, allScenes

LEMMA FloorMoves == [MCNext]_allScenes => [Floor!Next]_g
BY DEF MCNext, allScenes

LEMMA FormMoves == [MCNext]_allScenes => [Form!Next]_a
BY DEF MCNext, allScenes

LEMMA FillMoves == [MCNext]_allScenes => [Fill!Next]_e
BY DEF MCNext, allScenes

LEMMA ListMoves == [MCNext]_allScenes => [List!Next]_l
BY DEF MCNext, allScenes

LEMMA DragMoves == [MCNext]_allScenes => [Drag!Next]_h
BY DEF MCNext, allScenes

LEMMA MiniMoves == [MCNext]_allScenes => [Mini!Next]_m
BY DEF MCNext, allScenes

-----------------------------------------------------------------------------

\* Nothing outlives the event, the battle or the life it was started for: no lock or
\* route, no timer, no automatic attack, however many events and battles there are.
THEOREM FreedAgain == MCSpec => []FreeAgain
<1>1. MCSpec => []DialogTypes
  <2>1. DialogTypes /\ [MCNext]_allScenes => DialogTypes'
    BY DialogsMoves, DialogTypesStep
  <2> QED BY <2>1, DialogTypesInitial, PTL DEF MCSpec, MCInit, allScenes
<1>2. MCSpec => []FreeInv
  <2>1. DialogTypes /\ FreeInv /\ [MCNext]_allScenes => FreeInv'
    BY DialogsMoves, FreeStep
  <2> QED BY <1>1, <2>1, FreeInitial, PTL DEF MCSpec, MCInit, allScenes
<1>3. MCSpec => []PuppetOwn
  <2>1. PuppetOwn /\ [MCNext]_allScenes => PuppetOwn'
    BY PuppetMoves, PuppetOwnStep
  <2> QED BY <2>1, PuppetOwnInitial, PTL DEF MCSpec, MCInit, allScenes
<1>4. MCSpec => []FieldInv
  <2>1. FieldInv /\ [MCNext]_allScenes => FieldInv'
    BY FieldMoves, FieldStep
  <2> QED BY <2>1, FieldInitial, PTL DEF MCSpec, MCInit, allScenes
<1>5. DialogTypes /\ FreeInv /\ PuppetOwn /\ FieldInv => FreeAgain
  BY FreeRests DEF FreeAgain, PuppetOwn, FieldInv
<1> QED BY <1>1, <1>2, <1>3, <1>4, <1>5, PTL

\* The server never waits for an answer the player cannot give: what an event or a
\* battle asks is on its way, is kept, is on the screen, or is answered already.
THEOREM AnswersCome == MCSpec => []Answerable
<1>1. MCSpec => []DialogTypes
  <2>1. DialogTypes /\ [MCNext]_allScenes => DialogTypes'
    BY DialogsMoves, DialogTypesStep
  <2> QED BY <2>1, DialogTypesInitial, PTL DEF MCSpec, MCInit, allScenes
<1>2. MCSpec => []AskInv
  <2>1. DialogTypes /\ AskInv /\ [MCNext]_allScenes => AskInv'
    BY DialogsMoves, AskStep
  <2> QED BY <1>1, <2>1, AskInitial, PTL DEF MCSpec, MCInit, allScenes
<1>3. MCSpec => []PuppetOwn
  <2>1. PuppetOwn /\ [MCNext]_allScenes => PuppetOwn'
    BY PuppetMoves, PuppetOwnStep
  <2> QED BY <2>1, PuppetOwnInitial, PTL DEF MCSpec, MCInit, allScenes
<1>4. MCSpec => []PuppetTypes
  <2>1. PuppetTypes /\ [MCNext]_allScenes => PuppetTypes'
    BY PuppetMoves, PuppetTypesStep
  <2> QED BY <2>1, PuppetTypesInitial, PTL DEF MCSpec, MCInit, allScenes
<1>5. MCSpec => []PuppetInv
  <2>1. PuppetTypes /\ PuppetOwn /\ PuppetInv /\ [MCNext]_allScenes => PuppetInv'
    BY PuppetMoves, PuppetInvStep
  <2> QED BY <1>3, <1>4, <2>1, PuppetInvInitial, PTL DEF MCSpec, MCInit, allScenes
<1>6. DialogTypes /\ AskInv /\ PuppetTypes /\ PuppetInv => Answerable
  BY AskComes, PuppetAnswers DEF Answerable
<1> QED BY <1>1, <1>2, <1>4, <1>5, <1>6, PTL

\* With every message heard the map shows what there is: the NPC and its dot stand where
\* the server has them, no icon is left without its NPC, no player who has gone, no death
\* overlay over the living, no drop somebody has; and a drop goes to one of those who pick
\* it up, however many of each there are.
THEOREM MapIsHonest == MCSpec => []MapHonest
<1>1. MCSpec => []NpcInv
  <2>1. NpcInv /\ [MCNext]_allScenes => NpcInv'
    BY NpcMoves, NpcStep
  <2> QED BY <2>1, NpcInitial, PTL DEF MCSpec, MCInit, allScenes
<1>2. MCSpec => []PeersInv
  <2>1. PeersInv /\ [MCNext]_allScenes => PeersInv'
    BY PeersMoves, PeersStep
  <2> QED BY <2>1, PeersInitial, PTL DEF MCSpec, MCInit, allScenes
<1>3. MCSpec => []ShroudInv
  <2>1. ShroudInv /\ [MCNext]_allScenes => ShroudInv'
    BY FieldMoves, ShroudStep
  <2> QED BY <2>1, ShroudInitial, PTL DEF MCSpec, MCInit, allScenes
<1>4. MCSpec => []MiniInv
  <2>1. MiniInv /\ [MCNext]_allScenes => MiniInv'
    BY MiniMoves, MiniStep
  <2> QED BY <2>1, MiniInitial, PTL DEF MCSpec, MCInit, allScenes
<1>5. MCSpec => [](TakenInv /\ GroundInv)
  <2>1. TakenInv /\ GroundInv /\ [MCNext]_allScenes => (TakenInv /\ GroundInv)'
    <3> SUFFICES ASSUME TakenInv, GroundInv, [MCNext]_allScenes PROVE TakenInv' /\ GroundInv'
      OBVIOUS
    <3>1. [Floor!Next]_g
      BY FloorMoves
    <3>2. TakenInv'
      BY <3>1, TakenStep
    <3>3. picking' \in [DropPlayers -> Floor!Ids \union {NoDrop}]
      BY <3>2 DEF TakenInv, HandlerTypes
    <3>4. GroundInv'
      BY <3>1, <3>3, GroundStep
    <3> QED BY <3>2, <3>4
  <2> QED BY <2>1, TakenInitial, GroundInitial, PTL DEF MCSpec, MCInit, allScenes
<1>6. NpcInv /\ PeersInv /\ ShroudInv /\ MiniInv /\ TakenInv /\ GroundInv => MapHonest
  BY NpcShown, PeersShown, ShroudGone, DotsShown, GroundShown, TakenShown DEF MapHonest
<1> QED BY <1>1, <1>2, <1>3, <1>4, <1>5, <1>6, PTL

\* What is drawn is what is held, and what is picked is what was drawn: the chosen face and
\* card of the forms, the items of lists, tables, trees, menus and panels, the value of a
\* field, which its owner knows, and the place of a panel, which the next scene finds; for
\* any number of items, rows and values, and any step.
THEOREM DrawnAsHeld == MCSpec => []AsDrawn
<1>1. MCSpec => []FormInv
  <2>1. FormInv /\ [MCNext]_allScenes => FormInv'
    BY FormMoves, FormStep
  <2> QED BY <2>1, FormInitial, PTL DEF MCSpec, MCInit, allScenes
<1>2. MCSpec => []FillInv
  <2>1. FillInv /\ [MCNext]_allScenes => FillInv'
    BY FillMoves, FillStep
  <2> QED BY <2>1, FillInitial, PTL DEF MCSpec, MCInit, allScenes
<1>3. MCSpec => []ListInv
  <2>1. ListInv /\ [MCNext]_allScenes => ListInv'
    BY ListMoves, ListStep
  <2> QED BY <2>1, ListInitial, PTL DEF MCSpec, MCInit, allScenes
<1>4. MCSpec => []DragInv
  <2>1. DragInv /\ [MCNext]_allScenes => DragInv'
    BY DragMoves, DragStep
  <2> QED BY <2>1, DragInitial, PTL DEF MCSpec, MCInit, allScenes
<1>5. FormInv /\ FillInv /\ ListInv /\ DragInv => AsDrawn
  BY FormShown, FillShown, ListShown DEF AsDrawn, DragInv
<1> QED BY <1>1, <1>2, <1>3, <1>4, <1>5, PTL

=============================================================================
