------------------------------- MODULE Fields -------------------------------
(***************************************************************************)
(* The widgets of the client's library that hold a value for their owner   *)
(* (client_plugin/ui/input, navigation): text field, text area, number,    *)
(* slider, switch, check box, radio, select, tabs, steps, pages. Each has  *)
(* a value, what it was last drawn with (drawing waits for the next update *)
(* of a dirty widget, core/base.js), and an owner who sets the value and   *)
(* is told of the player's changes by onChange.                            *)
(*                                                                         *)
(* A text is its length, an option its index (-1: none), a pointer          *)
(* position the option or value under it. A behaviour is about one widget. *)
(***************************************************************************)
EXTENDS Integers

CONSTANTS
  Top,     \* the largest value of a number or a slider, the last option or page
  Step,    \* of a number, of a slider
  MaxLen   \* _maxLength of a text field

Kinds == {"input", "textarea", "number", "slider", "switch", "checkbox", "radio", "select",
          "tabs", "steps", "pages"}

VARIABLES
  kind,
  value,    \* _value, _on, _checked, _selectedIndex, _activeTab, _current, length of _text
  text,     \* what a number shows while it is edited (its own value otherwise)
  focused,  \* _focused of a text or number, _dragging of a slider, _open of a select
  dirty,    \* _dirty
  drawn,    \* what the last refresh has drawn
  known     \* what the owner has set or was told last

vars == <<kind, value, text, focused, dirty, drawn, known>>

NoValue == -1
Options == 0..Top
Least(a, b) == IF a < b THEN a ELSE b
Most(a, b) == IF a > b THEN a ELSE b
Clamp(v, lo, hi) == Most(lo, Least(v, hi))

\* What the constructors start with when the owner gives no value.
First == CASE kind \in {"input", "textarea", "number", "slider", "switch", "checkbox", "radio",
                        "tabs", "steps"} -> 0
           [] kind = "select" -> NoValue
           [] kind = "pages" -> 1

Init ==
  /\ kind \in Kinds
  /\ value = First /\ text = First /\ drawn = First /\ known = First
  /\ focused = FALSE
  /\ dirty = TRUE

-----------------------------------------------------------------------------
\* An update works on the widget.
Widget == [value |-> value, text |-> text, focused |-> focused, dirty |-> dirty,
           drawn |-> drawn, known |-> known]

Put(w) ==
  /\ value' = w.value /\ text' = w.text /\ focused' = w.focused
  /\ dirty' = w.dirty /\ drawn' = w.drawn /\ known' = w.known
  /\ UNCHANGED kind

\* refresh of each kind: a number that is edited shows its text, all others their value.
Displayed(w) == IF kind = "number" /\ w.focused THEN w.text ELSE w.value
Refresh(w) == [w EXCEPT !.drawn = Displayed(w)]

\* The base's update, which every update begins with.
Redraw(w) == IF w.dirty THEN [Refresh(w) EXCEPT !.dirty = FALSE] ELSE w

\* A new value, of which the owner is told.
Change(w, v) == [w EXCEPT !.value = v, !.known = v, !.dirty = TRUE]

-----------------------------------------------------------------------------
\* What a frame brings: a press on the widget, elsewhere or none, whether the pointer is
\* down, where it points to, and a key.
Inputs == [press : {"in", "out", "none"}, at : NoValue..Top,
           key : {"none", "char", "backspace", "ok", "escape"}, blink : BOOLEAN]

\* One character more or less (Input._keys, which the engine has to provide).
Typed(length, key, limit) ==
  CASE key = "char" /\ length < limit -> length + 1
    [] key = "backspace" /\ length > 0 -> length - 1
    [] OTHER -> length

\* L2_Input.update.
UpdateInput(w, in) ==
  LET faced == IF in.press = "none" THEN w
               ELSE [w EXCEPT !.focused = (in.press = "in"), !.dirty = TRUE]
      blinked == [faced EXCEPT !.dirty = @ \/ in.blink]
      typed == Typed(w.value, in.key, MaxLen)
  IN CASE ~faced.focused -> faced
       [] faced.focused /\ in.key \in {"ok", "escape"} ->
            Refresh([blinked EXCEPT !.focused = FALSE])
       [] faced.focused /\ typed # w.value -> Change(blinked, typed)
       [] OTHER -> blinked

\* L2_Textarea.update: no limit of its own (the bound of the model), and it keeps the focus
\* when ok is pressed.
UpdateTextarea(w, in) ==
  LET faced == IF in.press = "none" THEN w
               ELSE [w EXCEPT !.focused = (in.press = "in"), !.dirty = TRUE]
      typed == Typed(w.value, in.key, Top)
  IN CASE ~faced.focused -> faced
       [] faced.focused /\ in.key = "escape" -> [faced EXCEPT !.focused = FALSE, !.dirty = TRUE]
       [] faced.focused /\ typed # w.value -> Change(faced, typed)
       [] OTHER -> faced

\* L2_InputNumber.setValue.
SetNumber(w, v) ==
  LET clamped == Clamp(v, 0, Top) IN
  IF clamped = w.value THEN w ELSE [Change(w, clamped) EXCEPT !.text = clamped]

\* L2_InputNumber.update: minus (at = -1 stands for it), plus (at = 0), the field (others).
\* A press elsewhere drops what was typed; ok and escape alike take it over, clamped.
UpdateNumber(w, in) ==
  LET minus == in.press = "in" /\ in.at = NoValue
      plus == in.press = "in" /\ in.at = 0
      faced == CASE in.press = "none" -> w
                 [] in.press = "in" -> [w EXCEPT !.focused = TRUE, !.text = w.value,
                                                 !.dirty = TRUE]
                 [] in.press = "out" -> [w EXCEPT !.focused = FALSE, !.dirty = TRUE]
      typed == CASE in.key = "char" -> 10 * faced.text + 1
                 [] in.key = "backspace" -> faced.text \div 10
                 [] OTHER -> faced.text
      taken == Clamp(typed, 0, Top)
  IN CASE minus -> SetNumber(w, w.value - Step)
       [] plus -> SetNumber(w, w.value + Step)
       [] ~minus /\ ~plus /\ ~faced.focused -> faced
       [] ~minus /\ ~plus /\ faced.focused /\ in.key \in {"ok", "escape"} ->
            [Change(faced, taken) EXCEPT !.text = taken, !.focused = FALSE]
       [] OTHER -> [faced EXCEPT !.text = typed, !.dirty = @ \/ in.blink \/ typed # faced.text]

\* L2_Slider.setValue: clamped first, rounded to the step afterwards.
SetSlider(w, v) ==
  LET clamped == Clamp(v, 0, Top)
      rounded == ((2 * clamped + Step) \div (2 * Step)) * Step
  IN IF rounded = w.value THEN w ELSE Change(w, rounded)

\* L2_Slider.update: it follows the pointer from a press on it until the pointer is up
\* (at = -1 stands for that).
UpdateSlider(w, in) ==
  LET dragging == (w.focused \/ in.press = "in") /\ in.at # NoValue
      held == [w EXCEPT !.focused = dragging]
  IN IF dragging THEN SetSlider(held, in.at) ELSE held

\* L2_Switch.setOn, L2_Checkbox.setChecked: a check box tells even what it was.
SetOn(w, v) == IF w.value = v THEN w ELSE Change(w, v)
SetChecked(w, v) == Change(w, v)
UpdateSwitch(w, in) == IF in.press = "in" THEN SetOn(w, 1 - w.value) ELSE w
UpdateCheckbox(w, in) == IF in.press = "in" THEN SetChecked(w, 1 - w.value) ELSE w

\* L2_Radio.setSelectedIndex, L2_Select.setSelectedIndex: whatever index they are given.
SelectIndex(w, v) == IF w.value = v THEN w ELSE Change(w, v)

\* L2_Radio.update: the option under the pointer; below the last one, the last.
UpdateRadio(w, in) ==
  IF in.press = "in" /\ in.at # NoValue THEN SelectIndex(w, Least(in.at, Top)) ELSE w

\* L2_Select.update: a press on the trigger (at = -1) opens or closes, on an option of the
\* open list takes it, elsewhere closes.
UpdateSelect(w, in) ==
  CASE in.press = "in" /\ in.at = NoValue -> [w EXCEPT !.focused = ~@, !.dirty = TRUE]
    [] in.press = "in" /\ in.at # NoValue /\ w.focused ->
         [SelectIndex(w, in.at) EXCEPT !.focused = FALSE, !.dirty = TRUE]
    [] in.press = "out" /\ w.focused -> [w EXCEPT !.focused = FALSE, !.dirty = TRUE]
    [] OTHER -> w

\* L2_Tabs.setActiveTab: only an index there is a tab for.
SetActiveTab(w, v) == IF v = w.value \/ v \notin Options THEN w ELSE Change(w, v)
UpdateTabs(w, in) == IF in.press = "in" /\ in.at # NoValue THEN SetActiveTab(w, in.at) ELSE w

\* L2_Steps.setCurrent: nothing but the owner moves it.
SetCurrent(w, v) == Change(w, Clamp(v, 0, Top))

\* L2_Pagination.setPage; the arrows (at = -1 before, 0 after) and the pages.
SetPage(w, v) == Change(w, Clamp(v, 1, Top))
UpdatePages(w, in) ==
  CASE in.press = "in" /\ in.at = NoValue /\ w.value > 1 -> SetPage(w, w.value - 1)
    [] in.press = "in" /\ in.at = 0 /\ w.value < Top -> SetPage(w, w.value + 1)
    [] in.press = "in" /\ in.at > 0 -> SetPage(w, in.at)
    [] OTHER -> w

\* A frame.
Update(in) ==
  LET w == Redraw(Widget) IN
  Put(CASE kind = "input" -> UpdateInput(w, in)
        [] kind = "textarea" -> UpdateTextarea(w, in)
        [] kind = "number" -> UpdateNumber(w, in)
        [] kind = "slider" -> UpdateSlider(w, in)
        [] kind = "switch" -> UpdateSwitch(w, in)
        [] kind = "checkbox" -> UpdateCheckbox(w, in)
        [] kind = "radio" -> UpdateRadio(w, in)
        [] kind = "select" -> UpdateSelect(w, in)
        [] kind = "tabs" -> UpdateTabs(w, in)
        [] kind = "steps" -> w
        [] kind = "pages" -> UpdatePages(w, in))

\* The owner sets a value: setText, setValue, setOn, ... Texts are set without a limit and
\* without onChange.
SetText(w, v) == [w EXCEPT !.value = v, !.known = v, !.dirty = TRUE]
SetBy(v) ==
  Put(CASE kind \in {"input", "textarea"} -> SetText(Widget, v)
        [] kind = "number" -> SetNumber(Widget, v)
        [] kind = "slider" -> SetSlider(Widget, v)
        [] kind = "switch" -> SetOn(Widget, Clamp(v, 0, 1))
        [] kind = "checkbox" -> SetChecked(Widget, Clamp(v, 0, 1))
        [] kind \in {"radio", "select"} -> SelectIndex(Widget, v)
        [] kind = "tabs" -> SetActiveTab(Widget, v)
        [] kind = "steps" -> SetCurrent(Widget, v)
        [] kind = "pages" -> SetPage(Widget, v))

\* The number typed stays below the bound of the model.
Next ==
  \/ \E in \in Inputs : (in.key = "char" /\ kind = "number" => text < 10) /\ Update(in)
  \/ \E v \in Options : SetBy(v)

Spec == Init /\ [][Next]_vars

-----------------------------------------------------------------------------
\* The type of the state.
TypeOK ==
  /\ kind \in Kinds
  /\ value \in NoValue..Top + Step
  /\ text \in NoValue..110
  /\ {focused, dirty} \subseteq BOOLEAN
  /\ drawn \in NoValue..110 /\ known \in NoValue..Top + Step

\* The value is one that can be chosen (of a slider a step, within half a step of its
\* range), what the owner was told or has set last is the value, and what is drawn is what
\* the widget has to show or waits to be drawn: whatever is typed, clicked, dragged,
\* abandoned or set in between, and in whatever order.
InStep ==
  /\ kind \in {"number", "steps"} => value \in 0..Top
  /\ kind = "slider" => (\E n \in Options : value = n * Step) /\ 2 * (value - Top) <= Step
  /\ kind = "pages" => value \in 1..Top
  /\ kind \in {"radio", "tabs"} => value \in Options
  /\ known = value
  /\ ~dirty => drawn = Displayed(Widget)

\* NOT kept: a slider stays within its range. It rounds to the step after it has clamped,
\* and a range the step does not divide is exceeded at its end (slider.js:34-35).
SliderInRange == kind = "slider" => value \in 0..Top
=============================================================================
