------------------------------- MODULE Forms -------------------------------
(***************************************************************************)
(* The forms before the game (client_plugin/mmo-auth.js): login and        *)
(* registration, the list of characters and the making of one. What is     *)
(* typed sits in HTML inputs over the canvas, faces are drawn when their   *)
(* images have come, and answers of the server may find another scene      *)
(* than the one that asked. Entering the game and deleting are Connection's*)
(* part; here they leave for the list.                                     *)
(*                                                                         *)
(* SceneManager.goto takes the old scene down (stop, terminate) and makes  *)
(* the next before anything else of either scene runs: it is one step. A   *)
(* text is there or is not; a face is its image.                           *)
(***************************************************************************)
EXTENDS Integers, Sequences

CONSTANTS
  Faces,      \* FACE_PRESETS, numbered from 1; a character's walk_name is one of them
  Beneath,    \* those that lie beneath the second and third class of the open list
  MaxHP,
  MaxChars,
  MaxScenes   \* scenes in a behaviour

Elements == {"user", "pass", "name"}
NoElement == "none"
NoFace == 0
NoClass == 0
Classes == 1..3            \* CLASS_OPTIONS
Own == [login |-> {"user", "pass"}, select |-> {}, create |-> {"name"}]
First == [login |-> "user", select |-> NoElement, create |-> "name"]   \* focused by the timer

VARIABLES
  scene,
  gen,        \* which scene it is
  inputs,     \* the HTML inputs in the page (_trackedInputs)
  filled,     \* those with a text
  focus,      \* the one with the keyboard
  timer,      \* _focusTimer is running
  busy,       \* _busy
  requests,   \* asked and not answered: what, and by which scene
  ready,      \* images that have been loaded
  face,       \* _selectedFace
  class,      \* the option _classSelect has
  open,       \* its list is open
  buttons,    \* what the last _refreshFaceBtn has drawn
  preview,    \* what the last _refreshPreview has drawn
  wanted,     \* the face the player pressed last
  chars,      \* _characters
  selected,   \* _selectedIndex + 1
  cards,      \* what the last _refreshCard has drawn
  panel       \* what the last _refreshInfoPanel has drawn

page == <<inputs, filled, focus, timer>>
making == <<face, class, open, buttons, preview, wanted>>
listing == <<chars, selected, cards, panel>>
vars == <<scene, gen, page, busy, requests, ready, making, listing>>

-----------------------------------------------------------------------------
\* _refreshFaceBtn, _refreshPreview.
FaceBtn(f, chosen, loaded) == [selected |-> f = chosen, image |-> f \in loaded]
Preview(chosen, loaded) == IF chosen \in loaded THEN chosen ELSE NoFace

\* _refreshCard, _refreshInfoPanel: no hit points count as all of them.
Card(i, cs, chosen, loaded) == [selected |-> i = chosen, image |-> cs[i].look \in loaded]
NoPanel == [who |-> 0, hp |-> 0]
Panel(cs, chosen) ==
  [who |-> chosen, hp |-> IF cs[chosen].hp = 0 THEN MaxHP ELSE cs[chosen].hp]

\* Mutant: the inputs stay in the page.
Cleanup_Kept(in) == in

\* _cleanup of the scene that is running: its inputs leave the page, and what leaves the
\* page has neither text nor keyboard.
Cleanup(in) == in \ Own[scene]

\* What initialize, create and start of a scene do. The list is asked for at once.
Enter(s) ==
  /\ scene' = s /\ gen' = gen + 1
  /\ inputs' = Cleanup(inputs) \union Own[s]
  /\ filled' = filled \intersect Cleanup(inputs)
  /\ focus' = IF focus \in Cleanup(inputs) THEN focus ELSE NoElement
  /\ timer' = (Own[s] # {})
  /\ busy' = FALSE
  /\ face' = 1 /\ wanted' = 1 /\ class' = NoClass /\ open' = FALSE
  /\ buttons' = [f \in Faces |-> FaceBtn(f, 1, ready)]
  /\ preview' = Preview(1, ready)
  /\ chars' = <<>> /\ selected' = 0 /\ cards' = <<>> /\ panel' = NoPanel
  /\ UNCHANGED ready

Goto(s, asked) ==
  /\ gen < MaxScenes
  /\ Enter(s)
  /\ requests' = asked \union (IF s = "select" THEN {[kind |-> "list", of |-> gen + 1]} ELSE {})

\* The title scene goes to the login.
Init ==
  /\ scene = "login" /\ gen = 1
  /\ inputs = Own["login"] /\ filled = {} /\ focus = NoElement /\ timer = TRUE
  /\ busy = FALSE /\ requests = {} /\ ready = {}
  /\ face = 1 /\ wanted = 1 /\ class = NoClass /\ open = FALSE
  /\ buttons = [f \in Faces |-> FaceBtn(f, 1, {})] /\ preview = NoFace
  /\ chars = <<>> /\ selected = 0 /\ cards = <<>> /\ panel = NoPanel

-----------------------------------------------------------------------------
\* start's timer, a click on an input, a key in the one that has the keyboard, Enter in the
\* user's name.
FocusTimer ==
  /\ timer /\ timer' = FALSE
  /\ focus' = IF First[scene] \in inputs THEN First[scene] ELSE focus
  /\ UNCHANGED <<scene, gen, inputs, filled, busy, requests, ready, making, listing>>

Focus(e) ==
  /\ e \in inputs /\ focus' = e
  /\ UNCHANGED <<scene, gen, inputs, filled, timer, busy, requests, ready, making, listing>>

Type(texts) ==
  /\ focus # NoElement
  /\ texts \in {filled \union {focus}, filled \ {focus}}
  /\ filled' = texts
  /\ UNCHANGED <<scene, gen, inputs, focus, timer, busy, requests, ready, making, listing>>

\* _doLogin, _doRegister, _doCreate: not while one is asked for, not without the texts. The
\* request to create carries the face and the class of this moment.
Ask(kind) ==
  /\ kind \in (IF scene = "login" THEN {"login", "register"}
               ELSE IF scene = "create" THEN {"create"} ELSE {})
  /\ ~busy /\ Own[scene] \subseteq filled
  /\ busy' = TRUE
  /\ requests' = requests \union {[kind |-> kind, of |-> gen]}
  /\ UNCHANGED <<scene, gen, page, ready, making, listing>>

\* Their answers: the inputs go and the list follows, whatever scene is running by then; a
\* refusal lets the scene that asked try again.
Answer(r) ==
  /\ r \in requests /\ r.kind # "list"
  /\ Goto("select", requests \ {r})

Refuse(r) ==
  /\ r \in requests /\ r.kind # "list"
  /\ requests' = requests \ {r}
  /\ busy' = (busy /\ r.of # gen)
  /\ UNCHANGED <<scene, gen, page, ready, making, listing>>

\* The list has come, or has not (then it is empty): _buildUI, of a scene that is left too,
\* where nobody sees it.
Listed(r, cs) ==
  /\ r \in requests /\ r.kind = "list"
  /\ requests' = requests \ {r}
  /\ IF r.of = gen
     THEN LET chosen == IF cs = <<>> THEN 0 ELSE 1 IN
          /\ chars' = cs /\ selected' = chosen
          /\ cards' = [i \in 1..Len(cs) |-> Card(i, cs, chosen, ready)]
          /\ panel' = IF cs = <<>> THEN NoPanel ELSE Panel(cs, chosen)
     ELSE UNCHANGED listing
  /\ UNCHANGED <<scene, gen, page, busy, ready, making>>

-----------------------------------------------------------------------------
\* An image has come: its listeners draw the buttons and cards that show it.
Load(f) ==
  /\ f \notin ready /\ ready' = ready \union {f}
  /\ buttons' = [buttons EXCEPT ![f] = FaceBtn(f, face, ready')]
  /\ cards' = [i \in DOMAIN cards |->
                 IF chars[i].look = f THEN Card(i, chars, selected, ready') ELSE cards[i]]
  /\ UNCHANGED <<scene, gen, page, busy, requests, face, class, open, preview, wanted,
                 chars, selected, panel>>

\* _selectCard, by a press on a card.
SelectCard(i) ==
  /\ i \in DOMAIN cards /\ i # selected
  /\ selected' = i
  /\ cards' = [c \in DOMAIN cards |->
                 IF c \in {selected, i} THEN Card(c, chars, i, ready) ELSE cards[c]]
  /\ panel' = Panel(chars, i)
  /\ UNCHANGED <<scene, gen, page, busy, requests, ready, making, chars>>

\* _selectFace: the old button, the new one and the preview.
SelectFace(f) ==
  /\ face' = f
  /\ buttons' = [b \in Faces |-> IF b \in {face, f} THEN FaceBtn(b, f, ready) ELSE buttons[b]]
  /\ preview' = Preview(f, ready)

\* A press in the scene of creation: the face buttons are updated first, then the list of
\* classes, which lies over some of them when it is open. A press on its box opens or closes
\* it, on an option takes it, anywhere else closes it.
PressCreate(f, option, box) ==
  /\ scene = "create"
  /\ option # NoClass => open /\ ~box /\ f \in (IF option = 1 THEN {} ELSE Beneath) \union {NoFace}
  /\ box => f = NoFace
  /\ IF f = NoFace THEN UNCHANGED <<face, buttons, preview>> ELSE SelectFace(f)
  /\ class' = IF option = NoClass THEN class ELSE option
  /\ open' = (box /\ ~open)
  /\ wanted' = IF f # NoFace /\ option = NoClass THEN f ELSE wanted
  /\ UNCHANGED <<scene, gen, page, busy, requests, ready, listing>>

\* The pointer comes or goes: a button, a card is drawn again.
Hover(i) ==
  /\ CASE scene = "create" /\ i \in Faces ->
            buttons' = [buttons EXCEPT ![i] = FaceBtn(i, face, ready)] /\ UNCHANGED cards
       [] scene = "select" /\ i \in DOMAIN cards ->
            cards' = [cards EXCEPT ![i] = Card(i, chars, selected, ready)] /\ UNCHANGED buttons
       [] OTHER -> FALSE
  /\ UNCHANGED <<scene, gen, page, busy, requests, ready, face, class, open, preview, wanted,
                 chars, selected, panel>>

\* The buttons that leave: create a character, back (which cleans up first), log out, and
\* what comes back to the list.
Leave(s) ==
  /\ CASE scene = "select" -> s \in {"create", "login", "select"}
       [] scene = "create" -> s = "select"
       [] scene = "login" -> FALSE
  /\ Goto(s, requests)

Chars == UNION {[1..n -> [look : Faces, hp : {0, MaxHP}]] : n \in 0..MaxChars}

Next ==
  \/ FocusTimer
  \/ \E e \in Elements : Focus(e) \/ Type(filled \union {e}) \/ Type(filled \ {e})
  \/ \E kind \in {"login", "register", "create"} : Ask(kind)
  \/ focus = "user" /\ Focus("pass")
  \/ \E r \in requests : Answer(r) \/ Refuse(r) \/ \E cs \in Chars : Listed(r, cs)
  \/ \E f \in Faces : Load(f) \/ Hover(f)
  \/ \E i \in 1..MaxChars : SelectCard(i)
  \/ \E f \in Faces \union {NoFace}, option \in Classes \union {NoClass}, box \in BOOLEAN :
       PressCreate(f, option, box)
  \/ \E s \in DOMAIN Own : Leave(s)

Spec == Init /\ [][Next]_vars

-----------------------------------------------------------------------------
\* The type of the state.
TypeOK ==
  /\ scene \in DOMAIN Own /\ gen \in 1..MaxScenes
  /\ inputs \subseteq Elements /\ filled \subseteq inputs
  /\ focus \in inputs \union {NoElement}
  /\ {timer, busy, open} \subseteq BOOLEAN
  /\ {face, wanted} \subseteq Faces /\ preview \in Faces \union {NoFace}
  /\ class \in Classes \union {NoClass}
  /\ selected \in 0..Len(chars)

\* The page has the inputs of the scene that runs and no others, whichever answer came in
\* which scene, and what is drawn as chosen is what will be sent or entered: one button, one
\* card, its image as soon as it has come, the panel of that card, and no preview of another
\* face (mmo-auth.js:833-980, 1297-1420).
DrawnAsChosen ==
  /\ inputs = Own[scene]
  /\ scene = "create" =>
       /\ \A f \in Faces : buttons[f] = FaceBtn(f, face, ready)
       /\ preview \in {face, NoFace}
  /\ scene = "select" =>
       /\ \A i \in DOMAIN cards : cards[i] = Card(i, chars, selected, ready)
       /\ chars # <<>> => panel.who = selected

\* NOT kept: the preview shows the chosen face once its image is there. Its load listener
\* draws the button only (mmo-auth.js:1311).
PreviewShown == scene = "create" /\ face \in ready => preview = face

\* NOT kept: the face is the one the player pressed. A press on an option of the open list
\* also presses the face that lies beneath it (mmo-auth.js:1216, 1324).
FaceAsPicked == scene = "create" => face = wanted

\* NOT kept: the panel shows the character's hit points; a dead one is shown unharmed
\* (mmo-auth.js:960).
PanelHonest == selected # 0 => panel.hp = chars[selected].hp
=============================================================================
