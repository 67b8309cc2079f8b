------------------------------- MODULE Toasts -------------------------------
(***************************************************************************)
(* Messages and notifications (client_plugin/ui/feedback/message.js and    *)
(* notification.js): short texts that slide in, stay for a while and fade, *)
(* or are clicked away. At most MaxVisible are active, the oldest has to   *)
(* go for the next; what has gone waits in a pool (core/theme.js) and is   *)
(* filled again. A change of scene leaves the active ones behind in the    *)
(* old scene, where nothing updates them any more.                         *)
(*                                                                         *)
(* The two kinds do the same apart from the close box and the callback of  *)
(* a notification; they share nothing, so a behaviour is about one kind.   *)
(***************************************************************************)
EXTENDS Integers, SequencesExt

CONSTANTS
  Objs,        \* objects, made when the pool is empty
  MaxVisible,  \* _maxVisible
  PoolMax,     \* poolMaxSize
  MaxShows,    \* how many texts are shown
  Stay         \* the frames a text stays before it fades

Texts == 1..MaxShows
NoText == 0

VARIABLES
  kind,        \* "message" or "notification"
  obj,         \* object -> its fields
  active,      \* _activeMessages or _activeNotifs
  pool,        \* L2_Theme._pools[_poolName]
  scene,       \* the children of the running scene
  blockers,    \* _registeredUI, of these objects
  shows,       \* texts shown so far
  ended        \* text -> how often it has ended (for a notification: its onClose)

vars == <<kind, obj, active, pool, scene, blockers, shows, ended>>

Unmade == [made |-> FALSE, text |-> NoText, visible |-> FALSE, last |-> FALSE,
           disposed |-> FALSE, pooled |-> FALSE, timer |-> 0, fading |-> FALSE]

Init ==
  /\ kind \in {"message", "notification"}
  /\ obj = [o \in Objs |-> Unmade]
  /\ active = <<>> /\ pool = <<>> /\ scene = <<>>
  /\ blockers = {}
  /\ shows = 0
  /\ ended = [t \in Texts |-> 0]

\* What show, an update and a disposal work on.
Screen == [obj |-> obj, active |-> active, pool |-> pool, scene |-> scene,
           blockers |-> blockers, ended |-> ended]

Without(seq, o) == SelectSeq(seq, LAMBDA e : e # o)

-----------------------------------------------------------------------------
\* L2_Theme.release with the _reset of its caller: the object waits in the pool, unless it
\* is full; then it stays as it was disposed of.
Release(s, o) ==
  IF s.obj[o].pooled \/ Len(s.pool) >= PoolMax THEN s
  ELSE [s EXCEPT !.pool = Append(@, o),
                 !.obj[o] = [@ EXCEPT !.pooled = TRUE, !.text = NoText, !.timer = 0,
                                      !.fading = FALSE, !.disposed = FALSE,
                                      !.visible = FALSE]]

\* _repositionMessages, _repositionNotifs: what was disposed of is swept.
Reposition(s) == [s EXCEPT !.active = SelectSeq(@, LAMBDA e : ~s.obj[e].disposed)]

\* _dispose, _dismiss: off the screen and the list, the owner told, back to the pool.
Dispose(s, o) ==
  IF s.obj[o].disposed THEN s
  ELSE LET text == s.obj[o].text
           gone == Reposition([s EXCEPT
                     !.obj[o].disposed = TRUE, !.obj[o].visible = FALSE,
                     !.scene = Without(@, o), !.active = Without(@, o)])
           told == IF text = NoText THEN gone
                   ELSE [gone EXCEPT !.ended[text] = @ + 1, !.obj[o].text = NoText]
       IN Release(told, o)

\* show: room for one more. Each of the active texts goes at most once, the oldest first.
MakeRoom(s) ==
  FoldLeft(LAMBDA r, i : IF Len(r.active) < MaxVisible THEN r ELSE Dispose(r, r.active[1]),
           s, [i \in 1..Len(s.active) |-> i])

\* L2_Theme.acquire: the last of the pool, or a new object.
Acquirable(s) ==
  IF s.pool # <<>> THEN {Last(s.pool)} ELSE {o \in Objs : ~s.obj[o].made}

\* The constructor (which registers with the input blocker), or the lines of show that fill
\* a pooled object again (which do not).
Fill(s, o, text) ==
  LET fresh == [Unmade EXCEPT !.made = TRUE, !.last = TRUE]
      used == IF s.obj[o].made THEN s.obj[o] ELSE fresh
  IN [s EXCEPT !.pool = Without(@, o),
               !.obj[o] = [used EXCEPT !.text = text, !.visible = TRUE, !.timer = Stay,
                                       !.fading = FALSE, !.disposed = FALSE,
                                       !.pooled = FALSE],
               !.blockers = IF s.obj[o].made THEN @ ELSE @ \union {o}]

Put(s) ==
  /\ obj' = s.obj /\ active' = s.active /\ pool' = s.pool
  /\ scene' = s.scene /\ blockers' = s.blockers /\ ended' = s.ended

\* L2_Message.show, L2_Notification.show.
Show ==
  /\ shows < MaxShows
  /\ shows' = shows + 1
  /\ LET room == MakeRoom(Screen) IN
     \E o \in Acquirable(room) :
       LET filled == Fill(room, o, shows + 1)
           listed == Reposition([filled EXCEPT !.active = Append(@, o)])
       IN Put([listed EXCEPT !.scene = Append(Without(@, o), o)])
  /\ UNCHANGED kind

-----------------------------------------------------------------------------
\* The base's update: the input blocker hears of what has changed.
UpdateBlocker(s, o) ==
  IF s.obj[o].visible = s.obj[o].last THEN s
  ELSE [s EXCEPT !.obj[o].last = s.obj[o].visible,
                 !.blockers = IF s.obj[o].visible THEN @ \union {o} ELSE @ \ {o}]

\* The update of one text. A click on the close box ends a notification at once.
UpdateOne(s, o, clicked) ==
  LET base == UpdateBlocker(s, o)
      fields == base.obj[o]
      fading == fields.fading \/ fields.timer <= 1
  IN CASE ~fields.visible -> base
       [] fields.visible /\ clicked /\ kind = "notification" -> Dispose(base, o)
       [] fields.visible /\ fields.fading -> Dispose(base, o)
       [] OTHER -> [base EXCEPT !.obj[o].timer = @ - 1, !.obj[o].fading = fading]

\* A frame: forEach over the children of the running scene; one that goes makes the next
\* one miss it. The pointer clicks the close box of one of them, or of none.
Frame ==
  \E clicked \in SUBSET Range(scene) :
    /\ Cardinality(clicked) <= 1
    /\ Put(FoldLeft(LAMBDA s, i :
                      IF i > Len(s.scene) THEN s
                      ELSE UpdateOne(s, s.scene[i], s.scene[i] \in clicked),
                    Screen, [i \in 1..Len(scene) |-> i]))
    /\ UNCHANGED <<kind, shows>>

\* L2_Message.close by whoever has shown the text.
Close(o) ==
  /\ kind = "message" /\ o \in Range(active) /\ ~obj[o].fading
  /\ obj' = [obj EXCEPT ![o].fading = TRUE]
  /\ UNCHANGED <<kind, active, pool, scene, blockers, shows, ended>>

\* SceneManager.goto and the scene that follows.
Goto ==
  /\ scene # <<>>
  /\ scene' = <<>>
  /\ blockers' = {}
  /\ UNCHANGED <<kind, obj, active, pool, shows, ended>>

Next ==
  \/ Show
  \/ Frame
  \/ \E o \in Objs : Close(o)
  \/ Goto

Spec == Init /\ [][Next]_vars

-----------------------------------------------------------------------------
\* The type of the state.
TypeOK ==
  /\ \A o \in Objs : /\ obj[o].text \in Texts \union {NoText}
                     /\ obj[o].timer \in 0..Stay
  /\ {Range(active), Range(pool), Range(scene), blockers} \subseteq SUBSET Objs
  /\ shows \in 0..MaxShows
  /\ ended \in [Texts -> 0..MaxShows]

\* A text is on the screen's list until it has ended, and it ends once: whatever fades, is
\* clicked away, is pushed out by the next or is left behind in an old scene, and in
\* whichever object of the pool it was shown (notification.js:130-149).
EndsOnce ==
  \A t \in Texts :
    /\ ended[t] <= 1
    /\ t <= shows => (ended[t] = 0 <=> \E o \in Range(active) : obj[o].text = t)

\* An object is active or in the pool, never both, never twice in one; what is in the pool
\* is not on the screen, what is on the screen is active; neither grows beyond its limit.
PoolApart ==
  /\ IsInjective(active) /\ IsInjective(pool) /\ IsInjective(scene)
  /\ Range(active) \intersect Range(pool) = {}
  /\ Range(scene) \subseteq Range(active)
  /\ \A o \in Range(pool) : obj[o].pooled /\ ~obj[o].visible
  /\ \A o \in Range(active) : obj[o].visible /\ ~obj[o].disposed /\ ~obj[o].pooled
  /\ Len(active) <= MaxVisible /\ Len(pool) <= PoolMax

\* NOT kept: what counts as active is seen. A scene change leaves phantoms that push the
\* texts of the new scene down until they are pushed out (message.js:107, 162).
ActiveIsSeen == Range(active) \subseteq Range(scene)

\* NOT kept: a text on the screen keeps clicks from the map. An object of the pool still
\* believes that it is registered when the blocker was cleared meanwhile (base.js:242).
TextBlocks == \A o \in Range(scene) : obj[o].visible /\ obj[o].last => o \in blockers
=============================================================================
