------------------------------- MODULE Bubble -------------------------------
(***************************************************************************)
(* The speech bubble of the toolkit (client_plugin/ui/data/chat-bubble.js):*)
(* it wraps its text, may type it out while the bubble grows ahead of it,  *)
(* stays, fades and is gone. Its owner may change the text or skip the     *)
(* typing at any time.                                                     *)
(*                                                                         *)
(* A character is as wide as it is numbered, NewLine aside; a text has     *)
(* one line break and one broad character at most. The place, the corners  *)
(* and the tail of the bubble are left out.                                *)
(***************************************************************************)
EXTENDS Integers, Sequences, SequencesExt

CONSTANTS
  Line,        \* the width of a line
  MaxText,     \* the length of the texts tried
  Fade         \* the frames a bubble takes to fade

NewLine == 0
Broad == 2
Texts ==
  {text \in BoundedSeq({NewLine, 1, Broad}, MaxText) :
     \A c \in {NewLine, Broad} : Len(SelectSeq(text, LAMBDA x : x = c)) <= 1}

\* typewriter, textDelay and duration, in frames; 0 is none.
Options == {[speed |-> 0, delay |-> 0, duration |-> 0], [speed |-> 0, delay |-> 0, duration |-> 2],
            [speed |-> 1, delay |-> 0, duration |-> 1], [speed |-> 2, delay |-> 1, duration |-> 1]}

VARIABLES
  opts,
  str,         \* _text
  lines,       \* _lines
  total,       \* _totalChars
  shownChars,  \* _revealedChars
  frame,       \* _typewriterFrame
  done,        \* _typewriterDone
  timer,       \* _timer
  opacity,     \* 0 is Fade frames away from the start
  fading, disposed,
  dirty,       \* _needsLayout and _dirty: a frame will draw it anew
  bubble,      \* what was drawn last: the lines the bubble was made for, ...
  inside,      \* ... and those written in it
  toldDone,    \* history: the calls of onTypewriterDone for this text
  toldGone,    \* history: the calls of onDispose
  hasty        \* history: drawn from a text skipped before its first frame, or to be so

bVars == <<opts, str, lines, total, shownChars, frame, done, timer, opacity, fading, disposed,
           dirty, bubble, inside, toldDone, toldGone, hasty>>

-----------------------------------------------------------------------------
(* The text in its lines. *)

WidthOf(chars) == FoldLeft(LAMBDA sum, c : sum + c, 0, chars)

\* _wrapTextAccurate: a character that does not fit begins a line; a line has one at least.
Placed(r, c) ==
  IF c = NewLine \/ (r.current # <<>> /\ WidthOf(Append(r.current, c)) > Line)
  THEN [lines |-> Append(r.lines, r.current),
        current |-> IF c = NewLine THEN <<>> ELSE <<c>>]
  ELSE [r EXCEPT !.current = Append(@, c)]
Wrapped(text) ==
  IF text = <<>> THEN <<>>
  ELSE LET r == FoldLeft(Placed, [lines |-> <<>>, current |-> <<>>], text)
       IN Append(r.lines, r.current)

CountTotalChars(ls) == FoldLeft(LAMBDA sum, l : sum + Len(l), 0, ls)

\* _getVisibleLines: the first count characters, in their lines; a line after them is none.
Shorter(r, l) ==
  IF r.left <= 0 THEN r
  ELSE LET n == IF Len(l) <= r.left THEN Len(l) ELSE r.left
       IN [lines |-> Append(r.lines, SubSeq(l, 1, n)), left |-> r.left - n]
VisibleLines(ls, count) == FoldLeft(Shorter, [lines |-> <<>>, left |-> count], ls).lines

-----------------------------------------------------------------------------

\* What refresh draws of text that is laid out: the bubble for what is revealed, and in
\* it the text, which lags behind while it is typed.
Lag == IF opts.speed = 0 THEN 0 ELSE (opts.delay + opts.speed - 1) \div opts.speed
Drawn(ls, revealed, finished) ==
  LET written == IF opts.speed > 0 /\ ~finished THEN revealed - Lag ELSE CountTotalChars(ls)
  IN /\ bubble' = VisibleLines(ls, revealed)
     /\ inside' = IF revealed <= 0 \/ written <= 0 THEN <<>> ELSE VisibleLines(ls, written)

Init ==
  /\ opts \in Options /\ str \in Texts
  /\ lines = Wrapped(str) /\ total = CountTotalChars(lines)
  /\ shownChars = IF opts.speed = 0 THEN total ELSE 0
  /\ done = (opts.speed = 0)
  /\ frame = 0 /\ timer = opts.duration /\ opacity = Fade
  /\ fading = FALSE /\ disposed = FALSE /\ dirty = FALSE
  /\ bubble = VisibleLines(lines, shownChars)
  /\ inside = bubble
  /\ toldDone = 0 /\ toldGone = 0 /\ hasty = FALSE

\* setText by an owner not told that it is gone: typing begins anew; the lines are made
\* by the next frame.
SetText(text) ==
  /\ text # str /\ ~disposed
  /\ str' = text /\ dirty' = TRUE
  /\ IF opts.speed > 0
     THEN /\ shownChars' = 0 /\ done' = FALSE /\ frame' = 0 /\ toldDone' = 0
     ELSE UNCHANGED <<shownChars, done, frame, toldDone>>
  /\ UNCHANGED <<opts, lines, total, timer, opacity, fading, disposed, bubble, inside,
                 toldGone, hasty>>

\* skipTypewriter: as many characters as the lines had when last made.
SkipTypewriter ==
  /\ ~done /\ ~disposed
  /\ shownChars' = total /\ done' = TRUE /\ toldDone' = toldDone + 1
  /\ hasty' = (hasty \/ lines # Wrapped(str)) /\ dirty' = TRUE
  /\ UNCHANGED <<opts, str, lines, total, frame, timer, opacity, fading, disposed, bubble,
                 inside, toldGone>>

\* The drawing a frame begins with.
Refresh ==
  LET ls == Wrapped(str)
      count == CountTotalChars(ls)
      revealed == IF opts.speed = 0 THEN count ELSE shownChars
  IN IF dirty
     THEN /\ lines' = ls /\ total' = count
          /\ Drawn(ls, revealed, done)
     ELSE UNCHANGED <<lines, total, bubble, inside>>

\* A frame of the typing.
Type ==
  /\ opts.speed > 0 /\ ~done
  /\ LET next == frame + 1 >= opts.speed
         ends == next /\ shownChars + 1 >= total'
     IN /\ frame' = IF next THEN 0 ELSE frame + 1
        /\ shownChars' = IF next THEN shownChars + 1 ELSE shownChars
        /\ done' = ends
        /\ toldDone' = IF ends THEN toldDone + 1 ELSE toldDone
  /\ dirty' = TRUE
  /\ UNCHANGED <<timer, opacity, fading, disposed, toldGone>>

\* The text that lags behind is waited for.
CatchingUp == opts.speed > 0 /\ done /\ shownChars - Lag < total'
CatchUp ==
  /\ CatchingUp /\ dirty' = TRUE
  /\ UNCHANGED <<frame, shownChars, done, toldDone, timer, opacity, fading, disposed, toldGone>>

\* The bubble stays for its duration, fades and is gone.
Age ==
  /\ done /\ ~CatchingUp
  /\ dirty' = FALSE
  /\ timer' = IF opts.duration > 0 /\ ~fading THEN timer - 1 ELSE timer
  /\ fading' = (fading \/ (opts.duration > 0 /\ timer' <= 0))
  /\ opacity' = IF fading' THEN opacity - 1 ELSE opacity
  /\ disposed' = (opacity' = 0)
  /\ toldGone' = IF disposed' THEN toldGone + 1 ELSE toldGone
  /\ shownChars' = IF opts.speed = 0 THEN total' ELSE shownChars
  /\ UNCHANGED <<frame, done, toldDone>>

\* update.
Update ==
  /\ ~disposed
  /\ Refresh
  /\ Type \/ CatchUp \/ Age
  /\ hasty' = (hasty /\ (done \/ ~dirty))
  /\ UNCHANGED <<opts, str>>

Next == (\E text \in Texts : SetText(text)) \/ SkipTypewriter \/ Update

Spec == Init /\ [][Next]_bVars

-----------------------------------------------------------------------------
(* Properties. *)

\* The type of the state.
TypeOK ==
  /\ opts \in Options /\ str \in Texts
  /\ \A i \in DOMAIN lines : lines[i] \in BoundedSeq({1, Broad}, MaxText)
  /\ total \in 0..MaxText /\ shownChars \in 0..MaxText + 1
  /\ frame \in 0..opts.speed /\ timer \in 0..opts.duration /\ opacity \in 0..Fade
  /\ {done, fading, disposed, dirty, hasty} \subseteq BOOLEAN
  /\ {toldDone, toldGone} \subseteq Nat

\* Wrapping loses and adds no character, and a line that is too wide is one character
\* (chat-bubble.js:116).
NothingLost ==
  ~dirty => /\ FoldLeft(LAMBDA all, l : all \o l, <<>>, lines) = SelectSeq(str, LAMBDA c : c # NewLine)
            /\ \A i \in DOMAIN lines : WidthOf(lines[i]) <= Line \/ Len(lines[i]) = 1

\* What is written is inside the bubble drawn for it, as far as the text was laid out
\* when the typing was skipped (chat-bubble.js:295: text delayed behind the expansion).
WrittenInside ==
  ~hasty => /\ Len(inside) <= Len(bubble)
            /\ \A i \in DOMAIN inside : IsPrefix(inside[i], bubble[i])

\* The owner hears once that a text is typed, skipped or not, and once that the bubble
\* is gone (chat-bubble.js:105, 337, 370).
ToldOnce ==
  /\ opts.speed > 0 => toldDone = (IF done THEN 1 ELSE 0)
  /\ toldGone = (IF disposed THEN 1 ELSE 0)

\* NOT kept: nor when a text is skipped before its first frame; the bubble is as large as
\* the text before it.
InsideAlways == \A i \in DOMAIN inside : i \in DOMAIN bubble /\ IsPrefix(inside[i], bubble[i])

\* NOT kept: a bubble that has typed its text and has a duration counts it. The text never
\* catches up with itself: what is revealed is never more than there is, so less the delay
\* it stays below (chat-bubble.js:348).
Counts == [][Update /\ done /\ opts.duration > 0 => timer' < timer \/ fading']_bVars
=============================================================================
