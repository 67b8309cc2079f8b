------------------------------ MODULE FriendList ------------------------------
(***************************************************************************)
(* The panel of the player's friends (client_plugin/mmo-social.js). It     *)
(* asks for the list when it comes up, and the answers come in any order;  *)
(* what the list is made of is Friendships. The server sends neither       *)
(* friend_request nor friend_online: their handlers are left out.          *)
(*                                                                         *)
(* A list is the set of its rows, which have one order. Heights are        *)
(* counted in rows.                                                        *)
(***************************************************************************)
EXTENDS Integers, FiniteSets

CONSTANTS
  MaxFriends,   \* players that may be friends, numbered as their rows
  InSight,      \* rows of the list that fit in the panel
  MaxLoads      \* bound on the requests for the list

Person == 1..MaxFriends

VARIABLES
  friendsOf,    \* the accepted rows of the player
  here,         \* the players online
  loads,        \* the requests for the list that were sent
  getting,      \* those the server has not answered
  answers,      \* those whose answer is on its way
  list,         \* FriendListPanel: visible, _friends, _scrollY, and what is drawn
  shownLoad,    \* history: the request whose answer the panel shows
  changed       \* history: something has changed since the server answered the last one

listVars == <<friendsOf, here, loads, getting, answers, list, shownLoad, changed>>

\* The order of the panel: those online come first, then as the server lists the rows
\* (the sort is stable).
Before(r, q) == IF r.online = q.online THEN r.who < q.who ELSE r.online
Place(friends, r) == Cardinality({q \in friends : Before(q, r)})

\* What refresh draws: the rows from the scrolled one to the edge, one of them partly.
Window(friends, scroll) ==
  {[at |-> Place(friends, r), friend |-> r] :
     r \in {q \in friends : Place(friends, q) \in scroll..scroll + InSight}}

List(visible, friends, scroll) ==
  [visible |-> visible, friends |-> friends, scroll |-> scroll,
   drawn |-> Window(friends, scroll)]

Init ==
  /\ friendsOf \in SUBSET Person /\ here = {}
  /\ loads = 0 /\ getting = {} /\ answers = {}
  /\ list = List(FALSE, {}, 0)
  /\ shownLoad = 0 /\ changed = FALSE

-----------------------------------------------------------------------------

ListUnchanged == UNCHANGED <<loads, getting, answers, list, shownLoad>>

\* A friendship is made or ended; a player enters or leaves the game.
Befriend(y) ==
  /\ friendsOf' = IF y \in friendsOf THEN friendsOf \ {y} ELSE friendsOf \union {y}
  /\ changed' = TRUE /\ UNCHANGED here /\ ListUnchanged
ComeOrGo(y) ==
  /\ here' = IF y \in here THEN here \ {y} ELSE here \union {y}
  /\ changed' = TRUE /\ UNCHANGED friendsOf /\ ListUnchanged

\* ListFriends: the accepted rows, and who of them is online.
Listed == {[who |-> y, online |-> y \in here] : y \in friendsOf}
ListFriends(n) ==
  /\ n \in getting
  /\ getting' = getting \ {n}
  /\ answers' = answers \union {[load |-> n, friends |-> Listed]}
  /\ changed' = (changed /\ n # loads)
  /\ UNCHANGED <<friendsOf, here, loads, list, shownLoad>>

-----------------------------------------------------------------------------

ServerUnchanged == UNCHANGED <<friendsOf, here, changed>>

\* Alt+F: a panel that comes up shows what it had, and asks for the list.
KeyF ==
  /\ IF list.visible
     THEN UNCHANGED <<loads, getting>>
     ELSE loads < MaxLoads /\ loads' = loads + 1 /\ getting' = getting \union {loads'}
  /\ list' = List(~list.visible, list.friends, list.scroll)
  /\ ServerUnchanged /\ UNCHANGED <<answers, shownLoad>>

\* The answer to loadFriends, ...
OnFriends(a) ==
  /\ a \in answers
  /\ answers' = answers \ {a}
  /\ list' = List(list.visible, a.friends, 0)
  /\ shownLoad' = a.load
  /\ ServerUnchanged /\ UNCHANGED <<loads, getting>>

\* ... or its failure.
OnFailed(n) ==
  /\ n \in getting
  /\ getting' = getting \ {n}
  /\ ServerUnchanged /\ UNCHANGED <<loads, answers, list, shownLoad>>

\* update: a turn of the wheel is two rows, within the list.
Wheel(down) ==
  LET rows == Cardinality(list.friends)
      most == IF rows > InSight THEN rows - InSight ELSE 0
      to == list.scroll + down
  IN /\ list.visible
     /\ list' = List(TRUE, list.friends, IF to < 0 THEN 0 ELSE IF to > most THEN most ELSE to)
     /\ ServerUnchanged /\ UNCHANGED <<loads, getting, answers, shownLoad>>

\* ... and a click on the cross hides it.
Close ==
  /\ list.visible /\ list' = [list EXCEPT !.visible = FALSE]
  /\ ServerUnchanged /\ UNCHANGED <<loads, getting, answers, shownLoad>>

\* createAllWindows of the next map: a new panel; the answers go to the old one.
CreateAllWindows ==
  /\ list' = List(FALSE, {}, 0)
  /\ getting' = {} /\ answers' = {} /\ shownLoad' = 0
  /\ ServerUnchanged /\ UNCHANGED loads

Next ==
  \/ \E y \in Person : Befriend(y) \/ ComeOrGo(y)
  \/ \E n \in getting : ListFriends(n) \/ OnFailed(n)
  \/ \E a \in answers : OnFriends(a)
  \/ KeyF \/ Wheel(2) \/ Wheel(-2) \/ Close \/ CreateAllWindows

Spec == Init /\ [][Next]_listVars

-----------------------------------------------------------------------------
(* Properties. *)

\* The type of the state.
TypeOK ==
  /\ friendsOf \subseteq Person /\ here \subseteq Person
  /\ shownLoad \in 0..loads /\ getting \subseteq 1..loads /\ loads \in 0..MaxLoads
  /\ \A a \in answers : a.load \in 1..loads
  /\ {list.visible, changed} \subseteq BOOLEAN /\ list.scroll \in 0..MaxFriends

\* The panel that shows the answer to its last request shows the friends the server has,
\* those online on top, from the row it is scrolled to, if nothing has changed since
\* (mmo-social.js:107).
ShowsFriends ==
  shownLoad = loads /\ loads > 0 /\ ~changed => list.drawn = Window(Listed, list.scroll)

\* The player is never left with an empty panel, whatever was scrolled, answered or failed
\* before (mmo-social.js:147, 221).
SomeoneInSight == list.friends # {} => list.drawn # {}

\* NOT kept: the panel shows the answer to its last request; an earlier one may overtake it.
LatestShown == getting = {} /\ answers = {} /\ shownLoad > 0 => shownLoad = loads
=============================================================================
