-------------------------- MODULE ConnectionProofs --------------------------
(***************************************************************************)
(* The safety of Connection for any number of tabs, characters, sockets    *)
(* and failures.  The bounds that keep creations, deletions, failures and  *)
(* left-over handlers apart in the run are not assumed here.               *)
(***************************************************************************)
EXTENDS Connection, TLAPS

-----------------------------------------------------------------------------
(* The inductive invariant *)

Socket ==
  [client : Clients \cup {NoChar}, end : {"opening", "open", "closed"},
   hooked : BOOLEAN, cut : BOOLEAN,
   pc : {"none", "reading", "moving", "arriving", "entering", "leaving", "gone"},
   shut : BOOLEAN, char : Chars \cup {NoChar}, from : Chars \cup {NoChar},
   inMap : BOOLEAN, robbed : BOOLEAN, inq : Seq(Chars), outq : Seq(Chars)]

Listing == (SUBSET Chars) \cup {NotListed}
Kinds == SUBSET {"login", "create"}

PageTypes ==
  /\ scene \in [Clients -> Scenes]
  /\ listed \in [Clients -> Listing]
  /\ busy \in [Clients -> BOOLEAN]
  /\ deleting \in [Clients -> Chars \cup {NoChar}]
  /\ posting \in [Clients -> Kinds]
  /\ charID \in [Clients -> Chars \cup {NoChar}]
  /\ token \in [Clients -> BOOLEAN]
  /\ self \in [Clients -> Chars \cup {NoChar}]

LinkTypes ==
  /\ state \in [Clients -> States]
  /\ attempts \in [Clients -> 0 .. ReconnectMax]
  /\ timer \in [Clients -> BOOLEAN]
  /\ beat \in [Clients -> BOOLEAN]
  /\ ws \in [Clients -> Sockets \cup {NoSocket}]
  /\ wait \in [Clients -> Seq(Chars)]

ServerTypes ==
  /\ sock \in [Sockets -> Socket]
  /\ sessions \in [Chars \cup {NoChar} -> Sockets \cup {NoSocket}]
  /\ room \in [Chars -> Sockets \cup {NoSocket}]
  /\ db \subseteq Chars
  /\ drops \in 0 .. MaxDrops

Types == PageTypes /\ LinkTypes /\ ServerTypes

\* A session has no character before its goroutine runs, and one when it enters.
Characters ==
  \A k \in Sockets : /\ sock[k].pc = "none" => sock[k].char = NoChar
                     /\ sock[k].pc \in {"moving", "arriving", "entering"}
                          => sock[k].char \in Chars

\* Where the registry may find a session, and who is found.
Key(r) == IF r.pc = "moving" THEN r.from ELSE r.char

Found ==
  \A ch \in Chars \cup {NoChar} :
    sessions[ch] # NoSocket =>
      /\ sock[sessions[ch]].pc \notin {"none", "gone"}
      /\ Key(sock[sessions[ch]]) = ch

\* An open session that is not on its way between two characters is found unless
\* it was robbed.
Kept ==
  \A k \in Sockets :
    sock[k].pc \in {"reading", "moving", "entering"} /\ ~sock[k].shut
      => sessions[Key(sock[k])] = k \/ sock[k].robbed

Registry == Found /\ Kept

\* _ws is the one socket the page holds, and _state, the timers and the token
\* follow it.
Holds(c) ==
  /\ ws[c] # NoSocket => sock[ws[c]].client = c /\ sock[ws[c]].end # "closed"
  /\ \A k \in Sockets : sock[k].client = c /\ sock[k].end # "closed" => k = ws[c]

Follows(c) ==
  /\ ws[c] = NoSocket => state[c] \in {"disconnected", "reconnecting"}
  /\ ws[c] # NoSocket => state[c] = IF sock[ws[c]].end = "open" THEN "connected"
                                                               ELSE "connecting"
  /\ timer[c] <=> state[c] = "reconnecting"
  /\ beat[c] <=> state[c] = "connected"
  /\ state[c] # "disconnected" => token[c]
  /\ \A ch \in Chars : Listed(c, ch) => token[c]

\* What is on its way to the server and back ends with what was chosen last.
Latest(q) == q[Len(q)]

Asked(c) ==
  wait[c] # <<>> => Latest(wait[c]) = charID[c]

Heard(c) ==
  LET r == sock[ws[c]] IN
  ws[c] # NoSocket /\ r.pc \in {"none", "reading", "moving", "arriving", "entering"} /\ charID[c] \in db =>
    /\ r.inq # <<>> => Latest(r.inq) = charID[c]
    /\ r.inq = <<>> => r.char \in {NoChar, charID[c]}

Shown(c) ==
  LET r == sock[ws[c]] IN
  ws[c] # NoSocket /\ r.pc = "reading" /\ ~r.shut /\ r.char # NoChar =>
    /\ r.outq # <<>> => Latest(r.outq) = r.char
    /\ r.outq = <<>> => self[c] = r.char

Entry(c) == scene[c] = "map" => Asked(c) /\ Heard(c) /\ Shown(c)

SocketInv == \A c \in Clients : Holds(c) /\ Follows(c)
EntryInv == \A c \in Clients : Entry(c)

ConnectionInv == Types /\ Characters /\ Registry /\ SocketInv /\ EntryInv

LEMMA NothingQueued == <<>> \in Seq(Chars)
  OBVIOUS

LEMMA ListingFacts ==
  /\ NotListed \in Listing /\ {} \in Listing
  /\ \A chars : chars \subseteq Chars => chars \in Listing
  BY Zenon DEF Listing

LEMMA KindsFacts ==
  /\ {} \in Kinds
  /\ \A q \in Kinds, n \in {"login", "create"} :
       q \cup {n} \in Kinds /\ q \ {n} \in Kinds
  BY DEF Kinds

LEMMA FreshFacts ==
  /\ Fresh \in Socket
  /\ Fresh.end = "closed" /\ Fresh.pc = "gone" /\ Fresh.client = NoChar
  /\ Fresh.char = NoChar /\ Fresh.inq = <<>> /\ Fresh.outq = <<>> /\ Fresh.shut
  BY NothingQueued DEF Fresh, Socket

LEMMA FinishedFacts ==
  ASSUME NEW r \in Socket
  PROVE  /\ Finished(r) \in Socket
         /\ Finished(r).end = r.end /\ Finished(r).pc = r.pc
         /\ Finished(r) = r \/ (Finished(r) = Fresh /\ r.end = "closed" /\ r.pc = "gone")
<1>1. CASE r.end = "closed" /\ r.pc = "gone"
  <2>1. Finished(r) = Fresh
    BY <1>1, Zenon DEF Finished
  <2>2. QED
    BY <1>1, <2>1, FreshFacts
<1>2. CASE ~(r.end = "closed" /\ r.pc = "gone")
  <2>1. Finished(r) = r
    BY <1>2, Zenon DEF Finished
  <2>2. QED
    BY <2>1
<1>3. QED
  BY <1>1, <1>2

LEMMA ConnectionInit == Init => ConnectionInv
<1> SUFFICES ASSUME Init PROVE ConnectionInv
  OBVIOUS
<1>1. Types
  <2>1. PageTypes
    BY ListingFacts, KindsFacts DEF Init, PageTypes, Scenes
  <2>2. LinkTypes
    BY NothingQueued, ConstantsAssumption DEF Init, LinkTypes, States
  <2>3. sock \in [Sockets -> Socket]
    BY FreshFacts DEF Init
  <2>4. ServerTypes
    BY <2>3, ConstantsAssumption DEF Init, ServerTypes
  <2>5. QED
    BY <2>1, <2>2, <2>4 DEF Types
<1>2. Characters
  BY FreshFacts DEF Init, Characters
<1>3. Registry
  BY FreshFacts DEF Init, Registry, Found, Kept
<1>4. SocketInv
  <2> SUFFICES ASSUME NEW c \in Clients PROVE Holds(c) /\ Follows(c)
    BY Zenon DEF SocketInv
  <2>1. Holds(c)
    BY FreshFacts DEF Init, Holds
  <2>2. Follows(c)
    BY DEF Init, Follows, Listed
  <2>3. QED
    BY <2>1, <2>2
<1>5. EntryInv
  BY DEF Init, EntryInv, Entry
<1>6. QED
  BY <1>1, <1>2, <1>3, <1>4, <1>5 DEF ConnectionInv

-----------------------------------------------------------------------------
(* The ranges of the variables *)

\* _doConnect and disconnect, on the socket they take.
Opening(c) == [Fresh EXCEPT !.client = c, !.end = "opening",
                            !.hooked = TRUE, !.pc = "none", !.shut = FALSE]

Closing(r) == Finished([r EXCEPT !.hooked = FALSE, !.end = "closed", !.outq = <<>>])

\* The same goroutine for the same character, as the registry sees it.
Alike(q, r) ==
  /\ q.pc = r.pc
  /\ r.pc # "gone" => /\ q.char = r.char /\ q.from = r.from
                      /\ q.shut = r.shut /\ q.robbed = r.robbed

LEMMA OpeningFacts ==
  ASSUME NEW c \in Clients
  PROVE  /\ Opening(c) \in Socket
         /\ Opening(c).client = c /\ Opening(c).end = "opening" /\ Opening(c).pc = "none"
         /\ Opening(c).char = NoChar /\ Opening(c).inq = <<>> /\ Opening(c).outq = <<>>
  BY NothingQueued, FreshFacts DEF Opening, Socket

LEMMA ClosingFacts ==
  ASSUME NEW r \in Socket
  PROVE  /\ Closing(r) \in Socket
         /\ Closing(r).end = "closed" /\ Alike(Closing(r), r)
<1> DEFINE q == [r EXCEPT !.hooked = FALSE, !.end = "closed", !.outq = <<>>]
<1>1. q \in Socket /\ q.end = "closed" /\ Alike(q, r)
  BY NothingQueued DEF Socket, Alike
<1> HIDE DEF q
<1>2. Finished(q) \in Socket /\ Finished(q).end = q.end /\ Alike(Finished(q), q)
  BY <1>1, FinishedFacts, FreshFacts DEF Alike
<1>3. QED
  BY <1>1, <1>2 DEF Closing, Alike, q

\* The sockets without the one that disconnect closes.
Others(c) == IF ws[c] = NoSocket THEN sock ELSE Hushed(ws[c])

LEMMA OthersFacts ==
  ASSUME Types, NEW c \in Clients
  PROVE  /\ Others(c) \in [Sockets -> Socket]
         /\ \A k \in Sockets : k # ws[c] => Others(c)[k] = sock[k]
         /\ ws[c] # NoSocket => Others(c)[ws[c]] = Closing(sock[ws[c]])
<1>1. sock \in [Sockets -> Socket] /\ ws[c] \in Sockets \cup {NoSocket}
  BY DEF Types, LinkTypes, ServerTypes
<1>2. CASE ws[c] = NoSocket
  BY <1>1, <1>2 DEF Others
<1>3. CASE ws[c] # NoSocket
  <2>1. Others(c) = [sock EXCEPT ![ws[c]] = Closing(@)]
    BY <1>3, Zenon DEF Others, Hushed, Closing
  <2>2. Closing(sock[ws[c]]) \in Socket
    BY <1>1, <1>3, ClosingFacts
  <2>3. QED
    BY <1>1, <1>3, <2>1, <2>2
<1>4. QED
  BY <1>2, <1>3

LEMMA DisconnectOthers ==
  ASSUME NEW c, Disconnect(c)
  PROVE  sock' = Others(c)
  BY DEF Disconnect, Others

LEMMA QueueFacts ==
  ASSUME NEW q \in Seq(Chars)
  PROVE  /\ q # <<>> => Head(q) \in Chars /\ Tail(q) \in Seq(Chars)
         /\ \A ch \in Chars : Append(q, ch) \in Seq(Chars)
         /\ \A r \in Seq(Chars) : q \o r \in Seq(Chars)
  OBVIOUS

pageVars == <<scene, listed, busy, deleting, posting, charID, token, self>>
linkVars == <<state, attempts, timer, beat, ws, wait>>

LEMMA PageSame ==
  ASSUME PageTypes, UNCHANGED pageVars PROVE PageTypes'
  BY DEF PageTypes, pageVars

LEMMA LinkSame ==
  ASSUME LinkTypes, UNCHANGED linkVars PROVE LinkTypes'
  BY DEF LinkTypes, linkVars

LEMMA ServerSame ==
  ASSUME ServerTypes, sock' \in [Sockets -> Socket], UNCHANGED <<serverVars, drops>>
  PROVE  ServerTypes'
  BY DEF ServerTypes, serverVars

LEMMA GotoTypes ==
  ASSUME PageTypes, NEW c \in Clients, NEW s \in Scenes, Goto(c, s)
  PROVE  /\ scene' \in [Clients -> Scenes] /\ listed' \in [Clients -> Listing]
         /\ busy' \in [Clients -> BOOLEAN]
  BY ListingFacts DEF PageTypes, Goto

\* What the page does while it waits for answers.
LEMMA PageStep ==
  ASSUME PageTypes, db \subseteq Chars, NEW c \in Clients,
         \/ PressLogin(c) \/ LoginAnswer(c) \/ ListAnswer(c)
         \/ (\E ch \in Chars : PressDelete(c, ch)) \/ PressCreate(c) \/ CreateAnswer(c)
         \/ Leave(c)
  PROVE  PageTypes'
<1> USE ListingFacts DEF PageTypes, Scenes
<1>0. \A n \in {"login", "create"} : /\ posting[c] \cup {n} \in Kinds
                                     /\ posting[c] \ {n} \in Kinds
  BY KindsFacts
<1>1. CASE PressLogin(c)
  BY <1>0, <1>1 DEF PressLogin
<1>2. CASE LoginAnswer(c)
  <2>1. CASE Goto(c, "select")
    BY <1>0, <1>2, <2>1, GotoTypes DEF LoginAnswer
  <2>2. CASE ~Goto(c, "select")
    BY <1>0, <1>2, <2>2 DEF LoginAnswer
  <2>3. QED
    BY <2>1, <2>2
<1>3. CASE ListAnswer(c)
  BY <1>3 DEF ListAnswer
<1>4. CASE \E ch \in Chars : PressDelete(c, ch)
  BY <1>4 DEF PressDelete
<1>5. CASE PressCreate(c)
  BY <1>0, <1>5 DEF PressCreate
<1>6. CASE CreateAnswer(c)
  <2>1. CASE Goto(c, "select")
    BY <1>0, <1>6, <2>1, GotoTypes DEF CreateAnswer
  <2>2. CASE ~Goto(c, "select")
    BY <1>0, <1>6, <2>2 DEF CreateAnswer
  <2>3. QED
    BY <2>1, <2>2
<1>7. CASE Leave(c)
  BY <1>7, GotoTypes DEF Leave
<1>8. QED
  BY <1>1, <1>2, <1>3, <1>4, <1>5, <1>6, <1>7

LEMMA DisconnectTypes ==
  ASSUME Types, NEW c \in Clients, Disconnect(c), UNCHANGED <<attempts, wait>>
  PROVE  LinkTypes' /\ sock' \in [Sockets -> Socket]
<1>1. sock' \in [Sockets -> Socket]
  BY DisconnectOthers, OthersFacts
<1>2. LinkTypes'
  BY DEF Disconnect, Types, LinkTypes, States
<1>3. QED
  BY <1>1, <1>2

LEMMA ConnectingTypes ==
  ASSUME Types, NEW c \in Clients, NEW k \in Sockets, NEW s \in [Sockets -> Socket],
         Connecting(s, c, k)
  PROVE  /\ sock' = [s EXCEPT ![k] = Opening(c)]
         /\ sock' \in [Sockets -> Socket]
         /\ ws' \in [Clients -> Sockets \cup {NoSocket}] /\ state' \in [Clients -> States]
<1>1. sock' = [s EXCEPT ![k] = Opening(c)]
  BY DEF Connecting, Opening
<1>2. sock' \in [Sockets -> Socket]
  BY <1>1, OpeningFacts
<1>3. QED
  BY <1>1, <1>2 DEF Connecting, Types, LinkTypes, States

LEMMA TheSocket ==
  ASSUME Types, NEW k \in Sockets
  PROVE  \E r \in Socket : r = sock[k]
  BY DEF Types, ServerTypes

LEMMA OneChanged ==
  ASSUME Types, NEW k \in Sockets, NEW r \in Socket, sock' = [sock EXCEPT ![k] = r]
  PROVE  sock' \in [Sockets -> Socket]
  BY DEF Types, ServerTypes

LEMMA OpenedTypes ==
  ASSUME Types, NEW c \in Clients, NEW k \in Sockets, Opened(c, k)
  PROVE  Types'
<1>1. sock[k] \in Socket /\ wait[c] \in Seq(Chars) /\ sock[k].inq \in Seq(Chars)
  BY DEF Types, LinkTypes, ServerTypes, Socket
<1> DEFINE q == IF k = ws[c] THEN sock[k].inq \o wait[c] ELSE sock[k].inq
<1>2. q \in Seq(Chars)
  BY <1>1, QueueFacts
<1>3. sock' = [sock EXCEPT ![k] = [sock[k] EXCEPT !.end = "open", !.inq = q]]
  BY DEF Opened, Types, ServerTypes
<1> HIDE DEF q
<1>4. sock' \in [Sockets -> Socket]
  BY <1>1, <1>2, <1>3 DEF Socket, Types, ServerTypes
<1>5. LinkTypes'
  BY NothingQueued, ConstantsAssumption DEF Opened, Types, LinkTypes, States
<1>6. QED
  BY <1>4, <1>5, PageSame, ServerSame DEF Opened, Types, pageVars, serverVars

LEMMA ScheduleTypes ==
  ASSUME Types, NEW c \in Clients, ScheduleReconnect(c), UNCHANGED <<listed, busy, deleting, posting>>
  PROVE  /\ PageTypes'
         /\ state' \in [Clients -> States] /\ attempts' \in [Clients -> 0 .. ReconnectMax]
         /\ timer' \in [Clients -> BOOLEAN]
<1>1. CASE GiveUp(c)
  BY <1>1 DEF GiveUp, Types, PageTypes, LinkTypes, Scenes, States
<1>2. CASE ~GiveUp(c)
  <2>1. attempts[c] \in Nat /\ attempts[c] < ReconnectMax
    BY <1>2 DEF ScheduleReconnect, Types, LinkTypes
  <2>2. attempts[c] + 1 \in 0 .. ReconnectMax
    BY <2>1, ConstantsAssumption
  <2>3. PageTypes'
    BY <1>2, PageSame DEF ScheduleReconnect, Types, pageVars
  <2>4. QED
    BY <1>2, <2>2, <2>3 DEF ScheduleReconnect, Types, LinkTypes, States
<1>3. QED
  BY <1>1, <1>2

LEMMA ClosedTypes ==
  ASSUME Types, NEW c \in Clients, NEW k \in Sockets, Closed(c, k)
  PROVE  Types'
<1>0. PICK r \in Socket : r = sock[k]
  BY TheSocket
<1> DEFINE q == [r EXCEPT !.end = "closed", !.outq = <<>>]
<1>1. q \in Socket
  BY NothingQueued DEF Socket
<1>2. sock' = [sock EXCEPT ![k] = Finished(q)]
  <2>1. sock' = [sock EXCEPT ![k] = Finished([sock[k] EXCEPT !.end = "closed", !.outq = <<>>])]
    BY ZenonT(60) DEF Closed
  <2>2. QED
    BY <1>0, <2>1
<1> HIDE DEF q
<1>3. sock' \in [Sockets -> Socket]
  BY <1>1, <1>2, FinishedFacts DEF Types, ServerTypes
<1>4. ServerTypes'
  BY <1>3, ServerSame DEF Closed, Types
<1>5. /\ ws' \in [Clients -> Sockets \cup {NoSocket}] /\ wait' = wait
      /\ beat' \in [Clients -> BOOLEAN]
  BY DEF Closed, Types, LinkTypes
<1>6. CASE state[c] \in {"connected", "connecting"}
  <2>1. ScheduleReconnect(c) /\ UNCHANGED <<listed, busy, deleting, posting>>
    BY <1>6 DEF Closed
  <2>2. QED
    BY <1>4, <1>5, <2>1, ScheduleTypes DEF Types, LinkTypes
<1>7. CASE state[c] \notin {"connected", "connecting"}
  <2>1. UNCHANGED <<state, attempts, timer, scene, charID, token, self>>
    BY <1>7 DEF Closed
  <2>2. PageTypes'
    BY <2>1, PageSame DEF Closed, Types, pageVars
  <2>3. QED
    BY <1>4, <1>5, <2>1, <2>2 DEF Types, LinkTypes
<1>8. QED
  BY <1>6, <1>7

LEMMA ReconnectTypes ==
  ASSUME Types, NEW c \in Clients, Reconnect(c)
  PROVE  Types'
<1>1. PICK k \in Sockets : Connecting(sock, c, k)
  BY DEF Reconnect
<1>2. sock \in [Sockets -> Socket]
  BY DEF Types, ServerTypes
<1>3. /\ sock' \in [Sockets -> Socket] /\ state' \in [Clients -> States]
      /\ ws' \in [Clients -> Sockets \cup {NoSocket}]
  BY <1>1, <1>2, ConnectingTypes
<1>4. LinkTypes'
  BY <1>3 DEF Reconnect, Types, LinkTypes
<1>5. QED
  BY <1>3, <1>4, PageSame, ServerSame DEF Reconnect, Types, pageVars

LEMMA MapInitTypes ==
  ASSUME Types, NEW c \in Clients, NEW k \in Sockets, MapInit(c, k)
  PROVE  Types'
<1>1. /\ sock[k] \in Socket /\ sock[k].outq \in Seq(Chars) /\ sock[k].outq # <<>>
  BY DEF MapInit, Types, ServerTypes, Socket
<1>2. Head(sock[k].outq) \in Chars /\ Tail(sock[k].outq) \in Seq(Chars)
  BY <1>1, QueueFacts
<1>3. sock' = [sock EXCEPT ![k] = [sock[k] EXCEPT !.outq = Tail(sock[k].outq)]]
  BY DEF MapInit, Types, ServerTypes
<1>4. sock' \in [Sockets -> Socket]
  BY <1>1, <1>2, <1>3 DEF Socket, Types, ServerTypes
<1>5. PageTypes'
  BY <1>2 DEF MapInit, Types, PageTypes
<1>6. QED
  BY <1>4, <1>5, LinkSame, ServerSame DEF MapInit, Types, linkVars

LEMMA EnterGameTypes ==
  ASSUME Types, NEW c \in Clients, NEW ch \in Chars, EnterGame(c, ch)
  PROVE  Types'
<1>1. PICK k \in Sockets : Connecting(Others(c), c, k)
  BY Zenon DEF EnterGame, Others
<1>2. /\ sock' \in [Sockets -> Socket] /\ state' \in [Clients -> States]
      /\ ws' \in [Clients -> Sockets \cup {NoSocket}]
  BY <1>1, OthersFacts, ConnectingTypes
<1>3. Append(wait[c], ch) \in Seq(Chars)
  BY QueueFacts DEF Types, LinkTypes
<1>4. LinkTypes'
  BY <1>2, <1>3 DEF EnterGame, Types, LinkTypes
<1>5. "map" \in Scenes /\ Goto(c, "map")
  BY DEF EnterGame, Scenes
<1>6. PageTypes'
  BY <1>5, GotoTypes DEF EnterGame, Types, PageTypes
<1>7. QED
  BY <1>2, <1>4, <1>6, ServerSame DEF EnterGame, Types

LEMMA DeleteAnswerTypes ==
  ASSUME Types, NEW c \in Clients, DeleteAnswer(c)
  PROVE  Types'
<1>1. CASE Disconnect(c) /\ Goto(c, "select")
  <2>1. LinkTypes' /\ sock' \in [Sockets -> Socket]
    BY <1>1, DisconnectTypes DEF DeleteAnswer
  <2>2. PageTypes'
    BY <1>1, GotoTypes DEF DeleteAnswer, Types, PageTypes, Scenes
  <2>3. QED
    BY <2>1, <2>2, ServerSame DEF DeleteAnswer, Types
<1>2. CASE ~(Disconnect(c) /\ Goto(c, "select"))
  <2>1. UNCHANGED <<scene, listed, busy, state, timer, beat, ws, charID, sock>>
    BY <1>2 DEF DeleteAnswer
  <2>2. PageTypes'
    BY <2>1 DEF DeleteAnswer, Types, PageTypes
  <2>3. QED
    BY <2>1, <2>2, LinkSame DEF DeleteAnswer, Types, linkVars, ServerTypes, serverVars
<1>3. QED
  BY <1>1, <1>2

LEMMA LogoutTypes ==
  ASSUME Types, NEW c \in Clients, Logout(c)
  PROVE  Types'
<1>1. LinkTypes' /\ sock' \in [Sockets -> Socket]
  BY DisconnectTypes DEF Logout
<1>2. PICK s \in {"login", "title"} : Goto(c, s)
  BY DEF Logout
<1>3. PageTypes'
  BY <1>2, GotoTypes DEF Logout, Types, PageTypes, Scenes
<1>4. QED
  BY <1>1, <1>3, ServerSame DEF Logout, Types

LEMMA Flagged ==
  ASSUME NEW r \in Socket
  PROVE  /\ [r EXCEPT !.shut = TRUE] \in Socket /\ [r EXCEPT !.robbed = TRUE] \in Socket
         /\ \A n \in {"reading", "entering", "gone"} : [r EXCEPT !.pc = n] \in Socket
         /\ [r EXCEPT !.from = NoChar, !.pc = "arriving"] \in Socket
         /\ [r EXCEPT !.pc = "entering", !.robbed = FALSE] \in Socket
  BY DEF Socket

LEMMA RegisterTypes ==
  ASSUME Types, NEW k \in Sockets, NEW r \in Socket, Register(k, r)
  PROVE  /\ sock' \in [Sockets -> Socket]
         /\ sessions' \in [Chars \cup {NoChar} -> Sockets \cup {NoSocket}]
         /\ sock'[k] = r
         /\ \A j \in Sockets : j # k =>
              IF j = sessions[r.char] THEN sock'[j] = [sock[j] EXCEPT !.shut = TRUE]
                                      ELSE sock'[j] = sock[j]
<1>1. \A j \in Sockets : sock[j] \in Socket /\ [sock[j] EXCEPT !.shut = TRUE] \in Socket
  BY Flagged DEF Types, ServerTypes
<1>2. r.char \in Chars \cup {NoChar}
  BY DEF Socket
<1>3. QED
  BY <1>1, <1>2 DEF Register, Types, ServerTypes

LEMMA UnregisterTypes ==
  ASSUME Types, NEW ch \in Chars \cup {NoChar}, NEW k \in Sockets, NEW r \in Socket,
         Unregister(ch, k, r)
  PROVE  /\ sock' \in [Sockets -> Socket]
         /\ sessions' \in [Chars \cup {NoChar} -> Sockets \cup {NoSocket}]
         /\ sock'[k] = r
         /\ \A j \in Sockets : j # k =>
              IF j = sessions[ch] THEN sock'[j] = [sock[j] EXCEPT !.robbed = TRUE]
                                  ELSE sock'[j] = sock[j]
<1>1. \A j \in Sockets : sock[j] \in Socket /\ [sock[j] EXCEPT !.robbed = TRUE] \in Socket
  BY Flagged DEF Types, ServerTypes
<1>2. QED
  BY <1>1 DEF Unregister, Types, ServerTypes

LEMMA AcceptTypes ==
  ASSUME Types, NEW k \in Sockets, Accept(k)
  PROVE  /\ [sock[k] EXCEPT !.pc = "reading"] \in Socket
         /\ Register(k, [sock[k] EXCEPT !.pc = "reading"])
         /\ ServerTypes'
<1>1. /\ [sock[k] EXCEPT !.pc = "reading"] \in Socket
      /\ Register(k, [sock[k] EXCEPT !.pc = "reading"])
  BY Flagged DEF Accept, Types, ServerTypes
<1>2. QED
  BY <1>1, RegisterTypes DEF Accept, Types, ServerTypes

LEMMA TakeNewCharTypes ==
  ASSUME Types, NEW k \in Sockets, TakeNewChar(k)
  PROVE  /\ [sock[k] EXCEPT !.pc = "entering", !.robbed = FALSE] \in Socket
         /\ Register(k, [sock[k] EXCEPT !.pc = "entering", !.robbed = FALSE])
         /\ ServerTypes'
<1>1. /\ [sock[k] EXCEPT !.pc = "entering", !.robbed = FALSE] \in Socket
      /\ Register(k, [sock[k] EXCEPT !.pc = "entering", !.robbed = FALSE])
  BY Flagged DEF TakeNewChar, Types, ServerTypes
<1>2. QED
  BY <1>1, RegisterTypes DEF TakeNewChar, Types, ServerTypes

LEMMA LeaveOldCharTypes ==
  ASSUME Types, NEW k \in Sockets, LeaveOldChar(k)
  PROVE  /\ [sock[k] EXCEPT !.from = NoChar, !.pc = "arriving"] \in Socket
         /\ sock[k].from \in Chars \cup {NoChar}
         /\ Unregister(sock[k].from, k, [sock[k] EXCEPT !.from = NoChar, !.pc = "arriving"])
         /\ ServerTypes'
<1>0. sock[k] \in Socket
  BY DEF Types, ServerTypes
<1>1. /\ [sock[k] EXCEPT !.from = NoChar, !.pc = "arriving"] \in Socket
      /\ sock[k].from \in Chars \cup {NoChar}
  <2>1. [sock[k] EXCEPT !.from = NoChar, !.pc = "arriving"] \in Socket
    BY <1>0, Flagged
  <2>2. \A r \in Socket : r.from \in Chars \cup {NoChar}
    BY DEF Socket
  <2>3. QED
    BY <1>0, <2>1, <2>2
<1>2. Unregister(sock[k].from, k, [sock[k] EXCEPT !.from = NoChar, !.pc = "arriving"])
  BY DEF LeaveOldChar
<1>3. QED
  BY <1>1, <1>2, UnregisterTypes DEF LeaveOldChar, Types, ServerTypes

LEMMA RefuseTypes ==
  ASSUME Types, NEW k \in Sockets, Refuse(k)
  PROVE  /\ sock' = [sock EXCEPT ![k] = Finished([sock[k] EXCEPT !.pc = "gone", !.shut = TRUE])]
         /\ ServerTypes'
<1>0. PICK r \in Socket : r = sock[k]
  BY TheSocket
<1> DEFINE q == [r EXCEPT !.pc = "gone", !.shut = TRUE]
<1>1. q \in Socket
  BY DEF Socket
<1>2. sock' = [sock EXCEPT ![k] = Finished([sock[k] EXCEPT !.pc = "gone", !.shut = TRUE])]
  BY Zenon DEF Refuse
<1>3. sock' = [sock EXCEPT ![k] = Finished(q)]
  BY <1>0, <1>2
<1> HIDE DEF q
<1>4. sock' \in [Sockets -> Socket]
  BY <1>1, <1>3, FinishedFacts DEF Types, ServerTypes
<1>5. QED
  BY <1>2, <1>4, ServerSame DEF Refuse, Types

\* What HandleEnterMap makes of the session.
LEMMA HandleEnterMapFacts ==
  ASSUME Types, NEW k \in Sockets, HandleEnterMap(k), NEW r \in Socket, r = sock[k]
  PROVE  LET ch == Head(r.inq)
             q == sock'[k]
         IN /\ ch \in Chars /\ r.inq # <<>> /\ r.pc = "reading"
            /\ q \in Socket /\ sock' = [sock EXCEPT ![k] = q]
            /\ q.inq = Tail(r.inq) /\ q.outq = r.outq /\ q.shut = r.shut
            /\ q.robbed = r.robbed /\ q.end = r.end /\ q.client = r.client
            /\ q.char = IF ch \in db THEN ch ELSE r.char
            /\ \/ ch \notin db /\ q.pc = "reading"
               \/ ch \in db /\ ch = r.char /\ q.pc = "entering"
               \/ ch \in db /\ q.pc = "moving" /\ q.from = r.char
<1> DEFINE ch == Head(r.inq)
           tail == Tail(r.inq)
           read == [r EXCEPT !.inq = tail]
<1>1. ch \in Chars /\ tail \in Seq(Chars) /\ r.inq # <<>> /\ r.pc = "reading"
  BY QueueFacts DEF HandleEnterMap, Socket
<1>2. sock' = [sock EXCEPT ![k] =
         IF ch \notin db THEN read
         ELSE IF ch = r.char THEN [read EXCEPT !.pc = "entering"]
         ELSE [read EXCEPT !.pc = "moving", !.from = r.char, !.char = ch]]
  BY DEF HandleEnterMap
<1>3. sock \in [Sockets -> Socket]
  BY DEF Types, ServerTypes
<1> HIDE DEF ch, tail
<1>4. CASE ch \notin db
  <2>1. sock'[k] = read /\ sock' = [sock EXCEPT ![k] = read]
    BY <1>2, <1>3, <1>4
  <2>2. /\ read \in Socket /\ read.inq = tail /\ read.outq = r.outq /\ read.shut = r.shut
        /\ read.robbed = r.robbed /\ read.end = r.end /\ read.client = r.client
        /\ read.char = r.char /\ read.from = r.from /\ read.pc = "reading"
    BY <1>1 DEF Socket
  <2> HIDE DEF read
  <2>3. QED
    BY <1>1, <1>4, <2>1, <2>2 DEF ch, tail
<1>5. CASE ch \in db /\ ch = r.char
  <2> DEFINE q == [r EXCEPT !.inq = tail, !.pc = "entering"]
  <2>1. sock'[k] = q /\ sock' = [sock EXCEPT ![k] = q]
    BY <1>2, <1>3, <1>5
  <2>2. /\ q \in Socket /\ q.inq = tail /\ q.outq = r.outq /\ q.shut = r.shut
        /\ q.robbed = r.robbed /\ q.end = r.end /\ q.client = r.client
        /\ q.char = r.char /\ q.from = r.from /\ q.pc = "entering"
    BY <1>1 DEF Socket
  <2> HIDE DEF q
  <2>3. QED
    BY <1>1, <1>5, <2>1, <2>2 DEF ch, tail
<1>6. CASE ch \in db /\ ch # r.char
  <2> DEFINE q == [r EXCEPT !.inq = tail, !.pc = "moving", !.from = r.char, !.char = ch]
  <2>1. sock'[k] = q /\ sock' = [sock EXCEPT ![k] = q]
    BY <1>2, <1>3, <1>6
  <2>2. /\ q \in Socket /\ q.inq = tail /\ q.outq = r.outq /\ q.shut = r.shut
        /\ q.robbed = r.robbed /\ q.end = r.end /\ q.client = r.client
        /\ q.char = ch /\ q.from = r.char /\ q.pc = "moving"
    BY <1>1 DEF Socket
  <2> HIDE DEF q
  <2>3. QED
    BY <1>1, <1>6, <2>1, <2>2 DEF ch, tail
<1>7. QED
  BY <1>4, <1>5, <1>6

LEMMA HandleEnterMapTypes ==
  ASSUME Types, NEW k \in Sockets, HandleEnterMap(k)
  PROVE  ServerTypes'
<1>1. PICK r \in Socket : r = sock[k]
  BY TheSocket
<1>2. sock'[k] \in Socket /\ sock' = [sock EXCEPT ![k] = sock'[k]]
  BY <1>1, HandleEnterMapFacts
<1>3. sock' \in [Sockets -> Socket]
  BY <1>2 DEF Types, ServerTypes
<1>4. QED
  BY <1>3, ServerSame DEF HandleEnterMap, Types

LEMMA EnterMapRoomTypes ==
  ASSUME Types, Characters, NEW k \in Sockets, EnterMapRoom(k)
  PROVE  ServerTypes'
<1> DEFINE q == IF sock[k].end = "closed" \/ sock[k].shut THEN sock[k].outq
                ELSE Append(sock[k].outq, sock[k].char)
<1>1. sock[k].char \in Chars /\ sock[k].outq \in Seq(Chars)
  BY DEF EnterMapRoom, Characters, Types, ServerTypes, Socket
<1>2. q \in Seq(Chars)
  BY <1>1, QueueFacts
<1>3. sock' = [sock EXCEPT ![k] = [sock[k] EXCEPT !.pc = "reading", !.inMap = TRUE, !.outq = q]]
  BY DEF EnterMapRoom, Types, ServerTypes
<1> HIDE DEF q
<1>4. sock' \in [Sockets -> Socket]
  <2>1. PICK r \in Socket : r = sock[k]
    BY TheSocket
  <2>2. [r EXCEPT !.pc = "reading", !.inMap = TRUE, !.outq = q] \in Socket
    BY <1>2 DEF Socket
  <2>3. QED
    BY <1>3, <2>1, <2>2, OneChanged
<1>5. QED
  BY <1>1, <1>4 DEF EnterMapRoom, Types, ServerTypes

LEMMA HandleDisconnectTypes ==
  ASSUME Types, NEW k \in Sockets, HandleDisconnect(k)
  PROVE  ServerTypes'
<1>1. sock' \in [Sockets -> Socket]
  <2>1. PICK r \in Socket : r = sock[k]
    BY TheSocket
  <2>2. [r EXCEPT !.pc = "leaving", !.shut = TRUE, !.inq = <<>>] \in Socket
    BY NothingQueued DEF Socket
  <2>3. sock' = [sock EXCEPT ![k] = [r EXCEPT !.pc = "leaving", !.shut = TRUE, !.inq = <<>>]]
    BY <2>1 DEF HandleDisconnect
  <2>4. QED
    BY <2>2, <2>3, OneChanged
<1>2. room' \in [Chars -> Sockets \cup {NoSocket}]
  BY DEF HandleDisconnect, Types, ServerTypes
<1>3. QED
  BY <1>1, <1>2 DEF HandleDisconnect, Types, ServerTypes

LEMMA EndDisconnectTypes ==
  ASSUME Types, NEW k \in Sockets, EndDisconnect(k)
  PROVE  /\ Finished([sock[k] EXCEPT !.pc = "gone"]) \in Socket
         /\ Finished([sock[k] EXCEPT !.pc = "gone"]).pc = "gone"
         /\ Finished([sock[k] EXCEPT !.pc = "gone"]).end = sock[k].end
         /\ \/ sock[k].end = "closed"
            \/ Finished([sock[k] EXCEPT !.pc = "gone"]).client = sock[k].client
         /\ sock[k].char \in Chars \cup {NoChar}
         /\ Unregister(sock[k].char, k, Finished([sock[k] EXCEPT !.pc = "gone"]))
         /\ ServerTypes'
<1>0. PICK r \in Socket : r = sock[k]
  BY TheSocket
<1> DEFINE q == [r EXCEPT !.pc = "gone"]
<1>1. /\ q \in Socket /\ q.pc = "gone" /\ q.end = r.end /\ q.client = r.client
      /\ r.char \in Chars \cup {NoChar}
  BY DEF Socket
<1>2. Unregister(r.char, k, Finished(q))
  BY <1>0 DEF EndDisconnect
<1>3. q = [sock[k] EXCEPT !.pc = "gone"]
  BY <1>0
<1> HIDE DEF q
<1>4. /\ Finished(q) \in Socket /\ Finished(q).pc = "gone" /\ Finished(q).end = q.end
      /\ Finished(q) = q \/ q.end = "closed"
  BY <1>1, FinishedFacts
<1>5. ServerTypes'
  BY <1>1, <1>2, <1>4, UnregisterTypes DEF EndDisconnect, Types, ServerTypes
<1>6. QED
  BY <1>0, <1>1, <1>2, <1>3, <1>4, <1>5

LEMMA CutTypes ==
  ASSUME Types, NEW k \in Sockets, Cut(k)
  PROVE  ServerTypes'
<1>1. sock' \in [Sockets -> Socket]
  <2>1. PICK r \in Socket : r = sock[k]
    BY TheSocket
  <2>2. [r EXCEPT !.cut = TRUE] \in Socket
    BY DEF Socket
  <2>3. sock' = [sock EXCEPT ![k] = [r EXCEPT !.cut = TRUE]]
    BY <2>1 DEF Cut
  <2>4. QED
    BY <2>2, <2>3, OneChanged
<1>2. drops' \in 0 .. MaxDrops
  BY ConstantsAssumption DEF Cut, Types, ServerTypes
<1>3. QED
  BY <1>1, <1>2 DEF Cut, Types, ServerTypes, serverVars

LEMMA TypesStep ==
  ASSUME Types, Characters, [Next]_vars
  PROVE  Types'
<1>0. db \subseteq Chars
  BY DEF Types, ServerTypes
<1>1. CASE UNCHANGED vars
  BY <1>1, PageSame, LinkSame
     DEF vars, clientVars, serverVars, Types, pageVars, linkVars, ServerTypes
<1>2. ASSUME NEW c \in Clients, User(c) \/ Answers(c) PROVE Types'
  <2>1. CASE \/ PressLogin(c) \/ LoginAnswer(c) \/ ListAnswer(c)
             \/ (\E ch \in Chars : PressDelete(c, ch)) \/ PressCreate(c) \/ CreateAnswer(c)
             \/ Leave(c)
    <3>1. PageTypes'
      BY <1>0, <2>1, PageStep DEF Types
    <3>2. UNCHANGED <<linkVars, sock, serverVars, drops>>
      BY <2>1 DEF PressLogin, LoginAnswer, ListAnswer, PressDelete, PressCreate,
                  CreateAnswer, Leave, linkVars, serverVars
    <3>3. ServerTypes'
      BY <3>2, ServerSame DEF Types, ServerTypes
    <3>4. QED
      BY <3>1, <3>2, <3>3, LinkSame DEF Types
  <2>2. CASE Logout(c)
    BY <2>2, LogoutTypes
  <2>3. CASE \E ch \in Chars : EnterGame(c, ch)
    BY <2>3, EnterGameTypes
  <2>4. CASE DeleteAnswer(c)
    BY <2>4, DeleteAnswerTypes
  <2>5. QED
    BY <1>2, <2>1, <2>2, <2>3, <2>4 DEF User, Answers
<1>3. ASSUME NEW c \in Clients, Browser(c) PROVE Types'
  BY <1>3, ReconnectTypes, OpenedTypes, ClosedTypes, MapInitTypes DEF Browser
<1>4. ASSUME NEW c \in Clients, ServeDelete(c) PROVE Types'
  <2>1. ServerTypes'
    BY <1>4 DEF ServeDelete, Types, ServerTypes
  <2>2. QED
    BY <1>4, <2>1, PageSame, LinkSame
       DEF ServeDelete, Types, clientVars, pageVars, linkVars
<1>5. ASSUME NEW k \in Sockets, Server(k) \/ Cut(k) PROVE Types'
  <2>1. ServerTypes'
    <3>1. CASE Server(k)
      BY <3>1, AcceptTypes, RefuseTypes, HandleEnterMapTypes, LeaveOldCharTypes,
         TakeNewCharTypes, EnterMapRoomTypes, HandleDisconnectTypes, EndDisconnectTypes,
         Zenon DEF Server
    <3>2. CASE Cut(k)
      BY <3>2, CutTypes, Zenon
    <3>3. QED
      BY <1>5, <3>1, <3>2
  <2>2. UNCHANGED clientVars
    BY <1>5 DEF Server, Accept, Refuse, HandleEnterMap, LeaveOldChar, TakeNewChar,
                EnterMapRoom, HandleDisconnect, EndDisconnect, Cut
  <2>3. QED
    BY <2>1, <2>2, PageSame, LinkSame DEF Types, clientVars, pageVars, linkVars
<1>6. QED
  BY <1>1, <1>2, <1>3, <1>4, <1>5 DEF Next

-----------------------------------------------------------------------------
(* The registry finds the right session *)

\* What a step of a page leaves alone: the goroutine and the character of every
\* session whose goroutine has not ended.
SessionsKept ==
  \A j \in Sockets :
    \/ Alike(sock'[j], sock[j])
    \/ sock[j].pc = "gone" /\ sock'[j].pc = "none" /\ sock'[j].char = NoChar

LEMMA OthersKept ==
  ASSUME Types, NEW c \in Clients, NEW j \in Sockets
  PROVE  Alike(Others(c)[j], sock[j])
<1>1. CASE j = ws[c] /\ ws[c] # NoSocket
  <2>1. sock[j] \in Socket /\ Others(c)[j] = Closing(sock[j])
    BY <1>1, OthersFacts DEF Types, ServerTypes
  <2>2. QED
    BY <2>1, ClosingFacts
<1>2. CASE j # ws[c] \/ ws[c] = NoSocket
  BY <1>2, OthersFacts, ConstantsAssumption DEF Alike
<1>3. QED
  BY <1>1, <1>2

LEMMA DisconnectKeeps ==
  ASSUME Types, NEW c \in Clients, Disconnect(c)
  PROVE  SessionsKept
  BY DisconnectOthers, OthersKept DEF SessionsKept

LEMMA ConnectingKeeps ==
  ASSUME Types, NEW c \in Clients, NEW s \in [Sockets -> Socket], NEW k \in Sockets,
         Connecting(s, c, k), \A j \in Sockets : Alike(s[j], sock[j])
  PROVE  SessionsKept
<1>1. sock' = [s EXCEPT ![k] = Opening(c)]
  BY ConnectingTypes
<1>2. sock[k].pc = "gone"
  BY FreshFacts DEF Connecting, Unused
<1> SUFFICES ASSUME NEW j \in Sockets
             PROVE  \/ Alike(sock'[j], sock[j])
                    \/ sock[j].pc = "gone" /\ sock'[j].pc = "none" /\ sock'[j].char = NoChar
  BY DEF SessionsKept
<1>3. CASE j = k
  BY <1>1, <1>2, <1>3, OpeningFacts
<1>4. CASE j # k
  BY <1>1, <1>4
<1>5. QED
  BY <1>3, <1>4

LEMMA BrowserKeeps ==
  ASSUME Types, NEW c \in Clients, Browser(c)
  PROVE  SessionsKept
<1>1. CASE Reconnect(c)
  <2>1. PICK k \in Sockets : Connecting(sock, c, k)
    BY <1>1 DEF Reconnect
  <2>2. sock \in [Sockets -> Socket]
    BY DEF Types, ServerTypes
  <2>3. QED
    BY <2>1, <2>2, ConnectingKeeps DEF Alike
<1>2. ASSUME NEW k \in Sockets, Opened(c, k) \/ MapInit(c, k)
      PROVE  SessionsKept
  <2>1. PICK r \in Socket : r = sock[k]
    BY TheSocket
  <2>2. sock \in [Sockets -> Socket]
    BY DEF Types, ServerTypes
  <2>3. Alike(sock'[k], r)
    BY <1>2, <2>1, <2>2 DEF Opened, MapInit, Socket, Alike
  <2>4. \A j \in Sockets : j # k => sock'[j] = sock[j]
    BY <1>2, <2>2 DEF Opened, MapInit
  <2>5. QED
    BY <2>1, <2>3, <2>4 DEF SessionsKept, Alike
<1>3. ASSUME NEW k \in Sockets, Closed(c, k)
      PROVE  SessionsKept
  <2>1. PICK r \in Socket : r = sock[k]
    BY TheSocket
  <2>2. sock' = [sock EXCEPT ![k] = Finished([sock[k] EXCEPT !.end = "closed", !.outq = <<>>])]
    BY <1>3, ZenonT(60) DEF Closed
  <2> DEFINE q == [r EXCEPT !.end = "closed", !.outq = <<>>]
  <2>3. q \in Socket /\ Alike(q, r)
    BY NothingQueued DEF Socket, Alike
  <2>4. sock' = [sock EXCEPT ![k] = Finished(q)]
    BY <2>1, <2>2
  <2> HIDE DEF q
  <2>5. Alike(Finished(q), r)
    BY <2>3, FinishedFacts DEF Alike
  <2> SUFFICES ASSUME NEW j \in Sockets PROVE Alike(sock'[j], sock[j])
    BY DEF SessionsKept
  <2>6. CASE j = k
    BY <2>1, <2>4, <2>5, <2>6 DEF Types, ServerTypes
  <2>7. CASE j # k
    BY <2>4, <2>7 DEF Types, ServerTypes, Alike
  <2>8. QED
    BY <2>6, <2>7
<1>4. QED
  BY <1>1, <1>2, <1>3 DEF Browser

LEMMA UserKeeps ==
  ASSUME Types, NEW c \in Clients, User(c) \/ Answers(c)
  PROVE  SessionsKept
<1>1. CASE sock' = sock
  BY <1>1 DEF SessionsKept, Alike
<1>2. CASE Disconnect(c)
  BY <1>2, DisconnectKeeps
<1>3. CASE \E ch \in Chars : EnterGame(c, ch)
  <2>1. PICK k \in Sockets : Connecting(Others(c), c, k)
    BY <1>3, Zenon DEF EnterGame, Others
  <2>2. QED
    BY <2>1, OthersFacts, OthersKept, ConnectingKeeps
<1>4. QED
  BY <1>1, <1>2, <1>3
     DEF User, Answers, PressLogin, Leave, PressCreate, Logout, PressDelete,
         LoginAnswer, ListAnswer, DeleteAnswer, CreateAnswer

LEMMA KeptCharacters ==
  ASSUME Characters, SessionsKept
  PROVE  Characters'
  BY DEF Characters, SessionsKept, Alike

\* A session that a step neither registers nor unregisters, nor closes or opens.
Steady(j) ==
  \/ sock[j].pc \in {"none", "gone"} /\ sock'[j].pc \in {"none", "gone"}
  \/ /\ sock[j].pc \notin {"none", "gone"} /\ sock'[j].pc \notin {"none", "gone"}
     /\ Key(sock'[j]) = Key(sock[j])
     /\ sock'[j].pc \in {"reading", "moving", "entering"} /\ ~sock'[j].shut
          => /\ sock[j].pc \in {"reading", "moving", "entering"} /\ ~sock[j].shut
             /\ sock[j].robbed => sock'[j].robbed

LEMMA SteadyRegistry ==
  ASSUME Types, Registry, UNCHANGED sessions, \A j \in Sockets : Steady(j)
  PROVE  Registry'
<1>1. ASSUME NEW ch \in Chars \cup {NoChar}, sessions[ch] # NoSocket
      PROVE  sock'[sessions[ch]].pc \notin {"none", "gone"} /\ Key(sock'[sessions[ch]]) = ch
  <2>1. sessions[ch] \in Sockets
    BY <1>1 DEF Types, ServerTypes
  <2>2. sock[sessions[ch]].pc \notin {"none", "gone"} /\ Key(sock[sessions[ch]]) = ch
    BY <1>1 DEF Registry, Found
  <2>3. QED
    BY <2>1, <2>2 DEF Steady, Key
<1>2. Found'
  BY <1>1 DEF Found, Key
<1>3. ASSUME NEW k \in Sockets, sock'[k].pc \in {"reading", "moving", "entering"},
             ~sock'[k].shut
      PROVE  sessions[Key(sock'[k])] = k \/ sock'[k].robbed
  BY <1>3 DEF Steady, Registry, Kept
<1>4. Kept'
  BY <1>3 DEF Kept, Key
<1>5. QED
  BY <1>2, <1>4 DEF Registry

LEMMA KeptRegistry ==
  ASSUME Types, Registry, SessionsKept, UNCHANGED sessions
  PROVE  Registry'
<1>1. \A j \in Sockets : Steady(j)
  BY DEF SessionsKept, Alike, Steady, Key
<1>2. QED
  BY <1>1, SteadyRegistry

\* Whoever has an entry in the way is closed.
LEMMA RegisterKeeps ==
  ASSUME Types, Registry, NEW k \in Sockets, NEW r \in Socket, Register(k, r),
         r.char = sock[k].char, r.pc \in {"reading", "entering"},
         sock[k].pc \in {"none", "arriving"}
  PROVE  Registry'
<1>1. /\ sock'[k] = r
      /\ \A j \in Sockets : j # k =>
           IF j = sessions[r.char] THEN sock'[j] = [sock[j] EXCEPT !.shut = TRUE]
                                   ELSE sock'[j] = sock[j]
  BY RegisterTypes
<1>2. /\ sessions' = [sessions EXCEPT ![r.char] = k] /\ r.char \in Chars \cup {NoChar}
      /\ sessions \in [Chars \cup {NoChar} -> Sockets \cup {NoSocket}]
  BY DEF Register, Types, ServerTypes, Socket
<1>3. \A j \in Sockets : j # k => /\ sock'[j].pc = sock[j].pc /\ Key(sock'[j]) = Key(sock[j])
                                  /\ sock'[j].robbed = sock[j].robbed
                                  /\ sock'[j].shut = (j = sessions[r.char] \/ sock[j].shut)
  <2> SUFFICES ASSUME NEW j \in Sockets, j # k
               PROVE  /\ sock'[j].pc = sock[j].pc /\ Key(sock'[j]) = Key(sock[j])
                      /\ sock'[j].robbed = sock[j].robbed
                      /\ sock'[j].shut = (j = sessions[r.char] \/ sock[j].shut)
    OBVIOUS
  <2>1. PICK q \in Socket : q = sock[j]
    BY TheSocket
  <2>2. IF j = sessions[r.char] THEN sock'[j] = [q EXCEPT !.shut = TRUE] ELSE sock'[j] = q
    BY <1>1, <2>1
  <2>3. QED
    BY <2>1, <2>2 DEF Socket, Key
<1>4. Key(sock'[k]) = r.char
  BY <1>1 DEF Key
<1>5. ASSUME NEW ch \in Chars \cup {NoChar}, sessions'[ch] # NoSocket
      PROVE  sock'[sessions'[ch]].pc \notin {"none", "gone"} /\ Key(sock'[sessions'[ch]]) = ch
  <2>1. CASE ch = r.char
    <3>1. sessions'[ch] = k
      BY <1>2, <2>1
    <3>2. Key(sock'[sessions'[ch]]) = Key(sock'[k])
      BY <3>1 DEF Key
    <3>3. QED
      BY <1>1, <1>4, <2>1, <3>1, <3>2
  <2>2. CASE ch # r.char
    <3>1. sessions'[ch] = sessions[ch] /\ sessions[ch] \in Sockets
      BY <1>2, <1>5, <2>2
    <3>2. /\ sock[sessions[ch]].pc \notin {"none", "gone"} /\ Key(sock[sessions[ch]]) = ch
      BY <1>5, <3>1 DEF Registry, Found
    <3>3. sessions[ch] # k
      BY <2>2, <3>2 DEF Key
    <3>4. Key(sock'[sessions'[ch]]) = Key(sock'[sessions[ch]])
      BY <3>1 DEF Key
    <3>5. QED
      BY <1>3, <3>1, <3>2, <3>3, <3>4
  <2>3. QED
    BY <2>1, <2>2
<1>6. ASSUME NEW j \in Sockets, sock'[j].pc \in {"reading", "moving", "entering"}, ~sock'[j].shut
      PROVE  sessions'[Key(sock'[j])] = j \/ sock'[j].robbed
  <2>1. CASE j = k
    BY <1>2, <1>4, <2>1
  <2>2. CASE j # k
    <3>1. sessions[Key(sock[j])] = j \/ sock[j].robbed
      BY <1>3, <1>6, <2>2 DEF Registry, Kept
    <3>2. j # sessions[r.char]
      BY <1>3, <1>6, <2>2
    <3>3. Key(sock[j]) \in Chars \cup {NoChar}
      BY DEF Key, Types, ServerTypes, Socket
    <3>4. QED
      BY <1>2, <1>3, <2>2, <3>1, <3>2, <3>3
  <2>3. QED
    BY <2>1, <2>2
<1>7. Found'
  BY <1>5 DEF Found, Key
<1>8. Kept'
  BY <1>6 DEF Kept, Key
<1>9. QED
  BY <1>7, <1>8 DEF Registry

\* Whoever is found there is robbed.
LEMMA UnregisterKeeps ==
  ASSUME Types, Registry, NEW k \in Sockets, NEW r \in Socket, Unregister(Key(sock[k]), k, r),
         Key(sock[k]) \in Chars \cup {NoChar}, r.pc \in {"arriving", "gone"}
  PROVE  Registry'
<1>1. /\ sock'[k] = r
      /\ \A j \in Sockets : j # k =>
           IF j = sessions[Key(sock[k])] THEN sock'[j] = [sock[j] EXCEPT !.robbed = TRUE]
                                   ELSE sock'[j] = sock[j]
  BY UnregisterTypes
<1>2. /\ sessions' = [sessions EXCEPT ![Key(sock[k])] = NoSocket]
      /\ sessions \in [Chars \cup {NoChar} -> Sockets \cup {NoSocket}]
  BY DEF Unregister, Types, ServerTypes
<1>3. \A j \in Sockets : j # k => /\ sock'[j].pc = sock[j].pc /\ Key(sock'[j]) = Key(sock[j])
                                  /\ sock'[j].robbed = (j = sessions[Key(sock[k])] \/ sock[j].robbed)
                                  /\ sock'[j].shut = sock[j].shut
  <2> SUFFICES ASSUME NEW j \in Sockets, j # k
               PROVE  /\ sock'[j].pc = sock[j].pc /\ Key(sock'[j]) = Key(sock[j])
                      /\ sock'[j].robbed = (j = sessions[Key(sock[k])] \/ sock[j].robbed)
                      /\ sock'[j].shut = sock[j].shut
    OBVIOUS
  <2>1. PICK q \in Socket : q = sock[j]
    BY TheSocket
  <2>2. IF j = sessions[Key(sock[k])] THEN sock'[j] = [q EXCEPT !.robbed = TRUE] ELSE sock'[j] = q
    BY <1>1, <2>1
  <2>3. QED
    BY <2>1, <2>2 DEF Socket, Key
<1>4. ASSUME NEW ch \in Chars \cup {NoChar}, sessions'[ch] # NoSocket
      PROVE  sock'[sessions'[ch]].pc \notin {"none", "gone"} /\ Key(sock'[sessions'[ch]]) = ch
  <2>1. ch # Key(sock[k]) /\ sessions'[ch] = sessions[ch] /\ sessions[ch] \in Sockets
    BY <1>2, <1>4
  <2>2. /\ sock[sessions[ch]].pc \notin {"none", "gone"} /\ Key(sock[sessions[ch]]) = ch
    BY <1>4, <2>1 DEF Registry, Found
  <2>3. sessions[ch] # k
    BY <2>1, <2>2
  <2>4. Key(sock'[sessions'[ch]]) = Key(sock'[sessions[ch]])
    BY <2>1 DEF Key
  <2>5. QED
    BY <1>3, <2>1, <2>2, <2>3, <2>4
<1>5. ASSUME NEW j \in Sockets, sock'[j].pc \in {"reading", "moving", "entering"}, ~sock'[j].shut
      PROVE  sessions'[Key(sock'[j])] = j \/ sock'[j].robbed
  <2>1. j # k
    BY <1>1, <1>5
  <2>2. sessions[Key(sock[j])] = j \/ sock[j].robbed
    BY <1>3, <1>5, <2>1 DEF Registry, Kept
  <2>3. Key(sock[j]) \in Chars \cup {NoChar}
    BY DEF Key, Types, ServerTypes, Socket
  <2>4. CASE sock[j].robbed \/ j = sessions[Key(sock[k])]
    BY <1>3, <2>1, <2>4, Zenon
  <2>5. CASE sessions[Key(sock[j])] = j /\ j # sessions[Key(sock[k])]
    BY <1>2, <1>3, <2>1, <2>3, <2>5
  <2>6. QED
    BY <2>2, <2>4, <2>5
<1>6. Found'
  BY <1>4 DEF Found, Key
<1>7. Kept'
  BY <1>5 DEF Kept, Key
<1>8. QED
  BY <1>6, <1>7 DEF Registry

LEMMA RegistryStep ==
  ASSUME Types, Characters, Registry, [Next]_vars
  PROVE  Characters' /\ Registry'
<1>1. CASE UNCHANGED vars
  <2>1. UNCHANGED <<sock, sessions>>
    BY <1>1, Zenon DEF vars, serverVars
  <2>2. SessionsKept
    BY <2>1 DEF SessionsKept, Alike
  <2>3. QED
    BY <2>1, <2>2, KeptCharacters, KeptRegistry
<1>2. ASSUME NEW c \in Clients, User(c) \/ Answers(c) \/ Browser(c)
      PROVE  Characters' /\ Registry'
  <2>1. UNCHANGED sessions
    <3>1. CASE User(c)
      BY <3>1, Zenon DEF User, PressLogin, Leave, PressCreate, Logout, PressDelete,
                         EnterGame, serverVars
    <3>2. CASE Answers(c)
      BY <3>2, Zenon DEF Answers, LoginAnswer, ListAnswer, DeleteAnswer, CreateAnswer,
                         serverVars
    <3>3. CASE Browser(c)
      BY <3>3, Zenon DEF Browser, Reconnect, Opened, Closed, MapInit, serverVars
    <3>4. QED
      BY <1>2, <3>1, <3>2, <3>3
  <2>2. QED
    BY <1>2, <2>1, UserKeeps, BrowserKeeps, KeptCharacters, KeptRegistry
<1>3. ASSUME NEW c \in Clients, ServeDelete(c) PROVE Characters' /\ Registry'
  <2>1. UNCHANGED <<sock, sessions>>
    BY <1>3, Zenon DEF ServeDelete
  <2>2. SessionsKept
    BY <2>1 DEF SessionsKept, Alike
  <2>3. QED
    BY <2>1, <2>2, KeptCharacters, KeptRegistry
<1>4. ASSUME NEW k \in Sockets, Accept(k) \/ TakeNewChar(k)
      PROVE  Characters' /\ Registry'
  <2>1. PICK r \in Socket : r = sock[k]
    BY TheSocket
  <2>2. PICK q \in Socket :
          /\ Register(k, q) /\ q.char = r.char /\ q.pc \in {"reading", "entering"}
          /\ r.pc \in {"none", "arriving"}
          /\ q.pc = "entering" => r.pc = "arriving"
    <3>1. CASE Accept(k)
      <4> DEFINE q == [r EXCEPT !.pc = "reading"]
      <4>1. q.char = r.char /\ q.pc = "reading"
        BY DEF Socket
      <4>2. q \in Socket /\ Register(k, q) /\ r.pc = "none"
        BY <2>1, <3>1, AcceptTypes DEF Accept
      <4>3. QED
        BY <4>1, <4>2
    <3>2. CASE TakeNewChar(k)
      <4> DEFINE q == [r EXCEPT !.pc = "entering", !.robbed = FALSE]
      <4>1. q.char = r.char /\ q.pc = "entering"
        BY DEF Socket
      <4>2. q \in Socket /\ Register(k, q)
        BY <2>1, <3>2, TakeNewCharTypes
      <4>3. r.pc = "arriving"
        BY <2>1, <3>2 DEF TakeNewChar
      <4>4. QED
        BY <4>1, <4>2, <4>3
    <3>3. QED
      BY <1>4, <3>1, <3>2
  <2>4. Registry'
    BY <2>1, <2>2, RegisterKeeps
  <2>5. sock'[k] = q /\ \A j \in Sockets : j # k =>
             sock'[j] = sock[j] \/ sock'[j] = [sock[j] EXCEPT !.shut = TRUE]
    BY <2>2, RegisterTypes
  <2>6. \A j \in Sockets : j # k => sock'[j].pc = sock[j].pc /\ sock'[j].char = sock[j].char
    BY <2>5 DEF Types, ServerTypes, Socket
  <2>7. Characters'
    BY <2>1, <2>2, <2>5, <2>6 DEF Characters
  <2>8. QED
    BY <2>4, <2>7
<1>5. ASSUME NEW k \in Sockets, LeaveOldChar(k) \/ EndDisconnect(k)
      PROVE  Characters' /\ Registry'
  <2>1. PICK r \in Socket : r = sock[k]
    BY TheSocket
  <2>2. PICK q \in Socket :
          /\ Unregister(Key(sock[k]), k, q) /\ Key(sock[k]) \in Chars \cup {NoChar}
          /\ q.pc = "gone" \/ (q.pc = "arriving" /\ r.pc = "moving" /\ q.char = r.char)
    <3>1. CASE LeaveOldChar(k)
      <4> DEFINE q == [r EXCEPT !.from = NoChar, !.pc = "arriving"]
      <4>1. q.pc = "arriving" /\ q.char = r.char
        BY DEF Socket
      <4>2. r.pc = "moving" /\ Key(sock[k]) = r.from
        BY <2>1, <3>1 DEF LeaveOldChar, Key
      <4>3. q \in Socket /\ Unregister(r.from, k, q) /\ r.from \in Chars \cup {NoChar}
        BY <2>1, <3>1, LeaveOldCharTypes
      <4>4. QED
        BY <4>1, <4>2, <4>3
    <3>2. CASE EndDisconnect(k)
      <4>1. Key(sock[k]) = sock[k].char
        BY <3>2 DEF EndDisconnect, Key
      <4>2. QED
        BY <3>2, <4>1, EndDisconnectTypes
    <3>3. QED
      BY <1>5, <3>1, <3>2
  <2>3. Registry'
    BY <2>2, UnregisterKeeps
  <2>4. sock'[k] = q /\ \A j \in Sockets : j # k =>
             sock'[j] = sock[j] \/ sock'[j] = [sock[j] EXCEPT !.robbed = TRUE]
    BY <2>2, UnregisterTypes
  <2>5. \A j \in Sockets : j # k => sock'[j].pc = sock[j].pc /\ sock'[j].char = sock[j].char
    BY <2>4 DEF Types, ServerTypes, Socket
  <2>6. Characters'
    BY <2>1, <2>2, <2>4, <2>5 DEF Characters
  <2>7. QED
    BY <2>3, <2>6
<1>6. ASSUME NEW k \in Sockets,
             Refuse(k) \/ HandleEnterMap(k) \/ EnterMapRoom(k) \/ HandleDisconnect(k) \/ Cut(k)
      PROVE  Characters' /\ Registry'
  <2>1. PICK r \in Socket : r = sock[k]
    BY TheSocket
  <2>2. sock \in [Sockets -> Socket]
    BY DEF Types, ServerTypes
  <2>3. UNCHANGED sessions /\ \A j \in Sockets : j # k => sock'[j] = sock[j]
    BY <1>6, <2>2 DEF Refuse, HandleEnterMap, EnterMapRoom, HandleDisconnect, Cut, serverVars
  <2>4. /\ Steady(k)
        /\ sock'[k].pc = "none" => sock'[k].char = NoChar
        /\ sock'[k].pc \in {"moving", "arriving", "entering"} => sock'[k].char \in Chars
    <3>0. /\ r.pc = "none" => r.char = NoChar
          /\ r.pc \in {"moving", "arriving", "entering"} => r.char \in Chars
      BY <2>1 DEF Characters
    <3>1. CASE Refuse(k)
      <4> DEFINE q == [r EXCEPT !.pc = "gone", !.shut = TRUE]
      <4>1. sock' = [sock EXCEPT ![k] = Finished(q)]
        BY <2>1, <3>1, RefuseTypes
      <4>2. q \in Socket /\ q.pc = "gone"
        BY DEF Socket
      <4> HIDE DEF q
      <4>3. sock'[k].pc = "gone" /\ sock[k].pc = "none"
        BY <2>2, <3>1, <4>1, <4>2, FinishedFacts DEF Refuse
      <4>4. QED
        BY <4>3 DEF Steady
    <3>2. CASE HandleEnterMap(k)
      <4>1. /\ r.pc = "reading" /\ sock'[k].shut = r.shut /\ sock'[k].robbed = r.robbed
            /\ \/ sock'[k].pc = "reading" /\ sock'[k].char = r.char
               \/ sock'[k].pc = "entering" /\ sock'[k].char = r.char /\ r.char \in Chars
               \/ sock'[k].pc = "moving" /\ sock'[k].from = r.char /\ sock'[k].char \in Chars
        BY <2>1, <3>2, HandleEnterMapFacts
      <4>2. QED
        BY <2>1, <4>1 DEF Steady, Key
    <3>3. CASE EnterMapRoom(k) \/ HandleDisconnect(k) \/ Cut(k)
      <4>1. /\ sock'[k].char = r.char /\ sock'[k].from = r.from /\ sock'[k].robbed = r.robbed
            /\ \/ sock'[k].pc = r.pc /\ sock'[k].shut = r.shut
               \/ r.pc = "entering" /\ sock'[k].pc = "reading" /\ sock'[k].shut = r.shut
               \/ r.pc = "reading" /\ sock'[k].pc = "leaving"
        BY <2>1, <2>2, <3>3 DEF EnterMapRoom, HandleDisconnect, Cut, Socket
      <4>2. QED
        BY <2>1, <3>0, <4>1 DEF Steady, Key
    <3>4. QED
      BY <1>6, <3>1, <3>2, <3>3
  <2>5. \A j \in Sockets : Steady(j)
    BY <2>3, <2>4 DEF Steady, Key
  <2>6. Registry'
    BY <2>3, <2>5, SteadyRegistry
  <2>7. Characters'
    BY <2>3, <2>4 DEF Characters
  <2>8. QED
    BY <2>6, <2>7
<1>7. QED
  BY <1>1, <1>2, <1>3, <1>4, <1>5, <1>6 DEF Next, Server

-----------------------------------------------------------------------------
(* The pages that a step leaves alone *)

Mine(j, d) == sock[j].client = d /\ sock[j].end # "closed"

\* Nothing of d changes but what a scene shows, and its socket does not change.
Quiet(d) ==
  /\ ws'[d] = ws[d] /\ state'[d] = state[d] /\ timer'[d] = timer[d] /\ beat'[d] = beat[d]
  /\ wait'[d] = wait[d] /\ charID'[d] = charID[d] /\ self'[d] = self[d]
  /\ token[d] => token'[d]
  /\ scene'[d] = "map" => scene[d] = "map"
  /\ \A ch \in Chars :
       scene'[d] = "select" /\ listed'[d] # NotListed /\ ch \in listed'[d] => token'[d]
  /\ db' \subseteq db
  /\ \A j \in Sockets :
       Mine(j, d) \/ (sock'[j].client = d /\ sock'[j].end # "closed") => sock'[j] = sock[j]

LEMMA QuietKeeps ==
  ASSUME Types, NEW d \in Clients, Holds(d), Follows(d), Entry(d), Quiet(d)
  PROVE  Holds(d)' /\ Follows(d)' /\ Entry(d)'
<1>1. ws[d] \in Sockets \cup {NoSocket}
  BY DEF Types, LinkTypes
<1>2. ws[d] # NoSocket => sock'[ws[d]] = sock[ws[d]]
  BY <1>1 DEF Holds, Quiet, Mine
<1>3. Holds(d)'
  <2>1. ws'[d] # NoSocket => sock'[ws'[d]].client = d /\ sock'[ws'[d]].end # "closed"
    BY <1>2 DEF Holds, Quiet
  <2>2. ASSUME NEW k \in Sockets, sock'[k].client = d, sock'[k].end # "closed"
        PROVE  k = ws'[d]
    BY <2>2 DEF Holds, Quiet
  <2>3. QED
    BY <2>1, <2>2 DEF Holds
<1>4. Follows(d)'
  BY <1>2 DEF Follows, Quiet, Listed
<1>5. Entry(d)'
  <2> SUFFICES ASSUME scene'[d] = "map"
               PROVE  Asked(d)' /\ Heard(d)' /\ Shown(d)'
    BY DEF Entry
  <2>1. Asked(d) /\ Heard(d) /\ Shown(d)
    BY DEF Entry, Quiet
  <2>2. Asked(d)'
    BY <2>1 DEF Asked, Quiet, Latest
  <2>3. Heard(d)'
    BY <1>2, <2>1 DEF Heard, Quiet, Latest
  <2>4. Shown(d)'
    BY <1>2, <2>1 DEF Shown, Quiet, Latest
  <2>5. QED
    BY <2>2, <2>3, <2>4
<1>6. QED
  BY <1>3, <1>4, <1>5

\* The sockets that disconnect and _doConnect do not touch.
LEMMA DisconnectQuiet ==
  ASSUME Types, SocketInv, NEW c \in Clients, NEW d \in Clients, d # c, NEW j \in Sockets,
         Mine(j, d) \/ (Others(c)[j].client = d /\ Others(c)[j].end # "closed")
  PROVE  j # ws[c] /\ Others(c)[j] = sock[j]
<1>1. ws[c] \in Sockets \cup {NoSocket} /\ sock[j] \in Socket
  BY DEF Types, LinkTypes, ServerTypes
<1>2. CASE j = ws[c]
  <2>1. ws[c] # NoSocket /\ Others(c)[j] = Closing(sock[j]) /\ sock[j].client = c
    BY <1>1, <1>2, OthersFacts, ConstantsAssumption DEF SocketInv, Holds
  <2>2. QED
    BY <1>1, <2>1, ClosingFacts DEF Mine
<1>3. CASE j # ws[c]
  BY <1>3, OthersFacts
<1>4. QED
  BY <1>2, <1>3

LEMMA PageBystanders ==
  ASSUME Types, SocketInv, NEW c \in Clients, NEW d \in Clients, d # c,
         User(c) \/ Answers(c) \/ Browser(c)
  PROVE  Quiet(d)
<1>1. /\ ws'[d] = ws[d] /\ state'[d] = state[d] /\ timer'[d] = timer[d] /\ beat'[d] = beat[d]
      /\ wait'[d] = wait[d] /\ db' = db
  <2>1. CASE User(c)
    BY <2>1 DEF User, PressLogin, Leave, PressCreate, Logout, PressDelete, EnterGame,
                Connecting, Disconnect, Types, LinkTypes, serverVars
  <2>2. CASE Answers(c)
    BY <2>2 DEF Answers, LoginAnswer, ListAnswer, DeleteAnswer, CreateAnswer,
                Disconnect, Types, LinkTypes, serverVars
  <2>3. CASE Browser(c)
    <3>1. CASE Reconnect(c)
      BY <3>1 DEF Reconnect, Connecting, Types, LinkTypes, serverVars
    <3>2. ASSUME NEW k \in Sockets, Opened(c, k) \/ MapInit(c, k)
          PROVE  /\ ws'[d] = ws[d] /\ state'[d] = state[d] /\ timer'[d] = timer[d]
                 /\ beat'[d] = beat[d] /\ wait'[d] = wait[d] /\ db' = db
      BY <3>2 DEF Opened, MapInit, Types, LinkTypes, serverVars
    <3>3. ASSUME NEW k \in Sockets, Closed(c, k)
          PROVE  /\ ws'[d] = ws[d] /\ state'[d] = state[d] /\ timer'[d] = timer[d]
                 /\ beat'[d] = beat[d] /\ wait'[d] = wait[d] /\ db' = db
      <4>1. ws'[d] = ws[d] /\ beat'[d] = beat[d] /\ wait' = wait /\ db' = db
        BY <3>3 DEF Closed, Types, LinkTypes, serverVars
      <4>2. ScheduleReconnect(c) \/ UNCHANGED <<state, timer>>
        BY <3>3, Zenon DEF Closed
      <4>3. QED
        BY <4>1, <4>2 DEF ScheduleReconnect, GiveUp, Types, LinkTypes
    <3>4. QED
      BY <2>3, <3>1, <3>2, <3>3 DEF Browser
  <2>4. QED
    BY <2>1, <2>2, <2>3
<1>2. /\ charID'[d] = charID[d] /\ self'[d] = self[d] /\ token'[d] = token[d]
      /\ scene'[d] = scene[d] /\ listed'[d] = listed[d]
  <2>1. CASE User(c)
    BY <2>1 DEF User, PressLogin, Leave, PressCreate, Logout, PressDelete, EnterGame,
                Goto, Types, PageTypes
  <2>2. CASE Answers(c)
    BY <2>2 DEF Answers, LoginAnswer, ListAnswer, DeleteAnswer, CreateAnswer,
                Goto, Types, PageTypes
  <2>3. CASE Browser(c)
    <3>1. CASE Reconnect(c)
      BY <3>1 DEF Reconnect
    <3>2. ASSUME NEW k \in Sockets, Opened(c, k) \/ MapInit(c, k)
          PROVE  /\ charID'[d] = charID[d] /\ self'[d] = self[d] /\ token'[d] = token[d]
                 /\ scene'[d] = scene[d] /\ listed'[d] = listed[d]
      BY <3>2 DEF Opened, MapInit, Types, PageTypes
    <3>3. ASSUME NEW k \in Sockets, Closed(c, k)
          PROVE  /\ charID'[d] = charID[d] /\ self'[d] = self[d] /\ token'[d] = token[d]
                 /\ scene'[d] = scene[d] /\ listed'[d] = listed[d]
      <4>1. ScheduleReconnect(c) \/ UNCHANGED <<scene, charID, token, self>>
        BY <3>3, Zenon DEF Closed
      <4>2. listed' = listed
        BY <3>3 DEF Closed
      <4>3. QED
        BY <4>1, <4>2 DEF ScheduleReconnect, GiveUp, Types, PageTypes
    <3>4. QED
      BY <2>3, <3>1, <3>2, <3>3 DEF Browser
  <2>4. QED
    BY <2>1, <2>2, <2>3
<1>3. ASSUME NEW j \in Sockets,
             Mine(j, d) \/ (sock'[j].client = d /\ sock'[j].end # "closed")
      PROVE  sock'[j] = sock[j]
  <2>1. CASE sock' = sock
    BY <2>1
  <2>2. CASE Disconnect(c)
    BY <1>3, <2>2, DisconnectOthers, DisconnectQuiet
  <2>3. ASSUME NEW ch \in Chars, EnterGame(c, ch)
        PROVE  sock'[j] = sock[j]
    <3>1. PICK k \in Sockets : Connecting(Others(c), c, k)
      BY <2>3, Zenon DEF EnterGame, Others
    <3>2. sock' = [Others(c) EXCEPT ![k] = Opening(c)] /\ Others(c) \in [Sockets -> Socket]
      BY <3>1, OthersFacts, ConnectingTypes
    <3>3. j # k
      <4>1. sock[k] = Fresh
        BY <3>1 DEF Connecting, Unused
      <4>2. QED
        BY <1>3, <3>2, <4>1, OpeningFacts, FreshFacts DEF Mine
    <3>4. sock'[j] = Others(c)[j]
      BY <3>2, <3>3
    <3>5. QED
      BY <1>3, <3>4, DisconnectQuiet
  <2>4. CASE Reconnect(c)
    <3>1. PICK k \in Sockets : Connecting(sock, c, k)
      BY <2>4 DEF Reconnect
    <3>2. sock \in [Sockets -> Socket]
      BY DEF Types, ServerTypes
    <3>3. sock' = [sock EXCEPT ![k] = Opening(c)] /\ sock[k] = Fresh
      <4>1. sock[k] = Fresh
        BY <3>1 DEF Connecting, Unused
      <4>2. QED
        BY <3>1, <3>2, <4>1, ConnectingTypes
    <3>4. QED
      BY <1>3, <3>2, <3>3, OpeningFacts, FreshFacts DEF Mine
  <2>5. ASSUME NEW k \in Sockets, Opened(c, k) \/ MapInit(c, k) \/ Closed(c, k)
        PROVE  sock'[j] = sock[j]
    <3>1. /\ sock[k].client = c /\ sock \in [Sockets -> Socket]
          /\ j # k => sock'[j] = sock[j]
      BY <2>5 DEF Opened, MapInit, Closed, Types, ServerTypes
    <3>2. sock'[k].client = c \/ sock'[k].end = "closed"
      <4>1. PICK r \in Socket : r = sock[k]
        BY TheSocket
      <4>2. CASE Opened(c, k) \/ MapInit(c, k)
        BY <3>1, <4>1, <4>2 DEF Opened, MapInit, Socket
      <4>3. CASE Closed(c, k)
        <5> DEFINE q == [r EXCEPT !.end = "closed", !.outq = <<>>]
        <5>1. q \in Socket /\ q.end = "closed"
          BY NothingQueued DEF Socket
        <5>2. sock' = [sock EXCEPT ![k] = Finished([sock[k] EXCEPT !.end = "closed", !.outq = <<>>])]
          BY <4>3, ZenonT(60) DEF Closed
        <5>3. sock' = [sock EXCEPT ![k] = Finished(q)]
          BY <4>1, <5>2
        <5> HIDE DEF q
        <5>4. QED
          BY <3>1, <5>1, <5>3, FinishedFacts
      <4>4. QED
        BY <2>5, <4>2, <4>3
    <3>3. QED
      BY <1>3, <3>1, <3>2 DEF Mine
  <2>6. QED
    <3>1. CASE User(c)
      BY <2>1, <2>2, <2>3, <3>1, Zenon
         DEF User, PressLogin, Leave, PressCreate, Logout, PressDelete
    <3>2. CASE Answers(c)
      BY <2>1, <2>2, <3>2, Zenon
         DEF Answers, LoginAnswer, ListAnswer, DeleteAnswer, CreateAnswer
    <3>3. CASE Browser(c)
      BY <2>4, <2>5, <3>3, Zenon DEF Browser
    <3>4. QED
      BY <3>1, <3>2, <3>3
<1>4. \A ch \in Chars :
        scene'[d] = "select" /\ listed'[d] # NotListed /\ ch \in listed'[d] => token'[d]
  BY <1>2 DEF SocketInv, Follows, Listed
<1>5. QED
  BY <1>1, <1>2, <1>3, <1>4 DEF Quiet

-----------------------------------------------------------------------------
(* The page that takes the step *)

LEMMA LatestFacts ==
  ASSUME NEW S, NEW q \in Seq(S)
  PROVE  /\ \A e \in S : Append(q, e) # <<>> /\ Latest(Append(q, e)) = e
         /\ \A r \in Seq(S) : r # <<>> => q \o r # <<>> /\ Latest(q \o r) = Latest(r)
         /\ \A r \in Seq(S) : r = <<>> => q \o r = q
         /\ q # <<>> /\ Tail(q) = <<>> => Latest(q) = Head(q)
         /\ q # <<>> /\ Tail(q) # <<>> => Latest(Tail(q)) = Latest(q)
<1>1. ASSUME NEW e \in S PROVE Append(q, e) # <<>> /\ Latest(Append(q, e)) = e
  BY DEF Latest
<1>2. ASSUME NEW r \in Seq(S), r # <<>> PROVE q \o r # <<>> /\ Latest(q \o r) = Latest(r)
  <2>1. Len(r) \in Nat \ {0} /\ Len(q) \in Nat /\ Len(q \o r) = Len(q) + Len(r)
    BY <1>2
  <2>2. (q \o r)[Len(q) + Len(r)] = r[Len(r)]
    BY <2>1
  <2>3. QED
    BY <2>1, <2>2 DEF Latest
<1>3. ASSUME NEW r \in Seq(S), r = <<>> PROVE q \o r = q
  BY <1>3
<1>4. ASSUME q # <<>>, Tail(q) = <<>> PROVE Latest(q) = Head(q)
  <2>1. Len(q) \in Nat /\ Len(q) # 0
    BY <1>4
  <2>2. Len(Tail(q)) = Len(q) - 1
    BY <1>4
  <2>3. Len(Tail(q)) = 0
    <3>1. Len(<<>>) = 0
      OBVIOUS
    <3>2. QED
      BY <1>4, <3>1, Zenon
  <2>4. Len(q) = 1
    <3>1. Len(q) - 1 = 0
      BY <2>2, <2>3, Zenon
    <3>2. QED
      BY <2>1, <3>1
  <2>5. q[1] = Head(q)
    BY <1>4
  <2>6. QED
    BY <2>4, <2>5, Zenon DEF Latest
<1>5. ASSUME q # <<>>, Tail(q) # <<>> PROVE Latest(Tail(q)) = Latest(q)
  <2>1. Len(q) \in Nat \ {0} /\ Tail(q) \in Seq(S) /\ Len(Tail(q)) = Len(q) - 1
    BY <1>5
  <2>2. Len(Tail(q)) # 0
    BY <1>5, <2>1
  <2>3. Tail(q)[Len(q) - 1] = q[(Len(q) - 1) + 1]
    BY <2>1, <2>2
  <2>4. (Len(q) - 1) + 1 = Len(q)
    BY <2>1
  <2>5. QED
    BY <2>1, <2>3, <2>4, Zenon DEF Latest
<1>6. QED
  BY <1>1, <1>2, <1>3, <1>4, <1>5

LEMMA QuietPage ==
  ASSUME Types, NEW c \in Clients, Holds(c), Follows(c),
         \/ PressLogin(c) \/ LoginAnswer(c) \/ ListAnswer(c)
         \/ (\E ch \in Chars : PressDelete(c, ch)) \/ PressCreate(c) \/ CreateAnswer(c)
         \/ Leave(c)
         \/ DeleteAnswer(c) /\ UNCHANGED <<scene, listed, busy, state, timer, beat, ws, charID,
                                           sock>>
  PROVE  Quiet(c)
<1>1. UNCHANGED <<ws, state, timer, beat, wait, charID, self, sock, db>>
  BY Zenon DEF PressLogin, LoginAnswer, ListAnswer, PressDelete, PressCreate, CreateAnswer,
         Leave, DeleteAnswer, serverVars
<1>2. (token[c] => token'[c]) /\ (scene'[c] = "map" => scene[c] = "map")
  BY DEF PressLogin, LoginAnswer, ListAnswer, PressDelete, PressCreate, CreateAnswer,
         Leave, DeleteAnswer, Goto, Types, PageTypes
<1>3. ASSUME NEW ch \in Chars, scene'[c] = "select", listed'[c] # NotListed, ch \in listed'[c]
      PROVE  token'[c]
  <2>1. CASE ListAnswer(c)
    BY <1>3, <2>1 DEF ListAnswer, Types, PageTypes
  <2>2. CASE UNCHANGED <<scene, listed>>
    BY <1>2, <1>3, <2>2 DEF Follows, Listed
  <2>3. CASE \E s \in Scenes : Goto(c, s)
    BY <1>3, <2>3 DEF Goto, Types, PageTypes
  <2>4. QED
    BY <2>1, <2>2, <2>3
       DEF PressLogin, LoginAnswer, PressDelete, PressCreate, CreateAnswer,
           Leave, DeleteAnswer, Scenes
<1>4. QED
  BY <1>1, <1>2, <1>3 DEF Quiet

LEMMA DisconnectPage ==
  ASSUME Types, NEW c \in Clients, Holds(c), Disconnect(c), scene'[c] # "map",
         scene'[c] = "select" => listed'[c] = NotListed
  PROVE  Holds(c)' /\ Follows(c)' /\ Entry(c)'
<1>1. ws'[c] = NoSocket /\ state'[c] = "disconnected" /\ timer'[c] = FALSE /\ beat'[c] = FALSE
  BY DEF Disconnect, Types, LinkTypes
<1>2. ASSUME NEW k \in Sockets, sock'[k].client = c PROVE sock'[k].end = "closed"
  <2>1. sock' = Others(c) /\ sock[k] \in Socket
    BY DisconnectOthers DEF Types, ServerTypes
  <2>2. CASE k = ws[c]
    BY <2>1, <2>2, OthersFacts, ClosingFacts, ConstantsAssumption
  <2>3. CASE k # ws[c]
    BY <1>2, <2>1, <2>3, OthersFacts DEF Holds
  <2>4. QED
    BY <2>2, <2>3
<1>3. Holds(c)'
  BY <1>1, <1>2 DEF Holds
<1>4. Follows(c)'
  BY <1>1 DEF Follows, Listed
<1>5. Entry(c)'
  BY DEF Entry
<1>6. QED
  BY <1>3, <1>4, <1>5

\* A new socket, when the page holds no other.
LEMMA OpeningPage ==
  ASSUME Types, NEW c \in Clients, NEW s \in [Sockets -> Socket], NEW k \in Sockets,
         Connecting(s, c, k),
         \A j \in Sockets : s[j].client = c => s[j].end = "closed"
  PROVE  /\ ws'[c] = k /\ state'[c] = "connecting" /\ sock'[k] = Opening(c)
         /\ Holds(c)' /\ Heard(c)' /\ Shown(c)'
<1>1. sock' = [s EXCEPT ![k] = Opening(c)]
  BY ConnectingTypes
<1>2. ws'[c] = k /\ state'[c] = "connecting" /\ sock'[k] = Opening(c) /\ k # NoSocket
  BY <1>1, ConstantsAssumption DEF Connecting, Types, LinkTypes
<1>3. Holds(c)'
  BY <1>1, <1>2, OpeningFacts DEF Holds
<1>4. Heard(c)'
  BY <1>2, OpeningFacts DEF Heard
<1>5. Shown(c)'
  BY <1>2, OpeningFacts DEF Shown
<1>6. QED
  BY <1>2, <1>3, <1>4, <1>5

LEMMA ReconnectPage ==
  ASSUME Types, NEW c \in Clients, Holds(c), Follows(c), Entry(c), Reconnect(c)
  PROVE  Holds(c)' /\ Follows(c)' /\ Entry(c)'
<1>1. PICK k \in Sockets : Connecting(sock, c, k)
  BY DEF Reconnect
<1>2. sock \in [Sockets -> Socket] /\ state[c] = "reconnecting"
  BY DEF Reconnect, Follows, Types, ServerTypes
<1>3. ws[c] = NoSocket
  BY <1>2 DEF Follows
<1>4. \A j \in Sockets : sock[j].client = c => sock[j].end = "closed"
  BY <1>3, ConstantsAssumption DEF Holds
<1>5. /\ ws'[c] = k /\ state'[c] = "connecting" /\ sock'[k] = Opening(c)
      /\ Holds(c)' /\ Heard(c)' /\ Shown(c)'
  BY <1>1, <1>2, <1>4, OpeningPage
<1>6. ~timer'[c] /\ ~beat'[c] /\ token'[c] /\ k # NoSocket
  BY <1>2, ConstantsAssumption DEF Reconnect, Follows, Types, LinkTypes
<1>7. Follows(c)'
  BY <1>5, <1>6, OpeningFacts DEF Follows
<1>8. Entry(c)'
  BY <1>5 DEF Reconnect, Entry, Asked, Latest
<1>9. QED
  BY <1>5, <1>7, <1>8

LEMMA EnterGamePage ==
  ASSUME Types, NEW c \in Clients, NEW ch \in Chars, Holds(c), Follows(c), EnterGame(c, ch)
  PROVE  Holds(c)' /\ Follows(c)' /\ Entry(c)'
<1>1. PICK k \in Sockets : Connecting(Others(c), c, k)
  BY Zenon DEF EnterGame, Others
<1>2. \A j \in Sockets : Others(c)[j].client = c => Others(c)[j].end = "closed"
  <2> SUFFICES ASSUME NEW j \in Sockets, Others(c)[j].client = c
               PROVE  Others(c)[j].end = "closed"
    OBVIOUS
  <2>1. sock[j] \in Socket
    BY DEF Types, ServerTypes
  <2>2. CASE j = ws[c]
    BY <2>1, <2>2, OthersFacts, ClosingFacts, ConstantsAssumption
  <2>3. CASE j # ws[c]
    BY <2>3, OthersFacts DEF Holds
  <2>4. QED
    BY <2>2, <2>3
<1>3. /\ ws'[c] = k /\ state'[c] = "connecting" /\ sock'[k] = Opening(c)
      /\ Holds(c)' /\ Heard(c)' /\ Shown(c)'
  BY <1>1, <1>2, OthersFacts, OpeningPage
<1>4. ~timer'[c] /\ ~beat'[c] /\ token'[c] /\ scene'[c] = "map" /\ k # NoSocket
  BY ConstantsAssumption
     DEF EnterGame, Follows, Goto, Types, PageTypes, LinkTypes
<1>5. Follows(c)'
  BY <1>3, <1>4, OpeningFacts DEF Follows, Listed
<1>6. Asked(c)'
  <2>1. wait'[c] = Append(wait[c], ch) /\ charID'[c] = ch
    BY DEF EnterGame, Types, PageTypes, LinkTypes
  <2>2. QED
    BY <2>1, LatestFacts DEF Asked, Types, LinkTypes
<1>7. QED
  BY <1>3, <1>5, <1>6 DEF Entry

LEMMA OpenedPage ==
  ASSUME Types, NEW c \in Clients, NEW k \in Sockets, Holds(c), Follows(c), Entry(c),
         Opened(c, k)
  PROVE  Holds(c)' /\ Follows(c)' /\ Entry(c)'
<1>1. /\ ws[c] = k /\ k # NoSocket /\ state[c] = "connecting"
      /\ sock[k].client = c /\ sock[k].end = "opening"
  BY ConstantsAssumption DEF Opened, Holds, Follows
<1>2. PICK r \in Socket : r = sock[k]
  BY TheSocket
<1>3. sock'[k] = [r EXCEPT !.end = "open", !.inq = r.inq \o wait[c]]
  <2>1. sock' = [sock EXCEPT ![k].end = "open",
                             ![k].inq = IF k = ws[c] THEN @ \o wait[c] ELSE @]
    BY DEF Opened
  <2>2. QED
    BY <1>1, <1>2, <2>1 DEF Types, ServerTypes
<1>4. \A j \in Sockets : j # k => sock'[j] = sock[j]
  BY DEF Opened, Types, ServerTypes
<1>5. /\ sock'[k].client = c /\ sock'[k].end = "open" /\ sock'[k].inq = r.inq \o wait[c]
      /\ sock'[k].char = r.char /\ sock'[k].pc = r.pc /\ sock'[k].shut = r.shut
      /\ sock'[k].outq = r.outq
  BY <1>1, <1>2, <1>3 DEF Socket
<1>6. /\ ws' = ws /\ state'[c] = "connected" /\ beat'[c] /\ timer' = timer /\ wait'[c] = <<>>
      /\ UNCHANGED <<scene, listed, charID, token, self, db>>
  BY DEF Opened, Types, LinkTypes, serverVars
<1>7. Holds(c)'
  BY <1>1, <1>4, <1>5, <1>6 DEF Holds
<1>8. Follows(c)'
  BY <1>1, <1>5, <1>6 DEF Follows, Listed
<1>9. Entry(c)'
  <2> SUFFICES ASSUME scene[c] = "map"
               PROVE  Asked(c)' /\ Heard(c)' /\ Shown(c)'
    BY <1>6 DEF Entry
  <2>1. Asked(c) /\ Heard(c) /\ Shown(c)
    BY DEF Entry
  <2>2. Asked(c)'
    BY <1>6 DEF Asked
  <2>3. Heard(c)'
    <3>1. r.inq \in Seq(Chars) /\ wait[c] \in Seq(Chars)
      BY <1>2 DEF Socket, Types, LinkTypes
    <3>2. CASE wait[c] = <<>>
      <4>1. sock'[k].inq = r.inq
        BY <1>5, <3>1, <3>2, LatestFacts
      <4>2. QED
        BY <1>1, <1>2, <1>5, <1>6, <2>1, <4>1 DEF Heard, Latest
    <3>3. CASE wait[c] # <<>>
      <4>1. sock'[k].inq # <<>> /\ Latest(sock'[k].inq) = Latest(wait[c])
        BY <1>5, <3>1, <3>3, LatestFacts
      <4>2. Latest(sock'[k].inq) = charID[c]
        BY <2>1, <3>3, <4>1 DEF Asked
      <4>3. QED
        BY <1>1, <1>6, <4>1, <4>2 DEF Heard, Latest
    <3>4. QED
      BY <3>2, <3>3
  <2>4. Shown(c)'
    BY <1>1, <1>2, <1>5, <1>6, <2>1 DEF Shown, Latest
  <2>5. QED
    BY <2>2, <2>3, <2>4
<1>10. QED
  BY <1>7, <1>8, <1>9

LEMMA ClosedPage ==
  ASSUME Types, NEW c \in Clients, NEW k \in Sockets, Holds(c), Follows(c), Entry(c),
         Closed(c, k)
  PROVE  Holds(c)' /\ Follows(c)' /\ Entry(c)'
<1>1. /\ ws[c] = k /\ k # NoSocket /\ state[c] \in {"connecting", "connected"}
  BY ConstantsAssumption DEF Closed, Holds, Follows
<1>2. PICK r \in Socket : r = sock[k]
  BY TheSocket
<1>3. sock'[k].end = "closed" /\ \A j \in Sockets : j # k => sock'[j] = sock[j]
  <2> DEFINE q == [r EXCEPT !.end = "closed", !.outq = <<>>]
  <2>1. q \in Socket /\ q.end = "closed"
    BY NothingQueued DEF Socket
  <2>2. sock' = [sock EXCEPT ![k] = Finished([sock[k] EXCEPT !.end = "closed", !.outq = <<>>])]
    BY ZenonT(60) DEF Closed
  <2>3. sock' = [sock EXCEPT ![k] = Finished(q)]
    BY <1>2, <2>2
  <2> HIDE DEF q
  <2>4. QED
    BY <2>1, <2>3, FinishedFacts DEF Types, ServerTypes
<1>4. /\ ws'[c] = NoSocket /\ ~beat'[c] /\ ScheduleReconnect(c)
      /\ wait' = wait /\ listed' = listed
  BY <1>1 DEF Closed, Types, LinkTypes
<1>5. ~timer[c] /\ token[c] /\ token[c] \in BOOLEAN
  BY <1>1 DEF Follows, Types, PageTypes
<1>6. Holds(c)'
  BY <1>1, <1>3, <1>4 DEF Holds
<1>7. CASE GiveUp(c)
  <2>1. /\ state'[c] = "disconnected" /\ ~timer'[c] /\ scene'[c] # "map"
        /\ scene'[c] = "select" => token'[c]
    BY <1>5, <1>7 DEF GiveUp, Types, PageTypes, LinkTypes
  <2>2. Follows(c)'
    BY <1>4, <2>1 DEF Follows, Listed
  <2>3. QED
    BY <1>6, <2>1, <2>2 DEF Entry
<1>8. CASE ~GiveUp(c)
  <2>1. /\ state'[c] = "reconnecting" /\ timer'[c]
        /\ UNCHANGED <<scene, charID, token, self>>
    BY <1>4, <1>8 DEF ScheduleReconnect, Types, LinkTypes
  <2>2. Follows(c)'
    BY <1>4, <1>5, <2>1 DEF Follows
  <2>3. Entry(c)'
    BY <1>4, <2>1 DEF Entry, Asked, Heard, Shown, Latest
  <2>4. QED
    BY <1>6, <2>2, <2>3
<1>9. QED
  BY <1>7, <1>8

LEMMA MapInitPage ==
  ASSUME Types, NEW c \in Clients, NEW k \in Sockets, Holds(c), Follows(c), Entry(c),
         MapInit(c, k)
  PROVE  Holds(c)' /\ Follows(c)' /\ Entry(c)'
<1>1. ws[c] = k /\ k # NoSocket /\ sock[k].client = c /\ sock[k].end = "open"
  BY ConstantsAssumption DEF MapInit, Holds
<1>2. PICK r \in Socket : r = sock[k]
  BY TheSocket
<1>3. sock'[k] = [r EXCEPT !.outq = Tail(r.outq)]
  BY <1>2 DEF MapInit, Types, ServerTypes
<1>4. \A j \in Sockets : j # k => sock'[j] = sock[j]
  BY DEF MapInit, Types, ServerTypes
<1>5. /\ sock'[k].client = c /\ sock'[k].end = "open" /\ sock'[k].inq = r.inq
      /\ sock'[k].char = r.char /\ sock'[k].pc = r.pc /\ sock'[k].shut = r.shut
      /\ sock'[k].outq = Tail(r.outq) /\ r.outq # <<>> /\ r.outq \in Seq(Chars)
  BY <1>1, <1>2, <1>3 DEF MapInit, Socket
<1>6. /\ self'[c] = Head(r.outq)
      /\ UNCHANGED <<scene, listed, ws, state, beat, timer, wait, charID, token, db>>
  BY <1>2 DEF MapInit, Types, PageTypes, serverVars
<1>7. Holds(c)'
  BY <1>1, <1>4, <1>5, <1>6 DEF Holds
<1>8. Follows(c)'
  BY <1>1, <1>5, <1>6 DEF Follows, Listed
<1>9. Entry(c)'
  <2> SUFFICES ASSUME scene[c] = "map"
               PROVE  Asked(c)' /\ Heard(c)' /\ Shown(c)'
    BY <1>6 DEF Entry
  <2>1. Asked(c) /\ Heard(c) /\ Shown(c)
    BY DEF Entry
  <2>2. Asked(c)'
    BY <1>6, <2>1 DEF Asked, Latest
  <2>3. Heard(c)'
    BY <1>1, <1>2, <1>5, <1>6, <2>1 DEF Heard, Latest
  <2>4. Shown(c)'
    <3> SUFFICES ASSUME r.pc = "reading", ~r.shut, r.char # NoChar
                 PROVE  /\ Tail(r.outq) # <<>> => Latest(Tail(r.outq)) = r.char
                        /\ Tail(r.outq) = <<>> => self'[c] = r.char
      BY <1>1, <1>5, <1>6 DEF Shown, Latest
    <3>1. Latest(r.outq) = r.char
      BY <1>1, <1>2, <1>5, <2>1 DEF Shown
    <3>2. QED
      BY <1>5, <1>6, <3>1, LatestFacts
  <2>5. QED
    BY <2>2, <2>3, <2>4
<1>10. QED
  BY <1>7, <1>8, <1>9

LEMMA PageInv ==
  ASSUME Types, SocketInv, EntryInv, NEW c \in Clients,
         User(c) \/ Answers(c) \/ Browser(c)
  PROVE  SocketInv' /\ EntryInv'
<1> SUFFICES ASSUME NEW d \in Clients PROVE Holds(d)' /\ Follows(d)' /\ Entry(d)'
  BY Zenon DEF SocketInv, EntryInv
<1>1. Holds(d) /\ Follows(d) /\ Entry(d)
  BY DEF SocketInv, EntryInv
<1>2. CASE d # c
  BY <1>1, <1>2, PageBystanders, QuietKeeps
<1>3. CASE d = c
  <2>1. CASE \/ PressLogin(c) \/ LoginAnswer(c) \/ ListAnswer(c)
             \/ (\E ch \in Chars : PressDelete(c, ch)) \/ PressCreate(c) \/ CreateAnswer(c)
             \/ Leave(c)
             \/ DeleteAnswer(c) /\ UNCHANGED <<scene, listed, busy, state, timer, beat, ws,
                                               charID, sock>>
    BY <1>1, <1>3, <2>1, QuietPage, QuietKeeps
  <2>2. CASE Logout(c) \/ (DeleteAnswer(c) /\ Disconnect(c) /\ Goto(c, "select"))
    <3>1. PICK s \in {"select", "login", "title"} : Disconnect(c) /\ Goto(c, s)
      BY <2>2, Zenon DEF Logout
    <3>2. Disconnect(c) /\ scene'[c] # "map" /\ listed'[c] = NotListed
      BY <3>1 DEF Goto, Types, PageTypes
    <3>3. QED
      BY <1>1, <1>3, <3>2, DisconnectPage
  <2>3. CASE \E ch \in Chars : EnterGame(c, ch)
    BY <1>1, <1>3, <2>3, EnterGamePage
  <2>4. CASE Browser(c)
    BY <1>1, <1>3, <2>4, ReconnectPage, OpenedPage, ClosedPage, MapInitPage DEF Browser
  <2>5. QED
    <3>1. CASE User(c)
      BY <2>1, <2>2, <2>3, <3>1 DEF User
    <3>2. CASE Answers(c)
      <4>1. CASE DeleteAnswer(c)
        BY <2>1, <2>2, <4>1, Zenon DEF DeleteAnswer
      <4>2. QED
        BY <2>1, <3>2, <4>1 DEF Answers
    <3>3. QED
      BY <2>4, <3>1, <3>2
<1>4. QED
  BY <1>2, <1>3

-----------------------------------------------------------------------------
(* What the server does to the socket of a page *)

Left(j) ==
  /\ sock'[j].inq = sock[j].inq /\ sock'[j].char = sock[j].char
  /\ sock'[j].outq = sock[j].outq
  /\ sock[j].shut => sock'[j].shut
  /\ \/ sock'[j].pc = sock[j].pc
     \/ sock[j].pc = "none" /\ sock'[j].pc = "reading"
     \/ sock[j].pc \in {"moving", "arriving"} /\ sock'[j].pc \in {"arriving", "entering"}

Ended(j) == sock'[j].pc \in {"leaving", "gone"}

Read(j) ==
  LET ch == Head(sock[j].inq) IN
  /\ sock[j].pc = "reading" /\ sock[j].inq # <<>>
  /\ sock'[j].inq = Tail(sock[j].inq) /\ sock'[j].outq = sock[j].outq
  /\ sock'[j].shut = sock[j].shut
  /\ sock'[j].char = IF ch \in db THEN ch ELSE sock[j].char
  /\ IF ch \in db THEN sock'[j].pc \in {"moving", "entering"} ELSE sock'[j].pc = "reading"

Entered(j) ==
  /\ sock[j].pc = "entering" /\ sock'[j].pc = "reading"
  /\ sock'[j].inq = sock[j].inq /\ sock'[j].char = sock[j].char
  /\ sock'[j].shut = sock[j].shut
  /\ ~sock[j].shut => sock'[j].outq = Append(sock[j].outq, sock[j].char)

Served(j) ==
  /\ sock'[j].end = sock[j].end /\ sock'[j].client = sock[j].client
  /\ Left(j) \/ Ended(j) \/ Read(j) \/ Entered(j)

LEMMA ServerServes ==
  ASSUME Types, NEW k \in Sockets, Server(k) \/ Cut(k), NEW j \in Sockets
  PROVE  Served(j) \/ (sock[j].end = "closed" /\ sock'[j].end = "closed")
<1>1. PICK r \in Socket : r = sock[j]
  BY TheSocket
<1>2. sock \in [Sockets -> Socket]
  BY DEF Types, ServerTypes
<1> USE DEF Served
<1>3. CASE Accept(k) \/ TakeNewChar(k)
  <2>1. CASE j # k
    <3>1. sock'[j] = r \/ sock'[j] = [r EXCEPT !.shut = TRUE]
      BY <1>1, <1>3, <2>1, AcceptTypes, TakeNewCharTypes, RegisterTypes
    <3>2. QED
      BY <1>1, <3>1 DEF Socket, Left
  <2>2. CASE j = k /\ Accept(k)
    <3>1. sock'[j] = [r EXCEPT !.pc = "reading"] /\ r.pc = "none"
      BY <1>1, <2>2, AcceptTypes, RegisterTypes DEF Accept
    <3>2. QED
      BY <1>1, <3>1 DEF Socket, Left
  <2>3. CASE j = k /\ TakeNewChar(k)
    <3>0. Register(k, [r EXCEPT !.pc = "entering", !.robbed = FALSE])
      BY <1>1, <2>3, TakeNewCharTypes
    <3>1. sock'[j] = [r EXCEPT !.pc = "entering", !.robbed = FALSE] /\ r.pc = "arriving"
      BY <1>1, <1>2, <2>3, <3>0 DEF TakeNewChar, Register
    <3>2. QED
      BY <1>1, <3>1 DEF Socket, Left
  <2>4. QED
    BY <1>3, <2>1, <2>2, <2>3
<1>4. CASE Refuse(k)
  <2>1. sock' = [sock EXCEPT ![k] = Finished([sock[k] EXCEPT !.pc = "gone", !.shut = TRUE])]
    BY <1>4, RefuseTypes, Zenon
  <2> DEFINE q == [r EXCEPT !.pc = "gone", !.shut = TRUE]
  <2>2. q \in Socket /\ q.end = r.end /\ q.client = r.client /\ q.pc = "gone"
    BY DEF Socket
  <2>3. sock'[j] = IF j = k THEN Finished(q) ELSE r
    BY <1>1, <1>2, <2>1
  <2> HIDE DEF q
  <2>4. CASE j = k
    BY <1>1, <2>2, <2>3, <2>4, FinishedFacts DEF Ended
  <2>5. CASE j # k
    BY <1>1, <2>3, <2>5 DEF Left
  <2>6. QED
    BY <2>4, <2>5
<1>5. CASE HandleEnterMap(k)
  <2>1. PICK q \in Socket : q = sock[k]
    BY TheSocket
  <2>2. CASE j = k
    BY <1>5, <2>1, <2>2, HandleEnterMapFacts DEF Read
  <2>3. CASE j # k
    <3>1. sock' = [sock EXCEPT ![k] = sock'[k]]
      BY <1>5, <2>1, HandleEnterMapFacts
    <3>2. sock'[j] = sock[j]
      BY <1>2, <2>3, <3>1
    <3>3. QED
      BY <3>2 DEF Left
  <2>4. QED
    BY <2>2, <2>3
<1>6. CASE EnterMapRoom(k)
  <2>1. CASE j = k
    <3> DEFINE o == IF r.end = "closed" \/ r.shut THEN r.outq ELSE Append(r.outq, r.char)
    <3>1. sock'[j] = [r EXCEPT !.pc = "reading", !.inMap = TRUE, !.outq = o]
      BY <1>1, <1>2, <1>6, <2>1 DEF EnterMapRoom
    <3>2. r.pc = "entering"
      BY <1>1, <1>6, <2>1 DEF EnterMapRoom
    <3> HIDE DEF o
    <3>3. /\ sock'[j].pc = "reading" /\ sock'[j].inq = r.inq /\ sock'[j].char = r.char
          /\ sock'[j].shut = r.shut /\ sock'[j].outq = o
          /\ sock'[j].end = r.end /\ sock'[j].client = r.client
      BY <3>1 DEF Socket
    <3>4. QED
      BY <1>1, <3>2, <3>3 DEF Entered, o
  <2>2. CASE j # k
    BY <1>2, <1>6, <2>2 DEF EnterMapRoom, Left
  <2>3. QED
    BY <2>1, <2>2
<1>7. CASE HandleDisconnect(k)
  <2>1. sock'[j] = IF j = k THEN [r EXCEPT !.pc = "leaving", !.shut = TRUE, !.inq = <<>>]
                   ELSE r
    BY <1>1, <1>2, <1>7 DEF HandleDisconnect
  <2>2. QED
    BY <1>1, <2>1 DEF Socket, Ended, Left
<1>8. CASE LeaveOldChar(k) \/ EndDisconnect(k)
  <2>1. CASE j # k
    <3>1. sock'[j] = r \/ sock'[j] = [r EXCEPT !.robbed = TRUE]
      <4>1. CASE LeaveOldChar(k)
        BY <1>1, <1>2, <2>1, <4>1 DEF LeaveOldChar, Unregister
      <4>2. CASE EndDisconnect(k)
        BY <1>1, <1>2, <2>1, <4>2 DEF EndDisconnect, Unregister
      <4>3. QED
        BY <1>8, <4>1, <4>2
    <3>2. QED
      BY <1>1, <3>1 DEF Socket, Left
  <2>2. CASE j = k /\ LeaveOldChar(k)
    <3>1. sock'[j] = [r EXCEPT !.from = NoChar, !.pc = "arriving"] /\ r.pc = "moving"
      BY <1>1, <1>2, <2>2 DEF LeaveOldChar, Unregister
    <3>2. QED
      BY <1>1, <3>1 DEF Socket, Left
  <2>3. CASE j = k /\ EndDisconnect(k)
    <3>1. /\ sock'[j].pc = "gone" /\ sock'[j].end = sock[j].end
          /\ sock[j].end = "closed" \/ sock'[j].client = sock[j].client
      <4> DEFINE q == [r EXCEPT !.pc = "gone"]
      <4>1. q \in Socket /\ q.pc = "gone" /\ q.end = r.end /\ q.client = r.client
        BY DEF Socket
      <4>2. sock'[j] = Finished(q)
        BY <1>1, <1>2, <2>3 DEF EndDisconnect, Unregister
      <4> HIDE DEF q
      <4>3. QED
        BY <1>1, <4>1, <4>2, FinishedFacts
    <3>2. QED
      BY <3>1 DEF Ended
  <2>4. QED
    BY <1>8, <2>1, <2>2, <2>3
<1>9. CASE Cut(k)
  <2>1. sock'[j] = IF j = k THEN [r EXCEPT !.cut = TRUE] ELSE r
    BY <1>1, <1>2, <1>9 DEF Cut
  <2>2. QED
    BY <1>1, <2>1 DEF Socket, Left
<1>10. QED
  BY <1>3, <1>4, <1>5, <1>6, <1>7, <1>8, <1>9 DEF Server

LEMMA ServedEntry ==
  ASSUME Types, Characters, NEW c \in Clients, Entry(c),
         ws[c] # NoSocket => Served(ws[c]),
         UNCHANGED <<clientVars, db>>
  PROVE  Entry(c)'
<1> SUFFICES ASSUME scene[c] = "map"
             PROVE  Asked(c)' /\ Heard(c)' /\ Shown(c)'
  BY DEF Entry, clientVars
<1>1. Asked(c) /\ Heard(c) /\ Shown(c)
  BY DEF Entry
<1>2. Asked(c)'
  BY <1>1 DEF Asked, Latest, clientVars
<1>3. UNCHANGED <<ws, charID, self, db>>
  BY DEF clientVars
<1>4. CASE ws[c] = NoSocket
  BY <1>2, <1>3, <1>4 DEF Heard, Shown
<1>5. CASE ws[c] # NoSocket
  <2> DEFINE j == ws[c]
  <2>1. j \in Sockets /\ sock[j] \in Socket /\ Served(j)
    BY <1>5 DEF Types, LinkTypes, ServerTypes
  <2>2. /\ sock[j].inq \in Seq(Chars) /\ sock[j].outq \in Seq(Chars)
        /\ sock[j].pc = "none" => sock[j].char = NoChar
        /\ sock[j].pc = "entering" => sock[j].char \in Chars
    BY <2>1 DEF Socket, Characters
  <2> HIDE DEF j
  <2>3. CASE Left(j)
    <3>1. Heard(c)'
      BY <1>1, <1>3, <1>5, <2>2, <2>3 DEF Heard, Left, Latest, j
    <3>2. Shown(c)'
      BY <1>1, <1>3, <1>5, <2>2, <2>3 DEF Shown, Left, Latest, j
    <3>3. QED
      BY <1>2, <3>1, <3>2
  <2>4. CASE Ended(j)
    BY <1>2, <1>3, <2>4 DEF Ended, Heard, Shown, j
  <2>5. CASE Read(j)
    <3>1. Heard(c)'
      <4> SUFFICES ASSUME charID[c] \in db
                   PROVE  /\ sock'[j].inq # <<>> => Latest(sock'[j].inq) = charID[c]
                          /\ sock'[j].inq = <<>> => sock'[j].char = charID[c]
        BY <1>3 DEF Heard, Latest, j
      <4>1. Latest(sock[j].inq) = charID[c]
        BY <1>1, <1>5, <2>5 DEF Heard, Read, j
      <4>2. QED
        BY <2>2, <2>5, <4>1, LatestFacts DEF Read
    <3>2. Shown(c)'
      BY <1>1, <1>3, <1>5, <2>5 DEF Shown, Read, Latest, j
    <3>3. QED
      BY <1>2, <3>1, <3>2
  <2>6. CASE Entered(j)
    <3>1. Heard(c)'
      BY <1>1, <1>3, <1>5, <2>6 DEF Heard, Entered, Latest, j
    <3>2. Shown(c)'
      <4> SUFFICES ASSUME ~sock[j].shut
                   PROVE  /\ sock'[j].outq # <<>> /\ Latest(sock'[j].outq) = sock'[j].char
        BY <1>3, <2>6 DEF Shown, Entered, Latest, j
      <4>1. QED
        BY <2>2, <2>6, LatestFacts DEF Entered
    <3>3. QED
      BY <1>2, <3>1, <3>2
  <2>7. QED
    BY <2>1, <2>3, <2>4, <2>5, <2>6 DEF Served
<1>6. QED
  BY <1>4, <1>5

LEMMA ServerInv ==
  ASSUME Types, Characters, SocketInv, EntryInv, NEW k \in Sockets, Server(k) \/ Cut(k)
  PROVE  SocketInv' /\ EntryInv'
<1> SUFFICES ASSUME NEW c \in Clients PROVE Holds(c)' /\ Follows(c)' /\ Entry(c)'
  BY Zenon DEF SocketInv, EntryInv
<1>1. Holds(c) /\ Follows(c) /\ Entry(c)
  BY DEF SocketInv, EntryInv
<1>2. UNCHANGED <<clientVars, db>>
  BY DEF Server, Accept, Refuse, HandleEnterMap, LeaveOldChar, TakeNewChar, EnterMapRoom,
         HandleDisconnect, EndDisconnect, Cut, serverVars
<1>3. \A j \in Sockets : Served(j) \/ (sock[j].end = "closed" /\ sock'[j].end = "closed")
  BY ServerServes
<1>4. ws[c] # NoSocket => ws[c] \in Sockets /\ Served(ws[c])
  BY <1>1, <1>3 DEF Holds, Types, LinkTypes
<1>5. Holds(c)'
  <2>1. ws' = ws
    BY <1>2 DEF clientVars
  <2>2. ws[c] # NoSocket => sock'[ws[c]].client = c /\ sock'[ws[c]].end # "closed"
    BY <1>1, <1>4 DEF Holds, Served
  <2>3. ASSUME NEW j \in Sockets, sock'[j].client = c, sock'[j].end # "closed"
        PROVE  j = ws[c]
    BY <1>1, <1>3, <2>3 DEF Holds, Served
  <2>4. QED
    BY <2>1, <2>2, <2>3 DEF Holds
<1>6. Follows(c)'
  BY <1>1, <1>2, <1>4 DEF Follows, Listed, clientVars, Served
<1>7. Entry(c)'
  BY <1>1, <1>2, <1>4, ServedEntry
<1>8. QED
  BY <1>5, <1>6, <1>7

-----------------------------------------------------------------------------
(* The theorems *)

LEMMA ConnectionStep == ConnectionInv /\ [Next]_vars => ConnectionInv'
<1> SUFFICES ASSUME ConnectionInv, [Next]_vars PROVE ConnectionInv'
  OBVIOUS
<1>1. Types /\ Characters /\ Registry /\ SocketInv /\ EntryInv
  BY DEF ConnectionInv
<1>2. Types' /\ Characters' /\ Registry'
  BY <1>1, TypesStep, RegistryStep
<1>3. SocketInv' /\ EntryInv'
  <2>1. ASSUME \A d \in Clients : Quiet(d) PROVE SocketInv' /\ EntryInv'
    <3> SUFFICES ASSUME NEW d \in Clients PROVE Holds(d)' /\ Follows(d)' /\ Entry(d)'
      BY Zenon DEF SocketInv, EntryInv
    <3>1. QED
      BY <1>1, <2>1, QuietKeeps DEF SocketInv, EntryInv
  <2>2. CASE UNCHANGED vars \/ \E c \in Clients : ServeDelete(c)
    <3>1. UNCHANGED <<clientVars, sock>> /\ db' \subseteq db
      BY <2>2 DEF vars, serverVars, ServeDelete
    <3>2. \A d \in Clients : Quiet(d)
      BY <1>1, <3>1 DEF Quiet, clientVars, SocketInv, Follows, Listed
    <3>3. QED
      BY <2>1, <3>2
  <2>3. ASSUME NEW c \in Clients, User(c) \/ Answers(c) \/ Browser(c)
        PROVE  SocketInv' /\ EntryInv'
    BY <1>1, <2>3, PageInv
  <2>4. ASSUME NEW k \in Sockets, Server(k) \/ Cut(k)
        PROVE  SocketInv' /\ EntryInv'
    BY <1>1, <2>4, ServerInv
  <2>5. QED
    BY <2>2, <2>3, <2>4 DEF Next
<1>4. QED
  BY <1>1, <1>2, <1>3 DEF ConnectionInv

LEMMA ConnectionAlways == Spec => []ConnectionInv
<1>1. QED
  BY ConnectionInit, ConnectionStep, PTL DEF Spec

\* The variables stay in their ranges: no attempt beyond the maximum, no answer or
\* message that writes where it should not (mmo-core.js:140-256, handler.go).
THEOREM ConnectionTyped == Spec => []TypeOK
<1>1. Types => TypeOK
  <2> SUFFICES ASSUME Types PROVE TypeOK
    OBVIOUS
  <2>1. PageTypes /\ LinkTypes /\ ServerTypes
    BY DEF Types
  <2>2. \A k \in Sockets :
          /\ sock[k].client \in Clients \cup {NoChar}
          /\ sock[k].end \in {"opening", "open", "closed"}
          /\ sock[k].pc \in {"none", "reading", "moving", "arriving", "entering",
                             "leaving", "gone"}
          /\ {sock[k].hooked, sock[k].cut, sock[k].shut, sock[k].inMap, sock[k].robbed}
               \subseteq BOOLEAN
          /\ {sock[k].char, sock[k].from} \subseteq Chars \cup {NoChar}
          /\ {sock[k].inq, sock[k].outq} \subseteq Seq(Chars)
    <3> SUFFICES ASSUME NEW k \in Sockets
                 PROVE  /\ sock[k].client \in Clients \cup {NoChar}
                        /\ sock[k].end \in {"opening", "open", "closed"}
                        /\ sock[k].pc \in {"none", "reading", "moving", "arriving",
                                           "entering", "leaving", "gone"}
                        /\ {sock[k].hooked, sock[k].cut, sock[k].shut, sock[k].inMap,
                            sock[k].robbed} \subseteq BOOLEAN
                        /\ {sock[k].char, sock[k].from} \subseteq Chars \cup {NoChar}
                        /\ {sock[k].inq, sock[k].outq} \subseteq Seq(Chars)
      OBVIOUS
    <3>1. PICK r \in Socket : r = sock[k]
      BY TheSocket
    <3>2. /\ r.hooked \in BOOLEAN /\ r.cut \in BOOLEAN /\ r.shut \in BOOLEAN
          /\ r.inMap \in BOOLEAN /\ r.robbed \in BOOLEAN
          /\ r.char \in Chars \cup {NoChar} /\ r.from \in Chars \cup {NoChar}
          /\ r.inq \in Seq(Chars) /\ r.outq \in Seq(Chars)
      BY DEF Socket
    <3>3. /\ {r.hooked, r.cut, r.shut, r.inMap, r.robbed} \subseteq BOOLEAN
          /\ {r.char, r.from} \subseteq Chars \cup {NoChar}
          /\ {r.inq, r.outq} \subseteq Seq(Chars)
      BY <3>2, Zenon
    <3>4. QED
      BY <3>1, <3>3 DEF Socket
  <2>3. /\ {busy, timer, beat, token} \subseteq [Clients -> BOOLEAN]
        /\ {deleting, charID, self} \subseteq [Clients -> Chars \cup {NoChar}]
    BY <2>1, Zenon DEF PageTypes, LinkTypes
  <2>4. QED
    BY <2>1, <2>2, <2>3, Zenon
       DEF TypeOK, PageTypes, LinkTypes, ServerTypes, Listing, Kinds
<1>2. QED
  BY <1>1, ConnectionAlways, PTL DEF ConnectionInv

\* The registry finds a session under its own character or the one it is leaving,
\* never one that has ended, and finds every open session that was not robbed of its
\* entry, for any interleaving of the goroutines of any number of sockets, with CharID
\* and the entry changed one after the other (handlers_game.go:141, 158-159) and the
\* entry moved and removed by character (session_manager.go:27-50).
THEOREM RegistryIsHonest == Spec => []RegistryHonest
<1>1. Types /\ Registry => RegistryHonest
  <2> SUFFICES ASSUME Types, Registry PROVE RegistryHonest
    OBVIOUS
  <2>1. \A ch \in Chars \cup {NoChar} : sessions[ch] # NoSocket =>
          /\ sock[sessions[ch]].pc \notin {"none", "gone"}
          /\ ch = IF sock[sessions[ch]].pc = "moving"
                  THEN sock[sessions[ch]].from ELSE sock[sessions[ch]].char
    BY DEF Registry, Found, Key
  <2>2. \A k \in Sockets : Settled(k) /\ sock[k].inMap
                            => sessions[sock[k].char] = k \/ sock[k].robbed
    BY DEF Registry, Kept, Key, Settled
  <2>3. QED
    BY <2>1, <2>2 DEF RegistryHonest
<1>2. QED
  BY <1>1, ConnectionAlways, PTL DEF ConnectionInv

\* A page never holds two sockets: disconnect, onclose and the back-off leave none
\* behind (mmo-core.js:162, mmo-auth.js:1001).
THEOREM OneSocketHeld == Spec => []OneSocket
<1>1. SocketInv => OneSocket
  BY DEF SocketInv, Holds, OneSocket
<1>2. QED
  BY <1>1, ConnectionAlways, PTL DEF ConnectionInv

\* _ws, _state, the two timers and the token tell the same story after any
\* interleaving of answers, buttons, closes and timers (mmo-core.js:149-236).
THEOREM SocketCoherent == Spec => []Coherent
<1>1. Types /\ SocketInv => Coherent
  <2> SUFFICES ASSUME Types, SocketInv, NEW c \in Clients
               PROVE  /\ state[c] = "connected" <=> ws[c] # NoSocket /\ sock[ws[c]].end = "open"
                      /\ state[c] = "connecting" <=> ws[c] # NoSocket /\ sock[ws[c]].end = "opening"
                      /\ state[c] = "reconnecting" <=> timer[c]
                      /\ state[c] = "connected" <=> beat[c]
                      /\ timer[c] => token[c]
    BY Zenon DEF Coherent
  <2>1. Holds(c) /\ Follows(c)
    BY DEF SocketInv
  <2>2. ws[c] # NoSocket => sock[ws[c]].end \in {"opening", "open"}
    BY <2>1 DEF Holds, Types, LinkTypes, ServerTypes, Socket
  <2>3. QED
    BY <2>1, <2>2 DEF Follows
<1>2. QED
  BY <1>1, ConnectionAlways, PTL DEF ConnectionInv

\* Whatever was left over from earlier entries, lost connections or other tabs, the
\* server plays for a page in the game the character it was entered with, and shows
\* that one (mmo-auth.js:1003-1008, handlers_game.go).
THEOREM PlaysWhatWasChosen == Spec => []PlaysChosen
<1>1. Types /\ SocketInv /\ EntryInv => PlaysChosen
  <2> SUFFICES ASSUME Types, SocketInv, EntryInv, NEW c \in Clients,
                      scene[c] = "map", state[c] = "connected", charID[c] \in db,
                      Settled(ws[c]), sock[ws[c]].char # NoChar
               PROVE  /\ sock[ws[c]].char = charID[c]
                      /\ sock[ws[c]].outq = <<>> => self[c] = charID[c]
    BY Zenon DEF PlaysChosen
  <2>1. Follows(c) /\ Heard(c) /\ Shown(c)
    BY DEF SocketInv, EntryInv, Entry
  <2>2. ws[c] # NoSocket
    BY <2>1 DEF Follows
  <2>3. sock[ws[c]].char = charID[c]
    BY <2>1, <2>2 DEF Heard, Settled
  <2>4. QED
    BY <2>1, <2>2, <2>3 DEF Shown, Settled
<1>2. QED
  BY <1>1, ConnectionAlways, PTL DEF ConnectionInv
=============================================================================
