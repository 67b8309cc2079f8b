----------------------------- MODULE Connection -----------------------------
(***************************************************************************)
(* The life of a connection, at both ends.                                 *)
(*                                                                         *)
(* The client (client_plugin/mmo-core.js and mmo-auth.js) is the $MMO      *)
(* socket with its back-off and heartbeat, and the scenes that log in,     *)
(* list, create, delete and enter a character.  The answers of the HTTP    *)
(* calls come back whenever they come back, whatever scene is shown.       *)
(*                                                                         *)
(* The server (server/api/ws/handler.go, handlers_game.go and              *)
(* game/player/session_manager.go) runs one goroutine per socket, here     *)
(* pc: it registers the session under character 0, serves enter_map, and   *)
(* cleans up when the socket ends.  Its steps on CharID, on the registry   *)
(* and on the room interleave with those of other sockets.                 *)
(*                                                                         *)
(* One account and one map are modelled.  A WebSocket object whose two     *)
(* ends are finished is used again for a later one.                        *)
(***************************************************************************)
EXTENDS Naturals, Sequences

CONSTANTS
  Clients,        \* browser tabs
  Chars,          \* the account's characters
  Sockets,        \* WebSocket objects (bound: this many at a time)
  NoChar,         \* character 0, or none
  NoSocket,
  NotListed,      \* the characters of a selection that is still loading
  ReconnectMax,   \* $MMO._reconnectMax
  MaxDrops,       \* bound on network failures
  MaxWait         \* bound on the onConnected handlers waiting at a time

ASSUME ConstantsAssumption ==
  /\ NoChar \notin Chars
  /\ NoSocket \notin Sockets
  /\ ReconnectMax \in Nat
  /\ MaxDrops \in Nat

VARIABLES
  scene,          \* scene[c]: the scene shown
  listed,         \* listed[c]: the characters shown by Scene_CharacterSelect, once loaded
  busy,           \* busy[c]: the login or the enter button has been pressed
  deleting,       \* deleting[c]: the character of a DELETE without an answer
  posting,        \* posting[c]: the POSTs without an answer, of a login or of a character
  state,          \* $MMO._state
  attempts,       \* $MMO._reconnectAttempts
  timer,          \* a reconnect timer is running
  beat,           \* the heartbeat timer is running
  ws,             \* $MMO._ws
  wait,           \* the onConnected handlers registered for _connected, in order
  charID,         \* $MMO.charID
  token,          \* $MMO.token is set
  self,           \* the character of $MMO._lastSelf
  sock,           \* sock[k]: the socket, its two ends and what is in flight
  sessions,       \* SessionManager.sessions
  room,           \* MapRoom.players
  db,             \* the characters the account has
  drops

clientVars == <<scene, listed, busy, deleting, posting, state, attempts,
                timer, beat, ws, wait, charID, token, self>>
serverVars == <<sessions, room, db>>
vars == <<clientVars, sock, serverVars, drops>>

Scenes == {"title", "login", "select", "create", "map"}
States == {"disconnected", "connecting", "connected", "reconnecting"}

\* A socket.  end is the client's readyState, hooked says that onclose is still
\* set; pc is the server's goroutine, shut that Done is closed, char and inMap
\* are CharID and MapID # 0, from is oldCharID until it is unregistered; inq and
\* outq are enter_map and map_init messages.  robbed is history: another session
\* has removed the entry of this one from the registry.
Fresh == [client |-> NoChar, end |-> "closed", hooked |-> FALSE, cut |-> FALSE,
          pc |-> "gone", shut |-> TRUE, char |-> NoChar, from |-> NoChar,
          inMap |-> FALSE, robbed |-> FALSE, inq |-> <<>>, outq |-> <<>>]

Init ==
  /\ scene = [c \in Clients |-> "login"]
  /\ listed = [c \in Clients |-> NotListed]
  /\ busy = [c \in Clients |-> FALSE]
  /\ deleting = [c \in Clients |-> NoChar]
  /\ posting = [c \in Clients |-> {}]
  /\ state = [c \in Clients |-> "disconnected"]
  /\ attempts = [c \in Clients |-> 0]
  /\ timer = [c \in Clients |-> FALSE]
  /\ beat = [c \in Clients |-> FALSE]
  /\ ws = [c \in Clients |-> NoSocket]
  /\ wait = [c \in Clients |-> <<>>]
  /\ charID = [c \in Clients |-> NoChar]
  /\ token = [c \in Clients |-> FALSE]
  /\ self = [c \in Clients |-> NoChar]
  /\ sock = [k \in Sockets |-> Fresh]
  /\ sessions = [ch \in Chars \cup {NoChar} |-> NoSocket]
  /\ room = [ch \in Chars |-> NoSocket]
  /\ db = Chars
  /\ drops = 0

-----------------------------------------------------------------------------
(* The $MMO socket. *)

\* A socket whose two ends are finished keeps nothing.
Finished(r) == IF r.end = "closed" /\ r.pc = "gone" THEN Fresh ELSE r

Unused == {k \in Sockets : sock[k] = Fresh /\ \A ch \in Chars : room[ch] # k}

\* _doConnect: an unused k becomes the new WebSocket object of client c.
Connecting(s, c, k) ==
  /\ k \in Unused
  /\ sock' = [s EXCEPT ![k] = [Fresh EXCEPT !.client = c, !.end = "opening",
                                            !.hooked = TRUE, !.pc = "none", !.shut = FALSE]]
  /\ ws' = [ws EXCEPT ![c] = k]
  /\ state' = [state EXCEPT ![c] = "connecting"]

\* The socket k closed by disconnect: without its onclose, and the browser
\* delivers none of its messages any more.
Hushed(k) == [sock EXCEPT ![k] = Finished([@ EXCEPT !.hooked = FALSE, !.end = "closed",
                                                    !.outq = <<>>])]

\* Mutant: the reconnect timer goes on.
Disconnect_TimerLeft(c) ==
  /\ state' = [state EXCEPT ![c] = "disconnected"]
  /\ timer' = timer
  /\ beat' = [beat EXCEPT ![c] = FALSE]
  /\ ws' = [ws EXCEPT ![c] = NoSocket]
  /\ sock' = IF ws[c] = NoSocket THEN sock ELSE Hushed(ws[c])

\* disconnect: the timers are cleared and the current socket is closed.
Disconnect(c) ==
  /\ state' = [state EXCEPT ![c] = "disconnected"]
  /\ timer' = [timer EXCEPT ![c] = FALSE]
  /\ beat' = [beat EXCEPT ![c] = FALSE]
  /\ ws' = [ws EXCEPT ![c] = NoSocket]
  /\ sock' = IF ws[c] = NoSocket THEN sock ELSE Hushed(ws[c])

\* onopen: the handlers registered for _connected take themselves off and each
\* sends enter_map for the character it was made for.
Opened(c, k) ==
  /\ sock[k].client = c /\ sock[k].end = "opening" /\ sock[k].pc # "none"
  /\ state' = [state EXCEPT ![c] = "connected"]
  /\ attempts' = [attempts EXCEPT ![c] = 0]
  /\ beat' = [beat EXCEPT ![c] = TRUE]
  /\ wait' = [wait EXCEPT ![c] = <<>>]
  /\ sock' = [sock EXCEPT ![k].end = "open",
                          ![k].inq = IF k = ws[c] THEN @ \o wait[c] ELSE @]
  /\ UNCHANGED <<scene, listed, busy, deleting, posting, timer, ws, charID, token,
                 self, serverVars, drops>>

\* _scheduleReconnect with no attempt left: _reconnect_failed and _disconnected;
\* in the game the latter forgets the session and leaves for the title.
GiveUp(c) ==
  LET inGame == scene[c] = "map" IN
  /\ attempts[c] >= ReconnectMax
  /\ state' = [state EXCEPT ![c] = "disconnected"]
  /\ token' = [token EXCEPT ![c] = @ /\ ~inGame]
  /\ charID' = [charID EXCEPT ![c] = IF inGame THEN NoChar ELSE @]
  /\ self' = [self EXCEPT ![c] = IF inGame THEN NoChar ELSE @]
  /\ scene' = [scene EXCEPT ![c] = IF inGame THEN "title" ELSE @]
  /\ UNCHANGED <<attempts, timer>>

\* Mutant: the number of attempts is not looked at.
ScheduleReconnect_Endless(c) ==
  /\ state' = [state EXCEPT ![c] = "reconnecting"]
  /\ attempts' = [attempts EXCEPT ![c] = @ + 1]
  /\ timer' = [timer EXCEPT ![c] = TRUE]
  /\ UNCHANGED <<scene, charID, token, self>>

ScheduleReconnect(c) ==
  \/ GiveUp(c)
  \/ /\ attempts[c] < ReconnectMax
     /\ state' = [state EXCEPT ![c] = "reconnecting"]
     /\ attempts' = [attempts EXCEPT ![c] = @ + 1]
     /\ timer' = [timer EXCEPT ![c] = TRUE]
     /\ UNCHANGED <<scene, charID, token, self>>

\* onclose, whether the network failed, the server refused or it closed.
Closed(c, k) ==
  LET retry == state[c] \in {"connected", "connecting"} IN
  /\ sock[k].client = c /\ sock[k].end \in {"opening", "open"} /\ sock[k].hooked
  /\ sock[k].cut \/ sock[k].shut
  /\ sock' = [sock EXCEPT ![k] = Finished([@ EXCEPT !.end = "closed", !.outq = <<>>])]
  /\ beat' = [beat EXCEPT ![c] = FALSE]
  /\ ws' = [ws EXCEPT ![c] = IF retry THEN NoSocket ELSE @]
  /\ IF retry THEN ScheduleReconnect(c)
     ELSE UNCHANGED <<state, attempts, timer, scene, charID, token, self>>
  /\ UNCHANGED <<listed, busy, deleting, posting, wait, serverVars, drops>>

\* The back-off ends.
Reconnect(c) ==
  /\ timer[c]
  /\ timer' = [timer EXCEPT ![c] = FALSE]
  /\ \E k \in Sockets : Connecting(sock, c, k)
  /\ UNCHANGED <<scene, listed, busy, deleting, posting, attempts, beat, wait,
                 charID, token, self, serverVars, drops>>

\* map_init: the server's view of the player's character.
MapInit(c, k) ==
  /\ sock[k].client = c /\ sock[k].end = "open" /\ sock[k].outq # <<>>
  /\ self' = [self EXCEPT ![c] = Head(sock[k].outq)]
  /\ sock' = [sock EXCEPT ![k].outq = Tail(@)]
  /\ UNCHANGED <<scene, listed, busy, deleting, posting, state, attempts, timer,
                 beat, ws, wait, charID, token, serverVars, drops>>

-----------------------------------------------------------------------------
(* The scenes. *)

\* SceneManager.goto: a new scene starts with none of the old one's state.
Goto(c, s) ==
  /\ scene' = [scene EXCEPT ![c] = s]
  /\ listed' = [listed EXCEPT ![c] = NotListed]
  /\ busy' = [busy EXCEPT ![c] = FALSE]

\* Scene_Login._doLogin or _doRegister is pressed; one POST of a kind is without
\* an answer at a time.
PressLogin(c) ==
  /\ scene[c] = "login" /\ ~busy[c] /\ "login" \notin posting[c]
  /\ busy' = [busy EXCEPT ![c] = TRUE]
  /\ posting' = [posting EXCEPT ![c] = @ \cup {"login"}]
  /\ UNCHANGED <<scene, listed, deleting, state, attempts, timer, beat, ws,
                 wait, charID, token, self, sock, serverVars, drops>>

\* Its answer, in whatever scene: the selection, or the button again.
LoginAnswer(c) ==
  /\ "login" \in posting[c]
  /\ posting' = [posting EXCEPT ![c] = @ \ {"login"}]
  /\ \/ /\ token' = [token EXCEPT ![c] = TRUE]
        /\ Goto(c, "select")
     \/ /\ busy' = [busy EXCEPT ![c] = @ /\ scene[c] # "login"]
        /\ UNCHANGED <<token, scene, listed>>
  /\ UNCHANGED <<deleting, state, attempts, timer, beat, ws, wait, charID,
                 self, sock, serverVars, drops>>

\* Scene_CharacterSelect._loadCharacters is answered: without a token it fails,
\* and then no character is shown. (A failure of another kind offers less than
\* an answer does.)
ListAnswer(c) ==
  /\ scene[c] = "select" /\ listed[c] = NotListed
  /\ listed' = [listed EXCEPT ![c] = IF token[c] THEN db ELSE {}]
  /\ UNCHANGED <<scene, busy, deleting, posting, state, attempts, timer, beat, ws,
                 wait, charID, token, self, sock, serverVars, drops>>

Listed(c, ch) == scene[c] = "select" /\ listed[c] # NotListed /\ ch \in listed[c]

\* Mutant: the socket of an earlier entry is not disconnected, only forgotten.
EnterGame_Forgets(c, ch) ==
  /\ Listed(c, ch) /\ ~busy[c] /\ Len(wait[c]) < MaxWait
  /\ charID' = [charID EXCEPT ![c] = ch]
  /\ timer' = [timer EXCEPT ![c] = FALSE]
  /\ beat' = [beat EXCEPT ![c] = FALSE]
  /\ \E k \in Sockets : Connecting(sock, c, k)
  /\ wait' = [wait EXCEPT ![c] = Append(@, ch)]
  /\ self' = [self EXCEPT ![c] = NoChar]
  /\ Goto(c, "map")
  /\ UNCHANGED <<deleting, posting, attempts, token, serverVars, drops>>

\* Mutant: connect finds the socket of an earlier entry and skips.
EnterGame_Skips(c, ch) ==
  /\ Listed(c, ch) /\ ~busy[c] /\ Len(wait[c]) < MaxWait
  /\ charID' = [charID EXCEPT ![c] = ch]
  /\ wait' = [wait EXCEPT ![c] = Append(@, ch)]
  /\ self' = [self EXCEPT ![c] = NoChar]
  /\ Goto(c, "map")
  /\ IF state[c] \in {"connected", "connecting"} THEN UNCHANGED <<timer, beat, sock, ws, state>>
     ELSE /\ \E k \in Sockets : Connecting(sock, c, k)
          /\ timer' = [timer EXCEPT ![c] = FALSE]
          /\ UNCHANGED beat
  /\ UNCHANGED <<deleting, posting, attempts, token, serverVars, drops>>

\* Scene_CharacterSelect._enterGame: disconnect, register onConnected for the
\* character, connect, clear what the last session left, go to the map.
EnterGame(c, ch) ==
  /\ Listed(c, ch) /\ ~busy[c] /\ Len(wait[c]) < MaxWait
  /\ charID' = [charID EXCEPT ![c] = ch]
  /\ timer' = [timer EXCEPT ![c] = FALSE]
  /\ beat' = [beat EXCEPT ![c] = FALSE]
  /\ \E k \in Sockets : Connecting(IF ws[c] = NoSocket THEN sock ELSE Hushed(ws[c]), c, k)
  /\ wait' = [wait EXCEPT ![c] = Append(@, ch)]
  /\ self' = [self EXCEPT ![c] = NoChar]
  /\ Goto(c, "map")
  /\ UNCHANGED <<deleting, posting, attempts, token, serverVars, drops>>

\* Scene_CharacterSelect._deleteCharacter, confirmed with a password.
PressDelete(c, ch) ==
  /\ Listed(c, ch) /\ deleting[c] = NoChar
  /\ deleting' = [deleting EXCEPT ![c] = ch]
  /\ UNCHANGED <<scene, listed, busy, posting, state, attempts, timer, beat, ws, wait,
                 charID, token, self, sock, serverVars, drops>>

\* The server deletes the character; a deletion that fails changes nothing.
ServeDelete(c) ==
  /\ deleting[c] \in db
  /\ db' = db \ {deleting[c]}
  /\ UNCHANGED <<clientVars, sock, sessions, room, drops>>

\* Its answer, in whatever scene: disconnect and back to the selection.
DeleteAnswer(c) ==
  /\ deleting[c] # NoChar
  /\ deleting' = [deleting EXCEPT ![c] = NoChar]
  /\ \/ /\ deleting[c] \notin db
        /\ Disconnect(c)
        /\ charID' = [charID EXCEPT ![c] = NoChar]
        /\ Goto(c, "select")
     \/ UNCHANGED <<scene, listed, busy, state, timer, beat, ws, charID, sock>>
  /\ UNCHANGED <<posting, attempts, wait, token, self, serverVars, drops>>

\* The buttons of the selection and of the creation that only change the scene.
Leave(c) ==
  /\ \/ scene[c] = "select" /\ listed[c] # NotListed /\ Goto(c, "create")
     \/ scene[c] = "create" /\ Goto(c, "select")
  /\ UNCHANGED <<deleting, posting, state, attempts, timer, beat, ws, wait, charID,
                 token, self, sock, serverVars, drops>>

\* Scene_CharacterCreate._doCreate.
PressCreate(c) ==
  /\ scene[c] = "create" /\ ~busy[c] /\ "create" \notin posting[c]
  /\ busy' = [busy EXCEPT ![c] = TRUE]
  /\ posting' = [posting EXCEPT ![c] = @ \cup {"create"}]
  /\ UNCHANGED <<scene, listed, deleting, state, attempts, timer, beat, ws, wait,
                 charID, token, self, sock, serverVars, drops>>

\* Its answer, in whatever scene: the selection again, or the button. The new
\* character is one more beyond Chars.
CreateAnswer(c) ==
  /\ "create" \in posting[c]
  /\ posting' = [posting EXCEPT ![c] = @ \ {"create"}]
  /\ \/ Goto(c, "select")
     \/ /\ busy' = [busy EXCEPT ![c] = @ /\ scene[c] # "create"]
        /\ UNCHANGED <<scene, listed>>
  /\ UNCHANGED <<deleting, state, attempts, timer, beat, ws, wait, charID, token, self,
                 sock, serverVars, drops>>

\* Logout of the selection, and of the system menu through Scene_Title.start.
Logout(c) ==
  /\ \/ /\ scene[c] = "select" /\ listed[c] # NotListed
        /\ Goto(c, "login")
        /\ token' = [token EXCEPT ![c] = FALSE]
        /\ UNCHANGED charID
     \/ /\ scene[c] = "map"
        /\ Goto(c, "title")
        /\ UNCHANGED <<token, charID>>
     \/ /\ scene[c] = "title"
        /\ Goto(c, "login")
        /\ token' = [token EXCEPT ![c] = FALSE]
        /\ charID' = [charID EXCEPT ![c] = NoChar]
  /\ Disconnect(c)
  /\ UNCHANGED <<deleting, posting, attempts, wait, self, serverVars, drops>>

-----------------------------------------------------------------------------
(* The server. *)

\* Register(s): the session that is displaced is closed.
Register(k, r) ==
  /\ sock' = [j \in Sockets |->
                IF j = k THEN r
                ELSE IF j = sessions[r.char] THEN [sock[j] EXCEPT !.shut = TRUE]
                ELSE sock[j]]
  /\ sessions' = [sessions EXCEPT ![r.char] = k]

\* Unregister(ch): whoever is found under that character is removed.
Unregister(ch, k, r) ==
  /\ sessions' = [sessions EXCEPT ![ch] = NoSocket]
  /\ sock' = [j \in Sockets |->
                IF j = k THEN r
                ELSE IF j = sessions[ch] THEN [sock[j] EXCEPT !.robbed = TRUE]
                ELSE sock[j]]

\* ServeWS: the handshake succeeds, maybe after the client gave up, and the
\* session is registered under character 0.
Accept(k) ==
  /\ sock[k].pc = "none" /\ ~sock[k].cut
  /\ Register(k, [sock[k] EXCEPT !.pc = "reading"])
  /\ UNCHANGED <<clientVars, room, db, drops>>

\* The handshake never reaches the server.
Refuse(k) ==
  /\ sock[k].pc = "none"
  /\ sock[k].cut \/ sock[k].end = "closed"
  /\ sock' = [sock EXCEPT ![k] = Finished([@ EXCEPT !.pc = "gone", !.shut = TRUE])]
  /\ UNCHANGED <<clientVars, serverVars, drops>>

\* HandleEnterMap up to EnterMapRoom. A character the account has not is answered
\* with an error; else it becomes the session's, ...
HandleEnterMap(k) ==
  LET ch == Head(sock[k].inq)
      read == [sock[k] EXCEPT !.inq = Tail(@)]
  IN
  /\ sock[k].pc = "reading" /\ sock[k].inq # <<>>
  /\ sock' = [sock EXCEPT ![k] =
       IF ch \notin db THEN read
       ELSE IF ch = sock[k].char THEN [read EXCEPT !.pc = "entering"]
       ELSE [read EXCEPT !.pc = "moving", !.from = sock[k].char, !.char = ch]]
  /\ UNCHANGED <<clientVars, serverVars, drops>>

\* Mutant: the entry under the old character stays.
LeaveOldChar_Stays(k) ==
  /\ sock[k].pc = "moving"
  /\ sock' = [sock EXCEPT ![k].from = NoChar, ![k].pc = "arriving"]
  /\ UNCHANGED <<clientVars, serverVars, drops>>

\* ... then, if it was not before, the entry under the old character goes ...
LeaveOldChar(k) ==
  /\ sock[k].pc = "moving"
  /\ Unregister(sock[k].from, k, [sock[k] EXCEPT !.from = NoChar, !.pc = "arriving"])
  /\ UNCHANGED <<clientVars, room, db, drops>>

\* ... and the session is registered under the new one.
TakeNewChar(k) ==
  /\ sock[k].pc = "arriving"
  /\ Register(k, [sock[k] EXCEPT !.pc = "entering", !.robbed = FALSE])
  /\ UNCHANGED <<clientVars, room, db, drops>>

\* EnterMapRoom: leave the room under the present CharID if any was entered,
\* AddPlayer, map_init.
EnterMapRoom(k) ==
  /\ sock[k].pc = "entering"
  /\ room' = [room EXCEPT ![sock[k].char] = k]
  /\ sock' = [sock EXCEPT ![k].pc = "reading", ![k].inMap = TRUE,
                          ![k].outq = IF sock[k].end = "closed" \/ sock[k].shut THEN @
                                      ELSE Append(@, sock[k].char)]
  /\ UNCHANGED <<clientVars, sessions, db, drops>>

\* handleDisconnect up to leaveMap: readPump ends for a socket that its client
\* closed, that the network lost or that another session displaced.
HandleDisconnect(k) ==
  /\ sock[k].pc = "reading"
  /\ sock[k].shut \/ sock[k].cut \/ sock[k].end = "closed"
  /\ sock' = [sock EXCEPT ![k].pc = "leaving", ![k].shut = TRUE, ![k].inq = <<>>]
  /\ room' = IF sock[k].inMap THEN [room EXCEPT ![sock[k].char] = NoSocket] ELSE room
  /\ UNCHANGED <<clientVars, sessions, db, drops>>

\* The rest of handleDisconnect: Unregister, by character.
EndDisconnect(k) ==
  /\ sock[k].pc = "leaving"
  /\ Unregister(sock[k].char, k, Finished([sock[k] EXCEPT !.pc = "gone"]))
  /\ UNCHANGED <<clientVars, room, db, drops>>

\* The network fails under a socket; both ends notice when they notice.
Cut(k) ==
  /\ drops < MaxDrops
  /\ sock[k].end # "closed" /\ ~sock[k].cut
  /\ drops' = drops + 1
  /\ sock' = [sock EXCEPT ![k].cut = TRUE]
  /\ UNCHANGED <<clientVars, serverVars>>

-----------------------------------------------------------------------------

User(c) ==
  \/ PressLogin(c) \/ Leave(c) \/ PressCreate(c) \/ Logout(c)
  \/ \E ch \in Chars : EnterGame(c, ch) \/ PressDelete(c, ch)

Answers(c) == LoginAnswer(c) \/ ListAnswer(c) \/ DeleteAnswer(c) \/ CreateAnswer(c)

Browser(c) == Reconnect(c) \/ \E k \in Sockets : Opened(c, k) \/ Closed(c, k) \/ MapInit(c, k)

Server(k) ==
  \/ Accept(k) \/ Refuse(k)
  \/ HandleEnterMap(k) \/ LeaveOldChar(k) \/ TakeNewChar(k) \/ EnterMapRoom(k)
  \/ HandleDisconnect(k) \/ EndDisconnect(k)

Next ==
  \/ \E c \in Clients : User(c) \/ Answers(c) \/ Browser(c) \/ ServeDelete(c)
  \/ \E k \in Sockets : Server(k) \/ Cut(k)

Spec == Init /\ [][Next]_vars

-----------------------------------------------------------------------------
(* Properties. *)

\* The ranges of the variables.
TypeOK ==
  /\ scene \in [Clients -> Scenes]
  /\ listed \in [Clients -> (SUBSET Chars) \cup {NotListed}]
  /\ posting \in [Clients -> SUBSET {"login", "create"}]
  /\ {busy, timer, beat, token} \subseteq [Clients -> BOOLEAN]
  /\ {deleting, charID, self} \subseteq [Clients -> Chars \cup {NoChar}]
  /\ state \in [Clients -> States]
  /\ attempts \in [Clients -> 0 .. ReconnectMax]
  /\ ws \in [Clients -> Sockets \cup {NoSocket}]
  /\ wait \in [Clients -> Seq(Chars)]
  /\ \A k \in Sockets :
       /\ sock[k].client \in Clients \cup {NoChar}
       /\ sock[k].end \in {"opening", "open", "closed"}
       /\ sock[k].pc \in {"none", "reading", "moving", "arriving", "entering",
                          "leaving", "gone"}
       /\ {sock[k].hooked, sock[k].cut, sock[k].shut, sock[k].inMap, sock[k].robbed}
            \subseteq BOOLEAN
       /\ {sock[k].char, sock[k].from} \subseteq Chars \cup {NoChar}
       /\ {sock[k].inq, sock[k].outq} \subseteq Seq(Chars)
  /\ sessions \in [Chars \cup {NoChar} -> Sockets \cup {NoSocket}]
  /\ room \in [Chars -> Sockets \cup {NoSocket}]
  /\ db \subseteq Chars
  /\ drops \in 0 .. MaxDrops

\* The socket, the two timers and _state always tell the same story, whichever of
\* a late HTTP answer, a button, a lost connection or the back-off comes when
\* (mmo-core.js:149-236); a reconnection that is due has a token to present.
Coherent ==
  \A c \in Clients :
    /\ state[c] = "connected" <=> ws[c] # NoSocket /\ sock[ws[c]].end = "open"
    /\ state[c] = "connecting" <=> ws[c] # NoSocket /\ sock[ws[c]].end = "opening"
    /\ state[c] = "reconnecting" <=> timer[c]
    /\ state[c] = "connected" <=> beat[c]
    /\ timer[c] => token[c]

\* A page never holds two sockets, of which one would go on receiving for a
\* session that was left (mmo-core.js:162, mmo-auth.js:1001).
OneSocket ==
  \A c \in Clients, k \in Sockets :
    sock[k].client = c /\ sock[k].end # "closed" => k = ws[c]

\* Nothing the server reads for a client is pending on the socket k.
Settled(k) ==
  /\ sock[k].pc = "reading" /\ sock[k].inq = <<>> /\ ~sock[k].shut /\ ~sock[k].cut

\* Whatever entries were left over from earlier attempts, the character that the
\* server plays for a client in the game is the one it entered with
\* (mmo-auth.js:1003-1008), and so is the one shown once map_init is read.
PlaysChosen ==
  \A c \in Clients :
    LET k == ws[c] IN
    /\ scene[c] = "map" /\ state[c] = "connected" /\ charID[c] \in db
    /\ Settled(k) /\ sock[k].char # NoChar
    => /\ sock[k].char = charID[c]
       /\ sock[k].outq = <<>> => self[c] = charID[c]

\* The registry finds a session under its own character only - or, while it
\* moves, under the one it comes from - and none whose goroutine has ended,
\* although CharID and the entry change in separate steps and the entry is moved
\* and removed by character (handlers_game.go:141, 158-159, handler.go:177).  And
\* whoever is open and has entered is found, unless the end or the move of another
\* session of his character has removed his entry.
RegistryHonest ==
  /\ \A ch \in Chars \cup {NoChar} :
       sessions[ch] # NoSocket =>
         LET s == sock[sessions[ch]] IN
         /\ s.pc \notin {"none", "gone"}
         /\ ch = IF s.pc = "moving" THEN s.from ELSE s.char
  /\ \A k \in Sockets :
       Settled(k) /\ sock[k].inMap => sessions[sock[k].char] = k \/ sock[k].robbed
=============================================================================
