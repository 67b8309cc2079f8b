-------------------------------- MODULE Chat --------------------------------
(***************************************************************************)
(* Chat: game/chat/handler.go, and client_plugin/mmo-chat.js on two or     *)
(* more clients. A message is its channel, its sender, its number among    *)
(* the sender's, and what brings it to the players: the sender's own       *)
(* handler, or, for a "!text" to the whole map, the room he is in when it  *)
(* is handled. The cooldown of global messages is left out.                *)
(***************************************************************************)
EXTENDS Integers, Sequences, FiniteSets

CONSTANTS
  Clients,
  Rooms,          \* the rooms they are in, now one, now another
  Directly,       \* no room: the handler sends the message itself
  MaxMessages,    \* MAX_MESSAGES, the length of a channel's history
  MaxSent,        \* bound on the messages of all clients
  QueueMax        \* bound on the messages under way

VARIABLES
  sent,           \* how many messages a client has sent
  toChat, fromChat,
  broadcastQ,     \* of each room, what its goroutine has not sent yet
  chatHistory, chatChannel, chatUnread

chatVars == <<sent, toChat, fromChat, broadcastQ, chatHistory, chatChannel, chatUnread>>
window == <<chatHistory, chatChannel, chatUnread>>

\* CHANNELS; nobody is sent a message of the others.
Channels == {"world", "party", "private"}

Init ==
  /\ sent = [c \in Clients |-> 0]
  /\ toChat = [c \in Clients |-> <<>>] /\ fromChat = [c \in Clients |-> <<>>]
  /\ broadcastQ = [r \in Rooms |-> <<>>]
  /\ chatHistory = [c \in Clients |-> [ch \in Channels |-> <<>>]]
  /\ chatChannel = [c \in Clients |-> "world"]
  /\ chatUnread = [c \in Clients |-> [ch \in Channels |-> 0]]

-----------------------------------------------------------------------------
(* The server. *)

\* handleWorldChat: those near or everybody, always the sender, or nobody where he has no
\* room; handlePartyChat: the party, or the sender alone, whoever walks and regroups
\* meanwhile. Another channel is an error, which the client logs.
Audience(c, ch) ==
  CASE ch = "world" -> {d \in SUBSET Clients : c \in d} \union {{}}
    [] ch = "party" -> {d \in SUBSET Clients : c \in d}
    [] OTHER -> {{}}

\* SendRaw to each of them.
SendTo(to, m) ==
  /\ \A d \in to : Len(fromChat[d]) < QueueMax
  /\ fromChat' = [d \in Clients |-> IF d \in to THEN Append(fromChat[d], m) ELSE fromChat[d]]

\* sendMapWide leaves the message to the room's goroutine, if there is a room and its
\* queue is not full; every other is sent here and now.
HandleSend(c) ==
  LET m == Head(toChat[c]) IN
  /\ toChat[c] # <<>> /\ toChat' = [toChat EXCEPT ![c] = Tail(@)]
  /\ IF m.by = Directly
     THEN (\E to \in Audience(c, m.ch) : SendTo(to, m)) /\ UNCHANGED broadcastQ
     ELSE /\ \/ Len(broadcastQ[m.by]) < QueueMax
              /\ broadcastQ' = [broadcastQ EXCEPT ![m.by] = Append(@, m)]
           \/ UNCHANGED broadcastQ
          /\ UNCHANGED fromChat
  /\ UNCHANGED <<sent, window>>

\* MapRoom.Run, broadcastRaw: to whoever is in the room by then.
Run(r) ==
  /\ broadcastQ[r] # <<>> /\ broadcastQ' = [broadcastQ EXCEPT ![r] = Tail(@)]
  /\ \E to \in SUBSET Clients : SendTo(to, Head(broadcastQ[r]))
  /\ UNCHANGED <<sent, toChat, window>>

-----------------------------------------------------------------------------
(* A client. *)

\* Every message sent so far, by its sender and number.
Sent == UNION {{c} \X (1..sent[c]) : c \in Clients}

\* sendMessage: to the channel that is shown, or the one a slash command names; to the
\* world also with an exclamation mark.
SendMessage(c, ch, by) ==
  /\ Cardinality(Sent) < MaxSent /\ Len(toChat[c]) < QueueMax
  /\ by = Directly \/ ch = "world"
  /\ sent' = [sent EXCEPT ![c] = @ + 1]
  /\ toChat' = [toChat EXCEPT ![c] = Append(@, [ch |-> ch, from |-> c, n |-> sent'[c], by |-> by])]
  /\ UNCHANGED <<fromChat, broadcastQ, window>>

\* Mutant: in a full history the new message takes the place of the oldest.
Kept_Oldest(log, m) == IF Len(log) < MaxMessages THEN Append(log, m) ELSE <<m>> \o Tail(log)

\* A full history drops its oldest message.
Kept(log, m) == LET all == Append(log, m) IN IF Len(all) > MaxMessages THEN Tail(all) ELSE all

\* chat_recv, addMessage.
OnChatRecv(c) ==
  /\ fromChat[c] # <<>> /\ fromChat' = [fromChat EXCEPT ![c] = Tail(@)]
  /\ LET m == Head(fromChat[c])
     IN /\ chatHistory' = [chatHistory EXCEPT ![c][m.ch] = Kept(@, m)]
        /\ chatUnread' = IF m.ch = chatChannel[c] THEN chatUnread
                         ELSE [chatUnread EXCEPT ![c][m.ch] = @ + 1]
  /\ UNCHANGED <<sent, toChat, broadcastQ, chatChannel>>

\* The log that is drawn.
LogShown(c) == chatHistory[c][chatChannel[c]]

\* switchChannel, by a click on its tab.
SwitchChannel(c, ch) ==
  /\ ch # chatChannel[c]
  /\ chatChannel' = [chatChannel EXCEPT ![c] = ch]
  /\ chatUnread' = [chatUnread EXCEPT ![c][ch] = 0]
  /\ UNCHANGED <<sent, toChat, fromChat, broadcastQ, chatHistory>>

Next ==
  \/ \E c \in Clients :
       \/ HandleSend(c) \/ OnChatRecv(c)
       \/ \E ch \in Channels :
            SwitchChannel(c, ch) \/ \E by \in Rooms \union {Directly} : SendMessage(c, ch, by)
  \/ \E r \in Rooms : Run(r)

Spec == Init /\ [][Next]_chatVars

-----------------------------------------------------------------------------
(* Properties. *)

TypeOK ==
  /\ \A c \in Clients :
       /\ sent[c] \in 0..MaxSent /\ chatChannel[c] \in Channels
       /\ \A ch \in Channels : Len(chatHistory[c][ch]) <= MaxMessages

\* Of one sender, a message may stand above another in a log: it was sent before, or the
\* other was kept by a room whose queue this one did not go through.
MayPrecede(m, k) == m.from = k.from => m.n < k.n \/ (k.by # Directly /\ m.by # k.by)

\* However players walk, regroup and switch channels, the log on the screen has the
\* messages of one sender in the order they were sent, and none of them is unread. Only a
\* "!text" that waits for its room's goroutine can be overtaken, by what does not wait for
\* the same one: never by another "!text" to that room.
SenderOrder ==
  \A c \in Clients :
    /\ LET log == LogShown(c)
       IN \A i, j \in 1..Len(log) : i < j => MayPrecede(log[i], log[j])
    /\ chatUnread[c][chatChannel[c]] = 0

\* A private message reaches somebody's private channel (client_plugin/mmo-chat.js:16).
NoPrivateLost ==
  \A c \in Clients :
    toChat[c] # <<>> /\ Head(toChat[c]).ch = "private" => Audience(c, "private") # {{}}
=============================================================================
