------------------------------- MODULE Party -------------------------------
(***************************************************************************)
(* Parties: game/party/manager.go, api/ws/handlers_party.go and the party  *)
(* part of handleDisconnect on the server, client_plugin/mmo-party.js on   *)
(* every client.                                                           *)
(*                                                                         *)
(* An element of Sessions is one connection of one character. Members and  *)
(* indexes change under the manager's lock; a party is told by a goroutine *)
(* of its own, later. A disconnection leaves the party and withdraws the   *)
(* invitations in two steps.                                               *)
(***************************************************************************)
EXTENDS Integers, Sequences, FiniteSets

CONSTANTS
  Sessions,
  NoOne,
  MaxParties,     \* bound on the parties ever made
  MaxInvites,     \* bound on the invitations ever sent
  QueueMax        \* bound on the messages under way to a client

VARIABLES
  members,        \* Party.Members
  lastParty,      \* partyIDCounter
  byChar,         \* Manager.byChar: 0 is none
  invites,        \* Manager.invites: who invited, until answered
  invited,        \* how many invitations have been sent
  telling,        \* parties with a BroadcastUpdate goroutine
  leaving,        \* how far handleDisconnect is: "no", "left", "gone"
  toParty, fromParty,                 \* responses; messages to the clients
  inviteDialog,   \* _inviteDialog: whose invitation is on the screen
  partyPanel      \* the members shown; none when hidden

partyVars == <<members, lastParty, byChar, invites, invited, telling, leaving, toParty,
               fromParty, inviteDialog, partyPanel>>

manager == <<members, lastParty, byChar, invited, telling, leaving>>
client == <<inviteDialog, partyPanel>>

Pids == 1..MaxParties
NoAnswer == [from |-> NoOne, accept |-> FALSE]

Init ==
  /\ members = [p \in Pids |-> {}] /\ lastParty = 0
  /\ byChar = [s \in Sessions |-> 0]
  /\ invites = [s \in Sessions |-> NoOne] /\ invited = 0
  /\ telling = {}
  /\ leaving = [s \in Sessions |-> "no"]
  /\ toParty = [s \in Sessions |-> NoAnswer]
  /\ fromParty = [s \in Sessions |-> <<>>]
  /\ inviteDialog = [s \in Sessions |-> NoOne]
  /\ partyPanel = [s \in Sessions |-> {}]

Online(s) == leaving[s] = "no"
Free(s) == Len(fromParty[s]) < QueueMax

-----------------------------------------------------------------------------
(* The server. *)

\* InvitePlayer: the newest invitation replaces the one before; the target must be in
\* no party, the inviter may be.
InvitePlayer(a, b) ==
  /\ a # b /\ Online(a) /\ Online(b) /\ Free(b)
  /\ byChar[b] = 0
  /\ invited < MaxInvites /\ invited' = invited + 1
  /\ invites' = [invites EXCEPT ![b] = a]
  /\ fromParty' = [fromParty EXCEPT ![b] = Append(@, [t |-> "invite", from |-> a, of |-> {}])]
  /\ UNCHANGED <<members, lastParty, byChar, telling, leaving, toParty, client>>

\* AcceptInvite makes a party, always a new one: of the session the client names,
\* and in the index of the character that invited last.
AcceptInvite(s, inviter) ==
  /\ lastParty < MaxParties
  /\ lastParty' = lastParty + 1
  /\ members' = [members EXCEPT ![lastParty'] = {inviter, s}]
  /\ byChar' = [byChar EXCEPT ![invites[s]] = lastParty', ![s] = lastParty']
  /\ telling' = telling \cup {lastParty'}

\* HandleInviteResponse: an invitation of more than thirty seconds is no longer valid.
HandleInviteResponse(s) ==
  /\ Online(s) /\ toParty[s] # NoAnswer
  /\ toParty' = [toParty EXCEPT ![s] = NoAnswer]
  /\ invites' = [invites EXCEPT ![s] = NoOne]
  /\ LET m == toParty[s]
     IN \/ /\ m.accept /\ leaving[m.from] # "gone" /\ invites[s] # NoOne
           /\ AcceptInvite(s, m.from)
        \/ UNCHANGED <<members, lastParty, byChar, telling>>
  /\ UNCHANGED <<invited, leaving, fromParty, client>>

\* Mutant: the leaver stays in the index.
Leave_Indexed(s) ==
  LET p == byChar[s]
      rest == members[p] \ {s}
  IN IF p = 0 THEN UNCHANGED <<members, byChar, telling>>
     ELSE /\ UNCHANGED byChar
          /\ members' = [members EXCEPT ![p] = rest]
          /\ telling' = IF rest = {} THEN telling ELSE telling \cup {p}

\* LeaveParty: the party of the index; who stays is told.
Leave(s) ==
  LET p == byChar[s]
      rest == members[p] \ {s}
  IN IF p = 0 THEN UNCHANGED <<members, byChar, telling>>
     ELSE /\ byChar' = [byChar EXCEPT ![s] = 0]
          /\ members' = [members EXCEPT ![p] = rest]
          /\ telling' = IF rest = {} THEN telling ELSE telling \cup {p}

\* HandleLeave.
HandleLeave(s) ==
  /\ Online(s) /\ byChar[s] # 0
  /\ Leave(s)
  /\ UNCHANGED <<lastParty, invites, invited, leaving, toParty, fromParty, client>>

\* BroadcastUpdate: members read and told under one lock.
BroadcastUpdate(p) ==
  /\ p \in telling
  /\ \A s \in members[p] : Free(s)
  /\ telling' = telling \ {p}
  /\ fromParty' = [s \in Sessions |->
       IF s \in members[p] /\ Online(s)
       THEN Append(fromParty[s], [t |-> "update", from |-> NoOne, of |-> members[p]])
       ELSE fromParty[s]]
  /\ UNCHANGED <<members, lastParty, byChar, invites, invited, leaving, toParty, client>>

\* handleDisconnect, and _disconnected on the client.
Disconnect(s) ==
  /\ Online(s)
  /\ leaving' = [leaving EXCEPT ![s] = "left"]
  /\ Leave(s)
  /\ toParty' = [toParty EXCEPT ![s] = NoAnswer]
  /\ fromParty' = [fromParty EXCEPT ![s] = <<>>]
  /\ inviteDialog' = [inviteDialog EXCEPT ![s] = NoOne]
  /\ partyPanel' = [partyPanel EXCEPT ![s] = {}]
  /\ UNCHANGED <<lastParty, invites, invited>>

\* CleanupInvites: to the character and from it.
CleanupInvites(s) ==
  /\ leaving[s] = "left"
  /\ leaving' = [leaving EXCEPT ![s] = "gone"]
  /\ invites' = [x \in Sessions |-> IF x = s \/ invites[x] = s THEN NoOne ELSE invites[x]]
  /\ UNCHANGED <<members, lastParty, byChar, invited, telling, toParty, fromParty, client>>

-----------------------------------------------------------------------------
(* A client. *)

Told(s, t) ==
  /\ fromParty[s] # <<>> /\ Head(fromParty[s]).t = t
  /\ fromParty' = [fromParty EXCEPT ![s] = Tail(@)]
  /\ UNCHANGED <<manager, invites>>

\* party_invite_request: ignored while another is on the screen.
OnInviteRequest(s) ==
  /\ Told(s, "invite")
  /\ inviteDialog' = [inviteDialog EXCEPT ![s] = IF @ = NoOne THEN Head(fromParty[s]).from ELSE @]
  /\ UNCHANGED <<toParty, partyPanel>>

\* respond: accepted, declined or, after thirty seconds, declined.
Respond(s) ==
  /\ inviteDialog[s] # NoOne /\ toParty[s] = NoAnswer
  /\ inviteDialog' = [inviteDialog EXCEPT ![s] = NoOne]
  /\ \E yes \in BOOLEAN :
       toParty' = [toParty EXCEPT ![s] = [from |-> inviteDialog[s], accept |-> yes]]
  /\ UNCHANGED <<manager, invites, fromParty, partyPanel>>

\* party_update: an empty party hides the panel.
OnPartyUpdate(s) ==
  /\ Told(s, "update")
  /\ partyPanel' = [partyPanel EXCEPT ![s] = Head(fromParty[s]).of]
  /\ UNCHANGED <<toParty, inviteDialog>>

\* A change of scene: a new panel, hidden, and a dialog that nobody answers.
ChangeScene(s) ==
  /\ inviteDialog[s] # NoOne \/ partyPanel[s] # {}
  /\ inviteDialog' = [inviteDialog EXCEPT ![s] = NoOne]
  /\ partyPanel' = [partyPanel EXCEPT ![s] = {}]
  /\ UNCHANGED <<manager, invites, toParty, fromParty>>

-----------------------------------------------------------------------------

Next ==
  \/ \E a, b \in Sessions : InvitePlayer(a, b)
  \/ \E p \in Pids : BroadcastUpdate(p)
  \/ \E s \in Sessions :
       \/ HandleInviteResponse(s) \/ HandleLeave(s) \/ Disconnect(s)
       \/ CleanupInvites(s) \/ OnInviteRequest(s) \/ Respond(s) \/ OnPartyUpdate(s)
       \/ ChangeScene(s)

Spec == Init /\ [][Next]_partyVars

-----------------------------------------------------------------------------
(* Properties. *)

TypeOK ==
  /\ members \in [Pids -> SUBSET Sessions]
  /\ \A p \in Pids : p > lastParty => members[p] = {} /\ p \notin telling
  /\ byChar \in [Sessions -> 0..lastParty]
  /\ invites \in [Sessions -> Sessions \cup {NoOne}]
  /\ \A s \in Sessions : leaving[s] = "gone" => invites[s] = NoOne
  /\ \A s \in Sessions : ~Online(s) => fromParty[s] = <<>> /\ partyPanel[s] = {}

\* The index never names a party that has been deleted: whoever asks GetParty for the
\* party of a character is not given nil.
IndexValid == \A s \in Sessions : byChar[s] # 0 => members[byChar[s]] # {}

PartiesOf(s) == {p \in Pids : s \in members[p]}

\* With nothing left to tell it, a panel that is shown names the members of the party of
\* its session, whatever was accepted, left and broadcast before, in whatever order (a
\* session that is in two parties is shown the one told last).
PanelHonest ==
  \A s \in Sessions :
    telling = {} /\ fromParty[s] = <<>> /\ partyPanel[s] # {} /\ PartiesOf(s) = {byChar[s]} =>
      partyPanel[s] = members[byChar[s]]

\* A character is a member of one party at most, the one of the index
\* (game/party/manager.go:128: byChar, charID to partyID).
OneParty == \A s \in Sessions : PartiesOf(s) \subseteq {byChar[s]}

\* A disconnected session stays in no party (api/ws/handler.go:161: leave party and
\* remove pending invites).
NoGhosts == \A s \in Sessions : leaving[s] = "gone" => PartiesOf(s) = {} /\ byChar[s] = 0
=============================================================================
