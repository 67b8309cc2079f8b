------------------------------ MODULE KeptProofs ------------------------------
(***************************************************************************)
(* What the server keeps for its players between their requests, one part  *)
(* beside the other.                                                       *)
(*                                                                         *)
(* Party: the index of a player is never that of a deleted party, and a    *)
(* panel that is shown names the members of the player's party, for any    *)
(* sessions and any number of parties and invitations.                     *)
(*                                                                         *)
(* GameState implements StateRegister, for any keys, any goroutines that   *)
(* set them and any number of sets: the batches of the flusher, writes     *)
(* that fail, a player who comes back, a stop and a crash never bring back *)
(* an older value than the database has had - except of two sets that      *)
(* overlapped, and on the way down.                                        *)
(***************************************************************************)
EXTENDS Party, TLAPS

CONSTANTS Keys, Global, Goroutines, MayFail, MaxSets
VARIABLES value, last, setting, outlived, pending, batch, stopping, saved, overlaps

State == INSTANCE GameState

-----------------------------------------------------------------------------
(* What a party keeps: the inductive invariant *)

Message ==
  [t : {"invite"}, from : Sessions, of : {{}}]
    \union [t : {"update"}, from : {NoOne}, of : SUBSET Sessions]

\* A party with a number that was not given yet has no member and nothing to tell.
Parties ==
  /\ lastParty \in 0..MaxParties
  /\ members \in [Pids -> SUBSET Sessions] /\ telling \subseteq 1..lastParty
  /\ byChar \in [Sessions -> 0..lastParty]
  /\ \A p \in Pids : p > lastParty => members[p] = {}

\* Nobody is invited by himself; nothing is shown to who has disconnected.
Invitations ==
  /\ invites \in [Sessions -> Sessions \union {NoOne}]
  /\ leaving \in [Sessions -> {"no", "left", "gone"}]
  /\ toParty \in [Sessions -> [from : Sessions \union {NoOne}, accept : BOOLEAN]]
  /\ fromParty \in [Sessions -> Seq(Message)]
  /\ inviteDialog \in [Sessions -> Sessions \union {NoOne}]
  /\ partyPanel \in [Sessions -> SUBSET Sessions]
  /\ \A s \in Sessions :
       /\ inviteDialog[s] # NoOne => inviteDialog[s] # s
       /\ toParty[s].accept => toParty[s].from \in Sessions /\ toParty[s].from # s
       /\ \A i \in 1..Len(fromParty[s]) :
            fromParty[s][i].t = "invite" => fromParty[s][i].from # s
       /\ leaving[s] # "no" => fromParty[s] = <<>> /\ partyPanel[s] = {}

\* Either all that the index sends to a party are its members, or a member is not
\* indexed there: it cannot leave, and the party is not deleted any more.
Kept(p) ==
  \/ \E u \in members[p] : byChar[u] # p
  \/ \A u \in Sessions : byChar[u] = p => u \in members[p]

\* The newest party_update under way, or the panel when there is none, is one of E.
NewestIn(msgs, panel, E) ==
  /\ \A i \in 1..Len(msgs) :
       msgs[i].t = "update" /\ (\A j \in 1..Len(msgs) : i < j => msgs[j].t # "update")
         => msgs[i].of \in E
  /\ (\A i \in 1..Len(msgs) : msgs[i].t # "update") => panel \in E

\* Whose only party is that of the index is going to be told, or was told last of its
\* members as they are; the panel is empty in a new scene.
Shown(s) ==
  Online(s) /\ PartiesOf(s) = {byChar[s]} =>
    \/ byChar[s] \in telling
    \/ NewestIn(fromParty[s], partyPanel[s], {members[byChar[s]], {}})

PartyInv ==
  /\ Parties /\ Invitations
  /\ \A p \in Pids : p <= lastParty => Kept(p)
  /\ \A s \in Sessions : Shown(s)

-----------------------------------------------------------------------------
(* What a client is told last *)

LEMMA NewestAppendUpdate ==
  ASSUME NEW M, NEW msgs \in Seq(M), NEW m \in M, NEW panel, NEW E, m.t = "update", m.of \in E
  PROVE  NewestIn(Append(msgs, m), panel, E)
<1>1. /\ Len(Append(msgs, m)) = Len(msgs) + 1 /\ Append(msgs, m)[Len(msgs) + 1] = m
      /\ Len(msgs) \in Nat
  OBVIOUS
<1> QED BY <1>1 DEF NewestIn

LEMMA NewestAppendOther ==
  ASSUME NEW M, NEW msgs \in Seq(M), NEW m \in M, NEW panel, NEW E, m.t # "update",
         NewestIn(msgs, panel, E)
  PROVE  NewestIn(Append(msgs, m), panel, E)
<1>1. /\ Len(Append(msgs, m)) = Len(msgs) + 1 /\ Append(msgs, m)[Len(msgs) + 1] = m
      /\ Len(msgs) \in Nat
      /\ \A i \in 1..Len(msgs) : Append(msgs, m)[i] = msgs[i]
  OBVIOUS
<1> QED BY <1>1 DEF NewestIn

LEMMA NewestTail ==
  ASSUME NEW M, NEW msgs \in Seq(M), msgs # <<>>, NEW panel, NEW shown, NEW E,
         NewestIn(msgs, panel, E),
         shown = IF Head(msgs).t = "update" THEN Head(msgs).of ELSE panel
  PROVE  NewestIn(Tail(msgs), shown, E)
<1>1. /\ Len(msgs) \in Nat /\ Len(msgs) >= 1 /\ Head(msgs) = msgs[1]
      /\ Len(Tail(msgs)) = Len(msgs) - 1
      /\ \A i \in 1..Len(Tail(msgs)) : Tail(msgs)[i] = msgs[i + 1]
  OBVIOUS
<1>2. \A i \in 1..Len(Tail(msgs)) :
        Tail(msgs)[i].t = "update"
          /\ (\A j \in 1..Len(Tail(msgs)) : i < j => Tail(msgs)[j].t # "update")
          => Tail(msgs)[i].of \in E
  <2> SUFFICES ASSUME NEW i \in 1..Len(Tail(msgs)), Tail(msgs)[i].t = "update",
                      \A j \in 1..Len(Tail(msgs)) : i < j => Tail(msgs)[j].t # "update"
               PROVE  Tail(msgs)[i].of \in E
    OBVIOUS
  <2>1. i + 1 \in 1..Len(msgs) /\ msgs[i + 1] = Tail(msgs)[i]
    BY <1>1
  <2>2. ASSUME NEW j \in 1..Len(msgs), i + 1 < j PROVE msgs[j].t # "update"
    <3>1. j - 1 \in 1..Len(Tail(msgs)) /\ i < j - 1 /\ (j - 1) + 1 = j
      BY <1>1, <2>2
    <3> QED BY <1>1, <3>1
  <2> QED BY <2>1, <2>2 DEF NewestIn
<1>3. ASSUME \A i \in 1..Len(Tail(msgs)) : Tail(msgs)[i].t # "update" PROVE shown \in E
  <2>1. ASSUME NEW j \in 1..Len(msgs), 1 < j PROVE msgs[j].t # "update"
    <3>1. j - 1 \in 1..Len(Tail(msgs)) /\ (j - 1) + 1 = j
      BY <1>1, <2>1
    <3> QED BY <1>1, <1>3, <3>1
  <2>2. CASE msgs[1].t = "update"
    BY <1>1, <2>1, <2>2 DEF NewestIn
  <2>3. CASE msgs[1].t # "update"
    <3>1. \A j \in 1..Len(msgs) : msgs[j].t # "update"
      BY <1>1, <2>1, <2>3
    <3> QED BY <1>1, <2>3, <3>1 DEF NewestIn
  <2> QED BY <2>2, <2>3
<1> QED BY <1>2, <1>3 DEF NewestIn

-----------------------------------------------------------------------------
(* The initial state *)

LEMMA PartyInit == ASSUME MaxParties \in Nat, Init PROVE PartyInv
<1>1. Parties
  BY DEF Init, Parties, Pids
<1>2. Invitations
  <2>1. <<>> \in Seq(Message)
    OBVIOUS
  <2> QED BY <2>1 DEF Init, Invitations, NoAnswer
<1>3. \A p \in Pids : p <= lastParty => Kept(p)
  BY DEF Init, Pids
<1>4. \A s \in Sessions : Shown(s)
  BY DEF Init, Shown, PartiesOf, Pids
<1> QED BY <1>1, <1>2, <1>3, <1>4 DEF PartyInv

-----------------------------------------------------------------------------
(* Its steps *)

\* What is told or shown to one client, while the parties stay as they are.
LEMMA OneClient ==
  ASSUME PartyInv, NEW s \in Sessions, UNCHANGED <<members, lastParty, byChar, telling, leaving>>,
         \A u \in Sessions \ {s} :
           fromParty'[u] = fromParty[u] /\ partyPanel'[u] = partyPanel[u],
         \A E \in SUBSET SUBSET Sessions :
           {} \in E /\ NewestIn(fromParty[s], partyPanel[s], E)
             => NewestIn(fromParty'[s], partyPanel'[s], E)
  PROVE  /\ Parties'
         /\ \A p \in Pids : p <= lastParty' => Kept(p)'
         /\ \A u \in Sessions : Shown(u)'
<1>1. Parties'
  BY DEF PartyInv, Parties
<1>2. \A p \in Pids : p <= lastParty' => Kept(p)'
  BY DEF PartyInv, Kept
<1>3. ASSUME NEW u \in Sessions, Online(u)', PartiesOf(u)' = {byChar[u]}, byChar[u] \notin telling
      PROVE  NewestIn(fromParty'[u], partyPanel'[u], {members[byChar[u]], {}})
  <2>1. Online(u) /\ PartiesOf(u) = {byChar[u]} /\ byChar[u] \in Pids
    BY <1>3 DEF Online, PartiesOf
  <2>2. NewestIn(fromParty[u], partyPanel[u], {members[byChar[u]], {}})
    BY <1>3, <2>1 DEF PartyInv, Shown
  <2>3. {members[byChar[u]], {}} \in SUBSET SUBSET Sessions
    BY <2>1 DEF PartyInv, Parties
  <2> QED BY <2>2, <2>3
<1>4. \A u \in Sessions : Shown(u)'
  BY <1>3 DEF Shown
<1> QED BY <1>1, <1>2, <1>4

LEMMA InviteStep ==
  ASSUME PartyInv, NEW a \in Sessions, NEW b \in Sessions, InvitePlayer(a, b)
  PROVE  PartyInv'
<1> DEFINE m == [t |-> "invite", from |-> a, of |-> {}]
<1>1. /\ a # b /\ leaving[b] = "no" /\ invites' = [invites EXCEPT ![b] = a]
      /\ fromParty' = [fromParty EXCEPT ![b] = Append(fromParty[b], m)]
      /\ UNCHANGED <<members, lastParty, byChar, telling, leaving, toParty, inviteDialog, partyPanel>>
  BY DEF InvitePlayer, client, Online
<1>2. m \in Message /\ m.t = "invite" /\ m.from = a
  BY DEF Message
<1> HIDE DEF m
<1>3. Invitations
  BY DEF PartyInv
<1>4. /\ fromParty[b] \in Seq(Message) /\ Len(fromParty[b]) \in Nat
      /\ Append(fromParty[b], m) \in Seq(Message)
      /\ Len(Append(fromParty[b], m)) = Len(fromParty[b]) + 1
      /\ Append(fromParty[b], m)[Len(fromParty[b]) + 1] = m
      /\ \A i \in 1..Len(fromParty[b]) : Append(fromParty[b], m)[i] = fromParty[b][i]
  BY <1>2, <1>3 DEF Invitations
<1>5. Invitations'
  <2>1. \A i \in 1..Len(fromParty'[b]) :
          fromParty'[b][i].t = "invite" => fromParty'[b][i].from # b
    BY <1>1, <1>2, <1>3, <1>4 DEF Invitations
  <2> QED BY <1>1, <1>3, <1>4, <2>1 DEF Invitations
<1>6. \A E \in SUBSET SUBSET Sessions :
        NewestIn(fromParty[b], partyPanel[b], E) => NewestIn(fromParty'[b], partyPanel'[b], E)
  BY <1>1, <1>2, <1>3, <1>4, NewestAppendOther DEF Invitations
<1>7. /\ Parties' /\ \A p \in Pids : p <= lastParty' => Kept(p)'
      /\ \A s \in Sessions : Shown(s)'
  BY <1>1, <1>3, <1>6, OneClient DEF Invitations
<1> QED BY <1>5, <1>7 DEF PartyInv

\* The message at the head is taken: its contents are of the type.
LEMMA ToldStep ==
  ASSUME PartyInv, NEW s \in Sessions, OnInviteRequest(s) \/ OnPartyUpdate(s)
  PROVE  PartyInv'
<1> DEFINE m == Head(fromParty[s])
<1>1. /\ fromParty[s] # <<>> /\ m.t \in {"invite", "update"}
      /\ fromParty' = [fromParty EXCEPT ![s] = Tail(fromParty[s])]
      /\ UNCHANGED <<members, lastParty, byChar, invited, telling, leaving, invites, toParty>>
      /\ \/ /\ m.t = "invite" /\ partyPanel' = partyPanel
            /\ inviteDialog' = [inviteDialog EXCEPT ![s] =
                                  IF inviteDialog[s] = NoOne THEN m.from ELSE inviteDialog[s]]
         \/ /\ m.t = "update" /\ inviteDialog' = inviteDialog
            /\ partyPanel' = [partyPanel EXCEPT ![s] = m.of]
  BY DEF OnInviteRequest, OnPartyUpdate, Told, manager
<1>2. Invitations
  BY DEF PartyInv
<1>3. /\ fromParty[s] \in Seq(Message) /\ Len(fromParty[s]) \in Nat /\ Len(fromParty[s]) >= 1
      /\ m = fromParty[s][1] /\ m \in Message /\ Tail(fromParty[s]) \in Seq(Message)
      /\ Len(Tail(fromParty[s])) = Len(fromParty[s]) - 1
      /\ \A i \in 1..Len(Tail(fromParty[s])) : Tail(fromParty[s])[i] = fromParty[s][i + 1]
  BY <1>1, <1>2 DEF Invitations
<1>4. m.of \in SUBSET Sessions /\ (m.t = "invite" => m.from \in Sessions /\ m.from # s)
  <2>1. m.t = "invite" => m.from # s
    <3>1. 1 \in 1..Len(fromParty[s])
      BY <1>3
    <3>2. fromParty[s][1].t = "invite" => fromParty[s][1].from # s
      BY <1>2, <3>1 DEF Invitations
    <3> QED BY <1>3, <3>2
  <2> QED BY <1>3, <2>1 DEF Message
<1>5. leaving[s] = "no"
  BY <1>1, <1>2 DEF Invitations
<1> HIDE DEF m
<1>6. Invitations'
  <2>1. \A i \in 1..Len(fromParty'[s]) :
          fromParty'[s][i].t = "invite" => fromParty'[s][i].from # s
    <3>1. fromParty'[s] = Tail(fromParty[s])
      BY <1>1, <1>2 DEF Invitations
    <3>2. \A i \in 1..Len(Tail(fromParty[s])) : i + 1 \in 1..Len(fromParty[s])
      BY <1>3
    <3>3. \A i \in 1..Len(fromParty[s]) :
            fromParty[s][i].t = "invite" => fromParty[s][i].from # s
      BY <1>2 DEF Invitations
    <3> QED BY <1>3, <3>1, <3>2, <3>3
  <2>2. /\ fromParty' \in [Sessions -> Seq(Message)]
        /\ inviteDialog' \in [Sessions -> Sessions \union {NoOne}]
        /\ partyPanel' \in [Sessions -> SUBSET Sessions]
    <3>1. /\ fromParty \in [Sessions -> Seq(Message)]
          /\ inviteDialog \in [Sessions -> Sessions \union {NoOne}]
          /\ partyPanel \in [Sessions -> SUBSET Sessions]
      BY <1>2 DEF Invitations
    <3>2. fromParty' \in [Sessions -> Seq(Message)]
      BY <1>1, <1>3, <3>1
    <3> QED BY <1>1, <1>4, <3>1, <3>2
  <2>3. \A u \in Sessions : inviteDialog'[u] # NoOne => inviteDialog'[u] # u
    BY <1>1, <1>2, <1>4 DEF Invitations
  <2>4. \A u \in Sessions \ {s} : /\ fromParty'[u] = fromParty[u]
                                   /\ partyPanel'[u] = partyPanel[u]
    BY <1>1, <1>2 DEF Invitations
  <2> QED BY <1>1, <1>2, <1>5, <2>1, <2>2, <2>3, <2>4 DEF Invitations
<1>7. \A E \in SUBSET SUBSET Sessions :
        NewestIn(fromParty[s], partyPanel[s], E) => NewestIn(fromParty'[s], partyPanel'[s], E)
  <2>1. fromParty'[s] = Tail(fromParty[s])
    BY <1>1, <1>2 DEF Invitations
  <2>2. partyPanel'[s] = IF m.t = "update" THEN m.of ELSE partyPanel[s]
    BY <1>1, <1>2 DEF Invitations
  <2> QED BY <1>1, <1>3, <2>1, <2>2, NewestTail DEF m
<1>8. \A u \in Sessions \ {s} : fromParty'[u] = fromParty[u] /\ partyPanel'[u] = partyPanel[u]
  BY <1>1, <1>2 DEF Invitations
<1>9. /\ Parties' /\ \A p \in Pids : p <= lastParty' => Kept(p)'
      /\ \A u \in Sessions : Shown(u)'
  BY <1>1, <1>7, <1>8, OneClient
<1> QED BY <1>6, <1>9 DEF PartyInv

LEMMA ClientStep ==
  ASSUME PartyInv, NEW s \in Sessions, Respond(s) \/ ChangeScene(s)
  PROVE  PartyInv'
<1>1. /\ UNCHANGED <<members, lastParty, byChar, invited, telling, leaving, invites, fromParty>>
      /\ inviteDialog' = [inviteDialog EXCEPT ![s] = NoOne]
      /\ \/ /\ partyPanel' = partyPanel /\ inviteDialog[s] # NoOne
            /\ \E yes \in BOOLEAN :
                 toParty' = [toParty EXCEPT ![s] = [from |-> inviteDialog[s], accept |-> yes]]
         \/ partyPanel' = [partyPanel EXCEPT ![s] = {}] /\ toParty' = toParty
  BY DEF Respond, ChangeScene, manager
<1>2. Invitations
  BY DEF PartyInv
<1>3. Invitations'
  <2>1. /\ inviteDialog' \in [Sessions -> Sessions \union {NoOne}]
        /\ \A u \in Sessions : inviteDialog'[u] # NoOne => inviteDialog'[u] # u
    BY <1>1, <1>2 DEF Invitations
  <2>2. CASE partyPanel' = [partyPanel EXCEPT ![s] = {}] /\ toParty' = toParty
    <3>1. /\ partyPanel' \in [Sessions -> SUBSET Sessions]
          /\ \A u \in Sessions : partyPanel[u] = {} => partyPanel'[u] = {}
      BY <1>2, <2>2 DEF Invitations
    <3> QED BY <1>1, <1>2, <2>1, <2>2, <3>1 DEF Invitations
  <2>3. ASSUME partyPanel' = partyPanel, inviteDialog[s] # NoOne, NEW yes \in BOOLEAN,
               toParty' = [toParty EXCEPT ![s] = [from |-> inviteDialog[s], accept |-> yes]]
        PROVE  Invitations'
    <3>1. inviteDialog[s] \in Sessions /\ inviteDialog[s] # s
      BY <1>2, <2>3 DEF Invitations
    <3>2. /\ toParty' \in [Sessions -> [from : Sessions \union {NoOne}, accept : BOOLEAN]]
          /\ \A u \in Sessions \ {s} : toParty'[u] = toParty[u]
          /\ toParty'[s].from = inviteDialog[s]
      BY <1>2, <2>3, <3>1 DEF Invitations
    <3>3. \A u \in Sessions : toParty'[u].accept => toParty'[u].from \in Sessions /\ toParty'[u].from # u
      BY <1>2, <3>1, <3>2 DEF Invitations
    <3> QED BY <1>1, <1>2, <2>1, <2>3, <3>2, <3>3 DEF Invitations
  <2> QED BY <1>1, <2>2, <2>3
<1>4. /\ fromParty'[s] = fromParty[s] /\ partyPanel'[s] \in {partyPanel[s], {}}
      /\ \A u \in Sessions \ {s} : fromParty'[u] = fromParty[u] /\ partyPanel'[u] = partyPanel[u]
  BY <1>1, <1>2 DEF Invitations
<1>6. \A E \in SUBSET SUBSET Sessions :
        {} \in E /\ NewestIn(fromParty[s], partyPanel[s], E)
          => NewestIn(fromParty'[s], partyPanel'[s], E)
  BY <1>4 DEF NewestIn
<1>5. /\ Parties' /\ \A p \in Pids : p <= lastParty' => Kept(p)'
      /\ \A u \in Sessions : Shown(u)'
  BY <1>1, <1>4, <1>6, OneClient
<1> QED BY <1>3, <1>5 DEF PartyInv

LEMMA CleanupStep ==
  ASSUME PartyInv, NEW s \in Sessions, CleanupInvites(s)
  PROVE  PartyInv'
<1>1. /\ leaving[s] = "left" /\ leaving' = [leaving EXCEPT ![s] = "gone"]
      /\ invites' = [x \in Sessions |-> IF x = s \/ invites[x] = s THEN NoOne ELSE invites[x]]
      /\ UNCHANGED <<members, lastParty, byChar, telling, toParty, fromParty, inviteDialog, partyPanel>>
  BY DEF CleanupInvites, client
<1>2. Parties' /\ Invitations'
  BY <1>1 DEF PartyInv, Parties, Invitations
<1>3. \A p \in Pids : p <= lastParty' => Kept(p)'
  BY <1>1 DEF PartyInv, Kept
<1>4. \A u \in Sessions : Online(u)' => Online(u)
  BY <1>1 DEF PartyInv, Invitations, Online
<1>5. ASSUME NEW u \in Sessions PROVE Shown(u)'
  BY <1>1, <1>4 DEF PartyInv, Shown, PartiesOf
<1> QED BY <1>2, <1>3, <1>5 DEF PartyInv

LEMMA AcceptStep ==
  ASSUME MaxParties \in Nat, PartyInv, NEW s \in Sessions, HandleInviteResponse(s)
  PROVE  PartyInv'
<1>1. /\ toParty' = [toParty EXCEPT ![s] = NoAnswer] /\ invites' = [invites EXCEPT ![s] = NoOne]
      /\ UNCHANGED <<leaving, fromParty, inviteDialog, partyPanel>>
  BY DEF HandleInviteResponse, client
<1>2. Parties /\ Invitations /\ (\A p \in Pids : p <= lastParty => Kept(p))
      /\ \A u \in Sessions : Shown(u)
  BY DEF PartyInv
<1>3. Invitations'
  BY <1>1, <1>2 DEF Invitations, NoAnswer
<1>4. CASE UNCHANGED <<members, lastParty, byChar, telling>>
  <2>1. Parties' /\ \A p \in Pids : p <= lastParty' => Kept(p)'
    BY <1>2, <1>4 DEF Parties, Kept
  <2>2. \A u \in Sessions : Shown(u)'
    BY <1>1, <1>2, <1>4 DEF Shown, PartiesOf, Online
  <2> QED BY <1>3, <2>1, <2>2 DEF PartyInv
<1>5. ASSUME toParty[s].accept, invites[s] # NoOne, AcceptInvite(s, toParty[s].from)
      PROVE  PartyInv'
  <2> DEFINE n == lastParty + 1
             a == invites[s]
             b == toParty[s].from
  <2>1. /\ a \in Sessions /\ b \in Sessions /\ b # s
        /\ lastParty \in Nat /\ n = lastParty + 1 /\ n \in Pids /\ n # 0 /\ n > lastParty
    BY <1>2, <1>5 DEF Parties, Invitations, AcceptInvite, Pids
  <2>2. /\ lastParty' = n /\ members' = [members EXCEPT ![n] = {b, s}]
        /\ byChar' = [byChar EXCEPT ![a] = n, ![s] = n] /\ telling' = telling \union {n}
    BY <1>5 DEF AcceptInvite
  <2> HIDE DEF n, a, b
  <2>3. /\ byChar'[s] = n /\ byChar'[a] = n
        /\ \A u \in Sessions \ {a, s} : byChar'[u] = byChar[u]
        /\ \A u \in Sessions : byChar[u] \in 0..lastParty
        /\ members'[n] = {b, s} /\ \A p \in Pids \ {n} : members'[p] = members[p]
    BY <1>2, <2>1, <2>2 DEF Parties
  <2>4. Parties'
    <3>1. members' \in [Pids -> SUBSET Sessions]
      BY <1>2, <2>1, <2>2 DEF Parties
    <3>4. byChar' \in [Sessions -> 0..lastParty']
      <4>1. byChar \in [Sessions -> 0..n] /\ n \in 0..n
        BY <1>2, <2>1 DEF Parties
      <4> QED BY <2>2, <4>1
    <3>2. telling' \subseteq 1..lastParty' /\ lastParty' \in 0..MaxParties
      BY <1>2, <2>1, <2>2 DEF Parties, Pids
    <3>3. \A p \in Pids : p > lastParty' => members'[p] = {}
      BY <1>2, <2>1, <2>2, <2>3 DEF Parties, Pids
    <3> QED BY <3>1, <3>2, <3>3, <3>4 DEF Parties
  <2>5. ASSUME NEW p \in Pids, p <= lastParty' PROVE Kept(p)'
    <3>1. CASE p = n
      \* The session that the client names may not be the one of the index.
      <4>1. CASE b = a
        BY <2>1, <2>3, <3>1, <4>1 DEF Kept
      <4>2. CASE b # a
        <5>1. byChar'[b] # n
          BY <2>1, <2>3, <4>2
        <5> QED BY <2>3, <3>1, <5>1 DEF Kept
      <4> QED BY <4>1, <4>2
    <3>2. CASE p # n
      <4>1. p <= lastParty /\ members'[p] = members[p] /\ p \in Int
        BY <2>1, <2>2, <2>3, <2>5, <3>2 DEF Pids
      <4>2. Kept(p)
        BY <1>2, <4>1
      <4>3. \A u \in Sessions : byChar'[u] = byChar[u] \/ byChar'[u] = n
        BY <2>3
      <4>4. members[p] \subseteq Sessions
        BY <1>2 DEF Parties
      <4> QED BY <3>2, <4>1, <4>2, <4>3, <4>4 DEF Kept
    <3> QED BY <3>1, <3>2
  <2>6. ASSUME NEW u \in Sessions PROVE Shown(u)'
    <3>1. CASE byChar'[u] = n
      BY <2>2, <3>1 DEF Shown
    <3>2. CASE byChar'[u] # n
      <4>1. u \notin {a, s} /\ byChar'[u] = byChar[u]
        BY <2>3, <3>2
      <4>2. ASSUME PartiesOf(u)' = {byChar'[u]}
            PROVE  /\ PartiesOf(u) = {byChar[u]} /\ byChar[u] \in Pids
                   /\ members'[byChar[u]] = members[byChar[u]]
        <5>1. u \notin members'[n]
          BY <2>1, <3>2, <4>2 DEF PartiesOf
        <5>2. members[n] = {}
          BY <1>2, <2>1 DEF Parties
        <5>3. \A p \in Pids : u \in members'[p] <=> u \in members[p]
          BY <2>3, <5>1, <5>2
        <5> QED BY <2>3, <3>2, <4>1, <4>2, <5>3 DEF PartiesOf
      <4>3. ASSUME Online(u)', PartiesOf(u)' = {byChar'[u]}, byChar'[u] \notin telling'
            PROVE  NewestIn(fromParty[u], partyPanel[u], {members[byChar[u]], {}})
        <5>1. Shown(u)
          BY <1>2
        <5>2. Online(u)
          BY <1>1, <4>3 DEF Online
        <5>3. PartiesOf(u) = {byChar[u]}
          BY <4>2, <4>3
        <5>4. byChar[u] \notin telling
          BY <2>2, <4>1, <4>3
        <5> QED BY <5>1, <5>2, <5>3, <5>4 DEF Shown
      <4>4. byChar'[u] = byChar[u] /\ fromParty' = fromParty /\ partyPanel' = partyPanel
        BY <1>1, <4>1
      <4> QED BY <4>2, <4>3, <4>4, Zenon DEF Shown
    <3> QED BY <3>1, <3>2
  <2> QED BY <1>3, <2>4, <2>5, <2>6 DEF PartyInv
<1>6. \/ UNCHANGED <<members, lastParty, byChar, telling>>
      \/ toParty[s].accept /\ invites[s] # NoOne /\ AcceptInvite(s, toParty[s].from)
  BY DEF HandleInviteResponse
<1> QED BY <1>4, <1>5, <1>6

\* LeaveParty by who stays connected, and by who does not.
LEMMA LeaveStep ==
  ASSUME MaxParties \in Nat, PartyInv, NEW s \in Sessions, Leave(s), UNCHANGED lastParty, Invitations',
         \A u \in Sessions : Online(u)' => Online(u),
         \A u \in Sessions \ {s} : fromParty'[u] = fromParty[u] /\ partyPanel'[u] = partyPanel[u],
         ~Online(s)' \/ (fromParty'[s] = fromParty[s] /\ partyPanel'[s] = partyPanel[s])
  PROVE  PartyInv'
<1>1. Parties /\ (\A p \in Pids : p <= lastParty => Kept(p)) /\ \A u \in Sessions : Shown(u)
  BY DEF PartyInv
<1>2. CASE byChar[s] = 0
  <2>1. UNCHANGED <<members, byChar, telling>>
    BY <1>2 DEF Leave
  <2>2. Parties' /\ \A p \in Pids : p <= lastParty' => Kept(p)'
    BY <1>1, <2>1 DEF Parties, Kept
  <2>3. ASSUME NEW u \in Sessions PROVE Shown(u)'
    <3>1. (Online(u)' => Online(u) /\ fromParty'[u] = fromParty[u] /\ partyPanel'[u] = partyPanel[u])
      OBVIOUS
    <3> QED BY <1>1, <2>1, <3>1 DEF Shown, PartiesOf
  <2> QED BY <2>2, <2>3 DEF PartyInv
<1>3. CASE byChar[s] # 0
  <2> DEFINE q == byChar[s]
             rest == members[q] \ {s}
  <2>1. /\ byChar' = [byChar EXCEPT ![s] = 0] /\ members' = [members EXCEPT ![q] = rest]
        /\ telling' = IF rest = {} THEN telling ELSE telling \union {q}
    BY <1>3 DEF Leave
  <2>2. q \in Pids /\ q \in 1..lastParty /\ rest \subseteq Sessions \ {s}
    BY <1>1, <1>3 DEF Parties, Pids
  <2> HIDE DEF q
  <2>3. /\ byChar'[s] = 0 /\ \A u \in Sessions \ {s} : byChar'[u] = byChar[u]
        /\ members'[q] = rest /\ \A p \in Pids \ {q} : members'[p] = members[p]
    BY <1>1, <2>1, <2>2 DEF Parties
  <2>4. Parties'
    BY <1>1, <2>1, <2>2 DEF Parties
  <2>5. ASSUME NEW p \in Pids, p <= lastParty PROVE Kept(p)'
    <3>1. Kept(p) /\ members[p] \subseteq Sessions /\ p # 0
      BY <1>1, <2>5 DEF Parties, Pids
    <3>2. CASE p = q
      BY <2>3, <3>1, <3>2 DEF Kept, q
    <3>3. CASE p # q
      BY <2>3, <3>1, <3>3 DEF Kept
    <3> QED BY <3>2, <3>3
  <2>6. ASSUME NEW u \in Sessions, Online(u)', PartiesOf(u)' = {byChar'[u]}
        PROVE  Shown(u)'
    <3>1. u # s
      BY <2>3, <2>6 DEF PartiesOf, Pids
    <3>2. PartiesOf(u) = {byChar[u]} /\ byChar[u] \in Pids /\ byChar'[u] = byChar[u]
      <4>1. \A p \in Pids : u \in members'[p] <=> u \in members[p]
        BY <2>3, <3>1
      <4> QED BY <2>3, <2>6, <3>1, <4>1 DEF PartiesOf
    <3>3. CASE byChar[u] = q
      <4>1. u \in rest
        BY <3>1, <3>2, <3>3 DEF PartiesOf
      <4> QED BY <2>1, <3>2, <3>3, <4>1 DEF Shown
    <3>4. CASE byChar[u] # q
      <4>1. Online(u) /\ Shown(u) /\ fromParty'[u] = fromParty[u] /\ partyPanel'[u] = partyPanel[u]
        BY <1>1, <2>6, <3>1
      <4>2. members'[byChar[u]] = members[byChar[u]] /\ (byChar[u] \in telling => byChar[u] \in telling')
        BY <2>1, <2>3, <3>2, <3>4
      <4>3. byChar[u] \notin telling' => NewestIn(fromParty[u], partyPanel[u], {members[byChar[u]], {}})
        BY <3>2, <4>1, <4>2 DEF Shown
      <4> QED BY <3>2, <4>1, <4>2, <4>3, Zenon DEF Shown
    <3> QED BY <3>3, <3>4
  <2>7. \A u \in Sessions : Shown(u)'
    BY <2>6 DEF Shown
  <2> QED BY <2>4, <2>5, <2>7 DEF PartyInv
<1> QED BY <1>2, <1>3

LEMMA HandleLeaveStep ==
  ASSUME MaxParties \in Nat, PartyInv, NEW s \in Sessions, HandleLeave(s)
  PROVE  PartyInv'
<1>1. /\ Leave(s)
      /\ UNCHANGED <<lastParty, invites, leaving, toParty, fromParty, inviteDialog, partyPanel>>
  BY DEF HandleLeave, client
<1>2. Invitations'
  BY <1>1 DEF PartyInv, Invitations
<1> QED BY <1>1, <1>2, LeaveStep DEF Online

LEMMA DisconnectStep ==
  ASSUME MaxParties \in Nat, PartyInv, NEW s \in Sessions, Disconnect(s)
  PROVE  PartyInv'
<1>1. /\ Leave(s) /\ UNCHANGED <<lastParty, invites>>
      /\ leaving' = [leaving EXCEPT ![s] = "left"]
      /\ toParty' = [toParty EXCEPT ![s] = NoAnswer]
      /\ fromParty' = [fromParty EXCEPT ![s] = <<>>]
      /\ inviteDialog' = [inviteDialog EXCEPT ![s] = NoOne]
      /\ partyPanel' = [partyPanel EXCEPT ![s] = {}]
  BY DEF Disconnect
<1>2. Invitations
  BY DEF PartyInv
<1>3. /\ leaving' \in [Sessions -> {"no", "left", "gone"}]
      /\ toParty' \in [Sessions -> [from : Sessions \union {NoOne}, accept : BOOLEAN]]
      /\ inviteDialog' \in [Sessions -> Sessions \union {NoOne}]
      /\ partyPanel' \in [Sessions -> SUBSET Sessions]
  BY <1>1, <1>2 DEF Invitations, NoAnswer
<1>4. fromParty' \in [Sessions -> Seq(Message)]
  <2>1. <<>> \in Seq(Message)
    OBVIOUS
  <2> QED BY <1>1, <1>2, <2>1 DEF Invitations
<1>5. ASSUME NEW u \in Sessions
      PROVE  IF u = s THEN /\ fromParty'[u] = <<>> /\ partyPanel'[u] = {} /\ inviteDialog'[u] = NoOne
                           /\ ~toParty'[u].accept /\ leaving'[u] = "left"
             ELSE /\ fromParty'[u] = fromParty[u] /\ partyPanel'[u] = partyPanel[u]
                  /\ inviteDialog'[u] = inviteDialog[u] /\ toParty'[u] = toParty[u]
                  /\ leaving'[u] = leaving[u]
  BY <1>1, <1>2 DEF Invitations, NoAnswer
<1>6. ASSUME NEW u \in Sessions
      PROVE  /\ inviteDialog'[u] # NoOne => inviteDialog'[u] # u
             /\ toParty'[u].accept => toParty'[u].from \in Sessions /\ toParty'[u].from # u
             /\ \A i \in 1..Len(fromParty'[u]) :
                  fromParty'[u][i].t = "invite" => fromParty'[u][i].from # u
             /\ leaving'[u] # "no" => fromParty'[u] = <<>> /\ partyPanel'[u] = {}
  <2>1. CASE u = s
    BY <1>5, <2>1
  <2>2. CASE u # s
    BY <1>2, <1>5, <2>2 DEF Invitations
  <2> QED BY <2>1, <2>2
<1>7. Invitations'
  BY <1>1, <1>2, <1>3, <1>4, <1>6 DEF Invitations
<1>8. /\ \A u \in Sessions : Online(u)' => Online(u)
      /\ \A u \in Sessions \ {s} : fromParty'[u] = fromParty[u] /\ partyPanel'[u] = partyPanel[u]
      /\ ~Online(s)'
  BY <1>5 DEF Online
<1> QED BY <1>1, <1>7, <1>8, LeaveStep

LEMMA BroadcastStep ==
  ASSUME PartyInv, NEW q \in Pids, BroadcastUpdate(q)
  PROVE  PartyInv'
<1> DEFINE m == [t |-> "update", from |-> NoOne, of |-> members[q]]
<1>1. /\ q \in telling /\ telling' = telling \ {q}
      /\ fromParty' = [s \in Sessions |-> IF s \in members[q] /\ Online(s)
                                        THEN Append(fromParty[s], m) ELSE fromParty[s]]
      /\ UNCHANGED <<members, lastParty, byChar, invites, leaving, toParty, inviteDialog, partyPanel>>
  BY DEF BroadcastUpdate, client
<1>2. Parties /\ Invitations /\ (\A p \in Pids : p <= lastParty => Kept(p))
      /\ \A u \in Sessions : Shown(u)
  BY DEF PartyInv
<1>3. members[q] \in SUBSET Sessions
  BY <1>2 DEF Parties
<1>4. m \in Message /\ m.t = "update" /\ m.of = members[q]
  BY <1>3 DEF Message
<1> HIDE DEF m
<1>5. Parties' /\ \A p \in Pids : p <= lastParty' => Kept(p)'
  BY <1>1, <1>2 DEF Parties, Kept
<1>6. ASSUME NEW s \in Sessions
      PROVE  /\ fromParty'[s] \in Seq(Message)
             /\ \A i \in 1..Len(fromParty'[s]) :
                  fromParty'[s][i].t = "invite" => fromParty'[s][i].from # s
             /\ leaving[s] # "no" => fromParty'[s] = <<>>
  <2>1. /\ fromParty[s] \in Seq(Message)
        /\ \A i \in 1..Len(fromParty[s]) :
             fromParty[s][i].t = "invite" => fromParty[s][i].from # s
        /\ leaving[s] # "no" => fromParty[s] = <<>>
    BY <1>2 DEF Invitations
  <2>2. CASE fromParty'[s] = fromParty[s]
    BY <2>1, <2>2
  <2>3. CASE fromParty'[s] = Append(fromParty[s], m) /\ leaving[s] = "no"
    <3>1. /\ Append(fromParty[s], m) \in Seq(Message) /\ Len(fromParty[s]) \in Nat
          /\ Len(Append(fromParty[s], m)) = Len(fromParty[s]) + 1
          /\ Append(fromParty[s], m)[Len(fromParty[s]) + 1] = m
          /\ \A i \in 1..Len(fromParty[s]) : Append(fromParty[s], m)[i] = fromParty[s][i]
      BY <1>4, <2>1
    <3> QED BY <1>4, <2>1, <2>3, <3>1
  <2> QED BY <1>1, <2>2, <2>3 DEF Online
<1>7. Invitations'
  <2>1. fromParty' \in [Sessions -> Seq(Message)]
    BY <1>1, <1>6
  <2> QED BY <1>1, <1>2, <1>6, <2>1 DEF Invitations
<1>8. ASSUME NEW s \in Sessions, Online(s), PartiesOf(s) = {byChar[s]}, byChar[s] \notin telling'
      PROVE  NewestIn(fromParty'[s], partyPanel[s], {members[byChar[s]], {}})
  <2>1. byChar[s] \in Pids /\ s \in members[byChar[s]]
    BY <1>8 DEF PartiesOf
  <2>2. CASE byChar[s] = q
    <3>1. fromParty'[s] = Append(fromParty[s], m) /\ fromParty[s] \in Seq(Message)
      BY <1>1, <1>2, <1>8, <2>1, <2>2 DEF Invitations
    <3> QED BY <1>4, <2>2, <3>1, NewestAppendUpdate
  <2>3. CASE byChar[s] # q
    <3>1. s \notin members[q]
      BY <1>8, <2>3 DEF PartiesOf
    <3>2. fromParty'[s] = fromParty[s] /\ byChar[s] \notin telling
      BY <1>1, <1>8, <2>3, <3>1
    <3>3. Shown(s)
      BY <1>2
    <3> QED BY <1>8, <3>2, <3>3 DEF Shown
  <2> QED BY <2>2, <2>3
<1>9. ASSUME NEW s \in Sessions PROVE Shown(s)'
  <2>1. /\ Online(s)' = Online(s) /\ PartiesOf(s)' = PartiesOf(s) /\ byChar' = byChar
        /\ partyPanel' = partyPanel /\ members' = members
    BY <1>1 DEF Online, PartiesOf
  <2> QED BY <1>8, <2>1 DEF Shown
<1> QED BY <1>5, <1>7, <1>9 DEF PartyInv

LEMMA PartyStep ==
  ASSUME MaxParties \in Nat, PartyInv, [Next]_partyVars
  PROVE  PartyInv'
<1>1. CASE UNCHANGED partyVars
  <2>1. /\ UNCHANGED <<members, lastParty, byChar, telling, leaving, invites, toParty, fromParty>>
        /\ UNCHANGED <<inviteDialog, partyPanel>>
    BY <1>1 DEF partyVars
  <2>2. Parties' /\ Invitations' /\ \A p \in Pids : p <= lastParty' => Kept(p)'
    BY <2>1 DEF PartyInv, Parties, Invitations, Kept
  <2>3. ASSUME NEW s \in Sessions PROVE Shown(s)'
    <3>1. Shown(s)
      BY DEF PartyInv
    <3> QED BY <2>1, <3>1 DEF Shown, Online, PartiesOf, NewestIn
  <2> QED BY <2>2, <2>3 DEF PartyInv
<1>2. CASE Next
  BY <1>2, InviteStep, BroadcastStep, AcceptStep, HandleLeaveStep, DisconnectStep, CleanupStep,
     ToldStep, ClientStep DEF Next
<1> QED BY <1>1, <1>2

-----------------------------------------------------------------------------
(* What it gives *)

\* The two properties of the parties, in every state of the invariant.
LEMMA PartyProperties == ASSUME MaxParties \in Nat, PartyInv PROVE IndexValid /\ PanelHonest
<1>1. ASSUME NEW s \in Sessions, byChar[s] # 0 PROVE members[byChar[s]] # {}
  <2>1. byChar[s] \in Pids /\ byChar[s] <= lastParty
    BY <1>1 DEF PartyInv, Parties, Pids
  <2>2. Kept(byChar[s])
    BY <2>1 DEF PartyInv
  <2> QED BY <2>2 DEF Kept
<1>2. ASSUME NEW s \in Sessions, telling = {}, fromParty[s] = <<>>, partyPanel[s] # {},
             PartiesOf(s) = {byChar[s]}
      PROVE  partyPanel[s] = members[byChar[s]]
  <2>1. Online(s) /\ Shown(s)
    BY <1>2 DEF PartyInv, Invitations, Online
  <2>2. NewestIn(<<>>, partyPanel[s], {members[byChar[s]], {}})
    BY <1>2, <2>1 DEF Shown
  <2> QED BY <1>2, <2>2 DEF NewestIn
<1> QED BY <1>1, <1>2 DEF IndexValid, PanelHonest

\* GetParty is never asked for a deleted party, and a panel that is shown, with nothing
\* left to tell it, names the members of the party, whatever was accepted, left,
\* broadcast and disconnected before and in whatever order.
THEOREM PartiesAgree ==
  ASSUME MaxParties \in Nat
  PROVE  Spec => [](IndexValid /\ PanelHonest)
<1>1. Init => PartyInv
  BY PartyInit
<1>2. PartyInv /\ [Next]_partyVars => PartyInv'
  BY PartyStep
<1>3. PartyInv => IndexValid /\ PanelHonest
  BY PartyProperties
<1> QED BY <1>1, <1>2, <1>3, PTL DEF Spec

\* A session whose clean-up is done has no invitation.
Uninvited == \A u \in Sessions : leaving[u] = "gone" => invites[u] = NoOne

LEMMA UninvitedStep ==
  ASSUME PartyInv, Uninvited, [Next]_partyVars
  PROVE  Uninvited'
<1>1. /\ invites \in [Sessions -> Sessions \union {NoOne}]
      /\ leaving \in [Sessions -> {"no", "left", "gone"}]
  BY DEF PartyInv, Invitations
<1>2. ASSUME UNCHANGED leaving, NEW u \in Sessions, NEW b,
             invites' = [invites EXCEPT ![u] = b], leaving[u] # "gone" \/ b = NoOne
      PROVE  Uninvited'
  BY <1>1, <1>2 DEF Uninvited
<1>3. ASSUME NEW a \in Sessions, NEW b \in Sessions, InvitePlayer(a, b) PROVE Uninvited'
  BY <1>2, <1>3 DEF InvitePlayer, Online
<1>4. ASSUME NEW u \in Sessions, HandleInviteResponse(u) PROVE Uninvited'
  BY <1>2, <1>4 DEF HandleInviteResponse
<1>5. ASSUME NEW u \in Sessions, Disconnect(u) PROVE Uninvited'
  BY <1>1, <1>5 DEF Disconnect, Uninvited
<1>6. ASSUME NEW u \in Sessions, CleanupInvites(u) PROVE Uninvited'
  BY <1>1, <1>6 DEF CleanupInvites, Uninvited
<1>7. CASE UNCHANGED <<leaving, invites>>
  BY <1>7 DEF Uninvited
<1>8. ASSUME NEW u \in Sessions,
             HandleLeave(u) \/ OnInviteRequest(u) \/ Respond(u) \/ OnPartyUpdate(u) \/ ChangeScene(u)
      PROVE  UNCHANGED <<leaving, invites>>
  BY <1>8 DEF HandleLeave, OnInviteRequest, Respond, OnPartyUpdate, ChangeScene, Told, manager
<1>9. ASSUME NEW k \in Pids, BroadcastUpdate(k) PROVE UNCHANGED <<leaving, invites>>
  BY <1>9 DEF BroadcastUpdate
<1>10. CASE UNCHANGED partyVars
  BY <1>7, <1>10 DEF partyVars
<1> QED BY <1>3, <1>4, <1>5, <1>6, <1>7, <1>8, <1>9, <1>10 DEF Next

LEMMA PartyTyped == PartyInv /\ Uninvited => TypeOK
BY DEF PartyInv, Parties, Invitations, Uninvited, Online, Pids, TypeOK

-----------------------------------------------------------------------------
(* What the switches and variables keep: the inductive invariant *)

Types ==
  /\ value \in [Keys -> Nat] /\ last \in [Keys -> Nat] /\ saved \in [Keys -> Nat]
  /\ pending \in [Keys -> Nat]
  /\ setting \in [Goroutines -> [Keys -> Nat]]
  /\ batch \in [State!Flushers -> [Keys -> Nat]]
  /\ overlaps \in [Keys -> SUBSET (Nat \X Nat)]
  /\ outlived \in SUBSET Goroutines /\ stopping \in BOOLEAN

\* Nothing is newer than the newest set; of a key of all, nothing that waits or is saved is
\* newer than the memory: a restart, which takes the memory back to the rows, drops all
\* that waits.
Behind ==
  \A k \in Keys :
    /\ value[k] <= last[k] /\ saved[k] <= last[k]
    /\ \A g \in Goroutines : setting[g][k] <= last[k]
    /\ k \in Global => /\ saved[k] <= value[k] /\ pending[k] <= value[k]
                       /\ \A f \in State!Flushers : batch[f][k] <= value[k]
                       /\ \A g \in Goroutines : setting[g][k] <= value[k]

\* Where a change may be: the flusher has keys of all only, and Flush runs for Stop only
\* while stopping.
Places ==
  /\ \A k \in Keys : k \notin Global => /\ pending[k] = 0
                                        /\ \A f \in State!Flushers : batch[f][k] = 0
  /\ ~stopping => batch["stop"] = State!Unset

\* A set that has not returned overlaps every one that came after it.
Overlapped ==
  \A k \in Keys, g \in Goroutines, n \in Nat :
    setting[g][k] # 0 /\ setting[g][k] < n /\ n <= last[k] => <<setting[g][k], n>> \in overlaps[k]

\* What waits longer is older, or overlapped what came before it: the row, the batch, what
\* is pending.
MayFollow(k, x, y) == State!Register!MayFollow(k, x, y)
InOrder(k) ==
  LET b == batch["ticker"][k] IN
  /\ b # 0 => MayFollow(k, saved[k], b)
  /\ pending[k] # 0 => MayFollow(k, saved[k], pending[k]) /\ MayFollow(k, b, pending[k])

StateInv ==
  /\ Types /\ Behind /\ Places /\ Overlapped
  /\ stopping \/ \A k \in Keys : InOrder(k)

\* What no set begins in between and no set is forgotten by stays in order.
LEMMA StaysInOrder ==
  ASSUME NEW k, InOrder(k), UNCHANGED <<overlaps, saved, batch, pending>>
  PROVE  InOrder(k)'
BY DEF InOrder, MayFollow, State!Register!MayFollow

LEMMA StateInit == State!Init => StateInv
<1> SUFFICES ASSUME State!Init PROVE StateInv
  OBVIOUS
<1>1. Types
  BY DEF State!Init, State!Unset, Types
<1>5. ASSUME NEW k \in Keys
      PROVE  /\ value[k] = 0 /\ last[k] = 0 /\ saved[k] = 0 /\ pending[k] = 0
             /\ \A f \in State!Flushers : batch[f][k] = 0
             /\ \A g \in Goroutines : setting[g][k] = 0
  BY DEF State!Init, State!Unset, State!Flushers
<1>2. Behind
  <2> SUFFICES ASSUME NEW k \in Keys
               PROVE  /\ value[k] <= last[k] /\ saved[k] <= last[k]
                      /\ \A g \in Goroutines : setting[g][k] <= last[k]
                      /\ k \in Global => /\ saved[k] <= value[k] /\ pending[k] <= value[k]
                                         /\ \A f \in State!Flushers : batch[f][k] <= value[k]
                                         /\ \A g \in Goroutines : setting[g][k] <= value[k]
    BY Zenon DEF Behind
  <2> QED BY <1>5
<1>3. Places
  <2>1. ~stopping => batch["stop"] = State!Unset
    BY DEF State!Init, State!Flushers
  <2> QED BY <1>5, <2>1, Zenon DEF Places
<1>6. Overlapped
  BY <1>5 DEF Overlapped
<1>4. ASSUME NEW k \in Keys PROVE InOrder(k)
  <2>1. batch["ticker"][k] = 0
    BY <1>5 DEF State!Flushers
  <2> QED BY <1>5, <2>1, Zenon DEF InOrder
<1> QED BY <1>1, <1>2, <1>3, <1>4, <1>6 DEF StateInv

-----------------------------------------------------------------------------
(* The steps of the game state *)

\* What may be written where: nothing that has not been set, and no older set than the
\* newest unless they overlapped.
LEMMA OverlapsAll ==
  ASSUME Types, Behind, Overlapped, NEW k \in Keys, NEW g \in Goroutines, setting[g][k] # 0,
         NEW x \in Nat, x <= last[k]
  PROVE  MayFollow(k, x, setting[g][k])
<1>1. setting[g][k] \in Nat
  BY DEF Types
<1> QED BY <1>1 DEF Overlapped, MayFollow, State!Register!MayFollow

\* What is under way of a key, and of one that has been set by one more goroutine.
LEMMA UnderwayOf ==
  ASSUME NEW k \in Keys
  PROVE  /\ \A g \in Goroutines : setting[g][k] # 0 => setting[g][k] \in State!Underway[k]
         /\ \A x \in State!Underway[k] : \E g \in Goroutines : x = setting[g][k] /\ x # 0
BY DEF State!Underway

LEMMA UnderwayType == Types => State!Underway \in [Keys -> SUBSET Nat]
<1> SUFFICES ASSUME Types PROVE State!Underway \in [Keys -> SUBSET Nat]
  OBVIOUS
<1>1. \A k \in Keys, g \in Goroutines : setting[g][k] \in Nat
  BY DEF Types
<1> QED BY <1>1 DEF State!Underway

\* A goroutine that returns takes nothing of others with it.
LEMMA Returns ==
  ASSUME Types, NEW g \in Goroutines, setting' = [setting EXCEPT ![g] = State!Unset]
  PROVE  /\ Types => State!Underway' \in [Keys -> SUBSET Nat]
         /\ \A k \in Keys : State!Underway'[k] \subseteq State!Underway[k]
<1>1. \A h \in Goroutines, k \in Keys : setting'[h][k] = (IF h = g THEN 0 ELSE setting[h][k])
  BY DEF Types, State!Unset
<1>2. \A h \in Goroutines, k \in Keys : setting'[h][k] \in Nat
  BY <1>1 DEF Types
<1>3. State!Underway' \in [Keys -> SUBSET Nat]
  BY <1>2 DEF State!Underway
<1>4. ASSUME NEW k \in Keys PROVE State!Underway'[k] \subseteq State!Underway[k]
  BY <1>1 DEF State!Underway
<1> QED BY <1>3, <1>4

LEMMA SetStep ==
  ASSUME StateInv, NEW g \in Goroutines, NEW k \in Keys, State!Set(g, k)
  PROVE  StateInv' /\ State!Register!Set(k)
<1> DEFINE n == last[k] + 1
<1>1. /\ Types /\ Behind /\ Places /\ Overlapped /\ setting[g] = State!Unset
      /\ last' = [last EXCEPT ![k] = n]
      /\ value' = [value EXCEPT ![k] = n] \/ (k \notin Global /\ UNCHANGED value)
      /\ setting' = [setting EXCEPT ![g][k] = n]
      /\ UNCHANGED <<outlived, pending, batch, stopping, saved>>
      /\ n \in Nat /\ last[k] < n /\ last[k] \in Nat /\ n # 0
  BY DEF StateInv, Types, State!Set
<1>a. overlaps' = [overlaps EXCEPT ![k] = overlaps[k] \union (State!Underway[k] \X {n})]
  BY <1>1 DEF State!Set, Types
<1> HIDE DEF n
<1>2. \A h \in Goroutines, j \in Keys :
        /\ setting'[h][j] \in Nat
        /\ setting'[h][j] = (IF h = g /\ j = k THEN n ELSE setting[h][j])
  BY <1>1 DEF Types
<1>b. \A j \in Keys : setting[g][j] = 0
  BY <1>1 DEF State!Unset
<1>c. \A j \in Keys : last'[j] = (IF j = k THEN n ELSE last[j])
  BY <1>1 DEF Types
<1>d. \A j \in Keys : value'[j] = (IF j = k THEN n ELSE value[j]) \/ (k \notin Global /\ value'[j] = value[j])
  BY <1>1 DEF Types
<1>e. \A j \in Keys : overlaps[j] \subseteq overlaps'[j] /\ (j # k => overlaps'[j] = overlaps[j])
  BY <1>1, <1>a DEF Types
<1>4. Types'
  <2>1. State!Underway[k] \subseteq Nat
    BY <1>1, UnderwayType
  <2>2. State!Underway[k] \X {n} \subseteq Nat \X Nat
    BY <1>1, <2>1
  <2>3. overlaps[k] \union (State!Underway[k] \X {n}) \in SUBSET (Nat \X Nat)
    BY <1>1, <2>2 DEF Types
  <2>4. overlaps' \in [Keys -> SUBSET (Nat \X Nat)]
    BY <1>1, <1>a, <2>3 DEF Types
  <2>5. setting' \in [Goroutines -> [Keys -> Nat]]
    BY <1>1 DEF Types
  <2>6. value' \in [Keys -> Nat] /\ last' \in [Keys -> Nat]
    BY <1>1 DEF Types
  <2> QED BY <1>1, <2>4, <2>5, <2>6 DEF Types
<1>5. Behind'
  <2> SUFFICES ASSUME NEW j \in Keys
               PROVE  /\ value'[j] <= last'[j] /\ saved'[j] <= last'[j]
                      /\ \A h \in Goroutines : setting'[h][j] <= last'[j]
                      /\ j \in Global => /\ saved'[j] <= value'[j] /\ pending'[j] <= value'[j]
                                         /\ \A f \in State!Flushers : batch'[f][j] <= value'[j]
                                         /\ \A h \in Goroutines : setting'[h][j] <= value'[j]
    BY Zenon DEF Behind
  <2>1. /\ value[j] \in Nat /\ last[j] \in Nat /\ saved[j] \in Nat /\ pending[j] \in Nat
        /\ \A h \in Goroutines : setting[h][j] \in Nat
        /\ \A f \in State!Flushers : batch[f][j] \in Nat
    BY <1>1 DEF Types
  <2>2. /\ value[j] <= last[j] /\ saved[j] <= last[j]
        /\ \A h \in Goroutines : setting[h][j] <= last[j]
        /\ j \in Global => /\ saved[j] <= value[j] /\ pending[j] <= value[j]
                           /\ \A f \in State!Flushers : batch[f][j] <= value[j]
                           /\ \A h \in Goroutines : setting[h][j] <= value[j]
    BY <1>1 DEF Behind
  <2>3. UNCHANGED <<saved, pending, batch>>
    BY <1>1
  <2>4. j = k => /\ last'[j] = n /\ last[j] < n
                 /\ value'[j] = n \/ (j \notin Global /\ value'[j] = value[j])
    BY <1>1, <1>c, <1>d
  <2>5. j # k => last'[j] = last[j] /\ value'[j] = value[j]
    BY <1>c, <1>d
  <2>6. \A h \in Goroutines : setting'[h][j] = setting[h][j] \/ (j = k /\ setting'[h][j] = n)
    BY <1>2
  <2>7. CASE j = k
    BY <1>1, <2>1, <2>2, <2>3, <2>4, <2>6, <2>7
  <2>8. CASE j # k
    BY <2>1, <2>2, <2>3, <2>5, <2>6, <2>8
  <2> QED BY <2>7, <2>8
<1>6. Places'
  BY <1>1 DEF Places, State!Unset
<1>7. Overlapped'
  <2> SUFFICES ASSUME NEW j \in Keys, NEW h \in Goroutines, NEW i \in Nat,
                      setting'[h][j] # 0, setting'[h][j] < i, i <= last'[j]
               PROVE  <<setting'[h][j], i>> \in overlaps'[j]
    BY DEF Overlapped
  <2>1. setting[h][j] \in Nat /\ last[j] \in Nat
    BY <1>1 DEF Types
  <2>2. CASE h = g /\ j = k
    BY <1>1, <1>2, <1>c, <2>2
  <2>3. CASE ~(h = g /\ j = k) /\ i <= last[j]
    <3>1. setting'[h][j] = setting[h][j]
      BY <1>2, <2>3
    <3>2. <<setting[h][j], i>> \in overlaps[j]
      BY <1>1, <2>3, <3>1 DEF Overlapped
    <3> QED BY <1>e, <3>1, <3>2
  <2>4. CASE ~(h = g /\ j = k) /\ ~(i <= last[j])
    <3>1. j = k /\ i = n /\ setting'[h][j] = setting[h][j]
      BY <1>1, <1>2, <1>c, <2>1, <2>4, n = last[k] + 1 DEF n
    <3>2. setting[h][k] \in State!Underway[k]
      BY <3>1, UnderwayOf
    <3>3. overlaps'[k] = overlaps[k] \union (State!Underway[k] \X {n})
      BY <1>1, <1>a DEF Types
    <3> QED BY <3>1, <3>2, <3>3
  <2> QED BY <2>2, <2>3, <2>4
<1>8. ASSUME NEW j \in Keys, InOrder(j) PROVE InOrder(j)'
  <2>1. UNCHANGED <<saved, batch, pending>>
    BY <1>1
  <2>2. \A x, y : MayFollow(j, x, y) => MayFollow(j, x, y)'
    BY <1>e DEF MayFollow, State!Register!MayFollow
  <2> QED BY <1>8, <2>1, <2>2 DEF InOrder
<1>9. State!Register!Set(k)
  <2>1. State!Underway' = [State!Underway EXCEPT ![k] = State!Underway[k] \union {n}]
    <3>1. ASSUME NEW j \in Keys
          PROVE  State!Underway'[j] = IF j = k THEN State!Underway[k] \union {n} ELSE State!Underway[j]
      <4>1. CASE j # k
        <5>1. \A h \in Goroutines : setting'[h][j] = setting[h][j]
          BY <1>2, <4>1
        <5> QED BY <4>1, <5>1 DEF State!Underway
      <4>2. CASE j = k
        <5>1. \A h \in Goroutines : setting'[h][k] = (IF h = g THEN n ELSE setting[h][k])
          BY <1>2, <4>2
        <5>2. setting[g][k] = 0
          BY <1>b
        <5>3. {setting'[h][k] : h \in Goroutines} \ {0}
                = ({setting[h][k] : h \in Goroutines} \ {0}) \union {n}
          BY <1>1, <5>1, <5>2
        <5> QED BY <4>2, <5>3 DEF State!Underway
      <4> QED BY <4>1, <4>2
    <3> QED BY <3>1 DEF State!Underway
  <2>2. last'[k] = n /\ last' = [last EXCEPT ![k] = last[k] + 1]
    BY <1>1, <1>c DEF n
  <2>3. value' = [value EXCEPT ![k] = last'[k]] \/ (k \notin Global /\ UNCHANGED value)
    BY <1>1, <2>2
  <2>4. UNCHANGED <<saved, stopping>>
    BY <1>1
  <2> QED BY <1>a, <2>1, <2>2, <2>3, <2>4 DEF State!Register!Set
<1> QED BY <1>1, <1>4, <1>5, <1>6, <1>7, <1>8, <1>9 DEF StateInv

\* A change is queued while newer ones may be waiting or saved: it has overlapped them.
LEMMA QueueStep ==
  ASSUME StateInv, NEW g \in Goroutines, NEW k \in Keys, State!QueueChange(g, k)
  PROVE  StateInv' /\ State!Register!Save
<1>1. /\ Types /\ Behind /\ Places /\ Overlapped /\ k \in Global /\ setting[g][k] # 0
      /\ pending' = [pending EXCEPT ![k] = setting[g][k]]
      /\ setting' = [setting EXCEPT ![g] = State!Unset]
      /\ UNCHANGED <<value, last, outlived, batch, stopping, saved, overlaps>>
  BY DEF StateInv, State!QueueChange
<1>2. \A h \in Goroutines, j \in Keys : setting'[h][j] = (IF h = g THEN 0 ELSE setting[h][j])
  BY <1>1 DEF Types, State!Unset
<1>3. Types'
  BY <1>1 DEF Types, State!Unset
<1>4. Behind' /\ Places'
  BY <1>1, <1>2 DEF Types, Behind, Places
<1>5. Overlapped'
  BY <1>1, <1>2 DEF Overlapped
<1>6. ASSUME NEW j \in Keys, InOrder(j) PROVE InOrder(j)'
  <2>1. CASE j # k
    <3>1. pending'[j] = pending[j]
      BY <1>1, <2>1 DEF Types
    <3> QED BY <1>1, <1>6, <3>1 DEF InOrder, MayFollow, State!Register!MayFollow
  <2>2. CASE j = k
    <3>1. pending'[k] = setting[g][k]
      BY <1>1 DEF Types
    <3>2. saved[k] \in Nat /\ saved[k] <= last[k]
      BY <1>1 DEF Types, Behind
    <3>3. batch["ticker"][k] \in Nat /\ batch["ticker"][k] <= last[k]
      <4>1. "ticker" \in State!Flushers
        BY DEF State!Flushers
      <4>2. batch["ticker"][k] \in Nat /\ value[k] \in Nat /\ last[k] \in Nat
        BY <1>1, <4>1 DEF Types
      <4>3. batch["ticker"][k] <= value[k] /\ value[k] <= last[k]
        BY <1>1, <4>1 DEF Behind
      <4> QED BY <4>2, <4>3
    <3>4. MayFollow(k, saved[k], setting[g][k]) /\ MayFollow(k, batch["ticker"][k], setting[g][k])
      BY <1>1, <3>2, <3>3, OverlapsAll
    <3> QED BY <1>1, <1>6, <2>2, <3>1, <3>4 DEF InOrder, MayFollow, State!Register!MayFollow
  <2> QED BY <2>1, <2>2
<1>7. State!Register!Save
  <2>1. saved' \in [Keys -> Nat] /\ UNCHANGED <<value, last, stopping, overlaps, saved>>
    BY <1>1 DEF Types
  <2>2. State!Underway' \in [Keys -> SUBSET Nat] /\ \A j \in Keys : State!Underway'[j] \subseteq State!Underway[j]
    BY <1>1, Returns
  <2> QED BY <2>1, <2>2 DEF State!Register!Save
<1> QED BY <1>1, <1>3, <1>4, <1>5, <1>6, <1>7 DEF StateInv

LEMMA PersistStep ==
  ASSUME StateInv, NEW g \in Goroutines, NEW k \in Keys, State!Persist(g, k)
  PROVE  StateInv' /\ State!Register!Save
<1>1. /\ Types /\ Behind /\ Places /\ Overlapped /\ k \notin Global /\ setting[g][k] # 0
      /\ saved' = [saved EXCEPT ![k] = setting[g][k]] \/ UNCHANGED saved
      /\ setting' = [setting EXCEPT ![g] = State!Unset]
      /\ UNCHANGED <<value, last, outlived, pending, batch, stopping, overlaps>>
  BY DEF StateInv, State!Persist
<1>2. \A h \in Goroutines, j \in Keys : setting'[h][j] = (IF h = g THEN 0 ELSE setting[h][j])
  BY <1>1 DEF Types, State!Unset
<1>3. /\ saved' \in [Keys -> Nat]
      /\ \A j \in Keys : saved'[j] = saved[j] \/ (j = k /\ saved'[j] = setting[g][k])
  BY <1>1 DEF Types
<1>4. Types'
  BY <1>1, <1>3 DEF Types, State!Unset
<1>5. Behind' /\ Places'
  BY <1>1, <1>2, <1>3 DEF Types, Behind, Places
<1>6. Overlapped'
  BY <1>1, <1>2 DEF Overlapped
<1>7. \A j \in Keys : j = k => pending[j] = 0 /\ batch["ticker"][j] = 0
  BY <1>1 DEF Places, State!Flushers
<1>8. ASSUME NEW j \in Keys, InOrder(j) PROVE InOrder(j)'
  <2>1. CASE j = k
    BY <1>1, <1>7, <2>1 DEF InOrder
  <2>2. CASE j # k
    <3>1. saved'[j] = saved[j]
      BY <1>3, <2>2
    <3> QED BY <1>1, <1>8, <3>1 DEF InOrder, MayFollow, State!Register!MayFollow
  <2> QED BY <2>1, <2>2
<1>9. State!Register!Save
  <2>1. State!Underway' \in [Keys -> SUBSET Nat] /\ \A j \in Keys : State!Underway'[j] \subseteq State!Underway[j]
    BY <1>1, Returns
  <2>2. ASSUME NEW j \in Keys, saved'[j] # saved[j]
        PROVE  saved'[j] \in State!Underway[j] /\ MayFollow(j, saved[j], saved'[j])
    <3>1. j = k /\ saved'[j] = setting[g][k]
      BY <1>3, <2>2
    <3>2. saved[k] \in Nat /\ saved[k] <= last[k]
      BY <1>1 DEF Types, Behind
    <3> QED BY <1>1, <3>1, <3>2, OverlapsAll, UnderwayOf
  <2> QED BY <1>1, <1>3, <2>1, <2>2 DEF State!Register!Save, MayFollow
<1> QED BY <1>1, <1>4, <1>5, <1>6, <1>8, <1>9 DEF StateInv

\* Flush takes what is pending: the ticker's only when its last batch is written.
LEMMA TakeStep ==
  ASSUME StateInv, State!Tick \/ State!Stop
  PROVE  StateInv' /\ (State!Register!Stop \/ UNCHANGED State!Register!vars)
<1>1. Types /\ Behind /\ Places /\ Overlapped
  BY DEF StateInv
<1>2. PICK f \in State!Flushers : State!Take(f) /\ (f = "ticker" \/ stopping')
  BY DEF State!Tick, State!Stop, State!Flushers
<1>3. /\ UNCHANGED <<value, last, setting, outlived, saved, overlaps>>
      /\ (stopping' = stopping \/ stopping') /\ stopping' \in BOOLEAN
      /\ batch' = [batch EXCEPT ![f] = pending] /\ pending' = State!Unset /\ batch[f] = State!Unset
  BY <1>1, <1>2 DEF State!Tick, State!Stop, State!Take, Types
<1>4. Types' /\ Places'
  BY <1>1, <1>2, <1>3 DEF Types, Places, State!Unset, State!Flushers
<1>a. \A h \in State!Flushers, k \in Keys : batch'[h][k] = (IF h = f THEN pending[k] ELSE batch[h][k])
  BY <1>1, <1>3 DEF Types
<1>b. \A k \in Keys : pending'[k] = 0 /\ value[k] \in Nat
  BY <1>1, <1>3 DEF Types, State!Unset
<1>c. Behind'
  BY <1>1, <1>3, <1>a, <1>b DEF Behind
<1>d. Overlapped'
  BY <1>1, <1>3 DEF Overlapped
<1>5. ASSUME ~stopping', NEW k \in Keys, InOrder(k) PROVE InOrder(k)'
  <2>1. batch'["ticker"][k] = pending[k] /\ pending'[k] = 0
    BY <1>2, <1>5, <1>a, <1>b DEF State!Flushers
  <2> QED BY <1>3, <1>5, <2>1 DEF InOrder, MayFollow, State!Register!MayFollow
<1>e. State!Underway' = State!Underway
  BY <1>3 DEF State!Underway
<1>6. State!Register!Stop \/ UNCHANGED State!Register!vars
  BY <1>3, <1>e DEF State!Tick, State!Stop, State!Register!Stop, State!Register!vars
<1>7. stopping => stopping'
  BY <1>1 DEF State!Tick, State!Stop, Types
<1> QED BY <1>4, <1>c, <1>d, <1>5, <1>6, <1>7 DEF StateInv

\* A batch is written while nothing that it may not follow is saved, or on the way down.
LEMMA WriteStep ==
  ASSUME StateInv, NEW f \in State!Flushers, State!Write(f)
  PROVE  StateInv' /\ State!Register!Save
<1>1. /\ Types /\ Behind /\ Places /\ Overlapped
      /\ batch[f] # State!Unset /\ batch' = [batch EXCEPT ![f] = State!Unset]
      /\ UNCHANGED <<value, last, setting, outlived, pending, stopping, overlaps>>
      /\ \/ saved' = [k \in Keys |-> IF batch[f][k] # 0 THEN batch[f][k] ELSE saved[k]]
         \/ UNCHANGED saved
  BY DEF StateInv, State!Write
<1>2. /\ saved' \in [Keys -> Nat]
      /\ \A k \in Keys : \/ saved'[k] = saved[k]
                         \/ batch[f][k] # 0 /\ saved'[k] = batch[f][k]
  BY <1>1 DEF Types
<1>a. \A h \in State!Flushers, k \in Keys : batch'[h][k] = (IF h = f THEN 0 ELSE batch[h][k])
  BY <1>1 DEF Types, State!Unset
<1>b. ASSUME NEW k \in Keys, saved'[k] # saved[k]
      PROVE  k \in Global /\ saved'[k] = batch[f][k] /\ batch[f][k] # 0 /\ saved'[k] <= value[k]
  <2>1. batch[f][k] # 0 /\ saved'[k] = batch[f][k]
    BY <1>2, <1>b
  <2>2. k \in Global
    BY <1>1, <2>1 DEF Places
  <2> QED BY <1>1, <2>1, <2>2 DEF Behind
<1>3. Types'
  BY <1>1, <1>2 DEF Types, State!Unset
<1>c. Places'
  BY <1>1, <1>a DEF Places, State!Unset, State!Flushers
<1>d. Behind'
  <2> SUFFICES ASSUME NEW k \in Keys
               PROVE  /\ value'[k] <= last'[k] /\ saved'[k] <= last'[k]
                      /\ \A g \in Goroutines : setting'[g][k] <= last'[k]
                      /\ k \in Global => /\ saved'[k] <= value'[k] /\ pending'[k] <= value'[k]
                                         /\ \A h \in State!Flushers : batch'[h][k] <= value'[k]
                                         /\ \A g \in Goroutines : setting'[g][k] <= value'[k]
    BY Zenon DEF Behind
  <2>1. value[k] \in Nat /\ last[k] \in Nat /\ saved'[k] \in Nat
    BY <1>1, <1>2 DEF Types
  <2>2. /\ value[k] <= last[k] /\ saved[k] <= last[k]
        /\ \A g \in Goroutines : setting[g][k] <= last[k]
        /\ k \in Global => /\ saved[k] <= value[k] /\ pending[k] <= value[k]
                           /\ \A h \in State!Flushers : batch[h][k] <= value[k]
                           /\ \A g \in Goroutines : setting[g][k] <= value[k]
    BY <1>1 DEF Behind
  <2>3. saved'[k] = saved[k] \/ saved'[k] <= value[k]
    BY <1>b
  <2>4. saved'[k] <= last[k] /\ (k \in Global => saved'[k] <= value[k])
    BY <2>1, <2>2, <2>3
  <2>5. k \in Global => \A h \in State!Flushers : batch'[h][k] <= value[k]
    BY <1>a, <2>1, <2>2
  <2> QED BY <1>1, <2>2, <2>4, <2>5
<1>e. Overlapped'
  BY <1>1 DEF Overlapped
<1>4. ~stopping => f = "ticker"
  BY <1>1 DEF Places, State!Flushers
<1>5. ASSUME ~stopping, NEW k \in Keys, InOrder(k)
      PROVE  InOrder(k)' /\ (saved'[k] # saved[k] => MayFollow(k, saved[k], saved'[k]))
  <2>1. f = "ticker" /\ batch'["ticker"][k] = 0 /\ UNCHANGED <<pending, overlaps>>
    BY <1>1, <1>4, <1>5, <1>a DEF State!Flushers
  <2>2. pending[k] \in Nat
    BY <1>1 DEF Types
  <2>3. MayFollow(k, 0, pending[k])
    BY <2>2 DEF MayFollow, State!Register!MayFollow
  <2>4. saved'[k] = saved[k] \/ (batch["ticker"][k] # 0 /\ saved'[k] = batch["ticker"][k])
    BY <1>2, <2>1
  <2>5. \A x, y : MayFollow(k, x, y)' <=> MayFollow(k, x, y)
    BY <2>1 DEF MayFollow, State!Register!MayFollow
  <2> QED BY <1>5, <2>1, <2>3, <2>4, <2>5 DEF InOrder
<1>f. State!Underway' = State!Underway /\ State!Underway' \in [Keys -> SUBSET Nat]
  <2>1. State!Underway' = State!Underway
    BY <1>1 DEF State!Underway
  <2> QED BY <1>1, <2>1, UnderwayType
<1>6. State!Register!Save
  <2>1. ASSUME NEW k \in Keys, saved'[k] # saved[k]
        PROVE  saved'[k] <= value[k] /\ (stopping \/ MayFollow(k, saved[k], saved'[k]))
    BY <1>b, <1>5, <2>1 DEF StateInv
  <2> QED BY <1>1, <1>2, <1>f, <2>1 DEF State!Register!Save, MayFollow
<1> QED BY <1>1, <1>3, <1>c, <1>d, <1>e, <1>5, <1>6 DEF StateInv

\* A player comes back, or an event of an ended connection ends.
LEMMA ReloadStep ==
  ASSUME StateInv, State!Reload \/ \E g \in Goroutines : State!Ends(g)
  PROVE  StateInv' /\ (State!Register!Reload \/ UNCHANGED State!Register!vars)
<1>1. /\ Types /\ Behind /\ Places /\ Overlapped
      /\ UNCHANGED <<last, setting, pending, batch, stopping, saved, overlaps>>
      /\ outlived' \in SUBSET Goroutines
      /\ \/ value' = [k \in Keys |-> IF k \in Global THEN value[k] ELSE saved[k]]
         \/ UNCHANGED value
  BY DEF StateInv, Types, State!Reload, State!Ends
<1>2. \A k \in Keys : value'[k] = value[k] \/ (k \notin Global /\ value'[k] = saved[k])
  BY <1>1 DEF Types
<1>3. Types'
  BY <1>1 DEF Types
<1>4. Behind'
  BY <1>1, <1>2 DEF Behind
<1>5. Places' /\ Overlapped'
  BY <1>1 DEF Places, Overlapped, State!Unset
<1>6. ASSUME NEW k \in Keys, InOrder(k) PROVE InOrder(k)'
  BY <1>1, <1>6, StaysInOrder
<1>7. State!Underway' = State!Underway
  BY <1>1 DEF State!Underway
<1>8. State!Register!Reload \/ UNCHANGED State!Register!vars
  BY <1>1, <1>7 DEF State!Register!Reload, State!Register!vars
<1> QED BY <1>1, <1>3, <1>4, <1>5, <1>6, <1>8 DEF StateInv

LEMMA RestartStep == ASSUME StateInv, State!Restart PROVE StateInv' /\ State!Register!Restart
<1>2. /\ Types /\ Behind /\ value' = saved /\ stopping' = FALSE /\ outlived' = {}
      /\ UNCHANGED <<last, saved, overlaps>>
      /\ \A k \in Keys : pending'[k] = 0 /\ \A f \in State!Flushers : batch'[f][k] = 0
      /\ \A k \in Keys, g \in Goroutines : setting'[g][k] = 0
      /\ batch'["stop"] = State!Unset
  BY DEF State!Restart, StateInv, State!Unset, State!Flushers
<1>a. State!Underway' = [k \in Keys |-> {}]
  BY <1>2 DEF State!Underway
<1>1. State!Register!Restart
  BY <1>2, <1>a DEF State!Register!Restart
<1>3. Types'
  BY <1>2 DEF State!Restart, Types, State!Unset
<1>4. \A k \in Keys : saved[k] \in Nat /\ last[k] \in Nat /\ saved[k] <= last[k]
  BY <1>2 DEF Types, Behind
<1>5. Behind'
  BY <1>2, <1>4 DEF Behind
<1>b. batch'["stop"] = State!Unset'
  BY <1>2 DEF State!Unset
<1>6. Places' /\ Overlapped' /\ \A k \in Keys : InOrder(k)'
  BY <1>2, <1>b DEF Places, Overlapped, InOrder, State!Flushers
<1> QED BY <1>1, <1>3, <1>5, <1>6 DEF StateInv

LEMMA StateStep ==
  ASSUME StateInv, [State!Next]_(State!stateVars)
  PROVE  StateInv' /\ [State!Register!Next]_(State!Register!vars)
<1>1. ASSUME NEW g \in Goroutines, NEW k \in Keys, State!Set(g, k)
      PROVE  StateInv' /\ State!Register!Next
  BY <1>1, SetStep DEF State!Register!Next
<1>2. ASSUME NEW g \in Goroutines, NEW k \in Keys, State!QueueChange(g, k)
      PROVE  StateInv' /\ State!Register!Next
  BY <1>2, QueueStep DEF State!Register!Next
<1>3. ASSUME NEW g \in Goroutines, NEW k \in Keys, State!Persist(g, k)
      PROVE  StateInv' /\ State!Register!Next
  BY <1>3, PersistStep DEF State!Register!Next
<1>4. ASSUME NEW f \in State!Flushers, State!Write(f)
      PROVE  StateInv' /\ State!Register!Next
  BY <1>4, WriteStep DEF State!Register!Next
<1>5. ASSUME State!Tick \/ State!Stop
      PROVE  StateInv' /\ (State!Register!Next \/ UNCHANGED State!Register!vars)
  BY <1>5, TakeStep DEF State!Register!Next
<1>6. CASE State!Restart
  BY <1>6, RestartStep DEF State!Register!Next
<1>8. ASSUME State!Reload \/ \E g \in Goroutines : State!Ends(g)
      PROVE  StateInv' /\ (State!Register!Next \/ UNCHANGED State!Register!vars)
  BY <1>8, ReloadStep DEF State!Register!Next
<1>7. CASE UNCHANGED State!stateVars
  <2>1. UNCHANGED <<value, last, setting, outlived, pending, batch, stopping, saved, overlaps>>
    BY <1>7 DEF State!stateVars
  <2>2. State!Underway' = State!Underway
    BY <2>1 DEF State!Underway
  <2>3. Types' /\ Behind' /\ Places' /\ Overlapped'
    BY <2>1 DEF StateInv, Types, Behind, Places, Overlapped, State!Unset
  <2>4. \A k \in Keys : InOrder(k) => InOrder(k)'
    BY <2>1, StaysInOrder
  <2> QED BY <2>1, <2>2, <2>3, <2>4 DEF State!Register!vars, StateInv
<1> QED BY <1>1, <1>2, <1>3, <1>4, <1>5, <1>6, <1>7, <1>8 DEF State!Next

\* Nothing is newer than the sets that were counted.
Counted == \A k \in Keys : last[k] <= MaxSets /\ overlaps[k] \subseteq (1..MaxSets) \X (1..MaxSets)

LEMMA CountedStep ==
  ASSUME MaxSets \in Nat, StateInv, Counted, [State!Next]_(State!stateVars)
  PROVE  Counted'
<1>1. Types /\ Behind
  BY DEF StateInv
<1>2. ASSUME NEW g \in Goroutines, NEW k \in Keys, State!Set(g, k) PROVE Counted'
  <2>1. /\ last[k] < MaxSets /\ last' = [last EXCEPT ![k] = last[k] + 1]
        /\ overlaps' = [overlaps EXCEPT ![k] = overlaps[k] \union (State!Underway[k] \X {last'[k]})]
    BY <1>2 DEF State!Set
  <2>2. last'[k] = last[k] + 1 /\ last[k] \in Nat /\ last'[k] \in 1..MaxSets
    BY <1>1, <2>1 DEF Types
  <2>3. State!Underway[k] \subseteq 1..MaxSets
    <3> SUFFICES ASSUME NEW y \in State!Underway[k] PROVE y \in 1..MaxSets
      OBVIOUS
    <3>1. PICK h \in Goroutines : y = setting[h][k] /\ y # 0
      BY UnderwayOf
    <3>2. y \in Nat /\ y <= last[k]
      BY <1>1, <3>1 DEF Types, Behind
    <3> QED BY <2>1, <2>2, <3>1, <3>2
  <2>4. State!Underway[k] \X {last'[k]} \subseteq (1..MaxSets) \X (1..MaxSets)
    BY <2>2, <2>3
  <2>5. ASSUME NEW j \in Keys
        PROVE  last'[j] <= MaxSets /\ overlaps'[j] \subseteq (1..MaxSets) \X (1..MaxSets)
    <3>1. CASE j = k
      <4>1. overlaps'[j] = overlaps[j] \union (State!Underway[k] \X {last'[k]})
        BY <1>1, <2>1, <3>1 DEF Types
      <4> QED BY <2>2, <2>4, <3>1, <4>1 DEF Counted
    <3>2. CASE j # k
      <4>1. overlaps'[j] = overlaps[j] /\ last'[j] = last[j]
        BY <1>1, <2>1, <3>2 DEF Types
      <4> QED BY <4>1 DEF Counted
    <3> QED BY <3>1, <3>2
  <2> QED BY <2>5 DEF Counted
<1>3. CASE UNCHANGED <<last, overlaps>>
  BY <1>3 DEF Counted
<1>4. ASSUME NEW g \in Goroutines, NEW k \in Keys, State!QueueChange(g, k) \/ State!Persist(g, k)
      PROVE  UNCHANGED <<last, overlaps>>
  BY <1>4 DEF State!QueueChange, State!Persist
<1>5. ASSUME \/ \E f \in State!Flushers : State!Write(f)
             \/ State!Tick \/ State!Stop \/ State!Reload \/ State!Restart
             \/ \E g \in Goroutines : State!Ends(g)
             \/ UNCHANGED State!stateVars
      PROVE  UNCHANGED <<last, overlaps>>
  BY <1>5 DEF State!Write, State!Tick, State!Stop, State!Reload, State!Restart, State!Ends, State!stateVars
<1> QED BY <1>2, <1>3, <1>4, <1>5 DEF State!Next

LEMMA StateTyped ==
  ASSUME MaxSets \in Nat, StateInv, Counted
  PROVE  State!TypeOK
<1>1. Types /\ Behind /\ Places
  BY DEF StateInv
<1>2. ASSUME NEW k \in Keys
      PROVE  /\ value[k] \in 0..MaxSets /\ last[k] \in 0..MaxSets /\ saved[k] \in 0..MaxSets
             /\ pending[k] \in 0..MaxSets
             /\ \A g \in Goroutines : setting[g][k] \in 0..MaxSets
             /\ \A f \in State!Flushers : batch[f][k] \in 0..MaxSets
             /\ overlaps[k] \in SUBSET ((1..MaxSets) \X (1..MaxSets))
  <2>1. /\ value[k] \in Nat /\ last[k] \in Nat /\ saved[k] \in Nat /\ pending[k] \in Nat
        /\ \A g \in Goroutines : setting[g][k] \in Nat
        /\ \A f \in State!Flushers : batch[f][k] \in Nat
    BY <1>1 DEF Types
  <2>2. last[k] <= MaxSets /\ overlaps[k] \subseteq (1..MaxSets) \X (1..MaxSets)
    BY DEF Counted
  <2>3. /\ value[k] <= last[k] /\ saved[k] <= last[k]
        /\ \A g \in Goroutines : setting[g][k] <= last[k]
    BY <1>1 DEF Behind
  <2>4. pending[k] <= last[k] /\ \A f \in State!Flushers : batch[f][k] <= last[k]
    <3>1. CASE k \in Global
      <4>1. pending[k] <= value[k] /\ \A f \in State!Flushers : batch[f][k] <= value[k]
        BY <1>1, <3>1 DEF Behind
      <4> QED BY <2>1, <2>3, <4>1
    <3>2. CASE k \notin Global
      BY <1>1, <2>1, <3>2 DEF Places
    <3> QED BY <3>1, <3>2
  <2> QED BY <2>1, <2>2, <2>3, <2>4
<1> QED BY <1>1, <1>2 DEF Types, State!TypeOK

-----------------------------------------------------------------------------
(* The register *)

\* Whichever goroutines set a key, no failed write, stop, crash or return of a player
\* brings back an older value than the database has had - except of two sets of which one
\* began before the other had returned, and on the way down -, and nothing is saved that
\* the memory has forgotten: the game state is a register that comes back as it was saved.
THEOREM ImplementsRegister == State!Spec => State!Durable
<1>1. State!Init => StateInv /\ State!Register!Init
  <2>1. State!Init => State!Underway = [k \in Keys |-> {}]
    BY DEF State!Init, State!Unset, State!Underway
  <2> QED BY <2>1, StateInit DEF State!Init, State!Unset, State!Register!Init
<1>2. StateInv /\ [State!Next]_(State!stateVars) => StateInv' /\ [State!Register!Next]_(State!Register!vars)
  BY StateStep
<1> QED BY <1>1, <1>2, PTL DEF State!Spec, State!Durable, State!Register!Spec
===============================================================================
