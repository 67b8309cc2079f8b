---------------------------- MODULE WindowsProofs ----------------------------
(***************************************************************************)
(* What the player's windows promise, beside one another and for every     *)
(* value of the constants. Each part has an invariant of its own, kept by  *)
(* its steps and untouched by the others'; what GameState and Party        *)
(* promise is taken from KeptProofs.                                       *)
(***************************************************************************)
EXTENDS MCWindows, FiniteSetTheorems, WellFoundedInduction, TLAPS

-----------------------------------------------------------------------------
(* Party, and GameState as the run instantiates it *)

KeptP == INSTANCE KeptProofs WITH
  Keys <- {k1, k2}, Global <- {k1}, Goroutines <- {g1, g2}, MayFail <- TRUE

\* The steps of the other parts leave it alone.
LEMMA StateSteps == [MCNext]_<<part, i, s, t, m, p, c, x, g, v, f, l>>
                      => [KeptP!State!Next]_(KeptP!State!stateVars)
<1>1. MCNext => State!Next \/ UNCHANGED g
  BY DEF MCNext
<1>2. State!Next => KeptP!State!Next
  BY DEF State!Next, KeptP!State!Next, State!Set, KeptP!State!Set,
         State!QueueChange, KeptP!State!QueueChange, State!Persist, KeptP!State!Persist,
         State!Write, KeptP!State!Write, State!Tick, KeptP!State!Tick, State!Stop, KeptP!State!Stop,
         State!Restart, KeptP!State!Restart, State!Take, KeptP!State!Take,
         State!Reload, KeptP!State!Reload, State!Ends, KeptP!State!Ends,
         State!Underway, KeptP!State!Underway, State!Unset, KeptP!State!Unset, State!Flushers, KeptP!State!Flushers
<1>3. UNCHANGED g => UNCHANGED KeptP!State!stateVars
  BY DEF g, KeptP!State!stateVars
<1> QED BY <1>1, <1>2, <1>3

\* Beside the other windows too, no batch, failed write, stop, crash or return of a player
\* brings back an older value of a switch or a variable than the database has had, except
\* of two sets that overlapped, and on the way down.
THEOREM WindowsDurable == MCSpec => Durable
<1>1. MCInit => KeptP!State!Init
  BY DEF MCInit, State!Init, KeptP!State!Init, State!Unset, KeptP!State!Unset,
         State!Flushers, KeptP!State!Flushers
<1>2. KeptP!State!Spec => KeptP!State!Durable
  BY KeptP!ImplementsRegister
<1>4. State!Underway = KeptP!State!Underway
  BY DEF State!Underway, KeptP!State!Underway
<1>3. KeptP!State!Durable => Durable
  <2>1. KeptP!State!Register!Init => State!Register!Init
    BY <1>4 DEF KeptP!State!Register!Init, State!Register!Init
  <2>2. [KeptP!State!Register!Next]_(KeptP!State!Register!vars) => [State!Register!Next]_(State!Register!vars)
    BY DEF KeptP!State!Register!Next, State!Register!Next, KeptP!State!Register!vars, State!Register!vars,
           KeptP!State!Register!Set, State!Register!Set, KeptP!State!Register!Save, State!Register!Save,
           KeptP!State!Register!Stop, State!Register!Stop, KeptP!State!Register!Restart, State!Register!Restart,
           KeptP!State!Register!Reload, State!Register!Reload,
           KeptP!State!Register!MayFollow, State!Register!MayFollow,
           State!Underway, KeptP!State!Underway
  <2> QED BY <2>1, <2>2, PTL DEF Durable, State!Durable, KeptP!State!Durable,
                                   KeptP!State!Register!Spec, State!Register!Spec
<1> QED BY <1>1, <1>2, <1>3, StateSteps, PTL DEF MCSpec, KeptP!State!Spec

-----------------------------------------------------------------------------
(* Friendships *)

\* The requests that have read a row of the table.
Reading == {u \in People : doing[u].op \in {"accept", "block"}}

\* The rows of the table, and those that were read from it and may be saved again.
RowsSeen == friendships \union {doing[u].row : u \in Reading}

FriendRow == [id : Nat, of : People, to : People, status : 0..2]

\* A row keeps its two players for life, also while a request holds a copy of it: no
\* id is given twice.
RowsKept ==
  /\ ids \in Nat /\ RowsSeen \subseteq FriendRow
  /\ \A r \in RowsSeen : r.id <= ids
  /\ \A q, r \in RowsSeen : q.id = r.id => q.of = r.of /\ q.to = r.to

\* Who accepts is who was asked.
RowsRead ==
  /\ doing \in [People -> [op : {"idle"}, row : {NoRow}]
                   \union [op : {"accept", "block"}, row : FriendRow]
                   \union [op : {"create"}, row : [id : {MaxFriendships}, of : People, to : People,
                                                  status : {Ties!Blocked}]]]
  /\ \A u \in People : doing[u].op = "accept" => doing[u].row.to = u

TiesInv == RowsKept /\ RowsRead /\ Ties!Mutual

LEMMA TiesInitial == Ties!Init => TiesInv
<1> SUFFICES ASSUME Ties!Init PROVE TiesInv
  OBVIOUS
<1>1. friendships = {} /\ ids = 0 /\ doing = [u \in People |-> [op |-> "idle", row |-> NoRow]]
  BY DEF Ties!Init, Ties!Idle
<1>2. Reading = {} /\ RowsSeen = {}
  BY <1>1 DEF Reading, RowsSeen
<1> QED BY <1>1, <1>2 DEF TiesInv, RowsKept, RowsRead, Ties!Mutual

\* What is seen after a step, where the requests read what was in the table.
LEMMA TiesSend ==
  ASSUME TiesInv, NEW u \in People, NEW w \in People, Ties!SendFriendRequest(u, w)
  PROVE  TiesInv'
<1> DEFINE n == [id |-> ids + 1, of |-> u, to |-> w, status |-> 0]
<1>1. /\ ids' = ids + 1 /\ friendships' = friendships \union {n} /\ doing' = doing
  BY DEF Ties!SendFriendRequest, Ties!Pending
<1>2. RowsSeen' = RowsSeen \union {n} /\ n \in FriendRow /\ n.id = ids + 1 /\ ids \in Nat
  BY <1>1 DEF RowsSeen, Reading, TiesInv, RowsKept, RowsRead, FriendRow
<1>3. RowsKept' /\ RowsRead'
  BY <1>1, <1>2 DEF TiesInv, RowsKept, RowsRead, FriendRow
<1>4. Ties!Mutual'
  BY <1>1 DEF TiesInv, Ties!Mutual, Ties!Accepted
<1> QED BY <1>3, <1>4 DEF TiesInv

LEMMA TiesDelete ==
  ASSUME TiesInv, NEW u \in People, NEW w \in People, Ties!DeleteFriend(u, w)
  PROVE  TiesInv'
<1>1. /\ ids' = ids /\ friendships' = {r \in friendships : {r.of, r.to} # {u, w}}
      /\ doing' = doing
  BY DEF Ties!DeleteFriend
<1>2. RowsSeen' \subseteq RowsSeen
  BY <1>1 DEF RowsSeen, Reading
<1>3. RowsKept' /\ RowsRead'
  BY <1>1, <1>2 DEF TiesInv, RowsKept, RowsRead
<1>4. Ties!Mutual'
  BY <1>1 DEF TiesInv, Ties!Mutual
<1> QED BY <1>3, <1>4 DEF TiesInv

LEMMA TiesFind ==
  ASSUME TiesInv, NEW u \in People,
         \/ \E r \in friendships : Ties!FindRequest(u, r)
         \/ \E w \in People : Ties!FindRow(u, w)
  PROVE  TiesInv'
<1>1. /\ ids' = ids /\ friendships' = friendships
      /\ \/ \E r \in friendships : /\ doing' = [doing EXCEPT ![u] = [op |-> "accept", row |-> r]]
                                    /\ r.to = u
         \/ \E r \in friendships : doing' = [doing EXCEPT ![u] = [op |-> "block", row |-> r]]
         \/ \E w \in People :
               doing' = [doing EXCEPT ![u] = [op |-> "create", row |->
                           [id |-> MaxFriendships, of |-> u, to |-> w, status |-> Ties!Blocked]]]
  BY DEF Ties!FindRequest, Ties!FindRow
<1>2. friendships \subseteq FriendRow
  BY DEF TiesInv, RowsKept, RowsSeen
<1>3. RowsSeen' \subseteq RowsSeen
  BY <1>1 DEF RowsSeen, Reading, TiesInv, RowsKept, RowsRead
<1>4. RowsKept' /\ RowsRead'
  BY <1>1, <1>2, <1>3 DEF TiesInv, RowsKept, RowsRead
<1>5. Ties!Mutual'
  BY <1>1 DEF TiesInv, Ties!Mutual
<1> QED BY <1>4, <1>5 DEF TiesInv

\* A row that was read is saved with another status: it stands for the one of its id.
LEMMA SavedAgain ==
  ASSUME TiesInv, NEW u \in Reading, NEW h \in 1..2, NEW r,
         r = [doing[u].row EXCEPT !.status = h]
  PROVE  /\ r \in FriendRow /\ r.id = doing[u].row.id /\ r.of = doing[u].row.of
         /\ r.to = doing[u].row.to /\ r.status = h
         /\ \A q \in friendships : q \in Ties!Saved(r) \/ (q.of = r.of /\ q.to = r.to)
         /\ Ties!Saved(r) \subseteq friendships \union {r} /\ r \in Ties!Saved(r)
BY DEF TiesInv, RowsKept, RowsRead, RowsSeen, Reading, FriendRow, Ties!Saved

LEMMA TiesAccept ==
  ASSUME TiesInv, NEW u \in People, Ties!Accept(u)
  PROVE  TiesInv'
<1> DEFINE r == [doing[u].row EXCEPT !.status = Ties!Accepted]
           n == [id |-> ids + 1, of |-> u, to |-> r.of, status |-> Ties!Accepted]
<1>1. /\ u \in Reading /\ doing[u].op = "accept"
      /\ doing' = [doing EXCEPT ![u] = [op |-> "idle", row |-> NoRow]]
      /\ \/ ids' = ids + 1 /\ friendships' = Ties!Saved(r) \union {n}
         \/ UNCHANGED <<ids, friendships>>
  BY DEF Ties!Accept, Ties!Idle, Reading, TiesInv, RowsKept, RowsRead, FriendRow
<1>2. /\ r \in FriendRow /\ r.id = doing[u].row.id /\ r.of = doing[u].row.of
      /\ r.to = u /\ r.status = 1
      /\ \A q \in friendships : q \in Ties!Saved(r) \/ (q.of = r.of /\ q.to = r.to)
      /\ Ties!Saved(r) \subseteq friendships \union {r} /\ r \in Ties!Saved(r)
  BY <1>1, SavedAgain DEF TiesInv, RowsKept, RowsRead, Ties!Accepted
<1>3. n \in FriendRow /\ n.id = ids + 1 /\ n.of = u /\ n.to = r.of /\ n.status = 1 /\ ids \in Nat
  BY <1>2 DEF TiesInv, RowsKept, RowsRead, Ties!Accepted, FriendRow
<1> HIDE DEF r, n
<1>4. RowsSeen' \subseteq RowsSeen \union {r, n} /\ (ids' = ids => RowsSeen' \subseteq RowsSeen)
  BY <1>1, <1>2, <1>3 DEF RowsSeen, Reading, TiesInv, RowsKept, RowsRead
<1>5. doing[u].row \in RowsSeen
  BY <1>1 DEF RowsSeen, Reading
<1>6. RowsKept'
  <2>1. /\ ids \in Nat /\ RowsSeen \subseteq FriendRow
        /\ \A q \in RowsSeen : q.id <= ids
        /\ \A q, e \in RowsSeen : q.id = e.id => q.of = e.of /\ q.to = e.to
    BY DEF TiesInv, RowsKept
  <2>2. CASE ids' = ids
    BY <1>4, <2>1, <2>2 DEF RowsKept
  <2>3. CASE ids' = ids + 1
    <3>1. \A q \in RowsSeen' : /\ q \in FriendRow /\ (q \in RowsSeen \/ q = r \/ q = n)
                               /\ q.id \in Nat
      BY <1>2, <1>3, <1>4, <2>1 DEF FriendRow
    <3>2. \A q \in RowsSeen' : q # n => q.id <= ids
      BY <1>2, <1>5, <2>1, <3>1
    <3>3. ASSUME NEW q \in RowsSeen', NEW e \in RowsSeen', q.id = e.id, q # n, e # n
          PROVE  q.of = e.of /\ q.to = e.to
      <4>1. (q \in RowsSeen \/ q = r) /\ (e \in RowsSeen \/ e = r)
        BY <3>1, <3>3
      <4>2. r.to = doing[u].row.to
        BY <1>1, <1>2 DEF TiesInv, RowsRead
      <4> QED BY <1>2, <1>5, <2>1, <3>3, <4>1, <4>2
    <3>4. ASSUME NEW q \in RowsSeen', q # n PROVE q.id # n.id
      BY <1>3, <3>1, <3>2, <3>4
    <3>5. (\A q, e \in RowsSeen : q.id = e.id => q.of = e.of /\ q.to = e.to)'
      BY <3>3, <3>4
    <3> QED BY <1>3, <2>3, <3>1, <3>2, <3>5 DEF RowsKept
  <2> QED BY <1>1, <2>2, <2>3
<1>8. RowsRead'
  BY <1>1 DEF TiesInv, RowsRead
<1>7. Ties!Mutual'
  BY <1>1, <1>2, <1>3 DEF TiesInv, Ties!Mutual, Ties!Accepted
<1> QED BY <1>6, <1>7, <1>8 DEF TiesInv

LEMMA TiesBlock ==
  ASSUME TiesInv, NEW u \in People, Ties!Block(u)
  PROVE  TiesInv'
<1>1. CASE doing[u].op = "block"
  <2> DEFINE r == [doing[u].row EXCEPT !.status = Ties!Blocked]
  <2>1. /\ u \in Reading /\ ids' = ids /\ friendships' = Ties!Saved(r)
        /\ doing' = [doing EXCEPT ![u] = [op |-> "idle", row |-> NoRow]]
    BY <1>1 DEF Ties!Block, Ties!Idle, Reading
  <2>2. /\ r \in FriendRow /\ r.id = doing[u].row.id /\ r.of = doing[u].row.of
        /\ r.to = doing[u].row.to /\ r.status = 2
        /\ \A q \in friendships : q \in Ties!Saved(r) \/ (q.of = r.of /\ q.to = r.to)
        /\ Ties!Saved(r) \subseteq friendships \union {r} /\ r \in Ties!Saved(r)
    BY <2>1, SavedAgain DEF Ties!Blocked
  <2> HIDE DEF r
  <2>3. RowsSeen' \subseteq RowsSeen \union {r}
    BY <2>1, <2>2 DEF RowsSeen, Reading, TiesInv, RowsKept, RowsRead
  <2>4. doing[u].row \in RowsSeen
    BY <2>1 DEF RowsSeen, Reading
  <2>5. RowsKept'
    BY <2>1, <2>2, <2>3, <2>4 DEF TiesInv, RowsKept
  <2>7. RowsRead'
    BY <2>1 DEF TiesInv, RowsRead
  <2>6. Ties!Mutual'
    BY <2>1, <2>2 DEF TiesInv, Ties!Mutual, Ties!Accepted, Ties!Blocked
  <2> QED BY <2>5, <2>6, <2>7 DEF TiesInv
<1>2. CASE doing[u].op = "create"
  <2> DEFINE n == [doing[u].row EXCEPT !.id = ids + 1]
  <2>1. /\ ids' = ids + 1 /\ friendships' = friendships \union {n}
        /\ doing' = [doing EXCEPT ![u] = [op |-> "idle", row |-> NoRow]]
    BY <1>2 DEF Ties!Block, Ties!Idle
  <2>2. n \in FriendRow /\ n.id = ids + 1 /\ n.status = 2 /\ ids \in Nat
    BY <1>2 DEF TiesInv, RowsKept, RowsRead, FriendRow, Ties!Blocked
  <2> HIDE DEF n
  <2>3. RowsSeen' \subseteq RowsSeen \union {n}
    BY <2>1 DEF RowsSeen, Reading, TiesInv, RowsKept, RowsRead
  <2>4. RowsKept'
    <3>1. /\ RowsSeen \subseteq FriendRow /\ \A q \in RowsSeen : q.id <= ids
          /\ \A q, e \in RowsSeen : q.id = e.id => q.of = e.of /\ q.to = e.to
      BY DEF TiesInv, RowsKept
    <3>2. \A q \in RowsSeen' : q \in FriendRow /\ q.id \in Nat /\ (q \in RowsSeen \/ q = n)
      BY <2>2, <2>3, <3>1 DEF FriendRow
    <3>3. \A q \in RowsSeen : q.id < n.id
      BY <2>2, <3>1 DEF FriendRow
    <3> QED BY <2>1, <2>2, <3>1, <3>2, <3>3 DEF RowsKept
  <2>6. RowsRead'
    BY <2>1 DEF TiesInv, RowsRead
  <2>5. Ties!Mutual'
    BY <2>1, <2>2 DEF TiesInv, Ties!Mutual, Ties!Accepted
  <2> QED BY <2>4, <2>5, <2>6 DEF TiesInv
<1> QED BY <1>1, <1>2 DEF Ties!Block

LEMMA TiesStep == TiesInv /\ [Ties!Next]_f => TiesInv'
<1> SUFFICES ASSUME TiesInv, [Ties!Next]_f PROVE TiesInv'
  OBVIOUS
<1>1. CASE UNCHANGED f
  BY <1>1 DEF f, TiesInv, RowsKept, RowsRead, RowsSeen, Reading, Ties!Mutual
<1>2. CASE Ties!Next
  BY <1>2, TiesSend, TiesDelete, TiesFind, TiesAccept, TiesBlock DEF Ties!Next
<1> QED BY <1>1, <1>2

-----------------------------------------------------------------------------
(* Ties *)


LEMMA PartySteps == [MCNext]_<<part, i, s, t, m, p, c, x, g, v, f, l>> => [KeptP!Next]_(KeptP!partyVars)
<1>1. MCNext => PartyOf!Next \/ UNCHANGED p
  BY Zenon DEF MCNext
<1>2. PartyOf!Next => KeptP!Next
  BY DEF PartyOf!Next, KeptP!Next, PartyOf!InvitePlayer, KeptP!InvitePlayer,
         PartyOf!HandleInviteResponse, KeptP!HandleInviteResponse, PartyOf!AcceptInvite,
         KeptP!AcceptInvite, PartyOf!HandleLeave, KeptP!HandleLeave, PartyOf!Leave, KeptP!Leave,
         PartyOf!BroadcastUpdate, KeptP!BroadcastUpdate, PartyOf!Disconnect, KeptP!Disconnect,
         PartyOf!CleanupInvites, KeptP!CleanupInvites, PartyOf!Told, KeptP!Told,
         PartyOf!OnInviteRequest, KeptP!OnInviteRequest, PartyOf!Respond, KeptP!Respond,
         PartyOf!OnPartyUpdate, KeptP!OnPartyUpdate, PartyOf!ChangeScene, KeptP!ChangeScene,
         PartyOf!Online, KeptP!Online, PartyOf!Free, KeptP!Free, PartyOf!manager, KeptP!manager,
         PartyOf!client, KeptP!client, PartyOf!Pids, KeptP!Pids, PartyOf!NoAnswer, KeptP!NoAnswer
<1>3. UNCHANGED p => UNCHANGED KeptP!partyVars
  BY DEF p, KeptP!partyVars
<1> QED BY <1>1, <1>2, <1>3

LEMMA TiesSteps == [MCNext]_<<part, i, s, t, m, p, c, x, g, v, f, l>> => [Ties!Next]_f
BY DEF MCNext

\* The index of a player and the panel agree with the parties, and whom somebody has for
\* a friend has them for a friend or has blocked them: beside the other windows too.
THEOREM TiesAgreeAlways == MCSpec => []TiesAgree
<1>1. MCInit => KeptP!PartyInv /\ TiesInv
  <2>1. PartyOf!Init => KeptP!Init
    BY DEF PartyOf!Init, KeptP!Init, PartyOf!Pids, KeptP!Pids, PartyOf!NoAnswer, KeptP!NoAnswer
  <2> QED BY <2>1, KeptP!PartyInit, TiesInitial, ConstantsAssumption DEF MCInit
<1>2. /\ KeptP!PartyInv /\ [KeptP!Next]_(KeptP!partyVars) => KeptP!PartyInv'
      /\ TiesInv /\ [Ties!Next]_f => TiesInv'
  BY KeptP!PartyStep, TiesStep, ConstantsAssumption
<1>3. KeptP!PartyInv /\ TiesInv => TiesAgree
  <2>1. KeptP!IndexValid /\ KeptP!PanelHonest => PartyOf!IndexValid /\ PartyOf!PanelHonest
    BY DEF KeptP!IndexValid, KeptP!PanelHonest, PartyOf!IndexValid, PartyOf!PanelHonest,
           KeptP!PartiesOf, PartyOf!PartiesOf, KeptP!Pids, PartyOf!Pids
  <2> QED BY <2>1, KeptP!PartyProperties, ConstantsAssumption DEF TiesAgree, TiesInv
<1> QED BY <1>1, <1>2, <1>3, PartySteps, TiesSteps, PTL DEF MCSpec

-----------------------------------------------------------------------------
(* Chat *)

ChatMessage ==
  [ch : ChatOf!Channels, from : Clients, n : Nat, by : Rooms \union {Directly}]

\* Of one sender, the first was sent before the second, or has overtaken it.
Earlier(a, b) == ChatOf!MayPrecede(a, b)

In(q) == {q[j] : j \in 1..Len(q)}

Ordered(q) == \A j, k \in 1..Len(q) : j < k => Earlier(q[j], q[k])

LEMMA ChatAppend ==
  ASSUME NEW M, NEW q \in Seq(M), NEW e \in M
  PROVE  /\ Append(q, e) \in Seq(M) /\ In(Append(q, e)) = In(q) \union {e}
         /\ Ordered(q) /\ (\A a \in In(q) : Earlier(a, e)) => Ordered(Append(q, e))
<1>1. /\ Append(q, e) \in Seq(M) /\ Len(q) \in Nat
      /\ Len(Append(q, e)) = Len(q) + 1 /\ Append(q, e)[Len(q) + 1] = e
      /\ \A j \in 1..Len(q) : Append(q, e)[j] = q[j]
  OBVIOUS
<1>2. \A j \in 1..Len(q) + 1 : j \in 1..Len(q) \/ j = Len(q) + 1
  BY <1>1
<1>3. In(Append(q, e)) = In(q) \union {e}
  BY <1>1, <1>2 DEF In
<1>4. ASSUME Ordered(q), \A a \in In(q) : Earlier(a, e),
             NEW j \in 1..Len(q) + 1, NEW k \in 1..Len(q) + 1, j < k
      PROVE  Earlier(Append(q, e)[j], Append(q, e)[k])
  <2>1. j \in 1..Len(q) /\ Append(q, e)[j] = q[j] /\ q[j] \in In(q)
    BY <1>1, <1>4 DEF In
  <2>2. CASE k \in 1..Len(q)
    BY <1>1, <1>4, <2>1, <2>2 DEF Ordered
  <2>3. CASE k = Len(q) + 1
    BY <1>1, <1>4, <2>1, <2>3
  <2> QED BY <1>2, <2>2, <2>3
<1>5. Ordered(q) /\ (\A a \in In(q) : Earlier(a, e)) => Ordered(Append(q, e))
  BY <1>1, <1>4 DEF Ordered
<1> QED BY <1>1, <1>3, <1>5

LEMMA ChatTail ==
  ASSUME NEW M, NEW q \in Seq(M), q # <<>>
  PROVE  /\ Head(q) \in M /\ Head(q) \in In(q) /\ Tail(q) \in Seq(M) /\ In(Tail(q)) \subseteq In(q)
         /\ Ordered(q) => Ordered(Tail(q)) /\ \A a \in In(Tail(q)) : Earlier(Head(q), a)
<1>1. /\ Len(q) \in Nat /\ Len(q) >= 1 /\ Head(q) = q[1] /\ q[1] \in M /\ Tail(q) \in Seq(M)
      /\ Len(Tail(q)) = Len(q) - 1 /\ \A j \in 1..Len(Tail(q)) : Tail(q)[j] = q[j + 1]
  OBVIOUS
<1>2. \A j \in 1..Len(Tail(q)) : j + 1 \in 1..Len(q) /\ 1 < j + 1 /\ 1 \in 1..Len(q)
  BY <1>1
<1>3. Head(q) \in In(q) /\ In(Tail(q)) \subseteq In(q)
  BY <1>1, <1>2 DEF In
<1>4. ASSUME Ordered(q) PROVE \A a \in In(Tail(q)) : Earlier(Head(q), a)
  BY <1>1, <1>2, <1>4 DEF In, Ordered
<1>5. ASSUME Ordered(q), NEW j \in 1..Len(Tail(q)), NEW k \in 1..Len(Tail(q)), j < k
      PROVE  Earlier(Tail(q)[j], Tail(q)[k])
  <2>1. j + 1 \in 1..Len(q) /\ k + 1 \in 1..Len(q) /\ j + 1 < k + 1
    BY <1>1, <1>5
  <2> QED BY <1>1, <1>5, <2>1 DEF Ordered
<1>6. Ordered(q) => Ordered(Tail(q))
  BY <1>5 DEF Ordered
<1> QED BY <1>1, <1>3, <1>4, <1>6

\* A full history drops its oldest message only.
LEMMA ChatKept ==
  ASSUME NEW q \in Seq(ChatMessage), NEW e \in ChatMessage
  PROVE  /\ ChatOf!Kept(q, e) \in Seq(ChatMessage)
         /\ In(ChatOf!Kept(q, e)) \subseteq In(q) \union {e}
         /\ Ordered(q) /\ (\A a \in In(q) : Earlier(a, e)) => Ordered(ChatOf!Kept(q, e))
<1> DEFINE all == Append(q, e)
<1>1. /\ all \in Seq(ChatMessage) /\ In(all) = In(q) \union {e}
      /\ Ordered(q) /\ (\A a \in In(q) : Earlier(a, e)) => Ordered(all)
  BY ChatAppend
<1>2. all # <<>>
  <2>1. Len(all) = Len(q) + 1 /\ Len(q) \in Nat
    OBVIOUS
  <2> QED BY <2>1
<1>3. ChatOf!Kept(q, e) \in {all, Tail(all)}
  BY DEF ChatOf!Kept
<1> HIDE DEF all
<1>4. /\ Tail(all) \in Seq(ChatMessage) /\ In(Tail(all)) \subseteq In(all)
      /\ Ordered(all) => Ordered(Tail(all))
  BY <1>1, <1>2, ChatTail
<1> QED BY <1>1, <1>3, <1>4

\* A message is under way to the server, or waits for a room, or is under way to a client,
\* or in a history of the client; in each, and from each to those before, the messages of a
\* sender are in order.
ChatTypes ==
  /\ sent \in [Clients -> Nat] /\ broadcastQ \in [Rooms -> Seq(ChatMessage)]
  /\ toChat \in [Clients -> Seq(ChatMessage)] /\ fromChat \in [Clients -> Seq(ChatMessage)]
  /\ chatHistory \in [Clients -> [ChatOf!Channels -> Seq(ChatMessage)]]
  /\ chatChannel \in [Clients -> ChatOf!Channels]
  /\ chatUnread \in [Clients -> [ChatOf!Channels -> Nat]]

LEMMA ChatTyped ==
  ASSUME ChatTypes, NEW u \in Clients
  PROVE  /\ In(toChat[u]) \subseteq ChatMessage /\ In(fromChat[u]) \subseteq ChatMessage
         /\ \A h \in ChatOf!Channels : In(chatHistory[u][h]) \subseteq ChatMessage
<1>1. \A q \in Seq(ChatMessage) : In(q) \subseteq ChatMessage
  BY DEF In
<1>2. /\ toChat[u] \in Seq(ChatMessage) /\ fromChat[u] \in Seq(ChatMessage)
      /\ \A h \in ChatOf!Channels : chatHistory[u][h] \in Seq(ChatMessage)
  BY DEF ChatTypes
<1> QED BY <1>1, <1>2

SentBy(u, q) ==
  /\ Ordered(q) /\ \A a \in In(q) : a.from = u /\ a.n <= sent[u]

\* Message a has been sent, before what its sender has under way to the server, ...
Gone(a) == a.n <= sent[a.from] /\ \A b \in In(toChat[a.from]) : Earlier(a, b)

\* ... and what waits for a room comes after it.
Out(a) == Gone(a) /\ \A r \in Rooms : \A b \in In(broadcastQ[r]) : Earlier(a, b)

\* What room r has not sent yet.
KeptBy(r) == Ordered(broadcastQ[r]) /\ \A a \in In(broadcastQ[r]) : a.by = r /\ Gone(a)

\* What client u has been told or has shown, of all senders.
HeardBy(u) ==
  /\ Ordered(fromChat[u]) /\ \A a \in In(fromChat[u]) : Out(a)
  /\ \A h \in ChatOf!Channels :
       /\ Ordered(chatHistory[u][h])
       /\ \A a \in In(chatHistory[u][h]) : Out(a) /\ \A b \in In(fromChat[u]) : Earlier(a, b)

ChatInv ==
  /\ ChatTypes /\ \A r \in Rooms : KeptBy(r)
  /\ \A u \in Clients : SentBy(u, toChat[u]) /\ HeardBy(u) /\ chatUnread[u][chatChannel[u]] = 0

LEMMA ChatInitial == ChatOf!Init => ChatInv
<1> SUFFICES ASSUME ChatOf!Init PROVE ChatInv
  OBVIOUS
<1>1. <<>> \in Seq(ChatMessage) /\ Ordered(<<>>) /\ In(<<>>) = {}
  BY DEF Ordered, In
<1>2. ChatTypes
  BY <1>1 DEF ChatOf!Init, ChatTypes, ChatOf!Channels
<1>3. ASSUME NEW u \in Clients
      PROVE  /\ toChat[u] = <<>> /\ fromChat[u] = <<>> /\ chatUnread[u][chatChannel[u]] = 0
             /\ \A h \in ChatOf!Channels : chatHistory[u][h] = <<>>
  BY DEF ChatOf!Init, ChatOf!Channels
<1>4. ASSUME NEW u \in Clients PROVE SentBy(u, toChat[u]) /\ HeardBy(u)
  BY <1>1, <1>3 DEF SentBy, HeardBy
<1>5. ASSUME NEW r \in Rooms PROVE KeptBy(r)
  BY <1>1 DEF ChatOf!Init, KeptBy
<1> QED BY <1>2, <1>3, <1>4, <1>5 DEF ChatInv

\* What is out stays so when a message leaves for a room or the players.
LEMMA ChatStaysGone ==
  ASSUME ChatTypes, NEW a \in ChatMessage, Gone(a), UNCHANGED sent,
         \A w \in Clients : In(toChat'[w]) \subseteq In(toChat[w])
  PROVE  Gone(a)'
<1>1. a.from \in Clients
  BY DEF ChatMessage
<1>2. a.n <= sent'[a.from] /\ \A b \in In(toChat'[a.from]) : Earlier(a, b)
  BY <1>1 DEF Gone
<1> QED BY <1>2 DEF Gone, In, Earlier, ChatOf!MayPrecede

\* SendRaw: what is out and comes after all that has come goes to some of the clients.
LEMMA ChatSendTo ==
  ASSUME ChatTypes, \A w \in Clients : HeardBy(w), NEW e \in ChatMessage,
         NEW to \in SUBSET Clients,
         fromChat' = [w \in Clients |-> IF w \in to THEN Append(fromChat[w], e) ELSE fromChat[w]],
         \A w \in Clients :
           /\ \A a \in In(fromChat[w]) : Earlier(a, e)
           /\ \A h \in ChatOf!Channels : \A a \in In(chatHistory[w][h]) : Earlier(a, e),
         \A a \in ChatMessage : Out(a) => Out(a)', Out(e)',
         UNCHANGED chatHistory
  PROVE  /\ fromChat' \in [Clients -> Seq(ChatMessage)]
         /\ \A w \in Clients : HeardBy(w)'
<1>1. ASSUME NEW w \in Clients
      PROVE  /\ fromChat'[w] \in Seq(ChatMessage) /\ Ordered(fromChat'[w])
             /\ \/ In(fromChat'[w]) = In(fromChat[w])
                \/ In(fromChat'[w]) = In(fromChat[w]) \union {e}
  <2>1. fromChat[w] \in Seq(ChatMessage) /\ Ordered(fromChat[w])
    BY DEF ChatTypes, HeardBy
  <2> QED BY <2>1, ChatAppend
<1>2. ASSUME NEW w \in Clients PROVE HeardBy(w)'
  <2>1. /\ In(fromChat[w]) \subseteq ChatMessage
        /\ \A h \in ChatOf!Channels : In(chatHistory[w][h]) \subseteq ChatMessage
    BY ChatTyped
  <2>4. HeardBy(w)
    OBVIOUS
  <2>5. \A a \in In(fromChat'[w]) : a \in In(fromChat[w]) \/ a = e
    BY <1>1, Zenon
  <2>2. ASSUME NEW a \in In(fromChat'[w]) PROVE Out(a)'
    <3>1. a \in In(fromChat[w]) \/ a = e
      BY <2>2, <2>5
    <3>2. a \in In(fromChat[w]) => a \in ChatMessage /\ Out(a)
      BY <2>1, <2>4 DEF HeardBy
    <3> QED BY <3>1, <3>2
  <2>3. \A h \in ChatOf!Channels :
          /\ Ordered(chatHistory'[w][h])
          /\ \A a \in In(chatHistory'[w][h]) : Out(a)' /\ \A b \in In(fromChat'[w]) : Earlier(a, b)
    <3> SUFFICES ASSUME NEW h \in ChatOf!Channels, NEW a \in In(chatHistory[w][h])
                 PROVE  /\ Ordered(chatHistory[w][h])
                        /\ Out(a)' /\ \A b \in In(fromChat'[w]) : Earlier(a, b)
      BY <2>4 DEF HeardBy
    <3>1. /\ Ordered(chatHistory[w][h]) /\ a \in ChatMessage
          /\ Out(a) /\ \A b \in In(fromChat[w]) : Earlier(a, b)
      BY <2>1, <2>4 DEF HeardBy
    <3>2. Earlier(a, e)
      OBVIOUS
    <3> QED BY <2>5, <3>1, <3>2
  <2> QED BY <1>1, <2>2, <2>3 DEF HeardBy, Ordered, In, Earlier, ChatOf!MayPrecede
<1> QED BY <1>1, <1>2

LEMMA ChatHandle ==
  ASSUME ChatInv, NEW u \in Clients, ChatOf!HandleSend(u)
  PROVE  ChatInv'
<1>1. /\ toChat[u] # <<>> /\ toChat' = [toChat EXCEPT ![u] = Tail(toChat[u])]
      /\ UNCHANGED <<sent, chatHistory, chatChannel, chatUnread>>
  BY DEF ChatOf!HandleSend, ChatOf!window
<1>2. /\ ChatTypes /\ \A w \in Clients : SentBy(w, toChat[w]) /\ HeardBy(w)
      /\ \A r \in Rooms : KeptBy(r)
  BY DEF ChatInv
<1>0. PICK e \in ChatMessage : e = Head(toChat[u])
  BY <1>1, <1>2, ChatTail DEF ChatTypes
<1>3. /\ toChat[u] \in Seq(ChatMessage) /\ e \in In(toChat[u])
      /\ Tail(toChat[u]) \in Seq(ChatMessage) /\ In(Tail(toChat[u])) \subseteq In(toChat[u])
      /\ Ordered(Tail(toChat[u])) /\ \A a \in In(Tail(toChat[u])) : Earlier(e, a)
  BY <1>0, <1>1, <1>2, ChatTail DEF ChatTypes, SentBy
<1>4. e.from = u /\ e.n <= sent[u] /\ e.by \in Rooms \union {Directly}
  BY <1>2, <1>3 DEF SentBy, ChatMessage
<1>5. \/ /\ e.by = Directly /\ UNCHANGED broadcastQ
         /\ \E to \in SUBSET Clients :
              fromChat' = [w \in Clients |-> IF w \in to THEN Append(fromChat[w], e) ELSE fromChat[w]]
      \/ /\ e.by # Directly /\ UNCHANGED fromChat
         /\ \/ broadcastQ' = [broadcastQ EXCEPT ![e.by] = Append(broadcastQ[e.by], e)]
            \/ UNCHANGED broadcastQ
  BY <1>0 DEF ChatOf!HandleSend, ChatOf!Audience, ChatOf!SendTo
<1>6. toChat'[u] = Tail(toChat[u]) /\ \A w \in Clients \ {u} : toChat'[w] = toChat[w]
  BY <1>1, <1>2 DEF ChatTypes
<1>7. \A w \in Clients : In(toChat'[w]) \subseteq In(toChat[w])
  BY <1>3, <1>6
<1>8. ASSUME NEW w \in Clients PROVE SentBy(w, toChat[w])'
  BY <1>1, <1>2, <1>3, <1>6, <1>7 DEF SentBy
<1>9. toChat' \in [Clients -> Seq(ChatMessage)]
  BY <1>1, <1>2, <1>3 DEF ChatTypes
<1>10. ASSUME NEW a \in ChatMessage, Gone(a) PROVE Gone(a)' /\ Earlier(a, e)
  <2>1. Gone(a)'
    BY <1>1, <1>2, <1>7, <1>10, ChatStaysGone
  <2>2. Earlier(a, e)
    BY <1>3, <1>4, <1>10 DEF Gone, Earlier, ChatOf!MayPrecede
  <2> QED BY <2>1, <2>2
<1>11. Gone(e)'
  <2>1. e.n <= sent'[e.from] /\ \A b \in In(toChat'[e.from]) : Earlier(e, b)
    BY <1>1, <1>3, <1>4, <1>6
  <2> QED BY <2>1 DEF Gone, In, Earlier, ChatOf!MayPrecede
<1>12. \A r \in Rooms : In(broadcastQ[r]) \subseteq ChatMessage
  BY <1>2 DEF ChatTypes, In
<1>13. \A w \in Clients :
         /\ \A a \in In(fromChat[w]) : a \in ChatMessage /\ Gone(a) /\ Earlier(a, e)
         /\ \A h \in ChatOf!Channels :
              \A a \in In(chatHistory[w][h]) : a \in ChatMessage /\ Gone(a) /\ Earlier(a, e)
  BY <1>2, <1>10, ChatTyped DEF HeardBy, Out
<1>14. CASE UNCHANGED broadcastQ
  <2>1. \A r \in Rooms : KeptBy(r)'
    BY <1>2, <1>10, <1>12, <1>14 DEF KeptBy
  <2>2. \A a \in ChatMessage : Out(a) => Out(a)'
    BY <1>10, <1>14 DEF Out
  <2>3. CASE UNCHANGED fromChat
    <3>1. \A w \in Clients : HeardBy(w)'
      BY <1>1, <1>2, <1>13, <2>2, <2>3 DEF HeardBy
    <3> QED BY <1>1, <1>2, <1>8, <1>9, <1>14, <2>1, <2>3, <3>1 DEF ChatInv, ChatTypes
  <2>4. CASE /\ e.by = Directly
             /\ \E to \in SUBSET Clients : fromChat' = [w \in Clients |->
                  IF w \in to THEN Append(fromChat[w], e) ELSE fromChat[w]]
    <3>1. PICK to \in SUBSET Clients : fromChat' = [w \in Clients |->
            IF w \in to THEN Append(fromChat[w], e) ELSE fromChat[w]]
      BY <2>4
    <3>2. Out(e)'
      <4>1. ASSUME NEW r \in Rooms, NEW b \in In(broadcastQ[r]) PROVE Earlier(e, b)
        <5>1. b.by = r /\ r # Directly
          BY <1>2, <4>1, ConstantsAssumption DEF KeptBy
        <5> QED BY <2>4, <5>1 DEF Earlier, ChatOf!MayPrecede
      <4> QED BY <1>11, <1>14, <4>1 DEF Out
    <3>3. /\ fromChat' \in [Clients -> Seq(ChatMessage)]
          /\ \A w \in Clients : HeardBy(w)'
      BY <1>1, <1>2, <1>3, <1>13, <2>2, <3>1, <3>2, ChatSendTo
    <3> QED BY <1>1, <1>2, <1>8, <1>9, <1>14, <2>1, <3>3 DEF ChatInv, ChatTypes
  <2> QED BY <1>5, <2>3, <2>4
<1>15. CASE /\ e.by # Directly /\ UNCHANGED fromChat
            /\ broadcastQ' = [broadcastQ EXCEPT ![e.by] = Append(broadcastQ[e.by], e)]
  <2> DEFINE q == broadcastQ[e.by]
  <2>1. e.by \in Rooms /\ q \in Seq(ChatMessage)
    BY <1>2, <1>4, <1>15 DEF ChatTypes
  <2>2. /\ broadcastQ' \in [Rooms -> Seq(ChatMessage)] /\ broadcastQ'[e.by] = Append(q, e)
        /\ \A r \in Rooms \ {e.by} : broadcastQ'[r] = broadcastQ[r]
    BY <1>2, <1>3, <1>15, <2>1 DEF ChatTypes
  <2>3. In(broadcastQ'[e.by]) = In(q) \union {e} /\ Ordered(broadcastQ'[e.by])
    <3>1. Ordered(q) /\ \A a \in In(q) : Earlier(a, e)
      BY <1>2, <1>10, <1>12, <2>1 DEF KeptBy
    <3> QED BY <1>3, <2>1, <2>2, <3>1, ChatAppend
  <2> HIDE DEF q
  <2>4. ASSUME NEW r \in Rooms PROVE KeptBy(r)'
    <3>1. \A a \in In(broadcastQ[r]) : a.by = r /\ Gone(a)'
      BY <1>2, <1>10, <1>12 DEF KeptBy
    <3>2. CASE r # e.by
      BY <1>2, <2>2, <3>1, <3>2 DEF KeptBy
    <3>3. CASE r = e.by
      <4>1. \A a \in In(broadcastQ'[r]) : a.by = r /\ Gone(a)'
        BY <1>11, <2>3, <3>1, <3>3 DEF q
      <4> QED BY <2>3, <3>3, <4>1 DEF KeptBy
    <3> QED BY <3>2, <3>3
  <2>5. ASSUME NEW a \in ChatMessage, Out(a) PROVE Out(a)'
    <3>1. Gone(a)' /\ Earlier(a, e)
      BY <1>10, <2>5 DEF Out
    <3>2. ASSUME NEW r \in Rooms, NEW b \in In(broadcastQ'[r]) PROVE Earlier(a, b)
      BY <2>2, <2>3, <2>5, <3>1, <3>2 DEF Out, q
    <3> QED BY <3>1, <3>2 DEF Out, In, Earlier, ChatOf!MayPrecede
  <2>6. \A w \in Clients : HeardBy(w)'
    BY <1>1, <1>2, <1>13, <1>15, <2>5 DEF HeardBy
  <2> QED BY <1>1, <1>2, <1>8, <1>9, <1>15, <2>2, <2>4, <2>6 DEF ChatInv, ChatTypes
<1> QED BY <1>5, <1>14, <1>15

\* The goroutine of a room sends the first of what waits for it.
LEMMA ChatRun ==
  ASSUME ChatInv, NEW r \in Rooms, ChatOf!Run(r)
  PROVE  ChatInv'
<1>1. /\ broadcastQ[r] # <<>> /\ broadcastQ' = [broadcastQ EXCEPT ![r] = Tail(broadcastQ[r])]
      /\ UNCHANGED <<sent, toChat, chatHistory, chatChannel, chatUnread>>
  BY DEF ChatOf!Run, ChatOf!window
<1>3. /\ ChatTypes /\ \A w \in Clients : SentBy(w, toChat[w]) /\ HeardBy(w)
      /\ \A o \in Rooms : KeptBy(o)
  BY DEF ChatInv
<1>0. PICK e \in ChatMessage : e = Head(broadcastQ[r])
  BY <1>1, <1>3, ChatTail DEF ChatTypes
<1>2. PICK to \in SUBSET Clients :
        fromChat' = [w \in Clients |-> IF w \in to THEN Append(fromChat[w], e) ELSE fromChat[w]]
  BY <1>0 DEF ChatOf!Run, ChatOf!SendTo
<1>4. /\ e \in In(broadcastQ[r])
      /\ Tail(broadcastQ[r]) \in Seq(ChatMessage)
      /\ In(Tail(broadcastQ[r])) \subseteq In(broadcastQ[r])
      /\ Ordered(Tail(broadcastQ[r])) /\ \A a \in In(Tail(broadcastQ[r])) : Earlier(e, a)
  BY <1>0, <1>1, <1>3, ChatTail DEF ChatTypes, KeptBy
<1>5. e.by = r /\ Gone(e)
  BY <1>3, <1>4 DEF KeptBy
<1>6. /\ broadcastQ' \in [Rooms -> Seq(ChatMessage)] /\ broadcastQ'[r] = Tail(broadcastQ[r])
      /\ \A o \in Rooms \ {r} : broadcastQ'[o] = broadcastQ[o]
  BY <1>1, <1>3, <1>4 DEF ChatTypes
<1>7. \A o \in Rooms : In(broadcastQ'[o]) \subseteq In(broadcastQ[o]) /\ Ordered(broadcastQ'[o])
  BY <1>3, <1>4, <1>6 DEF KeptBy
<1>8. \A a : Gone(a) => Gone(a)'
  BY <1>1 DEF Gone
<1>9. ASSUME NEW o \in Rooms PROVE KeptBy(o)'
  BY <1>3, <1>7, <1>8 DEF KeptBy
<1>10. ASSUME NEW a \in ChatMessage, Out(a) PROVE Out(a)' /\ Earlier(a, e)
  <2>1. \A o \in Rooms : \A b \in In(broadcastQ'[o]) : Earlier(a, b)
    BY <1>7, <1>10 DEF Out
  <2> QED BY <1>4, <1>8, <1>10, <2>1 DEF Out, In, Earlier, ChatOf!MayPrecede
<1>11. Out(e)'
  <2>1. ASSUME NEW o \in Rooms, NEW b \in In(broadcastQ'[o]) PROVE Earlier(e, b)
    <3>1. CASE o = r
      BY <1>4, <1>6, <2>1, <3>1
    <3>2. CASE o # r
      <4>1. b.by = o /\ o # Directly
        BY <1>3, <1>7, <2>1, ConstantsAssumption DEF KeptBy
      <4> QED BY <1>5, <3>2, <4>1 DEF Earlier, ChatOf!MayPrecede
    <3> QED BY <3>1, <3>2
  <2> QED BY <1>5, <1>8, <2>1 DEF Out, In, Earlier, ChatOf!MayPrecede
<1>12. \A w \in Clients :
         /\ \A a \in In(fromChat[w]) : Earlier(a, e)
         /\ \A h \in ChatOf!Channels : \A a \in In(chatHistory[w][h]) : Earlier(a, e)
  BY <1>3, <1>10, ChatTyped DEF HeardBy
<1>13. /\ fromChat' \in [Clients -> Seq(ChatMessage)]
       /\ \A w \in Clients : HeardBy(w)'
  BY <1>1, <1>2, <1>3, <1>4, <1>10, <1>11, <1>12, ChatSendTo
<1>14. \A w \in Clients : SentBy(w, toChat[w])'
  BY <1>1, <1>3 DEF SentBy
<1> QED BY <1>1, <1>3, <1>6, <1>9, <1>13, <1>14 DEF ChatInv, ChatTypes

LEMMA ChatSend ==
  ASSUME ChatInv, NEW u \in Clients, NEW h \in ChatOf!Channels,
         NEW by \in Rooms \union {Directly}, ChatOf!SendMessage(u, h, by)
  PROVE  ChatInv'
<1> DEFINE e == [ch |-> h, from |-> u, n |-> sent[u] + 1, by |-> by]
<1>1. /\ sent' = [sent EXCEPT ![u] = sent[u] + 1]
      /\ toChat' = [toChat EXCEPT ![u] = Append(toChat[u],
                   [ch |-> h, from |-> u, n |-> sent'[u], by |-> by])]
      /\ UNCHANGED <<fromChat, broadcastQ, chatHistory, chatChannel, chatUnread>>
  BY Zenon DEF ChatOf!SendMessage, ChatOf!window
<1>2. /\ ChatTypes /\ \A w \in Clients : SentBy(w, toChat[w]) /\ HeardBy(w)
      /\ \A r \in Rooms : KeptBy(r)
  BY DEF ChatInv
<1>3. /\ sent'[u] = sent[u] + 1 /\ sent[u] \in Nat /\ \A w \in Clients : sent[w] <= sent'[w]
      /\ sent' \in [Clients -> Nat] /\ \A w \in Clients : sent[w] \in Nat /\ sent'[w] \in Nat
  <2>1. sent \in [Clients -> Nat]
    BY <1>2 DEF ChatTypes
  <2>2. \A w \in Clients : sent'[w] = IF w = u THEN sent[u] + 1 ELSE sent[w]
    BY <1>1, <2>1
  <2>3. sent' \in [Clients -> Nat]
    BY <1>1, <2>1
  <2> QED BY <2>1, <2>2, <2>3
<1>4. e \in ChatMessage /\ e.from = u /\ e.n = sent'[u] /\ e.n = sent[u] + 1
  BY <1>3 DEF ChatMessage
<1>5. toChat' = [toChat EXCEPT ![u] = Append(toChat[u], e)]
  BY <1>1, <1>3
<1> HIDE DEF e
<1>6. toChat'[u] = Append(toChat[u], e) /\ \A w \in Clients \ {u} : toChat'[w] = toChat[w]
  BY <1>2, <1>5 DEF ChatTypes
<1>7. \A a \in ChatMessage : a.n <= sent[a.from] => /\ Earlier(a, e) /\ a.n <= sent'[a.from]
  BY <1>3, <1>4 DEF Earlier, ChatOf!MayPrecede, ChatMessage
<1>8. \A w \in Clients : In(toChat[w]) \subseteq ChatMessage
  BY <1>2, ChatTyped
<1>9. /\ Append(toChat[u], e) \in Seq(ChatMessage)
      /\ In(toChat'[u]) = In(toChat[u]) \union {e} /\ Ordered(toChat'[u])
  <2>1. toChat[u] \in Seq(ChatMessage) /\ Ordered(toChat[u])
    BY <1>2 DEF ChatTypes, SentBy
  <2>2. \A a \in In(toChat[u]) : Earlier(a, e)
    BY <1>2, <1>7, <1>8 DEF SentBy
  <2> QED BY <1>4, <1>6, <2>1, <2>2, ChatAppend
<1>10. ASSUME NEW w \in Clients PROVE SentBy(w, toChat[w])'
  <2>1. CASE w = u
    <3>1. \A a \in In(toChat'[u]) : a.from = u /\ a.n <= sent'[u]
      BY <1>2, <1>4, <1>3, <1>7, <1>8, <1>9 DEF SentBy
    <3> QED BY <1>9, <2>1, <3>1 DEF SentBy
  <2>2. CASE w # u
    <3>1. \A a \in In(toChat[w]) : a.from = w /\ a.n <= sent'[w]
      BY <1>2, <1>7, <1>8 DEF SentBy
    <3> QED BY <1>2, <1>6, <2>2, <3>1 DEF SentBy
  <2> QED BY <2>1, <2>2
<1>11. ASSUME NEW a \in ChatMessage, Gone(a) PROVE Gone(a)'
  <2>1. a.from \in Clients
    BY DEF ChatMessage
  <2>2. a.n <= sent'[a.from] /\ \A b \in In(toChat'[a.from]) : Earlier(a, b)
    BY <1>6, <1>7, <1>9, <1>11, <2>1 DEF Gone
  <2> QED BY <2>2 DEF Gone, In, Earlier, ChatOf!MayPrecede
<1>12. ASSUME NEW w \in Clients PROVE HeardBy(w)'
  <2>1. /\ In(fromChat[w]) \subseteq ChatMessage
        /\ \A k \in ChatOf!Channels : In(chatHistory[w][k]) \subseteq ChatMessage
    BY <1>2, ChatTyped
  <2>2. \A a \in ChatMessage : Out(a) => Out(a)'
    BY <1>1, <1>11 DEF Out
  <2> QED BY <1>1, <1>2, <2>1, <2>2 DEF HeardBy
<1>14. ASSUME NEW r \in Rooms PROVE KeptBy(r)'
  <2>1. In(broadcastQ[r]) \subseteq ChatMessage
    BY <1>2 DEF ChatTypes, In
  <2> QED BY <1>1, <1>2, <1>11, <2>1 DEF KeptBy
<1>13. ChatTypes'
  BY <1>1, <1>2, <1>3, <1>5, <1>9 DEF ChatTypes
<1> QED BY <1>1, <1>10, <1>12, <1>13, <1>14 DEF ChatInv

LEMMA ChatRecv ==
  ASSUME ChatInv, NEW u \in Clients, ChatOf!OnChatRecv(u)
  PROVE  ChatInv'
<1> DEFINE e == Head(fromChat[u])
<1>1. /\ fromChat[u] # <<>> /\ fromChat' = [fromChat EXCEPT ![u] = Tail(fromChat[u])]
      /\ chatHistory' = [chatHistory EXCEPT ![u][e.ch] = ChatOf!Kept(chatHistory[u][e.ch], e)]
      /\ chatUnread' = IF e.ch = chatChannel[u] THEN chatUnread
                       ELSE [chatUnread EXCEPT ![u][e.ch] = chatUnread[u][e.ch] + 1]
      /\ UNCHANGED <<sent, toChat, broadcastQ, chatChannel>>
  BY Zenon DEF ChatOf!OnChatRecv
<1>2. /\ ChatTypes /\ \A w \in Clients : SentBy(w, toChat[w]) /\ HeardBy(w)
      /\ \A w \in Clients : chatUnread[w][chatChannel[w]] = 0
      /\ \A r \in Rooms : KeptBy(r)
  BY DEF ChatInv
<1>3. /\ fromChat[u] \in Seq(ChatMessage) /\ e \in ChatMessage /\ e \in In(fromChat[u])
      /\ Tail(fromChat[u]) \in Seq(ChatMessage) /\ In(Tail(fromChat[u])) \subseteq In(fromChat[u])
      /\ Ordered(Tail(fromChat[u])) /\ \A a \in In(Tail(fromChat[u])) : Earlier(e, a)
  BY <1>1, <1>2, ChatTail DEF ChatTypes, HeardBy
<1>4. e.ch \in ChatOf!Channels /\ e.from \in Clients
  BY <1>3 DEF ChatMessage
<1> HIDE DEF e
<1> DEFINE log == ChatOf!Kept(chatHistory[u][e.ch], e)
<1>5. /\ log \in Seq(ChatMessage) /\ Ordered(log)
      /\ In(log) \subseteq In(chatHistory[u][e.ch]) \union {e}
  <2>1. /\ chatHistory[u][e.ch] \in Seq(ChatMessage) /\ Ordered(chatHistory[u][e.ch])
        /\ \A a \in In(chatHistory[u][e.ch]) : Earlier(a, e)
    <3>1. chatHistory[u][e.ch] \in Seq(ChatMessage)
      BY <1>2, <1>4 DEF ChatTypes
    <3>2. HeardBy(u)
      BY <1>2
    <3> QED BY <1>3, <1>4, <3>1, <3>2 DEF HeardBy
  <2> QED BY <1>3, <2>1, ChatKept
<1> HIDE DEF log
<1>6. /\ chatHistory' = [chatHistory EXCEPT ![u][e.ch] = log]
      /\ chatHistory' \in [Clients -> [ChatOf!Channels -> Seq(ChatMessage)]]
      /\ chatHistory'[u][e.ch] = log
      /\ \A w \in Clients, h \in ChatOf!Channels :
           w # u \/ h # e.ch => chatHistory'[w][h] = chatHistory[w][h]
  BY <1>1, <1>2, <1>4, <1>5 DEF ChatTypes, log
<1>7. fromChat'[u] = Tail(fromChat[u]) /\ \A w \in Clients \ {u} : fromChat'[w] = fromChat[w]
  BY <1>1, <1>2 DEF ChatTypes
<1>8. ChatTypes'
  <2>1. fromChat' \in [Clients -> Seq(ChatMessage)]
    BY <1>1, <1>2, <1>3 DEF ChatTypes
  <2>2. chatUnread' \in [Clients -> [ChatOf!Channels -> Nat]]
    <3>1. chatUnread \in [Clients -> [ChatOf!Channels -> Nat]]
      BY <1>2 DEF ChatTypes
    <3>2. chatUnread[u][e.ch] + 1 \in Nat
      BY <1>4, <3>1
    <3> QED BY <1>1, <1>4, <3>1, <3>2
  <2> QED BY <1>1, <1>2, <1>6, <2>1, <2>2 DEF ChatTypes
<1>9. ASSUME NEW w \in Clients PROVE chatUnread'[w][chatChannel'[w]] = 0
  <2>1. chatUnread \in [Clients -> [ChatOf!Channels -> Nat]]
        /\ chatChannel \in [Clients -> ChatOf!Channels]
    BY <1>2 DEF ChatTypes
  <2>2. chatUnread'[w][chatChannel[w]] = chatUnread[w][chatChannel[w]]
    BY <1>1, <1>4, <2>1
  <2> QED BY <1>1, <1>2, <2>2
<1>10. ASSUME NEW w \in Clients PROVE SentBy(w, toChat[w])'
  BY <1>1, <1>2 DEF SentBy
<1>11. \A a : (Out(a) => Out(a)') /\ (Gone(a) => Gone(a)')
  BY <1>1 DEF Out, Gone
<1>12. ASSUME NEW h \in ChatOf!Channels
       PROVE  /\ Ordered(chatHistory'[u][h])
              /\ \A a \in In(chatHistory'[u][h]) :
                   Out(a) /\ \A b \in In(fromChat'[u]) : Earlier(a, b)
  <2>1. /\ Ordered(chatHistory[u][h])
        /\ \A a \in In(chatHistory[u][h]) :
             Out(a) /\ \A b \in In(fromChat'[u]) : Earlier(a, b)
    BY <1>2, <1>3, <1>7 DEF HeardBy
  <2>2. CASE h # e.ch
    BY <1>6, <2>1, <2>2
  <2>3. CASE h = e.ch
    <3>1. Out(e) /\ \A b \in In(fromChat'[u]) : Earlier(e, b)
      BY <1>2, <1>3, <1>7 DEF HeardBy
    <3> QED BY <1>5, <1>6, <2>1, <2>3, <3>1
  <2> QED BY <2>2, <2>3
<1>13. ASSUME NEW w \in Clients PROVE HeardBy(w)'
  <2>1. CASE w = u
    <3>1. /\ Ordered(fromChat'[u]) /\ In(fromChat'[u]) \subseteq In(fromChat[u])
          /\ \A a \in In(fromChat'[u]) : Out(a)
      BY <1>2, <1>3, <1>7 DEF HeardBy
    <3>2. \A h \in ChatOf!Channels :
            /\ Ordered(chatHistory'[u][h])
            /\ \A a \in In(chatHistory'[u][h]) :
                 Out(a)' /\ \A b \in In(fromChat'[u]) : Earlier(a, b)
      BY <1>11, <1>12
    <3> QED BY <1>11, <2>1, <3>1, <3>2 DEF HeardBy, Ordered, In, Earlier, ChatOf!MayPrecede
  <2>2. CASE w # u
    <3>1. fromChat'[w] = fromChat[w]
          /\ \A h \in ChatOf!Channels : chatHistory'[w][h] = chatHistory[w][h]
      BY <1>6, <1>7, <2>2
    <3> QED BY <1>2, <1>11, <3>1 DEF HeardBy
  <2> QED BY <2>1, <2>2
<1>14. \A r \in Rooms : KeptBy(r)'
  BY <1>1, <1>2, <1>11 DEF KeptBy
<1> QED BY <1>8, <1>9, <1>10, <1>13, <1>14 DEF ChatInv

LEMMA ChatSwitch ==
  ASSUME ChatInv, NEW u \in Clients, NEW h \in ChatOf!Channels, ChatOf!SwitchChannel(u, h)
  PROVE  ChatInv'
<1>1. /\ chatChannel' = [chatChannel EXCEPT ![u] = h]
      /\ chatUnread' = [chatUnread EXCEPT ![u][h] = 0]
      /\ UNCHANGED <<sent, toChat, fromChat, broadcastQ, chatHistory>>
  BY DEF ChatOf!SwitchChannel
<1>2. ChatTypes'
  BY <1>1 DEF ChatInv, ChatTypes
<1>3. \A w \in Clients : chatUnread'[w][chatChannel'[w]] = 0
  BY <1>1 DEF ChatInv, ChatTypes
<1>4. /\ \A w \in Clients : SentBy(w, toChat[w])' /\ HeardBy(w)'
      /\ \A r \in Rooms : KeptBy(r)'
  BY <1>1 DEF ChatInv, SentBy, HeardBy, KeptBy, Out, Gone
<1> QED BY <1>2, <1>3, <1>4 DEF ChatInv

LEMMA ChatStep == ChatInv /\ [MCNext]_<<part, i, s, t, m, p, c, x, g, v, f, l>> => ChatInv'
<1> SUFFICES ASSUME ChatInv, [MCNext]_<<part, i, s, t, m, p, c, x, g, v, f, l>> PROVE ChatInv'
  OBVIOUS
<1>1. ChatOf!Next \/ UNCHANGED c
  BY DEF MCNext
<1>2. CASE UNCHANGED c
  BY <1>2 DEF c, ChatInv, ChatTypes, SentBy, HeardBy, KeptBy, Out, Gone
<1>3. CASE ChatOf!Next
  BY <1>3, ChatHandle, ChatRecv, ChatSend, ChatSwitch, ChatRun DEF ChatOf!Next
<1> QED BY <1>1, <1>2, <1>3

\* The log on the screen has the messages of a sender in the order they were sent, with
\* nothing unread, for any clients, length of the history and walks, parties and channels;
\* but a message may overtake a "!text" that waits for a room which it does not go through.
THEOREM OrderOfSender == MCSpec => []SenderOrder
<1>1. MCInit => ChatInv
  BY ChatInitial DEF MCInit
<1>2. ChatInv => SenderOrder
  <2> SUFFICES ASSUME ChatInv, NEW u \in Clients
               PROVE  /\ \A j, k \in 1..Len(ChatOf!LogShown(u)) :
                           j < k => ChatOf!MayPrecede(ChatOf!LogShown(u)[j], ChatOf!LogShown(u)[k])
                      /\ chatUnread[u][chatChannel[u]] = 0
    BY DEF SenderOrder, ChatOf!SenderOrder
  <2>1. Ordered(ChatOf!LogShown(u))
    BY DEF ChatInv, ChatTypes, HeardBy, ChatOf!LogShown
  <2> QED BY <2>1 DEF Ordered, Earlier, ChatInv
<1> QED BY <1>1, <1>2, ChatStep, PTL DEF MCSpec

-----------------------------------------------------------------------------
(* Experience *)

LEMMA LeastLevel ==
  ASSUME NEW S \in SUBSET Nat, S # {}
  PROVE  Exp!Min(S) \in S /\ \A k \in S : Exp!Min(S) <= k
<1>1. \E j \in S : \A k \in S : ~(<<k, j>> \in OpToRel(<, Nat))
  BY NatLessThanWellFounded, WFMin, Zenon
<1>2. PICK j \in S : \A k \in S : ~(<<k, j>> \in OpToRel(<, Nat))
  BY <1>1, Zenon
<1>3. ASSUME NEW k \in S PROVE j <= k
  <2>1. <<k, j>> \notin {d \in Nat \X Nat : d[1] < d[2]}
    BY <1>2, Zenon DEF OpToRel
  <2>2. k \in Nat /\ j \in Nat /\ <<k, j>>[1] = k /\ <<k, j>>[2] = j
    OBVIOUS
  <2> QED BY <2>1, <2>2
<1> QED BY <1>3 DEF Exp!Min

LevelSet(y, h) == {n \in h..99 : y < Exp!ExpNeeded(n) \/ n = 99}

\* The level is the least that the experience has not passed, ...
LEMMA LevelIsLeast ==
  ASSUME NEW y \in Int, NEW h \in 1..99
  PROVE  Exp!LevelAt(y, h) \in LevelSet(y, h) /\ \A n \in LevelSet(y, h) : Exp!LevelAt(y, h) <= n
<1>1. 99 \in LevelSet(y, h) /\ LevelSet(y, h) \in SUBSET Nat
  BY DEF LevelSet
<1>2. Exp!LevelAt(y, h) = Exp!Min(LevelSet(y, h))
  BY Zenon DEF Exp!LevelAt, LevelSet
<1> QED BY <1>1, <1>2, LeastLevel

LEMMA LevelInRange ==
  ASSUME NEW y \in Int, NEW h \in 1..99
  PROVE  Exp!LevelAt(y, h) \in 1..99
<1>1. LevelSet(y, h) \subseteq 1..99
  BY DEF LevelSet
<1> QED BY <1>1, LevelIsLeast

\* ... so that more experience, counted from a higher level, comes to no lower one.
LEMMA LevelGrows ==
  ASSUME NEW e \in Int, NEW u \in Int, NEW h \in 1..99, e <= u,
         h <= Exp!LevelAt(u, 1)
  PROVE  Exp!LevelAt(e, h) \in 1..99 /\ Exp!LevelAt(e, h) <= Exp!LevelAt(u, 1)
<1> DEFINE n == Exp!LevelAt(u, 1)
<1>1. n \in 1..99 /\ (u < Exp!ExpNeeded(n) \/ n = 99)
  <2>1. n \in LevelSet(u, 1)
    BY LevelIsLeast
  <2> QED BY <2>1 DEF LevelSet
<1>2. Exp!ExpNeeded(n) \in Int
  BY <1>1 DEF Exp!ExpNeeded
<1> HIDE DEF n
<1>3. n \in LevelSet(e, h)
  BY <1>1, <1>2 DEF n, LevelSet
<1>4. Exp!LevelAt(e, h) <= n
  BY <1>3, LevelIsLeast
<1>5. Exp!LevelAt(e, h) \in 1..99
  BY LevelInRange
<1> QED BY <1>4, <1>5 DEF n

Stats == [exp : Int, level : 1..99]

ExpTypes ==
  /\ earned \in Nat /\ row \in Stats /\ sess \in [1..MaxSessions -> Stats]
  /\ sessions \in 0..MaxSessions /\ online \in 0..sessions
  /\ award \in [1..MaxKills -> [s : Int, at : {"idle", "tx", "level", "exp"}, got : Stats]]
  /\ death \in [1..MaxDeaths -> [s : Int, at : {"idle", "set", "row"}, got : Stats]]
  /\ toBar \in Seq([t : {"map_init", "exp_gain"}, r : Stats])
  /\ lastSelf \in Stats /\ bar \in [exp : Int, level : 0..99]

\* No more than has been granted, and the level of no more.
Granted(r) == r.exp <= earned /\ r.level <= Exp!LevelAt(earned, 1)

\* What an award or a penalty has read, and what is on its way to the client, was
\* granted when it was read: the sum granted only grows.
ExpInv ==
  /\ ExpTypes /\ Granted(row)
  /\ \A k \in 1..MaxSessions : Granted(sess[k])
  /\ \A k \in 1..MaxKills : award[k].at \in {"level", "exp"} => Granted(award[k].got)
  /\ \A k \in 1..MaxDeaths : death[k].at # "idle" => death[k].got.exp <= earned
  /\ \A k \in 1..Len(toBar) : toBar[k].r.exp <= earned
  /\ lastSelf.exp <= earned /\ bar.exp <= earned

LEMMA ExpInitial == Exp!Init => ExpInv
<1> SUFFICES ASSUME Exp!Init PROVE ExpInv
  OBVIOUS
<1>1. /\ earned = 0 /\ row = [exp |-> 0, level |-> 1] /\ row \in Stats
      /\ sess = [k \in 1..MaxSessions |-> row] /\ sessions = 0 /\ online = 0
      /\ award = [k \in 1..MaxKills |-> [s |-> 0, at |-> "idle", got |-> row]]
      /\ death = [k \in 1..MaxDeaths |-> [s |-> 0, at |-> "idle", got |-> row]]
      /\ toBar = <<>> /\ lastSelf = row /\ bar = [exp |-> -1, level |-> 0]
  BY DEF Exp!Init, Exp!Start, Exp!Kills, Exp!Deaths, Exp!Idle, Exp!NoBar, Stats
<1>2. ExpTypes
  <2>1. <<>> \in Seq([t : {"map_init", "exp_gain"}, r : Stats])
    OBVIOUS
  <2>2. sessions \in 0..MaxSessions /\ online \in 0..sessions
    <3>1. sessions = 0 /\ online = 0
      BY <1>1
    <3> QED BY <3>1, ConstantsAssumption
  <2>3. lastSelf \in Stats /\ bar \in [exp : Int, level : 0..99]
    BY <1>1
  <2>4. /\ sess \in [1..MaxSessions -> Stats]
        /\ award \in [1..MaxKills -> [s : Int, at : {"idle", "tx", "level", "exp"}, got : Stats]]
        /\ death \in [1..MaxDeaths -> [s : Int, at : {"idle", "set", "row"}, got : Stats]]
    BY <1>1
  <2> QED BY <1>1, <2>1, <2>2, <2>3, <2>4 DEF ExpTypes
<1>3. Granted(row)
  <2>1. Exp!LevelAt(0, 1) \in 1..99
    <3>1. 0 \in Int /\ 1 \in 1..99
      OBVIOUS
    <3> QED BY <3>1, LevelInRange, Zenon
  <2>2. row.exp = 0 /\ row.level = 1 /\ earned = 0
    BY <1>1
  <2> QED BY <2>1, <2>2 DEF Granted
<1>4. /\ \A k \in 1..MaxSessions : sess[k] = row
      /\ \A k \in 1..MaxKills : award[k].at = "idle"
      /\ \A k \in 1..MaxDeaths : death[k].at = "idle"
      /\ toBar = <<>> /\ lastSelf = row /\ bar.exp = -1 /\ earned = 0
  BY <1>1
<1>5. lastSelf.exp <= earned /\ bar.exp <= earned
  BY <1>3, <1>4 DEF Granted
<1>6. \A k \in 1..Len(toBar) : toBar[k].r.exp <= earned
  BY <1>4
<1> QED BY <1>2, <1>3, <1>4, <1>5, <1>6 DEF ExpInv

\* A new award: the sum granted grows with the row, and what was granted stays so.
LEMMA ExpAward ==
  ASSUME ExpInv, NEW d \in Exp!Kills, Exp!Award(d)
  PROVE  ExpInv'
<1> DEFINE n == Exp!Awarded(row)
<1>1. /\ row' = n /\ earned' = earned + Gain
      /\ award' = [award EXCEPT ![d].at = "level", ![d].got = n]
      /\ UNCHANGED <<sess, online, sessions, death, toBar, lastSelf, bar>>
  BY DEF Exp!Award
<1>2. ExpTypes /\ Granted(row) /\ earned \in Nat /\ earned' \in Nat /\ earned <= earned'
      /\ row \in Stats /\ d \in 1..MaxKills
  <2>1. ExpTypes /\ Granted(row)
    BY DEF ExpInv
  <2>2. earned \in Nat /\ row \in Stats
    BY <2>1 DEF ExpTypes
  <2>3. earned' \in Nat /\ earned <= earned'
    BY <1>1, <2>2, ConstantsAssumption
  <2> QED BY <2>1, <2>2, <2>3 DEF Exp!Kills
<1>3. Exp!LevelAt(earned, 1) <= Exp!LevelAt(earned', 1) /\ Exp!LevelAt(earned', 1) \in 1..99
      /\ Exp!LevelAt(earned, 1) \in 1..99
  <2>1. Exp!LevelAt(earned, 1) \in 1..99 /\ Exp!LevelAt(earned', 1) \in 1..99
    <3>1. earned \in Int /\ earned' \in Int /\ 1 \in 1..99
      BY <1>2
    <3> QED BY <3>1, LevelInRange, Zenon
  <2>2. 1 <= Exp!LevelAt(earned', 1) /\ earned \in Int /\ earned' \in Int /\ 1 \in 1..99
    BY <1>2, <2>1
  <2> QED BY <1>2, <2>1, <2>2, LevelGrows
<1>4. ASSUME NEW r \in Stats, Granted(r)
      PROVE  r.exp <= earned' /\ r.level <= Exp!LevelAt(earned', 1)
  <2>1. r.exp \in Int /\ r.level \in Int
    BY DEF Stats
  <2>2. r.exp <= earned /\ r.level <= Exp!LevelAt(earned, 1)
    BY <1>4 DEF Granted
  <2> QED BY <1>2, <1>3, <2>1, <2>2
<1>5. n \in Stats /\ n.exp <= earned' /\ n.level <= Exp!LevelAt(earned', 1)
  <2>1. row.exp + Gain \in Int /\ row.exp + Gain <= earned' /\ row.level \in 1..99
    BY <1>1, <1>2, ConstantsAssumption DEF Stats, Granted
  <2>2. row.level <= Exp!LevelAt(earned', 1)
    BY <1>2, <1>4
  <2>3. /\ Exp!LevelAt(row.exp + Gain, row.level) \in 1..99
        /\ Exp!LevelAt(row.exp + Gain, row.level) <= Exp!LevelAt(earned', 1)
    <3>1. earned' \in Int
      BY <1>2
    <3> QED BY <2>1, <2>2, <3>1, LevelGrows, Zenon
  <2>4. n = [exp |-> row.exp + Gain, level |-> Exp!LevelAt(row.exp + Gain, row.level)]
    BY DEF Exp!Awarded
  <2> QED BY <2>1, <2>3, <2>4 DEF Stats
<1> HIDE DEF n
<1>6. /\ award' \in [1..MaxKills -> [s : Int, at : {"idle", "tx", "level", "exp"}, got : Stats]]
      /\ award'[d].got = n /\ \A k \in 1..MaxKills : k # d => award'[k] = award[k]
  <2> DEFINE M == [s : Int, at : {"idle", "tx", "level", "exp"}, got : Stats]
             a == [award[d] EXCEPT !.at = "level", !.got = n]
  <2>1. award \in [1..MaxKills -> M] /\ award[d] \in M
    BY <1>2 DEF ExpTypes
  <2>2. a \in M /\ a.got = n
    BY <1>5, <2>1
  <2>3. award' = [award EXCEPT ![d] = a]
    BY <1>1, <1>2, <2>1
  <2> HIDE DEF M, a
  <2>4. award' \in [1..MaxKills -> M] /\ award'[d] = a /\ \A k \in 1..MaxKills : k # d => award'[k] = award[k]
    BY <1>2, <2>1, <2>2, <2>3
  <2> QED BY <2>2, <2>4 DEF M
<1>7. ExpTypes'
  BY <1>1, <1>2, <1>5, <1>6 DEF ExpTypes
<1>8. Granted(row)'
  BY <1>1, <1>5 DEF Granted
<1>9. ASSUME NEW k \in 1..MaxKills, award'[k].at \in {"level", "exp"} PROVE Granted(award[k].got)'
  <2>1. CASE k = d
    BY <1>5, <1>6, <2>1 DEF Granted
  <2>2. CASE k # d
    <3>1. award'[k].got = award[k].got /\ award[k].got \in Stats /\ Granted(award[k].got)
      BY <1>2, <1>6, <1>9, <2>2 DEF ExpInv, ExpTypes
    <3> QED BY <1>4, <3>1 DEF Granted
  <2> QED BY <2>1, <2>2
<1>10. ASSUME NEW k \in 1..MaxSessions PROVE Granted(sess[k])'
  <2>1. sess' = sess /\ sess[k] \in Stats /\ Granted(sess[k])
    BY <1>1 DEF ExpInv, ExpTypes
  <2> QED BY <1>4, <2>1 DEF Granted
<1>11. \A y \in Int : y <= earned => y <= earned'
  BY <1>2
<1>12. /\ \A k \in 1..MaxDeaths : death[k].at # "idle" => death[k].got.exp <= earned'
       /\ lastSelf.exp <= earned' /\ bar.exp <= earned'
  BY <1>2, <1>11 DEF ExpInv, ExpTypes, Stats
<1>13. ASSUME NEW k \in 1..Len(toBar) PROVE toBar[k].r.exp <= earned'
  <2> DEFINE M == [t : {"map_init", "exp_gain"}, r : Stats]
  <2>1. toBar \in Seq(M)
    BY <1>2 DEF ExpTypes
  <2>2. toBar[k].r \in Stats
    <3>1. \A e \in M : e.r \in Stats
      OBVIOUS
    <3> HIDE DEF M
    <3>2. toBar[k] \in M
      BY <2>1
    <3> QED BY <3>1, <3>2
  <2>3. toBar[k].r.exp <= earned
    BY DEF ExpInv
  <2> QED BY <1>11, <2>2, <2>3 DEF Stats
<1> QED BY <1>1, <1>7, <1>8, <1>9, <1>10, <1>12, <1>13 DEF ExpInv

\* The rest of the steps grant nothing: what holds of each record goes on with it.
LEMMA ExpGoroutines ==
  ASSUME ExpInv, NEW d \in Exp!Kills, Exp!Kill(d) \/ Exp!AwardFails(d)
  PROVE  ExpInv'
<1>1. /\ \E n \in [s : Int, at : {"tx", "idle"}, got : Stats] : award' = [award EXCEPT ![d] = n]
      /\ UNCHANGED <<row, sess, online, sessions, death, earned, toBar, lastSelf, bar>>
  <2>1. CASE Exp!Kill(d)
    <3>1. online \in Int /\ [exp |-> 0, level |-> 1] \in Stats
      BY DEF ExpInv, ExpTypes, Stats
    <3> QED BY <2>1, <3>1 DEF Exp!Kill, Exp!Idle, Exp!Start
  <2>2. CASE Exp!AwardFails(d)
    <3>1. d \in 1..MaxKills
          /\ award[d] \in [s : Int, at : {"idle", "tx", "level", "exp"}, got : Stats]
      BY DEF ExpInv, ExpTypes, Exp!Kills
    <3> QED BY <2>2, <3>1 DEF Exp!AwardFails
  <2> QED BY <2>1, <2>2
<1>2. PICK n \in [s : Int, at : {"tx", "idle"}, got : Stats] : award' = [award EXCEPT ![d] = n]
  BY <1>1
<1>3. ExpTypes'
  BY <1>1, <1>2 DEF ExpInv, ExpTypes
<1>4. \A k \in 1..MaxKills : award'[k].at \in {"level", "exp"} => award'[k] = award[k]
  BY <1>2 DEF ExpInv, ExpTypes
<1> QED BY <1>1, <1>3, <1>4 DEF ExpInv, Granted

\* SetLevel and SetExp: the session has a part of what was granted, and exp_gain tells.
LEMMA ExpSync ==
  ASSUME ExpInv, NEW d \in Exp!Kills, Exp!SyncLevel(d) \/ Exp!SyncExp(d)
  PROVE  ExpInv'
<1> DEFINE a == award[d]
           M == [t : {"map_init", "exp_gain"}, r : Stats]
<1>1. /\ ExpTypes /\ d \in 1..MaxKills
      /\ a \in [s : Int, at : {"idle", "tx", "level", "exp"}, got : Stats]
      /\ a.at \in {"level", "exp"} /\ a.got \in Stats /\ Granted(a.got)
  BY DEF ExpInv, ExpTypes, Exp!Kills, Exp!SyncLevel, Exp!SyncExp
<1>2. /\ UNCHANGED <<row, online, sessions, death, earned, lastSelf, bar>>
      /\ \E n \in [s : Int, at : {"exp", "idle"}, got : Stats] :
           award' = [award EXCEPT ![d] = n] /\ (n.at = "exp" => n.got = a.got)
      /\ \/ sess' = [sess EXCEPT ![a.s].level = a.got.level]
         \/ sess' = [sess EXCEPT ![a.s].exp = a.got.exp]
      /\ toBar' = toBar \/ toBar' = Append(toBar, [t |-> "exp_gain", r |-> a.got])
  <2>1. CASE Exp!SyncLevel(d)
    <3>1. [a EXCEPT !.at = "exp"] \in [s : Int, at : {"exp", "idle"}, got : Stats]
          /\ [a EXCEPT !.at = "exp"].got = a.got
      BY <1>1
    <3> QED BY <2>1, <3>1 DEF Exp!SyncLevel
  <2>2. CASE Exp!SyncExp(d)
    <3>1. /\ [Exp!Idle EXCEPT !.s = a.s] \in [s : Int, at : {"exp", "idle"}, got : Stats]
          /\ [Exp!Idle EXCEPT !.s = a.s].at = "idle"
      BY <1>1 DEF Exp!Idle, Exp!Start, Stats
    <3> QED BY <2>2, <3>1 DEF Exp!SyncExp
  <2> QED BY <2>1, <2>2
<1> HIDE DEF a
<1>3. PICK n \in [s : Int, at : {"exp", "idle"}, got : Stats] :
        award' = [award EXCEPT ![d] = n] /\ (n.at = "exp" => n.got = a.got)
  BY <1>2
<1>4. ASSUME NEW k \in 1..MaxSessions
      PROVE  sess'[k] \in Stats /\ Granted(sess'[k])
  <2>1. /\ sess[k] \in Stats /\ Granted(sess[k]) /\ sess \in [1..MaxSessions -> Stats]
    BY <1>1 DEF ExpInv, ExpTypes
  <2>2. \/ sess'[k] = sess[k] \/ sess'[k] = [sess[k] EXCEPT !.level = a.got.level]
        \/ sess'[k] = [sess[k] EXCEPT !.exp = a.got.exp]
    <3>1. CASE sess' = [sess EXCEPT ![a.s].level = a.got.level]
      BY <2>1, <3>1
    <3>2. CASE sess' = [sess EXCEPT ![a.s].exp = a.got.exp]
      BY <2>1, <3>2
    <3> QED BY <1>2, <3>1, <3>2
  <2> QED BY <1>1, <2>1, <2>2 DEF Granted, Stats
<1>5. sess' \in [1..MaxSessions -> Stats]
  <2>1. sess \in [1..MaxSessions -> Stats]
    BY <1>1 DEF ExpTypes
  <2>2. DOMAIN sess' = 1..MaxSessions /\ sess' = [k \in 1..MaxSessions |-> sess'[k]]
    BY <1>2, <2>1
  <2> QED BY <1>4, <2>2
<1>6. /\ award' \in [1..MaxKills -> [s : Int, at : {"idle", "tx", "level", "exp"}, got : Stats]]
      /\ \A k \in 1..MaxKills : award'[k].at \in {"level", "exp"} => Granted(award'[k].got)
  BY <1>1, <1>3 DEF ExpInv, ExpTypes
<1>7. toBar' \in Seq(M) /\ \A k \in 1..Len(toBar') : toBar'[k].r.exp <= earned
  <2>1. toBar \in Seq(M) /\ \A k \in 1..Len(toBar) : toBar[k].r.exp <= earned
    BY <1>1 DEF ExpInv, ExpTypes
  <2>2. CASE toBar' = Append(toBar, [t |-> "exp_gain", r |-> a.got])
    <3> DEFINE e == [t |-> "exp_gain", r |-> a.got]
    <3>1. e \in M /\ e.r.exp <= earned
      BY <1>1 DEF Granted
    <3> HIDE DEF e, M
    <3>2. toBar' = Append(toBar, e)
      BY <2>2 DEF e
    <3>3. /\ Append(toBar, e) \in Seq(M) /\ Len(toBar) \in Nat
          /\ Len(Append(toBar, e)) = Len(toBar) + 1 /\ Append(toBar, e)[Len(toBar) + 1] = e
          /\ \A k \in 1..Len(toBar) : Append(toBar, e)[k] = toBar[k]
      BY <2>1, <3>1
    <3> QED BY <2>1, <3>1, <3>2, <3>3
  <2> QED BY <1>2, <2>1, <2>2
<1>8. ExpTypes'
  BY <1>1, <1>2, <1>5, <1>6, <1>7 DEF ExpTypes
<1> QED BY <1>2, <1>4, <1>6, <1>7, <1>8 DEF ExpInv, Granted

LEMMA ExpPenalty ==
  ASSUME ExpInv, NEW d \in Exp!Deaths, Exp!Penalty(d) \/ Exp!PenaltySet(d) \/ Exp!PenaltyRow(d)
  PROVE  ExpInv'
<1> DEFINE D == [s : Int, at : {"idle", "set", "row"}, got : Stats]
           a == death[d]
<1>1. ExpTypes /\ d \in 1..MaxDeaths /\ a \in D
  BY DEF ExpInv, ExpTypes, Exp!Deaths
<1>2. /\ UNCHANGED <<online, sessions, award, earned, toBar, lastSelf, bar>>
      /\ \E n \in D : death' = [death EXCEPT ![d] = n] /\ (n.at # "idle" => n.got.exp <= earned)
      /\ \/ UNCHANGED <<row, sess>>
         \/ /\ a.at = "set" /\ sess' = [sess EXCEPT ![a.s].exp = a.got.exp] /\ UNCHANGED row
         \/ /\ a.at = "row" /\ row' = [row EXCEPT !.exp = a.got.exp] /\ UNCHANGED sess
  <2>1. CASE Exp!Penalty(d)
    <3> DEFINE y == sess[online].exp
               z == (y * Percent) \div 100
               w == IF y < z THEN 0 ELSE y - z
               n == [s |-> online, at |-> "set", got |-> [exp |-> w, level |-> 1]]
    <3>1. /\ online # 0 /\ z > 0 /\ death' = [death EXCEPT ![d] = n]
          /\ UNCHANGED <<row, sess, online, sessions, award, earned, toBar, lastSelf, bar>>
      <4>1. [[exp |-> 0, level |-> 1] EXCEPT !.exp = w] = [exp |-> w, level |-> 1]
        OBVIOUS
      <4>2. /\ online # 0 /\ z > 0
            /\ death' = [death EXCEPT ![d] = [s |-> online, at |-> "set",
                           got |-> [[exp |-> 0, level |-> 1] EXCEPT !.exp = w]]]
            /\ UNCHANGED <<row, sess, online, sessions, award, earned, toBar, lastSelf, bar>>
        BY <2>1, Zenon DEF Exp!Penalty, Exp!Start
      <4> QED BY <4>1, <4>2, Zenon
    <3>2. online \in 1..MaxSessions /\ online \in Int
      <4>1. sessions \in 0..MaxSessions /\ online \in 0..sessions
        BY <1>1 DEF ExpTypes
      <4> QED BY <3>1, <4>1, ConstantsAssumption
    <3>3. sess[online] \in Stats /\ Granted(sess[online])
      BY <1>1, <3>2 DEF ExpInv, ExpTypes
    <3>4. y \in Int /\ y <= earned /\ earned \in Nat
      BY <1>1, <3>3 DEF ExpTypes, Stats, Granted
    <3> HIDE DEF y
    <3>5. y * Percent \in Int
      BY <3>4, ConstantsAssumption
    <3>6. z \in Int
      BY <3>5
    <3> HIDE DEF z
    <3>7. w \in Int /\ w <= earned
      BY <3>1, <3>4, <3>6
    <3> HIDE DEF w
    <3>8. n \in D /\ n.got.exp = w
      BY <3>2, <3>7 DEF Stats
    <3> HIDE DEF n
    <3> QED BY <3>1, <3>7, <3>8
  <2>2. CASE Exp!PenaltySet(d)
    <3> DEFINE n == [a EXCEPT !.at = "row"]
    <3>1. n \in D /\ n.got = a.got
      BY <1>1
    <3>2. /\ a.at = "set" /\ death' = [death EXCEPT ![d] = n]
          /\ sess' = [sess EXCEPT ![a.s].exp = a.got.exp]
          /\ UNCHANGED <<row, online, sessions, award, earned, toBar, lastSelf, bar>>
      BY <2>2 DEF Exp!PenaltySet
    <3>3. a.got.exp <= earned
      BY <1>1, <3>2 DEF ExpInv
    <3> QED BY <3>1, <3>2, <3>3
  <2>3. CASE Exp!PenaltyRow(d)
    <3> DEFINE n == [Exp!Idle EXCEPT !.s = a.s]
    <3>1. n \in D /\ n.at = "idle"
      BY <1>1 DEF Exp!Idle, Exp!Start, Stats
    <3>2. /\ a.at = "row" /\ death' = [death EXCEPT ![d] = n]
          /\ row' = [row EXCEPT !.exp = a.got.exp]
          /\ UNCHANGED <<sess, online, sessions, award, earned, toBar, lastSelf, bar>>
      BY <2>3 DEF Exp!PenaltyRow
    <3> QED BY <3>1, <3>2
  <2> QED BY <2>1, <2>2, <2>3
<1>3. a.at # "idle" => a.got.exp \in Int /\ a.got.exp <= earned
  BY <1>1 DEF ExpInv, Stats
<1> HIDE DEF a
<1>4. PICK n \in D : death' = [death EXCEPT ![d] = n] /\ (n.at # "idle" => n.got.exp <= earned)
  BY <1>2
<1>5. row' \in Stats /\ Granted(row')
  <2>1. row \in Stats /\ Granted(row)
    BY <1>1 DEF ExpInv, ExpTypes
  <2> QED BY <1>2, <1>3, <2>1 DEF Granted, Stats
<1>6. ASSUME NEW k \in 1..MaxSessions PROVE sess'[k] \in Stats /\ Granted(sess'[k])
  <2>1. /\ sess[k] \in Stats /\ Granted(sess[k]) /\ sess \in [1..MaxSessions -> Stats]
    BY <1>1 DEF ExpInv, ExpTypes
  <2>2. sess'[k] = sess[k] \/ (a.at = "set" /\ sess'[k] = [sess[k] EXCEPT !.exp = a.got.exp])
    BY <1>2, <2>1
  <2> QED BY <1>3, <2>1, <2>2 DEF Granted, Stats
<1>7. sess' \in [1..MaxSessions -> Stats]
  <2>1. sess \in [1..MaxSessions -> Stats]
    BY <1>1 DEF ExpTypes
  <2>2. DOMAIN sess' = 1..MaxSessions /\ sess' = [k \in 1..MaxSessions |-> sess'[k]]
    BY <1>2, <2>1
  <2> QED BY <1>6, <2>2
<1>8. /\ death' \in [1..MaxDeaths -> D]
      /\ \A k \in 1..MaxDeaths : death'[k].at # "idle" => death'[k].got.exp <= earned
  BY <1>1, <1>4 DEF ExpInv, ExpTypes
<1>9. ExpTypes'
  BY <1>1, <1>2, <1>5, <1>7, <1>8 DEF ExpTypes
<1> QED BY <1>2, <1>5, <1>6, <1>8, <1>9 DEF ExpInv, Granted

LEMMA ExpSession ==
  ASSUME ExpInv,
         Exp!Login \/ Exp!Disconnect \/ \E k \in 1..MaxSessions : Exp!SaveRow(k)
  PROVE  ExpInv'
<1> DEFINE M == [t : {"map_init", "exp_gain"}, r : Stats]
           e == [t |-> "map_init", r |-> row]
<1>1. ExpTypes /\ Granted(row) /\ sess \in [1..MaxSessions -> Stats] /\ row \in Stats
      /\ \A k \in 1..MaxSessions : Granted(sess[k])
  BY DEF ExpInv, ExpTypes
<1>0. sessions \in Nat /\ MaxSessions \in Nat
  <2>1. sessions \in 0..MaxSessions
    BY Zenon DEF ExpInv, ExpTypes
  <2>2. MaxSessions \in Nat
    BY Zenon, ConstantsAssumption
  <2> QED BY <2>1, <2>2
<1>2. CASE Exp!Login
  <2>1. /\ sessions < MaxSessions /\ sessions' = sessions + 1 /\ online' = sessions + 1
        /\ sess' = [sess EXCEPT ![sessions + 1] = row] /\ toBar' = <<e>>
        /\ UNCHANGED <<row, award, death, earned, lastSelf, bar>>
    BY <1>2 DEF Exp!Login
  <2>2. sessions' \in 0..MaxSessions /\ online' \in 0..sessions'
    <3>1. sessions \in Nat /\ MaxSessions \in Nat
      BY <1>0
    <3>2. sessions < MaxSessions /\ sessions' = sessions + 1 /\ online' = sessions + 1
      BY <2>1
    <3>3. ASSUME NEW n \in Nat, NEW h \in Nat, n < h
          PROVE  n + 1 \in 0..h /\ n + 1 \in 0..(n + 1)
      BY <3>3
    <3>4. sessions + 1 \in 0..MaxSessions /\ sessions + 1 \in 0..(sessions + 1)
      BY <3>1, <3>2, <3>3
    <3> QED BY <3>2, <3>4
  <2>3. sess' \in [1..MaxSessions -> Stats]
        /\ \A k \in 1..MaxSessions : sess'[k] \in {sess[k], row}
    BY <1>1, <2>1
  <2>4. e \in M /\ e.r = row
    BY <1>1
  <2> HIDE DEF e, M
  <2>5. toBar' \in Seq(M) /\ Len(toBar') = 1 /\ toBar'[1] = e
    BY <2>1, <2>4
  <2>6. \A k \in 1..Len(toBar') : toBar'[k].r.exp <= earned
    <3>1. \A k \in 1..Len(toBar') : k = 1
      BY <2>5
    <3> QED BY <1>1, <2>4, <2>5, <3>1 DEF Granted
  <2>7. ExpTypes'
    BY <1>1, <2>1, <2>2, <2>3, <2>5 DEF ExpTypes, M
  <2>8. \A k \in 1..MaxSessions : Granted(sess'[k])
    BY <1>1, <2>3
  <2> QED BY <1>1, <2>1, <2>6, <2>7, <2>8 DEF ExpInv, Granted
<1>3. CASE Exp!Disconnect
  <2>1. /\ online' = 0 /\ toBar' = <<>> /\ lastSelf' = [exp |-> 0, level |-> 1]
        /\ bar' = [exp |-> -1, level |-> 0]
        /\ UNCHANGED <<row, sess, sessions, award, death, earned>>
    BY <1>3 DEF Exp!Disconnect, Exp!Start, Exp!NoBar
  <2>2. /\ lastSelf' \in Stats /\ lastSelf'.exp = 0 /\ bar' \in [exp : Int, level : 0..99]
        /\ bar'.exp = -1 /\ online' \in 0..sessions
    <3>1. online' = 0 /\ sessions \in Nat
      BY <1>0, <2>1
    <3>2. lastSelf' = [exp |-> 0, level |-> 1] /\ bar' = [exp |-> -1, level |-> 0]
      BY <2>1
    <3>3. online' \in 0..sessions
      BY <3>1
    <3>4. lastSelf' \in Stats /\ lastSelf'.exp = 0
      BY <3>2 DEF Stats
    <3>5. bar' \in [exp : Int, level : 0..99] /\ bar'.exp = -1
      BY <3>2
    <3> QED BY <3>3, <3>4, <3>5
  <2>3. <<>> \in Seq(M) /\ Len(<<>>) = 0
    OBVIOUS
  <2>4. ExpTypes'
    BY <1>1, <2>1, <2>2, <2>3 DEF ExpTypes
  <2>5. earned \in Nat /\ lastSelf'.exp <= earned /\ bar'.exp <= earned
    BY <1>1, <2>2 DEF ExpTypes
  <2> QED BY <2>1, <2>3, <2>4, <2>5 DEF ExpInv, Granted
<1>4. ASSUME NEW k \in 1..MaxSessions, Exp!SaveRow(k) PROVE ExpInv'
  <2>1. row' = sess[k]
        /\ UNCHANGED <<sess, online, sessions, award, death, earned, toBar, lastSelf, bar>>
    BY <1>4 DEF Exp!SaveRow
  <2>2. row' \in Stats /\ Granted(row')
    BY <1>1, <2>1
  <2>3. ExpTypes'
    BY <1>1, <2>1, <2>2 DEF ExpTypes
  <2> QED BY <2>1, <2>2, <2>3 DEF ExpInv, Granted
<1> QED BY <1>2, <1>3, <1>4

LEMMA ExpClient ==
  ASSUME ExpInv, Exp!OnMapInit \/ Exp!OnExpGain \/ Exp!LeaveScene \/ Exp!CreateBar
  PROVE  ExpInv'
<1> DEFINE M == [t : {"map_init", "exp_gain"}, r : Stats]
           B == [exp : Int, level : 0..99]
           Within(r) == r.exp <= earned
<1>1. /\ ExpTypes /\ toBar \in Seq(M) /\ lastSelf \in Stats /\ bar \in B /\ earned \in Nat
      /\ Within(lastSelf) /\ Within(bar) /\ \A k \in 1..Len(toBar) : Within(toBar[k].r)
  BY DEF ExpInv, ExpTypes
<1>2. Exp!NoBar \in B /\ Within(Exp!NoBar)
  <2>1. Exp!NoBar \in B /\ Exp!NoBar.exp = -1
    BY DEF Exp!NoBar
  <2> QED BY <1>1, <2>1
<1>3. \A r \in Stats : r \in B
  BY DEF Stats
<1>4. \A e \in M : e.r \in Stats
  OBVIOUS
<1>5. /\ UNCHANGED <<row, sess, online, sessions, award, death, earned>>
      /\ \/ /\ toBar # <<>> /\ toBar' = Tail(toBar)
            /\ lastSelf' \in {lastSelf, Head(toBar).r} /\ bar' \in {Exp!NoBar, Head(toBar).r}
         \/ toBar' = toBar /\ lastSelf' = lastSelf /\ bar' \in {Exp!NoBar, lastSelf}
  BY DEF Exp!OnMapInit, Exp!OnExpGain, Exp!LeaveScene, Exp!CreateBar
<1> HIDE DEF M, Within, B
<1>6. toBar # <<>> => /\ Head(toBar) \in M /\ Within(Head(toBar).r) /\ Tail(toBar) \in Seq(M)
                      /\ \A k \in 1..Len(Tail(toBar)) : Within(Tail(toBar)[k].r)
  <2> SUFFICES ASSUME toBar # <<>>
               PROVE  /\ Head(toBar) \in M /\ Within(Head(toBar).r) /\ Tail(toBar) \in Seq(M)
                      /\ \A k \in 1..Len(Tail(toBar)) : Within(Tail(toBar)[k].r)
    OBVIOUS
  <2>1. /\ Len(toBar) \in Nat /\ Len(toBar) >= 1 /\ Head(toBar) = toBar[1] /\ Head(toBar) \in M
        /\ Tail(toBar) \in Seq(M) /\ Len(Tail(toBar)) = Len(toBar) - 1
        /\ \A k \in 1..Len(Tail(toBar)) : Tail(toBar)[k] = toBar[k + 1]
    BY <1>1
  <2>2. 1 \in 1..Len(toBar) /\ \A k \in 1..Len(Tail(toBar)) : k + 1 \in 1..Len(toBar)
    BY <2>1
  <2> QED BY <1>1, <2>1, <2>2
<1>7. /\ toBar' \in Seq(M) /\ lastSelf' \in Stats /\ bar' \in B
      /\ Within(lastSelf') /\ Within(bar') /\ \A k \in 1..Len(toBar') : Within(toBar'[k].r)
  BY <1>1, <1>2, <1>3, <1>4, <1>5, <1>6
<1>8. ExpTypes'
  BY <1>1, <1>5, <1>7 DEF ExpTypes, M, B
<1> QED BY <1>5, <1>7, <1>8 DEF ExpInv, Granted, Within

LEMMA ExpStep == ExpInv /\ [MCNext]_<<part, i, s, t, m, p, c, x, g, v, f, l>> => ExpInv'
<1> SUFFICES ASSUME ExpInv, [MCNext]_<<part, i, s, t, m, p, c, x, g, v, f, l>> PROVE ExpInv'
  OBVIOUS
<1>1. Exp!Next \/ UNCHANGED x
  BY DEF MCNext
<1>2. CASE UNCHANGED x
  BY <1>2 DEF x, ExpInv, ExpTypes, Granted
<1>3. CASE Exp!Next
  BY <1>3, ExpAward, ExpGoroutines, ExpSync, ExpPenalty, ExpSession, ExpClient DEF Exp!Next
<1> QED BY <1>1, <1>2, <1>3

\* No award, penalty, save or login, interleaved as they may be, makes or shows
\* experience or a level that was not granted, for any gain and percentage.
THEOREM NothingInvented == MCSpec => []NoneInvented
<1>1. MCInit => ExpInv
  BY ExpInitial DEF MCInit
<1>2. ExpInv => NoneInvented
  BY DEF ExpInv, Granted, NoneInvented, Exp!NoneInvented
<1> QED BY <1>1, <1>2, ExpStep, PTL DEF MCSpec
-----------------------------------------------------------------------------
(* Messages under way, and what the last of some kinds says *)

NoneOf(q, K) == \A k \in 1..Len(q) : q[k].t \notin K

\* The last message of the kinds K, if there is one, is in E.
LastIn(q, K, E) ==
  \A k \in 1..Len(q) :
    q[k].t \in K /\ (\A j \in 1..Len(q) : k < j => q[j].t \notin K) => q[k] \in E

LEMMA LastAppendIn ==
  ASSUME NEW M, NEW q \in Seq(M), NEW e \in M, NEW K, NEW E, e.t \in K, e \in E
  PROVE  LastIn(Append(q, e), K, E) /\ ~NoneOf(Append(q, e), K)
<1>1. Len(Append(q, e)) = Len(q) + 1 /\ Append(q, e)[Len(q) + 1] = e /\ Len(q) \in Nat
  OBVIOUS
<1> QED BY <1>1 DEF LastIn, NoneOf

LEMMA LastAppendOut ==
  ASSUME NEW M, NEW q \in Seq(M), NEW e \in M, NEW K, NEW E, e.t \notin K, LastIn(q, K, E)
  PROVE  LastIn(Append(q, e), K, E) /\ (NoneOf(Append(q, e), K) <=> NoneOf(q, K))
<1>1. /\ Len(Append(q, e)) = Len(q) + 1 /\ Append(q, e)[Len(q) + 1] = e /\ Len(q) \in Nat
      /\ \A k \in 1..Len(q) : Append(q, e)[k] = q[k]
  OBVIOUS
<1>2. LastIn(Append(q, e), K, E)
  BY <1>1 DEF LastIn
<1>3. NoneOf(Append(q, e), K) <=> NoneOf(q, K)
  BY <1>1 DEF NoneOf
<1> QED BY <1>2, <1>3

LEMMA LastTail ==
  ASSUME NEW M, NEW q \in Seq(M), q # <<>>, NEW K, NEW E, LastIn(q, K, E)
  PROVE  /\ LastIn(Tail(q), K, E)
         /\ NoneOf(Tail(q), K) =>
              /\ Head(q).t \in K => Head(q) \in E
              /\ Head(q).t \notin K => NoneOf(q, K)
<1>1. /\ Len(q) \in Nat /\ Len(q) >= 1 /\ Head(q) = q[1] /\ Len(Tail(q)) = Len(q) - 1
      /\ \A k \in 1..Len(Tail(q)) : Tail(q)[k] = q[k + 1]
  OBVIOUS
<1>2. \A k \in 2..Len(q) : k - 1 \in 1..Len(Tail(q)) /\ q[k] = Tail(q)[k - 1]
  <2> SUFFICES ASSUME NEW k \in 2..Len(q)
               PROVE  k - 1 \in 1..Len(Tail(q)) /\ q[k] = Tail(q)[k - 1]
    OBVIOUS
  <2>1. k - 1 \in 1..Len(Tail(q)) /\ (k - 1) + 1 = k
    BY <1>1
  <2> QED BY <1>1, <2>1
<1>3. LastIn(Tail(q), K, E)
  <2> SUFFICES ASSUME NEW k \in 1..Len(Tail(q)), Tail(q)[k].t \in K,
                      \A j \in 1..Len(Tail(q)) : k < j => Tail(q)[j].t \notin K
               PROVE  Tail(q)[k] \in E
    BY DEF LastIn
  <2>1. k + 1 \in 1..Len(q) /\ q[k + 1] = Tail(q)[k]
    BY <1>1
  <2>2. ASSUME NEW j \in 1..Len(q), k + 1 < j PROVE q[j].t \notin K
    <3>1. j \in 2..Len(q) /\ j - 1 \in 1..Len(Tail(q)) /\ k < j - 1
      BY <1>1, <2>2
    <3> QED BY <1>2, <3>1
  <2> QED BY <2>1, <2>2 DEF LastIn
<1>4. ASSUME NoneOf(Tail(q), K), NEW k \in 2..Len(q) PROVE q[k].t \notin K
  BY <1>2, <1>4 DEF NoneOf
<1>5. ASSUME NoneOf(Tail(q), K), q[1].t \in K PROVE q[1] \in E
  <2>1. 1 \in 1..Len(q) /\ \A j \in 1..Len(q) : 1 < j => j \in 2..Len(q)
    BY <1>1
  <2> QED BY <1>4, <1>5, <2>1 DEF LastIn
<1>6. ASSUME NoneOf(Tail(q), K), q[1].t \notin K PROVE NoneOf(q, K)
  <2>1. \A j \in 1..Len(q) : j = 1 \/ j \in 2..Len(q)
    BY <1>1
  <2> QED BY <1>4, <1>6, <2>1 DEF NoneOf
<1> QED BY <1>1, <1>3, <1>5, <1>6

LEMMA LastNone ==
  ASSUME NEW K, NEW E
  PROVE  LastIn(<<>>, K, E) /\ NoneOf(<<>>, K)
BY DEF LastIn, NoneOf

-----------------------------------------------------------------------------
(* The trade window *)

Terms == [mine : TradeOf!Golds, theirs : TradeOf!Golds, me : BOOLEAN, them : BOOLEAN]
Word(kinds) == [t : kinds]
TradeMessage ==
  Word({"request", "accepted", "done", "cancel", "failed"})
    \union [t : {"update"}, theirs : TradeOf!Golds, me : BOOLEAN, them : BOOLEAN]
TradeRequest == Word({"accept", "confirm", "cancel"}) \union [t : {"update"}, gold : TradeOf!Golds]

TradeTypes ==
  /\ trade \in Terms \union {NoTrade}
  /\ trade # NoTrade => ~(trade.me /\ trade.them)
  /\ fromTrade \in Seq(TradeMessage) /\ toTrade \in Seq(TradeRequest)
  /\ stray \in BOOLEAN /\ commitFailed \in BOOLEAN /\ onMap \in BOOLEAN /\ shown \in BOOLEAN
  /\ goldEditing \in BOOLEAN
  /\ myGold \in TradeOf!Golds /\ theirGold \in TradeOf!Golds /\ myConfirmed \in BOOLEAN
  /\ theirConfirmed \in BOOLEAN
  /\ (goldEditing => shown) /\ (shown => onMap)

\* What opens a window and what closes it.
Openings == {"accepted", "done", "cancel"}

\* What tells the terms, and the messages that tell those of a trade.
Tellings == {"accepted", "update"}
Telling(h) ==
  {e \in TradeMessage :
     IF e.t = "accepted" THEN h.theirs = 0 /\ ~h.me /\ ~h.them
     ELSE e.t = "update" /\ e.theirs = h.theirs /\ e.me = h.me /\ e.them = h.them}

\* A trade that is over is closed, or will be by the last message that matters.
Closing ==
  trade = NoTrade /\ ~commitFailed =>
    /\ LastIn(fromTrade, Openings, Word({"done", "cancel"}))
    /\ NoneOf(fromTrade, Openings) => ~shown

\* The terms of a trade are shown, or will be by the last message that tells any.
TermsTold ==
  trade # NoTrade /\ ~stray =>
    /\ LastIn(fromTrade, Tellings, Telling(trade))
    /\ NoneOf(fromTrade, Tellings) /\ shown =>
         theirGold = trade.theirs /\ myConfirmed = trade.me /\ theirConfirmed = trade.them

TradeInv == TradeTypes /\ Closing /\ TermsTold

LEMMA TradeInitial == TradeOf!Init => TradeInv
<1> SUFFICES ASSUME TradeOf!Init PROVE TradeInv
  OBVIOUS
<1>1. /\ trade = NoTrade /\ stray = FALSE /\ toTrade = <<>> /\ fromTrade = <<>> /\ shown = FALSE
      /\ onMap = TRUE /\ myGold = 0 /\ theirGold = 0 /\ myConfirmed = FALSE
      /\ theirConfirmed = FALSE /\ goldEditing = FALSE /\ commitFailed = FALSE
  BY DEF TradeOf!Init
<1>2. <<>> \in Seq(TradeMessage) /\ <<>> \in Seq(TradeRequest)
  OBVIOUS
<1>3. 0 \in TradeOf!Golds
  BY ConstantsAssumption DEF TradeOf!Golds
<1>4. TradeTypes
  BY <1>1, <1>2, <1>3 DEF TradeTypes
<1> QED BY <1>1, <1>4, LastNone DEF TradeInv, Closing, TermsTold

\* What the server may do: take a request; tell the terms of a trade; end one; or tell of
\* something else, when no terms are due.
LEMMA TradeServes ==
  ASSUME TradeInv, UNCHANGED <<onMap, shown, myGold, theirGold, myConfirmed, theirConfirmed, goldEditing>>,
         toTrade' \in Seq(TradeRequest), stray' \in BOOLEAN, commitFailed' \in BOOLEAN,
         \/ UNCHANGED <<trade, stray, commitFailed, fromTrade>>
         \/ /\ trade' \in Terms /\ ~(trade'.me /\ trade'.them)
            /\ \E e \in Telling(trade') : fromTrade' = Append(fromTrade, e)
         \/ /\ trade' = NoTrade
            /\ \/ commitFailed' /\ \E e \in TradeMessage : fromTrade' = Append(fromTrade, e)
               \/ \E e \in Word({"done", "cancel"}) : fromTrade' = Append(fromTrade, e)
         \/ /\ trade = NoTrade \/ stray
            /\ \E e \in TradeMessage : e.t \notin Openings /\ fromTrade' = Append(fromTrade, e)
            /\ UNCHANGED <<trade, stray, commitFailed>>
  PROVE  TradeInv'
<1>1. TradeTypes /\ Closing /\ TermsTold /\ fromTrade \in Seq(TradeMessage)
      /\ NoTrade \notin Terms
  BY ConstantsAssumption DEF TradeInv, TradeTypes, Terms, TradeOf!Golds
<1>2. ASSUME trade' \in Terms \union {NoTrade}, trade' # NoTrade => ~(trade'.me /\ trade'.them),
             fromTrade' \in Seq(TradeMessage)
      PROVE  TradeTypes'
  <2>1. /\ onMap \in BOOLEAN /\ shown \in BOOLEAN /\ goldEditing \in BOOLEAN
        /\ myGold \in TradeOf!Golds /\ theirGold \in TradeOf!Golds
        /\ myConfirmed \in BOOLEAN /\ theirConfirmed \in BOOLEAN
        /\ (goldEditing => shown) /\ (shown => onMap)
    BY <1>1 DEF TradeTypes
  <2>2. /\ onMap' \in BOOLEAN /\ shown' \in BOOLEAN /\ goldEditing' \in BOOLEAN
        /\ myGold' \in TradeOf!Golds /\ theirGold' \in TradeOf!Golds
        /\ myConfirmed' \in BOOLEAN /\ theirConfirmed' \in BOOLEAN
        /\ (goldEditing' => shown') /\ (shown' => onMap')
    BY <2>1
  <2>3. stray' \in BOOLEAN /\ commitFailed' \in BOOLEAN /\ onMap' \in BOOLEAN
        /\ shown' \in BOOLEAN /\ goldEditing' \in BOOLEAN
    BY <2>2
  <2> QED BY <1>2, <2>2, <2>3 DEF TradeTypes
<1>3. CASE UNCHANGED <<trade, stray, commitFailed, fromTrade>>
  <2>1. TradeTypes'
    BY <1>1, <1>2, <1>3 DEF TradeTypes
  <2> QED BY <1>1, <1>3, <2>1 DEF TradeInv, Closing, TermsTold
<1>4. CASE /\ trade' \in Terms /\ ~(trade'.me /\ trade'.them)
           /\ \E e \in Telling(trade') : fromTrade' = Append(fromTrade, e)
  <2>1. PICK e \in Telling(trade') : fromTrade' = Append(fromTrade, e)
    BY <1>4
  <2>2. e \in TradeMessage /\ e.t \in Tellings
    BY <2>1 DEF Telling, Tellings
  <2>3. LastIn(fromTrade', Tellings, Telling(trade')) /\ ~NoneOf(fromTrade', Tellings)
    BY <1>1, <2>1, <2>2, LastAppendIn
  <2>4. trade' # NoTrade /\ fromTrade' \in Seq(TradeMessage)
    BY <1>1, <1>4, <2>1, <2>2
  <2>5. TradeTypes'
    BY <1>2, <1>4, <2>4
  <2> QED BY <2>3, <2>4, <2>5 DEF TradeInv, Closing, TermsTold
<1>5. CASE /\ trade' = NoTrade
           /\ commitFailed' /\ \E e \in TradeMessage : fromTrade' = Append(fromTrade, e)
  <2>1. fromTrade' \in Seq(TradeMessage)
    BY <1>1, <1>5
  <2>2. TradeTypes'
    BY <1>2, <1>5, <2>1
  <2> QED BY <1>5, <2>2 DEF TradeInv, Closing, TermsTold
<1>6. CASE trade' = NoTrade /\ \E e \in Word({"done", "cancel"}) : fromTrade' = Append(fromTrade, e)
  <2>1. PICK e \in Word({"done", "cancel"}) : fromTrade' = Append(fromTrade, e)
    BY <1>6
  <2>2. e \in TradeMessage /\ e.t \in Openings
    BY <2>1 DEF TradeMessage, Openings, Word
  <2>3. LastIn(fromTrade', Openings, Word({"done", "cancel"})) /\ ~NoneOf(fromTrade', Openings)
    BY <1>1, <2>1, <2>2, LastAppendIn
  <2>4. fromTrade' \in Seq(TradeMessage)
    BY <1>1, <2>1, <2>2
  <2>5. TradeTypes'
    BY <1>2, <1>6, <2>4
  <2> QED BY <1>6, <2>3, <2>5 DEF TradeInv, Closing, TermsTold
<1>7. CASE /\ trade = NoTrade \/ stray
           /\ \E e \in TradeMessage : e.t \notin Openings /\ fromTrade' = Append(fromTrade, e)
           /\ UNCHANGED <<trade, stray, commitFailed>>
  <2>1. PICK e \in TradeMessage : e.t \notin Openings /\ fromTrade' = Append(fromTrade, e)
    BY <1>7
  <2>2. fromTrade' \in Seq(TradeMessage)
    BY <1>1, <2>1
  <2>3. TradeTypes'
    BY <1>1, <1>2, <1>7, <2>2 DEF TradeTypes
  <2>4. LastIn(fromTrade, Openings, Word({"done", "cancel"})) =>
          /\ LastIn(fromTrade', Openings, Word({"done", "cancel"}))
          /\ NoneOf(fromTrade', Openings) => NoneOf(fromTrade, Openings)
    BY <1>1, <2>1, LastAppendOut
  <2>5. Closing'
    BY <1>1, <1>7, <2>4 DEF Closing
  <2> QED BY <1>7, <2>3, <2>5 DEF TradeInv, TermsTold
<1> QED BY <1>3, <1>4, <1>5, <1>6, <1>7

LEMMA TradeServer == TradeInv /\ TradeOf!Server => TradeInv'
<1> SUFFICES ASSUME TradeInv, TradeOf!Server PROVE TradeInv'
  OBVIOUS
<1>1. /\ trade \in Terms \union {NoTrade} /\ (trade # NoTrade => ~(trade.me /\ trade.them))
      /\ toTrade \in Seq(TradeRequest) /\ stray \in BOOLEAN /\ commitFailed \in BOOLEAN
  <2>1. stray \in BOOLEAN /\ commitFailed \in BOOLEAN /\ onMap \in BOOLEAN
        /\ shown \in BOOLEAN /\ goldEditing \in BOOLEAN
    BY Zenon DEF TradeInv, TradeTypes
  <2>2. trade \in Terms \union {NoTrade} /\ toTrade \in Seq(TradeRequest)
    BY Zenon DEF TradeInv, TradeTypes
  <2>3. trade # NoTrade => ~(trade.me /\ trade.them)
    BY Zenon DEF TradeInv, TradeTypes
  <2> QED BY <2>1, <2>2, <2>3
<1>2. UNCHANGED <<onMap, shown, myGold, theirGold, myConfirmed, theirConfirmed, goldEditing>>
  BY DEF TradeOf!Server, TradeOf!RequestTrade, TradeOf!AcceptTrade, TradeOf!RefuseAccept,
         TradeOf!UpdateOffer, TradeOf!Confirm, TradeOf!Cancel, TradeOf!StrayUpdate,
         TradeOf!window, TradeOf!offers
<1>3. toTrade' = toTrade \/ (toTrade # <<>> /\ toTrade' = Tail(toTrade))
  BY DEF TradeOf!Server, TradeOf!RequestTrade, TradeOf!AcceptTrade, TradeOf!RefuseAccept,
         TradeOf!UpdateOffer, TradeOf!Confirm, TradeOf!Cancel, TradeOf!StrayUpdate,
         TradeOf!Requested, TradeOf!NoRequest
<1>4. toTrade' \in Seq(TradeRequest) /\ (toTrade # <<>> => Head(toTrade) \in TradeRequest)
  BY <1>1, <1>3
<1> DEFINE Taken == UNCHANGED <<trade, stray, commitFailed, fromTrade>>
           Tells == /\ trade' \in Terms /\ ~(trade'.me /\ trade'.them)
                    /\ \E e \in Telling(trade') : fromTrade' = Append(fromTrade, e)
           Ended == /\ trade' = NoTrade
                    /\ \/ commitFailed' /\ \E e \in TradeMessage : fromTrade' = Append(fromTrade, e)
                       \/ \E e \in Word({"done", "cancel"}) : fromTrade' = Append(fromTrade, e)
           Other == /\ trade = NoTrade \/ stray
                    /\ \E e \in TradeMessage :
                         e.t \notin Openings /\ fromTrade' = Append(fromTrade, e)
                    /\ UNCHANGED <<trade, stray, commitFailed>>
<1>5. stray' \in BOOLEAN /\ commitFailed' \in BOOLEAN /\ (Taken \/ Tells \/ Ended \/ Other)
  <2>1. ASSUME NEW h \in Terms, ~(h.me /\ h.them), trade' = h,
               fromTrade' = Append(fromTrade, TradeOf!State(h))
        PROVE  Tells
    <3>1. TradeOf!State(h) \in Telling(h)
      BY <2>1 DEF TradeOf!State, Telling, TradeMessage, Terms
    <3> QED BY <2>1, <3>1
  <2>2. CASE TradeOf!RequestTrade
    <3>1. [t |-> "request"] \in TradeMessage /\ "request" \notin Openings
      BY DEF TradeMessage, Word, Openings
    <3>2. trade = NoTrade /\ UNCHANGED <<trade, stray, commitFailed>>
          /\ fromTrade' = Append(fromTrade, [t |-> "request"])
      BY <2>2 DEF TradeOf!RequestTrade, TradeOf!Tell, TradeOf!table
    <3> QED BY <1>1, <3>1, <3>2
  <2>3. CASE TradeOf!AcceptTrade
    <3>1. /\ trade' = TradeOf!NewTrade /\ commitFailed' = FALSE
          /\ stray' = (stray \/ trade # NoTrade)
          /\ fromTrade' = Append(fromTrade, [t |-> "accepted"])
      BY <2>3 DEF TradeOf!AcceptTrade, TradeOf!Tell
    <3>2. /\ TradeOf!NewTrade \in Terms /\ ~TradeOf!NewTrade.me /\ ~TradeOf!NewTrade.them
          /\ TradeOf!NewTrade.theirs = 0
      BY ConstantsAssumption DEF TradeOf!NewTrade, Terms, TradeOf!Golds
    <3>3. [t |-> "accepted"] \in Telling(TradeOf!NewTrade)
      BY <3>2 DEF Telling, TradeMessage, Word
    <3> QED BY <1>1, <3>1, <3>2, <3>3
  <2>4. CASE TradeOf!RefuseAccept
    BY <1>1, <2>4 DEF TradeOf!RefuseAccept, TradeOf!table
  <2>5. CASE TradeOf!UpdateOffer
    <3>1. UNCHANGED <<stray, commitFailed>>
      BY <2>5 DEF TradeOf!UpdateOffer
    <3>2. CASE trade = NoTrade
      BY <1>1, <2>5, <3>1, <3>2 DEF TradeOf!UpdateOffer
    <3>3. CASE trade # NoTrade
      <4>1. /\ fromTrade' = Append(fromTrade, TradeOf!State(trade'))
            /\ \/ /\ toTrade # <<>> /\ Head(toTrade).t = "update"
                  /\ trade' = [trade EXCEPT !.mine = Head(toTrade).gold, !.me = FALSE]
               \/ \E u \in TradeOf!Golds : trade' = [trade EXCEPT !.theirs = u, !.them = FALSE]
        BY <2>5, <3>3 DEF TradeOf!UpdateOffer, TradeOf!Requested, TradeOf!NoRequest, TradeOf!Tell
      <4>2. toTrade # <<>> /\ Head(toTrade).t = "update" => Head(toTrade).gold \in TradeOf!Golds
        BY <1>4 DEF TradeRequest, Word
      <4>3. trade' \in Terms /\ ~(trade'.me /\ trade'.them)
        BY <1>1, <3>3, <4>1, <4>2 DEF Terms
      <4> QED BY <1>1, <2>1, <3>1, <4>1, <4>3
    <3> QED BY <3>2, <3>3
  <2>6. CASE TradeOf!Confirm
    <3>1. UNCHANGED stray
      BY <2>6 DEF TradeOf!Confirm
    <3>2. CASE trade = NoTrade
      BY <1>1, <2>6, <3>1, <3>2 DEF TradeOf!Confirm
    <3>3. CASE trade # NoTrade
      <4>1. \/ TradeOf!Confirmed([trade EXCEPT !.me = TRUE])
            \/ TradeOf!Confirmed([trade EXCEPT !.them = TRUE])
        BY <2>6, <3>3, Zenon DEF TradeOf!Confirm
      <4>2. /\ [trade EXCEPT !.me = TRUE] \in Terms /\ [trade EXCEPT !.them = TRUE] \in Terms
        BY <1>1, <3>3 DEF Terms
      <4>3. PICK h \in Terms : TradeOf!Confirmed(h)
        BY <4>1, <4>2, Zenon
      <4>4. CASE h.me /\ h.them
        <5>1. /\ trade' = NoTrade /\ commitFailed' \in BOOLEAN
              /\ fromTrade' = Append(fromTrade, [t |-> IF commitFailed' THEN "failed" ELSE "done"])
          BY <4>3, <4>4 DEF TradeOf!Confirmed, TradeOf!Commit, TradeOf!Tell
        <5>2. [t |-> "failed"] \in TradeMessage /\ [t |-> "done"] \in Word({"done", "cancel"})
          BY DEF TradeMessage, Word
        <5>3. Ended
          BY <5>1, <5>2
        <5> QED BY <1>1, <3>1, <5>1, <5>3
      <4>5. CASE ~(h.me /\ h.them)
        <5>1. trade' = h /\ fromTrade' = Append(fromTrade, TradeOf!State(h))
              /\ UNCHANGED commitFailed
          BY <4>3, <4>5 DEF TradeOf!Confirmed, TradeOf!Tell
        <5> QED BY <1>1, <2>1, <3>1, <4>5, <5>1
      <4> QED BY <4>4, <4>5
    <3> QED BY <3>2, <3>3
  <2>7. CASE TradeOf!Cancel
    <3>1. UNCHANGED commitFailed /\ stray' \in {stray, FALSE}
      BY <2>7 DEF TradeOf!Cancel
    <3>2. CASE trade = NoTrade
      BY <1>1, <2>7, <3>1, <3>2 DEF TradeOf!Cancel
    <3>3. CASE trade # NoTrade
      <4>1. trade' = NoTrade /\ fromTrade' = Append(fromTrade, [t |-> "cancel"])
        BY <2>7, <3>3 DEF TradeOf!Cancel, TradeOf!Tell
      <4>2. [t |-> "cancel"] \in Word({"done", "cancel"})
        BY DEF Word
      <4> QED BY <1>1, <3>1, <4>1, <4>2
    <3> QED BY <3>2, <3>3
  <2>8. CASE TradeOf!StrayUpdate
    <3>1. PICK u \in TradeOf!Golds :
            fromTrade' = Append(fromTrade, [t |-> "update", theirs |-> u, me |-> FALSE, them |-> FALSE])
      BY <2>8 DEF TradeOf!StrayUpdate, TradeOf!Tell
    <3>2. /\ [t |-> "update", theirs |-> u, me |-> FALSE, them |-> FALSE] \in TradeMessage
          /\ "update" \notin Openings
      BY DEF TradeMessage, Openings
    <3>3. stray /\ UNCHANGED <<trade, stray, commitFailed>>
      BY <2>8 DEF TradeOf!StrayUpdate, TradeOf!table
    <3> QED BY <1>1, <3>1, <3>2, <3>3
  <2> HIDE DEF Taken, Tells, Ended, Other
  <2> QED BY <2>2, <2>3, <2>4, <2>5, <2>6, <2>7, <2>8 DEF TradeOf!Server
<1> QED BY <1>2, <1>4, <1>5, TradeServes

LEMMA TradeMessages == TradeInv /\ TradeOf!Messages => TradeInv'
<1> SUFFICES ASSUME TradeInv, TradeOf!Messages PROVE TradeInv'
  OBVIOUS
<1> DEFINE e == Head(fromTrade)
<1>1. TradeTypes /\ Closing /\ TermsTold /\ fromTrade \in Seq(TradeMessage)
  BY DEF TradeInv, TradeTypes
<1>2. /\ fromTrade # <<>> /\ fromTrade' = Tail(fromTrade)
      /\ UNCHANGED <<trade, stray, commitFailed, toTrade, onMap>>
  BY DEF TradeOf!Messages, TradeOf!OnRequest, TradeOf!OnAccepted, TradeOf!OnUpdate, TradeOf!OnEnd,
         TradeOf!OnFailed, TradeOf!Told, TradeOf!table, TradeOf!window
<1>3. e \in TradeMessage /\ fromTrade' \in Seq(TradeMessage)
  BY <1>1, <1>2
<1>4. \/ /\ e.t \in {"request", "failed"}
         /\ UNCHANGED <<shown, myGold, theirGold, myConfirmed, theirConfirmed, goldEditing>>
      \/ /\ e.t = "accepted"
         /\ IF onMap THEN /\ shown' = TRUE /\ goldEditing' = FALSE /\ myGold' = 0
                          /\ theirGold' = 0 /\ myConfirmed' = FALSE /\ theirConfirmed' = FALSE
            ELSE UNCHANGED <<shown, myGold, theirGold, myConfirmed, theirConfirmed, goldEditing>>
      \/ /\ e.t = "update"
         /\ IF shown THEN theirGold' = e.theirs /\ myConfirmed' = e.me /\ theirConfirmed' = e.them
            ELSE UNCHANGED <<theirGold, myConfirmed, theirConfirmed>>
         /\ UNCHANGED <<shown, myGold, goldEditing>>
      \/ /\ e.t \in {"done", "cancel"} /\ shown' = FALSE /\ goldEditing' = FALSE
         /\ UNCHANGED <<myGold, theirGold, myConfirmed, theirConfirmed>>
  BY DEF TradeOf!Messages, TradeOf!OnRequest, TradeOf!OnAccepted, TradeOf!OnUpdate, TradeOf!OnEnd,
         TradeOf!OnFailed, TradeOf!Told, TradeOf!offers, TradeOf!window
<1>5. e.t = "update" => e.theirs \in TradeOf!Golds /\ e.me \in BOOLEAN /\ e.them \in BOOLEAN
  BY <1>3 DEF TradeMessage, Word
<1> HIDE DEF e
<1>6. TradeTypes'
  <2>1. /\ onMap \in BOOLEAN /\ shown \in BOOLEAN /\ goldEditing \in BOOLEAN
        /\ myGold \in TradeOf!Golds /\ theirGold \in TradeOf!Golds
        /\ myConfirmed \in BOOLEAN /\ theirConfirmed \in BOOLEAN
        /\ (goldEditing => shown) /\ (shown => onMap) /\ 0 \in TradeOf!Golds
    BY <1>1, ConstantsAssumption DEF TradeTypes, TradeOf!Golds
  <2>2. /\ shown' \in BOOLEAN /\ goldEditing' \in BOOLEAN
        /\ (goldEditing' => shown') /\ (shown' => onMap')
    <3>1. onMap' = onMap
      BY <1>2
    <3>2. \/ UNCHANGED <<shown, goldEditing>>
          \/ onMap /\ shown' = TRUE /\ goldEditing' = FALSE
          \/ shown' = FALSE /\ goldEditing' = FALSE
      BY <1>4, Zenon
    <3>3. CASE UNCHANGED <<shown, goldEditing>>
      BY <2>1, <3>1, <3>3, Zenon
    <3>4. CASE onMap /\ shown' = TRUE /\ goldEditing' = FALSE
      BY <3>1, <3>4, Zenon
    <3>5. CASE shown' = FALSE /\ goldEditing' = FALSE
      BY <3>5, Zenon
    <3> QED BY <3>2, <3>3, <3>4, <3>5, Zenon
  <2>3. myGold' \in TradeOf!Golds /\ theirGold' \in TradeOf!Golds /\ myConfirmed' \in BOOLEAN
        /\ theirConfirmed' \in BOOLEAN
    <3>1. myGold' \in {0, myGold} /\ theirGold' \in {0, theirGold, e.theirs}
      BY <1>4
    <3>2. /\ e.t = "update" => e.theirs \in TradeOf!Golds
          /\ theirGold' \in {0, theirGold} \/ (e.t = "update" /\ theirGold' = e.theirs)
      BY <1>4, <1>5
    <3>3. myGold' \in TradeOf!Golds /\ theirGold' \in TradeOf!Golds
      BY <2>1, <3>1, <3>2
    <3>4. myConfirmed' \in BOOLEAN /\ theirConfirmed' \in BOOLEAN
      BY <1>4, <1>5, <2>1
    <3> QED BY <3>3, <3>4
  <2>4. /\ trade' \in Terms \union {NoTrade} /\ (trade' # NoTrade => ~(trade'.me /\ trade'.them))
        /\ toTrade' \in Seq(TradeRequest) /\ stray' \in BOOLEAN /\ commitFailed' \in BOOLEAN
        /\ onMap' \in BOOLEAN
    <3>1. stray \in BOOLEAN /\ commitFailed \in BOOLEAN /\ onMap \in BOOLEAN
          /\ shown \in BOOLEAN /\ goldEditing \in BOOLEAN
      BY <1>1, Zenon DEF TradeTypes
    <3>2. trade \in Terms \union {NoTrade} /\ toTrade \in Seq(TradeRequest)
      BY <1>1, Zenon DEF TradeTypes
    <3>3. trade # NoTrade => ~(trade.me /\ trade.them)
      BY <1>1, Zenon DEF TradeTypes
    <3>4. trade' = trade /\ toTrade' = toTrade /\ stray' = stray /\ commitFailed' = commitFailed
          /\ onMap' = onMap
      BY <1>2
    <3>5. trade' # NoTrade => ~(trade'.me /\ trade'.them)
      BY <3>3, <3>4, Zenon
    <3> QED BY <3>1, <3>2, <3>4, <3>5
  <2>5. stray' \in BOOLEAN /\ commitFailed' \in BOOLEAN /\ onMap' \in BOOLEAN
        /\ shown' \in BOOLEAN /\ goldEditing' \in BOOLEAN
    BY <2>2, <2>4
  <2> QED BY <1>3, <2>2, <2>3, <2>4, <2>5 DEF TradeTypes
<1>7. Closing'
  <2> SUFFICES ASSUME trade = NoTrade, ~commitFailed
               PROVE  /\ LastIn(fromTrade', Openings, Word({"done", "cancel"}))
                      /\ NoneOf(fromTrade', Openings) => ~shown'
    BY <1>2 DEF Closing
  <2>1. /\ LastIn(fromTrade', Openings, Word({"done", "cancel"}))
        /\ NoneOf(fromTrade', Openings) =>
             /\ e.t \in Openings => e \in Word({"done", "cancel"})
             /\ e.t \notin Openings => NoneOf(fromTrade, Openings)
    BY <1>1, <1>2, LastTail DEF Closing, e
  <2>2. ASSUME NoneOf(fromTrade', Openings) PROVE ~shown'
    <3>1. CASE e.t \in Openings
      BY <1>4, <2>1, <2>2, <3>1 DEF Word
    <3>2. CASE e.t \notin Openings
      BY <1>1, <1>4, <2>1, <2>2, <3>2 DEF Closing, Openings
    <3> QED BY <3>1, <3>2
  <2> QED BY <2>1, <2>2
<1>8. TermsTold'
  <2> SUFFICES ASSUME trade # NoTrade, ~stray
               PROVE  /\ LastIn(fromTrade', Tellings, Telling(trade))
                      /\ NoneOf(fromTrade', Tellings) /\ shown' =>
                           /\ theirGold' = trade.theirs
                           /\ myConfirmed' = trade.me /\ theirConfirmed' = trade.them
    BY <1>2 DEF TermsTold, Telling
  <2>1. /\ LastIn(fromTrade', Tellings, Telling(trade))
        /\ NoneOf(fromTrade', Tellings) =>
             /\ e.t \in Tellings => e \in Telling(trade)
             /\ e.t \notin Tellings => NoneOf(fromTrade, Tellings)
    BY <1>1, <1>2, LastTail DEF TermsTold, e
  <2>2. ASSUME NoneOf(fromTrade', Tellings), shown'
        PROVE  /\ theirGold' = trade.theirs
               /\ myConfirmed' = trade.me /\ theirConfirmed' = trade.them
    <3>1. /\ trade.me \in BOOLEAN /\ trade.them \in BOOLEAN /\ shown \in BOOLEAN
          /\ onMap \in BOOLEAN /\ (shown => onMap)
      <4>1. trade \in Terms
        <5>1. trade \in Terms \union {NoTrade}
          BY <1>1, Zenon DEF TradeTypes
        <5> QED BY <5>1
      <4>2. trade.me \in BOOLEAN /\ trade.them \in BOOLEAN
        BY <4>1 DEF Terms
      <4>3. stray \in BOOLEAN /\ commitFailed \in BOOLEAN /\ onMap \in BOOLEAN
            /\ shown \in BOOLEAN /\ goldEditing \in BOOLEAN /\ (shown => onMap)
        BY <1>1, Zenon DEF TradeTypes
      <4> QED BY <4>2, <4>3
    <3>2. CASE e.t \in Tellings
      <4>1. IF e.t = "accepted" THEN trade.theirs = 0 /\ ~trade.me /\ ~trade.them
            ELSE e.t = "update" /\ e.theirs = trade.theirs /\ e.me = trade.me
            /\ e.them = trade.them
        BY <2>1, <2>2, <3>2 DEF Telling
      <4> QED BY <1>4, <2>2, <3>1, <4>1
    <3>3. CASE e.t \notin Tellings
      <4>1. UNCHANGED <<theirGold, myConfirmed, theirConfirmed>> /\ shown
        BY <1>4, <2>2, <3>3 DEF Tellings
      <4> QED BY <1>1, <2>1, <2>2, <3>3, <4>1 DEF TermsTold
    <3> QED BY <3>2, <3>3
  <2> QED BY <2>1, <2>2
<1> QED BY <1>6, <1>7, <1>8 DEF TradeInv

LEMMA TradePlayer == TradeInv /\ TradeOf!Player => TradeInv'
<1> SUFFICES ASSUME TradeInv, TradeOf!Player PROVE TradeInv'
  OBVIOUS
<1> DEFINE Acts == TradeOf!Respond \/ TradeOf!EditGold \/ TradeOf!SendOffer \/ TradeOf!Press
           Leaves == TradeOf!Terminate \/ TradeOf!CreateWindow
<1>1. TradeTypes /\ Closing /\ TermsTold /\ toTrade \in Seq(TradeRequest)
  BY DEF TradeInv, TradeTypes
<1>2. /\ stray \in BOOLEAN /\ commitFailed \in BOOLEAN /\ onMap \in BOOLEAN
      /\ shown \in BOOLEAN /\ goldEditing \in BOOLEAN
      /\ myConfirmed \in BOOLEAN /\ theirConfirmed \in BOOLEAN
      /\ (goldEditing => shown) /\ (shown => onMap)
  BY <1>1, Zenon DEF TradeTypes
<1>3. /\ trade \in Terms \union {NoTrade} /\ (trade # NoTrade => ~(trade.me /\ trade.them))
      /\ fromTrade \in Seq(TradeMessage) /\ myGold \in TradeOf!Golds /\ theirGold \in TradeOf!Golds
  BY <1>1, Zenon DEF TradeTypes
<1>4. <<>> \in Seq(TradeMessage) /\ <<>> \in Seq(TradeRequest) /\ 0 \in TradeOf!Golds
  <2>1. 0 \in TradeOf!Golds
    BY ConstantsAssumption DEF TradeOf!Golds
  <2> QED BY <2>1
<1>5. CASE Acts
  <2>1. UNCHANGED <<trade, stray, commitFailed, fromTrade, onMap, shown, theirGold, myConfirmed,
                    theirConfirmed>>
    BY <1>5 DEF TradeOf!Respond, TradeOf!EditGold, TradeOf!SendOffer, TradeOf!Press, TradeOf!table,
                TradeOf!offers, TradeOf!window
  <2>2. myGold' \in TradeOf!Golds /\ goldEditing' \in BOOLEAN /\ (goldEditing' => shown)
    <3>1. myGold' = myGold \/ myGold' \in TradeOf!Golds
      BY <1>5 DEF TradeOf!Respond, TradeOf!EditGold, TradeOf!SendOffer, TradeOf!Press,
                  TradeOf!offers, TradeOf!window
    <3>2. UNCHANGED goldEditing \/ (shown /\ goldEditing' = TRUE) \/ goldEditing' = FALSE
      BY <1>5 DEF TradeOf!Respond, TradeOf!EditGold, TradeOf!SendOffer, TradeOf!Press,
                  TradeOf!window
    <3>3. goldEditing' \in BOOLEAN /\ (goldEditing' => shown)
      <4>1. CASE UNCHANGED goldEditing
        <5>1. goldEditing' = goldEditing
          BY <4>1
        <5> QED BY <1>2, <5>1, Zenon
      <4>2. CASE shown /\ goldEditing' = TRUE
        BY <4>2
      <4>3. CASE goldEditing' = FALSE
        BY <4>3
      <4> QED BY <3>2, <4>1, <4>2, <4>3
    <3> QED BY <1>3, <3>1, <3>3
  <2>3. toTrade' = toTrade \/ \E e \in TradeRequest : toTrade' = Append(toTrade, e)
    <3>1. CASE toTrade' = toTrade
      BY <3>1
    <3>2. CASE TradeOf!SendOffer
      <4>1. toTrade' = Append(toTrade, [t |-> "update", gold |-> myGold'])
        BY <3>2 DEF TradeOf!SendOffer, TradeOf!Ask
      <4>2. [t |-> "update", gold |-> myGold'] \in TradeRequest
        BY <2>2 DEF TradeRequest
      <4> QED BY <4>1, <4>2
    <3>3. CASE toTrade' # toTrade /\ ~TradeOf!SendOffer
      <4>1. \E u \in {"accept", "confirm", "cancel"} : toTrade' = Append(toTrade, [t |-> u])
        BY <1>5, <3>3 DEF TradeOf!Respond, TradeOf!EditGold, TradeOf!Press, TradeOf!Ask
      <4>2. \A u \in {"accept", "confirm", "cancel"} : [t |-> u] \in TradeRequest
        BY DEF TradeRequest, Word
      <4> QED BY <4>1, <4>2
    <3> QED BY <3>1, <3>2, <3>3
  <2>4. toTrade' \in Seq(TradeRequest)
    BY <1>1, <2>3
  <2>5. TradeTypes'
    BY <1>2, <1>3, <2>1, <2>2, <2>4, Zenon DEF TradeTypes
  <2> QED BY <1>1, <2>1, <2>5 DEF TradeInv, Closing, TermsTold, Telling
<1>6. CASE Leaves
  <2>1. /\ UNCHANGED <<trade, stray, commitFailed, fromTrade>>
        /\ shown' = FALSE /\ goldEditing' = FALSE /\ onMap' \in BOOLEAN
    BY <1>6 DEF TradeOf!Terminate, TradeOf!CreateWindow, TradeOf!table
  <2>2. /\ myGold' \in {0, myGold} /\ theirGold' \in {0, theirGold}
        /\ myConfirmed' \in {FALSE, myConfirmed} /\ theirConfirmed' \in {FALSE, theirConfirmed}
    BY <1>6 DEF TradeOf!Terminate, TradeOf!CreateWindow, TradeOf!offers
  <2>3. toTrade' = toTrade \/ toTrade' = Append(toTrade, [t |-> "cancel"])
    BY <1>6 DEF TradeOf!Terminate, TradeOf!CreateWindow, TradeOf!Ask
  <2>4. [t |-> "cancel"] \in TradeRequest
    BY DEF TradeRequest, Word
  <2>5. toTrade' \in Seq(TradeRequest)
    BY <1>1, <2>3, <2>4
  <2>6. /\ myGold' \in TradeOf!Golds /\ theirGold' \in TradeOf!Golds
        /\ myConfirmed' \in BOOLEAN /\ theirConfirmed' \in BOOLEAN
    BY <1>2, <1>3, <1>4, <2>2
  <2>7. TradeTypes'
    BY <1>2, <1>3, <2>1, <2>5, <2>6, Zenon DEF TradeTypes
  <2> QED BY <1>1, <2>1, <2>7 DEF TradeInv, Closing, TermsTold, Telling
<1>7. CASE TradeOf!Disconnect
  <2>1. /\ trade' = NoTrade /\ toTrade' = <<>> /\ fromTrade' = <<>>
        /\ shown' = FALSE /\ goldEditing' = FALSE
        /\ UNCHANGED <<stray, commitFailed, onMap, myGold, theirGold, myConfirmed, theirConfirmed>>
    BY <1>7 DEF TradeOf!Disconnect, TradeOf!offers
  <2>2. TradeTypes'
    BY <1>2, <1>3, <1>4, <2>1, Zenon DEF TradeTypes
  <2> QED BY <2>1, <2>2, LastNone DEF TradeInv, Closing, TermsTold
<1> QED BY <1>5, <1>6, <1>7 DEF TradeOf!Player

LEMMA TradeStep == TradeInv /\ [MCNext]_<<part, i, s, t, m, p, c, x, g, v, f, l>> => TradeInv'
<1> SUFFICES ASSUME TradeInv, [MCNext]_<<part, i, s, t, m, p, c, x, g, v, f, l>> PROVE TradeInv'
  OBVIOUS
<1>1. TradeOf!Next \/ UNCHANGED t
  BY DEF MCNext
<1>2. CASE UNCHANGED t
  <2>1. UNCHANGED <<trade, stray, commitFailed, toTrade, fromTrade, onMap, shown, myGold,
                    theirGold, myConfirmed, theirConfirmed, goldEditing>>
    BY <1>2 DEF t
  <2> QED BY <2>1 DEF TradeInv, TradeTypes, Closing, TermsTold, Telling
<1>3. CASE TradeOf!Next
  BY <1>3, TradeServer, TradeMessages, TradePlayer DEF TradeOf!Next
<1> QED BY <1>1, <1>2, <1>3

-----------------------------------------------------------------------------
(* The panels of the map *)

PanelType == [exists : BOOLEAN, visible : BOOLEAN, hiddenByEvent : BOOLEAN]

\* A panel that an event has hidden comes back with its end.
Returns(h) == phase # "off" => h.visible \/ (h.hiddenByEvent /\ eventBusy)

PanelsInv ==
  /\ chat \in PanelType /\ panelBar \in PanelType /\ eventBusy \in BOOLEAN /\ eventOn \in BOOLEAN
  /\ Returns(chat) /\ Returns(panelBar) /\ (typing => chat.visible)

LEMMA PanelsInitial == Panels!Init => PanelsInv
<1> SUFFICES ASSUME Panels!Init PROVE PanelsInv
  OBVIOUS
<1>1. eventOn = FALSE /\ eventBusy = FALSE /\ phase = "off" /\ typing = FALSE
  BY DEF Panels!Init
<1>2. chat = Panels!NoPanel /\ panelBar = Panels!NoPanel
  BY DEF Panels!Init
<1>3. Panels!NoPanel \in PanelType
  BY DEF Panels!NoPanel, PanelType
<1>4. eventOn \in BOOLEAN /\ eventBusy \in BOOLEAN
  BY <1>1, Zenon
<1> QED BY <1>1, <1>2, <1>3, <1>4, Zenon DEF PanelsInv, Returns

LEMMA PanelsStep == PanelsInv /\ [MCNext]_<<part, i, s, t, m, p, c, x, g, v, f, l>> => PanelsInv'
<1> SUFFICES ASSUME PanelsInv, [MCNext]_<<part, i, s, t, m, p, c, x, g, v, f, l>> PROVE PanelsInv'
  OBVIOUS
<1>1. Panels!Next \/ UNCHANGED m
  BY DEF MCNext
<1>2. CASE UNCHANGED m
  BY <1>2 DEF m, PanelsInv, Returns
<1>3. CASE Panels!CreateAllWindows
  BY <1>3 DEF Panels!CreateAllWindows, Panels!Panel, PanelsInv, PanelType, Returns
<1>4. CASE Panels!Start
  BY <1>4 DEF Panels!Start, PanelsInv, PanelType, Returns
<1>5. CASE Panels!Terminate
  BY <1>5 DEF Panels!Terminate, Panels!NoPanel, PanelsInv, PanelType, Returns
<1>6. CASE Panels!HidePanels
  BY <1>6 DEF Panels!HidePanels, Panels!Hidden, Panels!Shown, PanelsInv, PanelType, Returns
<1>7. CASE Panels!Event
  BY <1>7 DEF Panels!Event, PanelsInv, Returns
<1>8. CASE Panels!Trigger \/ Panels!Escape \/ Panels!Enter \/ Panels!Blur
  BY <1>8 DEF Panels!Trigger, Panels!Escape, Panels!Enter, Panels!Blur, PanelsInv, Returns
<1> QED BY <1>1, <1>2, <1>3, <1>4, <1>5, <1>6, <1>7, <1>8 DEF Panels!Next

\* For any offers, sessions and scenes, a trade that is over closes its window, the
\* panels return after an event and a text field that keeps the keyboard is seen
\* (mmo-trade.js, mmo-core.js:930-960, mmo-chat.js).
THEOREM NothingLingers == MCSpec => []ScreenCleared
<1>1. MCInit => TradeInv /\ PanelsInv
  BY TradeInitial, PanelsInitial DEF MCInit
<1>2. TradeInv => TradeOf!ClosedWhenOver
  <2> SUFFICES ASSUME TradeInv, fromTrade = <<>>, shown, ~commitFailed PROVE trade # NoTrade
    BY DEF TradeOf!ClosedWhenOver, TradeOf!Quiet
  <2> QED BY LastNone DEF TradeInv, Closing
<1>3. PanelsInv => Panels!PanelsReturn /\ Panels!KeyboardFree
  BY DEF PanelsInv, Returns, Panels!PanelsReturn, Panels!KeyboardFree
<1>4. TradeInv /\ PanelsInv => ScreenCleared
  BY <1>2, <1>3 DEF ScreenCleared
<1>5. MCSpec => []TradeInv
  <2>1. MCInit => TradeInv
    BY <1>1
  <2> QED BY <2>1, TradeStep, PTL DEF MCSpec
<1>6. MCSpec => []PanelsInv
  <2>1. MCInit => PanelsInv
    BY <1>1
  <2> QED BY <2>1, PanelsStep, PTL DEF MCSpec
<1> QED BY <1>4, <1>5, <1>6, PTL

-----------------------------------------------------------------------------
(* The shop *)

Stock == [gold : Int, bag : [ShopOf!Goods -> Int]]
DealAsked == [t : {"buy", "sell"}, g : ShopOf!Goods, n : ShopOf!Qty] \union Word({"close"})

\* What a deal makes of gold and goods, when it is not refused.
Dealt(w, e) ==
  IF e.t = "buy"
  THEN [gold |-> w.gold - ShopOf!Price * e.n, bag |-> [w.bag EXCEPT ![e.g] = @ + e.n]]
  ELSE IF e.t = "sell"
  THEN [gold |-> w.gold + ShopOf!Half * e.n, bag |-> [w.bag EXCEPT ![e.g] = @ - e.n]]
  ELSE w

\* The deals under way lead from what the server has to what the party has.
Leads(q, w, h) ==
  /\ q \in Seq(Stock) /\ Len(q) = Len(toShop) + 1
  /\ q[1] = w /\ q[Len(q)] = h
  /\ \A k \in 1..Len(toShop) : q[k + 1] = Dealt(q[k], toShop[k])

Kept == [gold |-> gold, bag |-> bag]
OfParty == [gold |-> partyGold, bag |-> partyBag]

ShopInv ==
  /\ toShop \in Seq(DealAsked) /\ OfParty \in Stock /\ Kept \in Stock
  /\ ~refused => \E q \in Seq(Stock) : Leads(q, Kept, OfParty)

LEMMA DealtStock ==
  ASSUME NEW w \in Stock, NEW e \in DealAsked
  PROVE  Dealt(w, e) \in Stock
<1>1. CASE e.t = "close"
  BY <1>1 DEF Dealt
<1>2. CASE e.t # "close"
  <2>1. e \in [t : {"buy", "sell"}, g : ShopOf!Goods, n : ShopOf!Qty]
    BY <1>2 DEF DealAsked, Word
  <2>2. e.t \in {"buy", "sell"} /\ e.g \in ShopOf!Goods /\ e.n \in Int
    BY <2>1 DEF ShopOf!Qty
  <2>3. w.gold \in Int /\ w.bag \in [ShopOf!Goods -> Int] /\ w.bag[e.g] \in Int
    BY <2>2 DEF Stock
  <2>4. ShopOf!Price = 2 /\ ShopOf!Half = 1
    BY DEF ShopOf!Price, ShopOf!Half
  <2>5. CASE e.t = "buy"
    <3>1. Dealt(w, e) = [gold |-> w.gold - 2 * e.n, bag |-> [w.bag EXCEPT ![e.g] = @ + e.n]]
      BY <2>4, <2>5 DEF Dealt
    <3>2. w.gold - 2 * e.n \in Int /\ [w.bag EXCEPT ![e.g] = @ + e.n] \in [ShopOf!Goods -> Int]
      BY <2>2, <2>3
    <3> QED BY <3>1, <3>2 DEF Stock
  <2>6. CASE e.t = "sell"
    <3>1. Dealt(w, e) = [gold |-> w.gold + 1 * e.n, bag |-> [w.bag EXCEPT ![e.g] = @ - e.n]]
      BY <2>4, <2>6 DEF Dealt
    <3>2. w.gold + 1 * e.n \in Int /\ [w.bag EXCEPT ![e.g] = @ - e.n] \in [ShopOf!Goods -> Int]
      BY <2>2, <2>3
    <3> QED BY <3>1, <3>2 DEF Stock
  <2> QED BY <2>2, <2>5, <2>6
<1> QED BY <1>1, <1>2

LEMMA ShopInitial == ShopOf!Init => ShopInv
<1> SUFFICES ASSUME ShopOf!Init PROVE ShopInv
  OBVIOUS
<1>1. Kept \in Stock /\ OfParty = Kept /\ toShop = <<>>
  <2>1. gold = StartGold /\ bag = [y \in ShopOf!Goods |-> 0] /\ StartGold \in Int
    BY ConstantsAssumption DEF ShopOf!Init
  <2>2. partyGold = gold /\ partyBag = bag /\ toShop = <<>>
    BY DEF ShopOf!Init
  <2> QED BY <2>1, <2>2 DEF Kept, OfParty, Stock
<1>2. toShop \in Seq(DealAsked) /\ Len(toShop) = 0
  BY <1>1
<1>3. Leads(<<Kept>>, Kept, OfParty)
  <2>1. <<Kept>> \in Seq(Stock) /\ Len(<<Kept>>) = 1 /\ <<Kept>>[1] = Kept
    BY <1>1
  <2> QED BY <1>1, <1>2, <2>1 DEF Leads
<1> QED BY <1>1, <1>2, <1>3 DEF ShopInv, Leads

\* A deal that is asked for is done by the party at once.
LEMMA ShopAsks ==
  ASSUME ShopInv, NEW e \in DealAsked, toShop' = Append(toShop, e), OfParty' = Dealt(OfParty, e),
         UNCHANGED <<gold, bag, refused>>
  PROVE  ShopInv'
<1>1. toShop \in Seq(DealAsked) /\ OfParty \in Stock /\ Kept \in Stock /\ Kept' = Kept
  BY DEF ShopInv, Kept
<1>2. toShop' \in Seq(DealAsked) /\ OfParty' \in Stock
  BY <1>1, DealtStock
<1>3. ASSUME ~refused PROVE \E q \in Seq(Stock) : Leads(q, Kept, OfParty)'
  <2>1. PICK q \in Seq(Stock) : Leads(q, Kept, OfParty)
    BY <1>3 DEF ShopInv
  <2> DEFINE d == Dealt(OfParty, e)
             a == Append(q, d)
  <2>2. d \in Stock
    BY <1>1, DealtStock
  <2>3. /\ Len(q) = Len(toShop) + 1 /\ q[1] = Kept /\ q[Len(q)] = OfParty
        /\ \A k \in 1..Len(toShop) : q[k + 1] = Dealt(q[k], toShop[k])
    BY <2>1 DEF Leads
  <2> HIDE DEF d
  <2>4. /\ Len(toShop) \in Nat /\ Len(toShop') = Len(toShop) + 1 /\ toShop'[Len(toShop) + 1] = e
        /\ \A k \in 1..Len(toShop) : toShop'[k] = toShop[k]
    BY <1>1
  <2>5. /\ a \in Seq(Stock) /\ Len(a) = Len(q) + 1 /\ a[Len(q) + 1] = d
        /\ \A k \in 1..Len(q) : a[k] = q[k]
    BY <2>2
  <2> HIDE DEF a
  <2>6. Len(a) = Len(toShop') + 1 /\ a[1] = Kept' /\ a[Len(a)] = OfParty'
    BY <1>1, <2>3, <2>4, <2>5 DEF d
  <2>7. ASSUME NEW k \in 1..Len(toShop') PROVE a[k + 1] = Dealt(a[k], toShop'[k])
    <3>1. CASE k = Len(toShop) + 1
      <4>1. k = Len(q) /\ k \in 1..Len(q) /\ k + 1 = Len(q) + 1
        BY <2>3, <2>4, <3>1
      <4>2. a[k] = OfParty /\ a[k + 1] = d /\ toShop'[k] = e
        BY <2>3, <2>4, <2>5, <3>1, <4>1
      <4> QED BY <4>2 DEF d
    <3>2. CASE k # Len(toShop) + 1
      <4>1. k \in 1..Len(toShop) /\ k \in 1..Len(q) /\ k + 1 \in 1..Len(q)
        BY <2>3, <2>4, <3>2
      <4> QED BY <2>3, <2>4, <2>5, <4>1
    <3> QED BY <3>1, <3>2
  <2>8. PICK y \in Seq(Stock) : y = a
    BY <2>5
  <2>9. Leads(y, Kept, OfParty)'
    <3>1. /\ Len(y) = Len(toShop') + 1 /\ y[1] = Kept' /\ y[Len(y)] = OfParty'
          /\ \A k \in 1..Len(toShop') : y[k + 1] = Dealt(y[k], toShop'[k])
      BY <2>6, <2>7, <2>8
    <3> QED BY <3>1 DEF Leads, Dealt
  <2> QED BY <2>9
<1> QED BY <1>1, <1>2, <1>3 DEF ShopInv

\* A deal that is not refused is done by the server as it was by the party.
LEMMA ShopServes ==
  ASSUME ShopInv, toShop # <<>>, toShop' = Tail(toShop), UNCHANGED <<partyGold, partyBag>>,
         Kept' \in Stock, ~refused' => ~refused /\ Kept' = Dealt(Kept, Head(toShop))
  PROVE  ShopInv'
<1>1. toShop \in Seq(DealAsked) /\ OfParty \in Stock /\ OfParty' = OfParty
  BY DEF ShopInv, OfParty
<1>2. /\ toShop' \in Seq(DealAsked) /\ Len(toShop) \in Nat /\ Len(toShop) >= 1
      /\ Len(toShop') = Len(toShop) - 1 /\ Head(toShop) = toShop[1]
      /\ \A k \in 1..Len(toShop') : toShop'[k] = toShop[k + 1]
  BY <1>1
<1>3. ASSUME ~refused' PROVE \E q \in Seq(Stock) : Leads(q, Kept, OfParty)'
  <2>1. PICK q \in Seq(Stock) : Leads(q, Kept, OfParty)
    BY <1>3 DEF ShopInv
  <2> DEFINE a == Tail(q)
  <2>2. /\ Len(q) = Len(toShop) + 1 /\ q[1] = Kept /\ q[Len(q)] = OfParty
        /\ \A k \in 1..Len(toShop) : q[k + 1] = Dealt(q[k], toShop[k])
    BY <2>1 DEF Leads
  <2>3. /\ a \in Seq(Stock) /\ Len(a) = Len(q) - 1
        /\ \A k \in 1..Len(a) : a[k] = q[k + 1]
    BY <1>2, <2>2
  <2> HIDE DEF a
  <2>4. a[1] = Kept'
    <3>1. 1 \in 1..Len(a) /\ 1 \in 1..Len(toShop)
      BY <1>2, <2>2, <2>3
    <3>2. a[1] = q[1 + 1] /\ q[1 + 1] = Dealt(q[1], toShop[1])
      BY <2>2, <2>3, <3>1
    <3> QED BY <1>2, <1>3, <2>2, <3>2
  <2>5. a[Len(a)] = OfParty'
    <3>1. Len(a) \in 1..Len(a) /\ Len(a) + 1 = Len(q)
      BY <1>2, <2>2, <2>3
    <3> QED BY <1>1, <2>2, <2>3, <3>1
  <2>6. ASSUME NEW k \in 1..Len(toShop') PROVE a[k + 1] = Dealt(a[k], toShop'[k])
    <3>1. k \in 1..Len(a) /\ k + 1 \in 1..Len(a) /\ k + 1 \in 1..Len(toShop)
      BY <1>2, <2>2, <2>3
    <3>2. a[k] = q[k + 1] /\ a[k + 1] = q[(k + 1) + 1] /\ toShop'[k] = toShop[k + 1]
      BY <1>2, <2>3, <3>1
    <3> QED BY <2>2, <3>1, <3>2
  <2>7. Len(a) = Len(toShop') + 1
    BY <1>2, <2>2, <2>3
  <2>8. Leads(a, Kept, OfParty)'
    BY <2>3, <2>4, <2>5, <2>6, <2>7 DEF Leads, Dealt
  <2> QED BY <2>3, <2>8
<1> QED BY <1>1, <1>2, <1>3 DEF ShopInv

LEMMA ShopStep == ShopInv /\ [MCNext]_<<part, i, s, t, m, p, c, x, g, v, f, l>> => ShopInv'
<1> SUFFICES ASSUME ShopInv, [MCNext]_<<part, i, s, t, m, p, c, x, g, v, f, l>> PROVE ShopInv'
  OBVIOUS
<1>1. toShop \in Seq(DealAsked) /\ OfParty \in Stock /\ Kept \in Stock
  BY DEF ShopInv
<1>2. /\ gold \in Int /\ bag \in [ShopOf!Goods -> Int]
      /\ partyGold \in Int /\ partyBag \in [ShopOf!Goods -> Int]
  BY <1>1 DEF Kept, OfParty, Stock
<1>3. ASSUME UNCHANGED <<toShop, Kept, OfParty, refused>> PROVE ShopInv'
  BY <1>3 DEF ShopInv, Leads
<1>4. CASE UNCHANGED s
  BY <1>3, <1>4 DEF s, Kept, OfParty
<1>5. CASE \/ ShopOf!SendShopProcessing \/ ShopOf!OpenShop \/ ShopOf!OnBuyResult
           \/ ShopOf!OnSellResult \/ ShopOf!OnError
  <2>1. UNCHANGED <<toShop, gold, bag, partyGold, partyBag, refused>>
    BY <1>5 DEF ShopOf!SendShopProcessing, ShopOf!OpenShop, ShopOf!OnBuyResult, ShopOf!OnSellResult,
                ShopOf!OnError, ShopOf!Answered
  <2> QED BY <1>3, <2>1 DEF Kept, OfParty
<1>6. CASE ShopOf!DoBuy \/ ShopOf!DoSell
  <2>1. PICK y \in ShopOf!Goods, n \in ShopOf!Qty, u \in {"buy", "sell"} :
          /\ toShop' = Append(toShop, [t |-> u, g |-> y, n |-> n])
          /\ u = "buy" => /\ partyGold' = partyGold - ShopOf!Price * n
                          /\ partyBag' = [partyBag EXCEPT ![y] = @ + n]
          /\ u = "sell" => /\ partyGold' = partyGold + ShopOf!Half * n
                           /\ partyBag' = [partyBag EXCEPT ![y] = @ - n]
          /\ UNCHANGED <<gold, bag, refused>>
    BY <1>6 DEF ShopOf!DoBuy, ShopOf!DoSell
  <2> DEFINE e == [t |-> u, g |-> y, n |-> n]
  <2>2. e \in DealAsked
    BY DEF DealAsked
  <2>3. OfParty' = Dealt(OfParty, e)
    BY <2>1 DEF OfParty, Dealt
  <2> HIDE DEF e
  <2>4. toShop' = Append(toShop, e) /\ UNCHANGED <<gold, bag, refused>>
    BY <2>1 DEF e
  <2> QED BY <2>2, <2>3, <2>4, ShopAsks
<1>7. CASE ShopOf!Terminate
  <2> DEFINE e == [t |-> "close"]
  <2>1. e \in DealAsked
    BY DEF DealAsked, Word
  <2>2. toShop' = Append(toShop, e) /\ UNCHANGED <<gold, bag, refused, partyGold, partyBag>>
    BY <1>7 DEF ShopOf!Terminate
  <2>3. OfParty' = Dealt(OfParty, e)
    BY <2>2 DEF OfParty, Dealt
  <2> QED BY <2>1, <2>2, <2>3, ShopAsks
<1>8. CASE ShopOf!HandleShopBuy \/ ShopOf!HandleShopSell \/ ShopOf!HandleShopClose
  <2> DEFINE e == Head(toShop)
  <2>1. toShop # <<>> /\ toShop' = Tail(toShop) /\ UNCHANGED <<partyGold, partyBag>>
    BY <1>8 DEF ShopOf!HandleShopBuy, ShopOf!HandleShopSell, ShopOf!HandleShopClose, ShopOf!Request
  <2>2. e \in DealAsked
    BY <1>1, <2>1
  <2>3. \/ Kept' = Dealt(Kept, e) /\ (refused => refused')
        \/ Kept' = Kept /\ refused'
    <3>1. CASE ShopOf!HandleShopBuy
      <4>1. e.t = "buy"
        BY <3>1 DEF ShopOf!HandleShopBuy, ShopOf!Request
      <4> QED BY <3>1, <4>1 DEF ShopOf!HandleShopBuy, ShopOf!Deal, Kept, Dealt
    <3>2. CASE ShopOf!HandleShopSell
      <4>1. e.t = "sell"
        BY <3>2 DEF ShopOf!HandleShopSell, ShopOf!Request
      <4> QED BY <3>2, <4>1 DEF ShopOf!HandleShopSell, ShopOf!Deal, Kept, Dealt
    <3>3. CASE ShopOf!HandleShopClose
      <4>1. e.t = "close"
        BY <3>3 DEF ShopOf!HandleShopClose, ShopOf!Request
      <4> QED BY <3>3, <4>1 DEF ShopOf!HandleShopClose, Kept, Dealt
    <3> QED BY <1>8, <3>1, <3>2, <3>3
  <2> HIDE DEF e
  <2>4. ~refused' => ~refused /\ Kept' = Dealt(Kept, e)
    BY <2>3, Zenon
  <2>6. Kept' \in Stock
    BY <1>1, <2>2, <2>3, DealtStock
  <2> QED BY <2>1, <2>4, <2>6, ShopServes DEF e
<1>9. ShopOf!Next \/ UNCHANGED s
  BY DEF MCNext
<1> QED BY <1>4, <1>5, <1>6, <1>7, <1>8, <1>9 DEF ShopOf!Next

-----------------------------------------------------------------------------
(* The variables of events *)

Changed == [event : Events, value : Nat]

VarTypes ==
  /\ local \in [Events -> Nat] /\ lost \in [Events -> Nat] /\ values \in Nat
  /\ stored \in [Events \union {0} -> Nat]
  /\ queued \in Seq(Changed) /\ toPage \in Seq(Changed) /\ toServer \in Seq(Seq(Changed))

\* The server's changes of an event are heard in the order they were made, the last of them
\* being what is stored.
InTurn(e) ==
  /\ lost[e] <= stored[e] /\ stored[e] <= values
  /\ \A k \in 1..Len(toPage) : toPage[k].event = e => toPage[k].value <= stored[e]
  /\ \A j, k \in 1..Len(toPage) :
       j < k /\ toPage[j].event = e /\ toPage[k].event = e => toPage[j].value < toPage[k].value

\* What is stored of an event is on its way to the page, was lost, or is what the page
\* has, unless the page has set it since.
Heard(e) ==
  \/ \E k \in 1..Len(toPage) : toPage[k] = [event |-> e, value |-> stored[e]]
  \/ lost[e] = stored[e]
  \/ /\ \A k \in 1..Len(toPage) : toPage[k].event # e
     /\ e \in own \/ local[e] = stored[e]

\* A change waits only while a timeout is running.
FlushDue ==
  /\ flushTimer \in BOOLEAN /\ timeouts \in Nat
  /\ queued # <<>> => flushTimer
  /\ flushTimer => timeouts > 0

VarsInv == VarTypes /\ FlushDue /\ \A e \in Events : InTurn(e) /\ Heard(e)

LEMMA VarsInitial == Vars!Init => VarsInv
<1> SUFFICES ASSUME Vars!Init PROVE VarsInv
  OBVIOUS
<1>1. /\ local = [e \in Events |-> 0] /\ lost = [e \in Events |-> 0] /\ values = 0
      /\ stored = [e \in Events \union {0} |-> 0]
      /\ queued = <<>> /\ toPage = <<>> /\ toServer = <<>> /\ flushTimer = FALSE /\ timeouts = 0
  BY DEF Vars!Init, Vars!Unnamed
<1>2. <<>> \in Seq(Changed) /\ <<>> \in Seq(Seq(Changed)) /\ Len(<<>>) = 0
  OBVIOUS
<1>3. VarTypes
  BY <1>1, <1>2 DEF VarTypes
<1>4. \A e \in Events : lost[e] = 0 /\ stored[e] = 0
  BY <1>1
<1>5. ASSUME NEW e \in Events PROVE InTurn(e) /\ Heard(e)
  BY <1>1, <1>2, <1>4 DEF InTurn, Heard
<1> QED BY <1>1, <1>3, <1>5 DEF VarsInv, FlushDue

\* The batches hold what was queued.
LEMMA BatchesTyped ==
  ASSUME NEW q \in Seq(Changed)
  PROVE  Vars!Batches(q) \in Seq(Seq(Changed))
<1> DEFINE n == Len(q)
           count == (n + BatchSize - 1) \div BatchSize
           end(j) == IF j < count THEN j * BatchSize ELSE n
<1>1. n \in Nat /\ BatchSize \in Nat /\ BatchSize >= 1 /\ n + BatchSize - 1 \in Nat
  BY ConstantsAssumption
<1>2. count \in Nat /\ count * BatchSize <= n + BatchSize - 1
  BY <1>1
<1>3. ASSUME NEW j \in 1..count PROVE SubSeq(q, (j - 1) * BatchSize + 1, end(j)) \in Seq(Changed)
  <2>1. (j - 1) * BatchSize \in Nat
    BY <1>1, <1>2
  <2>2. end(j) \in Nat /\ end(j) <= n
    <3>1. CASE j < count
      <4>1. j * BatchSize \in Nat /\ j + 1 <= count
        BY <1>1, <1>2, <3>1
      <4>2. (j + 1) * BatchSize <= count * BatchSize
        BY <1>1, <1>2, <4>1
      <4>3. (j + 1) * BatchSize = j * BatchSize + BatchSize
        BY <1>1, <4>1
      <4>4. count * BatchSize \in Int
        BY <1>1, <1>2
      <4>5. j * BatchSize <= n
        <5> HIDE DEF count
        <5> QED BY <1>1, <1>2, <4>1, <4>2, <4>3, <4>4
      <4> QED BY <3>1, <4>1, <4>5
    <3>2. CASE ~(j < count)
      BY <1>1, <3>2
    <3> QED BY <3>1, <3>2
  <2> HIDE DEF end, n
  <2>3. (j - 1) * BatchSize + 1 \in Int /\ (j - 1) * BatchSize + 1 >= 1
    BY <2>1
  <2> QED BY <2>2, <2>3 DEF n
<1>4. Vars!Batches(q) = [j \in 1..count |-> SubSeq(q, (j - 1) * BatchSize + 1, end(j))]
  BY DEF Vars!Batches
<1> HIDE DEF count, end, n
<1> QED BY <1>2, <1>3, <1>4

\* A step that leaves the server's changes alone.
LEMMA VarsKeep ==
  ASSUME VarsInv, UNCHANGED <<toPage, lost>>, values' \in Nat, values <= values', own \subseteq own',
         \A e \in Events : stored'[e] = stored[e] /\ (e \in own' \/ local'[e] = local[e])
  PROVE  \A e \in Events : (InTurn(e) /\ Heard(e))'
<1> SUFFICES ASSUME NEW e \in Events PROVE (InTurn(e) /\ Heard(e))'
  OBVIOUS
<1>1. InTurn(e) /\ Heard(e) /\ stored'[e] = stored[e] /\ (e \in own' \/ local'[e] = local[e])
  BY DEF VarsInv
<1>2. stored[e] \in Nat /\ values \in Nat
  BY DEF VarsInv, VarTypes
<1>3. InTurn(e)'
  BY <1>1, <1>2 DEF InTurn
<1>4. Heard(e)'
  BY <1>1 DEF Heard
<1> QED BY <1>3, <1>4

LEMMA VarsPage ==
  ASSUME VarsInv,
         \/ Vars!Poll \/ Vars!Timeout \/ Vars!Terminate \/ Vars!Connect
         \/ \E e \in Events : Vars!SetVariableValue(e)
  PROVE  VarsInv'
<1>1. /\ VarTypes /\ FlushDue /\ values \in Nat /\ queued \in Seq(Changed)
      /\ local \in [Events -> Nat]
  BY DEF VarsInv, VarTypes
<1>2. CASE Vars!Poll \/ Vars!Connect
  <2>1. UNCHANGED <<local, lost, values, stored, queued, toPage, toServer, own, flushTimer, timeouts>>
    BY <1>2 DEF Vars!Poll, Vars!Connect
  <2> QED BY <1>1, <2>1, VarsKeep DEF VarsInv, VarTypes, FlushDue
<1>3. CASE Vars!Timeout \/ Vars!Terminate
  <2>1. /\ UNCHANGED <<local, lost, values, stored, toPage, own>>
        /\ flushTimer' = FALSE /\ queued' = <<>>
        /\ toServer' = toServer \/ toServer' = toServer \o Vars!Batches(queued)
    BY <1>3 DEF Vars!Timeout, Vars!Terminate, Vars!FlushChanges
  <2>2. timeouts' = timeouts \/ (timeouts > 0 /\ timeouts' = timeouts - 1)
    BY <1>3 DEF Vars!Timeout, Vars!Terminate
  <2>3. queued' \in Seq(Changed) /\ toServer' \in Seq(Seq(Changed))
    <3>1. toServer \in Seq(Seq(Changed)) /\ Vars!Batches(queued) \in Seq(Seq(Changed))
      BY <1>1, BatchesTyped DEF VarTypes
    <3>2. toServer \o Vars!Batches(queued) \in Seq(Seq(Changed))
      BY <3>1
    <3>3. <<>> \in Seq(Changed)
      OBVIOUS
    <3>4. toServer' \in Seq(Seq(Changed))
      <4> DEFINE y == toServer \o Vars!Batches(queued)
      <4> HIDE DEF y
      <4> QED BY <2>1, <3>1, <3>2 DEF y
    <3> QED BY <2>1, <3>3, <3>4
  <2>4. VarTypes'
    BY <1>1, <2>1, <2>3 DEF VarTypes
  <2>5. FlushDue'
    <3>1. timeouts' \in Nat
      BY <1>1, <2>2 DEF FlushDue
    <3>2. flushTimer' = FALSE /\ queued' = <<>>
      BY <2>1
    <3> QED BY <3>1, <3>2 DEF FlushDue
  <2> QED BY <1>1, <2>1, <2>4, <2>5, VarsKeep DEF VarsInv
<1>4. ASSUME NEW e \in Events, Vars!SetVariableValue(e) PROVE VarsInv'
  <2> DEFINE new == [event |-> e, value |-> values']
  <2>1. /\ values' = values + 1 /\ local' = [local EXCEPT ![e] = values'] /\ own' = own \union {e}
        /\ UNCHANGED <<toServer, toPage, stored, lost>>
        /\ \/ /\ queued' = Vars!Queued(new) /\ flushTimer' = TRUE
              /\ timeouts' = IF flushTimer THEN timeouts ELSE timeouts + 1
           \/ UNCHANGED <<queued, flushTimer, timeouts>>
    BY <1>4 DEF Vars!SetVariableValue, Vars!QueueChange
  <2>2. new \in Changed /\ values' \in Nat
    BY <1>1, <2>1 DEF Changed
  <2> HIDE DEF new
  <2>3. Vars!Queued(new) \in Seq(Changed)
    <3>1. Append(queued, new) \in Seq(Changed)
      BY <1>1, <2>2
    <3>2. [k \in DOMAIN queued |-> IF queued[k].event = new.event THEN new ELSE queued[k]] \in Seq(Changed)
      <4>1. DOMAIN queued = 1..Len(queued) /\ Len(queued) \in Nat
            /\ \A k \in 1..Len(queued) : queued[k] \in Changed
        BY <1>1
      <4> DEFINE a == [k \in 1..Len(queued) |-> IF queued[k].event = new.event THEN new ELSE queued[k]]
      <4>2. \A k \in 1..Len(queued) : a[k] \in Changed
        BY <2>2, <4>1
      <4>3. a \in Seq(Changed)
        BY <4>1, <4>2
      <4> QED BY <4>1, <4>3
    <3> QED BY <3>1, <3>2 DEF Vars!Queued
  <2>4. local' \in [Events -> Nat] /\ \A u \in Events : u \in own' \/ local'[u] = local[u]
    BY <1>1, <2>1, <2>2
  <2>5. queued' \in Seq(Changed)
    BY <1>1, <2>1, <2>3
  <2>6. VarTypes'
    BY <1>1, <2>1, <2>2, <2>4, <2>5 DEF VarTypes
  <2>7. FlushDue'
    <3>1. CASE UNCHANGED <<queued, flushTimer, timeouts>>
      BY <1>1, <3>1 DEF FlushDue
    <3>2. CASE flushTimer' = TRUE /\ timeouts' = IF flushTimer THEN timeouts ELSE timeouts + 1
      <4>1. timeouts' \in Nat /\ timeouts' > 0
        BY <1>1, <3>2 DEF FlushDue
      <4> QED BY <3>2, <4>1 DEF FlushDue
    <3> QED BY <2>1, <3>1, <3>2
  <2> QED BY <1>1, <2>1, <2>2, <2>4, <2>6, <2>7, VarsKeep DEF VarsInv
<1> QED BY <1>2, <1>3, <1>4

\* The changes of the page are stored under no event.
LEMMA VarsBatch ==
  ASSUME VarsInv, Vars!HandleSelfVarSetBatch
  PROVE  VarsInv'
<1> DEFINE a == Head(toServer)
           set(e) == {k \in DOMAIN a : Vars!Decoded(a[k]).event = e}
           latest(e) == CHOOSE k \in set(e) : \A j \in set(e) : j <= k
<1>1. /\ toServer # <<>> /\ toServer' = Tail(toServer)
      /\ stored' = [e \in DOMAIN stored |-> IF set(e) = {} THEN stored[e] ELSE a[latest(e)].value]
      /\ UNCHANGED <<local, own, lost, values, queued, toPage, flushTimer, timeouts>>
  BY DEF Vars!HandleSelfVarSetBatch
<1>2. /\ VarTypes /\ FlushDue /\ toServer \in Seq(Seq(Changed))
      /\ stored \in [Events \union {0} -> Nat] /\ values \in Nat
  BY DEF VarsInv, VarTypes
<1>3. a \in Seq(Changed) /\ toServer' \in Seq(Seq(Changed))
  BY <1>1, <1>2
<1> HIDE DEF a
<1>4. \A k \in DOMAIN a : a[k] \in Changed /\ Vars!Decoded(a[k]).event = 0
  <2>1. \A k \in DOMAIN a : a[k] \in Changed
    BY <1>3
  <2>2. \A w \in Changed : Vars!Decoded(w).event = 0
    BY DEF Changed, Vars!Decoded, Vars!Unnamed
  <2> QED BY <2>1, <2>2
<1>5. \A e \in Events : set(e) = {}
  BY <1>4, ConstantsAssumption
<1>6. \A e \in Events : stored'[e] = stored[e]
  BY <1>1, <1>2, <1>5
<1>7. set(0) # {} => a[latest(0)].value \in Nat
  <2> SUFFICES ASSUME set(0) # {} PROVE a[latest(0)].value \in Nat
    OBVIOUS
  <2>1. set(0) = 1..Len(a) /\ Len(a) \in Nat /\ Len(a) \in set(0)
    BY <1>3, <1>4
  <2>2. \A j \in set(0) : j <= Len(a)
    BY <2>1
  <2>3. latest(0) \in set(0)
    <3>1. \E k \in set(0) : \A j \in set(0) : j <= k
      BY <2>1, <2>2
    <3> HIDE DEF set
    <3> QED BY <3>1
  <2>4. a[latest(0)] \in Changed
    BY <1>4, <2>3
  <2> QED BY <2>4 DEF Changed
<1>8. stored' \in [Events \union {0} -> Nat]
  <2>1. DOMAIN stored = Events \union {0}
    BY <1>2
  <2>2. ASSUME NEW e \in Events \union {0}
        PROVE (IF set(e) = {} THEN stored[e] ELSE a[latest(e)].value) \in Nat
    <3>1. CASE e \in Events
      BY <1>2, <1>5, <3>1
    <3>2. CASE e = 0
      BY <1>2, <1>7, <3>2
    <3> QED BY <3>1, <3>2
  <2> HIDE DEF set, latest
  <2> QED BY <1>1, <2>1, <2>2
<1>9. VarTypes'
  BY <1>1, <1>2, <1>3, <1>8 DEF VarTypes
<1> HIDE DEF set, latest
<1>10. FlushDue'
  BY <1>1, <1>2 DEF FlushDue
<1> QED BY <1>1, <1>2, <1>6, <1>9, <1>10, VarsKeep DEF VarsInv

\* A change of the server's is heard, or comes before the page listens.
LEMMA VarsHears ==
  ASSUME VarsInv, Vars!OnSelfVarChange
  PROVE  VarsInv'
<1> DEFINE d == Head(toPage)
<1>1. /\ toPage # <<>> /\ toPage' = Tail(toPage)
      /\ \/ /\ lost' = [lost EXCEPT ![d.event] = IF d.value > @ THEN d.value ELSE @]
            /\ UNCHANGED <<local, own>>
         \/ /\ local' = [local EXCEPT ![d.event] = d.value] /\ own' = own \ {d.event}
            /\ UNCHANGED lost
      /\ UNCHANGED <<queued, flushTimer, timeouts, toServer, stored, values>>
  BY DEF Vars!OnSelfVarChange
<1>2. /\ VarTypes /\ FlushDue /\ toPage \in Seq(Changed)
      /\ local \in [Events -> Nat] /\ lost \in [Events -> Nat] /\ values \in Nat
      /\ stored \in [Events \union {0} -> Nat]
  BY DEF VarsInv, VarTypes
<1>3. /\ d \in Changed /\ d = toPage[1] /\ Len(toPage) \in Nat /\ Len(toPage) >= 1
      /\ Tail(toPage) \in Seq(Changed) /\ Len(Tail(toPage)) = Len(toPage) - 1
      /\ \A k \in 1..Len(toPage) - 1 : Tail(toPage)[k] = toPage[k + 1]
  BY <1>1, <1>2
<1>4. /\ toPage' \in Seq(Changed) /\ Len(toPage') = Len(toPage) - 1
      /\ \A k \in 1..Len(toPage') : toPage'[k] = toPage[k + 1] /\ k + 1 \in 1..Len(toPage) /\ k + 1 > 1
  BY <1>1, <1>3
<1> HIDE DEF d
<1>5. d.event \in Events /\ d.value \in Nat
  BY <1>3 DEF Changed
<1>6. local' \in [Events -> Nat] /\ lost' \in [Events -> Nat]
  BY <1>1, <1>2, <1>5
<1>7. VarTypes'
  BY <1>1, <1>2, <1>4, <1>6 DEF VarTypes
<1>8. FlushDue'
  BY <1>1, <1>2 DEF FlushDue
<1>9. ASSUME NEW e \in Events PROVE (InTurn(e) /\ Heard(e))'
  <2>1. /\ InTurn(e) /\ Heard(e) /\ stored[e] \in Nat /\ lost[e] \in Nat
        /\ stored'[e] = stored[e] /\ values' = values
    BY <1>1, <1>2 DEF VarsInv
  <2>2. e # d.event => lost'[e] = lost[e] /\ local'[e] = local[e] /\ (e \in own => e \in own')
    BY <1>1, <1>2
  <2>3. e = d.event =>
          /\ d.value <= stored[e]
          /\ \A k \in 1..Len(toPage) : k > 1 /\ toPage[k].event = e => d.value < toPage[k].value
    BY <1>3, <2>1 DEF InTurn
  <2>4. e = d.event =>
          \/ lost'[e] = (IF d.value > lost[e] THEN d.value ELSE lost[e])
          \/ lost'[e] = lost[e] /\ local'[e] = d.value
    BY <1>1, <1>2
  <2>5. lost'[e] <= stored[e]
    <3>1. lost[e] <= stored[e]
      BY <2>1 DEF InTurn
    <3> QED BY <2>2, <2>3, <2>4, <3>1
  <2>6. InTurn(e)'
    <3>1. \A k \in 1..Len(toPage') : toPage'[k].event = e => toPage'[k].value <= stored[e]
      BY <1>4, <2>1 DEF InTurn
    <3>2. \A j, k \in 1..Len(toPage') :
            j < k /\ toPage'[j].event = e /\ toPage'[k].event = e => toPage'[j].value < toPage'[k].value
      <4> SUFFICES ASSUME NEW j \in 1..Len(toPage'), NEW k \in 1..Len(toPage'),
                          j < k, toPage'[j].event = e, toPage'[k].event = e
                   PROVE  toPage'[j].value < toPage'[k].value
        OBVIOUS
      <4>1. j + 1 < k + 1
        BY <1>3, <1>4
      <4>2. /\ toPage'[j] = toPage[j + 1] /\ j + 1 \in 1..Len(toPage)
            /\ toPage'[k] = toPage[k + 1] /\ k + 1 \in 1..Len(toPage)
        BY <1>4
      <4> QED BY <2>1, <4>1, <4>2 DEF InTurn
    <3>3. stored[e] <= values
      BY <2>1 DEF InTurn
    <3> QED BY <2>1, <2>5, <3>1, <3>2, <3>3 DEF InTurn
  <2>7. Heard(e)'
    <3>1. ASSUME NEW k \in 1..Len(toPage), k > 1, toPage[k] = [event |-> e, value |-> stored[e]]
          PROVE  \E j \in 1..Len(toPage') : toPage'[j] = [event |-> e, value |-> stored'[e]]
      <4>1. k - 1 \in 1..Len(toPage') /\ (k - 1) + 1 = k
        BY <1>3, <1>4, <3>1
      <4>2. toPage'[k - 1] = toPage[k]
        BY <1>4, <4>1
      <4> QED BY <2>1, <3>1, <4>1, <4>2
    <3>2. CASE \E k \in 1..Len(toPage) : k > 1 /\ toPage[k] = [event |-> e, value |-> stored[e]]
      BY <3>1, <3>2 DEF Heard
    <3>3. CASE lost[e] = stored[e]
      <4>1. lost'[e] = stored[e]
        BY <2>1, <2>2, <2>3, <2>4, <3>3, <1>5
      <4> QED BY <2>1, <4>1 DEF Heard
    <3>4. CASE toPage[1] = [event |-> e, value |-> stored[e]]
      <4>1. d.event = e /\ d.value = stored[e]
        BY <1>3, <3>4
      <4>2. lost[e] <= stored[e]
        BY <2>1 DEF InTurn
      <4>3. lost'[e] = stored[e] \/ local'[e] = stored[e]
        BY <2>1, <2>4, <4>1, <4>2
      <4>4. \A k \in 1..Len(toPage') : toPage'[k].event # e
        <5> SUFFICES ASSUME NEW k \in 1..Len(toPage'), toPage'[k].event = e PROVE FALSE
          OBVIOUS
        <5>1. toPage'[k] = toPage[k + 1] /\ k + 1 \in 1..Len(toPage) /\ k + 1 > 1
          BY <1>4
        <5>2. toPage[k + 1] \in Changed
          BY <1>2, <5>1
        <5>3. toPage[k + 1].value \in Nat
          BY <5>2 DEF Changed
        <5>4. d.value < toPage[k + 1].value /\ toPage[k + 1].value <= stored[e]
          BY <2>1, <2>3, <4>1, <5>1 DEF InTurn
        <5> QED BY <2>1, <4>1, <5>3, <5>4
      <4> QED BY <2>1, <4>3, <4>4 DEF Heard
    <3>5. CASE /\ \A k \in 1..Len(toPage) : toPage[k].event # e
               /\ e \in own \/ local[e] = stored[e]
      <4>1. e # d.event
        BY <1>3, <3>5
      <4>2. \A k \in 1..Len(toPage') : toPage'[k].event # e
        BY <1>4, <3>5
      <4> QED BY <2>1, <2>2, <3>5, <4>1, <4>2 DEF Heard
    <3>6. \/ \E k \in 1..Len(toPage) : k > 1 /\ toPage[k] = [event |-> e, value |-> stored[e]]
          \/ toPage[1] = [event |-> e, value |-> stored[e]]
          \/ lost[e] = stored[e]
          \/ /\ \A k \in 1..Len(toPage) : toPage[k].event # e
             /\ e \in own \/ local[e] = stored[e]
      <4>1. \A k \in 1..Len(toPage) : k = 1 \/ k > 1
        BY <1>3
      <4> QED BY <2>1, <4>1 DEF Heard
    <3> QED BY <3>2, <3>3, <3>4, <3>5, <3>6
  <2> QED BY <2>6, <2>7
<1> QED BY <1>7, <1>8, <1>9 DEF VarsInv

\* The server's event sets a variable and tells the page, or nobody.
LEMMA VarsTells ==
  ASSUME VarsInv, NEW e \in Events, Vars!TeSetSelfVariable(e)
  PROVE  VarsInv'
<1> DEFINE d == [event |-> e, value |-> values']
<1>1. /\ values' = values + 1 /\ stored' = [stored EXCEPT ![e] = values']
      /\ \/ toPage' = Append(toPage, d) /\ UNCHANGED lost
         \/ lost' = [lost EXCEPT ![e] = values'] /\ UNCHANGED toPage
      /\ UNCHANGED <<local, own, queued, flushTimer, timeouts, toServer>>
  BY DEF Vars!TeSetSelfVariable
<1>2. /\ VarTypes /\ FlushDue /\ toPage \in Seq(Changed)
      /\ local \in [Events -> Nat] /\ lost \in [Events -> Nat] /\ values \in Nat
      /\ stored \in [Events \union {0} -> Nat]
  BY DEF VarsInv, VarTypes
<1>3. d \in Changed /\ values' \in Nat /\ d.event = e /\ d.value = values'
  BY <1>1, <1>2 DEF Changed
<1>4. /\ stored' \in [Events \union {0} -> Nat] /\ stored'[e] = values'
      /\ \A u \in Events : u # e => stored'[u] = stored[u]
  BY <1>1, <1>2, <1>3
<1>5. /\ lost' \in [Events -> Nat] /\ \A u \in Events : u # e => lost'[u] = lost[u]
  BY <1>1, <1>2, <1>3
<1>6. FlushDue'
  BY <1>1, <1>2 DEF FlushDue
<1>7. \A k \in 1..Len(toPage) : toPage[k] \in Changed
  BY <1>2
<1>8. CASE toPage' = Append(toPage, d) /\ UNCHANGED lost
  <2> HIDE DEF d
  <2>1. /\ toPage' \in Seq(Changed) /\ Len(toPage') = Len(toPage) + 1 /\ Len(toPage) \in Nat
        /\ toPage'[Len(toPage) + 1] = d
        /\ \A k \in 1..Len(toPage) : toPage'[k] = toPage[k]
        /\ \A k \in 1..Len(toPage') : k \in 1..Len(toPage) \/ k = Len(toPage) + 1
    BY <1>2, <1>3, <1>8
  <2>2. VarTypes'
    BY <1>1, <1>2, <1>3, <1>4, <1>8, <2>1 DEF VarTypes
  <2>3. ASSUME NEW u \in Events PROVE (InTurn(u) /\ Heard(u))'
    <3>1. InTurn(u) /\ Heard(u) /\ stored[u] \in Nat /\ lost[u] \in Nat /\ stored[u] <= values
          /\ lost'[u] = lost[u]
      BY <1>2, <1>8 DEF VarsInv, InTurn
    <3>2. CASE u # e
      <4>1. stored'[u] = stored[u] /\ local'[u] = local[u] /\ own' = own
        BY <1>1, <1>4, <3>2
      <4>2. \A k \in 1..Len(toPage') : toPage'[k].event = u =>
              k \in 1..Len(toPage) /\ toPage'[k] = toPage[k]
        BY <1>3, <2>1, <3>2
      <4>3. \A k \in 1..Len(toPage) : k \in 1..Len(toPage')
        BY <2>1
      <4>4. InTurn(u)'
        <5>1. stored[u] <= values'
          BY <1>1, <1>2, <3>1
        <5>2. lost[u] <= stored[u]
          BY <3>1 DEF InTurn
        <5>3. /\ \A k \in 1..Len(toPage') : toPage'[k].event = u => toPage'[k].value <= stored[u]
              /\ \A j, k \in 1..Len(toPage') :
                   j < k /\ toPage'[j].event = u /\ toPage'[k].event = u =>
                     toPage'[j].value < toPage'[k].value
          BY <3>1, <4>2 DEF InTurn
        <5> QED BY <3>1, <4>1, <5>1, <5>2, <5>3 DEF InTurn
      <4>5. Heard(u)'
        <5>1. CASE \E k \in 1..Len(toPage) : toPage[k] = [event |-> u, value |-> stored[u]]
          BY <2>1, <4>1, <4>3, <5>1 DEF Heard
        <5>2. CASE lost[u] = stored[u]
          BY <3>1, <4>1, <5>2 DEF Heard
        <5>3. CASE /\ \A k \in 1..Len(toPage) : toPage[k].event # u
                   /\ u \in own \/ local[u] = stored[u]
          BY <4>1, <4>2, <5>3 DEF Heard
        <5> QED BY <3>1, <5>1, <5>2, <5>3 DEF Heard
      <4> QED BY <4>4, <4>5
    <3>3. CASE u = e
      <4>1. values < values' /\ stored'[u] = values'
        BY <1>1, <1>2, <1>4, <3>3
      <4>2. \A k \in 1..Len(toPage) : toPage[k].event = u => toPage[k].value < values'
        <5> SUFFICES ASSUME NEW k \in 1..Len(toPage), toPage[k].event = u
                     PROVE  toPage[k].value < values'
          OBVIOUS
        <5>1. toPage[k].value <= stored[u] /\ toPage[k].value \in Nat
          BY <1>7, <3>1 DEF InTurn, Changed
        <5> QED BY <1>1, <1>2, <3>1, <5>1
      <4>3. \A k \in 1..Len(toPage') : toPage'[k].event = u => toPage'[k].value <= values'
        <5> SUFFICES ASSUME NEW k \in 1..Len(toPage'), toPage'[k].event = u
                     PROVE  toPage'[k].value <= values'
          OBVIOUS
        <5>1. CASE k \in 1..Len(toPage)
          <6>1. toPage'[k] = toPage[k] /\ toPage[k].value \in Nat
            BY <1>7, <2>1, <5>1 DEF Changed
          <6> QED BY <1>3, <4>2, <5>1, <6>1
        <5>2. CASE k = Len(toPage) + 1
          BY <1>3, <2>1, <5>2
        <5> QED BY <2>1, <5>1, <5>2
      <4>4. \A j, k \in 1..Len(toPage') :
              j < k /\ toPage'[j].event = u /\ toPage'[k].event = u =>
                toPage'[j].value < toPage'[k].value
        <5> SUFFICES ASSUME NEW j \in 1..Len(toPage'), NEW k \in 1..Len(toPage'),
                            j < k, toPage'[j].event = u, toPage'[k].event = u
                     PROVE  toPage'[j].value < toPage'[k].value
          OBVIOUS
        <5>1. j \in 1..Len(toPage)
          BY <2>1
        <5>2. CASE k \in 1..Len(toPage)
          BY <2>1, <3>1, <5>1, <5>2 DEF InTurn
        <5>3. CASE k = Len(toPage) + 1
          BY <1>3, <2>1, <4>2, <5>1, <5>3
        <5> QED BY <2>1, <5>2, <5>3
      <4>5. lost'[u] <= values'
        <5>1. lost[u] <= stored[u]
          BY <3>1 DEF InTurn
        <5> QED BY <1>1, <1>2, <3>1, <5>1
      <4>6. InTurn(u)'
        BY <1>3, <4>1, <4>3, <4>4, <4>5 DEF InTurn
      <4>7. Heard(u)'
        <5>1. Len(toPage) + 1 \in 1..Len(toPage')
          BY <2>1
        <5>2. toPage'[Len(toPage) + 1] = [event |-> u, value |-> stored'[u]]
          BY <2>1, <3>3, <4>1 DEF d
        <5> QED BY <5>1, <5>2 DEF Heard
      <4> QED BY <4>6, <4>7
    <3> QED BY <3>2, <3>3
  <2> QED BY <1>6, <2>2, <2>3 DEF VarsInv
<1>9. CASE lost' = [lost EXCEPT ![e] = values'] /\ UNCHANGED toPage
  <2>1. VarTypes'
    BY <1>1, <1>2, <1>3, <1>4, <1>5, <1>9 DEF VarTypes
  <2>2. ASSUME NEW u \in Events PROVE (InTurn(u) /\ Heard(u))'
    <3>1. InTurn(u) /\ Heard(u) /\ stored[u] \in Nat /\ stored[u] <= values
      BY <1>2 DEF VarsInv, InTurn
    <3>2. CASE u # e
      <4>1. /\ stored'[u] = stored[u] /\ local'[u] = local[u] /\ own' = own /\ lost'[u] = lost[u]
            /\ toPage' = toPage
        BY <1>1, <1>4, <1>5, <1>9, <3>2
      <4>2. stored[u] <= values'
        BY <1>1, <1>2, <3>1
      <4>3. InTurn(u)'
        BY <3>1, <4>1, <4>2 DEF InTurn
      <4>4. Heard(u)'
        BY <3>1, <4>1 DEF Heard
      <4> QED BY <4>3, <4>4
    <3>3. CASE u = e
      <4>1. lost'[u] = values' /\ stored'[u] = values' /\ toPage' = toPage
        BY <1>2, <1>4, <1>9, <3>3
      <4>2. \A k \in 1..Len(toPage) : toPage[k].event = u => toPage[k].value <= values'
        <5> SUFFICES ASSUME NEW k \in 1..Len(toPage), toPage[k].event = u
                     PROVE  toPage[k].value <= values'
          OBVIOUS
        <5>1. toPage[k].value <= stored[u] /\ toPage[k].value \in Nat
          BY <1>7, <3>1 DEF InTurn, Changed
        <5> QED BY <1>1, <1>2, <3>1, <5>1
      <4>3. InTurn(u)'
        BY <1>3, <3>1, <4>1, <4>2 DEF InTurn
      <4> QED BY <4>1, <4>3 DEF Heard
    <3> QED BY <3>2, <3>3
  <2> QED BY <1>6, <2>1, <2>2 DEF VarsInv
<1> QED BY <1>1, <1>8, <1>9

\* The connection breaks, and what was under way to the page is lost.
LEMMA VarsBreak ==
  ASSUME VarsInv, Vars!Break
  PROVE  VarsInv'
<1>1. /\ toServer' = <<>> /\ toPage' = <<>> /\ lost' = [e \in Events |-> Vars!Unheard(e)]
      /\ UNCHANGED <<local, own, queued, flushTimer, timeouts, stored, values>>
  BY DEF Vars!Break
<1>2. VarTypes /\ FlushDue
  BY DEF VarsInv
<1>3. ASSUME NEW e \in Events
      PROVE  /\ Vars!Unheard(e) \in Nat /\ Vars!Unheard(e) <= stored[e]
             /\ Vars!Unheard(e) = stored[e] \/ e \in own \/ local[e] = stored[e]
  <2>1. InTurn(e) /\ Heard(e) /\ stored[e] \in Nat /\ lost[e] \in Nat
    BY <1>2 DEF VarsInv, VarTypes
  <2> DEFINE all == {lost[e]} \union {toPage[k].value : k \in {j \in DOMAIN toPage : toPage[j].event = e}}
  <2>2. DOMAIN toPage = 1..Len(toPage) /\ \A k \in 1..Len(toPage) : toPage[k] \in Changed
    BY <1>2 DEF VarTypes
  <2>3. \A n \in all : n \in Nat /\ n <= stored[e]
    <3>1. lost[e] <= stored[e]
      BY <2>1 DEF InTurn
    <3>2. \A k \in 1..Len(toPage) : toPage[k].event = e => toPage[k].value <= stored[e] /\ toPage[k].value \in Nat
      BY <2>1, <2>2 DEF InTurn, Changed
    <3> QED BY <2>1, <2>2, <3>1, <3>2
  <2>4. Vars!Unheard(e) = CHOOSE n \in all : \A w \in all : w <= n
    BY DEF Vars!Unheard
  <2>5. CASE stored[e] \in all
    <3> HIDE DEF all
    <3>1. PICK n \in all : n = Vars!Unheard(e) /\ \A w \in all : w <= n
      BY <2>3, <2>4, <2>5
    <3>2. n = stored[e]
      BY <2>1, <2>3, <2>5, <3>1
    <3> QED BY <2>1, <3>1, <3>2
  <2>6. CASE /\ \A k \in 1..Len(toPage) : toPage[k].event # e
             /\ e \in own \/ local[e] = stored[e]
    <3>1. all = {lost[e]}
      BY <2>2, <2>6
    <3>2. Vars!Unheard(e) = lost[e]
      BY <2>1, <2>4, <3>1
    <3>3. lost[e] <= stored[e]
      BY <2>1 DEF InTurn
    <3> QED BY <2>1, <2>6, <3>2, <3>3
  <2>7. \/ stored[e] \in all
        \/ /\ \A k \in 1..Len(toPage) : toPage[k].event # e
           /\ e \in own \/ local[e] = stored[e]
    <3>1. ASSUME NEW k \in 1..Len(toPage), toPage[k] = [event |-> e, value |-> stored[e]]
          PROVE  stored[e] \in all
      BY <2>2, <3>1
    <3>2. lost[e] \in all
      OBVIOUS
    <3> HIDE DEF all
    <3> QED BY <2>1, <3>1, <3>2 DEF Heard
  <2> QED BY <2>5, <2>6, <2>7
<1>4. lost' \in [Events -> Nat]
  BY <1>1, <1>3
<1>5. <<>> \in Seq(Changed) /\ <<>> \in Seq(Seq(Changed))
  OBVIOUS
<1>6. VarTypes'
  BY <1>1, <1>2, <1>4, <1>5 DEF VarTypes
<1>7. FlushDue'
  BY <1>1, <1>2 DEF FlushDue
<1>8. Len(toPage') = 0
  BY <1>1
<1>9. ASSUME NEW e \in Events PROVE (InTurn(e) /\ Heard(e))'
  <2>1. lost'[e] = Vars!Unheard(e) /\ InTurn(e)
    BY <1>1 DEF VarsInv
  <2>2. InTurn(e)'
    BY <1>1, <1>3, <1>8, <2>1 DEF InTurn
  <2>3. Heard(e)'
    BY <1>1, <1>3, <1>8, <2>1 DEF Heard
  <2> QED BY <2>2, <2>3
<1> QED BY <1>6, <1>7, <1>9 DEF VarsInv

\* A new page has heard of nothing.
LEMMA VarsReload ==
  ASSUME VarsInv, Vars!Reload
  PROVE  VarsInv'
<1>1. /\ local' = [e \in Events |-> 0] /\ own' = {} /\ queued' = <<>>
      /\ flushTimer' = FALSE /\ timeouts' = 0 /\ lost' = [e \in Events |-> stored[e]]
      /\ UNCHANGED <<toServer, toPage, stored, values>>
  BY DEF Vars!Reload
<1>2. VarTypes /\ stored \in [Events \union {0} -> Nat]
  BY DEF VarsInv, VarTypes
<1>3. <<>> \in Seq(Changed) /\ local' \in [Events -> Nat] /\ lost' \in [Events -> Nat]
  BY <1>1, <1>2
<1>4. VarTypes'
  BY <1>1, <1>2, <1>3 DEF VarTypes
<1>5. FlushDue'
  BY <1>1 DEF FlushDue
<1>6. ASSUME NEW e \in Events PROVE (InTurn(e) /\ Heard(e))'
  <2>1. lost'[e] = stored[e] /\ stored'[e] = stored[e] /\ stored[e] \in Nat /\ InTurn(e)
    BY <1>1, <1>2 DEF VarsInv
  <2>2. stored[e] <= values'
    BY <1>1, <2>1 DEF InTurn
  <2>3. InTurn(e)'
    BY <1>1, <2>1, <2>2 DEF InTurn
  <2> QED BY <2>1, <2>3 DEF Heard
<1> QED BY <1>4, <1>5, <1>6 DEF VarsInv

LEMMA VarsStep == VarsInv /\ [MCNext]_<<part, i, s, t, m, p, c, x, g, v, f, l>> => VarsInv'
<1> SUFFICES ASSUME VarsInv, [MCNext]_<<part, i, s, t, m, p, c, x, g, v, f, l>> PROVE VarsInv'
  OBVIOUS
<1>1. CASE UNCHANGED v
  <2>1. /\ VarTypes' /\ FlushDue'
        /\ UNCHANGED <<toPage, lost, values, own, stored, local>> /\ values \in Nat
    BY <1>1 DEF v, VarsInv, VarTypes, FlushDue
  <2> QED BY <2>1, VarsKeep DEF VarsInv
<1>2. Vars!Next \/ UNCHANGED v
  BY DEF MCNext
<1> QED BY <1>1, <1>2, VarsPage, VarsHears, VarsBatch, VarsTells, VarsBreak, VarsReload DEF Vars!Next

-----------------------------------------------------------------------------
(* The list of friends *)

\* The rows of a list, one for each friend.
FriendRows(z) ==
  /\ z \subseteq [who : Friends!Person, online : BOOLEAN]
  /\ \A r, q \in z : r.who = q.who => r = q

\* FriendList counts as this module does.
LEMMA SameCount ==
  ASSUME NEW z
  PROVE  Friends!Cardinality(z) = Cardinality(z)
BY Zenon DEF Friends!Cardinality, Cardinality

LEMMA RowsFinite ==
  ASSUME NEW z, FriendRows(z)
  PROVE  IsFiniteSet(z) /\ Cardinality(z) \in 0..MaxFriends
<1> DEFINE of == [r \in z |-> r.who]
<1>1. MaxFriends \in Nat /\ MaxFriends \in Int /\ 1 \in Int
  BY ConstantsAssumption
<1>2. IsFiniteSet(Friends!Person) /\ Cardinality(Friends!Person) = MaxFriends
  <2>1. IsFiniteSet(1..MaxFriends) /\ Cardinality(1..MaxFriends) = IF 1 > MaxFriends THEN 0 ELSE MaxFriends - 1 + 1
    BY <1>1, FS_Interval, Zenon
  <2> QED BY <1>1, <2>1 DEF Friends!Person
<1>3. of \in [z -> Friends!Person]
  BY DEF FriendRows
<1>4. \A r, q \in z : of[r] = of[q] => r = q
  BY DEF FriendRows
<1> HIDE DEF of
<1>5. of \in Injection(z, Friends!Person)
  BY <1>3, <1>4, Zenon DEF Injection, IsInjective
<1>6. IsFiniteSet(z) /\ Cardinality(z) <= MaxFriends
  BY <1>2, <1>5, FS_Injection
<1>7. Cardinality(z) \in Nat
  BY <1>6, FS_CardinalityType
<1> QED BY <1>1, <1>6, <1>7

\* Every place down to the last has its row: no two rows have the same.
LEMMA PlaceFound ==
  ASSUME NEW z, FriendRows(z), NEW k \in Nat, k < Cardinality(z)
  PROVE  \E r \in z : Friends!Place(z, r) = k
<1> DEFINE n == Cardinality(z)
           over(r) == {q \in z : Friends!Before(q, r)}
           place == [r \in z |-> Friends!Place(z, r)]
<1>1. IsFiniteSet(z) /\ n \in Nat
  BY RowsFinite
<1>2. \A r \in z : r \in [who : Friends!Person, online : BOOLEAN] /\ r.who \in Int /\ r.online \in BOOLEAN
  <2>1. \A r \in z : r \in [who : Friends!Person, online : BOOLEAN]
    BY DEF FriendRows
  <2>2. \A w \in Friends!Person : w \in Int
    BY DEF Friends!Person
  <2> QED BY <2>1, <2>2
<1>3. ASSUME NEW r \in z
      PROVE  /\ Friends!Place(z, r) \in 0..n - 1 /\ Friends!Place(z, r) \in Int
             /\ Friends!Place(z, r) = Cardinality(over(r)) /\ IsFiniteSet(over(r))
  <2>1. r \notin over(r) /\ over(r) \in SUBSET (z \ {r})
    BY <1>2 DEF Friends!Before
  <2>2. IsFiniteSet(z \ {r}) /\ Cardinality(z \ {r}) = n - 1
    BY <1>1, FS_RemoveElement
  <2>3. IsFiniteSet(over(r)) /\ Cardinality(over(r)) <= n - 1
    <3> HIDE DEF over, n
    <3> QED BY <2>1, <2>2, FS_Subset
  <2>4. Cardinality(over(r)) \in Nat
    <3> HIDE DEF over
    <3> QED BY <2>3, FS_CardinalityType
  <2>5. Friends!Place(z, r) = Cardinality(over(r))
    BY SameCount, Zenon DEF Friends!Place
  <2> HIDE DEF over, n
  <2> QED BY <1>1, <2>3, <2>4, <2>5
<1>4. ASSUME NEW r \in z, NEW q \in z, Friends!Before(q, r) PROVE Friends!Place(z, q) < Friends!Place(z, r)
  <2>1. over(q) \union {q} \in SUBSET over(r) /\ q \notin over(q)
    BY <1>2, <1>4 DEF Friends!Before
  <2>2. Cardinality(over(q) \union {q}) = Cardinality(over(q)) + 1 /\ IsFiniteSet(over(r))
    <3>1. IsFiniteSet(over(q)) /\ IsFiniteSet(over(r))
      BY <1>3
    <3> HIDE DEF over
    <3> QED BY <2>1, <3>1, FS_AddElement
  <2>3. Cardinality(over(q) \union {q}) <= Cardinality(over(r))
    <3> HIDE DEF over
    <3> QED BY <2>1, <2>2, FS_Subset
  <2>4. Friends!Place(z, r) = Cardinality(over(r)) /\ Friends!Place(z, q) = Cardinality(over(q))
    BY <1>3, Zenon
  <2>5. Friends!Place(z, r) \in Int /\ Friends!Place(z, q) \in Int
    BY <1>3, Zenon
  <2> HIDE DEF over
  <2> QED BY <2>2, <2>3, <2>4, <2>5
<1>5. ASSUME NEW r \in z, NEW q \in z, Friends!Place(z, r) = Friends!Place(z, q) PROVE r = q
  <2>1. Friends!Place(z, r) \in Int /\ Friends!Place(z, q) \in Int
    BY <1>3, Zenon
  <2>2. ~Friends!Before(r, q) /\ ~Friends!Before(q, r)
    BY <1>4, <1>5, <2>1
  <2>3. r.who = q.who
    BY <1>2, <2>2 DEF Friends!Before
  <2> QED BY <2>3 DEF FriendRows
<1>6. place \in [z -> 0..n - 1] /\ \A r, q \in z : place[r] = place[q] => r = q
  BY <1>3, <1>5
<1>7. IsFiniteSet(0..n - 1) /\ Cardinality(0..n - 1) = n
  <2>1. 0 \in Int /\ n - 1 \in Int
    BY <1>1
  <2> HIDE DEF n
  <2>2. IsFiniteSet(0..n - 1) /\ Cardinality(0..n - 1) = IF 0 > n - 1 THEN 0 ELSE n - 1 - 0 + 1
    BY <2>1, FS_Interval, Zenon
  <2> QED BY <1>1, <2>2
<1>8. place \in Surjection(z, 0..n - 1)
  <2> HIDE DEF place
  <2>1. place \in Injection(z, 0..n - 1)
    BY <1>6, Zenon DEF Injection, IsInjective
  <2> QED BY <1>7, <2>1, FS_Injection
<1>9. k \in 0..n - 1
  BY <1>1
<1>10. \E r \in z : place[r] = k
  <2> HIDE DEF place, n
  <2> QED BY <1>8, <1>9 DEF Surjection
<1> QED BY <1>10

\* The rows of a list, of which one is at the place it is scrolled to.
WellScrolled ==
  /\ FriendRows(list.friends) /\ list.scroll \in Nat /\ list.visible \in BOOLEAN
  /\ list.scroll = 0 \/ list.scroll < Cardinality(list.friends)
  /\ list.drawn = Friends!Window(list.friends, list.scroll)

\* The last request is answered once, with the friends the server has then; what is drawn
\* is a window of the list.
FriendsInv ==
  /\ friendsOf \subseteq Friends!Person /\ here \subseteq Friends!Person
  /\ loads \in 0..MaxLoads /\ loads \in Nat /\ getting \subseteq 1..loads /\ shownLoad \in 0..loads /\ changed \in BOOLEAN
  /\ \A a \in answers : a.load \in 1..loads /\ a.load \notin getting /\ FriendRows(a.friends)
  /\ shownLoad \notin getting
  /\ \A a \in answers : a.load = loads /\ ~changed => a.friends = Friends!Listed
  /\ shownLoad = loads /\ loads > 0 /\ ~changed => list.friends = Friends!Listed
  /\ WellScrolled

LEMMA FriendsInitial == Friends!Init => FriendsInv
<1> SUFFICES ASSUME Friends!Init PROVE FriendsInv
  OBVIOUS
<1>1. /\ loads = 0 /\ getting = {} /\ answers = {} /\ shownLoad = 0 /\ changed = FALSE
      /\ friendsOf \subseteq Friends!Person /\ here = {}
  BY DEF Friends!Init
<1>2. WellScrolled
  <2>1. list = Friends!List(FALSE, {}, 0)
    BY DEF Friends!Init
  <2>2. /\ list.friends = {} /\ list.scroll = 0 /\ list.visible = FALSE
        /\ list.drawn = Friends!Window(list.friends, list.scroll)
    BY <2>1 DEF Friends!List
  <2>3. FriendRows(list.friends)
    BY <2>2 DEF FriendRows
  <2>4. list.visible \in BOOLEAN
    BY <2>2, Zenon
  <2> QED BY <2>2, <2>3, <2>4 DEF WellScrolled
<1>3. loads \in 0..MaxLoads /\ loads \in Nat /\ shownLoad \in 0..loads
  BY <1>1, ConstantsAssumption
<1>4. getting \subseteq 1..loads /\ changed \in BOOLEAN
  BY <1>1, Zenon
<1>5. ~(loads > 0) /\ shownLoad \notin getting
  BY <1>1
<1>6. \A a \in answers : FALSE
  BY <1>1
<1> QED BY <1>1, <1>2, <1>3, <1>4, <1>5, <1>6 DEF FriendsInv

\* A step that leaves the friends and the panel's requests alone.
LEMMA FriendsKeep ==
  ASSUME UNCHANGED <<friendsOf, here>>
  PROVE  Friends!Listed' = Friends!Listed
BY DEF Friends!Listed

\* A list of rows that is not empty can be shown from its first row.
LEMMA FromTheTop ==
  ASSUME NEW b \in BOOLEAN, NEW z, FriendRows(z), list' = Friends!List(b, z, 0)
  PROVE  WellScrolled' /\ list'.friends = z
<1>1. /\ list'.friends = z /\ list'.scroll = 0 /\ list'.visible = b
      /\ list'.drawn = Friends!Window(z, 0)
  BY DEF Friends!List
<1> QED BY <1>1 DEF WellScrolled

LEMMA FriendsStep == FriendsInv /\ [MCNext]_<<part, i, s, t, m, p, c, x, g, v, f, l>> => FriendsInv'
<1> SUFFICES ASSUME FriendsInv, [MCNext]_<<part, i, s, t, m, p, c, x, g, v, f, l>> PROVE FriendsInv'
  OBVIOUS
<1>1. /\ loads \in Nat /\ getting \subseteq 1..loads /\ shownLoad \in 0..loads
      /\ \A a \in answers : a.load \in 1..loads /\ a.load \notin getting
      /\ shownLoad \notin getting
      /\ \A a \in answers : a.load = loads /\ ~changed => a.friends = Friends!Listed
      /\ shownLoad = loads /\ loads > 0 /\ ~changed => list.friends = Friends!Listed
      /\ changed \in BOOLEAN
  BY DEF FriendsInv
<1>0. /\ friendsOf \subseteq Friends!Person /\ here \subseteq Friends!Person /\ loads \in 0..MaxLoads
       /\ \A a \in answers : FriendRows(a.friends)
  BY DEF FriendsInv
<1>2. UNCHANGED <<friendsOf, here>> => Friends!Listed' = Friends!Listed
  BY FriendsKeep
<1>3. /\ WellScrolled /\ FriendRows(list.friends) /\ list.scroll \in Nat /\ list.visible \in BOOLEAN
      /\ list.scroll = 0 \/ list.scroll < Cardinality(list.friends)
  BY DEF FriendsInv, WellScrolled
<1>4. CASE UNCHANGED l
  <2>1. /\ UNCHANGED <<loads, getting, shownLoad, answers, changed, list, friendsOf, here>>
        /\ Friends!Listed' = Friends!Listed
    BY <1>2, <1>4 DEF l
  <2> QED BY <1>1, <1>0, <1>3, <2>1 DEF FriendsInv, WellScrolled
<1>5. ASSUME NEW y \in Friends!Person, Friends!Befriend(y) \/ Friends!ComeOrGo(y) PROVE FriendsInv'
  <2>1. changed' = TRUE /\ UNCHANGED <<loads, getting, answers, list, shownLoad>>
    BY <1>5 DEF Friends!Befriend, Friends!ComeOrGo, Friends!ListUnchanged
  <2>2. friendsOf' \subseteq Friends!Person /\ here' \subseteq Friends!Person
    BY <1>5, <1>0 DEF Friends!Befriend, Friends!ComeOrGo
  <2> QED BY <1>1, <1>0, <1>3, <2>1, <2>2 DEF FriendsInv, WellScrolled
<1>6. ASSUME NEW n \in getting, Friends!ListFriends(n) PROVE FriendsInv'
  <2>1. /\ getting' = getting \ {n}
        /\ answers' = answers \union {[load |-> n, friends |-> Friends!Listed]}
        /\ changed' = (changed /\ n # loads)
        /\ UNCHANGED <<loads, list, shownLoad, friendsOf, here>> /\ Friends!Listed' = Friends!Listed
    BY <1>2, <1>6 DEF Friends!ListFriends
  <2>2. ASSUME NEW a \in answers', a.load = loads, ~changed' PROVE a.friends = Friends!Listed
    <3>1. CASE a \in answers
      <4>1. a.load # n
        BY <1>1, <1>6, <3>1
      <4>2. ~changed
        BY <2>1, <2>2, <4>1
      <4> QED BY <1>1, <1>0, <2>2, <3>1, <4>2
    <3>2. CASE a = [load |-> n, friends |-> Friends!Listed]
      BY <3>2
    <3> QED BY <2>1, <3>1, <3>2
  <2>3. FriendRows(Friends!Listed)
    <3>1. Friends!Listed = {[who |-> y, online |-> y \in here] : y \in friendsOf}
      BY DEF Friends!Listed
    <3>2. ASSUME NEW y \in friendsOf
          PROVE  [who |-> y, online |-> y \in here] \in [who : Friends!Person, online : BOOLEAN]
      <4>1. y \in Friends!Person
        BY <1>0
      <4>2. CASE y \in here
        <5>1. (y \in here) = TRUE
          BY <4>2
        <5> QED BY <4>1, <5>1
      <4>3. CASE y \notin here
        <5>1. (y \in here) = FALSE
          BY <4>3
        <5> QED BY <4>1, <5>1
      <4> QED BY <4>2, <4>3
    <3>3. \A r, q \in Friends!Listed : r.who = q.who => r = q
      BY <3>1
    <3> QED BY <3>1, <3>2, <3>3, ZenonT(30) DEF FriendRows
  <2>4. \A a \in answers' : a.load \in 1..loads /\ a.load \notin getting' /\ FriendRows(a.friends)
    BY <1>1, <1>6, <1>0, <2>1, <2>3
  <2>5. shownLoad = loads => (changed' = changed)
    <3>1. shownLoad # n
      BY <1>1, <1>6
    <3>2. CASE shownLoad = loads
      <4>1. n # loads
        BY <3>1, <3>2
      <4> QED BY <1>1, <1>0, <2>1, <4>1
    <3> QED BY <3>2
  <2> QED BY <1>1, <1>0, <1>3, <2>1, <2>2, <2>4, <2>5 DEF FriendsInv, WellScrolled
<1>7. ASSUME NEW n \in getting, Friends!OnFailed(n) PROVE FriendsInv'
  <2>1. /\ getting' = getting \ {n}
        /\ UNCHANGED <<loads, answers, list, shownLoad, changed, friendsOf, here>>
        /\ Friends!Listed' = Friends!Listed
    BY <1>2, <1>7 DEF Friends!OnFailed, Friends!ServerUnchanged
  <2> QED BY <1>1, <1>0, <1>3, <2>1 DEF FriendsInv, WellScrolled
<1>8. ASSUME NEW a \in answers, Friends!OnFriends(a) PROVE FriendsInv'
  <2>1. /\ answers' = answers \ {a} /\ shownLoad' = a.load
        /\ list' = Friends!List(list.visible, a.friends, 0)
        /\ UNCHANGED <<loads, getting, changed, friendsOf, here>> /\ Friends!Listed' = Friends!Listed
    BY <1>2, <1>8 DEF Friends!OnFriends, Friends!ServerUnchanged
  <2>2. WellScrolled' /\ list'.friends = a.friends
    BY <1>3, <1>0, <2>1, FromTheTop
  <2> QED BY <1>1, <1>0, <2>1, <2>2 DEF FriendsInv
<1>9. CASE Friends!KeyF
  <2>1. /\ \/ UNCHANGED <<loads, getting>>
           \/ loads < MaxLoads /\ loads' = loads + 1 /\ getting' = getting \union {loads'}
        /\ list' = Friends!List(~list.visible, list.friends, list.scroll)
        /\ UNCHANGED <<answers, shownLoad, changed, friendsOf, here>> /\ Friends!Listed' = Friends!Listed
    BY <1>2, <1>9 DEF Friends!KeyF, Friends!ServerUnchanged
  <2>2. WellScrolled' /\ list'.friends = list.friends
    BY <1>3, <2>1 DEF Friends!List, WellScrolled
  <2>3. CASE UNCHANGED <<loads, getting>>
    BY <1>1, <2>1, <2>2, <2>3 DEF FriendsInv
  <2>4. CASE loads < MaxLoads /\ loads' = loads + 1 /\ getting' = getting \union {loads'}
    <3>5. loads' = loads + 1 /\ getting' = getting \union {loads'}
      BY <2>4
    <3>1. loads' \in Nat /\ getting' \subseteq 1..loads' /\ shownLoad \in 0..loads'
      BY <1>1, <3>5
    <3>2. \A a \in answers : a.load \in 1..loads' /\ a.load # loads' /\ a.load \notin getting'
      BY <1>1, <3>5
    <3>3. shownLoad # loads' /\ shownLoad \notin getting'
      BY <1>1, <3>5
    <3>4. loads' \in 0..MaxLoads
      BY <1>0, <2>4, ConstantsAssumption
    <3> QED BY <1>0, <2>1, <2>2, <3>1, <3>2, <3>3, <3>4 DEF FriendsInv
  <2> QED BY <2>1, <2>3, <2>4
<1>10. ASSUME NEW n \in {2, -2}, Friends!Wheel(n) PROVE FriendsInv'
  <2> DEFINE size == Friends!Cardinality(list.friends)
             most == IF size > InSight THEN size - InSight ELSE 0
             to == list.scroll + n
             y == IF to < 0 THEN 0 ELSE IF to > most THEN most ELSE to
  <2>1. /\ list' = Friends!List(TRUE, list.friends, y)
        /\ UNCHANGED <<friendsOf, here, changed, loads, getting, answers, shownLoad>>
    BY <1>10 DEF Friends!Wheel, Friends!ServerUnchanged
  <2>2. y \in Nat /\ (y = 0 \/ y < size)
    <3>1. size \in Nat
      BY <1>3, RowsFinite, SameCount
    <3>2. to \in Int /\ InSight \in Nat \ {0}
      BY <1>3, <1>10, ConstantsAssumption
    <3> HIDE DEF size, to
    <3> QED BY <3>1, <3>2
  <2> HIDE DEF y, size
  <2>3. WellScrolled' /\ list'.friends = list.friends
    <3>1. /\ list'.friends = list.friends /\ list'.scroll = y /\ list'.visible = TRUE
          /\ list'.drawn = Friends!Window(list.friends, y)
      BY <2>1 DEF Friends!List
    <3>2. size = Cardinality(list.friends)
      BY SameCount, Zenon DEF size
    <3> QED BY <1>3, <2>2, <3>1, <3>2 DEF WellScrolled
  <2>4. Friends!Listed' = Friends!Listed
    BY <1>2, <2>1
  <2> QED BY <1>1, <1>0, <2>1, <2>3, <2>4 DEF FriendsInv
<1>11. CASE Friends!Close
  <2>1. /\ list' = [list EXCEPT !.visible = FALSE]
        /\ UNCHANGED <<changed, loads, getting, answers, shownLoad, friendsOf, here>>
        /\ Friends!Listed' = Friends!Listed
    BY <1>2, <1>11 DEF Friends!Close, Friends!ServerUnchanged
  <2>2. list'.drawn = list.drawn /\ list'.friends = list.friends /\ list'.scroll = list.scroll
    BY <2>1
  <2>3. list'.visible \in BOOLEAN
    BY <1>3, <2>1
  <2> QED BY <1>1, <1>0, <1>3, <2>1, <2>2, <2>3 DEF FriendsInv, WellScrolled
<1>12. CASE Friends!CreateAllWindows
  <2>1. /\ getting' = {} /\ answers' = {} /\ shownLoad' = 0
        /\ UNCHANGED <<loads, changed, friendsOf, here>>
        /\ list' = Friends!List(FALSE, {}, 0) /\ Friends!Listed' = Friends!Listed
    BY <1>2, <1>12 DEF Friends!CreateAllWindows, Friends!ServerUnchanged
  <2>2. WellScrolled'
    <3>1. /\ list'.friends = {} /\ list'.scroll = 0 /\ list'.visible = FALSE
          /\ list'.drawn = Friends!Window(list'.friends, list'.scroll)
      BY <2>1 DEF Friends!List
    <3>2. FriendRows(list'.friends)
      BY <3>1 DEF FriendRows
    <3>3. list'.visible \in BOOLEAN
      BY <3>1, Zenon
    <3> QED BY <3>1, <3>2, <3>3 DEF WellScrolled
  <2>3. /\ loads' \in Nat /\ shownLoad' \in 0..loads' /\ ~(shownLoad' = loads' /\ loads' > 0)
        /\ loads' \in 0..MaxLoads
    BY <1>1, <1>0, <2>1
  <2>4. getting' \subseteq 1..loads' /\ shownLoad' \notin getting' /\ \A a \in answers' : FALSE
    BY <2>1
  <2>5. /\ friendsOf' \subseteq Friends!Person /\ here' \subseteq Friends!Person
        /\ changed' \in BOOLEAN
    BY <1>1, <1>0, <2>1
  <2> QED BY <2>2, <2>3, <2>4, <2>5 DEF FriendsInv
<1>13. Friends!Next \/ UNCHANGED l
  BY DEF MCNext
<1> QED BY <1>4, <1>5, <1>6, <1>7, <1>8, <1>9, <1>10, <1>11, <1>12, <1>13 DEF Friends!Next

\* One of the friends is drawn: the row at the place the list is scrolled to.
LEMMA FriendInSight == FriendsInv => Friends!SomeoneInSight
<1> SUFFICES ASSUME FriendsInv, list.friends # {} PROVE list.drawn # {}
  BY DEF Friends!SomeoneInSight
<1>1. /\ FriendRows(list.friends) /\ list.scroll \in Nat /\ list.scroll < Cardinality(list.friends)
      /\ list.drawn = Friends!Window(list.friends, list.scroll)
  <2>1. IsFiniteSet(list.friends) /\ Cardinality(list.friends) \in Nat
    BY RowsFinite DEF FriendsInv, WellScrolled
  <2>2. Cardinality(list.friends) # 0
    BY <2>1, FS_EmptySet
  <2> QED BY <2>1, <2>2 DEF FriendsInv, WellScrolled
<1>2. PICK r \in list.friends : Friends!Place(list.friends, r) = list.scroll
  BY <1>1, PlaceFound
<1>3. list.scroll \in list.scroll..list.scroll + InSight
  BY <1>1, ConstantsAssumption
<1>4. r \in {q \in list.friends : Friends!Place(list.friends, q) \in list.scroll..list.scroll + InSight}
  BY <1>2, <1>3
<1> QED BY <1>1, <1>4 DEF Friends!Window

LEMMA FriendsTyped == FriendsInv => Friends!TypeOK
<1> SUFFICES ASSUME FriendsInv PROVE Friends!TypeOK
  OBVIOUS
<1>1. list.scroll \in 0..MaxFriends
  <2>1. /\ FriendRows(list.friends) /\ list.scroll \in Nat
        /\ list.scroll = 0 \/ list.scroll < Cardinality(list.friends)
    BY DEF FriendsInv, WellScrolled
  <2>2. Cardinality(list.friends) \in 0..MaxFriends
    BY <2>1, RowsFinite
  <2> QED BY <2>1, <2>2, ConstantsAssumption
<1> QED BY <1>1 DEF FriendsInv, WellScrolled, Friends!TypeOK

-----------------------------------------------------------------------------
(* The bag: rows, units and messages *)

Rowed == [id : Nat, kind : Kinds, qty : Nat \ {0}, equipped : BOOLEAN]

LEMMA RowsTyped ==
  ASSUME NEW y \in Seq(Rowed)
  PROVE  /\ DOMAIN y = 1..Len(y) /\ Len(y) \in Nat
         /\ \A j \in DOMAIN y : y[j] \in Rowed /\ y[j].qty \in Nat \ {0} /\ y[j].qty \in Nat
<1>1. DOMAIN y = 1..Len(y) /\ Len(y) \in Nat /\ \A j \in DOMAIN y : y[j] \in Rowed
  OBVIOUS
<1>2. ASSUME NEW r \in Rowed PROVE r.qty \in Nat \ {0} /\ r.qty \in Nat
  BY DEF Rowed
<1> QED BY <1>1, <1>2

\* A unit of a row is its place and a number up to its quantity.
LEMMA UnitsAre ==
  ASSUME NEW y \in Seq(Rowed), NEW k
  PROVE  Units(y, k) = {u \in (1..Len(y)) \X Nat : y[u[1]].kind = k /\ u[2] \in 1..y[u[1]].qty}
<1> DEFINE all == {u \in (1..Len(y)) \X Nat : y[u[1]].kind = k /\ u[2] \in 1..y[u[1]].qty}
           of == {j \in DOMAIN y : y[j].kind = k}
<1>1. DOMAIN y = 1..Len(y) /\ \A j \in DOMAIN y : y[j].qty \in Nat
  BY RowsTyped
<1>2. ASSUME NEW u \in Units(y, k) PROVE u \in all
  <2>1. PICK j \in of : u \in {j} \X (1..y[j].qty)
    BY <1>2 DEF Units
  <2>2. u[1] = j /\ u[2] \in 1..y[j].qty /\ u = <<u[1], u[2]>>
    BY <2>1
  <2> QED BY <1>1, <2>1, <2>2
<1>3. ASSUME NEW u \in all PROVE u \in Units(y, k)
  <2>1. u[1] \in of /\ u \in {u[1]} \X (1..y[u[1]].qty)
    BY <1>1, <1>3
  <2> QED BY <2>1 DEF Units
<1> QED BY <1>2, <1>3

LEMMA UnitsFinite ==
  ASSUME NEW y \in Seq(Rowed), NEW k
  PROVE  IsFiniteSet(Units(y, k)) /\ Total(y, k) \in Nat
<1> DEFINE of == {j \in DOMAIN y : y[j].kind = k}
           each == [j \in of |-> {j} \X (1..y[j].qty)]
           sets == {{j} \X (1..y[j].qty) : j \in of}
<1>1. DOMAIN y = 1..Len(y) /\ Len(y) \in Nat /\ \A j \in DOMAIN y : y[j].qty \in Nat
  BY RowsTyped
<1>2. IsFiniteSet(1..Len(y)) /\ of \in SUBSET (1..Len(y))
  BY <1>1, FS_Interval
<1>3. IsFiniteSet(of)
  BY <1>2, FS_Subset, Zenon
<1>4. each \in Surjection(of, sets)
  BY DEF Surjection
<1>5. IsFiniteSet(sets)
  <2> HIDE DEF of, each, sets
  <2> QED BY <1>3, <1>4, FS_Surjection
<1>6. ASSUME NEW z \in sets PROVE IsFiniteSet(z)
  <2>1. PICK j \in of : z = {j} \X (1..y[j].qty)
    OBVIOUS
  <2>2. IsFiniteSet({j}) /\ IsFiniteSet(1..y[j].qty)
    <3>1. y[j].qty \in Int /\ 1 \in Int
      BY <1>1
    <3> QED BY <3>1, FS_Interval, FS_Singleton, Zenon
  <2> QED BY <2>1, <2>2, FS_Product
<1>7. Units(y, k) = UNION sets
  BY DEF Units
<1>8. IsFiniteSet(UNION sets)
  <2> HIDE DEF sets
  <2> QED BY <1>5, <1>6, FS_UNION
<1>9. IsFiniteSet(Units(y, k))
  BY <1>7, <1>8, Zenon
<1> QED BY <1>9, FS_CardinalityType DEF Total

\* One unit more, one unit less.
LEMMA TotalAdd ==
  ASSUME NEW y \in Seq(Rowed), NEW z \in Seq(Rowed), NEW k, NEW u, u \notin Units(y, k),
         Units(z, k) = Units(y, k) \union {u}
  PROVE  Total(z, k) = Total(y, k) + 1
BY UnitsFinite, FS_AddElement DEF Total

LEMMA TotalAppend ==
  ASSUME NEW y \in Seq(Rowed), NEW r \in Rowed, r.qty = 1, NEW k
  PROVE  /\ Append(y, r) \in Seq(Rowed)
         /\ Total(Append(y, r), k) = Total(y, k) + IF r.kind = k THEN 1 ELSE 0
<1> DEFINE z == Append(y, r)
<1>1. /\ z \in Seq(Rowed) /\ Len(z) = Len(y) + 1 /\ z[Len(y) + 1] = r /\ Len(y) \in Nat
      /\ \A j \in 1..Len(y) : z[j] = y[j]
  OBVIOUS
<1> HIDE DEF z
<1>2. /\ Units(y, k) = {u \in (1..Len(y)) \X Nat : y[u[1]].kind = k /\ u[2] \in 1..y[u[1]].qty}
      /\ Units(z, k) = {u \in (1..Len(z)) \X Nat : z[u[1]].kind = k /\ u[2] \in 1..z[u[1]].qty}
  BY <1>1, UnitsAre
<1>3. CASE r.kind = k
  <2>1. <<Len(y) + 1, 1>> \notin Units(y, k)
    BY <1>1, <1>2
  <2>2. ASSUME NEW u \in Units(z, k) PROVE u \in Units(y, k) \union {<<Len(y) + 1, 1>>}
    <3>1. u \in (1..Len(z)) \X Nat /\ z[u[1]].kind = k /\ u[2] \in 1..z[u[1]].qty
      BY <1>2
    <3>2. CASE u[1] = Len(y) + 1
      <4>1. u[2] = 1
        BY <1>1, <3>1, <3>2
      <4> QED BY <3>1, <3>2, <4>1
    <3>3. CASE u[1] \in 1..Len(y)
      BY <1>1, <1>2, <3>1, <3>3
    <3>4. u[1] \in 1..Len(y) + 1
      BY <1>1, <3>1
    <3> QED BY <1>1, <3>2, <3>3, <3>4
  <2>3. ASSUME NEW u \in Units(y, k) \union {<<Len(y) + 1, 1>>} PROVE u \in Units(z, k)
    <3>1. CASE u \in Units(y, k)
      <4>1. u \in (1..Len(y)) \X Nat /\ y[u[1]].kind = k /\ u[2] \in 1..y[u[1]].qty
        BY <1>2, <3>1
      <4>2. u[1] \in 1..Len(y) /\ z[u[1]] = y[u[1]]
        BY <1>1, <4>1
      <4>3. u \in (1..Len(z)) \X Nat
        BY <1>1, <4>1
      <4> QED BY <1>2, <4>1, <4>2, <4>3
    <3>2. CASE u = <<Len(y) + 1, 1>>
      <4>1. u \in (1..Len(z)) \X Nat /\ u[1] = Len(y) + 1 /\ u[2] = 1
        BY <1>1, <3>2
      <4> QED BY <1>1, <1>2, <1>3, <4>1
    <3> QED BY <3>1, <3>2
  <2>4. Units(z, k) = Units(y, k) \union {<<Len(y) + 1, 1>>}
    BY <2>2, <2>3
  <2>5. Total(z, k) = Total(y, k) + 1
    BY <1>1, <2>1, <2>4, TotalAdd
  <2> QED BY <1>1, <1>3, <2>5 DEF z
<1>4. CASE r.kind # k
  <2>1. ASSUME NEW u PROVE u \in Units(z, k) <=> u \in Units(y, k)
    BY <1>1, <1>2, <1>4
  <2>2. Total(z, k) = Total(y, k)
    <3>1. Units(z, k) = Units(y, k)
      BY <2>1, Zenon
    <3> QED BY <3>1, Zenon DEF Total
  <2>3. Total(y, k) \in Nat
    BY UnitsFinite
  <2> QED BY <1>1, <1>4, <2>2, <2>3 DEF z
<1> QED BY <1>3, <1>4

\* A row that holds one more of its kind.
LEMMA TotalMore ==
  ASSUME NEW y \in Seq(Rowed), NEW j \in DOMAIN y, NEW k
  PROVE  /\ [y EXCEPT ![j].qty = @ + 1] \in Seq(Rowed)
         /\ Total([y EXCEPT ![j].qty = @ + 1], k) = Total(y, k) + IF y[j].kind = k THEN 1 ELSE 0
<1> DEFINE z == [y EXCEPT ![j].qty = @ + 1]
           n == y[j].qty + 1
<1>1. /\ DOMAIN y = 1..Len(y) /\ Len(y) \in Nat /\ y[j] \in Rowed /\ y[j].qty \in Nat /\ n \in Nat
      /\ \A h \in DOMAIN y : y[h] \in Rowed
  BY RowsTyped
<1>2. [y[j] EXCEPT !.qty = n] \in Rowed
  BY <1>1 DEF Rowed
<1>3. /\ z \in Seq(Rowed) /\ Len(z) = Len(y)
      /\ z[j].kind = y[j].kind /\ z[j].qty = n
      /\ \A h \in 1..Len(y) : h # j => z[h] = y[h]
  <2>1. z = [y EXCEPT ![j] = [y[j] EXCEPT !.qty = n]]
    OBVIOUS
  <2>2. z \in Seq(Rowed) /\ Len(z) = Len(y)
    BY <1>2, <2>1
  <2>3. z[j] = [y[j] EXCEPT !.qty = n] /\ \A h \in 1..Len(y) : h # j => z[h] = y[h]
    BY <1>1, <2>1
  <2>4. [y[j] EXCEPT !.qty = n].kind = y[j].kind /\ [y[j] EXCEPT !.qty = n].qty = n
    BY <1>1 DEF Rowed
  <2> QED BY <2>2, <2>3, <2>4
<1> HIDE DEF z
<1>4. /\ Units(y, k) = {u \in (1..Len(y)) \X Nat : y[u[1]].kind = k /\ u[2] \in 1..y[u[1]].qty}
      /\ Units(z, k) = {u \in (1..Len(z)) \X Nat : z[u[1]].kind = k /\ u[2] \in 1..z[u[1]].qty}
  BY <1>3, UnitsAre
<1>5. CASE y[j].kind = k
  <2>1. <<j, n>> \notin Units(y, k)
    BY <1>1, <1>4
  <2>2. ASSUME NEW u \in (1..Len(y)) \X Nat
        PROVE  u \in Units(z, k) <=> u \in Units(y, k) \union {<<j, n>>}
    <3>1. CASE u[1] = j
      <4>1. u = <<j, u[2]>> /\ u[2] \in Nat
        BY <3>1
      <4>2. u \in Units(z, k) <=> u[2] \in 1..n
        BY <1>3, <1>4, <1>5, <3>1
      <4>3. u \in Units(y, k) <=> u[2] \in 1..y[j].qty
        BY <1>4, <1>5, <3>1
      <4>4. u[2] \in 1..n <=> u[2] \in 1..y[j].qty \/ u[2] = n
        BY <1>1, <4>1
      <4>5. u = <<j, n>> <=> u[2] = n
        BY <4>1
      <4> QED BY <4>2, <4>3, <4>4, <4>5
    <3>2. CASE u[1] # j
      <4>1. z[u[1]] = y[u[1]] /\ u # <<j, n>>
        BY <1>3, <3>2
      <4> QED BY <1>3, <1>4, <4>1
    <3> QED BY <3>1, <3>2
  <2>3. <<j, n>> \in (1..Len(y)) \X Nat
    BY <1>1
  <2>4. Units(z, k) \subseteq (1..Len(y)) \X Nat /\ Units(y, k) \subseteq (1..Len(y)) \X Nat
    BY <1>3, <1>4
  <2>5. Units(z, k) = Units(y, k) \union {<<j, n>>}
    BY <2>2, <2>3, <2>4, Zenon
  <2>6. Total(z, k) = Total(y, k) + 1
    BY <1>3, <2>1, <2>5, TotalAdd
  <2> QED BY <1>3, <1>5, <2>6 DEF z
<1>6. CASE y[j].kind # k
  <2>1. ASSUME NEW u PROVE u \in Units(z, k) <=> u \in Units(y, k)
    BY <1>3, <1>4, <1>6
  <2>2. Total(z, k) = Total(y, k)
    <3>1. Units(z, k) = Units(y, k)
      BY <2>1, Zenon
    <3> QED BY <3>1, Zenon DEF Total
  <2>3. Total(y, k) \in Nat
    BY UnitsFinite
  <2> QED BY <1>3, <1>6, <2>2, <2>3 DEF z
<1> QED BY <1>5, <1>6

\* What is left when a row goes.
LEMMA RemovedRow ==
  ASSUME NEW S, NEW y \in Seq(S), NEW j \in 1..Len(y)
  PROVE  /\ RemoveAt(y, j) \in Seq(S) /\ Len(RemoveAt(y, j)) = Len(y) - 1
         /\ \A h \in 1..Len(y) - 1 : RemoveAt(y, j)[h] = IF h < j THEN y[h] ELSE y[h + 1]
<1> DEFINE z == RemoveAt(y, j)
           a == SubSeq(y, 1, j - 1)
           b == SubSeq(y, j + 1, Len(y))
<1>1. Len(y) \in Nat /\ j \in Nat /\ j >= 1 /\ j <= Len(y) /\ \A h \in 1..Len(y) : y[h] \in S
  OBVIOUS
<1>2. a \in Seq(S) /\ Len(a) = j - 1 /\ \A h \in 1..j - 1 : a[h] = y[h]
  BY <1>1
<1>3. b \in Seq(S) /\ Len(b) = Len(y) - j /\ \A h \in 1..Len(y) - j : b[h] = y[h + j]
  BY <1>1
<1>4. z = a \o b
  BY DEF RemoveAt
<1> HIDE DEF z, a, b
<1>5. z \in Seq(S) /\ Len(z) = Len(y) - 1
  <2>1. a \o b \in Seq(S) /\ Len(a \o b) = Len(a) + Len(b)
    <3>1. a \in Seq(S) /\ b \in Seq(S)
      BY <1>2, <1>3
    <3> QED BY <3>1
  <2>2. (j - 1) + (Len(y) - j) = Len(y) - 1
    BY <1>1
  <2> QED BY <1>2, <1>3, <1>4, <2>1, <2>2
<1>6. ASSUME NEW h \in 1..Len(y) - 1 PROVE z[h] = IF h < j THEN y[h] ELSE y[h + 1]
  <2>1. z[h] = IF h <= Len(a) THEN a[h] ELSE b[h - Len(a)]
    BY <1>1, <1>2, <1>3, <1>4
  <2>2. CASE h < j
    BY <1>1, <1>2, <2>1, <2>2
  <2>3. CASE ~(h < j)
    <3>1. h - Len(a) \in 1..Len(y) - j /\ (h - Len(a)) + j = h + 1
      BY <1>1, <1>2, <2>3
    <3> QED BY <1>1, <1>2, <1>3, <2>1, <2>3, <3>1
  <2> QED BY <2>2, <2>3
<1> QED BY <1>5, <1>6 DEF z

\* A row that is taken away, of one of its kind.
LEMMA TotalGone ==
  ASSUME NEW y \in Seq(Rowed), NEW j \in DOMAIN y, y[j].qty = 1, NEW k
  PROVE  /\ RemoveAt(y, j) \in Seq(Rowed)
         /\ Total(RemoveAt(y, j), k) = Total(y, k) - IF y[j].kind = k THEN 1 ELSE 0
<1> DEFINE z == RemoveAt(y, j)
<1>1. DOMAIN y = 1..Len(y) /\ Len(y) \in Nat /\ j \in 1..Len(y)
  BY RowsTyped
<1>2. /\ z \in Seq(Rowed) /\ Len(z) = Len(y) - 1
      /\ \A h \in 1..Len(z) : z[h] = IF h < j THEN y[h] ELSE y[h + 1]
  BY <1>1, RemovedRow, ZenonT(30)
<1> HIDE DEF z
<1>3. /\ Units(y, k) = {u \in (1..Len(y)) \X Nat : y[u[1]].kind = k /\ u[2] \in 1..y[u[1]].qty}
      /\ Units(z, k) = {u \in (1..Len(z)) \X Nat : z[u[1]].kind = k /\ u[2] \in 1..z[u[1]].qty}
  BY <1>2, UnitsAre
<1> DEFINE rest == Units(y, k) \ {<<j, 1>>}
           to == [u \in Units(z, k) |-> IF u[1] < j THEN u ELSE <<u[1] + 1, u[2]>>]
<1>4. to \in Bijection(Units(z, k), rest)
  <2>1. ASSUME NEW u \in Units(z, k) PROVE to[u] \in rest
    <3>1. /\ u \in (1..Len(z)) \X Nat /\ u[1] \in 1..Len(z) /\ u[2] \in Nat
          /\ z[u[1]].kind = k /\ u[2] \in 1..z[u[1]].qty
      BY <1>3
    <3>2. CASE u[1] < j
      <4>1. to[u] = u /\ u[1] \in 1..Len(y) /\ z[u[1]] = y[u[1]] /\ u[1] # j
        BY <1>1, <1>2, <3>1, <3>2
      <4>2. u \in (1..Len(y)) \X Nat /\ u # <<j, 1>>
        BY <3>1, <4>1
      <4> QED BY <1>3, <3>1, <4>1, <4>2
    <3>3. CASE ~(u[1] < j)
      <4>1. /\ to[u] = <<u[1] + 1, u[2]>> /\ u[1] + 1 \in 1..Len(y) /\ z[u[1]] = y[u[1] + 1]
            /\ u[1] + 1 # j
        BY <1>1, <1>2, <3>1, <3>3
      <4>2. to[u] \in (1..Len(y)) \X Nat /\ to[u][1] = u[1] + 1 /\ to[u][2] = u[2] /\ to[u] # <<j, 1>>
        BY <3>1, <4>1
      <4> QED BY <1>3, <3>1, <4>1, <4>2, ZenonT(30)
    <3> QED BY <3>2, <3>3
  <2>2. ASSUME NEW u \in Units(z, k), NEW q \in Units(z, k), to[u] = to[q] PROVE u = q
    <3>1. /\ u \in (1..Len(z)) \X Nat /\ q \in (1..Len(z)) \X Nat
      BY <1>3
    <3>2. u = <<u[1], u[2]>> /\ q = <<q[1], q[2]>> /\ u[1] \in Nat /\ q[1] \in Nat
      BY <3>1
    <3>3. /\ to[u][1] = IF u[1] < j THEN u[1] ELSE u[1] + 1
          /\ to[q][1] = IF q[1] < j THEN q[1] ELSE q[1] + 1
          /\ to[u][2] = u[2] /\ to[q][2] = q[2]
      OBVIOUS
    <3>4. u[1] = q[1] /\ u[2] = q[2]
      BY <1>1, <2>2, <3>2, <3>3
    <3> QED BY <3>2, <3>4
  <2>3. ASSUME NEW q \in rest PROVE \E u \in Units(z, k) : to[u] = q
    <3>1. /\ q \in (1..Len(y)) \X Nat /\ q[1] \in 1..Len(y) /\ q[2] \in Nat /\ q = <<q[1], q[2]>>
          /\ y[q[1]].kind = k /\ q[2] \in 1..y[q[1]].qty /\ q # <<j, 1>>
      BY <1>3
    <3>2. q[1] # j
      BY <3>1
    <3>3. CASE q[1] < j
      <4>1. q[1] \in 1..Len(z) /\ z[q[1]] = y[q[1]]
        BY <1>1, <1>2, <3>1, <3>3
      <4>2. q \in Units(z, k)
        BY <1>3, <3>1, <4>1
      <4> QED BY <3>3, <4>2
    <3>4. CASE q[1] > j
      <4> DEFINE u == <<q[1] - 1, q[2]>>
      <4>1. /\ q[1] - 1 \in 1..Len(z) /\ z[q[1] - 1] = y[(q[1] - 1) + 1] /\ (q[1] - 1) + 1 = q[1]
            /\ ~(q[1] - 1 < j)
        BY <1>1, <1>2, <3>1, <3>4
      <4>2. u[1] = q[1] - 1 /\ u[2] = q[2] /\ u \in (1..Len(z)) \X Nat
        BY <3>1, <4>1
      <4>3. u \in Units(z, k)
        BY <1>3, <3>1, <4>1, <4>2
      <4>4. to[u] = <<u[1] + 1, u[2]>>
        BY <4>1, <4>2, <4>3
      <4> QED BY <3>1, <4>1, <4>2, <4>3, <4>4
    <3> QED BY <1>1, <3>1, <3>2, <3>3, <3>4
  <2>4. to \in [Units(z, k) -> rest]
    BY <2>1
  <2> HIDE DEF to, rest
  <2>5. to \in Injection(Units(z, k), rest)
    BY <2>2, <2>4, Zenon DEF Injection, IsInjective
  <2>6. to \in Surjection(Units(z, k), rest)
    BY <2>3, <2>4, Zenon DEF Surjection
  <2> QED BY <2>5, <2>6, Zenon DEF Bijection
<1> HIDE DEF to
<1>5. IsFiniteSet(Units(z, k)) /\ IsFiniteSet(Units(y, k)) /\ Total(y, k) \in Nat
  BY <1>2, UnitsFinite
<1>6. Cardinality(rest) = Total(z, k)
  <2> HIDE DEF rest
  <2>1. ExistsBijection(Units(z, k), rest)
    BY <1>4 DEF ExistsBijection
  <2> QED BY <1>5, <2>1, FS_Bijection DEF Total
<1>7. Cardinality(rest) = IF <<j, 1>> \in Units(y, k) THEN Total(y, k) - 1 ELSE Total(y, k)
  BY <1>5, FS_RemoveElement DEF Total
<1>8. <<j, 1>> \in Units(y, k) <=> y[j].kind = k
  BY <1>1, <1>3
<1> QED BY <1>2, <1>5, <1>6, <1>7, <1>8 DEF z

\* How many messages of some sort are on their way.
Pending(q, M) == Cardinality({j \in DOMAIN q : q[j] \in M})

LEMMA PendingFinite ==
  ASSUME NEW S, NEW q \in Seq(S), NEW M
  PROVE  IsFiniteSet({j \in DOMAIN q : q[j] \in M}) /\ Pending(q, M) \in Nat
<1>1. DOMAIN q = 1..Len(q) /\ Len(q) \in Int /\ 1 \in Int
  OBVIOUS
<1>2. IsFiniteSet(1..Len(q)) /\ {j \in DOMAIN q : q[j] \in M} \in SUBSET (1..Len(q))
  BY <1>1, FS_Interval, Zenon
<1>3. IsFiniteSet({j \in DOMAIN q : q[j] \in M})
  BY <1>2, FS_Subset, Zenon
<1> QED BY <1>3, FS_CardinalityType DEF Pending

LEMMA PendingAppend ==
  ASSUME NEW S, NEW q \in Seq(S), NEW e \in S, NEW M
  PROVE  Pending(Append(q, e), M) = Pending(q, M) + IF e \in M THEN 1 ELSE 0
<1> DEFINE z == Append(q, e)
           n == Len(q) + 1
           of == {j \in DOMAIN q : q[j] \in M}
           zof == {j \in DOMAIN z : z[j] \in M}
<1>1. /\ Len(q) \in Nat /\ DOMAIN q = 1..Len(q) /\ DOMAIN z = 1..n
      /\ z[n] = e /\ \A j \in 1..Len(q) : z[j] = q[j]
  OBVIOUS
<1>2. DOMAIN z = DOMAIN q \union {n} /\ n \notin DOMAIN q
  BY <1>1
<1> HIDE DEF z, n
<1>3. zof = IF e \in M THEN of \union {n} ELSE of
  <2>1. \A j \in DOMAIN q : z[j] = q[j]
    BY <1>1
  <2> QED BY <1>1, <1>2, <2>1
<1>4. n \notin of
  BY <1>2
<1>5. IsFiniteSet(of) /\ Cardinality(of) \in Nat /\ Pending(q, M) = Cardinality(of)
  BY PendingFinite DEF Pending
<1>6. Pending(z, M) = Cardinality(zof)
  BY DEF Pending
<1>7. Cardinality(of \union {n}) = Cardinality(of) + 1
  <2> HIDE DEF of
  <2> QED BY <1>4, <1>5, FS_AddElement, Zenon
<1> HIDE DEF of, zof
<1>8. CASE e \in M
  BY <1>3, <1>5, <1>6, <1>7, <1>8 DEF z
<1>9. CASE e \notin M
  BY <1>3, <1>5, <1>6, <1>9 DEF z
<1> QED BY <1>8, <1>9

LEMMA PendingTail ==
  ASSUME NEW S, NEW q \in Seq(S), q # <<>>, NEW M
  PROVE  Pending(Tail(q), M) = Pending(q, M) - IF Head(q) \in M THEN 1 ELSE 0
<1> DEFINE z == Tail(q)
           of == {j \in DOMAIN q : q[j] \in M}
           zof == {j \in DOMAIN z : z[j] \in M}
           rest == of \ {1}
           to == [j \in zof |-> j + 1]
<1>1. /\ Len(q) \in Nat /\ Len(q) >= 1 /\ DOMAIN q = 1..Len(q) /\ DOMAIN z = 1..Len(q) - 1
      /\ Head(q) = q[1] /\ \A j \in 1..Len(q) - 1 : z[j] = q[j + 1]
  OBVIOUS
<1> HIDE DEF z
<1>2. to \in Bijection(zof, rest)
  <2>1. ASSUME NEW j \in zof PROVE to[j] \in rest /\ j \in Nat
    <3>1. j \in 1..Len(q) - 1 /\ q[j + 1] \in M
      BY <1>1
    <3>2. j + 1 \in 1..Len(q) /\ j + 1 # 1 /\ j \in Nat
      BY <1>1, <3>1
    <3> QED BY <1>1, <3>1, <3>2
  <2>2. ASSUME NEW j \in rest PROVE \E h \in zof : to[h] = j
    <3>1. j \in 1..Len(q) /\ j # 1 /\ q[j] \in M
      BY <1>1
    <3>2. j - 1 \in 1..Len(q) - 1 /\ (j - 1) + 1 = j
      BY <1>1, <3>1
    <3>3. j - 1 \in zof
      BY <1>1, <3>1, <3>2
    <3> QED BY <3>2, <3>3
  <2>3. ASSUME NEW j \in zof, NEW h \in zof, to[j] = to[h] PROVE j = h
    BY <2>1, <2>3
  <2>4. to \in [zof -> rest]
    BY <2>1
  <2> HIDE DEF to, rest, zof
  <2>5. to \in Injection(zof, rest)
    BY <2>3, <2>4, Zenon DEF Injection, IsInjective
  <2>6. to \in Surjection(zof, rest)
    BY <2>2, <2>4, Zenon DEF Surjection
  <2> QED BY <2>5, <2>6, Zenon DEF Bijection
<1> HIDE DEF to
<1>3. z \in Seq(S)
  BY DEF z
<1>4. /\ IsFiniteSet(of) /\ Cardinality(of) \in Nat /\ Pending(q, M) = Cardinality(of)
      /\ IsFiniteSet(zof) /\ Pending(z, M) = Cardinality(zof)
  BY <1>3, PendingFinite DEF Pending
<1>5. Cardinality(rest) = Cardinality(zof)
  <2> HIDE DEF zof, rest
  <2>1. ExistsBijection(zof, rest)
    BY <1>2 DEF ExistsBijection
  <2> QED BY <1>4, <2>1, FS_Bijection
<1>6. Cardinality(rest) = IF 1 \in of THEN Cardinality(of) - 1 ELSE Cardinality(of)
  <2> HIDE DEF of
  <2> QED BY <1>4, FS_RemoveElement
<1>7. 1 \in of <=> Head(q) \in M
  <2>1. 1 \in DOMAIN q
    BY <1>1
  <2> QED BY <1>1, <2>1
<1> HIDE DEF of, zof, rest
<1>8. CASE Head(q) \in M
  BY <1>4, <1>5, <1>6, <1>7, <1>8 DEF z
<1>9. CASE Head(q) \notin M
  BY <1>4, <1>5, <1>6, <1>7, <1>9 DEF z
<1> QED BY <1>8, <1>9

LEMMA PendingSome ==
  ASSUME NEW S, NEW q \in Seq(S), NEW M
  PROVE  Pending(q, M) # 0 <=> \E j \in DOMAIN q : q[j] \in M
<1> DEFINE of == {j \in DOMAIN q : q[j] \in M}
<1>1. IsFiniteSet(of) /\ Pending(q, M) = Cardinality(of)
  BY PendingFinite DEF Pending
<1>2. of # {} <=> \E j \in DOMAIN q : q[j] \in M
  OBVIOUS
<1> HIDE DEF of
<1> QED BY <1>1, <1>2, FS_EmptySet

BagRow == [id : Nat, kind : Kinds, qty : Nat \ {0}, equipped : BOOLEAN]
NewRow == [id : Nat, kind : Kinds, qty : {1}, equipped : BOOLEAN]
Adds(k) == [t : {"add"}, row : [id : Nat, kind : {k}, qty : {1}, equipped : BOOLEAN]]
Removals == [t : {"remove"}, id : Nat]
Takes(n) == [t : {"remove"}, id : {n}]
Others == [t : {"equip_result", "map_init"}]
Updating == [t : {"add"}, row : NewRow] \union Removals \union Others
Asking == [t : {"use", "equip", "unequip"}, id : Nat]
Reference == [kind : {"item"}, id : Nat]

\* The ids a request can name.
Named ==
  {toBag[j].id : j \in DOMAIN toBag}
    \union {d.id : d \in {uiDrag} \ {Nothing}}
    \union {skillBar[k].id : k \in {h \in Slots : skillBar[h] # Nothing}}

BagTypes ==
  /\ rows \in Seq(BagRow) /\ itemList \in Seq(Rowed)
  /\ fromBag \in Seq(Updating) /\ toBag \in Seq(Asking)
  /\ gets \in Seq([read : BOOLEAN, rows : Seq(BagRow)])
  /\ uiDrag \in {Nothing} \union Reference
  /\ skillBar \in [Slots -> {Nothing, Skill} \union Reference]
  /\ savedBar \in {Nothing} \union [Slots -> {Skill, Nothing}]
  /\ menuIdx \in {Nothing} \union [at : Nat, offer : {"use", "equip", "unequip"}]

\* No id is used twice; those that were seen are old.
BagIds ==
  /\ lastId \in Nat \ {0}
  /\ \A j \in DOMAIN rows : rows[j].id \in 1..lastId
  /\ \A j, h \in DOMAIN rows : rows[j].id = rows[h].id => j = h
  /\ \A j \in DOMAIN itemList : itemList[j].id \in 1..lastId
  /\ \A j \in DOMAIN gets : \A h \in DOMAIN gets[j].rows : gets[j].rows[h].id \in 1..lastId
  /\ \A j \in DOMAIN fromBag : fromBag[j].t = "add" => fromBag[j].row.id \in 1..lastId
  /\ \A n \in Named : n <= lastId

\* One to take away is still to come: the client's list has the row, of consumables.
RemovalsHeard ==
  \A j \in DOMAIN fromBag : fromBag[j].t = "remove" =>
    /\ Has(itemList, fromBag[j].id)
    /\ \A h \in DOMAIN itemList : itemList[h].id = fromBag[j].id => itemList[h].kind = "item"

\* The client's row has those that are to be taken away, and those the server still holds.
Enough ==
  \A h \in DOMAIN itemList :
    /\ Pending(fromBag, Takes(itemList[h].id)) <= itemList[h].qty
    /\ \A j \in DOMAIN rows : rows[j].id = itemList[h].id =>
         Pending(fromBag, Takes(itemList[h].id)) + rows[j].qty <= itemList[h].qty

\* A row that is still to come is not in the list, comes once, and was not stacked upon.
AddsNew ==
  \A j \in DOMAIN fromBag : fromBag[j].t = "add" =>
    /\ ~Has(itemList, fromBag[j].row.id)
    /\ \A h \in DOMAIN fromBag :
         fromBag[h].t = "add" /\ fromBag[h].row.id = fromBag[j].row.id => h = j
    /\ \A h \in DOMAIN rows : rows[h].id = fromBag[j].row.id => rows[h].qty = 1

\* What the server holds is of the same kind in the client's list, now or later.
KindsAgree ==
  \A j \in DOMAIN rows :
    /\ \A h \in DOMAIN itemList : itemList[h].id = rows[j].id => itemList[h].kind = rows[j].kind
    /\ \A h \in DOMAIN fromBag :
         fromBag[h].t = "add" /\ fromBag[h].row.id = rows[j].id => fromBag[h].row.kind = rows[j].kind

\* With the updates on their way the list counts as many of each kind as the rows.
CountsMeet ==
  \A k \in Kinds :
    Total(itemList, k) + Pending(fromBag, Adds(k))
      = Total(rows, k) + IF k = "item" THEN Pending(fromBag, Removals) ELSE 0

\* Once fetched undisturbed, the list lacks only rows that no request can name.
BagInv ==
  /\ BagTypes /\ BagIds
  /\ fresh => /\ CountsMeet /\ RemovalsHeard /\ Enough /\ AddsNew /\ KindsAgree
              /\ \A j \in DOMAIN rows : rows[j].id \in Named => Has(itemList, rows[j].id)

LEMMA BagRowed == BagRow \subseteq Rowed /\ Seq(BagRow) \subseteq Seq(Rowed)
<1>1. BagRow \subseteq Rowed
  BY DEF BagRow, Rowed
<1>2. ASSUME NEW y \in Seq(BagRow) PROVE y \in Seq(Rowed)
  <2>1. Len(y) \in Nat /\ DOMAIN y = 1..Len(y) /\ y \in [1..Len(y) -> BagRow]
    OBVIOUS
  <2>2. y \in [1..Len(y) -> Rowed]
    BY <1>1, <2>1
  <2> QED BY <2>1, <2>2
<1> QED BY <1>1, <1>2

LEMMA AtFinds ==
  ASSUME NEW y, NEW n, Has(y, n)
  PROVE  At(y, n) \in DOMAIN y /\ y[At(y, n)].id = n
BY DEF Has, At

\* One of a row is used up.
LEMMA LessRow ==
  ASSUME NEW y \in Seq(Rowed), NEW j \in DOMAIN y
  PROVE  /\ Less(y, j) \in Seq(Rowed)
         /\ \A k : Total(Less(y, j), k) = Total(y, k) - IF y[j].kind = k THEN 1 ELSE 0
         /\ \A h \in DOMAIN Less(y, j) : \E o \in DOMAIN y :
              /\ y[o].id = Less(y, j)[h].id /\ y[o].kind = Less(y, j)[h].kind
              /\ Less(y, j)[h].qty = y[o].qty - IF o = j THEN 1 ELSE 0
         /\ \A n : Has(y, n) /\ (n # y[j].id \/ y[j].qty > 1) => Has(Less(y, j), n)
<1> DEFINE z == Less(y, j)
<1>1. /\ DOMAIN y = 1..Len(y) /\ Len(y) \in Nat /\ j \in 1..Len(y)
      /\ \A h \in DOMAIN y : y[h] \in Rowed /\ y[h].qty \in Nat \ {0} /\ y[h].qty \in Nat
  BY RowsTyped
<1>2. CASE y[j].qty <= 1
  <2>1. z = RemoveAt(y, j) /\ y[j].qty = 1
    BY <1>1, <1>2 DEF Less
  <2> HIDE DEF z
  <2>2. /\ z \in Seq(Rowed) /\ Len(z) = Len(y) - 1
        /\ \A h \in 1..Len(y) - 1 : z[h] = IF h < j THEN y[h] ELSE y[h + 1]
    BY <1>1, <2>1, RemovedRow, ZenonT(30)
  <2>3. \A k : Total(z, k) = Total(y, k) - IF y[j].kind = k THEN 1 ELSE 0
    BY <2>1, TotalGone
  <2>4. DOMAIN z = 1..Len(y) - 1
    BY <2>2
  <2>5. ASSUME NEW h \in DOMAIN z PROVE \E o \in DOMAIN y : y[o] = z[h] /\ o # j
    <3>1. h \in DOMAIN y /\ h + 1 \in DOMAIN y /\ (h < j => h # j) /\ (~(h < j) => h + 1 # j)
      BY <1>1, <2>4
    <3> QED BY <2>2, <2>4, <3>1
  <2>6. ASSUME NEW n, n # y[j].id \/ y[j].qty > 1, Has(y, n) PROVE Has(z, n)
    <3>1. PICK h \in 1..Len(y) : y[h].id = n /\ h # j
      BY <1>1, <2>1, <2>6 DEF Has
    <3>2. CASE h < j
      <4>1. h \in DOMAIN z /\ z[h] = y[h]
        BY <1>1, <2>2, <2>4, <3>1, <3>2
      <4> QED BY <3>1, <4>1 DEF Has
    <3>3. CASE h > j
      <4>1. h - 1 \in DOMAIN z /\ ~(h - 1 < j) /\ (h - 1) + 1 = h
        BY <1>1, <2>4, <3>1, <3>3
      <4>2. z[h - 1] = y[h]
        BY <2>2, <2>4, <4>1
      <4> QED BY <3>1, <4>1, <4>2 DEF Has
    <3> QED BY <1>1, <3>1, <3>2, <3>3
  <2>7. \A h \in DOMAIN z : \E o \in DOMAIN y :
          /\ y[o].id = z[h].id /\ y[o].kind = z[h].kind
          /\ z[h].qty = y[o].qty - IF o = j THEN 1 ELSE 0
    <3> SUFFICES ASSUME NEW h \in DOMAIN z
                 PROVE  \E o \in DOMAIN y : /\ y[o].id = z[h].id /\ y[o].kind = z[h].kind
                                           /\ z[h].qty = y[o].qty - IF o = j THEN 1 ELSE 0
      OBVIOUS
    <3>1. PICK o \in DOMAIN y : y[o] = z[h] /\ o # j
      BY <2>5
    <3>2. z[h].qty = y[o].qty - IF o = j THEN 1 ELSE 0
      BY <1>1, <3>1
    <3> QED BY <3>1, <3>2
  <2> QED BY <2>2, <2>3, <2>6, <2>7 DEF z
<1>3. CASE ~(y[j].qty <= 1)
  <2> DEFINE e == [y[j] EXCEPT !.qty = @ - 1]
  <2>1. z = [y EXCEPT ![j] = e]
    BY <1>3 DEF Less
  <2>2. /\ y[j].qty - 1 \in Nat \ {0} /\ (y[j].qty - 1) + 1 = y[j].qty
    BY <1>1, <1>3
  <2>3. e \in Rowed /\ e.id = y[j].id /\ e.kind = y[j].kind /\ e.qty + 1 = y[j].qty
    BY <1>1, <2>2 DEF Rowed
  <2>4. [e EXCEPT !.qty = @ + 1] = y[j]
    BY <1>1, <2>2 DEF Rowed
  <2> HIDE DEF e, z
  <2>5. /\ z \in Seq(Rowed) /\ DOMAIN z = DOMAIN y /\ z[j] = e
        /\ \A h \in DOMAIN y : h # j => z[h] = y[h]
    BY <2>1, <2>3
  <2>6. [z EXCEPT ![j].qty = @ + 1] = y
    <3>1. [z EXCEPT ![j].qty = @ + 1] = [z EXCEPT ![j] = [e EXCEPT !.qty = @ + 1]]
      BY <2>5
    <3>2. y \in [1..Len(y) -> Rowed]
      BY <1>1
    <3>3. [[y EXCEPT ![j] = e] EXCEPT ![j] = y[j]] = y
      BY <1>1, <3>2
    <3> QED BY <2>1, <2>4, <3>1, <3>3
  <2>7. ASSUME NEW k PROVE Total(z, k) = Total(y, k) - IF y[j].kind = k THEN 1 ELSE 0
    <3>1. Total(y, k) = Total(z, k) + IF z[j].kind = k THEN 1 ELSE 0
      BY <2>5, <2>6, TotalMore
    <3>2. Total(z, k) \in Nat
      BY <2>5, UnitsFinite
    <3> QED BY <2>3, <2>5, <3>1, <3>2
  <2>8. \A h \in DOMAIN z : /\ h \in DOMAIN y /\ y[h].id = z[h].id /\ y[h].kind = z[h].kind
                            /\ z[h].qty = y[h].qty - IF h = j THEN 1 ELSE 0
    <3>1. e.qty = y[j].qty - 1
      BY <1>1, <2>2 DEF e
    <3> QED BY <1>1, <2>3, <2>5, <3>1
  <2>9. ASSUME NEW n, Has(y, n) PROVE Has(z, n)
    BY <2>5, <2>8, <2>9 DEF Has
  <2> QED BY <2>5, <2>7, <2>8, <2>9 DEF z
<1> QED BY <1>2, <1>3

\* A row is gone.
LEMMA RowGone ==
  ASSUME NEW y \in Seq(BagRow), NEW j \in DOMAIN y,
         \A h, o \in DOMAIN y : y[h].id = y[o].id => h = o
  PROVE  /\ RemoveAt(y, j) \in Seq(BagRow)
         /\ \A h, o \in DOMAIN RemoveAt(y, j) : RemoveAt(y, j)[h].id = RemoveAt(y, j)[o].id => h = o
         /\ \A h \in DOMAIN RemoveAt(y, j) : \E o \in DOMAIN y : y[o] = RemoveAt(y, j)[h]
<1> DEFINE z == RemoveAt(y, j)
<1>1. DOMAIN y = 1..Len(y) /\ Len(y) \in Nat /\ j \in 1..Len(y)
  OBVIOUS
<1>2. /\ z \in Seq(BagRow) /\ Len(z) = Len(y) - 1
      /\ \A h \in 1..Len(y) - 1 : z[h] = IF h < j THEN y[h] ELSE y[h + 1]
  BY <1>1, RemovedRow, ZenonT(30)
<1> HIDE DEF z
<1>3. DOMAIN z = 1..Len(y) - 1
  BY <1>2
<1>4. ASSUME NEW h \in DOMAIN z PROVE \E o \in DOMAIN y : y[o] = z[h]
  <2>1. h \in DOMAIN y /\ h + 1 \in DOMAIN y
    BY <1>1, <1>3
  <2> QED BY <1>2, <1>3, <2>1
<1>5. ASSUME NEW h \in DOMAIN z, NEW o \in DOMAIN z, z[h].id = z[o].id PROVE h = o
  <2>1. h \in Nat /\ o \in Nat /\ j \in Nat
    BY <1>1, <1>3
  <2>2. /\ h \in DOMAIN y /\ o \in DOMAIN y /\ h + 1 \in DOMAIN y /\ o + 1 \in DOMAIN y
    BY <1>1, <1>3
  <2>3. z[h] = (IF h < j THEN y[h] ELSE y[h + 1]) /\ z[o] = (IF o < j THEN y[o] ELSE y[o + 1])
    BY <1>2, <1>3
  <2>4. CASE h < j /\ o < j
    BY <1>5, <2>2, <2>3, <2>4
  <2>5. CASE h < j /\ ~(o < j)
    <3>1. h = o + 1
      BY <1>5, <2>2, <2>3, <2>5
    <3> QED BY <2>1, <2>5, <3>1
  <2>6. CASE ~(h < j) /\ o < j
    <3>1. h + 1 = o
      BY <1>5, <2>2, <2>3, <2>6
    <3> QED BY <2>1, <2>6, <3>1
  <2>7. CASE ~(h < j) /\ ~(o < j)
    <3>1. h + 1 = o + 1
      BY <1>5, <2>2, <2>3, <2>7
    <3> QED BY <2>1, <3>1
  <2> QED BY <2>4, <2>5, <2>6, <2>7
<1> QED BY <1>2, <1>4, <1>5 DEF z

\* More or fewer of a row: every row has the id it had.
LEMMA RowStacked ==
  ASSUME NEW y \in Seq(BagRow), NEW j \in DOMAIN y, NEW n \in Nat \ {0}
  PROVE  /\ [y EXCEPT ![j].qty = n] \in Seq(BagRow)
         /\ DOMAIN [y EXCEPT ![j].qty = n] = DOMAIN y
         /\ \A h \in DOMAIN y : [y EXCEPT ![j].qty = n][h].id = y[h].id
<1> DEFINE z == [y EXCEPT ![j].qty = n]
           r == [y[j] EXCEPT !.qty = n]
<1>1. y[j] \in BagRow
  OBVIOUS
<1>2. r \in BagRow /\ r.id = y[j].id
  BY <1>1 DEF BagRow
<1>3. z = [y EXCEPT ![j] = r]
  OBVIOUS
<1> HIDE DEF z, r
<1>4. z \in Seq(BagRow) /\ DOMAIN z = DOMAIN y /\ z[j] = r /\ \A h \in DOMAIN y : h # j => z[h] = y[h]
  BY <1>2, <1>3
<1>5. \A h \in DOMAIN y : z[h].id = y[h].id
  BY <1>2, <1>4
<1> QED BY <1>4, <1>5 DEF z

\* One of a row is used up: the row is gone, or has one less.
LEMMA RowUsed ==
  ASSUME NEW y \in Seq(BagRow), NEW j \in DOMAIN y,
         \A h, o \in DOMAIN y : y[h].id = y[o].id => h = o
  PROVE  /\ Less(y, j) \in Seq(BagRow)
         /\ \A h, o \in DOMAIN Less(y, j) : Less(y, j)[h].id = Less(y, j)[o].id => h = o
         /\ \A h \in DOMAIN Less(y, j) : \E o \in DOMAIN y : y[o].id = Less(y, j)[h].id
<1>1. y[j] \in BagRow
  OBVIOUS
<1>2. y[j].qty \in Nat \ {0}
  BY <1>1 DEF BagRow
<1>3. CASE y[j].qty <= 1
  <2>1. Less(y, j) = RemoveAt(y, j)
    BY <1>3 DEF Less
  <2> DEFINE z == RemoveAt(y, j)
  <2>2. /\ z \in Seq(BagRow) /\ \A h, o \in DOMAIN z : z[h].id = z[o].id => h = o
        /\ \A h \in DOMAIN z : \E o \in DOMAIN y : y[o] = z[h]
    BY RowGone
  <2> HIDE DEF z
  <2>3. \A h \in DOMAIN z : \E o \in DOMAIN y : y[o].id = z[h].id
    BY <2>2
  <2> QED BY <2>1, <2>2, <2>3 DEF z
<1>4. CASE ~(y[j].qty <= 1)
  <2> DEFINE n == y[j].qty - 1
             z == [y EXCEPT ![j].qty = n]
  <2>1. n \in Nat \ {0}
    BY <1>2, <1>4
  <2>2. Less(y, j) = z
    BY <1>4 DEF Less
  <2> HIDE DEF n
  <2>3. z \in Seq(BagRow) /\ DOMAIN z = DOMAIN y /\ \A h \in DOMAIN y : z[h].id = y[h].id
    BY <2>1, RowStacked
  <2> HIDE DEF z
  <2> QED BY <2>2, <2>3
<1> QED BY <1>3, <1>4

LEMMA LeastOf ==
  ASSUME NEW S \in SUBSET Nat, S # {}
  PROVE  Min(S) \in S /\ \A k \in S : Min(S) <= k
<1>1. \E j \in S : \A k \in S : ~(<<k, j>> \in OpToRel(<, Nat))
  BY NatLessThanWellFounded, WFMin, Zenon
<1>2. PICK j \in S : \A k \in S : ~(<<k, j>> \in OpToRel(<, Nat))
  BY <1>1, Zenon
<1>3. ASSUME NEW k \in S PROVE j <= k
  <2>1. <<k, j>> \notin {d \in Nat \X Nat : d[1] < d[2]}
    BY <1>2, Zenon DEF OpToRel
  <2>2. k \in Nat /\ j \in Nat /\ <<k, j>>[1] = k /\ <<k, j>>[2] = j
    OBVIOUS
  <2> QED BY <2>1, <2>2
<1> QED BY <1>3 DEF Min

\* An item joins the first stack of its kind, or is a row of its own.
LEMMA AddedRow ==
  ASSUME NEW y \in Seq(Rowed), NEW r \in NewRow
  PROVE  /\ Added(y, r) \in Seq(Rowed)
         /\ \A k : Total(Added(y, r), k) = Total(y, k) + IF r.kind = k THEN 1 ELSE 0
         /\ \A h \in DOMAIN Added(y, r) :
              \/ Added(y, r)[h].id = r.id /\ Added(y, r)[h].kind = r.kind /\ Added(y, r)[h].qty = 1
              \/ \E o \in DOMAIN y :
                   /\ y[o].id = Added(y, r)[h].id /\ y[o].kind = Added(y, r)[h].kind
                   /\ Added(y, r)[h].qty \in {y[o].qty, y[o].qty + 1}
         /\ \A n : Has(y, n) => Has(Added(y, r), n)
<1> DEFINE z == Added(y, r)
           of == {h \in 1..Len(y) : y[h].kind = r.kind /\ ~y[h].equipped}
           at == IF of # {} THEN Min(of) ELSE 0
<1>1. /\ DOMAIN y = 1..Len(y) /\ Len(y) \in Nat
      /\ \A h \in DOMAIN y : y[h] \in Rowed /\ y[h].qty \in Nat
  BY RowsTyped
<1>2. r \in Rowed /\ r.qty = 1
  BY DEF NewRow, Rowed
<1>3. of # {} => at \in of
  <2>1. of \in SUBSET Nat
    BY <1>1
  <2> HIDE DEF of
  <2> QED BY <2>1, LeastOf, Zenon
<1>4. z = IF at # 0 /\ r.kind = "item" THEN [y EXCEPT ![at].qty = @ + r.qty] ELSE Append(y, r)
  BY DEF Added, SelectInSeq
<1> HIDE DEF z
<1>5. CASE at # 0 /\ r.kind = "item"
  <2>1. at \in DOMAIN y /\ y[at].kind = r.kind
    BY <1>1, <1>3, <1>5
  <2> HIDE DEF of, at
  <2>2. z = [y EXCEPT ![at].qty = @ + 1]
    BY <1>2, <1>4, <1>5
  <2>3. z \in Seq(Rowed) /\ \A k : Total(z, k) = Total(y, k) + IF r.kind = k THEN 1 ELSE 0
    <3>1. /\ [y EXCEPT ![at].qty = @ + 1] \in Seq(Rowed)
          /\ \A k : Total([y EXCEPT ![at].qty = @ + 1], k) = Total(y, k) + IF y[at].kind = k THEN 1 ELSE 0
      BY <2>1, TotalMore, Zenon
    <3> QED BY <2>1, <2>2, <3>1, Zenon
  <2>4. DOMAIN z = DOMAIN y
    BY <2>2
  <2>5. \A h \in DOMAIN y : /\ z[h].id = y[h].id /\ z[h].kind = y[h].kind
                            /\ z[h].qty \in {y[h].qty, y[h].qty + 1}
    <3> SUFFICES ASSUME NEW h \in DOMAIN y
                 PROVE  /\ z[h].id = y[h].id /\ z[h].kind = y[h].kind
                        /\ z[h].qty \in {y[h].qty, y[h].qty + 1}
      OBVIOUS
    <3>1. CASE h = at
      <4>1. z[h] = [y[h] EXCEPT !.qty = y[h].qty + 1] /\ y[h] \in Rowed
        BY <1>1, <2>1, <2>2, <3>1
      <4> QED BY <4>1 DEF Rowed
    <3>2. CASE h # at
      BY <2>2, <3>2
    <3> QED BY <3>1, <3>2
  <2>6. \A n : Has(y, n) => Has(z, n)
    BY <2>4, <2>5 DEF Has
  <2>7. \A h \in DOMAIN z : \E o \in DOMAIN y :
          y[o].id = z[h].id /\ y[o].kind = z[h].kind /\ z[h].qty \in {y[o].qty, y[o].qty + 1}
    BY <2>4, <2>5
  <2> QED BY <2>3, <2>6, <2>7 DEF z
<1>6. CASE ~(at # 0 /\ r.kind = "item")
  <2>1. z = Append(y, r)
    BY <1>4, <1>6
  <2>2. z \in Seq(Rowed) /\ \A k : Total(z, k) = Total(y, k) + IF r.kind = k THEN 1 ELSE 0
    BY <1>2, <2>1, TotalAppend
  <2>3. /\ DOMAIN z = 1..Len(y) + 1 /\ z[Len(y) + 1] = r
        /\ \A h \in 1..Len(y) : z[h] = y[h]
    BY <1>2, <2>1
  <2>4. \A n : Has(y, n) => Has(z, n)
    BY <1>1, <2>3 DEF Has
  <2>5. \A h \in DOMAIN z : z[h] = r \/ \E o \in DOMAIN y : y[o] = z[h]
    <3> SUFFICES ASSUME NEW h \in 1..Len(y) + 1 PROVE h = Len(y) + 1 \/ h \in 1..Len(y)
      BY <1>1, <2>3
    <3> QED BY <1>1
  <2>6. \A h \in DOMAIN z : \/ z[h].id = r.id /\ z[h].kind = r.kind /\ z[h].qty = 1
                            \/ \E o \in DOMAIN y : /\ y[o].id = z[h].id /\ y[o].kind = z[h].kind
                                                   /\ z[h].qty \in {y[o].qty, y[o].qty + 1}
    BY <1>2, <2>5
  <2> QED BY <2>2, <2>4, <2>6 DEF z
<1> QED BY <1>5, <1>6

\* A message that is sent, and one that is heard.
LEMMA SentOne ==
  ASSUME NEW S, NEW q \in Seq(S), NEW e \in S
  PROVE  /\ Append(q, e) \in Seq(S) /\ DOMAIN q = 1..Len(q) /\ Len(q) \in Nat
         /\ DOMAIN Append(q, e) = DOMAIN q \union {Len(q) + 1} /\ Len(q) + 1 \notin DOMAIN q
         /\ Append(q, e)[Len(q) + 1] = e /\ \A j \in DOMAIN q : Append(q, e)[j] = q[j]
<1>1. /\ Append(q, e) \in Seq(S) /\ DOMAIN q = 1..Len(q) /\ Len(q) \in Nat
      /\ DOMAIN Append(q, e) = 1..Len(q) + 1
      /\ Append(q, e)[Len(q) + 1] = e /\ \A j \in DOMAIN q : Append(q, e)[j] = q[j]
  OBVIOUS
<1>2. 1..Len(q) + 1 = (1..Len(q)) \union {Len(q) + 1} /\ Len(q) + 1 \notin 1..Len(q)
  BY <1>1
<1> QED BY <1>1, <1>2

LEMMA HeardOne ==
  ASSUME NEW S, NEW q \in Seq(S), q # <<>>
  PROVE  /\ Tail(q) \in Seq(S) /\ Head(q) \in S /\ 1 \in DOMAIN q /\ Head(q) = q[1]
         /\ \A j \in DOMAIN Tail(q) : j + 1 \in DOMAIN q /\ j + 1 # 1 /\ j \in Nat /\ Tail(q)[j] = q[j + 1]
<1>1. /\ Tail(q) \in Seq(S) /\ Len(q) \in Nat /\ Len(q) >= 1 /\ DOMAIN q = 1..Len(q)
      /\ DOMAIN Tail(q) = 1..Len(q) - 1 /\ Head(q) = q[1]
      /\ \A j \in 1..Len(q) - 1 : Tail(q)[j] = q[j + 1]
  OBVIOUS
<1>2. 1 \in DOMAIN q /\ q[1] \in S
  BY <1>1
<1>3. \A j \in DOMAIN Tail(q) : j + 1 \in DOMAIN q /\ j + 1 # 1 /\ j \in Nat
  BY <1>1
<1> QED BY <1>1, <1>2, <1>3

LEMMA Element ==
  ASSUME NEW S, NEW q \in Seq(S), NEW j \in DOMAIN q
  PROVE  q[j] \in S /\ j \in 1..Len(q) /\ j \in Nat
OBVIOUS

\* The messages are told apart by their type.
LEMMA Sorts ==
  /\ \A e \in Updating : e.t = "add" <=> \E k \in Kinds : e \in Adds(k)
  /\ \A e \in Updating : e.t = "add" => e.row \in NewRow /\ \A k : e \in Adds(k) <=> e.row.kind = k
  /\ \A e \in Updating : e.t = "remove" <=> e \in Removals
  /\ \A e \in Removals : e.t = "remove" /\ e.id \in Nat /\ \A k : e \notin Adds(k)
  /\ \A e \in Updating : e.t # "add" => \A k : e \notin Adds(k)
  /\ \A e \in Others : e \in Updating /\ e.t \notin {"add", "remove"} /\ e \notin Removals /\ \A k : e \notin Adds(k)
  /\ \A e \in Updating : \A n : e \in Takes(n) <=> e.t = "remove" /\ e.id = n
<1>1. ASSUME NEW e \in [t : {"add"}, row : NewRow]
      PROVE  e.t = "add" /\ e.row \in NewRow /\ e.row.kind \in Kinds /\ \A k : e \in Adds(k) <=> e.row.kind = k
  <2>1. e.t = "add" /\ e.row \in NewRow /\ e.row.kind \in Kinds /\ e = [t |-> "add", row |-> e.row]
    BY DEF NewRow
  <2>2. ASSUME NEW k PROVE e \in Adds(k) <=> e.row.kind = k
    <3>1. e \in Adds(k) => e.row.kind = k
      BY DEF Adds
    <3>2. ASSUME e.row.kind = k PROVE e \in Adds(k)
      <4>1. e.row \in [id : Nat, kind : {k}, qty : {1}, equipped : BOOLEAN]
        BY <2>1, <3>2 DEF NewRow
      <4> QED BY <2>1, <4>1 DEF Adds
    <3> QED BY <3>1, <3>2
  <2> QED BY <2>1, <2>2
<1>2. ASSUME NEW e \in Removals
      PROVE  e.t = "remove" /\ e.id \in Nat /\ \A k : e \notin Adds(k)
  BY DEF Removals, Adds
<1>3. ASSUME NEW e \in Others
      PROVE  e.t \in {"equip_result", "map_init"} /\ e \notin Removals /\ \A k : e \notin Adds(k)
  BY DEF Removals, Adds, Others
<1>4. \A e : e \in Updating <=> e \in [t : {"add"}, row : NewRow] \/ e \in Removals \/ e \in Others
  BY DEF Updating
<1>5. ASSUME NEW e \in Updating, NEW n PROVE e \in Takes(n) <=> e.t = "remove" /\ e.id = n
  <2>1. e \in Takes(n) => e.t = "remove" /\ e.id = n
    BY DEF Takes
  <2>2. ASSUME e.t = "remove", e.id = n PROVE e \in Takes(n)
    <3>1. e \in Removals
      BY <1>1, <1>3, <1>4, <2>2
    <3> QED BY <2>2, <3>1 DEF Removals, Takes
  <2> QED BY <2>1, <2>2
<1> QED BY <1>1, <1>2, <1>3, <1>4, <1>5

LEMMA ServerTypes ==
  ASSUME BagTypes, BagIds, Server
  PROVE  BagTypes'
<1>1. /\ rows \in Seq(BagRow) /\ fromBag \in Seq(Updating) /\ toBag \in Seq(Asking)
      /\ gets \in Seq([read : BOOLEAN, rows : Seq(BagRow)]) /\ lastId \in Nat
  BY DEF BagTypes, BagIds
<1>2. /\ UNCHANGED <<itemList, uiDrag, skillBar, savedBar, menuIdx>>
      /\ rows' \in Seq(BagRow) /\ fromBag' \in Seq(Updating) /\ toBag' \in Seq(Asking)
      /\ gets' \in Seq([read : BOOLEAN, rows : Seq(BagRow)])
      => BagTypes'
  BY DEF BagTypes
<1>3. ASSUME NEW kind \in Kinds, HandlePickup(kind) PROVE BagTypes'
  <2> DEFINE r == [id |-> lastId + 1, kind |-> kind, qty |-> 1, equipped |-> FALSE]
             e == [t |-> "add", row |-> r]
  <2>1. /\ rows' = Append(rows, r) /\ fromBag' = Append(fromBag, e)
        /\ UNCHANGED <<toBag, gets, itemList, uiDrag, skillBar, savedBar, menuIdx>>
    BY <1>3 DEF HandlePickup, windowSide, barSide
  <2>2. r \in BagRow /\ r \in NewRow
    BY <1>1 DEF BagRow, NewRow
  <2> HIDE DEF r
  <2>3. e \in Updating
    BY <2>2 DEF Updating
  <2> HIDE DEF e
  <2>4. rows' \in Seq(BagRow) /\ fromBag' \in Seq(Updating)
    BY <1>1, <2>1, <2>2, <2>3
  <2> QED BY <1>1, <1>2, <2>1, <2>4
<1>4. CASE HandleUseItem
  <2> DEFINE n == Head(toBag).id
  <2>1. /\ toBag # <<>> /\ toBag' = Tail(toBag)
        /\ \/ /\ Has(rows, n) /\ rows' = Less(rows, At(rows, n))
              /\ fromBag' = Append(fromBag, [t |-> "remove", id |-> n])
           \/ UNCHANGED <<rows, fromBag>>
        /\ UNCHANGED <<gets, itemList, uiDrag, skillBar, savedBar, menuIdx>>
    BY <1>4 DEF HandleUseItem, Requested, windowSide, barSide
  <2>2. toBag' \in Seq(Asking) /\ n \in Nat
    <3>1. Head(toBag) \in Asking /\ Tail(toBag) \in Seq(Asking)
      BY <1>1, <2>1
    <3> QED BY <2>1, <3>1 DEF Asking
  <2>3. CASE UNCHANGED <<rows, fromBag>>
    BY <1>1, <1>2, <2>1, <2>2, <2>3
  <2>4. CASE /\ Has(rows, n) /\ rows' = Less(rows, At(rows, n))
             /\ fromBag' = Append(fromBag, [t |-> "remove", id |-> n])
    <3> HIDE DEF n
    <3>1. rows' \in Seq(BagRow)
      BY <1>1, <2>4, AtFinds, RowUsed DEF BagIds
    <3>2. [t |-> "remove", id |-> n] \in Updating
      BY <2>2 DEF Updating, Removals
    <3>3. fromBag' \in Seq(Updating)
      BY <1>1, <2>4, <3>2
    <3> QED BY <1>1, <1>2, <2>1, <2>2, <3>1, <3>3
  <2> QED BY <2>1, <2>3, <2>4
<1>5. CASE HandleEquipItem \/ HandleUnequipItem
  <2>1. /\ toBag # <<>> /\ toBag' = Tail(toBag)
        /\ \/ rows' = [j \in DOMAIN rows |-> [rows[j] EXCEPT !.equipped = rows[j].id = Head(toBag).id]]
           \/ \E j \in DOMAIN rows : rows' = [rows EXCEPT ![j].equipped = FALSE]
           \/ UNCHANGED rows
        /\ fromBag' = Append(fromBag, [t |-> "equip_result"]) \/ UNCHANGED fromBag
        /\ UNCHANGED <<gets, itemList, uiDrag, skillBar, savedBar, menuIdx>>
    BY <1>5, AtFinds DEF HandleEquipItem, HandleUnequipItem, Requested, windowSide, barSide
  <2>2. toBag' \in Seq(Asking)
    BY <1>1, <2>1
  <2>3. fromBag' \in Seq(Updating)
    <3> DEFINE e == [t |-> "equip_result"]
    <3>1. e \in Updating
      BY DEF Updating, Others
    <3>2. fromBag' = Append(fromBag, e) \/ fromBag' = fromBag
      BY <2>1
    <3> HIDE DEF e
    <3>3. fromBag \in Seq(Updating) /\ Append(fromBag, e) \in Seq(Updating)
      BY <1>1, <3>1, SentOne, Zenon
    <3> QED BY <3>2, <3>3, Zenon
  <2>4. rows' \in Seq(BagRow)
    <3>1. /\ rows \in [1..Len(rows) -> BagRow] /\ Len(rows) \in Nat /\ DOMAIN rows = 1..Len(rows)
      BY <1>1
    <3>2. \A r \in BagRow, b \in BOOLEAN : [r EXCEPT !.equipped = b] \in BagRow
      BY DEF BagRow
    <3>3. rows' \in [1..Len(rows) -> BagRow]
      BY <2>1, <3>1, <3>2
    <3> QED BY <3>1, <3>3
  <2> QED BY <1>1, <1>2, <2>1, <2>2, <2>3, <2>4
<1>6. CASE EnterMap
  <2>1. /\ fromBag' = Append(fromBag, [t |-> "map_init"])
        /\ UNCHANGED <<rows, toBag, gets, itemList, uiDrag, skillBar, savedBar, menuIdx>>
    BY <1>6 DEF EnterMap, serverSide, windowSide
  <2>2. [t |-> "map_init"] \in Updating
    BY DEF Updating, Others
  <2>3. fromBag' \in Seq(Updating)
    BY <1>1, <2>1, <2>2
  <2> QED BY <1>1, <1>2, <2>1, <2>3
<1>7. CASE ListRows
  <2>1. PICK j \in DOMAIN gets : gets' = [gets EXCEPT ![j] = [read |-> TRUE, rows |-> rows]]
    BY <1>7 DEF ListRows
  <2>2. UNCHANGED <<rows, toBag, fromBag, itemList, uiDrag, skillBar, savedBar, menuIdx>>
    BY <1>7 DEF ListRows, serverSide, windowSide, barSide
  <2>3. [read |-> TRUE, rows |-> rows] \in [read : BOOLEAN, rows : Seq(BagRow)]
    BY <1>1
  <2>4. gets' \in Seq([read : BOOLEAN, rows : Seq(BagRow)])
    BY <1>1, <2>1, <2>3
  <2> QED BY <1>1, <1>2, <2>2, <2>4
<1>8. CASE ChangeRows
  <2>1. /\ UNCHANGED <<toBag, fromBag, gets, itemList, uiDrag, skillBar, savedBar, menuIdx>>
        /\ \/ \E kind \in Kinds : rows' = Append(rows, [id |-> lastId + 1, kind |-> kind, qty |-> 1,
                                                        equipped |-> FALSE])
           \/ \E j \in DOMAIN rows : \/ rows' = Less(rows, j) \/ rows' = RemoveAt(rows, j)
                                      \/ rows' = [rows EXCEPT ![j].qty = @ + 1]
    BY <1>8 DEF ChangeRows, windowSide, barSide
  <2>2. ASSUME NEW kind \in Kinds,
               rows' = Append(rows, [id |-> lastId + 1, kind |-> kind, qty |-> 1, equipped |-> FALSE])
        PROVE  rows' \in Seq(BagRow)
    <3> DEFINE r == [id |-> lastId + 1, kind |-> kind, qty |-> 1, equipped |-> FALSE]
    <3>1. r \in BagRow
      BY <1>1 DEF BagRow
    <3> HIDE DEF r
    <3>2. rows' = Append(rows, r)
      BY <2>2 DEF r
    <3> QED BY <1>1, <3>1, <3>2
  <2>3. ASSUME NEW j \in DOMAIN rows,
               \/ rows' = Less(rows, j) \/ rows' = RemoveAt(rows, j)
               \/ rows' = [rows EXCEPT ![j].qty = @ + 1]
        PROVE  rows' \in Seq(BagRow)
    <3>1. \A h, o \in DOMAIN rows : rows[h].id = rows[o].id => h = o
      BY DEF BagIds
    <3>2. Less(rows, j) \in Seq(BagRow) /\ RemoveAt(rows, j) \in Seq(BagRow)
      BY <1>1, <3>1, RowUsed, RowGone
    <3>3. CASE rows' = [rows EXCEPT ![j].qty = @ + 1]
      <4>1. rows[j] \in BagRow
        BY <1>1
      <4>2. rows[j].qty + 1 \in Nat \ {0}
        BY <4>1 DEF BagRow
      <4> QED BY <1>1, <3>3, <4>2, RowStacked
    <3> QED BY <2>3, <3>2, <3>3
  <2>4. rows' \in Seq(BagRow)
    BY <2>1, <2>2, <2>3
  <2> QED BY <1>1, <1>2, <2>1, <2>4
<1> QED BY <1>3, <1>4, <1>5, <1>6, <1>7, <1>8 DEF Server

LEMMA ClientTypes ==
  ASSUME BagTypes, OnInventory \/ OnInventoryUpdate \/ OnEquipResult \/ Window \/ Bar
  PROVE  BagTypes'
<1>1. /\ rows \in Seq(BagRow) /\ fromBag \in Seq(Updating) /\ toBag \in Seq(Asking)
      /\ itemList \in Seq(Rowed)
      /\ gets \in Seq([read : BOOLEAN, rows : Seq(BagRow)])
      /\ uiDrag \in {Nothing} \union Reference
      /\ skillBar \in [Slots -> {Nothing, Skill} \union Reference]
      /\ savedBar \in {Nothing} \union [Slots -> {Skill, Nothing}]
      /\ menuIdx \in {Nothing} \union [at : Nat, offer : {"use", "equip", "unequip"}]
  BY DEF BagTypes
<1>2. \A j \in DOMAIN itemList : j \in Nat /\ itemList[j] \in Rowed /\ itemList[j].id \in Nat
  <2>1. \A j \in DOMAIN itemList : j \in Nat /\ itemList[j] \in Rowed
    BY <1>1
  <2>2. \A r \in Rowed : r.id \in Nat
    BY DEF Rowed
  <2> QED BY <2>1, <2>2
<1>3. CASE OnInventory
  <2>1. /\ UNCHANGED <<rows, toBag, fromBag, uiDrag, skillBar, savedBar, menuIdx>>
        /\ \E j \in DOMAIN gets : gets' = RemoveAt(gets, j) /\ itemList' \in {itemList, gets[j].rows}
    BY <1>3 DEF OnInventory, serverSide, windowSide, barSide
  <2>2. PICK j \in DOMAIN gets : gets' = RemoveAt(gets, j) /\ itemList' \in {itemList, gets[j].rows}
    BY <2>1
  <2>3. gets[j].rows \in Seq(Rowed) /\ j \in 1..Len(gets)
    <3>1. j \in 1..Len(gets) /\ gets[j] \in [read : BOOLEAN, rows : Seq(BagRow)]
      BY <1>1, Element, Zenon
    <3>2. gets[j].rows \in Seq(BagRow)
      BY <3>1
    <3> QED BY <3>1, <3>2, BagRowed, Zenon
  <2>4. gets' \in Seq([read : BOOLEAN, rows : Seq(BagRow)])
    BY <1>1, <2>2, <2>3, RemovedRow
  <2> QED BY <1>1, <2>1, <2>2, <2>3, <2>4 DEF BagTypes
<1>4. CASE OnInventoryUpdate
  <2>1. /\ UNCHANGED <<rows, toBag, gets, uiDrag, skillBar, savedBar, menuIdx>>
        /\ fromBag # <<>> /\ fromBag' = Tail(fromBag)
        /\ \/ Head(fromBag).t = "add" /\ itemList' = Added(itemList, Head(fromBag).row)
           \/ Head(fromBag).t = "remove" /\ itemList' = Removed(itemList, Head(fromBag).id)
    BY <1>4 DEF OnInventoryUpdate, Told, serverSide, windowSide, barSide
  <2>2. Head(fromBag) \in Updating /\ fromBag' \in Seq(Updating)
    BY <1>1, <2>1
  <2>3. itemList' \in Seq(Rowed)
    <3>1. CASE Head(fromBag).t = "add"
      <4>1. Head(fromBag).row \in NewRow
        BY <2>2, <3>1, Sorts
      <4> QED BY <1>1, <2>1, <3>1, <4>1, AddedRow
    <3>2. CASE Head(fromBag).t = "remove"
      <4>1. itemList' = Removed(itemList, Head(fromBag).id)
        BY <2>1, <3>2
      <4> QED BY <1>1, <4>1, AtFinds, LessRow DEF Removed
    <3> QED BY <2>1, <3>1, <3>2
  <2> QED BY <1>1, <2>1, <2>2, <2>3 DEF BagTypes
<1>5. ASSUME gets' = Append(gets, NotRead)
      PROVE  gets' \in Seq([read : BOOLEAN, rows : Seq(BagRow)])
  <2>1. NotRead \in [read : BOOLEAN, rows : Seq(BagRow)]
    BY DEF NotRead
  <2> QED BY <1>1, <1>5, <2>1
<1>6. CASE OnEquipResult
  <2>1. /\ UNCHANGED <<rows, toBag, itemList, uiDrag, skillBar, savedBar, menuIdx>>
        /\ fromBag # <<>> /\ fromBag' = Tail(fromBag) /\ gets' = Append(gets, NotRead)
    BY <1>6 DEF OnEquipResult, Load, Told, serverSide, windowSide, barSide
  <2>2. fromBag' \in Seq(Updating)
    BY <1>1, <2>1
  <2> QED BY <1>1, <1>5, <2>1, <2>2 DEF BagTypes
<1>7. CASE OpenBag
  <2>1. /\ UNCHANGED <<rows, toBag, fromBag, itemList, uiDrag, skillBar, savedBar>>
        /\ gets' = Append(gets, NotRead) /\ menuIdx' = Nothing
    BY <1>7 DEF OpenBag, Load, serverSide, barSide
  <2> QED BY <1>1, <1>5, <2>1 DEF BagTypes
<1>8. CASE CloseBag \/ Click \/ Move \/ StartScene
  <2>1. /\ UNCHANGED <<rows, toBag, fromBag, itemList, gets, uiDrag, skillBar, savedBar>>
        /\ \/ menuIdx' \in {Nothing, menuIdx}
           \/ \E j \in DOMAIN itemList : menuIdx' = [at |-> j, offer |-> Offer(itemList[j])]
    BY <1>8 DEF CloseBag, Click, Move, StartScene, Cells, serverSide, barSide
  <2>2. \A r : Offer(r) \in {"use", "equip", "unequip"}
    BY DEF Offer
  <2>3. menuIdx' \in {Nothing} \union [at : Nat, offer : {"use", "equip", "unequip"}]
    BY <1>1, <1>2, <2>1, <2>2
  <2> QED BY <1>1, <2>1, <2>3 DEF BagTypes
<1>9. CASE Drag
  <2>1. /\ UNCHANGED <<rows, toBag, fromBag, itemList, gets, menuIdx, skillBar, savedBar>>
        /\ \E j \in DOMAIN itemList : uiDrag' = [kind |-> "item", id |-> itemList[j].id]
    BY <1>9 DEF Drag, Cells, serverSide, barSide
  <2>2. uiDrag' \in Reference
    BY <1>2, <2>1 DEF Reference
  <2> QED BY <1>1, <2>1, <2>2 DEF BagTypes
<1>10. CASE Choose
  <2>1. /\ UNCHANGED <<rows, fromBag, itemList, gets, uiDrag, skillBar, savedBar>>
        /\ menuIdx' = Nothing /\ menuIdx # Nothing
        /\ \/ /\ menuIdx.at \in DOMAIN itemList
              /\ toBag' = Append(toBag, [t |-> menuIdx.offer, id |-> itemList[menuIdx.at].id])
           \/ UNCHANGED toBag
    BY <1>10 DEF Choose, Cells, serverSide, barSide
  <2>2. menuIdx.offer \in {"use", "equip", "unequip"}
    BY <1>1, <2>1
  <2>3. toBag' \in Seq(Asking)
    <3>1. CASE menuIdx.at \in DOMAIN itemList
      <4>1. [t |-> menuIdx.offer, id |-> itemList[menuIdx.at].id] \in Asking
        BY <1>2, <2>2, <3>1 DEF Asking
      <4> DEFINE e == [t |-> menuIdx.offer, id |-> itemList[menuIdx.at].id]
      <4>2. e \in Asking /\ (toBag' = Append(toBag, e) \/ toBag' = toBag)
        BY <2>1, <4>1
      <4> HIDE DEF e
      <4>3. toBag \in Seq(Asking) /\ Append(toBag, e) \in Seq(Asking)
        BY <1>1, <4>2, SentOne, Zenon
      <4> QED BY <4>2, <4>3, Zenon
    <3> QED BY <1>1, <2>1, <3>1
  <2> QED BY <1>1, <2>1, <2>3 DEF BagTypes
<1>11. \A b : Saved(b) \in [Slots -> {Skill, Nothing}]
  BY DEF Saved
<1>12. CASE Drop \/ DropSkill
  <2>1. /\ UNCHANGED <<rows, toBag, fromBag, itemList, gets, menuIdx>> /\ uiDrag' = Nothing
        /\ \/ \E k \in Slots, b \in Reference \union {Skill} :
                skillBar' = [skillBar EXCEPT ![k] = b] /\ savedBar' = Saved(skillBar')
           \/ UNCHANGED <<skillBar, savedBar>>
    BY <1>1, <1>12 DEF Drop, DropSkill, AssignToBar, ListedSkills, serverSide
  <2>2. /\ skillBar' \in [Slots -> {Nothing, Skill} \union Reference]
        /\ savedBar' \in {Nothing} \union [Slots -> {Skill, Nothing}]
    <3>1. CASE UNCHANGED <<skillBar, savedBar>>
      BY <1>1, <3>1
    <3>2. ASSUME NEW k \in Slots, NEW b \in Reference \union {Skill},
                 skillBar' = [skillBar EXCEPT ![k] = b], savedBar' = Saved(skillBar')
          PROVE  /\ skillBar' \in [Slots -> {Nothing, Skill} \union Reference]
                 /\ savedBar' \in [Slots -> {Skill, Nothing}]
      <4>1. savedBar' \in [Slots -> {Skill, Nothing}]
        BY <1>11, <3>2, Zenon
      <4>2. b \in {Nothing, Skill} \union Reference
        BY <3>2
      <4> HIDE DEF Reference, Skill
      <4> QED BY <1>1, <3>2, <4>1, <4>2
    <3> QED BY <2>1, <3>1, <3>2
  <2> QED BY <1>1, <2>1, <2>2 DEF BagTypes
<1>13. CASE OnMapInit
  <2>1. /\ UNCHANGED <<rows, toBag, itemList, gets, menuIdx, uiDrag>>
        /\ fromBag # <<>> /\ fromBag' = Tail(fromBag)
        /\ savedBar' = Saved(skillBar')
        /\ \/ savedBar # Nothing /\ skillBar' = savedBar
           \/ \E k \in Slots : skillBar' = [[h \in Slots |-> Nothing] EXCEPT ![k] = Skill]
    BY <1>13 DEF OnMapInit, Told, serverSide, windowSide
  <2>2. skillBar' \in [Slots -> {Nothing, Skill} \union Reference]
    <3>1. CASE savedBar # Nothing /\ skillBar' = savedBar
      <4>1. savedBar \in [Slots -> {Skill, Nothing}]
        BY <1>1, <3>1
      <4> QED BY <3>1, <4>1
    <3>2. CASE \E k \in Slots : skillBar' = [[h \in Slots |-> Nothing] EXCEPT ![k] = Skill]
      BY <3>2
    <3> QED BY <2>1, <3>1, <3>2
  <2>3. fromBag' \in Seq(Updating)
    BY <1>1, <2>1
  <2> QED BY <1>1, <1>11, <2>1, <2>2, <2>3 DEF BagTypes
<1>14. CASE PressF
  <2>1. /\ UNCHANGED <<rows, fromBag, itemList, gets, menuIdx, uiDrag, skillBar, savedBar>>
        /\ \E k \in Slots : /\ skillBar[k] \notin {Skill, Nothing}
                            /\ toBag' = Append(toBag, [t |-> "use", id |-> skillBar[k].id])
    BY <1>14 DEF PressF, serverSide, windowSide, barSide
  <2>2. PICK k \in Slots : /\ skillBar[k] \notin {Skill, Nothing}
                           /\ toBag' = Append(toBag, [t |-> "use", id |-> skillBar[k].id])
    BY <2>1
  <2>3. skillBar[k] \in Reference
    BY <1>1, <2>2
  <2>4. [t |-> "use", id |-> skillBar[k].id] \in Asking
    BY <2>3 DEF Reference, Asking
  <2>5. toBag' \in Seq(Asking)
    BY <1>1, <2>2, <2>4
  <2> QED BY <1>1, <2>1, <2>5 DEF BagTypes
<1> QED BY <1>3, <1>4, <1>6, <1>7, <1>8, <1>9, <1>10, <1>12, <1>13, <1>14 DEF Window, Bar

LEMMA BagInitial == Init => BagInv
<1> SUFFICES ASSUME Init PROVE BagInv
  OBVIOUS
<1> DEFINE r == [id |-> 1, kind |-> "item", qty |-> 1, equipped |-> FALSE]
<1>1. /\ rows = <<r>> /\ lastId = 1 /\ toBag = <<>> /\ fromBag = <<>> /\ gets = <<>> /\ itemList = <<>>
      /\ menuIdx = Nothing /\ uiDrag = Nothing /\ savedBar = Nothing
      /\ skillBar = [k \in Slots |-> Nothing] /\ fresh = FALSE
  BY DEF Init
<1>2. r \in BagRow /\ r.id = 1
  BY DEF BagRow, Kinds
<1> HIDE DEF r
<1>3. BagTypes
  <2>1. rows \in Seq(BagRow) /\ itemList \in Seq(Rowed) /\ fromBag \in Seq(Updating) /\ toBag \in Seq(Asking)
    BY <1>1, <1>2
  <2>2. gets \in Seq([read : BOOLEAN, rows : Seq(BagRow)])
    BY <1>1
  <2> QED BY <1>1, <2>1, <2>2 DEF BagTypes
<1>4. Named = {}
  <2>1. \A k \in Slots : skillBar[k] = Nothing
    BY <1>1
  <2> QED BY <1>1, <2>1 DEF Named
<1>5. DOMAIN rows = {1} /\ rows[1] = r
  BY <1>1
<1>6. BagIds
  BY <1>1, <1>2, <1>4, <1>5 DEF BagIds
<1> QED BY <1>1, <1>3, <1>6 DEF BagInv

\* A step that only wears rows differently, says or hears what changes no list, or asks.
LEMMA BagQuiet ==
  ASSUME BagInv, BagTypes', UNCHANGED <<lastId, itemList, fresh>>,
         DOMAIN rows' = DOMAIN rows,
         \A j \in DOMAIN rows : /\ rows'[j].id = rows[j].id /\ rows'[j].kind = rows[j].kind
                               /\ rows'[j].qty = rows[j].qty,
         NEW d \in {0, 1},
         \A j \in DOMAIN fromBag' : fromBag'[j].t \in {"add", "remove"} =>
           j + d \in DOMAIN fromBag /\ fromBag'[j] = fromBag[j + d],
         \A k : Pending(fromBag', Adds(k)) = Pending(fromBag, Adds(k)),
         \A n : Pending(fromBag', Takes(n)) = Pending(fromBag, Takes(n)),
         Pending(fromBag', Removals) = Pending(fromBag, Removals),
         \A j \in DOMAIN gets' : \A h \in DOMAIN gets'[j].rows : gets'[j].rows[h].id \in 1..lastId,
         \A n \in Named' : n \in Named \/ n = 0 \/ Has(itemList, n)
  PROVE  BagInv'
<1>1. /\ rows \in Seq(BagRow) /\ rows' \in Seq(BagRow) /\ rows \in Seq(Rowed) /\ rows' \in Seq(Rowed)
      /\ lastId \in Nat \ {0}
  BY BagRowed DEF BagInv, BagTypes, BagIds
<1>2. \A k : Total(rows', k) = Total(rows, k)
  <2> SUFFICES ASSUME NEW k PROVE Total(rows', k) = Total(rows, k)
    OBVIOUS
  <2>1. Len(rows') = Len(rows) /\ DOMAIN rows = 1..Len(rows)
    BY <1>1
  <2>2. \A j \in 1..Len(rows) : rows'[j].kind = rows[j].kind /\ rows'[j].qty = rows[j].qty
    BY <2>1
  <2>3. /\ Units(rows, k) = {u \in (1..Len(rows)) \X Nat : rows[u[1]].kind = k /\ u[2] \in 1..rows[u[1]].qty}
        /\ Units(rows', k) = {u \in (1..Len(rows)) \X Nat : rows'[u[1]].kind = k /\ u[2] \in 1..rows'[u[1]].qty}
    BY <1>1, <2>1, UnitsAre
  <2>4. Units(rows, k) = Units(rows', k)
    BY <2>2, <2>3
  <2> QED BY <2>4, Zenon DEF Total
<1>3. \A j \in DOMAIN fromBag' : j \in Nat
  BY DEF BagTypes
<1>4. BagIds'
  <2>1. \A n \in Named' : n <= lastId
    BY <1>1 DEF BagInv, BagIds, Has
  <2>2. \A j \in DOMAIN fromBag' : fromBag'[j].t = "add" => fromBag'[j].row.id \in 1..lastId
    BY DEF BagInv, BagIds
  <2>3. /\ \A j \in DOMAIN rows' : rows'[j].id \in 1..lastId
        /\ \A j, h \in DOMAIN rows' : rows'[j].id = rows'[h].id => j = h
    BY DEF BagInv, BagIds
  <2> QED BY <1>1, <2>1, <2>2, <2>3 DEF BagInv, BagIds
<1>5. CASE fresh
  <2>1. CountsMeet /\ RemovalsHeard /\ Enough /\ AddsNew /\ KindsAgree
        /\ \A j \in DOMAIN rows : rows[j].id \in Named => Has(itemList, rows[j].id)
    BY <1>5 DEF BagInv
  <2>2. CountsMeet'
    BY <1>2, <2>1 DEF CountsMeet
  <2>3. RemovalsHeard'
    BY <2>1 DEF RemovalsHeard
  <2>4. Enough'
    BY <2>1 DEF Enough
  <2>5. AddsNew'
    <3> SUFFICES ASSUME NEW j \in DOMAIN fromBag', fromBag'[j].t = "add"
                 PROVE  /\ ~Has(itemList, fromBag'[j].row.id)
                        /\ \A h \in DOMAIN fromBag' :
                             fromBag'[h].t = "add" /\ fromBag'[h].row.id = fromBag'[j].row.id => h = j
                        /\ \A h \in DOMAIN rows' : rows'[h].id = fromBag'[j].row.id => rows'[h].qty = 1
      BY DEF AddsNew
    <3>1. j + d \in DOMAIN fromBag /\ fromBag'[j] = fromBag[j + d] /\ fromBag[j + d].t = "add"
      OBVIOUS
    <3>2. /\ ~Has(itemList, fromBag'[j].row.id)
          /\ \A h \in DOMAIN fromBag :
               fromBag[h].t = "add" /\ fromBag[h].row.id = fromBag'[j].row.id => h = j + d
          /\ \A h \in DOMAIN rows : rows[h].id = fromBag'[j].row.id => rows[h].qty = 1
      BY <2>1, <3>1 DEF AddsNew
    <3>3. ASSUME NEW h \in DOMAIN fromBag', fromBag'[h].t = "add",
                 fromBag'[h].row.id = fromBag'[j].row.id
          PROVE  h = j
      <4>1. h + d = j + d
        BY <3>2, <3>3
      <4> QED BY <1>3, <4>1
    <3> QED BY <3>2, <3>3
  <2>6. KindsAgree'
    BY <2>1 DEF KindsAgree
  <2>7. \A j \in DOMAIN rows' : rows'[j].id \in Named' => Has(itemList, rows'[j].id)
    <3>1. \A j \in DOMAIN rows : rows[j].id # 0
      BY <1>1 DEF BagInv, BagIds
    <3> QED BY <2>1, <3>1
  <2> QED BY <1>4, <2>2, <2>3, <2>4, <2>5, <2>6, <2>7 DEF BagInv
<1>6. CASE ~fresh
  BY <1>4, <1>6 DEF BagInv
<1> QED BY <1>5, <1>6

\* A message that is no update leaves the others as they are.
LEMMA OtherSaid ==
  ASSUME NEW q \in Seq(Updating), NEW e \in Others
  PROVE  /\ \A j \in DOMAIN Append(q, e) : Append(q, e)[j].t \in {"add", "remove"} =>
              j + 0 \in DOMAIN q /\ Append(q, e)[j] = q[j + 0]
         /\ \A k : Pending(Append(q, e), Adds(k)) = Pending(q, Adds(k))
         /\ \A n : Pending(Append(q, e), Takes(n)) = Pending(q, Takes(n))
         /\ Pending(Append(q, e), Removals) = Pending(q, Removals)
<1>1. e \in Updating /\ e.t \notin {"add", "remove"} /\ e \notin Removals /\ \A k : e \notin Adds(k) /\ e \notin Takes(k)
  BY Sorts
<1>2. /\ DOMAIN Append(q, e) = DOMAIN q \union {Len(q) + 1} /\ DOMAIN q = 1..Len(q) /\ Len(q) \in Nat
      /\ Append(q, e)[Len(q) + 1] = e /\ \A j \in DOMAIN q : Append(q, e)[j] = q[j]
  BY <1>1, SentOne
<1>3. \A M : Pending(q, M) \in Nat
  BY PendingFinite
<1>4. \A M : e \notin M => Pending(Append(q, e), M) = Pending(q, M)
  BY <1>1, <1>3, PendingAppend
<1>5. \A j \in DOMAIN q : j + 0 = j
  BY <1>2
<1> QED BY <1>1, <1>2, <1>4, <1>5

LEMMA OtherHeard ==
  ASSUME NEW q \in Seq(Updating), q # <<>>, Head(q) \in Others
  PROVE  /\ \A j \in DOMAIN Tail(q) : j + 1 \in DOMAIN q /\ Tail(q)[j] = q[j + 1]
         /\ \A k : Pending(Tail(q), Adds(k)) = Pending(q, Adds(k))
         /\ \A n : Pending(Tail(q), Takes(n)) = Pending(q, Takes(n))
         /\ Pending(Tail(q), Removals) = Pending(q, Removals)
<1>1. Head(q) \notin Removals /\ \A k : Head(q) \notin Adds(k) /\ Head(q) \notin Takes(k)
  BY Sorts
<1>2. \A M : Pending(q, M) \in Nat
  BY PendingFinite
<1>3. \A M : Head(q) \notin M => Pending(Tail(q), M) = Pending(q, M)
  BY <1>2, PendingTail
<1> QED BY <1>1, <1>3, HeardOne

\* A request that names nothing new.
LEMMA RequestServed ==
  ASSUME toBag \in Seq(Asking), toBag # <<>>, toBag' = Tail(toBag), UNCHANGED <<uiDrag, skillBar>>
  PROVE  Named' \subseteq Named /\ Head(toBag).id \in Named
<1>1. /\ 1 \in DOMAIN toBag /\ Head(toBag) = toBag[1]
      /\ \A j \in DOMAIN toBag' : j + 1 \in DOMAIN toBag /\ toBag'[j] = toBag[j + 1]
  BY HeardOne
<1> QED BY <1>1 DEF Named

\* The same messages under way, or one more or less that is no update.
Unheard ==
  \/ UNCHANGED fromBag
  \/ \E e \in Others : fromBag' = Append(fromBag, e)
  \/ fromBag # <<>> /\ Head(fromBag) \in Others /\ fromBag' = Tail(fromBag)

LEMMA BagAside ==
  ASSUME BagInv, BagTypes', UNCHANGED <<lastId, itemList, fresh>>,
         DOMAIN rows' = DOMAIN rows,
         \A j \in DOMAIN rows : /\ rows'[j].id = rows[j].id /\ rows'[j].kind = rows[j].kind
                               /\ rows'[j].qty = rows[j].qty,
         Unheard,
         \A j \in DOMAIN gets' : \A h \in DOMAIN gets'[j].rows : gets'[j].rows[h].id \in 1..lastId,
         \A n \in Named' : n \in Named \/ n = 0 \/ Has(itemList, n)
  PROVE  BagInv'
<1>1. fromBag \in Seq(Updating)
  BY DEF BagInv, BagTypes
<1>2. CASE UNCHANGED fromBag
  <2>1. \A j \in DOMAIN fromBag : j + 0 = j
    BY <1>1
  <2>2. \A j \in DOMAIN fromBag' : j + 0 \in DOMAIN fromBag /\ fromBag'[j] = fromBag[j + 0]
    BY <1>2, <2>1
  <2>3. /\ \A k : Pending(fromBag', Adds(k)) = Pending(fromBag, Adds(k))
        /\ \A n : Pending(fromBag', Takes(n)) = Pending(fromBag, Takes(n))
        /\ Pending(fromBag', Removals) = Pending(fromBag, Removals)
    BY <1>2
  <2> QED BY <2>2, <2>3, BagQuiet
<1>3. ASSUME NEW e \in Others, fromBag' = Append(fromBag, e) PROVE BagInv'
  <2>1. /\ \A j \in DOMAIN fromBag' : fromBag'[j].t \in {"add", "remove"} =>
             j + 0 \in DOMAIN fromBag /\ fromBag'[j] = fromBag[j + 0]
        /\ \A k : Pending(fromBag', Adds(k)) = Pending(fromBag, Adds(k))
        /\ \A n : Pending(fromBag', Takes(n)) = Pending(fromBag, Takes(n))
        /\ Pending(fromBag', Removals) = Pending(fromBag, Removals)
    BY <1>1, <1>3, OtherSaid
  <2> QED BY <2>1, BagQuiet
<1>4. CASE fromBag # <<>> /\ Head(fromBag) \in Others /\ fromBag' = Tail(fromBag)
  <2>1. /\ \A j \in DOMAIN fromBag' : j + 1 \in DOMAIN fromBag /\ fromBag'[j] = fromBag[j + 1]
        /\ \A k : Pending(fromBag', Adds(k)) = Pending(fromBag, Adds(k))
        /\ \A n : Pending(fromBag', Takes(n)) = Pending(fromBag, Takes(n))
        /\ Pending(fromBag', Removals) = Pending(fromBag, Removals)
    BY <1>1, <1>4, OtherHeard
  <2> QED BY <2>1, BagQuiet
<1> QED BY <1>2, <1>3, <1>4 DEF Unheard

\* A request for the list is on its way, or is answered with old rows.
LEMMA Loading ==
  ASSUME BagInv, gets' = Append(gets, NotRead)
  PROVE  \A j \in DOMAIN gets' : \A h \in DOMAIN gets'[j].rows : gets'[j].rows[h].id \in 1..lastId
<1>1. /\ gets \in Seq([read : BOOLEAN, rows : Seq(BagRow)])
      /\ \A j \in DOMAIN gets : \A h \in DOMAIN gets[j].rows : gets[j].rows[h].id \in 1..lastId
  BY DEF BagInv, BagTypes, BagIds
<1>2. NotRead \in [read : BOOLEAN, rows : Seq(BagRow)] /\ NotRead.rows = <<>>
  BY DEF NotRead
<1>3. /\ DOMAIN gets' = DOMAIN gets \union {Len(gets) + 1} /\ gets'[Len(gets) + 1] = NotRead
      /\ \A j \in DOMAIN gets : gets'[j] = gets[j]
  BY <1>1, <1>2, SentOne
<1> QED BY <1>1, <1>2, <1>3

LEMMA BagAsides ==
  ASSUME BagInv, BagTypes',
         \/ HandleUseItem /\ UNCHANGED <<rows, fromBag>>
         \/ HandleEquipItem \/ HandleUnequipItem \/ EnterMap \/ ListRows
         \/ OnEquipResult \/ Window \/ Bar
  PROVE  BagInv'
<1>1. /\ rows \in Seq(BagRow) /\ fromBag \in Seq(Updating) /\ toBag \in Seq(Asking)
      /\ gets \in Seq([read : BOOLEAN, rows : Seq(BagRow)])
      /\ uiDrag \in {Nothing} \union Reference
      /\ skillBar \in [Slots -> {Nothing, Skill} \union Reference]
      /\ savedBar \in {Nothing} \union [Slots -> {Skill, Nothing}]
      /\ \A j \in DOMAIN gets : \A h \in DOMAIN gets[j].rows : gets[j].rows[h].id \in 1..lastId
      /\ \A j \in DOMAIN rows : rows[j].id \in 1..lastId
  BY DEF BagInv, BagTypes, BagIds
<1>2. CASE (HandleUseItem /\ UNCHANGED <<rows, fromBag>>) \/ HandleEquipItem \/ HandleUnequipItem
  <2>1. /\ toBag # <<>> /\ toBag' = Tail(toBag)
        /\ UNCHANGED <<lastId, gets, itemList, uiDrag, skillBar, fresh>>
        /\ UNCHANGED fromBag \/ fromBag' = Append(fromBag, [t |-> "equip_result"])
        /\ \/ UNCHANGED rows
           \/ rows' = [j \in DOMAIN rows |-> [rows[j] EXCEPT !.equipped = rows[j].id = Head(toBag).id]]
           \/ rows' = [rows EXCEPT ![At(rows, Head(toBag).id)].equipped = FALSE]
    BY <1>2 DEF HandleUseItem, HandleEquipItem, HandleUnequipItem, Requested, windowSide, barSide
  <2>2. /\ DOMAIN rows' = DOMAIN rows
        /\ \A j \in DOMAIN rows : /\ rows'[j].id = rows[j].id /\ rows'[j].kind = rows[j].kind
                                 /\ rows'[j].qty = rows[j].qty
    <3>1. \A r \in BagRow : \A b : /\ [r EXCEPT !.equipped = b].id = r.id
                                   /\ [r EXCEPT !.equipped = b].kind = r.kind
                                   /\ [r EXCEPT !.equipped = b].qty = r.qty
      BY DEF BagRow
    <3>2. \A j \in DOMAIN rows : rows[j] \in BagRow
      BY <1>1
    <3>3. CASE rows' = [j \in DOMAIN rows |-> [rows[j] EXCEPT !.equipped = rows[j].id = Head(toBag).id]]
      BY <3>1, <3>2, <3>3
    <3>4. CASE rows' = [rows EXCEPT ![At(rows, Head(toBag).id)].equipped = FALSE]
      <4>1. PICK o : rows' = [rows EXCEPT ![o].equipped = FALSE]
        BY <3>4
      <4>2. DOMAIN rows' = DOMAIN rows /\ \A j \in DOMAIN rows : j # o => rows'[j] = rows[j]
        BY <4>1
      <4>3. o \in DOMAIN rows => rows'[o] = [rows[o] EXCEPT !.equipped = FALSE]
        BY <4>1
      <4>4. ASSUME NEW j \in DOMAIN rows
            PROVE  /\ rows'[j].id = rows[j].id /\ rows'[j].kind = rows[j].kind
                   /\ rows'[j].qty = rows[j].qty
        <5>1. rows[j] \in BagRow
          BY <3>2
        <5>2. CASE j = o
          <6>1. rows'[j] = [rows[j] EXCEPT !.equipped = FALSE]
            BY <4>3, <5>2
          <6> QED BY <3>1, <5>1, <6>1
        <5>3. CASE j # o
          BY <4>2, <5>3
        <5> QED BY <5>2, <5>3
      <4> QED BY <4>2, <4>4
    <3> QED BY <2>1, <3>3, <3>4
  <2>3. [t |-> "equip_result"] \in Others
    BY DEF Others
  <2>4. Unheard
    BY <2>1, <2>3, Zenon DEF Unheard
  <2>5. Named' \subseteq Named
    BY <1>1, <2>1, RequestServed
  <2> QED BY <1>1, <2>1, <2>2, <2>4, <2>5, BagAside
<1>3. CASE EnterMap
  <2>1. /\ UNCHANGED <<rows, lastId, gets, itemList, toBag, uiDrag, skillBar, fresh>>
        /\ fromBag' = Append(fromBag, [t |-> "map_init"])
    BY <1>3 DEF EnterMap, serverSide, windowSide
  <2>2. [t |-> "map_init"] \in Others
    BY DEF Others
  <2>3. Unheard
    BY <2>1, <2>2, Zenon DEF Unheard
  <2>4. Named' = Named
    BY <2>1 DEF Named
  <2> QED BY <1>1, <2>1, <2>3, <2>4, BagAside
<1>4. CASE ListRows
  <2>1. UNCHANGED <<rows, lastId, fromBag, itemList, toBag, uiDrag, skillBar, fresh>>
    BY <1>4 DEF ListRows, serverSide, windowSide, barSide
  <2>2. PICK j \in DOMAIN gets : gets' = [gets EXCEPT ![j] = [read |-> TRUE, rows |-> rows]]
    BY <1>4 DEF ListRows
  <2>3. \A h \in DOMAIN gets' : h \in DOMAIN gets /\ gets'[h].rows \in {gets[h].rows, rows}
    BY <2>2
  <2>4. \A k \in DOMAIN gets' : \A h \in DOMAIN gets'[k].rows : gets'[k].rows[h].id \in 1..lastId
    BY <1>1, <2>3
  <2>5. Named' = Named /\ Unheard
    BY <2>1 DEF Named, Unheard
  <2> QED BY <2>1, <2>4, <2>5, BagAside
<1>5. CASE OnEquipResult \/ OpenBag
  <2>1. /\ UNCHANGED <<rows, lastId, itemList, toBag, uiDrag, skillBar, fresh>>
        /\ gets' = Append(gets, NotRead)
        /\ \/ UNCHANGED fromBag
           \/ fromBag # <<>> /\ Head(fromBag).t = "equip_result" /\ fromBag' = Tail(fromBag)
    BY <1>5 DEF OnEquipResult, OpenBag, Load, Told, serverSide, windowSide, barSide
  <2>2. Unheard
    <3>1. fromBag # <<>> => Head(fromBag) \in Updating
      BY <1>1, HeardOne
    <3>2. \A e \in Updating : e.t = "equip_result" => e \in Others
      BY DEF Updating, Others, Removals
    <3> QED BY <2>1, <3>1, <3>2 DEF Unheard
  <2>3. Named' = Named
    BY <2>1 DEF Named
  <2>4. \A k \in DOMAIN gets' : \A h \in DOMAIN gets'[k].rows : gets'[k].rows[h].id \in 1..lastId
    BY <2>1, Loading
  <2> QED BY <2>1, <2>2, <2>3, <2>4, BagAside
<1>6. CASE CloseBag \/ Click \/ Move \/ StartScene
  <2>1. UNCHANGED <<rows, lastId, itemList, toBag, fromBag, gets, uiDrag, skillBar, fresh>>
    BY <1>6 DEF CloseBag, Click, Move, StartScene, serverSide, barSide
  <2>2. Named' = Named /\ Unheard
    BY <2>1 DEF Named, Unheard
  <2> QED BY <1>1, <2>1, <2>2, BagAside
<1>7. CASE Drag
  <2>1. /\ UNCHANGED <<rows, lastId, itemList, toBag, fromBag, gets, skillBar, fresh>>
        /\ dragIdx \in DOMAIN itemList /\ uiDrag' = [kind |-> "item", id |-> itemList[dragIdx].id]
    BY <1>7 DEF Drag, Cells, serverSide, barSide
  <2>2. \A n \in Named' : n \in Named \/ Has(itemList, n)
    BY <2>1 DEF Named, Has
  <2>3. Unheard
    BY <2>1 DEF Unheard
  <2> QED BY <1>1, <2>1, <2>2, <2>3, BagAside
<1>8. CASE Choose
  <2>1. /\ UNCHANGED <<rows, lastId, itemList, fromBag, gets, uiDrag, skillBar, fresh>>
        /\ \/ /\ menuIdx.at \in DOMAIN itemList
              /\ toBag' = Append(toBag, [t |-> menuIdx.offer, id |-> itemList[menuIdx.at].id])
           \/ UNCHANGED toBag
    BY <1>8 DEF Choose, Cells, serverSide, barSide
  <2>2. \A n \in Named' : n \in Named \/ Has(itemList, n)
    <3>1. CASE UNCHANGED toBag
      BY <2>1, <3>1 DEF Named
    <3>2. CASE /\ menuIdx.at \in DOMAIN itemList
               /\ toBag' = Append(toBag, [t |-> menuIdx.offer, id |-> itemList[menuIdx.at].id])
      <4> DEFINE e == [t |-> menuIdx.offer, id |-> itemList[menuIdx.at].id]
      <4>1. e \in [t : {menuIdx.offer}, id : {itemList[menuIdx.at].id}]
        OBVIOUS
      <4>2. e.id = itemList[menuIdx.at].id
        OBVIOUS
      <4> HIDE DEF e
      <4>3. \A j \in DOMAIN toBag' : (j \in DOMAIN toBag /\ toBag'[j] = toBag[j]) \/ toBag'[j] = e
        <5>1. toBag \in Seq(Asking \union {e}) /\ toBag' = Append(toBag, e)
          BY <1>1, <3>2 DEF e
        <5>2. /\ DOMAIN toBag' = DOMAIN toBag \union {Len(toBag) + 1}
              /\ toBag'[Len(toBag) + 1] = e /\ \A j \in DOMAIN toBag : toBag'[j] = toBag[j]
          BY <5>1, SentOne
        <5> QED BY <5>2
      <4> QED BY <2>1, <3>2, <4>2, <4>3 DEF Named, Has
    <3> QED BY <2>1, <3>1, <3>2
  <2>3. Unheard
    BY <2>1 DEF Unheard
  <2> QED BY <1>1, <2>1, <2>2, <2>3, BagAside
<1> DEFINE inBar == {skillBar[k].id : k \in {h \in Slots : skillBar[h] # Nothing}}
<1>9. CASE Drop \/ DropSkill
  <2>1. /\ UNCHANGED <<rows, lastId, itemList, toBag, fromBag, gets, fresh>> /\ uiDrag' = Nothing
        /\ \/ \E k \in Slots : \E b : /\ (b = uiDrag /\ uiDrag # Nothing) \/ b = Skill
                                      /\ skillBar' = [skillBar EXCEPT ![k] = b]
           \/ UNCHANGED skillBar
    BY <1>9 DEF Drop, DropSkill, AssignToBar, ListedSkills, serverSide
  <2>2. Skill.id = 0
    BY DEF Skill
  <2>3. \A k \in Slots : \/ skillBar'[k] = skillBar[k]
                         \/ skillBar'[k] = uiDrag /\ uiDrag # Nothing
                         \/ skillBar'[k] = Skill
    BY <1>1, <2>1
  <2>4. \A n \in Named' : n \in Named \/ n = 0
    BY <2>1, <2>2, <2>3 DEF Named
  <2>5. Unheard
    BY <2>1 DEF Unheard
  <2> QED BY <1>1, <2>1, <2>4, <2>5, BagAside
<1>10. CASE OnMapInit
  <2>1. /\ UNCHANGED <<rows, lastId, itemList, toBag, gets, uiDrag, fresh>>
        /\ fromBag # <<>> /\ Head(fromBag).t = "map_init" /\ fromBag' = Tail(fromBag)
        /\ \/ savedBar # Nothing /\ skillBar' = savedBar
           \/ \E k \in Slots : skillBar' = [[h \in Slots |-> Nothing] EXCEPT ![k] = Skill]
    BY <1>10 DEF OnMapInit, Told, serverSide, windowSide
  <2>2. \A k \in Slots : skillBar'[k] \in {Nothing, Skill}
    <3>1. CASE savedBar # Nothing /\ skillBar' = savedBar
      BY <1>1, <3>1
    <3>2. CASE \E k \in Slots : skillBar' = [[h \in Slots |-> Nothing] EXCEPT ![k] = Skill]
      BY <3>2
    <3> QED BY <2>1, <3>1, <3>2
  <2>3. \A n \in Named' : n \in Named \/ n = 0
    BY <2>1, <2>2 DEF Named, Skill
  <2>4. Unheard
    <3>1. Head(fromBag) \in Updating
      BY <1>1, <2>1, HeardOne
    <3>2. \A e \in Updating : e.t = "map_init" => e \in Others
      BY DEF Updating, Others, Removals
    <3> QED BY <2>1, <3>1, <3>2 DEF Unheard
  <2> QED BY <1>1, <2>1, <2>3, <2>4, BagAside
<1>11. CASE PressF
  <2>1. /\ UNCHANGED <<rows, lastId, itemList, fromBag, gets, uiDrag, skillBar, fresh>>
        /\ \E k \in Slots : /\ skillBar[k] \notin {Skill, Nothing}
                            /\ toBag' = Append(toBag, [t |-> "use", id |-> skillBar[k].id])
    BY <1>11 DEF PressF, serverSide, windowSide, barSide
  <2>2. PICK k \in Slots : /\ skillBar[k] # Nothing
                           /\ toBag' = Append(toBag, [t |-> "use", id |-> skillBar[k].id])
    BY <2>1
  <2> DEFINE e == [t |-> "use", id |-> skillBar[k].id]
  <2>3. e.id = skillBar[k].id
    OBVIOUS
  <2> HIDE DEF e
  <2>4. \A j \in DOMAIN toBag' : (j \in DOMAIN toBag /\ toBag'[j] = toBag[j]) \/ toBag'[j] = e
    <3>1. toBag \in Seq(Asking \union {e}) /\ toBag' = Append(toBag, e)
      BY <1>1, <2>2 DEF e
    <3>2. /\ DOMAIN toBag' = DOMAIN toBag \union {Len(toBag) + 1}
          /\ toBag'[Len(toBag) + 1] = e /\ \A j \in DOMAIN toBag : toBag'[j] = toBag[j]
      BY <3>1, SentOne
    <3> QED BY <3>2
  <2>5. Named' \subseteq Named
    BY <2>1, <2>2, <2>3, <2>4 DEF Named
  <2>6. Unheard
    BY <2>1 DEF Unheard
  <2> QED BY <1>1, <2>1, <2>5, <2>6, BagAside
<1> QED BY <1>2, <1>3, <1>4, <1>5, <1>6, <1>7, <1>8, <1>9, <1>10, <1>11 DEF Window, Bar

LEMMA NamedNat == BagTypes => \A a \in Named : a \in Nat
<1> SUFFICES ASSUME BagTypes PROVE \A a \in Named : a \in Nat
  OBVIOUS
<1>1. /\ toBag \in Seq(Asking) /\ uiDrag \in {Nothing} \union Reference
      /\ skillBar \in [Slots -> {Nothing, Skill} \union Reference]
  BY DEF BagTypes
<1>2. \A j \in DOMAIN toBag : toBag[j].id \in Nat
  <2>1. \A j \in DOMAIN toBag : toBag[j] \in Asking
    BY <1>1
  <2> QED BY <2>1 DEF Asking
<1>3. \A d \in Reference \union {Skill} : d.id \in Nat
  BY DEF Reference, Skill
<1> QED BY <1>1, <1>2, <1>3 DEF Named

\* A row made: its id is new to everyone.
LEMMA BagPickup ==
  ASSUME BagInv, BagTypes', NEW kind \in Kinds, HandlePickup(kind)
  PROVE  BagInv'
<1> DEFINE r == [id |-> lastId + 1, kind |-> kind, qty |-> 1, equipped |-> FALSE]
           e == [t |-> "add", row |-> r]
           n == lastId + 1
<1>1. /\ lastId' = n /\ rows' = Append(rows, r) /\ fromBag' = Append(fromBag, e)
      /\ UNCHANGED <<toBag, gets, itemList, uiDrag, skillBar, fresh>>
  BY DEF HandlePickup, windowSide, barSide
<1>2. /\ rows \in Seq(BagRow) /\ itemList \in Seq(Rowed) /\ fromBag \in Seq(Updating)
      /\ rows \in Seq(Rowed)
  BY BagRowed DEF BagInv, BagTypes
<1>3. r \in BagRow /\ r \in NewRow /\ r.id = n /\ r.kind = kind /\ r.qty = 1
  <2>1. n \in Nat
    BY DEF BagInv, BagIds
  <2> QED BY <2>1 DEF BagRow, NewRow
<1>4. e.t = "add" /\ e.row = r /\ e \in Updating /\ r \in Rowed /\ r.qty = 1
  <2>1. e \in Updating
    BY <1>3 DEF Updating
  <2> QED BY <1>3, <2>1, BagRowed
<1>5. /\ lastId \in Nat /\ n \in Nat /\ n \notin 1..lastId /\ n \in 1..n /\ \A a \in 1..lastId : a \in 1..n
      /\ n # 0
  BY DEF BagInv, BagIds
<1> HIDE DEF r, e, n
<1>6. /\ DOMAIN rows' = DOMAIN rows \union {Len(rows) + 1} /\ Len(rows) + 1 \notin DOMAIN rows
      /\ rows'[Len(rows) + 1] = r /\ \A j \in DOMAIN rows : rows'[j] = rows[j]
  BY <1>1, <1>2, <1>3, SentOne
<1>7. /\ DOMAIN fromBag' = DOMAIN fromBag \union {Len(fromBag) + 1} /\ Len(fromBag) + 1 \notin DOMAIN fromBag
      /\ fromBag'[Len(fromBag) + 1] = e /\ \A j \in DOMAIN fromBag : fromBag'[j] = fromBag[j]
  BY <1>1, <1>2, <1>4, SentOne
<1>8. /\ \A j \in DOMAIN rows : rows[j].id \in 1..lastId
      /\ \A j, h \in DOMAIN rows : rows[j].id = rows[h].id => j = h
      /\ \A j \in DOMAIN itemList : itemList[j].id \in 1..lastId
      /\ \A j \in DOMAIN gets : \A h \in DOMAIN gets[j].rows : gets[j].rows[h].id \in 1..lastId
      /\ \A j \in DOMAIN fromBag : fromBag[j].t = "add" => fromBag[j].row.id \in 1..lastId
      /\ \A a \in Named : a <= lastId
  BY DEF BagInv, BagIds
<1>9. Named' = Named
  BY <1>1 DEF Named
<1>10. n \notin Named /\ \A a \in Named : a <= n
  <2>1. \A a \in Named : a \in Nat
    BY NamedNat DEF BagInv
  <2> QED BY <1>5, <1>8, <2>1 DEF n
<1>11. BagIds'
  <2>1. /\ \A j \in DOMAIN rows' : rows'[j].id \in 1..n
        /\ \A j, h \in DOMAIN rows' : rows'[j].id = rows'[h].id => j = h
    BY <1>3, <1>5, <1>6, <1>8
  <2>2. \A j \in DOMAIN fromBag' : fromBag'[j].t = "add" => fromBag'[j].row.id \in 1..n
    BY <1>3, <1>4, <1>5, <1>7, <1>8
  <2> QED BY <1>1, <1>5, <1>8, <1>9, <1>10, <2>1, <2>2 DEF BagIds
<1>12. CASE fresh
  <2>1. CountsMeet /\ RemovalsHeard /\ Enough /\ AddsNew /\ KindsAgree
        /\ \A j \in DOMAIN rows : rows[j].id \in Named => Has(itemList, rows[j].id)
    BY <1>12 DEF BagInv
  <2>2. CountsMeet'
    <3> SUFFICES ASSUME NEW k \in Kinds
                 PROVE  Total(itemList, k) + Pending(fromBag', Adds(k))
                          = Total(rows', k) + IF k = "item" THEN Pending(fromBag', Removals) ELSE 0
      BY <1>1 DEF CountsMeet
    <3>1. Total(rows', k) = Total(rows, k) + IF kind = k THEN 1 ELSE 0
      BY <1>1, <1>2, <1>3, <1>4, TotalAppend
    <3>2. Pending(fromBag', Adds(k)) = Pending(fromBag, Adds(k)) + IF kind = k THEN 1 ELSE 0
      <4>1. e \in Adds(k) <=> kind = k
        BY <1>3, <1>4, Sorts
      <4> QED BY <1>1, <1>2, <1>4, <4>1, PendingAppend
    <3>3. Pending(fromBag', Removals) = Pending(fromBag, Removals) + 0
      <4>1. e \notin Removals
        BY <1>4, Sorts
      <4> QED BY <1>1, <1>2, <1>4, <4>1, PendingAppend
    <3>4. /\ Total(itemList, k) \in Nat /\ Total(rows, k) \in Nat
          /\ Pending(fromBag, Adds(k)) \in Nat /\ Pending(fromBag, Removals) \in Nat
      BY <1>2, UnitsFinite, PendingFinite
    <3>5. Total(itemList, k) + Pending(fromBag, Adds(k))
            = Total(rows, k) + IF k = "item" THEN Pending(fromBag, Removals) ELSE 0
      BY <2>1 DEF CountsMeet
    <3> QED BY <3>1, <3>2, <3>3, <3>4, <3>5
  <2>3. RemovalsHeard'
    BY <1>1, <1>4, <1>7, <2>1 DEF RemovalsHeard
  <2>6. Enough'
    <3>1. \A a : Pending(fromBag', Takes(a)) = Pending(fromBag, Takes(a)) + 0
      <4>1. \A a : e \notin Takes(a)
        BY <1>4, Sorts
      <4> QED BY <1>1, <1>2, <1>4, <4>1, PendingAppend
    <3>2. \A a : Pending(fromBag', Takes(a)) = Pending(fromBag, Takes(a))
      <4>1. \A a : Pending(fromBag, Takes(a)) \in Nat
        BY <1>2, PendingFinite
      <4> QED BY <3>1, <4>1
    <3> SUFFICES ASSUME NEW h \in DOMAIN itemList
                 PROVE  /\ Pending(fromBag, Takes(itemList[h].id)) <= itemList[h].qty
                        /\ \A j \in DOMAIN rows' : rows'[j].id = itemList[h].id =>
                             Pending(fromBag, Takes(itemList[h].id)) + rows'[j].qty <= itemList[h].qty
      BY <1>1, <3>2 DEF Enough
    <3>3. itemList[h].id # n
      BY <1>5, <1>8
    <3>4. ASSUME NEW j \in DOMAIN rows', rows'[j].id = itemList[h].id
          PROVE  j \in DOMAIN rows /\ rows'[j] = rows[j]
      BY <1>3, <1>6, <3>3, <3>4
    <3> QED BY <2>1, <3>4 DEF Enough
  <2>7. AddsNew'
    <3> SUFFICES ASSUME NEW j \in DOMAIN fromBag', fromBag'[j].t = "add"
                 PROVE  /\ ~Has(itemList, fromBag'[j].row.id)
                        /\ \A h \in DOMAIN fromBag' :
                             fromBag'[h].t = "add" /\ fromBag'[h].row.id = fromBag'[j].row.id => h = j
                        /\ \A h \in DOMAIN rows' : rows'[h].id = fromBag'[j].row.id => rows'[h].qty = 1
      BY <1>1 DEF AddsNew
    <3>1. \A h \in DOMAIN fromBag : fromBag[h].t = "add" => fromBag[h].row.id # n
      BY <1>5, <1>8
    <3>2. CASE j \in DOMAIN fromBag
      <4>1. fromBag'[j] = fromBag[j] /\ fromBag[j].t = "add" /\ fromBag[j].row.id # n
        BY <1>7, <3>1, <3>2
      <4>2. /\ ~Has(itemList, fromBag[j].row.id)
            /\ \A h \in DOMAIN fromBag :
                 fromBag[h].t = "add" /\ fromBag[h].row.id = fromBag[j].row.id => h = j
            /\ \A h \in DOMAIN rows : rows[h].id = fromBag[j].row.id => rows[h].qty = 1
        BY <2>1, <3>2, <4>1 DEF AddsNew
      <4> QED BY <1>3, <1>4, <1>6, <1>7, <4>1, <4>2
    <3>3. CASE j = Len(fromBag) + 1
      <4>1. fromBag'[j].row.id = n
        BY <1>3, <1>4, <1>7, <3>3
      <4>2. ~Has(itemList, n)
        BY <1>5, <1>8 DEF Has
      <4>3. \A h \in DOMAIN rows : rows[h].id # n
        BY <1>5, <1>8
      <4> QED BY <1>3, <1>6, <1>7, <3>1, <3>3, <4>1, <4>2, <4>3
    <3> QED BY <1>7, <3>2, <3>3
  <2>4. KindsAgree'
    <3> SUFFICES ASSUME NEW j \in DOMAIN rows'
                 PROVE  /\ \A h \in DOMAIN itemList : itemList[h].id = rows'[j].id => itemList[h].kind = rows'[j].kind
                        /\ \A h \in DOMAIN fromBag' :
                             fromBag'[h].t = "add" /\ fromBag'[h].row.id = rows'[j].id
                               => fromBag'[h].row.kind = rows'[j].kind
      BY <1>1 DEF KindsAgree
    <3>1. CASE j \in DOMAIN rows
      <4>1. rows'[j] = rows[j] /\ rows[j].id # n
        BY <1>5, <1>6, <1>8, <3>1
      <4> QED BY <1>3, <1>4, <1>7, <2>1, <3>1, <4>1 DEF KindsAgree
    <3>2. CASE j = Len(rows) + 1
      <4>1. rows'[j].id = n /\ rows'[j].kind = kind
        BY <1>3, <1>6, <3>2
      <4>2. \A h \in DOMAIN itemList : itemList[h].id # n
        BY <1>5, <1>8
      <4>3. \A h \in DOMAIN fromBag : fromBag[h].t = "add" => fromBag[h].row.id # n
        BY <1>5, <1>8
      <4> QED BY <1>3, <1>4, <1>7, <4>1, <4>2, <4>3
    <3> QED BY <1>6, <3>1, <3>2
  <2>5. \A j \in DOMAIN rows' : rows'[j].id \in Named' => Has(itemList, rows'[j].id)
    BY <1>3, <1>6, <1>9, <1>10, <2>1
  <2> QED BY <1>1, <1>11, <2>2, <2>3, <2>4, <2>5, <2>6, <2>7 DEF BagInv
<1>13. CASE ~fresh
  BY <1>1, <1>11, <1>13 DEF BagInv
<1> QED BY <1>12, <1>13

\* A row used up: the client hears of it, and has it until then.
LEMMA BagUse ==
  ASSUME BagInv, BagTypes', HandleUseItem, ~UNCHANGED <<rows, fromBag>>
  PROVE  BagInv'
<1> DEFINE n == Head(toBag).id
           o == At(rows, n)
           e == [t |-> "remove", id |-> n]
<1>1. /\ toBag # <<>> /\ toBag' = Tail(toBag)
      /\ Has(rows, n) /\ rows[o].kind = "item" /\ rows' = Less(rows, o) /\ fromBag' = Append(fromBag, e)
      /\ UNCHANGED <<lastId, gets, itemList, uiDrag, skillBar, fresh>>
  BY DEF HandleUseItem, Requested, windowSide, barSide
<1>2. /\ rows \in Seq(BagRow) /\ itemList \in Seq(Rowed) /\ fromBag \in Seq(Updating)
      /\ rows \in Seq(Rowed) /\ toBag \in Seq(Asking)
  BY BagRowed DEF BagInv, BagTypes
<1>3. Named' \subseteq Named /\ n \in Named
  BY <1>1, <1>2, RequestServed
<1>4. o \in DOMAIN rows /\ rows[o].id = n
  BY <1>1, AtFinds
<1>5. e.t = "remove" /\ e.id = n /\ e \in Removals /\ e \in Updating
  <2>1. n \in Nat
    <3>1. rows[o] \in BagRow
      BY <1>2, <1>4
    <3> QED BY <1>4, <3>1 DEF BagRow
  <2> HIDE DEF n
  <2> QED BY <2>1 DEF Removals, Updating
<1> HIDE DEF n, o, e
<1>6. /\ \A j, h \in DOMAIN rows' : rows'[j].id = rows'[h].id => j = h
      /\ \A h \in DOMAIN rows' : \E a \in DOMAIN rows :
           /\ rows[a].id = rows'[h].id /\ rows[a].kind = rows'[h].kind
           /\ rows'[h].qty = rows[a].qty - IF a = o THEN 1 ELSE 0
  <2>1. \A j, h \in DOMAIN rows : rows[j].id = rows[h].id => j = h
    BY DEF BagInv, BagIds
  <2> DEFINE z == Less(rows, o)
  <2>2. \A j, h \in DOMAIN z : z[j].id = z[h].id => j = h
    BY <1>2, <1>4, <2>1, RowUsed
  <2>3. \A h \in DOMAIN z : \E a \in DOMAIN rows :
           /\ rows[a].id = z[h].id /\ rows[a].kind = z[h].kind
           /\ z[h].qty = rows[a].qty - IF a = o THEN 1 ELSE 0
    BY <1>2, <1>4, LessRow
  <2> HIDE DEF z
  <2> QED BY <1>1, <2>2, <2>3 DEF z
<1>7. /\ DOMAIN fromBag' = DOMAIN fromBag \union {Len(fromBag) + 1} /\ Len(fromBag) + 1 \notin DOMAIN fromBag
      /\ fromBag'[Len(fromBag) + 1] = e /\ \A j \in DOMAIN fromBag : fromBag'[j] = fromBag[j]
  BY <1>1, <1>2, <1>5, SentOne
<1>8. BagIds'
  BY <1>1, <1>3, <1>5, <1>6, <1>7 DEF BagInv, BagIds
<1>9. CASE fresh
  <2>1. CountsMeet /\ RemovalsHeard /\ Enough /\ AddsNew /\ KindsAgree
        /\ \A j \in DOMAIN rows : rows[j].id \in Named => Has(itemList, rows[j].id)
    BY <1>9 DEF BagInv
  <2>2. CountsMeet'
    <3> SUFFICES ASSUME NEW k \in Kinds
                 PROVE  Total(itemList, k) + Pending(fromBag', Adds(k))
                          = Total(rows', k) + IF k = "item" THEN Pending(fromBag', Removals) ELSE 0
      BY <1>1 DEF CountsMeet
    <3>1. Total(rows', k) = Total(rows, k) - IF k = "item" THEN 1 ELSE 0
      <4>1. Total(rows', k) = Total(rows, k) - IF rows[o].kind = k THEN 1 ELSE 0
        BY <1>1, <1>2, <1>4, LessRow
      <4> QED BY <1>1, <4>1
    <3>2. Pending(fromBag', Adds(k)) = Pending(fromBag, Adds(k)) + 0
      <4>1. e \notin Adds(k)
        BY <1>5, Sorts
      <4> QED BY <1>1, <1>2, <1>5, <4>1, PendingAppend
    <3>3. Pending(fromBag', Removals) = Pending(fromBag, Removals) + 1
      BY <1>1, <1>2, <1>5, PendingAppend
    <3>4. /\ Total(itemList, k) \in Nat /\ Total(rows, k) \in Nat
          /\ Pending(fromBag, Adds(k)) \in Nat /\ Pending(fromBag, Removals) \in Nat
      BY <1>2, UnitsFinite, PendingFinite
    <3>5. Total(itemList, k) + Pending(fromBag, Adds(k))
            = Total(rows, k) + IF k = "item" THEN Pending(fromBag, Removals) ELSE 0
      BY <2>1 DEF CountsMeet
    <3> QED BY <3>1, <3>2, <3>3, <3>4, <3>5
  <2>3. RemovalsHeard'
    <3>1. Has(itemList, n)
      BY <1>3, <1>4, <2>1
    <3>2. \A h \in DOMAIN itemList : itemList[h].id = n => itemList[h].kind = "item"
      BY <1>1, <1>4, <2>1 DEF KindsAgree
    <3> QED BY <1>1, <1>5, <1>7, <2>1, <3>1, <3>2 DEF RemovalsHeard
  <2>6. Enough'
    <3>1. \A a : Pending(fromBag', Takes(a)) = Pending(fromBag, Takes(a)) + IF a = n THEN 1 ELSE 0
      <4>1. \A a : e \in Takes(a) <=> a = n
        BY <1>5, Sorts
      <4> QED BY <1>1, <1>2, <1>5, <4>1, PendingAppend
    <3> SUFFICES ASSUME NEW h \in DOMAIN itemList
                 PROVE  /\ Pending(fromBag', Takes(itemList[h].id)) <= itemList[h].qty
                        /\ \A j \in DOMAIN rows' : rows'[j].id = itemList[h].id =>
                             Pending(fromBag', Takes(itemList[h].id)) + rows'[j].qty <= itemList[h].qty
      BY <1>1 DEF Enough
    <3> DEFINE a == itemList[h].id
               held == Pending(fromBag, Takes(a))
    <3>2. held \in Nat /\ itemList[h].qty \in Nat
      BY <1>2, RowsTyped, PendingFinite
    <3>3. \A j \in DOMAIN rows : rows[j].qty \in Nat \ {0} /\ rows[j].qty \in Nat
      BY <1>2, RowsTyped
    <3>4. held <= itemList[h].qty /\ \A j \in DOMAIN rows : rows[j].id = a => held + rows[j].qty <= itemList[h].qty
      BY <2>1 DEF Enough
    <3>5. Pending(fromBag', Takes(a)) = held + IF a = n THEN 1 ELSE 0
      BY <3>1
    <3> HIDE DEF held, a
    <3>6. Pending(fromBag', Takes(a)) <= itemList[h].qty
      BY <1>4, <3>2, <3>3, <3>4, <3>5
    <3>7. ASSUME NEW j \in DOMAIN rows', rows'[j].id = a
          PROVE  Pending(fromBag', Takes(a)) + rows'[j].qty <= itemList[h].qty
      <4>1. PICK w \in DOMAIN rows : /\ rows[w].id = rows'[j].id
                                     /\ rows'[j].qty = rows[w].qty - IF w = o THEN 1 ELSE 0
        BY <1>6
      <4>2. w = o <=> a = n
        BY <1>4, <3>7, <4>1 DEF BagInv, BagIds
      <4>3. held + rows[w].qty <= itemList[h].qty /\ rows[w].qty \in Nat
        BY <3>3, <3>4, <3>7, <4>1
      <4> QED BY <3>2, <3>5, <4>1, <4>2, <4>3
    <3> QED BY <3>6, <3>7 DEF a
  <2>7. AddsNew'
    <3> SUFFICES ASSUME NEW j \in DOMAIN fromBag', fromBag'[j].t = "add"
                 PROVE  /\ ~Has(itemList, fromBag'[j].row.id)
                        /\ \A h \in DOMAIN fromBag' :
                             fromBag'[h].t = "add" /\ fromBag'[h].row.id = fromBag'[j].row.id => h = j
                        /\ \A h \in DOMAIN rows' : rows'[h].id = fromBag'[j].row.id => rows'[h].qty = 1
      BY <1>1 DEF AddsNew
    <3>1. j \in DOMAIN fromBag /\ fromBag'[j] = fromBag[j] /\ fromBag[j].t = "add"
      BY <1>5, <1>7
    <3> DEFINE a == fromBag[j].row.id
    <3>2. /\ ~Has(itemList, a)
          /\ \A h \in DOMAIN fromBag : fromBag[h].t = "add" /\ fromBag[h].row.id = a => h = j
          /\ \A h \in DOMAIN rows : rows[h].id = a => rows[h].qty = 1
      BY <2>1, <3>1 DEF AddsNew
    <3>3. a # n
      BY <1>3, <1>4, <2>1, <3>2
    <3> HIDE DEF a
    <3>4. ASSUME NEW h \in DOMAIN rows', rows'[h].id = a PROVE rows'[h].qty = 1
      <4>1. PICK w \in DOMAIN rows : /\ rows[w].id = rows'[h].id
                                     /\ rows'[h].qty = rows[w].qty - IF w = o THEN 1 ELSE 0
        BY <1>6
      <4>2. w # o /\ rows[w].qty = 1
        BY <1>4, <3>2, <3>3, <3>4, <4>1
      <4> QED BY <4>1, <4>2
    <3>5. \A h \in DOMAIN fromBag' : fromBag'[h].t = "add" /\ fromBag'[h].row.id = a => h = j
      BY <1>5, <1>7, <3>2
    <3> QED BY <3>1, <3>2, <3>4, <3>5 DEF a
  <2>4. KindsAgree'
    <3> SUFFICES ASSUME NEW j \in DOMAIN rows'
                 PROVE  /\ \A h \in DOMAIN itemList : itemList[h].id = rows'[j].id => itemList[h].kind = rows'[j].kind
                        /\ \A h \in DOMAIN fromBag' :
                             fromBag'[h].t = "add" /\ fromBag'[h].row.id = rows'[j].id
                               => fromBag'[h].row.kind = rows'[j].kind
      BY <1>1 DEF KindsAgree
    <3>1. PICK a \in DOMAIN rows : rows[a].id = rows'[j].id /\ rows[a].kind = rows'[j].kind
      BY <1>6
    <3> QED BY <1>5, <1>7, <2>1, <3>1 DEF KindsAgree
  <2>5. \A j \in DOMAIN rows' : rows'[j].id \in Named' => Has(itemList, rows'[j].id)
    BY <1>3, <1>6, <2>1
  <2> QED BY <1>1, <1>8, <2>2, <2>3, <2>4, <2>5, <2>6, <2>7 DEF BagInv
<1>10. CASE ~fresh
  BY <1>1, <1>8, <1>10 DEF BagInv
<1> QED BY <1>9, <1>10

\* An update is heard: a row joins the list, ...
LEMMA BagAdded ==
  ASSUME BagInv, BagTypes', Told("add"), itemList' = Added(itemList, Head(fromBag).row),
         UNCHANGED <<rows, lastId, toBag, gets, uiDrag, skillBar, fresh>>
  PROVE  BagInv'
<1> DEFINE e == Head(fromBag)
           r == e.row
<1>1. /\ fromBag # <<>> /\ e.t = "add" /\ fromBag' = Tail(fromBag) /\ itemList' = Added(itemList, r)
  BY DEF Told
<1>2. /\ rows \in Seq(BagRow) /\ itemList \in Seq(Rowed) /\ fromBag \in Seq(Updating) /\ rows \in Seq(Rowed)
  BY BagRowed DEF BagInv, BagTypes
<1>3. /\ e \in Updating /\ 1 \in DOMAIN fromBag /\ fromBag[1] = e
      /\ \A j \in DOMAIN fromBag' :
           j + 1 \in DOMAIN fromBag /\ j + 1 # 1 /\ j \in Nat /\ fromBag'[j] = fromBag[j + 1]
  BY <1>1, <1>2, HeardOne
<1> HIDE DEF e
<1>4. r \in NewRow /\ e \notin Removals /\ \A k : (e \in Adds(k) <=> r.kind = k) /\ e \notin Takes(k)
  BY <1>1, <1>3, Sorts
<1> HIDE DEF r
<1>5. /\ \A k : Total(itemList', k) = Total(itemList, k) + IF r.kind = k THEN 1 ELSE 0
      /\ \A h \in DOMAIN itemList' :
           \/ itemList'[h].id = r.id /\ itemList'[h].kind = r.kind /\ itemList'[h].qty = 1
           \/ \E o \in DOMAIN itemList :
                /\ itemList[o].id = itemList'[h].id /\ itemList[o].kind = itemList'[h].kind
                /\ itemList'[h].qty \in {itemList[o].qty, itemList[o].qty + 1}
      /\ \A n : Has(itemList, n) => Has(itemList', n)
  <2> DEFINE z == Added(itemList, r)
  <2>1. /\ \A k : Total(z, k) = Total(itemList, k) + IF r.kind = k THEN 1 ELSE 0
        /\ \A h \in DOMAIN z : \/ z[h].id = r.id /\ z[h].kind = r.kind /\ z[h].qty = 1
                              \/ \E o \in DOMAIN itemList :
                                   /\ itemList[o].id = z[h].id /\ itemList[o].kind = z[h].kind
                                   /\ z[h].qty \in {itemList[o].qty, itemList[o].qty + 1}
        /\ \A n : Has(itemList, n) => Has(z, n)
    BY <1>2, <1>4, AddedRow, Zenon
  <2> QED BY <1>1, <2>1, Zenon
<1>6. Named' = Named
  BY DEF Named
<1>7. BagIds'
  <2>1. r.id \in 1..lastId
    BY <1>1, <1>3 DEF BagInv, BagIds, r
  <2>2. \A j \in DOMAIN itemList' : itemList'[j].id \in 1..lastId
    BY <1>5, <2>1 DEF BagInv, BagIds
  <2>3. \A j \in DOMAIN fromBag' : fromBag'[j].t = "add" => fromBag'[j].row.id \in 1..lastId
    BY <1>3 DEF BagInv, BagIds
  <2> QED BY <1>6, <2>2, <2>3 DEF BagInv, BagIds
<1>8. CASE fresh
  <2>1. CountsMeet /\ RemovalsHeard /\ Enough /\ AddsNew /\ KindsAgree
        /\ \A j \in DOMAIN rows : rows[j].id \in Named => Has(itemList, rows[j].id)
    BY <1>8 DEF BagInv
  <2>6. ~Has(itemList, r.id) /\ \A h \in DOMAIN rows : rows[h].id = r.id => rows[h].qty = 1
    BY <1>1, <1>3, <2>1 DEF AddsNew, r
  <2>2. CountsMeet'
    <3> SUFFICES ASSUME NEW k \in Kinds
                 PROVE  Total(itemList', k) + Pending(fromBag', Adds(k))
                          = Total(rows, k) + IF k = "item" THEN Pending(fromBag', Removals) ELSE 0
      BY DEF CountsMeet
    <3>1. Total(itemList', k) = Total(itemList, k) + IF r.kind = k THEN 1 ELSE 0
      BY <1>5
    <3>2. Pending(fromBag', Adds(k)) = Pending(fromBag, Adds(k)) - IF r.kind = k THEN 1 ELSE 0
      <4>1. Pending(fromBag', Adds(k)) = Pending(fromBag, Adds(k)) - IF e \in Adds(k) THEN 1 ELSE 0
        BY <1>1, <1>2, PendingTail DEF e
      <4> QED BY <1>4, <4>1
    <3>3. Pending(fromBag', Removals) = Pending(fromBag, Removals) - 0
      <4>1. Pending(fromBag', Removals) = Pending(fromBag, Removals) - IF e \in Removals THEN 1 ELSE 0
        BY <1>1, <1>2, PendingTail DEF e
      <4> QED BY <1>4, <4>1
    <3>4. /\ Total(itemList, k) \in Nat /\ Total(rows, k) \in Nat
          /\ Pending(fromBag, Adds(k)) \in Nat /\ Pending(fromBag, Removals) \in Nat
      BY <1>2, UnitsFinite, PendingFinite
    <3>5. Total(itemList, k) + Pending(fromBag, Adds(k))
            = Total(rows, k) + IF k = "item" THEN Pending(fromBag, Removals) ELSE 0
      BY <2>1 DEF CountsMeet
    <3> QED BY <3>1, <3>2, <3>3, <3>4, <3>5
  <2>3. RemovalsHeard'
    <3> SUFFICES ASSUME NEW j \in DOMAIN fromBag', fromBag'[j].t = "remove"
                 PROVE  /\ Has(itemList', fromBag'[j].id)
                        /\ \A h \in DOMAIN itemList' : itemList'[h].id = fromBag'[j].id => itemList'[h].kind = "item"
      BY DEF RemovalsHeard
    <3> DEFINE n == fromBag'[j].id
    <3>1. j + 1 \in DOMAIN fromBag /\ fromBag'[j] = fromBag[j + 1]
      BY <1>3
    <3>2. Has(itemList, n) /\ \A h \in DOMAIN itemList : itemList[h].id = n => itemList[h].kind = "item"
      BY <2>1, <3>1 DEF RemovalsHeard
    <3>3. r.id # n
      BY <2>6, <3>2
    <3> HIDE DEF n
    <3>4. \A h \in DOMAIN itemList' : itemList'[h].id = n => itemList'[h].kind = "item"
      BY <1>5, <3>2, <3>3
    <3>5. Has(itemList', n)
      BY <1>5, <3>2
    <3> QED BY <3>4, <3>5 DEF n
  <2>7. Enough'
    <3>1. \A a : Pending(fromBag', Takes(a)) = Pending(fromBag, Takes(a))
      <4>1. \A a : Pending(fromBag', Takes(a)) = Pending(fromBag, Takes(a)) - IF e \in Takes(a) THEN 1 ELSE 0
        BY <1>1, <1>2, PendingTail DEF e
      <4>2. \A a : Pending(fromBag, Takes(a)) \in Nat
        BY <1>2, PendingFinite
      <4> QED BY <1>4, <4>1, <4>2
    <3> SUFFICES ASSUME NEW h \in DOMAIN itemList'
                 PROVE  /\ Pending(fromBag, Takes(itemList'[h].id)) <= itemList'[h].qty
                        /\ \A j \in DOMAIN rows : rows[j].id = itemList'[h].id =>
                             Pending(fromBag, Takes(itemList'[h].id)) + rows[j].qty <= itemList'[h].qty
      BY <3>1 DEF Enough
    <3> DEFINE a == itemList'[h].id
    <3>2. CASE a = r.id /\ itemList'[h].qty = 1
      <4>1. \A j \in DOMAIN fromBag : fromBag[j] \notin Takes(r.id)
        <5> SUFFICES ASSUME NEW j \in DOMAIN fromBag, fromBag[j] \in Takes(r.id) PROVE FALSE
          OBVIOUS
        <5>1. fromBag[j].t = "remove" /\ fromBag[j].id = r.id
          BY DEF Takes
        <5> QED BY <2>1, <2>6, <5>1 DEF RemovalsHeard
      <4>2. Pending(fromBag, Takes(r.id)) = 0
        BY <1>2, <4>1, PendingSome
      <4>3. \A j \in DOMAIN rows : rows[j].id = r.id => rows[j].qty = 1
        BY <2>6
      <4> QED BY <3>2, <4>2, <4>3
    <3>3. ASSUME NEW o \in DOMAIN itemList, itemList[o].id = a,
                 itemList'[h].qty \in {itemList[o].qty, itemList[o].qty + 1}
          PROVE  /\ Pending(fromBag, Takes(a)) <= itemList'[h].qty
                 /\ \A j \in DOMAIN rows : rows[j].id = a =>
                      Pending(fromBag, Takes(a)) + rows[j].qty <= itemList'[h].qty
      <4>1. /\ Pending(fromBag, Takes(a)) <= itemList[o].qty
            /\ \A j \in DOMAIN rows : rows[j].id = a =>
                 Pending(fromBag, Takes(a)) + rows[j].qty <= itemList[o].qty
        BY <2>1, <3>3 DEF Enough
      <4>2. Pending(fromBag, Takes(a)) \in Nat /\ itemList[o].qty \in Nat
        BY <1>2, RowsTyped, PendingFinite
      <4>3. \A j \in DOMAIN rows : rows[j].qty \in Nat
        BY <1>2, RowsTyped
      <4> HIDE DEF a
      <4> QED BY <3>3, <4>1, <4>2, <4>3
    <3> QED BY <1>5, <3>2, <3>3
  <2>8. AddsNew'
    <3> SUFFICES ASSUME NEW j \in DOMAIN fromBag', fromBag'[j].t = "add"
                 PROVE  /\ ~Has(itemList', fromBag'[j].row.id)
                        /\ \A h \in DOMAIN fromBag' :
                             fromBag'[h].t = "add" /\ fromBag'[h].row.id = fromBag'[j].row.id => h = j
                        /\ \A h \in DOMAIN rows : rows[h].id = fromBag'[j].row.id => rows[h].qty = 1
      BY DEF AddsNew
    <3> DEFINE a == fromBag'[j].row.id
    <3>1. j + 1 \in DOMAIN fromBag /\ j + 1 # 1 /\ fromBag'[j] = fromBag[j + 1] /\ j \in Nat
      BY <1>3
    <3>2. /\ ~Has(itemList, a)
          /\ \A h \in DOMAIN fromBag : fromBag[h].t = "add" /\ fromBag[h].row.id = a => h = j + 1
          /\ \A h \in DOMAIN rows : rows[h].id = a => rows[h].qty = 1
      BY <2>1, <3>1 DEF AddsNew
    <3>3. a # r.id
      BY <1>1, <1>3, <3>1, <3>2 DEF r
    <3> HIDE DEF a
    <3>4. ~Has(itemList', a)
      BY <1>5, <3>2, <3>3 DEF Has
    <3>5. ASSUME NEW h \in DOMAIN fromBag', fromBag'[h].t = "add", fromBag'[h].row.id = a PROVE h = j
      <4>1. h + 1 = j + 1 /\ h \in Nat
        BY <1>3, <3>2, <3>5
      <4> QED BY <3>1, <4>1
    <3> QED BY <3>2, <3>4, <3>5 DEF a
  <2>4. KindsAgree'
    <3> SUFFICES ASSUME NEW j \in DOMAIN rows
                 PROVE  /\ \A h \in DOMAIN itemList' : itemList'[h].id = rows[j].id => itemList'[h].kind = rows[j].kind
                        /\ \A h \in DOMAIN fromBag' :
                             fromBag'[h].t = "add" /\ fromBag'[h].row.id = rows[j].id
                               => fromBag'[h].row.kind = rows[j].kind
      BY DEF KindsAgree
    <3>1. /\ \A h \in DOMAIN itemList : itemList[h].id = rows[j].id => itemList[h].kind = rows[j].kind
          /\ \A h \in DOMAIN fromBag :
               fromBag[h].t = "add" /\ fromBag[h].row.id = rows[j].id => fromBag[h].row.kind = rows[j].kind
      BY <2>1 DEF KindsAgree
    <3>2. r.id = rows[j].id => r.kind = rows[j].kind
      BY <1>1, <1>3, <3>1 DEF r
    <3> QED BY <1>3, <1>5, <3>1, <3>2
  <2>5. \A j \in DOMAIN rows : rows[j].id \in Named' => Has(itemList', rows[j].id)
    BY <1>5, <1>6, <2>1
  <2> QED BY <1>7, <2>2, <2>3, <2>4, <2>5, <2>7, <2>8 DEF BagInv
<1>9. CASE ~fresh
  BY <1>7, <1>9 DEF BagInv
<1> QED BY <1>8, <1>9

\* ... or one of a row goes.
LEMMA BagTaken ==
  ASSUME BagInv, BagTypes', Told("remove"), itemList' = Removed(itemList, Head(fromBag).id),
         UNCHANGED <<rows, lastId, toBag, gets, uiDrag, skillBar, fresh>>
  PROVE  BagInv'
<1> DEFINE e == Head(fromBag)
           n == e.id
           o == At(itemList, n)
<1>1. /\ fromBag # <<>> /\ e.t = "remove" /\ fromBag' = Tail(fromBag)
      /\ itemList' = IF Has(itemList, n) THEN Less(itemList, o) ELSE itemList
  BY DEF Told, Removed
<1>2. /\ rows \in Seq(BagRow) /\ itemList \in Seq(Rowed) /\ fromBag \in Seq(Updating) /\ rows \in Seq(Rowed)
  BY BagRowed DEF BagInv, BagTypes
<1>3. /\ e \in Updating /\ 1 \in DOMAIN fromBag /\ fromBag[1] = e
      /\ \A j \in DOMAIN fromBag' :
           j + 1 \in DOMAIN fromBag /\ j + 1 # 1 /\ j \in Nat /\ fromBag'[j] = fromBag[j + 1]
  BY <1>1, <1>2, HeardOne
<1>4. Has(itemList, n) => o \in DOMAIN itemList /\ itemList[o].id = n
  BY AtFinds
<1> HIDE DEF e, o
<1>5. e \in Removals /\ \A k : e \notin Adds(k) /\ (e \in Takes(k) <=> k = n)
  BY <1>1, <1>3, Sorts
<1> HIDE DEF n
<1>6. Has(itemList, n) =>
        /\ \A k : Total(itemList', k) = Total(itemList, k) - IF itemList[o].kind = k THEN 1 ELSE 0
        /\ \A h \in DOMAIN itemList' : \E a \in DOMAIN itemList :
             /\ itemList[a].id = itemList'[h].id /\ itemList[a].kind = itemList'[h].kind
             /\ itemList'[h].qty = itemList[a].qty - IF a = o THEN 1 ELSE 0
        /\ \A a : Has(itemList, a) /\ (a # n \/ itemList[o].qty > 1) => Has(itemList', a)
  <2> SUFFICES ASSUME Has(itemList, n)
               PROVE  /\ \A k : Total(itemList', k) = Total(itemList, k) - IF itemList[o].kind = k THEN 1 ELSE 0
                      /\ \A h \in DOMAIN itemList' : \E a \in DOMAIN itemList :
                           /\ itemList[a].id = itemList'[h].id /\ itemList[a].kind = itemList'[h].kind
                           /\ itemList'[h].qty = itemList[a].qty - IF a = o THEN 1 ELSE 0
                      /\ \A a : Has(itemList, a) /\ (a # n \/ itemList[o].qty > 1) => Has(itemList', a)
    OBVIOUS
  <2> DEFINE z == Less(itemList, o)
  <2>1. /\ \A k : Total(z, k) = Total(itemList, k) - IF itemList[o].kind = k THEN 1 ELSE 0
        /\ \A h \in DOMAIN z : \E a \in DOMAIN itemList :
             /\ itemList[a].id = z[h].id /\ itemList[a].kind = z[h].kind
             /\ z[h].qty = itemList[a].qty - IF a = o THEN 1 ELSE 0
        /\ \A a : Has(itemList, a) /\ (a # itemList[o].id \/ itemList[o].qty > 1) => Has(z, a)
    BY <1>2, <1>4, LessRow, Zenon
  <2>2. itemList' = z /\ itemList[o].id = n
    BY <1>1, <1>4
  <2> QED BY <2>1, <2>2, Zenon
<1>7. \A h \in DOMAIN itemList' : \E a \in DOMAIN itemList :
        itemList[a].id = itemList'[h].id /\ itemList[a].kind = itemList'[h].kind
  BY <1>1, <1>6
<1>8. Named' = Named
  BY DEF Named
<1>9. BagIds'
  <2>1. \A j \in DOMAIN itemList' : itemList'[j].id \in 1..lastId
    BY <1>7 DEF BagInv, BagIds
  <2>2. \A j \in DOMAIN fromBag' : fromBag'[j].t = "add" => fromBag'[j].row.id \in 1..lastId
    BY <1>3 DEF BagInv, BagIds
  <2> QED BY <1>8, <2>1, <2>2 DEF BagInv, BagIds
<1>10. CASE fresh
  <2>1. CountsMeet /\ RemovalsHeard /\ Enough /\ AddsNew /\ KindsAgree
        /\ \A j \in DOMAIN rows : rows[j].id \in Named => Has(itemList, rows[j].id)
    BY <1>10 DEF BagInv
  <2>2. Has(itemList, n) /\ itemList[o].kind = "item"
    <3>1. fromBag[1].t = "remove" /\ fromBag[1].id = n
      BY <1>1, <1>3 DEF n
    <3>2. /\ Has(itemList, n)
          /\ \A h \in DOMAIN itemList : itemList[h].id = n => itemList[h].kind = "item"
      BY <1>3, <2>1, <3>1 DEF RemovalsHeard
    <3> QED BY <1>4, <3>2
  <2>7. \A a : /\ Pending(fromBag', Takes(a)) = Pending(fromBag, Takes(a)) - IF a = n THEN 1 ELSE 0
             /\ Pending(fromBag', Takes(a)) \in Nat /\ Pending(fromBag, Takes(a)) \in Nat
    <3> SUFFICES ASSUME NEW a
                 PROVE  /\ Pending(fromBag', Takes(a)) = Pending(fromBag, Takes(a)) - IF a = n THEN 1 ELSE 0
                        /\ Pending(fromBag', Takes(a)) \in Nat /\ Pending(fromBag, Takes(a)) \in Nat
      OBVIOUS
    <3>1. Pending(fromBag', Takes(a)) = Pending(fromBag, Takes(a)) - IF e \in Takes(a) THEN 1 ELSE 0
      BY <1>1, <1>2, PendingTail DEF e
    <3>2. fromBag' \in Seq(Updating)
      BY DEF BagTypes
    <3>3. Pending(fromBag', Takes(a)) \in Nat /\ Pending(fromBag, Takes(a)) \in Nat
      BY <1>2, <3>2, PendingFinite
    <3> QED BY <1>5, <3>1, <3>3
  <2>8. \A h \in DOMAIN itemList : itemList[h].qty \in Nat \ {0} /\ itemList[h].qty \in Nat
    BY <1>2, RowsTyped
  <2>9. \A h \in DOMAIN rows : rows[h].qty \in Nat \ {0} /\ rows[h].qty \in Nat
    BY <1>2, RowsTyped
  <2>10. Has(rows, n) => itemList[o].qty > 1
    <3> SUFFICES ASSUME NEW j \in DOMAIN rows, rows[j].id = n PROVE itemList[o].qty > 1
      BY DEF Has
    <3>1. Pending(fromBag, Takes(n)) + rows[j].qty <= itemList[o].qty
      BY <1>4, <2>1, <2>2 DEF Enough
    <3>2. Pending(fromBag, Takes(n)) >= 1
      BY <2>7
    <3> QED BY <1>4, <2>2, <2>7, <2>8, <2>9, <3>1, <3>2
  <2>3. CountsMeet'
    <3> SUFFICES ASSUME NEW k \in Kinds
                 PROVE  Total(itemList', k) + Pending(fromBag', Adds(k))
                          = Total(rows, k) + IF k = "item" THEN Pending(fromBag', Removals) ELSE 0
      BY DEF CountsMeet
    <3>1. Total(itemList', k) = Total(itemList, k) - IF k = "item" THEN 1 ELSE 0
      BY <1>6, <2>2
    <3>2. Pending(fromBag', Adds(k)) = Pending(fromBag, Adds(k)) - 0
      <4>1. Pending(fromBag', Adds(k)) = Pending(fromBag, Adds(k)) - IF e \in Adds(k) THEN 1 ELSE 0
        BY <1>1, <1>2, PendingTail DEF e
      <4> QED BY <1>5, <4>1
    <3>3. Pending(fromBag', Removals) = Pending(fromBag, Removals) - 1
      <4>1. Pending(fromBag', Removals) = Pending(fromBag, Removals) - IF e \in Removals THEN 1 ELSE 0
        BY <1>1, <1>2, PendingTail DEF e
      <4> QED BY <1>5, <4>1
    <3>4. /\ Total(itemList, k) \in Nat /\ Total(rows, k) \in Nat
          /\ Pending(fromBag, Adds(k)) \in Nat /\ Pending(fromBag, Removals) \in Nat
      BY <1>2, UnitsFinite, PendingFinite
    <3>5. Total(itemList, k) + Pending(fromBag, Adds(k))
            = Total(rows, k) + IF k = "item" THEN Pending(fromBag, Removals) ELSE 0
      BY <2>1 DEF CountsMeet
    <3> QED BY <3>1, <3>2, <3>3, <3>4, <3>5
  <2>4. RemovalsHeard'
    <3> SUFFICES ASSUME NEW j \in DOMAIN fromBag', fromBag'[j].t = "remove"
                 PROVE  /\ Has(itemList', fromBag'[j].id)
                        /\ \A h \in DOMAIN itemList' : itemList'[h].id = fromBag'[j].id => itemList'[h].kind = "item"
      BY DEF RemovalsHeard
    <3> DEFINE a == fromBag'[j].id
    <3>1. j + 1 \in DOMAIN fromBag /\ fromBag'[j] = fromBag[j + 1]
      BY <1>3
    <3>2. Has(itemList, a) /\ \A h \in DOMAIN itemList : itemList[h].id = a => itemList[h].kind = "item"
      BY <2>1, <3>1 DEF RemovalsHeard
    <3>3. Pending(fromBag', Takes(a)) # 0
      <4>1. fromBag' \in Seq(Updating) /\ fromBag'[j] \in Updating
        BY DEF BagTypes
      <4>2. fromBag'[j] \in Takes(a)
        BY <4>1, Sorts
      <4> QED BY <4>1, <4>2, PendingSome
    <3> HIDE DEF a
    <3>4. a # n \/ itemList[o].qty > 1
      <4> SUFFICES ASSUME a = n PROVE itemList[o].qty > 1
        OBVIOUS
      <4>1. Pending(fromBag, Takes(n)) <= itemList[o].qty
        BY <1>4, <2>1, <2>2 DEF Enough
      <4>2. Pending(fromBag, Takes(n)) >= 2
        BY <2>7, <3>3
      <4> QED BY <1>4, <2>2, <2>7, <2>8, <4>1, <4>2
    <3>5. \A h \in DOMAIN itemList' : itemList'[h].id = a => itemList'[h].kind = "item"
      BY <1>7, <3>2
    <3>6. Has(itemList', a)
      BY <1>6, <2>2, <3>2, <3>4
    <3> QED BY <3>5, <3>6 DEF a
  <2>11. Enough'
    <3> SUFFICES ASSUME NEW h \in DOMAIN itemList'
                 PROVE  /\ Pending(fromBag', Takes(itemList'[h].id)) <= itemList'[h].qty
                        /\ \A j \in DOMAIN rows : rows[j].id = itemList'[h].id =>
                             Pending(fromBag', Takes(itemList'[h].id)) + rows[j].qty <= itemList'[h].qty
      BY DEF Enough
    <3>1. PICK w \in DOMAIN itemList :
            /\ itemList[w].id = itemList'[h].id
            /\ itemList'[h].qty = itemList[w].qty - IF w = o THEN 1 ELSE 0
      BY <1>6, <2>2
    <3> DEFINE a == itemList[w].id
    <3>2. /\ Pending(fromBag, Takes(a)) <= itemList[w].qty
          /\ \A j \in DOMAIN rows : rows[j].id = a => Pending(fromBag, Takes(a)) + rows[j].qty <= itemList[w].qty
      BY <2>1 DEF Enough
    <3>3. w = o => a = n
      BY <1>4, <2>2
    <3>4. itemList[w].qty \in Nat
      BY <2>8
    <3> HIDE DEF a
    <3>5. /\ Pending(fromBag', Takes(a)) <= itemList'[h].qty
          /\ \A j \in DOMAIN rows : rows[j].id = a => Pending(fromBag', Takes(a)) + rows[j].qty <= itemList'[h].qty
      BY <2>7, <2>9, <3>1, <3>2, <3>3, <3>4
    <3> QED BY <3>1, <3>5 DEF a
  <2>12. AddsNew'
    <3> SUFFICES ASSUME NEW j \in DOMAIN fromBag', fromBag'[j].t = "add"
                 PROVE  /\ ~Has(itemList', fromBag'[j].row.id)
                        /\ \A h \in DOMAIN fromBag' :
                             fromBag'[h].t = "add" /\ fromBag'[h].row.id = fromBag'[j].row.id => h = j
                        /\ \A h \in DOMAIN rows : rows[h].id = fromBag'[j].row.id => rows[h].qty = 1
      BY DEF AddsNew
    <3> DEFINE a == fromBag'[j].row.id
    <3>1. j + 1 \in DOMAIN fromBag /\ fromBag'[j] = fromBag[j + 1] /\ j \in Nat
      BY <1>3
    <3>2. /\ ~Has(itemList, a)
          /\ \A h \in DOMAIN fromBag : fromBag[h].t = "add" /\ fromBag[h].row.id = a => h = j + 1
          /\ \A h \in DOMAIN rows : rows[h].id = a => rows[h].qty = 1
      BY <2>1, <3>1 DEF AddsNew
    <3> HIDE DEF a
    <3>3. ~Has(itemList', a)
      BY <1>7, <3>2 DEF Has
    <3>4. ASSUME NEW h \in DOMAIN fromBag', fromBag'[h].t = "add", fromBag'[h].row.id = a PROVE h = j
      <4>1. h + 1 = j + 1 /\ h \in Nat
        BY <1>3, <3>2, <3>4
      <4> QED BY <3>1, <4>1
    <3> QED BY <3>2, <3>3, <3>4 DEF a
  <2>5. KindsAgree'
    <3> SUFFICES ASSUME NEW j \in DOMAIN rows
                 PROVE  /\ \A h \in DOMAIN itemList' : itemList'[h].id = rows[j].id => itemList'[h].kind = rows[j].kind
                        /\ \A h \in DOMAIN fromBag' :
                             fromBag'[h].t = "add" /\ fromBag'[h].row.id = rows[j].id
                               => fromBag'[h].row.kind = rows[j].kind
      BY DEF KindsAgree
    <3>1. /\ \A h \in DOMAIN itemList : itemList[h].id = rows[j].id => itemList[h].kind = rows[j].kind
          /\ \A h \in DOMAIN fromBag :
               fromBag[h].t = "add" /\ fromBag[h].row.id = rows[j].id => fromBag[h].row.kind = rows[j].kind
      BY <2>1 DEF KindsAgree
    <3> QED BY <1>3, <1>7, <3>1
  <2>6. \A j \in DOMAIN rows : rows[j].id \in Named' => Has(itemList', rows[j].id)
    <3> SUFFICES ASSUME NEW j \in DOMAIN rows, rows[j].id \in Named PROVE Has(itemList', rows[j].id)
      BY <1>8
    <3>1. Has(itemList, rows[j].id)
      BY <2>1
    <3>2. rows[j].id # n \/ itemList[o].qty > 1
      BY <2>10 DEF Has
    <3> QED BY <1>6, <2>2, <3>1, <3>2
  <2> QED BY <1>9, <2>3, <2>4, <2>5, <2>6, <2>11, <2>12 DEF BagInv
<1>11. CASE ~fresh
  BY <1>9, <1>11 DEF BagInv
<1> QED BY <1>10, <1>11

\* The answer to a request for the list: the rows themselves, if nothing is on its way.
LEMMA BagFetched ==
  ASSUME BagInv, BagTypes', OnInventory
  PROVE  BagInv'
<1>1. UNCHANGED <<rows, lastId, toBag, fromBag, uiDrag, skillBar>>
  BY DEF OnInventory, serverSide, windowSide, barSide
<1>2. PICK j \in DOMAIN gets :
        /\ gets' = RemoveAt(gets, j)
        /\ \/ itemList' = gets[j].rows /\ fresh' = (gets[j].rows = rows /\ Updates = {})
           \/ UNCHANGED <<itemList, fresh>>
  BY DEF OnInventory
<1>3. /\ gets \in Seq([read : BOOLEAN, rows : Seq(BagRow)]) /\ fromBag \in Seq(Updating)
      /\ rows \in Seq(BagRow)
      /\ \A k \in DOMAIN gets : \A h \in DOMAIN gets[k].rows : gets[k].rows[h].id \in 1..lastId
  BY DEF BagInv, BagTypes, BagIds
<1>4. \A k \in DOMAIN gets' : \E h \in DOMAIN gets : gets'[k] = gets[h]
  <2>1. /\ j \in 1..Len(gets) /\ Len(gets) \in Nat /\ DOMAIN gets = 1..Len(gets)
    BY <1>3
  <2>2. /\ gets' \in Seq([read : BOOLEAN, rows : Seq(BagRow)]) /\ Len(gets') = Len(gets) - 1
        /\ \A h \in 1..Len(gets) - 1 : gets'[h] = IF h < j THEN gets[h] ELSE gets[h + 1]
    BY <1>2, <1>3, <2>1, RemovedRow, ZenonT(30)
  <2>3. DOMAIN gets' = 1..Len(gets) - 1
    BY <2>2
  <2>4. \A h \in 1..Len(gets) - 1 : h \in DOMAIN gets /\ h + 1 \in DOMAIN gets
    BY <2>1
  <2> QED BY <2>2, <2>3, <2>4
<1>5. \A k \in DOMAIN gets' : \A h \in DOMAIN gets'[k].rows : gets'[k].rows[h].id \in 1..lastId
  BY <1>3, <1>4
<1>6. Named' = Named
  BY <1>1 DEF Named
<1>7. BagIds'
  BY <1>1, <1>2, <1>3, <1>5, <1>6 DEF BagInv, BagIds
<1>8. CASE UNCHANGED <<itemList, fresh>>
  <2>1. Unheard
    BY <1>1 DEF Unheard
  <2> QED BY <1>1, <1>5, <1>6, <1>8, <2>1, BagAside
<1>9. CASE itemList' = gets[j].rows /\ fresh' = (gets[j].rows = rows /\ Updates = {})
  <2>1. CASE fresh'
    <3>1. itemList' = rows /\ \A h \in DOMAIN fromBag : fromBag[h].t \notin {"add", "remove"}
      BY <1>9, <2>1 DEF Updates
    <3>2. \A h \in DOMAIN fromBag :
            fromBag[h] \notin Removals /\ \A k : fromBag[h] \notin Adds(k) /\ fromBag[h] \notin Takes(k)
      <4>1. \A h \in DOMAIN fromBag : fromBag[h] \in Updating
        BY <1>3
      <4>2. \A e \in Removals : e.t = "remove"
        BY Sorts
      <4>3. \A k : (\A e \in Adds(k) : e.t = "add") /\ \A e \in Takes(k) : e.t = "remove"
        BY DEF Adds, Takes
      <4> QED BY <3>1, <4>1, <4>2, <4>3
    <3>3. Pending(fromBag, Removals) = 0 /\ \A k : Pending(fromBag, Adds(k)) = 0
      <4>1. {h \in DOMAIN fromBag : fromBag[h] \in Removals} = {}
        BY <3>2
      <4>2. \A k : {h \in DOMAIN fromBag : fromBag[h] \in Adds(k)} = {}
        BY <3>2
      <4> QED BY <4>1, <4>2, FS_EmptySet, Zenon DEF Pending
    <3>4. CountsMeet'
      <4>1. \A k \in Kinds : Total(rows, k) \in Nat
        BY <1>3, BagRowed, UnitsFinite
      <4> QED BY <1>1, <3>1, <3>3, <4>1 DEF CountsMeet
    <3>5. RemovalsHeard' /\ AddsNew'
      BY <1>1, <3>1 DEF RemovalsHeard, AddsNew
    <3>8. Enough'
      <4>1. \A a : Pending(fromBag, Takes(a)) = 0
        BY <1>3, <3>2, PendingSome
      <4>2. \A h \in DOMAIN rows : rows[h].qty \in Nat \ {0} /\ rows[h].qty \in Nat
        BY <1>3, BagRowed, RowsTyped
      <4>3. \A h, k \in DOMAIN rows : rows[h].id = rows[k].id => h = k
        BY DEF BagInv, BagIds
      <4> QED BY <1>1, <3>1, <4>1, <4>2, <4>3 DEF Enough
    <3>6. KindsAgree'
      <4>1. \A h, k \in DOMAIN rows : rows[h].id = rows[k].id => h = k
        BY DEF BagInv, BagIds
      <4> QED BY <1>1, <3>1, <4>1 DEF KindsAgree
    <3>7. \A k \in DOMAIN rows' : rows'[k].id \in Named' => Has(itemList', rows'[k].id)
      BY <1>1, <3>1 DEF Has
    <3> QED BY <1>7, <3>4, <3>5, <3>6, <3>7, <3>8 DEF BagInv
  <2>2. CASE ~fresh'
    BY <1>7, <2>2 DEF BagInv
  <2> QED BY <2>1, <2>2
<1> QED BY <1>2, <1>8, <1>9

\* The rows change, and the bag is told nothing: it counts on nothing until the next fetch.
LEMMA BagChanged ==
  ASSUME BagInv, BagTypes', ChangeRows
  PROVE  BagInv'
<1>1. UNCHANGED <<toBag, fromBag, gets, itemList, uiDrag, skillBar>> /\ ~fresh'
  BY DEF ChangeRows, windowSide, barSide
<1>2. /\ rows \in Seq(BagRow) /\ lastId \in Nat \ {0}
      /\ \A j \in DOMAIN rows : rows[j].id \in 1..lastId
      /\ \A j, h \in DOMAIN rows : rows[j].id = rows[h].id => j = h
      /\ \A j \in DOMAIN itemList : itemList[j].id \in 1..lastId
      /\ \A j \in DOMAIN gets : \A h \in DOMAIN gets[j].rows : gets[j].rows[h].id \in 1..lastId
      /\ \A j \in DOMAIN fromBag : fromBag[j].t = "add" => fromBag[j].row.id \in 1..lastId
      /\ \A n \in Named : n <= lastId
  BY DEF BagInv, BagTypes, BagIds
<1>3. Named' = Named
  BY <1>1 DEF Named
<1>4. ASSUME NEW kind \in Kinds, lastId' = lastId + 1,
             rows' = Append(rows, [id |-> lastId + 1, kind |-> kind, qty |-> 1, equipped |-> FALSE])
      PROVE  BagIds'
  <2> DEFINE r == [id |-> lastId + 1, kind |-> kind, qty |-> 1, equipped |-> FALSE]
  <2>1. r \in BagRow /\ r.id = lastId + 1
    BY <1>2 DEF BagRow
  <2> HIDE DEF r
  <2>2. rows' = Append(rows, r)
    BY <1>4 DEF r
  <2>3. /\ DOMAIN rows' = DOMAIN rows \union {Len(rows) + 1}
        /\ rows'[Len(rows) + 1] = r /\ \A j \in DOMAIN rows : rows'[j] = rows[j]
    BY <1>2, <2>1, <2>2, SentOne
  <2>4. lastId + 1 \notin 1..lastId /\ lastId + 1 \in 1..lastId + 1 /\ \A n \in 1..lastId : n \in 1..lastId + 1
    BY <1>2
  <2>5. /\ \A j \in DOMAIN rows' : rows'[j].id \in 1..lastId'
        /\ \A j, h \in DOMAIN rows' : rows'[j].id = rows'[h].id => j = h
    BY <1>2, <1>4, <2>1, <2>3, <2>4
  <2>6. \A n \in Named : n <= lastId + 1
    <3>1. \A n \in Named : n \in Nat
      BY NamedNat DEF BagInv
    <3> QED BY <1>2, <3>1
  <2> QED BY <1>1, <1>2, <1>3, <1>4, <2>4, <2>5, <2>6 DEF BagIds
<1>5. ASSUME NEW j \in DOMAIN rows, UNCHANGED lastId,
             \/ rows' = Less(rows, j) \/ rows' = RemoveAt(rows, j)
             \/ rows' = [rows EXCEPT ![j].qty = @ + 1]
      PROVE  BagIds'
  <2>1. /\ \A k, h \in DOMAIN rows' : rows'[k].id = rows'[h].id => k = h
        /\ \A h \in DOMAIN rows' : \E k \in DOMAIN rows : rows[k].id = rows'[h].id
    <3>1. CASE rows' = Less(rows, j)
      <4> DEFINE z == Less(rows, j)
      <4>1. /\ \A k, h \in DOMAIN z : z[k].id = z[h].id => k = h
            /\ \A h \in DOMAIN z : \E k \in DOMAIN rows : rows[k].id = z[h].id
        BY <1>2, RowUsed
      <4> HIDE DEF z
      <4> QED BY <3>1, <4>1 DEF z
    <3>2. CASE rows' = RemoveAt(rows, j)
      <4> DEFINE z == RemoveAt(rows, j)
      <4>1. /\ \A k, h \in DOMAIN z : z[k].id = z[h].id => k = h
            /\ \A h \in DOMAIN z : \E k \in DOMAIN rows : rows[k] = z[h]
        BY <1>2, RowGone
      <4> HIDE DEF z
      <4> QED BY <3>2, <4>1 DEF z
    <3>3. CASE rows' = [rows EXCEPT ![j].qty = @ + 1]
      <4>1. rows[j] \in BagRow
        BY <1>2
      <4>2. rows[j].qty + 1 \in Nat \ {0}
        BY <4>1 DEF BagRow
      <4> DEFINE n == rows[j].qty + 1
                 z == [rows EXCEPT ![j].qty = n]
      <4> HIDE DEF n
      <4>3. DOMAIN z = DOMAIN rows /\ \A h \in DOMAIN rows : z[h].id = rows[h].id
        BY <1>2, <4>2, RowStacked DEF n
      <4> HIDE DEF z
      <4>4. rows' = z
        BY <3>3 DEF z, n
      <4> QED BY <1>2, <4>3, <4>4
    <3> QED BY <1>5, <3>1, <3>2, <3>3
  <2> QED BY <1>1, <1>2, <1>3, <1>5, <2>1 DEF BagIds
<1>6. BagIds'
  BY <1>4, <1>5 DEF ChangeRows
<1> QED BY <1>1, <1>6 DEF BagInv

LEMMA BagStep == BagInv /\ Next => BagInv'
<1> SUFFICES ASSUME BagInv, Next PROVE BagInv'
  OBVIOUS
<1>1. BagTypes'
  BY ServerTypes, ClientTypes DEF BagInv, Next
<1>2. ASSUME NEW kind \in Kinds, HandlePickup(kind) PROVE BagInv'
  BY <1>1, <1>2, BagPickup
<1>3. CASE HandleUseItem
  BY <1>1, <1>3, BagUse, BagAsides
<1>4. CASE HandleEquipItem \/ HandleUnequipItem \/ EnterMap \/ ListRows \/ OnEquipResult \/ Window \/ Bar
  BY <1>1, <1>4, BagAsides
<1>5. CASE OnInventory
  BY <1>1, <1>5, BagFetched
<1>6. CASE OnInventoryUpdate
  <2>1. UNCHANGED <<rows, lastId, toBag, gets, uiDrag, skillBar, fresh>>
    BY <1>6 DEF OnInventoryUpdate, serverSide, windowSide, barSide
  <2>2. CASE Told("add") /\ itemList' = Added(itemList, Head(fromBag).row)
    BY <1>1, <2>1, <2>2, BagAdded
  <2>3. CASE Told("remove") /\ itemList' = Removed(itemList, Head(fromBag).id)
    BY <1>1, <2>1, <2>3, BagTaken
  <2> QED BY <1>6, <2>2, <2>3 DEF OnInventoryUpdate
<1>7. CASE ChangeRows
  BY <1>1, <1>7, BagChanged
<1> QED BY <1>2, <1>3, <1>4, <1>5, <1>6, <1>7 DEF Next, Server

LEMMA BagSteps == BagInv /\ [MCNext]_<<part, i, s, t, m, p, c, x, g, v, f, l>> => BagInv'
<1>1. BagInv /\ UNCHANGED bagVars => BagInv'
  BY DEF BagInv, BagTypes, BagIds, Named, CountsMeet, RemovalsHeard, Enough, AddsNew, KindsAgree, bagVars
<1>2. [MCNext]_<<part, i, s, t, m, p, c, x, g, v, f, l>> => Next \/ UNCHANGED bagVars
  BY DEF MCNext, i
<1> QED BY <1>1, <1>2, BagStep

\* With no update on its way the counts are the same.
LEMMA BagCounts == BagInv => CountsAgree
<1> SUFFICES ASSUME BagInv, fresh, Updates = {}, NEW k \in Kinds PROVE Total(itemList, k) = Total(rows, k)
  BY DEF CountsAgree
<1>1. fromBag \in Seq(Updating) /\ itemList \in Seq(Rowed) /\ rows \in Seq(Rowed)
  BY BagRowed DEF BagInv, BagTypes
<1>2. \A h \in DOMAIN fromBag : fromBag[h].t \notin {"add", "remove"}
  BY DEF Updates
<1>3. \A h \in DOMAIN fromBag : fromBag[h] \notin Removals /\ fromBag[h] \notin Adds(k)
  <2>1. \A e \in Removals : e.t = "remove"
    BY Sorts
  <2>2. \A e \in Adds(k) : e.t = "add"
    BY DEF Adds
  <2> QED BY <1>2, <2>1, <2>2
<1>4. Pending(fromBag, Removals) = 0 /\ Pending(fromBag, Adds(k)) = 0
  <2>1. {h \in DOMAIN fromBag : fromBag[h] \in Removals} = {} /\ {h \in DOMAIN fromBag : fromBag[h] \in Adds(k)} = {}
    BY <1>3
  <2> QED BY <2>1, FS_EmptySet, Zenon DEF Pending
<1>5. Total(itemList, k) \in Nat /\ Total(rows, k) \in Nat
  BY <1>1, UnitsFinite
<1>6. Total(itemList, k) + Pending(fromBag, Adds(k))
        = Total(rows, k) + IF k = "item" THEN Pending(fromBag, Removals) ELSE 0
  BY DEF BagInv, CountsMeet
<1> QED BY <1>4, <1>5, <1>6

-----------------------------------------------------------------------------
(* What the windows show *)

LEMMA SkillsStep == SkillsKept /\ [MCNext]_<<part, i, s, t, m, p, c, x, g, v, f, l>> => SkillsKept'
<1> SUFFICES ASSUME SkillsKept, [MCNext]_<<part, i, s, t, m, p, c, x, g, v, f, l>> PROVE SkillsKept'
  OBVIOUS
<1>1. CASE UNCHANGED <<skillBar, savedBar>>
  BY <1>1 DEF SkillsKept, Saved
<1>2. CASE savedBar' = Saved(skillBar')
  BY <1>2 DEF SkillsKept, Saved
<1>3. Server => UNCHANGED <<skillBar, savedBar>>
  BY DEF Server, HandlePickup, ChangeRows, HandleUseItem, HandleEquipItem, HandleUnequipItem, EnterMap,
         ListRows, barSide
<1>4. OnInventory \/ OnInventoryUpdate \/ OnEquipResult => UNCHANGED <<skillBar, savedBar>>
  BY DEF OnInventory, OnInventoryUpdate, OnEquipResult, barSide
<1>5. Window => UNCHANGED <<skillBar, savedBar>>
  BY DEF Window, OpenBag, CloseBag, Click, Move, Drag, Choose, StartScene, barSide
<1>6. Bar => savedBar' = Saved(skillBar') \/ UNCHANGED <<skillBar, savedBar>>
  BY DEF Bar, Drop, DropSkill, OnMapInit, PressF, AssignToBar, barSide
<1>7. Next \/ UNCHANGED i
  BY DEF MCNext
<1>8. CASE UNCHANGED i
  BY <1>1, <1>8 DEF i, bagVars
<1> QED BY <1>1, <1>2, <1>3, <1>4, <1>5, <1>6, <1>7, <1>8 DEF Next

\* With every message heard the bag counts as many of each kind as the database, fetched
\* undisturbed, and the bar that is saved is the bar that is shown; the party has the gold
\* and goods of the database; a window of a trade shows its terms; a variable that only the
\* server's events have set is what they stored, unless the last change was lost, and a
\* change that the page makes is on its way; the panel of friends shows those the server
\* has, and never an empty list when there are any.
THEOREM WindowsShow == MCSpec => []WindowsAgree
<1>1. MCInit => SkillsKept /\ BagInv /\ ShopInv /\ TradeInv /\ VarsInv /\ FriendsInv
  BY BagInitial, ShopInitial, TradeInitial, VarsInitial, FriendsInitial DEF MCInit, Init, SkillsKept
<1>2. ShopInv => ShopOf!AgreesUnrefused
  <2> SUFFICES ASSUME ShopInv, ~refused, toShop = <<>> PROVE partyGold = gold /\ partyBag = bag
    BY DEF ShopOf!AgreesUnrefused, ShopOf!Agrees
  <2>1. PICK q \in Seq(Stock) : Leads(q, Kept, OfParty)
    BY DEF ShopInv
  <2>2. Len(q) = 1 /\ q[1] = Kept /\ q[Len(q)] = OfParty
    BY <2>1 DEF Leads
  <2> QED BY <2>2 DEF Kept, OfParty
<1>3. TradeInv => TradeOf!ShowsTerms
  <2> SUFFICES ASSUME TradeInv, fromTrade = <<>>, shown, trade # NoTrade, ~stray
               PROVE  /\ theirGold = trade.theirs
                      /\ myConfirmed = trade.me /\ theirConfirmed = trade.them
    BY DEF TradeOf!ShowsTerms, TradeOf!Quiet
  <2> QED BY LastNone DEF TradeInv, TermsTold
<1>4. VarsInv => Vars!Follows /\ Vars!FlushComes
  <2> SUFFICES ASSUME VarsInv PROVE Vars!Follows /\ Vars!FlushComes
    OBVIOUS
  <2>1. Vars!FlushComes
    BY DEF VarsInv, FlushDue, Vars!FlushComes
  <2>2. Vars!Follows
    <3> SUFFICES ASSUME toPage = <<>>, NEW e \in Events, e \notin own
                 PROVE  local[e] = stored[e] \/ lost[e] = stored[e]
      BY DEF Vars!Follows
    <3>1. Len(toPage) = 0
      OBVIOUS
    <3> QED BY <3>1 DEF VarsInv, Heard
  <2> QED BY <2>1, <2>2
<1>5. MCSpec => []SkillsKept
  BY <1>1, SkillsStep, PTL DEF MCSpec
<1>6. MCSpec => []ShopInv
  BY <1>1, ShopStep, PTL DEF MCSpec
<1>7. MCSpec => []TradeInv
  BY <1>1, TradeStep, PTL DEF MCSpec
<1>8. MCSpec => []VarsInv
  BY <1>1, VarsStep, PTL DEF MCSpec
<1>9. MCSpec => []FriendsInv
  BY <1>1, FriendsStep, PTL DEF MCSpec
<1>10. MCSpec => []BagInv
  BY <1>1, BagSteps, PTL DEF MCSpec
<1>11. FriendsInv => Friends!ShowsFriends /\ Friends!SomeoneInSight
  BY FriendInSight DEF FriendsInv, WellScrolled, Friends!ShowsFriends
<1>12. SkillsKept /\ BagInv /\ ShopInv /\ TradeInv /\ VarsInv /\ FriendsInv => WindowsAgree
  BY <1>2, <1>3, <1>4, <1>11, BagCounts DEF WindowsAgree
<1> QED BY <1>5, <1>6, <1>7, <1>8, <1>9, <1>10, <1>12, PTL


-----------------------------------------------------------------------------
(* The types of all parts *)

\* A place to drag from is kept for as long as the drag; no more rows are made, and no more
\* changes, than the bounds.
BagBounds ==
  lastId \in 1..MaxRows /\ changes \in 0..MaxChanges /\ (dragging => dragIdx # Nothing)

LEMMA BagBoundsKept ==
  BagBounds /\ [MCNext]_<<part, i, s, t, m, p, c, x, g, v, f, l>> => BagBounds'
<1> SUFFICES ASSUME BagBounds, [MCNext]_<<part, i, s, t, m, p, c, x, g, v, f, l>> PROVE BagBounds'
  OBVIOUS
<1>1. Next \/ UNCHANGED i
  BY DEF MCNext
<1>2. CASE UNCHANGED i
  BY <1>2 DEF i, bagVars, serverSide, windowSide, BagBounds
<1>3. MaxRows \in Nat /\ MaxChanges \in Nat
  BY BoundsAssumption
<1>4. CASE Server
  <2>1. UNCHANGED <<dragging, dragIdx>>
    BY <1>4 DEF Server, HandlePickup, ChangeRows, HandleUseItem, HandleEquipItem, HandleUnequipItem,
                EnterMap, ListRows, windowSide
  <2>2. lastId' = lastId \/ (lastId < MaxRows /\ lastId' = lastId + 1)
    BY <1>4 DEF Server, HandlePickup, ChangeRows, HandleUseItem, HandleEquipItem, HandleUnequipItem,
                EnterMap, ListRows, serverSide
  <2>3. changes' = changes \/ (changes < MaxChanges /\ changes' = changes + 1)
    BY <1>4 DEF Server, HandlePickup, ChangeRows, HandleUseItem, HandleEquipItem, HandleUnequipItem,
                EnterMap, ListRows, serverSide, Counted
  <2> QED BY <1>3, <2>1, <2>2, <2>3 DEF BagBounds
<1>5. CASE OnInventory \/ OnInventoryUpdate \/ OnEquipResult
  BY <1>5 DEF OnInventory, OnInventoryUpdate, OnEquipResult, serverSide, windowSide, BagBounds
<1>6. CASE Window
  <2>1. UNCHANGED <<lastId, changes>>
    BY <1>6 DEF Window, OpenBag, CloseBag, Click, Move, Drag, Choose, StartScene, serverSide
  <2>2. \/ UNCHANGED <<dragging, dragIdx>> \/ ~dragging'
        \/ dragIdx # Nothing /\ dragIdx' = dragIdx
    BY <1>6 DEF Window, OpenBag, CloseBag, Click, Move, Drag, Choose, StartScene
  <2> QED BY <2>1, <2>2 DEF BagBounds
<1>7. CASE Bar
  <2>1. UNCHANGED <<lastId, changes>>
    BY <1>7 DEF Bar, Drop, DropSkill, OnMapInit, PressF, serverSide
  <2>2. UNCHANGED <<dragging, dragIdx>> \/ ~dragging'
    BY <1>7 DEF Bar, Drop, DropSkill, OnMapInit, PressF, windowSide
  <2> QED BY <2>1, <2>2 DEF BagBounds
<1> QED BY <1>1, <1>2, <1>4, <1>5, <1>6, <1>7 DEF Next

LEMMA BagTyped == BagInv /\ BagBounds => TypeOK
<1> SUFFICES ASSUME BagInv, BagBounds PROVE TypeOK
  OBVIOUS
<1>1. BagTypes /\ BagIds /\ lastId \in 1..MaxRows /\ MaxRows \in Nat
  BY BoundsAssumption DEF BagInv, BagBounds
<1>2. \A r \in Rowed : r.id \in 1..lastId => r \in Row
  BY <1>1 DEF Rowed, Row
<1>3. rows \in Seq(Rowed) /\ itemList \in Seq(Rowed)
  BY <1>1, BagRowed DEF BagTypes
<1>4. ASSUME NEW q \in Seq(Rowed), \A j \in DOMAIN q : q[j].id \in 1..lastId PROVE Range(q) \subseteq Row
  <2>1. \A j \in DOMAIN q : q[j] \in Rowed
    BY <1>4
  <2> QED BY <1>2, <1>4, <2>1 DEF Range
<1>5. Range(rows) \subseteq Row /\ Range(itemList) \subseteq Row
  BY <1>1, <1>3, <1>4 DEF BagIds
<1>6. \A h, j \in DOMAIN rows : rows[h].id = rows[j].id => h = j
  BY <1>1 DEF BagIds
<1>7. ASSUME NEW k \in Slots, skillBar[k] # Nothing PROVE skillBar[k].kind \in {"skill", "item"}
  <2>1. skillBar[k] = Skill \/ skillBar[k] \in Reference
    BY <1>1, <1>7 DEF BagTypes
  <2> QED BY <2>1 DEF Skill, Reference
<1>8. savedBar # Nothing => \A k \in Slots : savedBar[k] \in {Skill, Nothing}
  BY <1>1 DEF BagTypes
<1> QED BY <1>5, <1>6, <1>7, <1>8 DEF TypeOK, BagBounds

-----------------------------------------------------------------------------

ShopMessage == Word({"shop", "bought", "sold", "error"})

\* Gold and goods are never negative, in the database or in the party; each scene has its shop,
\* opened or on its way.
ShopBounds ==
  /\ gold \in Nat /\ bag \in [ShopOf!Goods -> Nat]
  /\ partyGold \in Nat /\ partyBag \in [ShopOf!Goods -> Nat]
  /\ fromShop \in Seq(ShopMessage) /\ scenes \in Nat /\ shops \in Nat /\ shops <= MaxShops
  /\ scenes + Pending(fromShop, Word({"shop"})) <= shops
  /\ shopGoods \in BOOLEAN
  /\ \A d \in {pendingBuy, pendingSell} \ {NoDeal} : d.g \in ShopOf!Goods /\ d.n \in ShopOf!Qty

LEMMA ShopBoundsFirst == ShopOf!Init => ShopBounds
<1> SUFFICES ASSUME ShopOf!Init PROVE ShopBounds
  OBVIOUS
<1>1. /\ gold = StartGold /\ bag = [y \in ShopOf!Goods |-> 0] /\ partyGold = gold /\ partyBag = bag
      /\ shopGoods = FALSE /\ shops = 0 /\ fromShop = <<>> /\ scenes = 0
      /\ pendingBuy = NoDeal /\ pendingSell = NoDeal
  BY DEF ShopOf!Init
<1>2. StartGold \in Nat /\ MaxShops \in Nat
  BY ConstantsAssumption, BoundsAssumption
<1>3. Pending(fromShop, Word({"shop"})) = 0
  <2>1. {j \in DOMAIN fromShop : fromShop[j] \in Word({"shop"})} = {}
    BY <1>1
  <2> QED BY <2>1, FS_EmptySet, Zenon DEF Pending
<1>4. shopGoods \in BOOLEAN /\ {pendingBuy, pendingSell} \ {NoDeal} = {}
  BY <1>1
<1>5. fromShop \in Seq(ShopMessage)
  BY <1>1
<1> QED BY <1>1, <1>2, <1>3, <1>4, <1>5 DEF ShopBounds

\* A message that is sent, ...
LEMMA ShopSays ==
  ASSUME ShopBounds, NEW u \in {"shop", "bought", "sold", "error"},
         fromShop' = Append(fromShop, [t |-> u])
  PROVE  /\ fromShop' \in Seq(ShopMessage)
         /\ Pending(fromShop', Word({"shop"}))
              = Pending(fromShop, Word({"shop"})) + IF u = "shop" THEN 1 ELSE 0
         /\ Pending(fromShop, Word({"shop"})) \in Nat
<1> DEFINE e == [t |-> u]
<1>1. e \in ShopMessage /\ (e \in Word({"shop"}) <=> u = "shop")
  BY DEF ShopMessage, Word
<1>2. fromShop \in Seq(ShopMessage) /\ fromShop' = Append(fromShop, e)
  BY DEF ShopBounds
<1> HIDE DEF e
<1>3. Pending(Append(fromShop, e), Word({"shop"}))
        = Pending(fromShop, Word({"shop"})) + IF e \in Word({"shop"}) THEN 1 ELSE 0
  BY <1>1, <1>2, PendingAppend
<1>4. Pending(fromShop, Word({"shop"})) \in Nat
  BY <1>2, PendingFinite
<1> QED BY <1>1, <1>2, <1>3, <1>4

\* ... and one that is heard.
LEMMA ShopHears ==
  ASSUME ShopBounds, NEW u \in {"shop", "bought", "sold", "error"}, ShopOf!Answered(u)
  PROVE  /\ fromShop' \in Seq(ShopMessage)
         /\ Pending(fromShop', Word({"shop"}))
              = Pending(fromShop, Word({"shop"})) - IF u = "shop" THEN 1 ELSE 0
         /\ Pending(fromShop, Word({"shop"})) \in Nat
         /\ UNCHANGED <<gold, bag, shopGoods, shops>>
<1> DEFINE e == Head(fromShop)
<1>1. /\ fromShop # <<>> /\ e.t = u /\ fromShop' = Tail(fromShop)
      /\ UNCHANGED <<gold, bag, shopGoods, shops>> /\ fromShop \in Seq(ShopMessage)
  BY DEF ShopOf!Answered, ShopBounds
<1>2. e \in ShopMessage /\ fromShop' \in Seq(ShopMessage)
  BY <1>1
<1>3. e \in Word({"shop"}) <=> u = "shop"
  BY <1>1, <1>2 DEF ShopMessage, Word
<1> HIDE DEF e
<1>4. Pending(Tail(fromShop), Word({"shop"}))
        = Pending(fromShop, Word({"shop"})) - IF e \in Word({"shop"}) THEN 1 ELSE 0
  BY <1>1, PendingTail DEF e
<1>5. Pending(fromShop, Word({"shop"})) \in Nat
  BY <1>1, PendingFinite
<1> QED BY <1>1, <1>2, <1>3, <1>4, <1>5

LEMMA ShopBoundsKept ==
  ShopInv /\ ShopBounds /\ [MCNext]_<<part, i, s, t, m, p, c, x, g, v, f, l>> => ShopBounds'
<1> SUFFICES ASSUME ShopInv, ShopBounds, [MCNext]_<<part, i, s, t, m, p, c, x, g, v, f, l>>
             PROVE  ShopBounds'
  OBVIOUS
<1>1. ShopOf!Next \/ UNCHANGED s
  BY DEF MCNext
<1>2. /\ gold \in Nat /\ bag \in [ShopOf!Goods -> Nat]
      /\ partyGold \in Nat /\ partyBag \in [ShopOf!Goods -> Nat]
      /\ fromShop \in Seq(ShopMessage) /\ scenes \in Nat /\ shops \in Nat /\ MaxShops \in Nat
  BY BoundsAssumption DEF ShopBounds
<1>3. ShopOf!Price = 2 /\ ShopOf!Half = 1 /\ ShopOf!Qty = 1..2
  BY DEF ShopOf!Price, ShopOf!Half, ShopOf!Qty
<1>4. CASE UNCHANGED s
  BY <1>4 DEF s, ShopBounds
<1>5. CASE ShopOf!SendShopProcessing
  <2>1. /\ shops < MaxShops /\ shops' = shops + 1 /\ fromShop' = Append(fromShop, [t |-> "shop"])
        /\ shopGoods' = TRUE
        /\ UNCHANGED <<gold, bag, partyGold, partyBag, scenes, pendingBuy, pendingSell>>
    BY <1>5 DEF ShopOf!SendShopProcessing
  <2>2. /\ fromShop' \in Seq(ShopMessage)
        /\ Pending(fromShop', Word({"shop"})) = Pending(fromShop, Word({"shop"})) + 1
        /\ Pending(fromShop, Word({"shop"})) \in Nat
    BY <2>1, ShopSays
  <2>3. shopGoods' \in BOOLEAN
    BY <2>1
  <2> QED BY <1>2, <2>1, <2>2, <2>3 DEF ShopBounds
<1>6. CASE ShopOf!HandleShopBuy \/ ShopOf!HandleShopSell
  <2> DEFINE e == Head(toShop)
  <2>1. e \in DealAsked /\ e.t \in {"buy", "sell"}
    <3>1. toShop \in Seq(DealAsked) /\ toShop # <<>> /\ e.t \in {"buy", "sell"}
      BY <1>6 DEF ShopInv, ShopOf!HandleShopBuy, ShopOf!HandleShopSell, ShopOf!Request
    <3> QED BY <3>1
  <2>2. e.g \in ShopOf!Goods /\ e.n \in {1, 2}
    BY <1>3, <2>1 DEF DealAsked, Word
  <2>3. /\ UNCHANGED <<shopGoods, shops, partyGold, partyBag, scenes, pendingBuy, pendingSell>>
        /\ \E u \in {"bought", "sold", "error"} : fromShop' = Append(fromShop, [t |-> u])
    BY <1>6 DEF ShopOf!HandleShopBuy, ShopOf!HandleShopSell, ShopOf!Deal
  <2>4. \/ UNCHANGED <<gold, bag>>
        \/ gold >= 2 * e.n /\ gold' = gold - 2 * e.n /\ bag' = [bag EXCEPT ![e.g] = @ + e.n]
        \/ bag[e.g] >= e.n /\ gold' = gold + 1 * e.n /\ bag' = [bag EXCEPT ![e.g] = @ - e.n]
    <3>1. CASE ShopOf!HandleShopBuy
      BY <1>3, <3>1 DEF ShopOf!HandleShopBuy
    <3>2. CASE ShopOf!HandleShopSell
      <4>1. bag[e.g] \in Nat /\ 1 <= 1
        BY <1>2, <2>2
      <4> DEFINE of == IF e.g \in Items \/ bag[e.g] = 0 THEN bag[e.g] ELSE 1
      <4>2. of <= bag[e.g] /\ of \in Nat
        BY <4>1
      <4>3. IF of >= e.n
            THEN gold' = gold + ShopOf!Half * e.n /\ bag' = [bag EXCEPT ![e.g] = @ - e.n]
            ELSE UNCHANGED <<gold, bag>>
        BY <3>2 DEF ShopOf!HandleShopSell
      <4> HIDE DEF of, e
      <4> QED BY <1>3, <2>2, <4>1, <4>2, <4>3
    <3> QED BY <1>6, <3>1, <3>2
  <2> HIDE DEF e
  <2>5. gold' \in Nat /\ bag' \in [ShopOf!Goods -> Nat]
    <3>1. bag[e.g] \in Nat
      BY <1>2, <2>2
    <3>2. CASE UNCHANGED <<gold, bag>>
      BY <1>2, <3>2
    <3>3. CASE gold >= 2 * e.n /\ gold' = gold - 2 * e.n /\ bag' = [bag EXCEPT ![e.g] = @ + e.n]
      BY <1>2, <2>2, <3>1, <3>3
    <3>4. CASE bag[e.g] >= e.n /\ gold' = gold + 1 * e.n /\ bag' = [bag EXCEPT ![e.g] = @ - e.n]
      BY <1>2, <2>2, <3>1, <3>4
    <3> QED BY <2>4, <3>2, <3>3, <3>4
  <2>6. /\ fromShop' \in Seq(ShopMessage)
        /\ Pending(fromShop', Word({"shop"})) = Pending(fromShop, Word({"shop"})) + 0
        /\ Pending(fromShop, Word({"shop"})) \in Nat
    BY <2>3, ShopSays
  <2> QED BY <1>2, <2>3, <2>5, <2>6 DEF ShopBounds
<1>7. CASE ShopOf!HandleShopClose
  <2>1. /\ shopGoods' = FALSE
        /\ UNCHANGED <<gold, bag, shops, fromShop, partyGold, partyBag, scenes, pendingBuy, pendingSell>>
    BY <1>7 DEF ShopOf!HandleShopClose
  <2>2. shopGoods' \in BOOLEAN
    BY <2>1
  <2> QED BY <2>1, <2>2 DEF ShopBounds
<1>8. CASE ShopOf!OpenShop
  <2>1. /\ scenes' = scenes + 1 /\ ShopOf!Answered("shop")
        /\ UNCHANGED <<partyGold, partyBag, pendingBuy, pendingSell>>
    BY <1>8 DEF ShopOf!OpenShop
  <2>2. /\ fromShop' \in Seq(ShopMessage) /\ UNCHANGED <<gold, bag, shopGoods, shops>>
        /\ Pending(fromShop', Word({"shop"})) = Pending(fromShop, Word({"shop"})) - 1
        /\ Pending(fromShop, Word({"shop"})) \in Nat
    BY <2>1, ShopHears
  <2> QED BY <1>2, <2>1, <2>2 DEF ShopBounds
<1>9. CASE ShopOf!OnBuyResult \/ ShopOf!OnSellResult \/ ShopOf!OnError
  <2>1. /\ \E u \in {"bought", "sold", "error"} : ShopOf!Answered(u)
        /\ UNCHANGED <<partyGold, partyBag, scenes>>
        /\ pendingBuy' \in {pendingBuy, NoDeal} /\ pendingSell' \in {pendingSell, NoDeal}
    BY <1>9 DEF ShopOf!OnBuyResult, ShopOf!OnSellResult, ShopOf!OnError
  <2>2. /\ fromShop' \in Seq(ShopMessage) /\ UNCHANGED <<gold, bag, shopGoods, shops>>
        /\ Pending(fromShop', Word({"shop"})) = Pending(fromShop, Word({"shop"})) - 0
        /\ Pending(fromShop, Word({"shop"})) \in Nat
    BY <2>1, ShopHears
  <2> QED BY <1>2, <2>1, <2>2 DEF ShopBounds
<1>10. CASE ShopOf!DoBuy \/ ShopOf!DoSell
  <2>1. PICK y \in ShopOf!Goods, n \in ShopOf!Qty :
          /\ \/ /\ partyGold >= 2 * n /\ partyGold' = partyGold - 2 * n
                /\ partyBag' = [partyBag EXCEPT ![y] = @ + n]
             \/ /\ partyBag[y] >= n /\ partyGold' = partyGold + 1 * n
                /\ partyBag' = [partyBag EXCEPT ![y] = @ - n]
          /\ pendingBuy' \in {pendingBuy, [g |-> y, n |-> n]}
          /\ pendingSell' \in {pendingSell, [g |-> y, n |-> n]}
    BY <1>3, <1>10 DEF ShopOf!DoBuy, ShopOf!DoSell
  <2>2. UNCHANGED <<gold, bag, shopGoods, shops, fromShop, scenes>>
    BY <1>10 DEF ShopOf!DoBuy, ShopOf!DoSell
  <2>3. partyGold' \in Nat /\ partyBag' \in [ShopOf!Goods -> Nat]
    <3>1. partyBag[y] \in Nat /\ n \in {1, 2}
      BY <1>2, <1>3
    <3> QED BY <1>2, <2>1, <3>1
  <2>4. \A d \in {pendingBuy, pendingSell}' \ {NoDeal} : d.g \in ShopOf!Goods /\ d.n \in ShopOf!Qty
    BY <2>1 DEF ShopBounds
  <2> QED BY <2>2, <2>3, <2>4 DEF ShopBounds
<1>11. CASE ShopOf!Terminate
  <2>1. /\ scenes > 0 /\ scenes' = scenes - 1 /\ pendingBuy' = NoDeal /\ pendingSell' = NoDeal
        /\ UNCHANGED <<gold, bag, shopGoods, shops, fromShop, partyGold, partyBag>>
    BY <1>11 DEF ShopOf!Terminate
  <2>2. Pending(fromShop, Word({"shop"})) \in Nat
    BY <1>2, PendingFinite
  <2> QED BY <1>2, <2>1, <2>2 DEF ShopBounds
<1> QED BY <1>1, <1>4, <1>5, <1>6, <1>7, <1>8, <1>9, <1>10, <1>11 DEF ShopOf!Next

LEMMA ShopTyped == ShopBounds => ShopOf!TypeOK
<1> SUFFICES ASSUME ShopBounds PROVE ShopOf!TypeOK
  OBVIOUS
<1>1. Pending(fromShop, Word({"shop"})) \in Nat
  BY PendingFinite DEF ShopBounds
<1>2. scenes \in 0..MaxShops
  BY <1>1, BoundsAssumption DEF ShopBounds
<1> QED BY <1>2 DEF ShopBounds, ShopOf!TypeOK

-----------------------------------------------------------------------------

LEMMA TradeTyped == TradeInv => TradeOf!TypeOK
BY DEF TradeInv, TradeTypes, Terms, TradeOf!TypeOK

-----------------------------------------------------------------------------

\* A panel that is off the screen because of an event is one there is, and the scene knows of
\* the event.
PanelBounds ==
  /\ \A h \in {chat, panelBar} : h.hiddenByEvent => h.exists /\ eventBusy
  /\ phase \in {"off", "made", "started"} /\ scene \in 0..MaxMapScenes /\ scene \in Nat
  /\ gameWindows \in Seq([of : Nat, key : Panels!Keys, visible : BOOLEAN])
  /\ \A j \in DOMAIN gameWindows : gameWindows[j].of <= scene
  /\ phase = "off" <=> ~chat.exists
  /\ phase = "off" <=> ~panelBar.exists

LEMMA PanelBoundsFirst == Panels!Init => PanelBounds
<1> SUFFICES ASSUME Panels!Init PROVE PanelBounds
  OBVIOUS
<1>1. /\ eventBusy = FALSE /\ phase = "off" /\ scene = 0 /\ gameWindows = <<>>
      /\ chat = Panels!NoPanel /\ panelBar = Panels!NoPanel
  BY DEF Panels!Init
<1>2. scene \in 0..MaxMapScenes /\ scene \in Nat
  BY <1>1, BoundsAssumption
<1>3. ~chat.hiddenByEvent /\ ~panelBar.hiddenByEvent /\ ~chat.exists /\ ~panelBar.exists
  BY <1>1 DEF Panels!NoPanel
<1>4. gameWindows \in Seq([of : Nat, key : Panels!Keys, visible : BOOLEAN]) /\ DOMAIN gameWindows = {}
  BY <1>1
<1> QED BY <1>1, <1>2, <1>3, <1>4 DEF PanelBounds

LEMMA PanelBoundsKept ==
  PanelsInv /\ PanelBounds /\ [MCNext]_<<part, i, s, t, m, p, c, x, g, v, f, l>> => PanelBounds'
<1> SUFFICES ASSUME PanelsInv, PanelBounds, [MCNext]_<<part, i, s, t, m, p, c, x, g, v, f, l>>
             PROVE  PanelBounds'
  OBVIOUS
<1> DEFINE W == [of : Nat, key : Panels!Keys, visible : BOOLEAN]
<1>1. Panels!Next \/ UNCHANGED m
  BY DEF MCNext
<1>2. /\ chat \in PanelType /\ panelBar \in PanelType /\ eventBusy \in BOOLEAN /\ eventOn \in BOOLEAN
      /\ scene \in Nat /\ gameWindows \in Seq(W) /\ MaxMapScenes \in Nat
  BY BoundsAssumption DEF PanelsInv, PanelBounds
<1>3. CASE UNCHANGED m
  BY <1>3 DEF m, PanelBounds
<1>4. CASE Panels!CreateAllWindows
  <2> DEFINE a == [of |-> scene', key |-> "status", visible |-> FALSE]
             b == [of |-> scene', key |-> "system", visible |-> FALSE]
  <2>1. /\ scene < MaxMapScenes /\ scene' = scene + 1 /\ phase' = "made" /\ UNCHANGED eventBusy
        /\ chat' = Panels!Panel /\ panelBar' = Panels!Panel /\ gameWindows' = gameWindows \o <<a, b>>
    BY <1>4 DEF Panels!CreateAllWindows
  <2>2. a \in W /\ b \in W /\ a.of = scene' /\ b.of = scene'
    BY <1>2, <2>1 DEF Panels!Keys
  <2> HIDE DEF a, b, W
  <2>3. gameWindows' \in Seq(W) /\ \A j \in DOMAIN gameWindows' :
          \/ j \in DOMAIN gameWindows /\ gameWindows'[j] = gameWindows[j]
          \/ gameWindows'[j] \in {a, b}
    <3>1. /\ Len(gameWindows) \in Nat /\ DOMAIN gameWindows = 1..Len(gameWindows)
          /\ DOMAIN gameWindows' = 1..Len(gameWindows) + 2 /\ gameWindows' \in Seq(W)
          /\ \A j \in 1..Len(gameWindows) : gameWindows'[j] = gameWindows[j]
          /\ gameWindows'[Len(gameWindows) + 1] = a /\ gameWindows'[Len(gameWindows) + 2] = b
      BY <1>2, <2>1, <2>2
    <3>2. ASSUME NEW j \in 1..Len(gameWindows) + 2
          PROVE  j \in 1..Len(gameWindows) \/ j \in {Len(gameWindows) + 1, Len(gameWindows) + 2}
      BY <3>1
    <3> QED BY <3>1, <3>2
  <2>4. \A j \in DOMAIN gameWindows' : gameWindows'[j].of <= scene'
    <3>1. \A j \in DOMAIN gameWindows : gameWindows[j] \in W /\ gameWindows[j].of <= scene
      BY <1>2 DEF PanelBounds
    <3>3. \A y \in W : y.of \in Nat
      BY DEF W
    <3> QED BY <1>2, <2>1, <2>2, <2>3, <3>1, <3>3
  <2>5. ~chat'.hiddenByEvent /\ ~panelBar'.hiddenByEvent /\ chat'.exists /\ panelBar'.exists
    BY <2>1 DEF Panels!Panel
  <2> QED BY <1>2, <2>1, <2>3, <2>4, <2>5 DEF PanelBounds, W
<1>5. CASE Panels!Start \/ Panels!Terminate \/ Panels!HidePanels
  <2>1. UNCHANGED <<scene, gameWindows>>
    BY <1>5 DEF Panels!Start, Panels!Terminate, Panels!HidePanels
  <2>2. \A h \in {chat, panelBar}' : h.hiddenByEvent => h.exists /\ eventBusy'
    <3>1. CASE Panels!Start
      BY <1>2, <3>1 DEF Panels!Start, PanelBounds, PanelType
    <3>2. CASE Panels!Terminate
      BY <3>2 DEF Panels!Terminate, Panels!NoPanel
    <3>3. CASE Panels!HidePanels
      <4>1. CASE eventOn
        <5>1. eventBusy' = TRUE /\ chat' = Panels!Hidden(chat) /\ panelBar' = Panels!Hidden(panelBar)
          BY <3>3, <4>1 DEF Panels!HidePanels
        <5>2. chat.exists /\ panelBar.exists
          BY <3>3 DEF Panels!HidePanels, PanelBounds
        <5> QED BY <1>2, <5>1, <5>2 DEF Panels!Hidden, PanelType
      <4>2. CASE ~eventOn
        <5>1. chat' = Panels!Shown(chat) /\ panelBar' = Panels!Shown(panelBar)
          BY <3>3, <4>2 DEF Panels!HidePanels
        <5> QED BY <1>2, <5>1 DEF Panels!Shown, PanelType
      <4> QED BY <4>1, <4>2
    <3> QED BY <1>5, <3>1, <3>2, <3>3
  <2>3. /\ phase' \in {"off", "made", "started"}
        /\ phase' = "off" <=> ~chat'.exists
        /\ phase' = "off" <=> ~panelBar'.exists
    <3>1. /\ phase \in {"off", "made", "started"}
          /\ phase = "off" <=> ~chat.exists
          /\ phase = "off" <=> ~panelBar.exists
      BY DEF PanelBounds
    <3>2. CASE Panels!Start
      BY <1>2, <3>1, <3>2 DEF Panels!Start, PanelType
    <3>3. CASE Panels!Terminate
      BY <3>3 DEF Panels!Terminate, Panels!NoPanel
    <3>4. CASE Panels!HidePanels
      <4>1. \A h \in PanelType : Panels!Hidden(h).exists = h.exists /\ Panels!Shown(h).exists = h.exists
        BY DEF Panels!Hidden, Panels!Shown, PanelType
      <4>2. chat'.exists = chat.exists /\ panelBar'.exists = panelBar.exists /\ phase' = phase
        BY <1>2, <3>4, <4>1 DEF Panels!HidePanels
      <4> QED BY <3>1, <4>2
    <3> QED BY <1>5, <3>2, <3>3, <3>4
  <2> QED BY <2>1, <2>2, <2>3 DEF PanelBounds
<1>6. CASE Panels!Event \/ Panels!Enter \/ Panels!Blur
  BY <1>6 DEF Panels!Event, Panels!Enter, Panels!Blur, PanelBounds
<1>7. CASE Panels!Trigger \/ Panels!Escape
  <2>1. UNCHANGED <<eventBusy, phase, scene, chat, panelBar>>
    BY <1>7 DEF Panels!Trigger, Panels!Escape
  <2>2. PICK j, b :
          /\ gameWindows' = [gameWindows EXCEPT ![j].visible = b]
          /\ b \in BOOLEAN \/ b = ~gameWindows[j].visible
    <3>1. FALSE \in BOOLEAN
      OBVIOUS
    <3> QED BY <1>7, <3>1 DEF Panels!Trigger, Panels!Escape, Panels!Toggle
  <2>3. /\ DOMAIN gameWindows' = DOMAIN gameWindows /\ gameWindows' \in Seq(W)
        /\ \A h \in DOMAIN gameWindows : gameWindows'[h].of = gameWindows[h].of
    <3> HIDE DEF W
    <3>1. gameWindows \in [1..Len(gameWindows) -> W] /\ Len(gameWindows) \in Nat
      BY <1>2
    <3>2. ASSUME j \in 1..Len(gameWindows)
          PROVE  /\ [gameWindows[j] EXCEPT !.visible = b] \in W
                 /\ [gameWindows[j] EXCEPT !.visible = b].of = gameWindows[j].of
      <4>1. gameWindows[j] \in W /\ gameWindows[j].visible \in BOOLEAN
        BY <3>1, <3>2 DEF W
      <4>2. b \in BOOLEAN
        BY <2>2, <4>1
      <4> QED BY <4>1, <4>2 DEF W
    <3>3. gameWindows' \in [1..Len(gameWindows) -> W]
      BY <2>2, <3>1, <3>2
    <3> QED BY <2>2, <3>1, <3>2, <3>3
  <2> QED BY <2>1, <2>3 DEF PanelBounds
<1> QED BY <1>1, <1>3, <1>4, <1>5, <1>6, <1>7 DEF Panels!Next

LEMMA PanelsTyped == PanelsInv /\ PanelBounds => Panels!TypeOK
<1> SUFFICES ASSUME PanelsInv, PanelBounds PROVE Panels!TypeOK
  OBVIOUS
<1>1. chat.exists \in BOOLEAN
  BY DEF PanelsInv, PanelType
<1>2. (phase = "off") = ~chat.exists
  BY <1>1 DEF PanelBounds
<1> QED BY <1>2 DEF PanelBounds, Panels!TypeOK

-----------------------------------------------------------------------------
\* No experience below nothing, and every goroutine is of a session there has been.
Some(r) == r.exp >= 0

ExpBounds ==
  /\ Some(row) /\ \A k \in 1..MaxSessions : Some(sess[k])
  /\ unsaved \subseteq ((1..sessions) \ {online})
  /\ \A k \in 1..MaxKills :
       award[k].s \in 0..sessions /\ (award[k].at \in {"level", "exp"} => Some(award[k].got))
  /\ \A k \in 1..MaxDeaths :
       death[k].s \in 0..sessions /\ (death[k].at # "idle" => Some(death[k].got))

LEMMA ExpBoundsFirst == Exp!Init => ExpBounds
<1> SUFFICES ASSUME Exp!Init PROVE ExpBounds
  OBVIOUS
<1>1. /\ row.exp = 0 /\ sess = [k \in 1..MaxSessions |-> row] /\ sessions = 0 /\ unsaved = {}
      /\ \A k \in 1..MaxKills : award[k].s = 0 /\ award[k].at = "idle"
      /\ \A k \in 1..MaxDeaths : death[k].s = 0 /\ death[k].at = "idle"
  BY DEF Exp!Init, Exp!Start, Exp!Kills, Exp!Deaths, Exp!Idle
<1>2. Some(row) /\ \A k \in 1..MaxSessions : Some(sess[k])
  BY <1>1 DEF Some
<1> QED BY <1>1, <1>2 DEF ExpBounds

LEMMA ExpBoundsAward ==
  ASSUME ExpInv, ExpBounds, NEW d \in Exp!Kills,
         Exp!Kill(d) \/ Exp!Award(d) \/ Exp!AwardFails(d) \/ Exp!SyncLevel(d) \/ Exp!SyncExp(d)
  PROVE  ExpBounds'
<1> DEFINE A == [s : Int, at : {"idle", "tx", "level", "exp"}, got : Stats]
           a == award[d]
<1>1. /\ d \in 1..MaxKills /\ award \in [1..MaxKills -> A] /\ row \in Stats
      /\ sess \in [1..MaxSessions -> Stats] /\ sessions \in 0..MaxSessions /\ online \in 0..sessions
  BY DEF ExpInv, ExpTypes, Exp!Kills
<1>2. a \in A /\ a.s \in 0..sessions /\ (a.at \in {"level", "exp"} => Some(a.got))
  BY <1>1 DEF ExpBounds
<1>3. ASSUME NEW n, award' = [award EXCEPT ![d] = n], n.s \in 0..sessions,
             n.at \in {"level", "exp"} => Some(n.got), Some(row'),
             \A k \in 1..MaxSessions : Some(sess'[k]), UNCHANGED <<unsaved, online, sessions, death>>
      PROVE  ExpBounds'
  <2>1. \A k \in 1..MaxKills : award'[k] = IF k = d THEN n ELSE award[k]
    BY <1>1, <1>3
  <2> QED BY <1>3, <2>1 DEF ExpBounds, Some
<1>4. Some(row) /\ \A k \in 1..MaxSessions : Some(sess[k])
  BY DEF ExpBounds
<1>5. CASE Exp!Kill(d)
  <2>1. /\ award' = [award EXCEPT ![d] = [[s |-> 0, at |-> "idle", got |-> Exp!Start]
                                           EXCEPT !.s = online, !.at = "tx"]]
        /\ UNCHANGED <<row, sess, unsaved, online, sessions, death>>
    BY <1>5 DEF Exp!Kill, Exp!Idle
  <2> DEFINE n == [[s |-> 0, at |-> "idle", got |-> Exp!Start] EXCEPT !.s = online, !.at = "tx"]
  <2>2. n.s = online /\ n.at = "tx"
    OBVIOUS
  <2>3. award' = [award EXCEPT ![d] = n]
    BY <2>1
  <2> HIDE DEF n
  <2> QED BY <1>1, <1>3, <1>4, <2>1, <2>2, <2>3
<1>6. CASE Exp!Award(d)
  <2>1. /\ a.at = "tx" /\ row' = Exp!Awarded(row)
        /\ award' = [award EXCEPT ![d].at = "level", ![d].got = row']
        /\ UNCHANGED <<sess, unsaved, online, sessions, death>>
    BY <1>6 DEF Exp!Award
  <2>2. row'.exp = row.exp + Gain
    BY <2>1 DEF Exp!Awarded
  <2>3. Some(row')
    BY <1>1, <1>4, <2>2, ConstantsAssumption DEF Some, Stats
  <2>4. award' = [award EXCEPT ![d] = [a EXCEPT !.at = "level", !.got = row']]
    BY <1>1, <2>1
  <2>5. [a EXCEPT !.at = "level", !.got = row'].s = a.s
        /\ [a EXCEPT !.at = "level", !.got = row'].got = row'
    BY <1>2
  <2> QED BY <1>2, <1>3, <1>4, <2>1, <2>3, <2>4, <2>5
<1>7. CASE Exp!AwardFails(d)
  <2>1. /\ award' = [award EXCEPT ![d] = [a EXCEPT !.at = "idle"]]
        /\ UNCHANGED <<row, sess, unsaved, online, sessions, death>>
    BY <1>7 DEF Exp!AwardFails
  <2>2. [a EXCEPT !.at = "idle"].s = a.s /\ [a EXCEPT !.at = "idle"].at = "idle"
    BY <1>2
  <2> QED BY <1>2, <1>3, <1>4, <2>1, <2>2
<1>8. ASSUME NEW y,
             sess' = [sess EXCEPT ![a.s] = y], a.s \in 1..MaxSessions => Some(y)
      PROVE  \A k \in 1..MaxSessions : Some(sess'[k])
  <2>1. \A k \in 1..MaxSessions : sess'[k] = IF k = a.s THEN y ELSE sess[k]
    BY <1>1, <1>8
  <2> QED BY <1>4, <1>8, <2>1
<1>9. CASE Exp!SyncLevel(d)
  <2>1. /\ a.at = "level" /\ sess' = [sess EXCEPT ![a.s] = [sess[a.s] EXCEPT !.level = a.got.level]]
        /\ award' = [award EXCEPT ![d] = [a EXCEPT !.at = "exp"]]
        /\ UNCHANGED <<row, unsaved, online, sessions, death>>
    BY <1>9 DEF Exp!SyncLevel
  <2>2. a.s \in 1..MaxSessions => Some([sess[a.s] EXCEPT !.level = a.got.level])
    BY <1>1, <1>4 DEF Some, Stats
  <2>3. [a EXCEPT !.at = "exp"].s = a.s /\ [a EXCEPT !.at = "exp"].got = a.got
    BY <1>2
  <2>4. \A k \in 1..MaxSessions : Some(sess'[k])
    BY <1>8, <2>1, <2>2
  <2> QED BY <1>2, <1>3, <1>4, <2>1, <2>3, <2>4
<1>10. CASE Exp!SyncExp(d)
  <2>1. /\ a.at = "exp" /\ sess' = [sess EXCEPT ![a.s] = [sess[a.s] EXCEPT !.exp = a.got.exp]]
        /\ award' = [award EXCEPT ![d] = [[s |-> 0, at |-> "idle", got |-> Exp!Start] EXCEPT !.s = a.s]]
        /\ UNCHANGED <<row, unsaved, online, sessions, death>>
    BY <1>10 DEF Exp!SyncExp, Exp!Idle
  <2>2. a.s \in 1..MaxSessions => Some([sess[a.s] EXCEPT !.exp = a.got.exp])
    BY <1>1, <1>2, <2>1 DEF Some, Stats
  <2>3. [[s |-> 0, at |-> "idle", got |-> Exp!Start] EXCEPT !.s = a.s]
          = [s |-> a.s, at |-> "idle", got |-> Exp!Start]
    OBVIOUS
  <2>4. \A k \in 1..MaxSessions : Some(sess'[k])
    BY <1>8, <2>1, <2>2
  <2> QED BY <1>2, <1>3, <1>4, <2>1, <2>3, <2>4
<1> QED BY <1>5, <1>6, <1>7, <1>9, <1>10
LEMMA ExpBoundsDeath ==
  ASSUME ExpInv, ExpBounds, NEW d \in Exp!Deaths,
         Exp!Penalty(d) \/ Exp!PenaltySet(d) \/ Exp!PenaltyRow(d)
  PROVE  ExpBounds'
<1> DEFINE D == [s : Int, at : {"idle", "set", "row"}, got : Stats]
           a == death[d]
<1>1. /\ d \in 1..MaxDeaths /\ death \in [1..MaxDeaths -> D] /\ row \in Stats
      /\ sess \in [1..MaxSessions -> Stats] /\ sessions \in 0..MaxSessions /\ online \in 0..sessions
  BY DEF ExpInv, ExpTypes, Exp!Deaths
<1>2. a \in D /\ a.s \in 0..sessions /\ (a.at # "idle" => Some(a.got))
  BY <1>1 DEF ExpBounds
<1>3. ASSUME NEW n, death' = [death EXCEPT ![d] = n], n.s \in 0..sessions,
             n.at # "idle" => Some(n.got), Some(row'),
             \A k \in 1..MaxSessions : Some(sess'[k]), UNCHANGED <<unsaved, online, sessions, award>>
      PROVE  ExpBounds'
  <2>1. \A k \in 1..MaxDeaths : death'[k] = IF k = d THEN n ELSE death[k]
    BY <1>1, <1>3
  <2> QED BY <1>3, <2>1 DEF ExpBounds, Some
<1>4. Some(row) /\ \A k \in 1..MaxSessions : Some(sess[k])
  BY DEF ExpBounds
<1>5. CASE Exp!Penalty(d)
  <2> DEFINE y == sess[online].exp
             z == (y * Percent) \div 100
             w == IF y < z THEN 0 ELSE y - z
             n == [s |-> online, at |-> "set", got |-> [[exp |-> 0, level |-> 1] EXCEPT !.exp = w]]
  <2>1. /\ online # 0 /\ death' = [death EXCEPT ![d] = n]
        /\ UNCHANGED <<row, sess, unsaved, online, sessions, award>>
    BY <1>5, Zenon DEF Exp!Penalty, Exp!Start
  <2>2. online \in 1..MaxSessions
    BY <1>1, <2>1, ConstantsAssumption
  <2>3. y \in Int
    BY <1>1, <2>2 DEF Stats
  <2> HIDE DEF y
  <2>4. y * Percent \in Int
    BY <2>3, ConstantsAssumption
  <2>5. z \in Int
    BY <2>4
  <2> HIDE DEF z
  <2>6. w >= 0
    BY <2>3, <2>5
  <2> HIDE DEF w
  <2>7. n.s = online /\ Some(n.got)
    BY <2>6 DEF Some
  <2> HIDE DEF n
  <2> QED BY <1>1, <1>3, <1>4, <2>1, <2>7
<1>6. CASE Exp!PenaltySet(d)
  <2>1. /\ a.at = "set" /\ sess' = [sess EXCEPT ![a.s] = [sess[a.s] EXCEPT !.exp = a.got.exp]]
        /\ death' = [death EXCEPT ![d] = [a EXCEPT !.at = "row"]]
        /\ UNCHANGED <<row, unsaved, online, sessions, award>>
    BY <1>6 DEF Exp!PenaltySet
  <2>2. a.s \in 1..MaxSessions => Some([sess[a.s] EXCEPT !.exp = a.got.exp])
    BY <1>1, <1>2, <2>1 DEF Some, Stats
  <2>3. [a EXCEPT !.at = "row"].s = a.s /\ [a EXCEPT !.at = "row"].got = a.got
    BY <1>2
  <2>4. \A k \in 1..MaxSessions : sess'[k] = IF k = a.s THEN [sess[a.s] EXCEPT !.exp = a.got.exp] ELSE sess[k]
    BY <1>1, <2>1
  <2>5. \A k \in 1..MaxSessions : Some(sess'[k])
    BY <1>4, <2>2, <2>4
  <2> QED BY <1>2, <1>3, <1>4, <2>1, <2>3, <2>5
<1>7. CASE Exp!PenaltyRow(d)
  <2>1. /\ a.at = "row" /\ row' = [row EXCEPT !.exp = a.got.exp]
        /\ death' = [death EXCEPT ![d] = [[s |-> 0, at |-> "idle", got |-> Exp!Start] EXCEPT !.s = a.s]]
        /\ UNCHANGED <<sess, unsaved, online, sessions, award>>
    BY <1>7 DEF Exp!PenaltyRow, Exp!Idle
  <2>2. Some(row')
    BY <1>1, <1>2, <2>1 DEF Some, Stats
  <2>3. [[s |-> 0, at |-> "idle", got |-> Exp!Start] EXCEPT !.s = a.s]
          = [s |-> a.s, at |-> "idle", got |-> Exp!Start]
    OBVIOUS
  <2> QED BY <1>2, <1>3, <1>4, <2>1, <2>2, <2>3
<1> QED BY <1>5, <1>6, <1>7

LEMMA ExpBoundsSession ==
  ASSUME ExpInv, ExpBounds,
         Exp!Login \/ Exp!Disconnect \/ \E k \in 1..MaxSessions : Exp!SaveRow(k)
  PROVE  ExpBounds'
<1>1. /\ sess \in [1..MaxSessions -> Stats] /\ sessions \in 0..MaxSessions /\ online \in 0..sessions
      /\ MaxSessions \in Nat
  BY ConstantsAssumption DEF ExpInv, ExpTypes
<1>2. /\ Some(row) /\ \A k \in 1..MaxSessions : Some(sess[k])
      /\ unsaved \subseteq ((1..sessions) \ {online})
      /\ \A k \in 1..MaxKills : award[k].s \in 0..sessions
      /\ \A k \in 1..MaxDeaths : death[k].s \in 0..sessions
  BY DEF ExpBounds
<1>3. CASE Exp!Login
  <2>1. /\ online = 0 /\ sessions' = sessions + 1 /\ online' = sessions + 1
        /\ sess' = [sess EXCEPT ![sessions + 1] = row]
        /\ UNCHANGED <<row, unsaved, award, death>>
    BY <1>3 DEF Exp!Login
  <2>2. \A k \in 1..MaxSessions : sess'[k] \in {sess[k], row}
    BY <1>1, <2>1
  <2>3. \A k \in 1..MaxSessions : Some(sess'[k])
    BY <1>2, <2>2
  <2>4. unsaved' \subseteq ((1..sessions') \ {online'})
    BY <1>1, <1>2, <2>1
  <2>5. \A k \in 0..sessions : k \in 0..sessions'
    BY <1>1, <2>1
  <2> QED BY <1>2, <2>1, <2>3, <2>4, <2>5 DEF ExpBounds, Some
<1>4. CASE Exp!Disconnect
  <2>1. /\ online # 0 /\ online' = 0 /\ unsaved' = unsaved \union {online}
        /\ UNCHANGED <<row, sess, sessions, award, death>>
    BY <1>4 DEF Exp!Disconnect
  <2>2. ASSUME NEW k \in unsaved' PROVE k \in 1..sessions /\ k # 0
    <3>1. k \in unsaved \/ k = online
      BY <2>1
    <3>2. online \in 1..sessions
      BY <1>1, <2>1
    <3>3. k \in 1..sessions
      BY <1>2, <3>1, <3>2
    <3> QED BY <1>1, <3>3
  <2>3. unsaved' \subseteq ((1..sessions') \ {online'})
    BY <2>1, <2>2
  <2> QED BY <2>1, <2>3 DEF ExpBounds, Some
<1>5. ASSUME NEW k \in 1..MaxSessions, Exp!SaveRow(k) PROVE ExpBounds'
  <2>1. /\ row' = sess[k] /\ unsaved' \subseteq unsaved
        /\ UNCHANGED <<sess, online, sessions, award, death>>
    BY <1>5 DEF Exp!SaveRow
  <2>2. Some(row') /\ unsaved' \subseteq ((1..sessions) \ {online})
    BY <1>2, <2>1
  <2> QED BY <2>1, <2>2 DEF ExpBounds, Some
<1> QED BY <1>3, <1>4, <1>5

LEMMA ExpBoundsKept ==
  ExpInv /\ ExpBounds /\ [MCNext]_<<part, i, s, t, m, p, c, x, g, v, f, l>> => ExpBounds'
<1> SUFFICES ASSUME ExpInv, ExpBounds, [MCNext]_<<part, i, s, t, m, p, c, x, g, v, f, l>>
             PROVE  ExpBounds'
  OBVIOUS
<1>1. Exp!Next \/ UNCHANGED x
  BY DEF MCNext
<1>2. CASE UNCHANGED <<row, sess, online, sessions, unsaved, award, death>>
  BY <1>2 DEF ExpBounds, Some
<1>3. UNCHANGED x => UNCHANGED <<row, sess, online, sessions, unsaved, award, death>>
  BY DEF x
<1>4. Exp!OnMapInit \/ Exp!OnExpGain \/ Exp!LeaveScene \/ Exp!CreateBar =>
        UNCHANGED <<row, sess, online, sessions, unsaved, award, death>>
  BY DEF Exp!OnMapInit, Exp!OnExpGain, Exp!LeaveScene, Exp!CreateBar
<1>5. CASE Exp!Next
  BY <1>2, <1>4, <1>5, ExpBoundsAward, ExpBoundsDeath, ExpBoundsSession DEF Exp!Next
<1> QED BY <1>1, <1>2, <1>3, <1>5

LEMMA ExpTyped == ExpInv /\ ExpBounds => Exp!TypeOK
<1> SUFFICES ASSUME ExpInv, ExpBounds PROVE Exp!TypeOK
  OBVIOUS
<1>1. row \in Stats /\ row.exp <= earned /\ row.exp >= 0 /\ earned \in Nat /\ online \in 0..sessions
  BY DEF ExpInv, ExpTypes, Granted, ExpBounds, Some
<1>2. row.exp \in 0..earned /\ row.level \in 1..99
  BY <1>1 DEF Stats
<1> QED BY <1>1, <1>2 DEF Exp!TypeOK, ExpBounds, Exp!Kills, Exp!Deaths

-----------------------------------------------------------------------------
\* The values of q are among the first n.
Among(q, n) == \A k \in 1..Len(q) : q[k].value \in 1..n

Batched(b, n) == Len(b) \in 1..BatchSize /\ Among(b, n)

\* A flush makes no empty batch and none that is too long.
LEMMA BatchesFit ==
  ASSUME NEW q \in Seq(Changed), NEW n \in Nat, Among(q, n)
  PROVE  \A j \in 1..Len(Vars!Batches(q)) : Batched(Vars!Batches(q)[j], n)
<1> DEFINE h == Len(q)
           count == (h + BatchSize - 1) \div BatchSize
           end(j) == IF j < count THEN j * BatchSize ELSE h
           low(j) == (j - 1) * BatchSize
<1>1. h \in Nat /\ BatchSize \in Nat /\ BatchSize >= 1 /\ h + BatchSize - 1 \in Nat
  BY ConstantsAssumption
<1>2. /\ count \in Nat /\ count * BatchSize <= h + BatchSize - 1
      /\ h + BatchSize - 1 < count * BatchSize + BatchSize
  BY <1>1
<1>3. Vars!Batches(q) = [j \in 1..count |-> SubSeq(q, low(j) + 1, end(j))]
  BY DEF Vars!Batches
<1>4. ASSUME NEW j \in 1..count
      PROVE  low(j) \in Nat /\ end(j) \in Nat /\ end(j) <= h /\ end(j) - low(j) \in 1..BatchSize
  <2> HIDE DEF count, h
  <2>1. j \in Int /\ j >= 1 /\ j <= count /\ low(j) = j * BatchSize - BatchSize
    BY <1>1, <1>2
  <2>2. j * BatchSize \in Nat /\ j * BatchSize >= BatchSize /\ count * BatchSize \in Nat
    BY <1>1, <1>2, <2>1
  <2>3. CASE j < count
    <3>1. (j + 1) * BatchSize <= count * BatchSize
      BY <1>1, <1>2, <2>1, <2>3
    <3>2. (j + 1) * BatchSize = j * BatchSize + BatchSize
      BY <1>1, <2>1
    <3>3. j * BatchSize <= h
      BY <1>1, <1>2, <2>2, <3>1, <3>2
    <3> QED BY <1>1, <2>1, <2>2, <2>3, <3>3
  <2>4. CASE j = count
    <3>1. end(j) = h /\ low(j) = count * BatchSize - BatchSize
      BY <1>2, <2>1, <2>4
    <3>2. count * BatchSize >= BatchSize
      BY <2>2, <2>4
    <3> QED BY <1>1, <1>2, <2>2, <3>1, <3>2
  <2> QED BY <1>2, <2>1, <2>3, <2>4
<1> HIDE DEF count, end, low, h
<1>5. ASSUME NEW j \in 1..count PROVE Batched(SubSeq(q, low(j) + 1, end(j)), n)
  <2> DEFINE b == SubSeq(q, low(j) + 1, end(j))
  <2>1. low(j) \in Nat /\ end(j) \in Nat /\ end(j) <= Len(q) /\ end(j) - low(j) \in 1..BatchSize
    BY <1>4 DEF h
  <2>2. Len(b) = end(j) - low(j) /\ \A k \in 1..Len(b) : b[k] = q[low(j) + k]
    BY <2>1
  <2>3. \A k \in 1..Len(b) : low(j) + k \in 1..Len(q)
    BY <2>1, <2>2
  <2> QED BY <2>1, <2>2, <2>3 DEF Batched, Among
<1>6. Len(Vars!Batches(q)) = count
  BY <1>2, <1>3
<1> QED BY <1>3, <1>5, <1>6

\* Every value has been counted; a change waits for an event once; a timeout is for a change.
VarsBounds ==
  /\ values \in 0..MaxValues /\ timeouts <= values
  /\ page \in {"loading", "listening", "hooked"} /\ connected \in BOOLEAN /\ own \subseteq Events
  /\ stored[0] <= values /\ \A e \in Events : local[e] <= values
  /\ Among(queued, values) /\ Among(toPage, values)
  /\ \A j, k \in 1..Len(queued) : j # k => queued[j].event # queued[k].event
  /\ \A j \in 1..Len(toServer) : Batched(toServer[j], values)

LEMMA VarsBoundsFirst == Vars!Init => VarsBounds
<1> SUFFICES ASSUME Vars!Init PROVE VarsBounds
  OBVIOUS
<1>1. /\ values = 0 /\ timeouts = 0 /\ page = "loading" /\ connected = FALSE /\ own = {}
      /\ stored[0] = 0 /\ \A e \in Events : local[e] = 0
      /\ queued = <<>> /\ toPage = <<>> /\ toServer = <<>>
  BY DEF Vars!Init, Vars!Unnamed
<1>2. Len(<<>>) = 0 /\ MaxValues \in Nat
  BY BoundsAssumption
<1>3. connected \in BOOLEAN
  BY <1>1
<1> QED BY <1>1, <1>2, <1>3 DEF VarsBounds, Among

\* What is bounded stays so when more values have been counted.
LEMMA AmongMore ==
  ASSUME VarsInv, VarsBounds, NEW n \in Nat, values <= n
  PROVE  /\ Among(queued, n) /\ Among(toPage, n) /\ stored[0] <= n /\ timeouts <= n
         /\ \A e \in Events : local[e] <= n
         /\ \A j \in 1..Len(toServer) : Batched(toServer[j], n)
<1>1. /\ values \in Nat /\ timeouts \in Nat /\ stored[0] \in Nat /\ \A e \in Events : local[e] \in Nat
  BY DEF VarsInv, VarTypes, FlushDue
<1>2. \A k \in 1..values : k \in 1..n
  BY <1>1
<1>3. \A q : Among(q, values) => Among(q, n)
  BY <1>2 DEF Among
<1>4. \A q : Batched(q, values) => Batched(q, n)
  BY <1>3 DEF Batched
<1> QED BY <1>1, <1>3, <1>4 DEF VarsBounds

LEMMA VarsBoundsFlush ==
  ASSUME VarsInv, VarsBounds, Vars!Timeout \/ Vars!Terminate
  PROVE  VarsBounds'
<1> DEFINE B == Vars!Batches(queued)
<1>1. /\ UNCHANGED <<local, values, stored, toPage, own, page, connected>>
      /\ queued' = <<>> /\ toServer' \in {toServer, toServer \o B}
      /\ timeouts' \in {timeouts, timeouts - 1}
  BY DEF Vars!Timeout, Vars!Terminate, Vars!FlushChanges
<1>2. /\ queued \in Seq(Changed) /\ toServer \in Seq(Seq(Changed)) /\ values \in Nat /\ timeouts \in Nat
  BY DEF VarsInv, VarTypes, FlushDue
<1>3. B \in Seq(Seq(Changed)) /\ \A j \in 1..Len(B) : Batched(B[j], values)
  BY <1>2, BatchesTyped, BatchesFit DEF VarsBounds
<1> HIDE DEF B
<1>4. \A j \in 1..Len(toServer \o B) :
        (toServer \o B)[j] = IF j <= Len(toServer) THEN toServer[j] ELSE B[j - Len(toServer)]
  BY <1>2, <1>3
<1>5. ASSUME NEW j \in 1..Len(toServer \o B) PROVE Batched((toServer \o B)[j], values)
  <2>1. Len(toServer) \in Nat /\ Len(B) \in Nat /\ Len(toServer \o B) = Len(toServer) + Len(B)
    BY <1>2, <1>3
  <2>2. j \in 1..Len(toServer) \/ (j > Len(toServer) /\ j - Len(toServer) \in 1..Len(B))
    BY <2>1
  <2>3. CASE j \in 1..Len(toServer)
    BY <1>4, <2>1, <2>3 DEF VarsBounds
  <2>4. CASE j > Len(toServer) /\ j - Len(toServer) \in 1..Len(B)
    BY <1>3, <1>4, <2>1, <2>4
  <2> QED BY <2>2, <2>3, <2>4
<1>6. \A j \in 1..Len(toServer') : Batched(toServer'[j], values)
  BY <1>1, <1>5 DEF VarsBounds
<1>7. timeouts' <= values
  <2>1. timeouts <= values
    BY DEF VarsBounds
  <2> QED BY <1>1, <1>2, <2>1
<1>8. Len(queued') = 0
  BY <1>1
<1> QED BY <1>1, <1>6, <1>7, <1>8 DEF VarsBounds, Among, Batched

LEMMA VarsBoundsSet ==
  ASSUME VarsInv, VarsBounds, NEW e \in Events, Vars!SetVariableValue(e)
  PROVE  VarsBounds'
<1> DEFINE new == [event |-> e, value |-> values']
           n == values + 1
           Q == [k \in 1..Len(queued) |-> IF queued[k].event = e THEN new ELSE queued[k]]
           Fits(q) == Among(q, n) /\ \A j, k \in 1..Len(q) : j # k => q[j].event # q[k].event
<1>1. /\ values < MaxValues /\ values' = n /\ local' = [local EXCEPT ![e] = n]
      /\ own' = own \union {e} /\ UNCHANGED <<toServer, toPage, stored, page, connected>>
      /\ timeouts' \in {timeouts, timeouts + 1}
      /\ queued' \in {queued, Vars!Queued(new)}
  BY DEF Vars!SetVariableValue, Vars!QueueChange
<1>2. /\ queued \in Seq(Changed) /\ values \in Nat /\ timeouts \in Nat /\ local \in [Events -> Nat]
      /\ DOMAIN queued = 1..Len(queued) /\ Len(queued) \in Nat /\ MaxValues \in Nat
  BY BoundsAssumption DEF VarsInv, VarTypes, FlushDue
<1>3. /\ Among(queued, n) /\ Among(toPage, n) /\ stored[0] <= n
      /\ \A h \in Events : local[h] <= n
      /\ \A j \in 1..Len(toServer) : Batched(toServer[j], n)
  <2>1. n \in Nat /\ values <= n
    BY <1>2
  <2> HIDE DEF n
  <2> QED BY <2>1, AmongMore
<1>4. n \in 0..MaxValues /\ n \in 1..n /\ timeouts' <= n
  BY <1>1, <1>2 DEF VarsBounds
<1>5. /\ own' \subseteq Events /\ \A h \in Events : local'[h] <= n
  BY <1>1, <1>2, <1>3, <1>4 DEF VarsBounds
<1>6. new.event = e /\ new.value = n
  BY <1>1
<1> HIDE DEF n, new
<1>7. ASSUME \E k \in DOMAIN queued : queued[k].event = e PROVE Fits(Vars!Queued(new))
  <2>1. Vars!Queued(new) = Q
    BY <1>2, <1>6, <1>7, ZenonT(30) DEF Vars!Queued
  <2>2. Len(Q) = Len(queued) /\ \A k \in 1..Len(queued) : Q[k].event = queued[k].event
    BY <1>2, <1>6
  <2>3. \A k \in 1..Len(queued) : Q[k].value \in {n, queued[k].value}
    BY <1>6
  <2> HIDE DEF Q
  <2>4. Among(Q, n)
    BY <1>3, <1>4, <2>2, <2>3 DEF Among
  <2>5. \A j, k \in 1..Len(Q) : j # k => Q[j].event # Q[k].event
    BY <2>2 DEF VarsBounds
  <2> QED BY <2>1, <2>4, <2>5
<1>8. ASSUME \A k \in 1..Len(queued) : queued[k].event # e PROVE Fits(Vars!Queued(new))
  <2>1. Vars!Queued(new) = Append(queued, new)
    BY <1>2, <1>6, <1>8, ZenonT(30) DEF Vars!Queued
  <2>2. /\ Len(Append(queued, new)) = Len(queued) + 1 /\ Append(queued, new)[Len(queued) + 1] = new
        /\ \A k \in 1..Len(queued) : Append(queued, new)[k] = queued[k]
        /\ \A k \in 1..Len(queued) + 1 : k \in 1..Len(queued) \/ k = Len(queued) + 1
    BY <1>2
  <2> DEFINE A == Append(queued, new)
  <2>3. A = Append(queued, new)
    OBVIOUS
  <2> HIDE DEF A
  <2>4. /\ Len(A) = Len(queued) + 1 /\ A[Len(queued) + 1] = new
        /\ \A k \in 1..Len(queued) : A[k] = queued[k]
    BY <2>2, <2>3
  <2>5. Among(A, n)
    BY <1>3, <1>4, <1>6, <2>2, <2>4 DEF Among
  <2>6. \A j, k \in 1..Len(A) : j # k => A[j].event # A[k].event
    BY <1>6, <1>8, <2>2, <2>4 DEF VarsBounds
  <2> QED BY <2>1, <2>3, <2>5, <2>6
<1>9. Fits(Vars!Queued(new)) /\ Fits(queued)
  <2>1. Fits(queued)
    BY <1>3 DEF VarsBounds
  <2> QED BY <1>2, <1>7, <1>8, <2>1
<1>10. /\ Among(queued', n)
       /\ \A j, k \in 1..Len(queued') : j # k => queued'[j].event # queued'[k].event
  BY <1>1, <1>9
<1>11. \A j \in 1..Len(toServer') : Batched(toServer'[j], values')
  BY <1>1, <1>3
<1>12. Among(queued', values') /\ Among(toPage', values')
  BY <1>1, <1>3, <1>10
<1>13. connected' \in BOOLEAN /\ page' \in {"loading", "listening", "hooked"}
  BY <1>1 DEF VarsBounds
<1> QED BY <1>1, <1>3, <1>4, <1>5, <1>10, <1>11, <1>12, <1>13 DEF VarsBounds, Among, Batched

LEMMA VarsBoundsBatch ==
  ASSUME VarsInv, VarsBounds, Vars!HandleSelfVarSetBatch
  PROVE  VarsBounds'
<1> DEFINE a == Head(toServer)
           set(e) == {k \in DOMAIN a : Vars!Decoded(a[k]).event = e}
           latest(e) == CHOOSE k \in set(e) : \A j \in set(e) : j <= k
<1>1. /\ toServer # <<>> /\ toServer' = Tail(toServer)
      /\ stored' = [e \in DOMAIN stored |-> IF set(e) = {} THEN stored[e] ELSE a[latest(e)].value]
      /\ UNCHANGED <<local, own, values, queued, toPage, timeouts, page, connected>>
  BY DEF Vars!HandleSelfVarSetBatch
<1>2. /\ toServer \in Seq(Seq(Changed)) /\ stored \in [Events \union {0} -> Nat] /\ values \in Nat
  BY DEF VarsInv, VarTypes
<1>3. /\ Len(toServer) \in Nat /\ Len(toServer) >= 1 /\ a = toServer[1] /\ a \in Seq(Changed)
      /\ Len(Tail(toServer)) = Len(toServer) - 1
      /\ \A j \in 1..Len(Tail(toServer)) : Tail(toServer)[j] = toServer[j + 1]
  BY <1>1, <1>2
<1> HIDE DEF a
<1>4. \A j \in 1..Len(toServer') : Batched(toServer'[j], values)
  <2>1. \A j \in 1..Len(toServer') : j + 1 \in 1..Len(toServer) /\ toServer'[j] = toServer[j + 1]
    BY <1>1, <1>3
  <2> QED BY <2>1 DEF VarsBounds
<1>5. Len(a) \in Nat /\ DOMAIN a = 1..Len(a) /\ \A k \in 1..Len(a) : a[k].value \in 1..values
  <2>1. 1 \in 1..Len(toServer)
    BY <1>3
  <2>2. Among(a, values)
    BY <1>3, <2>1 DEF VarsBounds, Batched
  <2> QED BY <1>3, <2>2 DEF Among
<1>6. ASSUME set(0) # {} PROVE a[latest(0)].value \in 1..values
  <2>1. set(0) \subseteq 1..Len(a)
    BY <1>5
  <2>2. \A k \in DOMAIN a : Vars!Decoded(a[k]).event = 0
    <3>1. \A k \in DOMAIN a : a[k] \in Changed
      BY <1>3
    <3>2. \A w \in Changed : Vars!Decoded(w).event = 0
      BY DEF Changed, Vars!Decoded, Vars!Unnamed
    <3> QED BY <3>1, <3>2
  <2>3. set(0) = 1..Len(a) /\ Len(a) \in set(0)
    BY <1>5, <1>6, <2>2
  <2>4. \E k \in set(0) : \A j \in set(0) : j <= k
    BY <1>5, <2>3
  <2>5. latest(0) \in set(0)
    <3> HIDE DEF set
    <3> QED BY <2>4
  <2> QED BY <1>5, <2>1, <2>5
<1>7. stored'[0] <= values
  <2>1. stored'[0] = IF set(0) = {} THEN stored[0] ELSE a[latest(0)].value
    <3> HIDE DEF set, latest
    <3> QED BY <1>1, <1>2
  <2>2. stored[0] <= values
    BY DEF VarsBounds
  <2> HIDE DEF set, latest
  <2> QED BY <1>2, <1>6, <2>1, <2>2
<1> HIDE DEF set, latest
<1> QED BY <1>1, <1>4, <1>7 DEF VarsBounds, Among, Batched

LEMMA VarsBoundsTells ==
  ASSUME VarsInv, VarsBounds, NEW e \in Events, Vars!TeSetSelfVariable(e)
  PROVE  VarsBounds'
<1> DEFINE d == [event |-> e, value |-> values']
           n == values + 1
<1>1. /\ values < MaxValues /\ values' = n /\ stored' = [stored EXCEPT ![e] = n]
      /\ toPage' \in {toPage, Append(toPage, d)}
      /\ UNCHANGED <<local, own, queued, timeouts, toServer, page, connected>>
  BY DEF Vars!TeSetSelfVariable
<1>2. /\ toPage \in Seq(Changed) /\ values \in Nat /\ stored \in [Events \union {0} -> Nat]
      /\ MaxValues \in Nat /\ e # 0
  BY BoundsAssumption, ConstantsAssumption DEF VarsInv, VarTypes
<1>3. n \in Nat /\ values <= n /\ n \in 0..MaxValues /\ n \in 1..n
  BY <1>1, <1>2
<1>4. d.value = n
  BY <1>1
<1> HIDE DEF n, d
<1>5. /\ Among(queued, n) /\ Among(toPage, n) /\ stored[0] <= n /\ timeouts <= n
      /\ \A h \in Events : local[h] <= n
      /\ \A j \in 1..Len(toServer) : Batched(toServer[j], n)
  BY <1>3, AmongMore
<1>6. stored'[0] <= n
  BY <1>1, <1>2, <1>5
<1>7. Among(Append(toPage, d), n)
  <2>1. /\ Len(Append(toPage, d)) = Len(toPage) + 1 /\ Append(toPage, d)[Len(toPage) + 1] = d
        /\ \A k \in 1..Len(toPage) : Append(toPage, d)[k] = toPage[k]
        /\ \A k \in 1..Len(toPage) + 1 : k \in 1..Len(toPage) \/ k = Len(toPage) + 1
    BY <1>2
  <2> QED BY <1>3, <1>4, <1>5, <2>1 DEF Among
<1>8. Among(toPage', n)
  BY <1>1, <1>5, <1>7
<1>9. \A j \in 1..Len(toServer') : Batched(toServer'[j], values')
  BY <1>1, <1>5
<1>10. Among(queued', values') /\ Among(toPage', values')
  BY <1>1, <1>5, <1>8
<1>11. connected' \in BOOLEAN /\ page' \in {"loading", "listening", "hooked"} /\ own' \subseteq Events
       /\ \A j, k \in 1..Len(queued') : j # k => queued'[j].event # queued'[k].event
  BY <1>1 DEF VarsBounds
<1>12. values' \in 0..MaxValues /\ timeouts' <= values' /\ stored'[0] <= values'
       /\ \A h \in Events : local'[h] <= values'
  BY <1>1, <1>3, <1>5, <1>6
<1> QED BY <1>9, <1>10, <1>11, <1>12 DEF VarsBounds, Among, Batched

LEMMA VarsBoundsOthers ==
  ASSUME VarsInv, VarsBounds,
         Vars!Poll \/ Vars!Connect \/ Vars!OnSelfVarChange \/ Vars!Break \/ Vars!Reload
  PROVE  VarsBounds'
<1>1. /\ toPage \in Seq(Changed) /\ values \in Nat /\ local \in [Events -> Nat] /\ timeouts \in Nat
  BY DEF VarsInv, VarTypes, FlushDue
<1>2. CASE Vars!Poll \/ Vars!Connect
  <2>1. /\ UNCHANGED <<values, timeouts, own, stored, local, queued, toPage, toServer>>
        /\ page' \in {page, "listening", "hooked"} /\ connected' \in {connected, TRUE}
    BY <1>2 DEF Vars!Poll, Vars!Connect
  <2>2. connected' \in BOOLEAN /\ page' \in {"loading", "listening", "hooked"}
    BY <2>1 DEF VarsBounds
  <2> QED BY <2>1, <2>2 DEF VarsBounds, Among, Batched
<1>3. CASE Vars!OnSelfVarChange
  <2> DEFINE d == Head(toPage)
  <2>1. /\ toPage # <<>> /\ toPage' = Tail(toPage)
        /\ local' \in {local, [local EXCEPT ![d.event] = d.value]} /\ own' \in {own, own \ {d.event}}
        /\ UNCHANGED <<values, timeouts, stored, queued, toServer, page, connected>>
    BY <1>3 DEF Vars!OnSelfVarChange
  <2>2. /\ Len(toPage) \in Nat /\ Len(toPage) >= 1 /\ d = toPage[1] /\ Len(toPage') = Len(toPage) - 1
        /\ \A k \in 1..Len(toPage') : toPage'[k] = toPage[k + 1]
    BY <1>1, <2>1
  <2> HIDE DEF d
  <2>3. 1 \in 1..Len(toPage) /\ \A k \in 1..Len(toPage') : k + 1 \in 1..Len(toPage)
    BY <2>2
  <2>4. d.value \in 1..values /\ Among(toPage', values)
    BY <2>2, <2>3 DEF VarsBounds, Among
  <2>5. d.value <= values
    BY <1>1, <2>4
  <2>6. \A h \in Events : local'[h] \in {local[h], d.value}
    BY <1>1, <2>1
  <2>7. own' \subseteq Events /\ \A h \in Events : local'[h] <= values
    BY <2>1, <2>5, <2>6 DEF VarsBounds
  <2> QED BY <2>1, <2>4, <2>7 DEF VarsBounds, Among, Batched
<1>4. CASE Vars!Break
  <2>1. /\ toServer' = <<>> /\ toPage' = <<>> /\ connected' = FALSE
        /\ UNCHANGED <<values, timeouts, stored, queued, page, local, own>>
    BY <1>4 DEF Vars!Break
  <2>2. Len(toServer') = 0 /\ Len(toPage') = 0 /\ connected' \in BOOLEAN
    BY <2>1
  <2> QED BY <2>1, <2>2 DEF VarsBounds, Among, Batched
<1>5. CASE Vars!Reload
  <2>1. /\ page' = "loading" /\ local' = [e \in Events |-> 0] /\ own' = {} /\ queued' = <<>>
        /\ timeouts' = 0 /\ UNCHANGED <<values, stored, toPage, toServer, connected>>
    BY <1>5 DEF Vars!Reload
  <2>2. /\ Len(queued') = 0 /\ timeouts' <= values /\ own' \subseteq Events
        /\ page' \in {"loading", "listening", "hooked"} /\ \A h \in Events : local'[h] <= values
    BY <1>1, <2>1
  <2> QED BY <2>1, <2>2 DEF VarsBounds, Among, Batched
<1> QED BY <1>2, <1>3, <1>4, <1>5

LEMMA VarsBoundsKept ==
  VarsInv /\ VarsBounds /\ [MCNext]_<<part, i, s, t, m, p, c, x, g, v, f, l>> => VarsBounds'
<1> SUFFICES ASSUME VarsInv, VarsBounds, [MCNext]_<<part, i, s, t, m, p, c, x, g, v, f, l>>
             PROVE  VarsBounds'
  OBVIOUS
<1>1. Vars!Next \/ UNCHANGED v
  BY DEF MCNext
<1>2. CASE UNCHANGED v
  BY <1>2 DEF v, VarsBounds, Among, Batched
<1>3. CASE Vars!Next
  BY <1>3, VarsBoundsFlush, VarsBoundsSet, VarsBoundsBatch, VarsBoundsTells, VarsBoundsOthers
     DEF Vars!Next
<1> QED BY <1>1, <1>2, <1>3

LEMMA VarsTyped == VarsInv /\ VarsBounds => Vars!TypeOK
<1> SUFFICES ASSUME VarsInv, VarsBounds PROVE Vars!TypeOK
  OBVIOUS
<1>1. /\ VarTypes /\ values \in 0..MaxValues /\ MaxValues \in Nat
      /\ timeouts \in Nat /\ timeouts <= values /\ flushTimer \in BOOLEAN /\ connected \in BOOLEAN
  BY BoundsAssumption DEF VarsInv, FlushDue, VarsBounds
<1>2. \A n \in Nat : n <= values => n \in 0..MaxValues
  BY <1>1
<1>3. ASSUME NEW q \in Seq(Changed), Among(q, values) PROVE \A k \in DOMAIN q : q[k] \in Vars!Change
  <2>1. \A k \in DOMAIN q : q[k] \in Changed /\ q[k].value \in 1..values
    BY <1>3 DEF Among
  <2>2. \A k \in 1..values : k \in 1..MaxValues
    BY <1>1
  <2> QED BY <2>1, <2>2 DEF Changed, Vars!Change
<1>4. /\ \A k \in DOMAIN queued : queued[k] \in Vars!Change
      /\ \A k \in DOMAIN toPage : toPage[k] \in Vars!Change
  BY <1>1, <1>3 DEF VarTypes, VarsBounds
<1>5. local \in [Events -> 0..MaxValues]
  <2>1. local \in [Events -> Nat] /\ \A e \in Events : local[e] <= values
    BY <1>1 DEF VarTypes, VarsBounds
  <2> QED BY <1>2, <2>1
<1>6. ASSUME NEW e \in Events PROVE lost[e] \in 0..MaxValues /\ stored[e] \in 0..MaxValues
  <2>1. lost[e] \in Nat /\ stored[e] \in Nat /\ values \in Nat
    BY <1>1 DEF VarTypes
  <2>2. lost[e] <= stored[e] /\ stored[e] <= values
    BY DEF VarsInv, InTurn
  <2> QED BY <1>2, <2>1, <2>2
<1>7. lost \in [Events -> 0..MaxValues] /\ stored \in [Events \union {0} -> 0..MaxValues]
  <2>1. lost \in [Events -> Nat] /\ stored \in [Events \union {0} -> Nat] /\ stored[0] <= values
    BY <1>1 DEF VarTypes, VarsBounds
  <2>2. stored[0] \in 0..MaxValues
    BY <1>2, <2>1
  <2> QED BY <1>6, <2>1, <2>2
<1>8. /\ \A k \in DOMAIN toServer : Len(toServer[k]) \in 1..BatchSize
      /\ \A j, k \in DOMAIN queued : j # k => queued[j].event # queued[k].event
  <2>1. DOMAIN toServer = 1..Len(toServer) /\ DOMAIN queued = 1..Len(queued)
    BY <1>1 DEF VarTypes
  <2> QED BY <2>1 DEF VarsBounds, Batched
<1>9. timeouts \in 0..MaxValues
  BY <1>1, <1>2
<1> QED BY <1>1, <1>4, <1>5, <1>7, <1>8, <1>9 DEF VarsBounds, Vars!TypeOK, Vars!Unnamed

-----------------------------------------------------------------------------
\* Ids are given from 1, and a row of the table has its own.
TiesBounds ==
  /\ ids <= MaxFriendships /\ \A r \in RowsSeen : r.id >= 1
  /\ \A q, r \in friendships : q.id = r.id => q = r

LEMMA TiesBoundsFirst == Ties!Init => TiesBounds
<1> SUFFICES ASSUME Ties!Init PROVE TiesBounds
  OBVIOUS
<1>1. friendships = {} /\ ids = 0 /\ doing = [u \in People |-> [op |-> "idle", row |-> NoRow]]
  BY DEF Ties!Init, Ties!Idle
<1>2. RowsSeen = {}
  BY <1>1 DEF Reading, RowsSeen
<1> QED BY <1>1, <1>2, BoundsAssumption DEF TiesBounds

LEMMA TiesBoundsKept ==
  TiesInv /\ TiesBounds /\ [MCNext]_<<part, i, s, t, m, p, c, x, g, v, f, l>> => TiesBounds'
<1> SUFFICES ASSUME TiesInv, TiesBounds, [MCNext]_<<part, i, s, t, m, p, c, x, g, v, f, l>>
             PROVE  TiesBounds'
  OBVIOUS
<1>1. /\ ids \in Nat /\ ids <= MaxFriendships /\ MaxFriendships \in Nat
      /\ RowsSeen \subseteq FriendRow /\ \A r \in RowsSeen : r.id <= ids /\ r.id >= 1
      /\ \A q, r \in friendships : q.id = r.id => q = r
      /\ friendships \subseteq RowsSeen
  BY BoundsAssumption DEF TiesInv, RowsKept, TiesBounds, RowsSeen
<1>2. \A u \in People : doing[u].op \in {"accept", "block"} => doing[u].row \in RowsSeen
  BY DEF RowsSeen, Reading
<1>3. ASSUME ids' = ids, friendships' \subseteq friendships, RowsSeen' \subseteq RowsSeen
      PROVE  TiesBounds'
  BY <1>1, <1>3 DEF TiesBounds
<1>4. ASSUME NEW n, n.id = ids + 1, ids < MaxFriendships, ids' = ids + 1,
             NEW M, friendships' = M \union {n}, RowsSeen' \subseteq RowsSeen \union M \union {n},
             \A q, r \in M : q.id = r.id => q = r, \A q \in M : q.id \in 1..ids
      PROVE  TiesBounds'
  <2>1. ids' <= MaxFriendships
    BY <1>1, <1>4
  <2>2. \A r \in RowsSeen' : r.id >= 1
    BY <1>1, <1>4
  <2>3. \A q \in M : q.id # n.id
    BY <1>1, <1>4
  <2>4. (\A q, r \in friendships : q.id = r.id => q = r)'
    BY <1>4, <2>3
  <2> QED BY <2>1, <2>2, <2>4 DEF TiesBounds
<1>5. \A q \in friendships : q.id \in 1..ids
  BY <1>1 DEF FriendRow
<1>6. ASSUME NEW u \in People, NEW w \in People, Ties!SendFriendRequest(u, w) PROVE TiesBounds'
  <2> DEFINE n == [id |-> ids + 1, of |-> u, to |-> w, status |-> 0]
  <2>1. ids < MaxFriendships /\ ids' = ids + 1 /\ friendships' = friendships \union {n} /\ doing' = doing
    BY <1>6 DEF Ties!SendFriendRequest, Ties!Pending
  <2>2. RowsSeen' \subseteq RowsSeen \union friendships \union {n} /\ n.id = ids + 1
    BY <2>1 DEF RowsSeen, Reading
  <2> HIDE DEF n
  <2> QED BY <1>1, <1>4, <1>5, <2>1, <2>2
<1>7. ASSUME NEW u \in People, NEW w \in People, Ties!DeleteFriend(u, w) PROVE TiesBounds'
  <2>1. ids' = ids /\ friendships' \subseteq friendships /\ doing' = doing
    BY <1>7 DEF Ties!DeleteFriend
  <2>2. RowsSeen' \subseteq RowsSeen
    BY <2>1 DEF RowsSeen, Reading
  <2> QED BY <1>3, <2>1, <2>2
<1>8. ASSUME NEW u \in People,
             (\E r \in friendships : Ties!FindRequest(u, r)) \/ \E w \in People : Ties!FindRow(u, w)
      PROVE  TiesBounds'
  <2>1. /\ ids' = ids /\ friendships' = friendships
        /\ \/ \E r \in friendships : doing' = [doing EXCEPT ![u] = [op |-> "accept", row |-> r]]
           \/ \E r \in friendships : doing' = [doing EXCEPT ![u] = [op |-> "block", row |-> r]]
           \/ \E w \in People :
                doing' = [doing EXCEPT ![u] = [op |-> "create", row |->
                            [id |-> MaxFriendships, of |-> u, to |-> w, status |-> Ties!Blocked]]]
    BY <1>8 DEF Ties!FindRequest, Ties!FindRow
  <2>2. RowsSeen' \subseteq RowsSeen
    BY <2>1 DEF RowsSeen, Reading, TiesInv, RowsKept, RowsRead
  <2> QED BY <1>3, <2>1, <2>2
<1>9. ASSUME NEW u \in Reading, NEW h \in 1..2, NEW r, r = [doing[u].row EXCEPT !.status = h]
      PROVE  /\ \A q, e \in Ties!Saved(r) : q.id = e.id => q = e
             /\ \A q \in Ties!Saved(r) : q.id \in 1..ids
             /\ Ties!Saved(r) \subseteq friendships \union {r}
  <2>1. r.id = doing[u].row.id /\ doing[u].row \in RowsSeen
    BY <1>9, SavedAgain DEF RowsSeen
  <2>2. r.id \in 1..ids
    BY <1>1, <2>1 DEF FriendRow
  <2> QED BY <1>1, <1>5, <2>2 DEF Ties!Saved
<1>10. ASSUME NEW u \in People, Ties!Accept(u) PROVE TiesBounds'
  <2> DEFINE r == [doing[u].row EXCEPT !.status = 1]
             n == [id |-> ids + 1, of |-> u, to |-> r.of, status |-> 1]
  <2>1. /\ u \in Reading /\ ids < MaxFriendships
        /\ doing' = [doing EXCEPT ![u] = [op |-> "idle", row |-> NoRow]]
        /\ \/ ids' = ids + 1 /\ friendships' = Ties!Saved(r) \union {n}
           \/ UNCHANGED <<ids, friendships>>
    <3>1. [doing[u].row EXCEPT !.status = 1].of = doing[u].row.of
      BY <1>10 DEF Ties!Accept, TiesInv, RowsRead, FriendRow
    <3> QED BY <1>10, <3>1 DEF Ties!Accept, Ties!Idle, Ties!Accepted, Reading
  <2>2. n.id = ids + 1
    OBVIOUS
  <2> HIDE DEF n
  <2>3. /\ \A q, e \in Ties!Saved(r) : q.id = e.id => q = e
        /\ \A q \in Ties!Saved(r) : q.id \in 1..ids
        /\ Ties!Saved(r) \subseteq friendships \union {r}
    BY <1>9, <2>1
  <2> HIDE DEF r
  <2>4. RowsSeen' \subseteq RowsSeen \union friendships'
    BY <2>1 DEF RowsSeen, Reading, TiesInv, RowsRead
  <2>5. CASE UNCHANGED <<ids, friendships>>
    BY <1>1, <1>3, <2>4, <2>5
  <2>6. CASE ids' = ids + 1 /\ friendships' = Ties!Saved(r) \union {n}
    <3>1. RowsSeen' \subseteq RowsSeen \union Ties!Saved(r) \union {n}
      BY <2>4, <2>6
    <3> HIDE DEF Ties!Saved
    <3> QED BY <1>4, <2>1, <2>2, <2>3, <2>6, <3>1
  <2> QED BY <2>1, <2>5, <2>6
<1>11. ASSUME NEW u \in People, Ties!Block(u), doing[u].op = "block" PROVE TiesBounds'
  <2> DEFINE r == [doing[u].row EXCEPT !.status = 2]
  <2>1. /\ u \in Reading /\ ids' = ids /\ friendships' = Ties!Saved(r)
        /\ doing' = [doing EXCEPT ![u] = [op |-> "idle", row |-> NoRow]]
    BY <1>11 DEF Ties!Block, Ties!Idle, Ties!Blocked, Reading
  <2>2. /\ \A q, e \in Ties!Saved(r) : q.id = e.id => q = e
        /\ \A q \in Ties!Saved(r) : q.id \in 1..ids
        /\ Ties!Saved(r) \subseteq friendships \union {r}
    BY <1>9, <2>1
  <2> HIDE DEF r
  <2>3. RowsSeen' \subseteq RowsSeen \union friendships'
    BY <2>1 DEF RowsSeen, Reading, TiesInv, RowsRead
  <2>4. \A q \in RowsSeen' : q.id >= 1
    BY <1>1, <2>1, <2>2, <2>3
  <2> QED BY <1>1, <2>1, <2>2, <2>4 DEF TiesBounds
<1>12. ASSUME NEW u \in People, Ties!Block(u), doing[u].op = "create" PROVE TiesBounds'
  <2> DEFINE n == [doing[u].row EXCEPT !.id = ids + 1]
  <2>1. /\ ids < MaxFriendships /\ ids' = ids + 1 /\ friendships' = friendships \union {n}
        /\ doing' = [doing EXCEPT ![u] = [op |-> "idle", row |-> NoRow]]
    BY <1>12 DEF Ties!Block, Ties!Idle
  <2>2. n.id = ids + 1
    BY <1>12 DEF TiesInv, RowsRead, FriendRow
  <2> HIDE DEF n
  <2>3. RowsSeen' \subseteq RowsSeen \union friendships \union {n}
    BY <2>1 DEF RowsSeen, Reading, TiesInv, RowsRead
  <2> QED BY <1>1, <1>4, <1>5, <2>1, <2>2, <2>3
<1>13. CASE UNCHANGED f
  <2>1. ids' = ids /\ friendships' = friendships /\ RowsSeen' = RowsSeen
    BY <1>13 DEF f, RowsSeen, Reading
  <2> QED BY <1>3, <2>1
<1>14. Ties!Next \/ UNCHANGED f
  BY DEF MCNext
<1>15. ASSUME NEW u \in People, Ties!Block(u) PROVE TiesBounds'
  BY <1>11, <1>12, <1>15 DEF Ties!Block
<1> QED BY <1>6, <1>7, <1>8, <1>10, <1>13, <1>14, <1>15 DEF Ties!Next

LEMMA FriendshipsTyped == TiesInv /\ TiesBounds => Ties!TypeOK
<1> SUFFICES ASSUME TiesInv, TiesBounds PROVE Ties!TypeOK
  OBVIOUS
<1>1. /\ ids \in Nat /\ ids <= MaxFriendships /\ MaxFriendships \in Nat \ {0}
      /\ RowsSeen \subseteq FriendRow /\ \A r \in RowsSeen : r.id <= ids /\ r.id >= 1
  BY BoundsAssumption DEF TiesInv, RowsKept, TiesBounds
<1>2. RowsSeen \subseteq Ties!Friendship
  BY <1>1 DEF FriendRow, Ties!Friendship
<1>3. ids \in 0..MaxFriendships /\ friendships \subseteq Ties!Friendship
  BY <1>1, <1>2 DEF RowsSeen
<1>4. ASSUME NEW u \in People, doing[u] # Ties!Idle PROVE doing[u].row \in Ties!Friendship
  <2>1. \/ doing[u].op \in {"accept", "block"}
        \/ doing[u].row \in [id : {MaxFriendships}, of : People, to : People, status : {2}]
    BY <1>4 DEF TiesInv, RowsRead, Ties!Idle, Ties!Blocked
  <2>2. doing[u].op \in {"accept", "block"} => doing[u].row \in RowsSeen
    BY DEF RowsSeen, Reading
  <2>3. [id : {MaxFriendships}, of : People, to : People, status : {2}] \subseteq Ties!Friendship
    BY <1>1 DEF Ties!Friendship
  <2> QED BY <1>2, <2>1, <2>2, <2>3
<1> QED BY <1>3, <1>4 DEF Ties!TypeOK, TiesBounds

-----------------------------------------------------------------------------
\* The party and the game state, as the other modules have them.
PartyBounds == KeptP!PartyInv /\ KeptP!Uninvited

LEMMA PartyBoundsFirst == PartyOf!Init => PartyBounds
<1>1. PartyOf!Init => KeptP!Init
  BY DEF PartyOf!Init, KeptP!Init, PartyOf!Pids, KeptP!Pids, PartyOf!NoAnswer, KeptP!NoAnswer
<1>2. KeptP!Init => KeptP!Uninvited
  BY DEF KeptP!Init, KeptP!Uninvited
<1> QED BY <1>1, <1>2, KeptP!PartyInit, ConstantsAssumption DEF PartyBounds

LEMMA PartyBoundsKept ==
  PartyBounds /\ [MCNext]_<<part, i, s, t, m, p, c, x, g, v, f, l>> => PartyBounds'
BY PartySteps, KeptP!PartyStep, KeptP!UninvitedStep, ConstantsAssumption DEF PartyBounds

LEMMA PartyOfTyped == PartyBounds => PartyOf!TypeOK
<1>1. KeptP!TypeOK => PartyOf!TypeOK
  BY DEF KeptP!TypeOK, PartyOf!TypeOK, KeptP!Pids, PartyOf!Pids, KeptP!Online, PartyOf!Online
<1> QED BY <1>1, KeptP!PartyTyped DEF PartyBounds

StateBounds == KeptP!StateInv /\ KeptP!Counted

LEMMA StateBoundsFirst == State!Init => StateBounds
<1>1. State!Init => KeptP!State!Init
  BY DEF State!Init, KeptP!State!Init, State!Unset, KeptP!State!Unset,
         State!Flushers, KeptP!State!Flushers
<1>2. State!Init => KeptP!Counted
  BY BoundsAssumption DEF State!Init, State!Unset, KeptP!Counted
<1> QED BY <1>1, <1>2, KeptP!StateInit DEF StateBounds

LEMMA StateBoundsKept ==
  StateBounds /\ [MCNext]_<<part, i, s, t, m, p, c, x, g, v, f, l>> => StateBounds'
BY StateSteps, KeptP!StateStep, KeptP!CountedStep, BoundsAssumption DEF StateBounds

LEMMA StateOfTyped == StateBounds => State!TypeOK
<1>1. KeptP!State!TypeOK => State!TypeOK
  BY DEF KeptP!State!TypeOK, State!TypeOK, KeptP!State!Flushers, State!Flushers
<1> QED BY <1>1, KeptP!StateTyped, BoundsAssumption DEF StateBounds

-----------------------------------------------------------------------------
\* No client has sent more than all have, and no history is too long.
ChatBounds ==
  /\ Cardinality(ChatOf!Sent) <= MaxSent
  /\ \A u \in Clients : sent[u] <= Cardinality(ChatOf!Sent)
  /\ \A u \in Clients, h \in ChatOf!Channels : Len(chatHistory[u][h]) <= MaxMessages

LEMMA SentFinite ==
  ASSUME ChatTypes
  PROVE  IsFiniteSet(ChatOf!Sent) /\ Cardinality(ChatOf!Sent) \in Nat
<1> DEFINE sets == {{u} \X (1..sent[u]) : u \in Clients}
           each == [u \in Clients |-> {u} \X (1..sent[u])]
<1>1. each \in Surjection(Clients, sets)
  BY DEF Surjection
<1>2. IsFiniteSet(sets)
  <2> HIDE DEF each, sets
  <2> QED BY <1>1, FS_Surjection, BoundsAssumption
<1>3. ASSUME NEW z \in sets PROVE IsFiniteSet(z)
  <2>1. PICK u \in Clients : z = {u} \X (1..sent[u])
    OBVIOUS
  <2>2. IsFiniteSet({u}) /\ IsFiniteSet(1..sent[u])
    <3>1. sent[u] \in Int /\ 1 \in Int
      BY DEF ChatTypes
    <3> QED BY <3>1, FS_Interval, FS_Singleton, Zenon
  <2> QED BY <2>1, <2>2, FS_Product
<1>4. ChatOf!Sent = UNION sets
  BY DEF ChatOf!Sent
<1>5. IsFiniteSet(UNION sets)
  <2> HIDE DEF sets
  <2> QED BY <1>2, <1>3, FS_UNION
<1> QED BY <1>4, <1>5, FS_CardinalityType

LEMMA ChatBoundsFirst == ChatOf!Init => ChatBounds
<1> SUFFICES ASSUME ChatOf!Init PROVE ChatBounds
  OBVIOUS
<1>1. /\ \A u \in Clients : sent[u] = 0
      /\ \A u \in Clients, h \in ChatOf!Channels : chatHistory[u][h] = <<>>
  BY DEF ChatOf!Init
<1>2. ChatOf!Sent = {}
  BY <1>1 DEF ChatOf!Sent
<1>3. Cardinality(ChatOf!Sent) = 0
  BY <1>2, FS_EmptySet
<1>4. Len(<<>>) = 0 /\ MaxMessages \in Nat /\ MaxSent \in Nat
  BY BoundsAssumption
<1> QED BY <1>1, <1>3, <1>4 DEF ChatBounds

LEMMA ChatBoundsSend ==
  ASSUME ChatInv, ChatBounds, NEW u \in Clients, NEW h \in ChatOf!Channels, NEW r,
         ChatOf!SendMessage(u, h, r)
  PROVE  ChatBounds'
<1> DEFINE S == ChatOf!Sent
           e == <<u, sent[u] + 1>>
<1>1. ChatOf!Cardinality(S) < MaxSent /\ sent' = [sent EXCEPT ![u] = sent[u] + 1] /\ chatHistory' = chatHistory
  BY DEF ChatOf!SendMessage, ChatOf!window
<1>2. sent \in [Clients -> Nat] /\ IsFiniteSet(S) /\ Cardinality(S) \in Nat /\ MaxSent \in Nat
  BY SentFinite, BoundsAssumption DEF ChatInv, ChatTypes
<1>3. Cardinality(S) < MaxSent
  <2>1. ChatOf!Cardinality(S) = Cardinality(S)
    BY Zenon DEF ChatOf!Cardinality, Cardinality
  <2> QED BY <1>1, <2>1
<1>4. \A w \in Clients : sent'[w] = IF w = u THEN sent[u] + 1 ELSE sent[w]
  BY <1>1, <1>2
<1>5. ChatOf!Sent' = S \union {e} /\ e \notin S
  <2>1. S = {a \in Clients \X Nat : a[2] \in 1..sent[a[1]]}
    BY <1>2 DEF ChatOf!Sent
  <2>2. sent' \in [Clients -> Nat]
    BY <1>1, <1>2
  <2>3. ChatOf!Sent' = {a \in Clients \X Nat : a[2] \in 1..sent'[a[1]]}
    BY <2>2 DEF ChatOf!Sent
  <2>4. \A a \in Clients \X Nat : a[2] \in 1..sent'[a[1]] <=> (a[2] \in 1..sent[a[1]] \/ a = e)
    <3> SUFFICES ASSUME NEW w \in Clients, NEW n \in Nat
                 PROVE  n \in 1..sent'[w] <=> (n \in 1..sent[w] \/ <<w, n>> = e)
      OBVIOUS
    <3>1. CASE w = u
      <4>1. sent[u] \in Nat /\ sent'[u] = sent[u] + 1
        BY <1>2, <1>4
      <4> QED BY <3>1, <4>1
    <3>2. CASE w # u
      BY <1>4, <3>2
    <3> QED BY <3>1, <3>2
  <2>5. e \in Clients \X Nat /\ e \notin S
    <3>1. sent[u] \in Nat
      BY <1>2
    <3> QED BY <2>1, <3>1
  <2> HIDE DEF S, e
  <2> QED BY <2>1, <2>3, <2>4, <2>5
<1>6. Cardinality(ChatOf!Sent') = Cardinality(S) + 1
  <2> HIDE DEF S, e
  <2> QED BY <1>2, <1>5, FS_AddElement
<1>7. ASSUME NEW w \in Clients PROVE sent'[w] <= Cardinality(S) + 1
  <2>1. sent[w] <= Cardinality(S) /\ sent[u] <= Cardinality(S) /\ sent[w] \in Nat /\ sent[u] \in Nat
    BY <1>2 DEF ChatBounds
  <2> HIDE DEF S
  <2> QED BY <1>2, <1>4, <2>1
<1> HIDE DEF S
<1>8. Cardinality(S) + 1 <= MaxSent
  BY <1>2, <1>3
<1>9. \A w \in Clients, k \in ChatOf!Channels : Len(chatHistory'[w][k]) <= MaxMessages
  BY <1>1 DEF ChatBounds
<1> QED BY <1>6, <1>7, <1>8, <1>9 DEF ChatBounds

LEMMA ChatBoundsRecv ==
  ASSUME ChatInv, ChatBounds, NEW u \in Clients, ChatOf!OnChatRecv(u)
  PROVE  ChatBounds'
<1> DEFINE e == Head(fromChat[u])
           q == chatHistory[u][e.ch]
<1>1. /\ fromChat[u] # <<>>
      /\ chatHistory' = [chatHistory EXCEPT ![u][e.ch] = ChatOf!Kept(q, e)] /\ sent' = sent
  BY Zenon DEF ChatOf!OnChatRecv
<1>2. /\ fromChat[u] \in Seq(ChatMessage)
      /\ chatHistory \in [Clients -> [ChatOf!Channels -> Seq(ChatMessage)]]
  BY DEF ChatInv, ChatTypes
<1>3. e \in ChatMessage
  BY <1>1, <1>2, ChatTail
<1> HIDE DEF e
<1>4. e.ch \in ChatOf!Channels
  BY <1>3 DEF ChatMessage
<1>5. q \in Seq(ChatMessage) /\ Len(q) <= MaxMessages /\ MaxMessages \in Nat
  BY <1>2, <1>4, BoundsAssumption DEF ChatBounds
<1> HIDE DEF q
<1>6. Len(ChatOf!Kept(q, e)) <= MaxMessages
  <2> DEFINE all == Append(q, e)
  <2>1. /\ Len(q) \in Nat /\ Len(all) = Len(q) + 1 /\ Len(Tail(all)) = Len(q)
    BY <1>3, <1>5
  <2>2. ChatOf!Kept(q, e) = IF Len(all) > MaxMessages THEN Tail(all) ELSE all
    BY DEF ChatOf!Kept
  <2> HIDE DEF all
  <2> QED BY <1>5, <2>1, <2>2
<1>7. ASSUME NEW w \in Clients, NEW h \in ChatOf!Channels
      PROVE  chatHistory'[w][h] = chatHistory[w][h] \/ chatHistory'[w][h] = ChatOf!Kept(q, e)
  BY <1>1, <1>2, <1>4
<1>8. \A w \in Clients, h \in ChatOf!Channels : Len(chatHistory'[w][h]) <= MaxMessages
  BY <1>6, <1>7 DEF ChatBounds
<1>9. ChatOf!Sent' = ChatOf!Sent
  BY <1>1 DEF ChatOf!Sent
<1> QED BY <1>1, <1>8, <1>9 DEF ChatBounds

LEMMA ChatBoundsKept ==
  ChatInv /\ ChatBounds /\ [MCNext]_<<part, i, s, t, m, p, c, x, g, v, f, l>> => ChatBounds'
<1> SUFFICES ASSUME ChatInv, ChatBounds, [MCNext]_<<part, i, s, t, m, p, c, x, g, v, f, l>>
             PROVE  ChatBounds'
  OBVIOUS
<1>1. ChatOf!Next \/ UNCHANGED c
  BY DEF MCNext
<1>2. CASE UNCHANGED <<sent, chatHistory>>
  BY <1>2 DEF ChatBounds, ChatOf!Sent
<1>3. UNCHANGED c => UNCHANGED <<sent, chatHistory>>
  BY DEF c
<1>4. ASSUME NEW u, NEW h, ChatOf!HandleSend(u) \/ ChatOf!SwitchChannel(u, h) \/ ChatOf!Run(h)
      PROVE  UNCHANGED <<sent, chatHistory>>
  BY <1>4 DEF ChatOf!HandleSend, ChatOf!SwitchChannel, ChatOf!Run, ChatOf!window
<1>5. CASE ChatOf!Next
  BY <1>2, <1>4, <1>5, ChatBoundsSend, ChatBoundsRecv DEF ChatOf!Next
<1> QED BY <1>1, <1>2, <1>3, <1>5

LEMMA ChatOfTyped == ChatInv /\ ChatBounds => ChatOf!TypeOK
<1> SUFFICES ASSUME ChatInv, ChatBounds, NEW u \in Clients
             PROVE  /\ sent[u] \in 0..MaxSent /\ chatChannel[u] \in ChatOf!Channels
                    /\ \A h \in ChatOf!Channels : Len(chatHistory[u][h]) <= MaxMessages
  BY DEF ChatOf!TypeOK
<1>1. sent[u] \in Nat /\ chatChannel[u] \in ChatOf!Channels /\ Cardinality(ChatOf!Sent) \in Nat
  BY SentFinite DEF ChatInv, ChatTypes
<1>2. MaxSent \in Nat /\ sent[u] <= Cardinality(ChatOf!Sent) /\ Cardinality(ChatOf!Sent) <= MaxSent
  BY BoundsAssumption DEF ChatBounds
<1>3. sent[u] \in 0..MaxSent
  BY <1>1, <1>2
<1> QED BY <1>1, <1>3 DEF ChatBounds

-----------------------------------------------------------------------------
LEMMA BagBoundsFirst == Init => BagBounds
BY BoundsAssumption DEF Init, BagBounds

\* Every part keeps its types and its bounds, whatever the others do: an id is given once,
\* no list has two rows of one thing, a history and a batch are never too long, experience
\* is never below nothing, an event has one change waiting, and a session that was
\* cleaned up has no invitation - for any clients, sessions, events, goods and bounds.
THEOREM WindowsTyped == MCSpec => []TypesOK
<1>1. MCSpec => []TypeOK
  <2>1. MCInit => BagInv /\ BagBounds
    BY BagInitial, BagBoundsFirst DEF MCInit
  <2> QED BY <2>1, BagSteps, BagBoundsKept, BagTyped, PTL DEF MCSpec
<1>2. MCSpec => []ShopOf!TypeOK
  <2>1. MCInit => ShopInv /\ ShopBounds
    BY ShopInitial, ShopBoundsFirst DEF MCInit
  <2> QED BY <2>1, ShopStep, ShopBoundsKept, ShopTyped, PTL DEF MCSpec
<1>3. MCSpec => []TradeOf!TypeOK
  <2>1. MCInit => TradeInv
    BY TradeInitial DEF MCInit
  <2> QED BY <2>1, TradeStep, TradeTyped, PTL DEF MCSpec
<1>4. MCSpec => []Panels!TypeOK
  <2>1. MCInit => PanelsInv /\ PanelBounds
    BY PanelsInitial, PanelBoundsFirst DEF MCInit
  <2> QED BY <2>1, PanelsStep, PanelBoundsKept, PanelsTyped, PTL DEF MCSpec
<1>5. MCSpec => []PartyOf!TypeOK
  <2>1. MCInit => PartyBounds
    BY PartyBoundsFirst DEF MCInit
  <2> QED BY <2>1, PartyBoundsKept, PartyOfTyped, PTL DEF MCSpec
<1>6. MCSpec => []ChatOf!TypeOK
  <2>1. MCInit => ChatInv /\ ChatBounds
    BY ChatInitial, ChatBoundsFirst DEF MCInit
  <2> QED BY <2>1, ChatStep, ChatBoundsKept, ChatOfTyped, PTL DEF MCSpec
<1>7. MCSpec => []Exp!TypeOK
  <2>1. MCInit => ExpInv /\ ExpBounds
    BY ExpInitial, ExpBoundsFirst DEF MCInit
  <2> QED BY <2>1, ExpStep, ExpBoundsKept, ExpTyped, PTL DEF MCSpec
<1>8. MCSpec => []State!TypeOK
  <2>1. MCInit => StateBounds
    BY StateBoundsFirst DEF MCInit
  <2> QED BY <2>1, StateBoundsKept, StateOfTyped, PTL DEF MCSpec
<1>9. MCSpec => []Vars!TypeOK
  <2>1. MCInit => VarsInv /\ VarsBounds
    BY VarsInitial, VarsBoundsFirst DEF MCInit
  <2> QED BY <2>1, VarsStep, VarsBoundsKept, VarsTyped, PTL DEF MCSpec
<1>10. MCSpec => []Ties!TypeOK
  <2>1. MCInit => TiesInv /\ TiesBounds
    BY TiesInitial, TiesBoundsFirst DEF MCInit
  <2> QED BY <2>1, TiesSteps, TiesStep, TiesBoundsKept, FriendshipsTyped, PTL DEF MCSpec
<1>11. MCSpec => []Friends!TypeOK
  <2>1. MCInit => FriendsInv
    BY FriendsInitial DEF MCInit
  <2> QED BY <2>1, FriendsStep, FriendsTyped, PTL DEF MCSpec
<1>12. /\ TypeOK /\ ShopOf!TypeOK /\ TradeOf!TypeOK /\ Panels!TypeOK /\ PartyOf!TypeOK
       /\ ChatOf!TypeOK /\ Exp!TypeOK /\ State!TypeOK /\ Vars!TypeOK /\ Ties!TypeOK
       /\ Friends!TypeOK
       => TypesOK
  BY DEF TypesOK
<1> QED BY <1>1, <1>2, <1>3, <1>4, <1>5, <1>6, <1>7, <1>8, <1>9, <1>10, <1>11, <1>12, PTL
=============================================================================
