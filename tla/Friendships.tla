----------------------------- MODULE Friendships -----------------------------
(***************************************************************************)
(* The rows of friendships behind the handlers of api/rest/social.go. The  *)
(* requests of different players overlap, and a handler reads before it    *)
(* writes; each player has one such request under way. Every request makes *)
(* a row: no index keeps two players from having several.                  *)
(***************************************************************************)
EXTENDS Integers

CONSTANTS
  People,
  MaxFriendships,  \* bound on the rows made
  NoRow

VARIABLES
  rows,        \* the table
  doing,       \* what a player's request has read and is about to write
  ids          \* the last id given

socialVars == <<rows, doing, ids>>

Pending == 0
Accepted == 1
Blocked == 2
Friendship == [id : 1..MaxFriendships, of : People, to : People, status : 0..2]

Idle == [op |-> "idle", row |-> NoRow]

Init == rows = {} /\ doing = [x \in People |-> Idle] /\ ids = 0

\* SendFriendRequest: a row, whatever rows there are.
SendFriendRequest(x, y) ==
  /\ x # y /\ ids < MaxFriendships
  /\ ids' = ids + 1
  /\ rows' = rows \union {[id |-> ids', of |-> x, to |-> y, status |-> Pending]}
  /\ UNCHANGED doing

\* AcceptFriendRequest: the pending row is read, ...
FindRequest(x, r) ==
  /\ doing[x] = Idle
  /\ r \in rows /\ r.to = x /\ r.status = Pending
  /\ doing' = [doing EXCEPT ![x] = [op |-> "accept", row |-> r]]
  /\ UNCHANGED <<rows, ids>>

\* tx.Save: the row as it was read and changed, made anew if it is gone.
Saved(r) == {q \in rows : q.id # r.id} \union {r}

\* ... and saved, with one in the other direction, in one transaction, which may fail.
Accept(x) ==
  LET r == doing[x].row IN
  /\ doing[x].op = "accept" /\ ids < MaxFriendships
  /\ \/ /\ ids' = ids + 1
        /\ rows' = Saved([r EXCEPT !.status = Accepted]) \union
                   {[id |-> ids', of |-> x, to |-> r.of, status |-> Accepted]}
     \/ UNCHANGED <<ids, rows>>
  /\ doing' = [doing EXCEPT ![x] = Idle]

\* DeleteFriend: every row of the two.
DeleteFriend(x, y) ==
  /\ x # y
  /\ rows' = {r \in rows : {r.of, r.to} # {x, y}}
  /\ UNCHANGED <<doing, ids>>

\* BlockPlayer: the first row towards the other is read, or a new one made up, ...
FindRow(x, y) ==
  LET towards == {r \in rows : r.of = x /\ r.to = y}
      new == [id |-> MaxFriendships, of |-> x, to |-> y, status |-> Blocked]
  IN /\ doing[x] = Idle /\ x # y
     /\ \/ towards = {} /\ doing' = [doing EXCEPT ![x] = [op |-> "create", row |-> new]]
        \/ \E r \in towards :
             /\ \A q \in towards : r.id <= q.id
             /\ doing' = [doing EXCEPT ![x] = [op |-> "block", row |-> r]]
     /\ UNCHANGED <<rows, ids>>

\* ... and saved as blocked.
Block(x) ==
  /\ \/ /\ doing[x].op = "block"
        /\ rows' = Saved([doing[x].row EXCEPT !.status = Blocked])
        /\ UNCHANGED ids
     \/ /\ doing[x].op = "create" /\ ids < MaxFriendships
        /\ ids' = ids + 1
        /\ rows' = rows \union {[doing[x].row EXCEPT !.id = ids']}
  /\ doing' = [doing EXCEPT ![x] = Idle]

Next ==
  \/ \E x, y \in People : SendFriendRequest(x, y) \/ DeleteFriend(x, y) \/ FindRow(x, y)
  \/ \E x \in People : (\E r \in rows : FindRequest(x, r)) \/ Accept(x) \/ Block(x)

Spec == Init /\ [][Next]_socialVars

-----------------------------------------------------------------------------
(* Properties. *)

\* The type of the state; an id is one row's.
TypeOK ==
  /\ rows \subseteq Friendship /\ ids \in 0..MaxFriendships
  /\ \A q, r \in rows : q.id = r.id => q = r
  /\ \A x \in People : doing[x] # Idle => doing[x].row \in Friendship

\* A friendship is never one-directional: who is a friend of somebody has them as a
\* friend, or has blocked them since, whatever was accepted, deleted and blocked
\* meanwhile (api/rest/social.go:110).
Mutual ==
  \A r \in rows : r.status = Accepted =>
    \E q \in rows : q.of = r.to /\ q.to = r.of /\ q.status \in {Accepted, Blocked}

\* NOT kept: a player who has blocked another has no friendship with them. Only the first
\* row is blocked, and an acceptance that had read its request undoes a block
\* (api/rest/social.go:158).
BlockKept ==
  \A q, r \in rows : q.status = Blocked /\ q.of = r.of /\ q.to = r.to => r.status # Accepted

\* NOT kept: two players are friends once; each of several requests can be accepted.
NoTwins ==
  \A q, r \in rows : q.of = r.of /\ q.to = r.to /\ {q.status, r.status} = {Accepted} => q = r

\* NOT kept: a friend who was deleted is none again without a new request. An acceptance
\* under way makes the row that it has read anew.
NothingRevived == \A x \in People : doing[x].op = "accept" => \E r \in rows : r.id = doing[x].row.id
=============================================================================
