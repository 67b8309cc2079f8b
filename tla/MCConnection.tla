---------------------------- MODULE MCConnection ----------------------------
(* Connection on small instances for TLC. *)
EXTENDS Connection, TLC

\* WebSocket objects and characters play the same part.
Symmetry == Permutations(Sockets) \cup Permutations(Chars)

\* Outside the game the character chosen last and the one shown last are only
\* ever overwritten.
View ==
  <<scene, listed, busy, deleting, posting, state, attempts, timer, beat, ws, wait, token,
    [c \in Clients |-> IF scene[c] = "map" THEN <<charID[c], self[c]>> ELSE <<>>],
    sock, sessions, room, db, drops>>

\* Bounds of the safety run: one character is deleted at most; a creation, a
\* deletion, a network failure and a handler left by an earlier entry are explored
\* apart from one another.
Creates(c) == scene[c] = "create" \/ posting[c] # {}
Deletes(c) == deleting[c] # NoChar \/ db # Chars
Apart ==
  /\ db # {}
  /\ \A c \in Clients :
       /\ Creates(c) => ~Deletes(c)
       /\ drops > 0 => ~Creates(c) /\ ~Deletes(c)
       /\ Len(wait[c]) > 1 => drops = 0 /\ ~Creates(c) /\ ~Deletes(c)
=============================================================================
