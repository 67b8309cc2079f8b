---------------------------- MODULE StateRegister ----------------------------
(***************************************************************************)
(* What the game state promises to the events that read and write it and   *)
(* to the server that loads it again: registers that are saved now and     *)
(* then, and that come back as they were saved. What is saved goes in the  *)
(* order in which it was set; only of two sets that overlapped, one begun  *)
(* before the other had returned, may either stay.                         *)
(*                                                                         *)
(* The values of a key are numbered in the order they are set.             *)
(***************************************************************************)
EXTENDS Integers

CONSTANTS
  Keys,
  Global      \* the keys of all; the others are of one character

VARIABLES
  value,      \* what a reader gets
  last,       \* the newest value ever set
  saved,      \* what a restart brings back
  stopping,   \* the server is on its way down
  underway,   \* the sets that have not returned
  overlaps    \* the sets <<m, n>> such that n began before m returned

vars == <<value, last, saved, stopping, underway, overlaps>>

Init ==
  /\ value = [k \in Keys |-> 0] /\ last = value /\ saved = value
  /\ stopping = FALSE
  /\ underway = [k \in Keys |-> {}] /\ overlaps = underway

\* A set begins. One for a character whose connection has ended is not seen in the next.
Set(k) ==
  /\ last' = [last EXCEPT ![k] = @ + 1]
  /\ value' = [value EXCEPT ![k] = last'[k]] \/ (k \notin Global /\ UNCHANGED value)
  /\ underway' = [underway EXCEPT ![k] = @ \union {last'[k]}]
  /\ overlaps' = [overlaps EXCEPT ![k] = @ \union (underway[k] \X {last'[k]})]
  /\ UNCHANGED <<saved, stopping>>

\* A row that holds m may come to hold n.
MayFollow(k, m, n) == m <= n \/ <<n, m>> \in overlaps[k]

\* Sets return and registers are saved. A row gets nothing that was forgotten, and does
\* not go back, except on the way down.
Save ==
  /\ saved' \in [Keys -> Nat]
  /\ \A k \in Keys : saved'[k] # saved[k] =>
       /\ saved'[k] <= value[k] \/ saved'[k] \in underway[k]
       /\ stopping \/ MayFollow(k, saved[k], saved'[k])
  /\ underway' \in [Keys -> SUBSET Nat] /\ \A k \in Keys : underway'[k] \subseteq underway[k]
  /\ UNCHANGED <<value, last, stopping, overlaps>>

Stop == stopping' = TRUE /\ UNCHANGED <<value, last, saved, underway, overlaps>>

\* A character's registers are loaded for its next connection.
Reload ==
  /\ value' = [k \in Keys |-> IF k \in Global THEN value[k] ELSE saved[k]]
  /\ UNCHANGED <<last, saved, stopping, underway, overlaps>>

\* Whether it was stopped or has crashed.
Restart ==
  /\ value' = saved /\ stopping' = FALSE /\ underway' = [k \in Keys |-> {}]
  /\ UNCHANGED <<last, saved, overlaps>>

Next == (\E k \in Keys : Set(k)) \/ Save \/ Stop \/ Reload \/ Restart

Spec == Init /\ [][Next]_vars
=============================================================================
