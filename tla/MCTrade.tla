------------------------------- MODULE MCTrade -------------------------------
(* Trade on small instances for TLC. *)
EXTENDS Trade, TLC

CONSTANTS a, b, c

\* Characters play the same part; which of them owns an item is chosen by Init.
Symmetry == Permutations(Chars)

\* Bound of the runs with two sessions: what a trade with oneself and an offer
\* rewritten under a running Commit lead to is left to the run with one session.
Overlap ==
  /\ late = {}
  /\ \A s \in 1 .. sessions : party[s]["A"] # party[s]["B"]
=============================================================================
