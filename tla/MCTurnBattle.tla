---------------------------- MODULE MCTurnBattle ----------------------------
(* TurnBattle on small instances for TLC. *)
EXTENDS TurnBattle, TLC

CONSTANTS slime

\* Bound of the live run: nobody waits or is held once the battle is over.
Undecided == pc # "over"
=============================================================================
