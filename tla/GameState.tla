------------------------------ MODULE GameState ------------------------------
(***************************************************************************)
(* Switches and variables: game/world/gamestate.go (shared by all, written *)
(* to the database in batches) and player_gamestate.go (of one character,  *)
(* written at once, and loaded anew with its player's next connection).    *)
(*                                                                         *)
(* The values of a key are numbered in the order they are set; 0 is the    *)
(* value of a new database, and "nothing" where a change may be waiting.   *)
(***************************************************************************)
EXTENDS Integers

CONSTANTS
  Keys,
  Global,       \* the keys of the whitelist
  Goroutines,   \* events and handlers, of any player: each may set any key
  MayFail,      \* whether the database may refuse a write
  MaxSets       \* bound on the sets of one key

VARIABLES
  value,        \* switches, variables, selfSwitches, selfVariables
  last,         \* the newest value ever set
  setting,      \* a set that has changed the memory and not yet its copy
  outlived,     \* the events whose connection has ended, with the state they had of it
  pending,      \* GameState.pending
  batch,        \* changes: what a Flush has taken
  stopping,     \* Stop has been called
  saved,        \* the rows
  overlaps      \* history: of each key, the sets <<m, n>> such that n began before m returned

stateVars == <<value, last, setting, outlived, pending, batch, stopping, saved, overlaps>>

Unset == [k \in Keys |-> 0]
Flushers == {"ticker", "stop"}

\* The sets of each key that have not returned.
Underway == [k \in Keys |-> {setting[g][k] : g \in Goroutines} \ {0}]

Init ==
  /\ value = Unset /\ last = Unset /\ saved = Unset /\ pending = Unset
  /\ setting = [g \in Goroutines |-> Unset]
  /\ batch = [f \in Flushers |-> Unset]
  /\ outlived = {} /\ stopping = FALSE
  /\ overlaps = [k \in Keys |-> {}]

-----------------------------------------------------------------------------

\* SetSwitch, SetVariable, SetSelfSwitch, SetSelfVariable of either state: the memory,
\* under mu; what follows is done after Unlock, and nothing keeps another goroutine from
\* setting the key meanwhile. An event of an ended connection sets what it still has of
\* its player, which is not what the next connection has.
Set(g, k) ==
  /\ setting[g] = Unset /\ last[k] < MaxSets
  /\ last' = [last EXCEPT ![k] = @ + 1]
  /\ value' = IF g \in outlived /\ k \notin Global THEN value ELSE [value EXCEPT ![k] = last'[k]]
  /\ setting' = [setting EXCEPT ![g][k] = last'[k]]
  /\ overlaps' = [overlaps EXCEPT ![k] = @ \union (Underway[k] \X {last'[k]})]
  /\ UNCHANGED <<outlived, pending, batch, stopping, saved>>

\* queueChange: the newest change of a key is the one that waits.
QueueChange(g, k) ==
  /\ k \in Global /\ setting[g][k] # 0
  /\ pending' = [pending EXCEPT ![k] = setting[g][k]]
  /\ setting' = [setting EXCEPT ![g] = Unset]
  /\ UNCHANGED <<value, last, outlived, batch, stopping, saved, overlaps>>

\* The row of a per-player key, written by the one that set it; an error is logged.
Persist(g, k) ==
  /\ k \notin Global /\ setting[g][k] # 0
  /\ \/ saved' = [saved EXCEPT ![k] = setting[g][k]]
     \/ MayFail /\ UNCHANGED saved
  /\ setting' = [setting EXCEPT ![g] = Unset]
  /\ UNCHANGED <<value, last, outlived, pending, batch, stopping, overlaps>>

\* Flush takes everything that is pending, ...
Take(f) ==
  /\ batch[f] = Unset
  /\ batch' = [batch EXCEPT ![f] = pending]
  /\ pending' = Unset

Tick ==
  /\ pending # Unset /\ Take("ticker")
  /\ UNCHANGED <<value, last, setting, outlived, stopping, saved, overlaps>>

\* ... also when Stop calls it, which does not wait for the flusher.
Stop ==
  /\ ~stopping /\ stopping' = TRUE
  /\ Take("stop")
  /\ UNCHANGED <<value, last, setting, outlived, saved, overlaps>>

\* ... and writes it in one transaction, tried three times when the database is busy.
\* A batch that fails is gone.
Write(f) ==
  /\ batch[f] # Unset
  /\ \/ saved' = [k \in Keys |-> IF batch[f][k] # 0 THEN batch[f][k] ELSE saved[k]]
     \/ MayFail /\ UNCHANGED saved
  /\ batch' = [batch EXCEPT ![f] = Unset]
  /\ UNCHANGED <<value, last, setting, outlived, pending, stopping, overlaps>>

\* Unload when the player's connection ends, and GetOrLoad in the next one: the rows as
\* they are then. Events of the old one may run on.
Reload ==
  /\ value' = [k \in Keys |-> IF k \in Global THEN value[k] ELSE saved[k]]
  /\ outlived' \in SUBSET Goroutines /\ outlived \subseteq outlived'
  /\ \A g \in Goroutines, k \in Keys \ Global : setting[g][k] # 0 => g \in outlived'
  /\ UNCHANGED <<last, setting, pending, batch, stopping, saved, overlaps>>

\* An event of the old one ends, and another begins.
Ends(g) ==
  /\ g \in outlived /\ setting[g] = Unset
  /\ outlived' = outlived \ {g}
  /\ UNCHANGED <<value, last, setting, pending, batch, stopping, saved, overlaps>>

\* Mutant: the changes that wait outlive the load.
Restart_Pending ==
  /\ value' = saved
  /\ setting' = [g \in Goroutines |-> Unset]
  /\ batch' = [f \in Flushers |-> Unset]
  /\ outlived' = {} /\ stopping' = FALSE
  /\ UNCHANGED <<last, saved, pending, overlaps>>

\* The process ends, stopped or not, and LoadFromDB fills a new state.
Restart ==
  /\ value' = saved
  /\ setting' = [g \in Goroutines |-> Unset]
  /\ pending' = Unset
  /\ batch' = [f \in Flushers |-> Unset]
  /\ outlived' = {} /\ stopping' = FALSE
  /\ UNCHANGED <<last, saved, overlaps>>

Next ==
  \/ \E g \in Goroutines, k \in Keys : Set(g, k) \/ QueueChange(g, k) \/ Persist(g, k)
  \/ \E g \in Goroutines : Ends(g)
  \/ \E f \in Flushers : Write(f)
  \/ Tick \/ Stop \/ Reload \/ Restart

Spec == Init /\ [][Next]_stateVars

-----------------------------------------------------------------------------
(* Properties. *)

TypeOK ==
  /\ value \in [Keys -> 0..MaxSets] /\ last \in [Keys -> 0..MaxSets]
  /\ saved \in [Keys -> 0..MaxSets] /\ pending \in [Keys -> 0..MaxSets]
  /\ setting \in [Goroutines -> [Keys -> 0..MaxSets]]
  /\ batch \in [Flushers -> [Keys -> 0..MaxSets]]
  /\ outlived \subseteq Goroutines /\ stopping \in BOOLEAN
  /\ overlaps \in [Keys -> SUBSET ((1..MaxSets) \X (1..MaxSets))]

\* What the batches, the failures and the crashes come to, whoever sets a key: registers
\* whose saved values are in the order they were set, but for sets that overlapped.
Register == INSTANCE StateRegister WITH underway <- Underway
Durable == Register!Spec

\* Once Stop has returned and the database refused nothing, every change that was
\* queued is in the database (game/world/gamestate.go:90: Stop stops the background
\* flusher and flushes remaining changes).
StopSaves ==
  stopping /\ batch["stop"] = Unset /\ pending = Unset =>
    \A k \in Global : (\A g \in Goroutines : setting[g][k] = 0) => saved[k] = value[k]

\* With nothing under way and no write refused, the rows are what the memory is
\* (game/world/gamestate.go:56: loaded on startup, saved with batching). Two sets that
\* overlap may be queued in the other order.
RowsFollow ==
  (\A g \in Goroutines : setting[g] = Unset) /\ pending = Unset /\ batch["ticker"] = Unset
    /\ batch["stop"] = Unset => saved = value
=============================================================================
