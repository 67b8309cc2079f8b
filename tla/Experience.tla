----------------------------- MODULE Experience -----------------------------
(***************************************************************************)
(* Experience and level of one character: awardExp and applyDeathPenalty   *)
(* (api/ws/handlers_battle.go), the save after a disconnection and the     *)
(* load of the next one (api/ws/handler.go, handlers_game.go), and the     *)
(* status bar that shows them (client_plugin/mmo-hud.js).                  *)
(*                                                                         *)
(* Awards, penalties and saves are goroutines that outlive the session     *)
(* they were started for.                                                  *)
(***************************************************************************)
EXTENDS Integers, Sequences, FiniteSetsExt

CONSTANTS
  Gain,         \* the experience of a monster
  Percent,      \* DeathPenaltyExpPct
  MaxKills,     \* bound on the awards
  MaxDeaths,    \* bound on the penalties
  MaxSessions   \* bound on the sessions

VARIABLES
  row,          \* the character's row: exp and level
  sess,         \* session: exp and level
  online,       \* the session that is connected, 0 when none is
  sessions,     \* how many there have been
  unsaved,      \* disconnected sessions whose row is not yet written
  award,        \* awardExp goroutines: session, how far, and what they read
  death,        \* applyDeathPenalty goroutines
  earned,       \* all the experience ever granted
  toBar,        \* messages to the client
  lastSelf,     \* _lastSelf
  bar           \* StatusBar, NoBar off the map

expVars == <<row, sess, online, sessions, unsaved, award, death, earned, toBar, lastSelf, bar>>

Start == [exp |-> 0, level |-> 1]
NoBar == [exp |-> -1, level |-> 0]
Idle == [s |-> 0, at |-> "idle", got |-> Start]
Kills == 1..MaxKills
Deaths == 1..MaxDeaths

Init ==
  /\ row = Start
  /\ sess = [s \in 1..MaxSessions |-> Start]
  /\ online = 0 /\ sessions = 0 /\ unsaved = {}
  /\ award = [i \in Kills |-> Idle]
  /\ death = [i \in Deaths |-> Idle]
  /\ earned = 0
  /\ toBar = <<>> /\ lastSelf = Start /\ bar = NoBar

-----------------------------------------------------------------------------
(* The server. *)

ExpNeeded(level) == 30 * level + 10 * (level - 1) * level
LevelAt(exp, level) == Min({l \in level..99 : exp < ExpNeeded(l) \/ l = 99})
Awarded(r) == [exp |-> r.exp + Gain, level |-> LevelAt(r.exp + Gain, r.level)]

\* EnterMap: the row as it is now.
Login ==
  /\ online = 0 /\ sessions < MaxSessions
  /\ sessions' = sessions + 1 /\ online' = sessions'
  /\ sess' = [sess EXCEPT ![sessions'] = row]
  /\ toBar' = <<[t |-> "map_init", r |-> row]>>
  /\ UNCHANGED <<row, unsaved, award, death, earned, lastSelf, bar>>

\* A monster dies: go awardExp; nothing waits for it.
Kill(i) ==
  /\ online # 0 /\ award[i].at = "idle" /\ award[i].s = 0
  /\ award' = [award EXCEPT ![i] = [Idle EXCEPT !.s = online, !.at = "tx"]]
  /\ UNCHANGED <<row, sess, online, sessions, unsaved, death, earned, toBar, lastSelf, bar>>

\* The transaction, alone among the transactions.
Award(i) ==
  /\ award[i].at = "tx"
  /\ row' = Awarded(row)
  /\ earned' = earned + Gain
  /\ award' = [award EXCEPT ![i].at = "level", ![i].got = row']
  /\ UNCHANGED <<sess, online, sessions, unsaved, death, toBar, lastSelf, bar>>

\* Mutant: the session is synced when the transaction has failed, too.
AwardFails_Synced(i) ==
  /\ award[i].at = "tx"
  /\ award' = [award EXCEPT ![i].at = "level", ![i].got = Awarded(row)]
  /\ UNCHANGED <<row, sess, online, sessions, unsaved, death, earned, toBar, lastSelf, bar>>

AwardFails(i) ==
  /\ award[i].at = "tx"
  /\ award' = [award EXCEPT ![i].at = "idle"]
  /\ UNCHANGED <<row, sess, online, sessions, unsaved, death, earned, toBar, lastSelf, bar>>

\* SetLevel and SetExp, each under the session's lock, ...
SyncLevel(i) ==
  /\ award[i].at = "level"
  /\ sess' = [sess EXCEPT ![award[i].s].level = award[i].got.level]
  /\ award' = [award EXCEPT ![i].at = "exp"]
  /\ UNCHANGED <<row, online, sessions, unsaved, death, earned, toBar, lastSelf, bar>>

\* ... and exp_gain.
SyncExp(i) ==
  /\ award[i].at = "exp"
  /\ sess' = [sess EXCEPT ![award[i].s].exp = award[i].got.exp]
  /\ award' = [award EXCEPT ![i] = [Idle EXCEPT !.s = award[i].s]]
  /\ toBar' = IF award[i].s = online
              THEN Append(toBar, [t |-> "exp_gain", r |-> award[i].got]) ELSE toBar
  /\ UNCHANGED <<row, online, sessions, unsaved, death, earned, lastSelf, bar>>

\* The player dies: the penalty of what the session holds, which leaves nothing at worst, ...
Penalty(i) ==
  /\ online # 0 /\ death[i] = Idle
  /\ LET exp == sess[online].exp
         penalty == (exp * Percent) \div 100
         newExp == IF exp < penalty THEN 0 ELSE exp - penalty
     IN /\ penalty > 0
        /\ death' = [death EXCEPT ![i] = [s |-> online, at |-> "set",
                                           got |-> [Start EXCEPT !.exp = newExp]]]
  /\ UNCHANGED <<row, sess, online, sessions, unsaved, award, earned, toBar, lastSelf, bar>>

PenaltySet(i) ==
  /\ death[i].at = "set"
  /\ sess' = [sess EXCEPT ![death[i].s].exp = death[i].got.exp]
  /\ death' = [death EXCEPT ![i].at = "row"]
  /\ UNCHANGED <<row, online, sessions, unsaved, award, earned, toBar, lastSelf, bar>>

\* ... written over what the row holds.
PenaltyRow(i) ==
  /\ death[i].at = "row"
  /\ row' = [row EXCEPT !.exp = death[i].got.exp]
  /\ death' = [death EXCEPT ![i] = [Idle EXCEPT !.s = death[i].s]]
  /\ UNCHANGED <<sess, online, sessions, unsaved, award, earned, toBar, lastSelf, bar>>

\* handleDisconnect, and _disconnected on the client.
Disconnect ==
  /\ online # 0
  /\ online' = 0 /\ unsaved' = unsaved \cup {online}
  /\ toBar' = <<>> /\ lastSelf' = Start /\ bar' = NoBar
  /\ UNCHANGED <<row, sess, sessions, award, death, earned>>

\* The save: whatever the session holds when its goroutine runs.
SaveRow(s) ==
  /\ s \in unsaved /\ unsaved' = unsaved \ {s}
  /\ row' = sess[s]
  /\ UNCHANGED <<sess, online, sessions, award, death, earned, toBar, lastSelf, bar>>

-----------------------------------------------------------------------------
(* The client. *)

\* map_init: _lastSelf, and the bar where there is one.
OnMapInit ==
  /\ toBar # <<>> /\ Head(toBar).t = "map_init" /\ toBar' = Tail(toBar)
  /\ lastSelf' = Head(toBar).r
  /\ bar' = IF bar = NoBar THEN NoBar ELSE Head(toBar).r
  /\ UNCHANGED <<row, sess, online, sessions, unsaved, award, death, earned>>

\* exp_gain: the bar only.
OnExpGain ==
  /\ toBar # <<>> /\ Head(toBar).t = "exp_gain" /\ toBar' = Tail(toBar)
  /\ bar' = IF bar = NoBar THEN NoBar ELSE Head(toBar).r
  /\ UNCHANGED <<row, sess, online, sessions, unsaved, award, death, earned, lastSelf>>

\* A map scene ends; the next one makes its own bar from _lastSelf (createAllWindows).
LeaveScene ==
  /\ bar # NoBar /\ bar' = NoBar
  /\ UNCHANGED <<row, sess, online, sessions, unsaved, award, death, earned, toBar, lastSelf>>

CreateBar ==
  /\ online # 0 /\ bar = NoBar
  /\ bar' = lastSelf
  /\ UNCHANGED <<row, sess, online, sessions, unsaved, award, death, earned, toBar, lastSelf>>

Next ==
  \/ Login \/ Disconnect \/ OnMapInit \/ OnExpGain \/ LeaveScene \/ CreateBar
  \/ \E i \in Kills : Kill(i) \/ Award(i) \/ AwardFails(i) \/ SyncLevel(i) \/ SyncExp(i)
  \/ \E i \in Deaths : Penalty(i) \/ PenaltySet(i) \/ PenaltyRow(i)
  \/ \E s \in 1..MaxSessions : SaveRow(s)

Spec == Init /\ [][Next]_expVars

-----------------------------------------------------------------------------
(* Properties. *)

TypeOK ==
  /\ row.exp \in 0..earned /\ row.level \in 1..99
  /\ online \in 0..sessions /\ unsaved \subseteq (1..sessions \ {online})
  /\ \A i \in Kills : award[i].s \in 0..sessions
  /\ \A i \in Deaths : death[i].s \in 0..sessions

\* No interleaving of awards, penalties, saves and logins makes experience that was
\* not granted, or shows any.
NoneInvented ==
  /\ row.exp <= earned
  /\ \A s \in 1..MaxSessions : sess[s].exp <= earned
  /\ lastSelf.exp <= earned /\ bar.exp <= earned
  /\ row.level <= LevelAt(earned, 1)

\* Only a penalty takes experience from the row (api/ws/handlers_battle.go:444: sync
\* back to session so disconnect save has correct values).
ExpKept == [][row'.exp < row.exp => \E i \in Deaths : PenaltyRow(i)]_expVars

\* With nothing under way, the bar shows the level of the row
\* (client_plugin/mmo-core.js:799: _lastSelf kept in sync with the server).
BarFollows ==
  toBar = <<>> /\ bar # NoBar /\ unsaved = {} /\ (\A i \in Kills : award[i].at = "idle") =>
    bar.level = row.level
=============================================================================
