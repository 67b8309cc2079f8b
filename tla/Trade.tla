-------------------------------- MODULE Trade --------------------------------
(* Player-to-player trading: server/game/trade/service.go and its WebSocket   *)
(* handlers, server/api/ws/handlers_trade.go.                                  *)
(*                                                                             *)
(* Every connected character has one readPump goroutine, so the handlers of    *)
(* one character run one after the other and those of different characters     *)
(* interleave.  A handler is cut where it holds no mutex: pc[c] is the place   *)
(* character c's goroutine has reached and cur[c] the *TradeSession it holds.  *)
(* Commit runs inside the goroutine of the character that confirmed last.      *)
(*                                                                             *)
(* The Go mutexes make the steps atomic (svc.mu: active; sess.mu: offers), but *)
(* Commit reads the offers without sess.mu, statement by statement.            *)
EXTENDS Integers, FiniteSets

CONSTANTS
  Chars,          \* the characters online
  Items,          \* inventory rows (by id)
  Amounts,        \* gold amounts a player may offer
  InitialGold,    \* gold of every character at the start
  MaxSessions,    \* bound: sessions created by AcceptTrade
  MaxExpiries     \* bound: lock keys that outlive their TTL

ASSUME TradeAssumption ==
  /\ Amounts \subseteq Nat
  /\ InitialGold \in Nat
  /\ MaxSessions \in Nat
  /\ MaxExpiries \in Nat
  /\ 0 \notin Chars

VARIABLES
  active,     \* Service.active: character -> its session, 0 when it has none
  sessions,   \* how many sessions nextSessionID has numbered
  party,      \* session -> side -> character (OfferA.CharID, OfferB.CharID)
  offer,      \* session -> side -> TradeOffer
  pc, cur,    \* where each character's goroutine is, and in which session
  keys,       \* "lock:trade:<a>_<b>" keys present in the cache
  rowLock,    \* character row -> goroutine whose transaction locked it, or 0
  delta,      \* goroutine -> side -> gold its open transaction has added
  moved,      \* goroutine -> rows its open transaction gave to the other side
  gold,       \* characters.gold
  owner,      \* inventories.char_id
  equipped,   \* inventories with equipped = 1
  late,       \* history: sessions whose offer changed under a running Commit
  expired,    \* history: lock keys that outlived their 30 s
  commits     \* history: how often a session's transaction has committed

svcVars  == <<active, sessions, party, offer>>
dbVars   == <<rowLock, delta, moved, gold, owner, equipped>>
histVars == <<late, expired, commits>>
vars     == <<svcVars, pc, cur, keys, dbVars, histVars>>

Side == {"A", "B"}
Sessions == 1 .. MaxSessions
Offer == [items : SUBSET Items, gold : Nat, confirmed : BOOLEAN]
EmptyOffer == [items |-> {}, gold |-> 0, confirmed |-> FALSE]

\* The statements of the transaction, in program order; "write" is its COMMIT.
TxPhase == {"rowA", "rowB", "check", "itemsA", "itemsB",
            "debitA", "creditB", "debitB", "creditA", "write"}
CommitPhase == {"setnx"} \cup TxPhase
Locked == TxPhase \cup {"cleanup", "unlock"}
Phase == {"idle", "update", "confirm"} \cup CommitPhase \cup Locked

NoGold == [x \in Side |-> 0]

Other(x) == IF x = "A" THEN "B" ELSE "A"
\* getOffer: OfferA first, so a session with oneself only ever has side A.
SideOf(s, c) == IF party[s]["A"] = c THEN "A" ELSE "B"
Key(s) == {party[s]["A"], party[s]["B"]}
BothConfirmed(s) == offer[s]["A"].confirmed /\ offer[s]["B"].confirmed
InCommit(s) == \E d \in Chars : cur[d] = s /\ pc[d] \in CommitPhase

\* Rows an open transaction has updated: other writers wait for them.
RowsHeld == UNION {moved[d] : d \in Chars}

-----------------------------------------------------------------------------
Init ==
  /\ active = [c \in Chars |-> 0]
  /\ sessions = 0
  /\ party = [s \in Sessions |-> [x \in Side |-> 0]]
  /\ offer = [s \in Sessions |-> [x \in Side |-> EmptyOffer]]
  /\ pc = [c \in Chars |-> "idle"]
  /\ cur = [c \in Chars |-> 0]
  /\ keys = {}
  /\ rowLock = [c \in Chars |-> 0]
  /\ delta = [c \in Chars |-> NoGold]
  /\ moved = [c \in Chars |-> {}]
  /\ gold = [c \in Chars |-> InitialGold]
  /\ owner \in [Items -> Chars]
  /\ equipped = {}
  /\ late = {}
  /\ expired = 0
  /\ commits = [s \in Sessions |-> 0]

\* The goroutine reaches p, or returns from the handler ("idle").
Goto(c, p) ==
  /\ pc' = [pc EXCEPT ![c] = p]
  /\ cur' = IF p = "idle" THEN [cur EXCEPT ![c] = 0] ELSE cur

\* trade_accept from b naming a: a new session for both, whatever they were in.
AcceptTrade(a, b) ==
  /\ pc[b] = "idle"
  /\ sessions < MaxSessions
  /\ LET s == sessions + 1 IN
       /\ sessions' = s
       /\ party' = [party EXCEPT ![s] = [x \in Side |-> IF x = "A" THEN a ELSE b]]
       /\ active' = [active EXCEPT ![a] = s, ![b] = s]
  /\ UNCHANGED <<offer, pc, cur, keys, dbVars, histVars>>

\* UpdateOffer and Confirm first fetch the session under svc.mu.RLock ...
Lookup(c, handler) ==
  /\ pc[c] = "idle"
  /\ active[c] # 0
  /\ cur' = [cur EXCEPT ![c] = active[c]]
  /\ pc' = [pc EXCEPT ![c] = handler]
  /\ UNCHANGED <<svcVars, keys, dbVars, histVars>>

\* Mutant: a negative amount is not refused.
UpdateOffer_Negative(c) ==
  /\ pc[c] = "update"
  /\ offer' = [offer EXCEPT ![cur[c]][SideOf(cur[c], c)].gold = -1]
  /\ Goto(c, "idle")
  /\ UNCHANGED <<active, sessions, party, keys, dbVars, histVars>>

\* ... then UpdateOffer writes the offer under sess.mu (negative gold refused).
UpdateOffer(c) ==
  /\ pc[c] = "update"
  /\ LET s == cur[c] IN
       /\ \E items \in SUBSET Items, g \in Amounts :
            offer' = [offer EXCEPT ![s][SideOf(s, c)] =
                        [items |-> items, gold |-> g, confirmed |-> FALSE]]
       /\ late' = IF InCommit(s) THEN late \cup {s} ELSE late
  /\ Goto(c, "idle")
  /\ UNCHANGED <<active, sessions, party, keys, dbVars, expired, commits>>

\* Mutant: one confirmation is enough.
Confirm_Either(c) ==
  /\ pc[c] = "confirm"
  /\ offer' = [offer EXCEPT ![cur[c]][SideOf(cur[c], c)].confirmed = TRUE]
  /\ Goto(c, "setnx")
  /\ UNCHANGED <<active, sessions, party, keys, dbVars, histVars>>

\* ... and Confirm marks its side and looks at both marks under sess.mu.
Confirm(c) ==
  /\ pc[c] = "confirm"
  /\ LET s == cur[c]
         x == SideOf(s, c)
         both == offer[s][Other(x)].confirmed
         mine == [offer[s][x] EXCEPT !.confirmed = TRUE]
     IN /\ offer' = [offer EXCEPT ![s][x] = mine]
        /\ Goto(c, IF both THEN "setnx" ELSE "idle")
  /\ UNCHANGED <<active, sessions, party, keys, dbVars, histVars>>

\* Cancel, by its message or by handleDisconnect: both entries are deleted,
\* even when the partner's entry already names another session.
Cancel(c) ==
  /\ pc[c] = "idle"
  /\ active[c] # 0
  /\ active' = [d \in Chars |-> IF d \in Key(active[c]) THEN 0 ELSE active[d]]
  /\ UNCHANGED <<sessions, party, offer, pc, cur, keys, dbVars, histVars>>

-----------------------------------------------------------------------------
(* Commit(sess), run by the goroutine of c *)

\* Mutant: Set in place of SetNX.
SetNX_Set(c) ==
  /\ pc[c] = "setnx"
  /\ Goto(c, "rowA")
  /\ keys' = keys \cup {Key(cur[c])}
  /\ UNCHANGED <<svcVars, dbVars, histVars>>

\* "trade in progress, please retry": returns without touching active.
SetNX(c) ==
  /\ pc[c] = "setnx"
  /\ IF Key(cur[c]) \in keys
       THEN Goto(c, "idle") /\ UNCHANGED keys
       ELSE Goto(c, "rowA") /\ keys' = keys \cup {Key(cur[c])}
  /\ UNCHANGED <<svcVars, dbVars, histVars>>

\* The key's TTL runs out while its holder is still at work.
LockExpire(k) ==
  /\ \E c \in Chars : pc[c] \in Locked /\ Key(cur[c]) = k
  /\ keys' = keys \ {k}
  /\ k \in keys
  /\ expired < MaxExpiries
  /\ expired' = expired + 1
  /\ UNCHANGED <<svcVars, pc, cur, dbVars, late, commits>>

\* Mutant: a plain SELECT.
LockRow_Plain(c, at, x, next) ==
  /\ pc[c] = at
  /\ Goto(c, next)
  /\ UNCHANGED <<svcVars, keys, dbVars, histVars>>

\* SELECT ... FOR UPDATE on one trader's row.
LockRow(c, at, x, next) ==
  /\ pc[c] = at
  /\ LET r == party[cur[c]][x] IN
       /\ rowLock[r] \in {0, c}
       /\ rowLock' = [rowLock EXCEPT ![r] = c]
  /\ Goto(c, next)
  /\ UNCHANGED <<svcVars, keys, delta, moved, gold, owner, equipped, histVars>>

\* Mutant: the guards of the UPDATEs are trusted to check the amounts.
CheckGold_Dropped(c) ==
  /\ pc[c] = "check"
  /\ Goto(c, "itemsA")
  /\ UNCHANGED <<svcVars, keys, dbVars, histVars>>

\* Both sides must own the gold they offer.
CheckGold(c) ==
  /\ pc[c] = "check"
  /\ \A x \in Side : offer[cur[c]][x].gold <= gold[party[cur[c]][x]]
  /\ Goto(c, "itemsA")
  /\ UNCHANGED <<svcVars, keys, dbVars, histVars>>

\* Mutant: inv.Equipped is not looked at.
MoveItems_Equipped(c, at, x, next) ==
  /\ pc[c] = at
  /\ LET rows == offer[cur[c]][x].items IN
       /\ \A i \in rows : i \in moved[c] \/ owner[i] = party[cur[c]][x]
       /\ moved' = [moved EXCEPT ![c] = (@ \ rows) \cup (rows \ @)]
  /\ Goto(c, next)
  /\ UNCHANGED <<svcVars, keys, rowLock, delta, gold, owner, equipped, histVars>>

\* Move the rows side x offers to the other side: owned by x and not equipped.
\* moved[c] holds the rows already moved: A's go first, and one of them
\* that B offers too already belongs to B and moves back.
MoveItems(c, at, x, next) ==
  /\ pc[c] = at
  /\ LET s == cur[c]
         rows == offer[s][x].items
         holder(i) == IF i \in moved[c] THEN party[s]["B"] ELSE owner[i]
     IN /\ \A i \in rows : holder(i) = party[s][x] /\ i \notin equipped
        /\ moved' = [moved EXCEPT ![c] = (@ \ rows) \cup (rows \ @)]
  /\ Goto(c, next)
  /\ UNCHANGED <<svcVars, keys, rowLock, delta, gold, owner, equipped, histVars>>

\* UPDATE ... SET gold = gold - X WHERE gold >= X: rows affected are not looked
\* at, so a guard that fails pays nothing and the credit still follows.
Debit(c, at, x, next, skip) ==
  /\ pc[c] = at
  /\ LET amount == offer[cur[c]][x].gold
         have   == gold[party[cur[c]][x]] + delta[c][x]
     IN /\ Goto(c, IF amount > 0 THEN next ELSE skip)
        /\ delta' = IF amount > 0 /\ have >= amount
                      THEN [delta EXCEPT ![c][x] = @ - amount] ELSE delta
  /\ UNCHANGED <<svcVars, keys, rowLock, moved, gold, owner, equipped, histVars>>

\* UPDATE ... SET gold = gold + X for the other side; X is read again.
Credit(c, at, x, next) ==
  /\ pc[c] = at
  /\ delta' = [delta EXCEPT ![c][Other(x)] = @ + offer[cur[c]][x].gold]
  /\ Goto(c, next)
  /\ UNCHANGED <<svcVars, keys, rowLock, moved, gold, owner, equipped, histVars>>

EndTx(c) ==
  /\ rowLock' = [r \in Chars |-> IF rowLock[r] = c THEN 0 ELSE rowLock[r]]
  /\ delta' = [delta EXCEPT ![c] = NoGold]
  /\ moved' = [moved EXCEPT ![c] = {}]
  /\ Goto(c, "cleanup")

\* The transaction commits: its effects become visible at once.
WriteTx(c) ==
  /\ pc[c] = "write"
  /\ LET s == cur[c]
         sideOf(d) == SideOf(s, d)
     IN /\ gold' = [d \in Chars |-> IF d \in Key(s)
                                      THEN gold[d] + delta[c][sideOf(d)] ELSE gold[d]]
        /\ owner' = [i \in Items |-> IF i \in moved[c]
                                       THEN party[s][Other(sideOf(owner[i]))] ELSE owner[i]]
        /\ commits' = [commits EXCEPT ![s] = @ + 1]
  /\ EndTx(c)
  /\ UNCHANGED <<svcVars, keys, equipped, late, expired>>

\* Mutant: the error return comes before the deferred Del is registered.
AbortTx_KeepsKey(c) ==
  /\ pc[c] \in TxPhase
  /\ rowLock' = [r \in Chars |-> IF rowLock[r] = c THEN 0 ELSE rowLock[r]]
  /\ delta' = [delta EXCEPT ![c] = NoGold]
  /\ moved' = [moved EXCEPT ![c] = {}]
  /\ Goto(c, "idle")
  /\ UNCHANGED <<svcVars, keys, gold, owner, equipped, histVars>>

\* Mutant: the error is returned without rolling back, the rows stay locked.
AbortTx_KeepsRows(c) ==
  /\ pc[c] \in TxPhase
  /\ Goto(c, "cleanup")
  /\ UNCHANGED <<svcVars, keys, dbVars, histVars>>

\* Any statement may fail - a check above that does not hold, a lock-wait
\* timeout, a lost connection: the transaction rolls back.
AbortTx(c) ==
  /\ pc[c] \in TxPhase
  /\ EndTx(c)
  /\ UNCHANGED <<svcVars, keys, gold, owner, equipped, histVars>>

\* After the transaction, whatever its result, both entries go under svc.mu ...
Cleanup(c) ==
  /\ pc[c] = "cleanup"
  /\ active' = [d \in Chars |-> IF d \in Key(cur[c]) THEN 0 ELSE active[d]]
  /\ Goto(c, "unlock")
  /\ UNCHANGED <<sessions, party, offer, keys, dbVars, histVars>>

\* ... and the deferred Del removes the key, whoever set it by now.
Unlock(c) ==
  /\ pc[c] = "unlock"
  /\ keys' = keys \ {Key(cur[c])}
  /\ Goto(c, "idle")
  /\ UNCHANGED <<svcVars, dbVars, histVars>>

CommitStep(c) ==
  \/ SetNX(c)
  \/ LockRow(c, "rowA", "A", "rowB")
  \/ LockRow(c, "rowB", "B", "check")
  \/ CheckGold(c)
  \/ MoveItems(c, "itemsA", "A", "itemsB")
  \/ MoveItems(c, "itemsB", "B", "debitA")
  \/ Debit(c, "debitA", "A", "creditB", "debitB")
  \/ Credit(c, "creditB", "A", "debitB")
  \/ Debit(c, "debitB", "B", "creditA", "write")
  \/ Credit(c, "creditA", "B", "write")
  \/ WriteTx(c)
  \/ AbortTx(c)
  \/ Cleanup(c)
  \/ Unlock(c)

\* equip / unequip by the row's owner (server/game/item/equip.go), one
\* transaction; it waits for a row another transaction has written.
ToggleEquip(i) ==
  /\ i \notin RowsHeld
  /\ pc[owner[i]] = "idle"
  /\ equipped' = IF i \in equipped THEN equipped \ {i} ELSE equipped \cup {i}
  /\ UNCHANGED <<svcVars, pc, cur, keys, rowLock, delta, moved, gold, owner, histVars>>

Next ==
  \/ \E a, b \in Chars : AcceptTrade(a, b)
  \/ \E c \in Chars :
       \/ Lookup(c, "update")
       \/ Lookup(c, "confirm")
       \/ UpdateOffer(c)
       \/ Confirm(c)
       \/ Cancel(c)
       \/ CommitStep(c)
  \/ \E k \in SUBSET Chars : LockExpire(k)
  \/ \E i \in Items : ToggleEquip(i)

Spec == Init /\ [][Next]_vars

\* A step of Commit that does not count on the database's lock-wait timeout.
Proceed(c) == CommitStep(c) /\ (pc[c] \in {"rowA", "rowB"} => pc'[c] # "cleanup")

\* The Go scheduler runs every goroutine that has entered Commit; the database
\* answers every statement and grants a row lock once the row is free.
FairSpec == Spec /\ \A c \in Chars : WF_vars(Proceed(c))
-----------------------------------------------------------------------------
(* Properties *)

TypeOK ==
  /\ active \in [Chars -> 0 .. sessions]
  /\ sessions \in 0 .. MaxSessions
  /\ party \in [Sessions -> [Side -> Chars \cup {0}]]
  /\ offer \in [Sessions -> [Side -> Offer]]
  /\ pc \in [Chars -> Phase]
  /\ cur \in [Chars -> 0 .. sessions]
  /\ keys \subseteq SUBSET (Chars \cup {0})
  /\ rowLock \in [Chars -> Chars \cup {0}]
  /\ delta \in [Chars -> [Side -> Int]]
  /\ moved \in [Chars -> SUBSET Items]
  /\ gold \in [Chars -> Int]
  /\ owner \in [Items -> Chars]
  /\ equipped \subseteq Items
  /\ late \subseteq Sessions
  /\ expired \in 0 .. MaxExpiries
  /\ commits \in [Sessions -> Nat]

\* As long as no lock key has outlived its TTL, two goroutines are never
\* between SetNX and Del for the same pair of characters: what the cache lock
\* of Commit is for.
PairExclusive ==
  expired = 0 => \A c, d \in Chars :
    c # d /\ pc[c] \in Locked /\ pc[d] \in Locked => Key(cur[c]) # Key(cur[d])

\* No lock outlives the Commit that took it, on any of its return paths: a key
\* in the cache has a holder on its way to Del, a locked row an open transaction.
NoLeakedLock ==
  /\ \A k \in keys : \E c \in Chars : pc[c] \in Locked /\ Key(cur[c]) = k
  /\ \A r \in Chars : rowLock[r] # 0 => pc[rowLock[r]] \in TxPhase

\* A goroutine that runs Commit holds a session both sides have confirmed,
\* unless an offer of it was rewritten after Commit began.
CommitsAgreed ==
  \A c \in Chars : pc[c] \in CommitPhase /\ cur[c] \notin late => BothConfirmed(cur[c])

\* Gold is neither made nor lost by trading: a step that changes gold moves it
\* between two characters, unless the session's offers were rewritten while
\* its transaction ran.
GoldMoves ==
  \/ gold' = gold
  \/ \E s \in late : commits'[s] # commits[s]
  \/ \E x, y \in Chars :
       /\ x # y
       /\ gold'[x] + gold'[y] = gold[x] + gold[y]
       /\ \A z \in Chars \ {x, y} : gold'[z] = gold[z]
GoldConserved == [][GoldMoves]_vars

\* Nobody's gold goes below zero (same exception): CheckGold and the row locks
\* keep it, whatever other sessions of the two characters do.
GoldNonNegative == late = {} => \A c \in Chars : gold[c] >= 0

\* A row changes hands only inside a trade of its owner and the new owner, both
\* sides having confirmed, offered by its owner and never while it is equipped.
ItemMoves ==
  \A i \in Items : owner'[i] # owner[i] =>
    /\ i \notin equipped
    /\ \E s \in Sessions :
         /\ commits'[s] # commits[s]
         /\ Key(s) = {owner[i], owner'[i]}
         /\ s \notin late => /\ BothConfirmed(s)
                             /\ i \in offer[s][SideOf(s, owner[i])].items
ItemsMoveByTrade == [][ItemMoves]_vars

\* A goroutine that enters Commit leaves it although no wait for a row times
\* out: sessions that lock the rows of the same two traders in opposite orders
\* never wait for each other.
CommitEnds ==
  \A c \in Chars : pc[c] \in CommitPhase ~> pc[c] = "idle"

(* What a comment says, and the code does not keep *)

\* "Commit atomically executes the trade": gold is conserved, always.
GoldAlwaysConserved ==
  [][gold' = gold \/ \E x, y \in Chars :
       /\ x # y
       /\ gold'[x] + gold'[y] = gold[x] + gold[y]
       /\ \A z \in Chars \ {x, y} : gold'[z] = gold[z]]_vars
=============================================================================
