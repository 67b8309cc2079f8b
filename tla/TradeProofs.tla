----------------------------- MODULE TradeProofs -----------------------------
(* Theorems about Trade, for every set of characters, items and amounts, and   *)
(* any number of sessions and expired keys.                                    *)
EXTENDS Trade, TLAPS

-----------------------------------------------------------------------------
(* Types *)

\* A goroutine inside a handler holds a session AcceptTrade has made.
Holding == \A c \in Chars : pc[c] # "idle" => cur[c] \in 1 .. sessions

\* Both sides of such a session are characters.
Parties == \A s \in 1 .. sessions : \A x \in Side : party[s][x] \in Chars

TypeInv == TypeOK /\ Holding /\ Parties

LEMMA SideOfType ==
  ASSUME NEW s, NEW c PROVE SideOf(s, c) \in Side /\ Other(SideOf(s, c)) \in Side
BY DEF SideOf, Side, Other

\* What a goroutine inside a handler may rely on.
LEMMA HeldSession ==
  ASSUME TypeInv, NEW c \in Chars, pc[c] # "idle"
  PROVE  /\ cur[c] \in Sessions
         /\ \A x \in Side : party[cur[c]][x] \in Chars
         /\ \A x \in Side : offer[cur[c]][x] \in Offer
         /\ Key(cur[c]) \subseteq Chars
BY TradeAssumption DEF TypeInv, TypeOK, Holding, Parties, Sessions, Key, Side

\* Reaching a place of a handler, or returning, keeps pc and cur well typed.
LEMMA GotoType ==
  ASSUME TypeInv, NEW c \in Chars, NEW p \in Phase, Goto(c, p),
         pc[c] # "idle", UNCHANGED sessions
  PROVE  /\ pc' \in [Chars -> Phase]
         /\ cur' \in [Chars -> 0 .. sessions']
         /\ Holding'
BY TradeAssumption DEF TypeInv, TypeOK, Holding, Goto

LEMMA EndTxType ==
  ASSUME TypeInv, NEW c \in Chars, EndTx(c)
  PROVE  /\ rowLock' \in [Chars -> Chars \cup {0}]
         /\ delta' \in [Chars -> [Side -> Int]]
         /\ moved' \in [Chars -> SUBSET Items]
BY DEF TypeInv, TypeOK, EndTx, NoGold

LEMMA TypeInit == Init => TypeInv
<1> SUFFICES ASSUME Init PROVE TypeInv
  OBVIOUS
<1>1. TypeOK
  BY TradeAssumption DEF Init, TypeOK, Sessions, Side, Offer, EmptyOffer, Phase, NoGold
<1>2. Holding /\ Parties
  BY DEF Init, Holding, Parties
<1> QED BY <1>1, <1>2 DEF TypeInv

LEMMA TypeAccept ==
  ASSUME TypeInv, NEW a \in Chars, NEW b \in Chars, AcceptTrade(a, b) PROVE TypeInv'
<1>1. /\ sessions \in Nat
      /\ sessions' = sessions + 1
      /\ sessions' \in Sessions
      /\ sessions' \in 0 .. MaxSessions
  BY TradeAssumption DEF TypeInv, TypeOK, AcceptTrade, Sessions
<1>2. active' \in [Chars -> 0 .. sessions']
  <2>1. active \in [Chars -> 0 .. sessions]
    BY DEF TypeInv, TypeOK
  <2> QED BY <1>1, <2>1 DEF AcceptTrade
<1>3. [x \in Side |-> IF x = "A" THEN a ELSE b] \in [Side -> Chars]
  OBVIOUS
<1>4. party' = [party EXCEPT ![sessions'] = [x \in Side |-> IF x = "A" THEN a ELSE b]]
  BY <1>1 DEF AcceptTrade
<1>5. party' \in [Sessions -> [Side -> Chars \cup {0}]]
  BY <1>3, <1>4 DEF TypeInv, TypeOK
<1>6. Parties'
  <2> SUFFICES ASSUME NEW s \in 1 .. sessions', NEW x \in Side
               PROVE  party'[s][x] \in Chars
    BY DEF Parties
  <2>1. party \in [Sessions -> [Side -> Chars \cup {0}]]
    BY DEF TypeInv, TypeOK
  <2>2. CASE s = sessions'
    BY <1>1, <1>3, <1>4, <2>1, <2>2
  <2>3. CASE s # sessions'
    <3>1. s \in 1 .. sessions
      BY <1>1, <2>3
    <3>2. party'[s] = party[s]
      BY <1>4, <2>1, <2>3
    <3> QED BY <3>1, <3>2 DEF TypeInv, Parties
  <2> QED BY <2>2, <2>3
<1>7. Holding' /\ cur' \in [Chars -> 0 .. sessions']
  BY <1>1 DEF TypeInv, TypeOK, Holding, AcceptTrade
<1> QED BY <1>1, <1>2, <1>5, <1>6, <1>7
        DEF TypeInv, TypeOK, AcceptTrade, dbVars, histVars

LEMMA TypeUpdate ==
  ASSUME TypeInv, NEW c \in Chars, UpdateOffer(c) PROVE TypeInv'
<1>1. cur[c] \in Sessions
  BY HeldSession DEF UpdateOffer
<1>2. PICK items \in SUBSET Items, g \in Amounts :
        offer' = [offer EXCEPT ![cur[c]][SideOf(cur[c], c)] =
                    [items |-> items, gold |-> g, confirmed |-> FALSE]]
  BY DEF UpdateOffer
<1>3. [items |-> items, gold |-> g, confirmed |-> FALSE] \in Offer
  BY TradeAssumption DEF Offer
<1>4. offer' \in [Sessions -> [Side -> Offer]]
  BY <1>1, <1>2, <1>3 DEF TypeInv, TypeOK
<1>5. late' \subseteq Sessions
  <2>1. late \subseteq Sessions
    BY DEF TypeInv, TypeOK
  <2> QED BY <1>1, <2>1 DEF UpdateOffer
<1>6. /\ pc' \in [Chars -> Phase]
      /\ cur' \in [Chars -> 0 .. sessions']
      /\ Holding'
  BY GotoType DEF UpdateOffer, Phase
<1> QED BY <1>4, <1>5, <1>6 DEF TypeInv, TypeOK, Parties, UpdateOffer, dbVars

LEMMA TypeConfirm ==
  ASSUME TypeInv, NEW c \in Chars, Confirm(c) PROVE TypeInv'
<1> DEFINE mine == [offer[cur[c]][SideOf(cur[c], c)] EXCEPT !.confirmed = TRUE]
<1>1. cur[c] \in Sessions
  BY HeldSession DEF Confirm
<1>2. mine \in Offer
  BY HeldSession, SideOfType DEF Confirm, Offer
<1>3. offer' = [offer EXCEPT ![cur[c]][SideOf(cur[c], c)] = mine]
  BY DEF Confirm
<1> HIDE DEF mine
<1>4. offer' \in [Sessions -> [Side -> Offer]]
  BY <1>1, <1>2, <1>3 DEF TypeInv, TypeOK
<1>5. /\ pc' \in [Chars -> Phase]
      /\ cur' \in [Chars -> 0 .. sessions']
      /\ Holding'
  BY GotoType DEF Confirm, Phase, CommitPhase
<1> QED BY <1>4, <1>5 DEF TypeInv, TypeOK, Parties, Confirm, dbVars, histVars

LEMMA TypeCommit ==
  ASSUME TypeInv, NEW c \in Chars, CommitStep(c) PROVE TypeInv'
<1> USE DEF svcVars, dbVars, histVars
<1>1. /\ cur[c] \in Sessions
      /\ \A x \in Side : party[cur[c]][x] \in Chars
      /\ \A x \in Side : offer[cur[c]][x].gold \in Int
      /\ Key(cur[c]) \subseteq Chars
  <2>1. pc[c] # "idle"
    BY DEF CommitStep, SetNX, LockRow, CheckGold, MoveItems, Debit, Credit,
           WriteTx, AbortTx, Cleanup, Unlock, TxPhase
  <2> QED BY <2>1, HeldSession DEF Offer
<1>2. \A p \in Phase : Goto(c, p) /\ pc[c] # "idle" /\ sessions' = sessions =>
        pc' \in [Chars -> Phase] /\ cur' \in [Chars -> 0 .. sessions'] /\ Holding'
  BY GotoType
<1>3. {"idle", "cleanup", "unlock"} \cup TxPhase \subseteq Phase
  BY DEF Phase, CommitPhase, Locked
<1>4. CASE SetNX(c)
  <2>1. keys' \subseteq SUBSET (Chars \cup {0})
    BY <1>1, <1>4 DEF TypeInv, TypeOK, SetNX
  <2> QED BY <1>2, <1>3, <1>4, <2>1 DEF TypeInv, TypeOK, Parties, SetNX, TxPhase
<1>5. ASSUME NEW at \in TxPhase, NEW x \in Side, NEW next \in TxPhase,
             LockRow(c, at, x, next)
      PROVE  TypeInv'
  <2>1. rowLock' \in [Chars -> Chars \cup {0}]
    BY <1>5 DEF TypeInv, TypeOK, LockRow
  <2> QED BY <1>2, <1>3, <1>5, <2>1 DEF TypeInv, TypeOK, Parties, LockRow, TxPhase
<1>6. CASE CheckGold(c)
  BY <1>2, <1>3, <1>6 DEF TypeInv, TypeOK, Parties, CheckGold, TxPhase
<1>7. ASSUME NEW at \in TxPhase, NEW x \in Side, NEW next \in TxPhase,
             MoveItems(c, at, x, next)
      PROVE  TypeInv'
  <2>1. offer[cur[c]][x].items \subseteq Items
    BY <1>1, <1>7 DEF TypeInv, TypeOK, Offer
  <2>2. moved' \in [Chars -> SUBSET Items]
    BY <1>7, <2>1 DEF TypeInv, TypeOK, MoveItems
  <2> QED BY <1>2, <1>3, <1>7, <2>2 DEF TypeInv, TypeOK, Parties, MoveItems, TxPhase
<1>8. ASSUME NEW at \in TxPhase, NEW x \in Side, NEW next \in TxPhase, NEW skip \in TxPhase,
             Debit(c, at, x, next, skip)
      PROVE  TypeInv'
  <2>1. delta' \in [Chars -> [Side -> Int]]
    BY <1>1, <1>8 DEF TypeInv, TypeOK, Debit
  <2> QED BY <1>2, <1>3, <1>8, <2>1 DEF TypeInv, TypeOK, Parties, Debit, TxPhase
<1>9. ASSUME NEW at \in TxPhase, NEW x \in Side, NEW next \in TxPhase,
             Credit(c, at, x, next)
      PROVE  TypeInv'
  <2>1. delta' \in [Chars -> [Side -> Int]]
    <3>1. Other(x) \in Side
      BY DEF Other, Side
    <3> QED BY <1>1, <1>9, <3>1 DEF TypeInv, TypeOK, Credit
  <2> QED BY <1>2, <1>3, <1>9, <2>1 DEF TypeInv, TypeOK, Parties, Credit, TxPhase
<1>10. CASE WriteTx(c)
  <2>1. gold' \in [Chars -> Int]
    BY <1>10, SideOfType DEF TypeInv, TypeOK, WriteTx
  <2>2. owner' \in [Items -> Chars]
    <3>1. \A d : party[cur[c]][Other(SideOf(cur[c], d))] \in Chars
      BY <1>1, SideOfType
    <3>2. owner \in [Items -> Chars]
      BY DEF TypeInv, TypeOK
    <3>3. owner' = [i \in Items |-> IF i \in moved[c]
                      THEN party[cur[c]][Other(SideOf(cur[c], owner[i]))] ELSE owner[i]]
      BY <1>10 DEF WriteTx
    <3> QED BY <3>1, <3>2, <3>3
  <2>3. commits' \in [Sessions -> Nat]
    <3>1. commits' = [commits EXCEPT ![cur[c]] = @ + 1]
      BY <1>10 DEF WriteTx
    <3>2. commits \in [Sessions -> Nat]
      BY DEF TypeInv, TypeOK
    <3> QED BY <1>1, <3>1, <3>2
  <2>4. Goto(c, "cleanup") /\ EndTx(c)
    BY <1>10 DEF WriteTx, EndTx
  <2> QED BY <1>2, <1>3, <1>10, <2>1, <2>2, <2>3, <2>4, EndTxType
          DEF TypeInv, TypeOK, Parties, WriteTx, TxPhase
<1>11. CASE AbortTx(c)
  <2>1. Goto(c, "cleanup") /\ EndTx(c)
    BY <1>11 DEF AbortTx, EndTx
  <2> QED BY <1>2, <1>3, <1>11, <2>1, EndTxType
          DEF TypeInv, TypeOK, Parties, AbortTx, TxPhase
<1>12. CASE Cleanup(c)
  <2>1. active' \in [Chars -> 0 .. sessions]
    BY <1>12 DEF TypeInv, TypeOK, Cleanup
  <2> QED BY <1>2, <1>3, <1>12, <2>1 DEF TypeInv, TypeOK, Parties, Cleanup
<1>13. CASE Unlock(c)
  BY <1>2, <1>3, <1>13 DEF TypeInv, TypeOK, Parties, Unlock
<1> QED BY <1>4, <1>5, <1>6, <1>7, <1>8, <1>9, <1>10, <1>11, <1>12, <1>13
        DEF CommitStep, TxPhase, Side

LEMMA TypeStep == TypeInv /\ [Next]_vars => TypeInv'
<1> SUFFICES ASSUME TypeInv, [Next]_vars PROVE TypeInv'
  OBVIOUS
<1> USE DEF svcVars, dbVars, histVars
<1>1. CASE UNCHANGED vars
  BY <1>1 DEF vars, TypeInv, TypeOK, Holding, Parties
<1>2. ASSUME NEW c \in Chars, NEW h \in {"update", "confirm"}, Lookup(c, h)
      PROVE TypeInv'
  BY <1>2 DEF Lookup, TypeInv, TypeOK, Holding, Parties, Phase
<1>3. ASSUME NEW c \in Chars, Cancel(c) PROVE TypeInv'
  BY <1>3 DEF Cancel, TypeInv, TypeOK, Holding, Parties
<1>4. ASSUME NEW k \in SUBSET Chars, LockExpire(k) PROVE TypeInv'
  <2>1. expired' \in 0 .. MaxExpiries
    BY <1>4, TradeAssumption DEF LockExpire, TypeInv, TypeOK
  <2>2. keys' \subseteq SUBSET (Chars \cup {0})
    BY <1>4 DEF LockExpire, TypeInv, TypeOK
  <2> QED BY <1>4, <2>1, <2>2 DEF LockExpire, TypeInv, TypeOK, Holding, Parties
<1>5. ASSUME NEW i \in Items, ToggleEquip(i) PROVE TypeInv'
  BY <1>5 DEF ToggleEquip, TypeInv, TypeOK, Holding, Parties
<1> QED BY <1>1, <1>2, <1>3, <1>4, <1>5, TypeAccept, TypeUpdate, TypeConfirm,
           TypeCommit DEF Next

\* Every variable keeps its type.
THEOREM TypeCorrect == Spec => []TypeOK
<1>1. TypeInv => TypeOK
  BY DEF TypeInv
<1> QED BY <1>1, TypeInit, TypeStep, PTL DEF Spec

-----------------------------------------------------------------------------
(* Commit runs on agreed terms, and its locks exclude *)

\* A step of one goroutine's Commit leaves the sessions and every other
\* goroutine where they are; its own moves on inside Commit or returns.
LEMMA CommitFrame ==
  ASSUME TypeInv, NEW c \in Chars, CommitStep(c)
  PROVE  /\ UNCHANGED <<sessions, party, offer, late, expired>>
         /\ \A d \in Chars \ {c} : pc'[d] = pc[d] /\ cur'[d] = cur[d]
         /\ pc[c] \in CommitPhase \cup Locked
         /\ pc'[c] # "idle" => cur'[c] = cur[c]
         /\ pc'[c] \in CommitPhase => pc[c] \in CommitPhase
<1> DEFINE Frame ==
      /\ UNCHANGED <<sessions, party, offer, late, expired>>
      /\ \A d \in Chars \ {c} : pc'[d] = pc[d] /\ cur'[d] = cur[d]
      /\ pc[c] \in CommitPhase \cup Locked
      /\ pc'[c] # "idle" => cur'[c] = cur[c]
      /\ pc'[c] \in CommitPhase => pc[c] \in CommitPhase
<1> SUFFICES Frame
  OBVIOUS
<1> USE DEF svcVars, dbVars, histVars
<1>1. pc \in [Chars -> Phase] /\ cur \in [Chars -> 0 .. sessions]
  BY DEF TypeInv, TypeOK
<1>2. /\ TxPhase \subseteq CommitPhase /\ TxPhase \subseteq Locked
      /\ "setnx" \in CommitPhase /\ "rowA" \in TxPhase /\ "check" \in TxPhase
      /\ "write" \in TxPhase /\ {"cleanup", "unlock"} \subseteq Locked \ CommitPhase
      /\ "idle" \notin CommitPhase
  BY DEF CommitPhase, TxPhase, Locked
<1>3. ASSUME NEW p \in TxPhase \cup {"idle", "cleanup", "unlock"}, Goto(c, p)
      PROVE  /\ \A d \in Chars \ {c} : pc'[d] = pc[d] /\ cur'[d] = cur[d]
             /\ pc'[c] = p
             /\ p # "idle" => cur'[c] = cur[c]
  BY <1>1, <1>3 DEF Goto
<1>4. CASE SetNX(c)
  BY <1>2, <1>3, <1>4 DEF SetNX
<1>5. ASSUME NEW at \in TxPhase, NEW x \in Side, NEW next \in TxPhase,
             LockRow(c, at, x, next) \/ MoveItems(c, at, x, next) \/ Credit(c, at, x, next)
      PROVE  Frame
  BY <1>2, <1>3, <1>5 DEF LockRow, MoveItems, Credit
<1>6. ASSUME NEW at \in TxPhase, NEW x \in Side, NEW next \in TxPhase, NEW skip \in TxPhase,
             Debit(c, at, x, next, skip)
      PROVE  Frame
  BY <1>2, <1>3, <1>6 DEF Debit
<1>7. CASE CheckGold(c)
  BY <1>2, <1>3, <1>7 DEF CheckGold, TxPhase
<1>8. CASE WriteTx(c) \/ AbortTx(c)
  BY <1>2, <1>3, <1>8 DEF WriteTx, AbortTx, EndTx
<1>9. CASE Cleanup(c) \/ Unlock(c)
  BY <1>2, <1>3, <1>9 DEF Cleanup, Unlock
<1> HIDE DEF Frame
<1> QED BY <1>4, <1>5, <1>6, <1>7, <1>8, <1>9 DEF CommitStep, Side, TxPhase

LEMMA AgreedStep == TypeInv /\ CommitsAgreed /\ [Next]_vars => CommitsAgreed'
<1> SUFFICES ASSUME TypeInv, CommitsAgreed, [Next]_vars,
                    NEW d \in Chars, pc'[d] \in CommitPhase, cur'[d] \notin late'
             PROVE  BothConfirmed(cur[d])' /\ cur'[d] = cur[d]
  BY DEF CommitsAgreed, BothConfirmed
<1> USE DEF svcVars, dbVars, histVars
<1>1. /\ pc \in [Chars -> Phase] /\ cur \in [Chars -> 0 .. sessions]
      /\ offer \in [Sessions -> [Side -> Offer]]
      /\ "idle" \notin CommitPhase /\ "update" \notin CommitPhase
      /\ "confirm" \notin CommitPhase
  BY DEF TypeInv, TypeOK, CommitPhase, TxPhase
<1>2. ASSUME pc[d] \in CommitPhase, cur[d] \notin late PROVE BothConfirmed(cur[d])
  BY <1>2 DEF CommitsAgreed
<1>3. ASSUME UNCHANGED <<pc, cur, offer, late>> PROVE BothConfirmed(cur[d])' /\ cur'[d] = cur[d]
  BY <1>2, <1>3 DEF BothConfirmed
<1>4. ASSUME NEW c \in Chars, NEW h \in {"update", "confirm"}, Lookup(c, h)
      PROVE  BothConfirmed(cur[d])' /\ cur'[d] = cur[d]
  BY <1>1, <1>2, <1>4 DEF Lookup, BothConfirmed
<1>5. ASSUME NEW c \in Chars, UpdateOffer(c)
      PROVE  BothConfirmed(cur[d])' /\ cur'[d] = cur[d]
  <2>1. d # c /\ pc'[d] = pc[d] /\ cur'[d] = cur[d]
    BY <1>1, <1>5 DEF UpdateOffer, Goto
  <2>2. cur[d] # cur[c]
    BY <1>5, <2>1 DEF UpdateOffer, InCommit
  <2>3. cur[d] \notin late
    BY <1>5, <2>1 DEF UpdateOffer
  <2>4. cur[d] \in Sessions
    BY <1>1, <2>1, HeldSession
  <2>5. offer'[cur[d]] = offer[cur[d]]
    BY <1>1, <1>5, <2>2, <2>4 DEF UpdateOffer
  <2> QED BY <1>2, <2>1, <2>3, <2>5 DEF BothConfirmed
<1>6. ASSUME NEW c \in Chars, Confirm(c)
      PROVE  BothConfirmed(cur[d])' /\ cur'[d] = cur[d]
  <2> DEFINE s == cur[c]
             x == SideOf(s, c)
             mine == [offer[s][x] EXCEPT !.confirmed = TRUE]
  <2>1. s \in Sessions /\ x \in Side /\ offer[s][x] \in Offer
    BY <1>6, HeldSession, SideOfType DEF Confirm
  <2>2. mine.confirmed = TRUE
    BY <2>1 DEF Offer
  <2>3. offer' = [offer EXCEPT ![s][x] = mine]
    BY <1>6 DEF Confirm
  <2> HIDE DEF x, mine
  <2>4. \A r \in Sessions, y \in Side :
          offer[r][y].confirmed => offer'[r][y].confirmed
    BY <1>1, <2>1, <2>2, <2>3
  <2>5. cur'[d] = cur[d] /\ cur[d] \in Sessions
    BY <1>1, <1>6, HeldSession DEF Confirm, Goto
  <2>6. CASE d = c
    <3>1. offer[s][Other(x)].confirmed
      BY <1>1, <1>6, <2>6 DEF Confirm, Goto, x
    <3>2. offer'[s][x].confirmed
      BY <1>1, <2>1, <2>2, <2>3
    <3>3. Side = {x, Other(x)}
      BY <2>1 DEF Side, Other
    <3>4. offer'[s][Other(x)].confirmed
      BY <2>1, <2>4, <3>1, <3>3
    <3>5. \A y \in Side : offer'[s][y].confirmed
      BY <3>2, <3>3, <3>4
    <3> QED BY <2>5, <2>6, <3>5 DEF BothConfirmed, Side
  <2>7. CASE d # c
    <3>1. pc[d] \in CommitPhase /\ cur[d] \notin late
      BY <1>1, <1>6, <2>5, <2>7 DEF Confirm, Goto
    <3> QED BY <1>2, <2>4, <2>5, <3>1 DEF BothConfirmed, Side
  <2> QED BY <2>6, <2>7
<1>7. ASSUME NEW c \in Chars, CommitStep(c)
      PROVE  BothConfirmed(cur[d])' /\ cur'[d] = cur[d]
  BY <1>1, <1>2, <1>7, CommitFrame DEF BothConfirmed
<1> QED BY <1>3, <1>4, <1>5, <1>6, <1>7 DEF Next, vars, AcceptTrade, Cancel,
           LockExpire, ToggleEquip

\* Commit runs only for offers both sides have confirmed, unless one of them
\* is rewritten after it began.
THEOREM AgreedCorrect == Spec => []CommitsAgreed
<1>1. Init => CommitsAgreed
  BY DEF Init, CommitsAgreed, CommitPhase, TxPhase
<1> QED BY <1>1, TypeInit, TypeStep, AgreedStep, PTL DEF Spec

\* The sides of a session never change once it is made.
LEMMA PartyFrame ==
  ASSUME TypeInv, [Next]_vars, NEW d \in Chars, pc[d] # "idle"
  PROVE  party'[cur[d]] = party[cur[d]]
<1> USE DEF svcVars
<1>1. cur[d] \in 1 .. sessions /\ cur[d] \in Sessions
  BY HeldSession DEF TypeInv, Holding
<1>2. CASE \E a, b \in Chars : AcceptTrade(a, b)
  <2>1. party \in [Sessions -> [Side -> Chars \cup {0}]] /\ sessions \in Nat
    BY TradeAssumption DEF TypeInv, TypeOK
  <2> QED BY <1>1, <1>2, <2>1 DEF AcceptTrade
<1>3. CASE \E c \in Chars : CommitStep(c)
  BY <1>3, CommitFrame
<1> QED BY <1>2, <1>3 DEF Next, vars, Lookup, UpdateOffer, Confirm, Cancel,
           LockExpire, ToggleEquip

\* A goroutine in the locked part of Commit still has its key, and no other
\* goroutine there has the same one, as long as no key has expired.
KeyHeld == expired = 0 => \A c \in Chars : pc[c] \in Locked => Key(cur[c]) \in keys

LEMMA ExclusiveStep ==
  TypeInv /\ KeyHeld /\ PairExclusive /\ [Next]_vars => (KeyHeld /\ PairExclusive)'
<1> SUFFICES ASSUME TypeInv, KeyHeld, PairExclusive, [Next]_vars
             PROVE  (KeyHeld /\ PairExclusive)'
  OBVIOUS
<1> USE DEF svcVars, dbVars, histVars
<1>1. /\ pc \in [Chars -> Phase] /\ cur \in [Chars -> 0 .. sessions]
      /\ expired \in Nat
  BY DEF TypeInv, TypeOK
<1>2. /\ {"idle", "setnx", "update", "confirm"} \cap Locked = {}
      /\ "unlock" \in Locked
  BY DEF Locked, TxPhase
<1>3. \A c \in Chars : pc[c] \in Locked /\ cur'[c] = cur[c] => Key(cur[c])' = Key(cur[c])
  BY <1>2, PartyFrame DEF Key
<1>4. ASSUME expired' = expired, keys \subseteq keys',
             \A c \in Chars : pc'[c] \in Locked => pc[c] \in Locked /\ cur'[c] = cur[c]
      PROVE  (KeyHeld /\ PairExclusive)'
  BY <1>3, <1>4 DEF KeyHeld, PairExclusive
<1>5. ASSUME NEW c \in Chars, CommitStep(c) PROVE (KeyHeld /\ PairExclusive)'
  <2>1. CASE SetNX(c)
    <3>1. CASE Key(cur[c]) \in keys
      BY <1>1, <1>2, <1>4, <2>1, <3>1 DEF SetNX, Goto
    <3>2. CASE Key(cur[c]) \notin keys
      <4>1. /\ keys' = keys \cup {Key(cur[c])} /\ expired' = expired
            /\ cur' = cur
            /\ \A d \in Chars \ {c} : pc'[d] = pc[d]
            /\ UNCHANGED party
        BY <1>1, <2>1, <3>2 DEF SetNX, Goto
      <4>2. \A d \in Chars : Key(cur[d])' = Key(cur[d])
        BY <4>1 DEF Key
      <4> QED BY <3>2, <4>1, <4>2 DEF KeyHeld, PairExclusive
    <3> QED BY <3>1, <3>2
  <2>2. CASE Unlock(c)
    <3>1. /\ keys' = keys \ {Key(cur[c])} /\ expired' = expired
          /\ pc'[c] = "idle"
          /\ \A d \in Chars \ {c} : pc'[d] = pc[d] /\ cur'[d] = cur[d]
          /\ pc[c] = "unlock"
      BY <1>1, <2>2 DEF Unlock, Goto
    <3> QED BY <1>2, <1>3, <3>1 DEF KeyHeld, PairExclusive
  <2>3. CASE ~SetNX(c) /\ ~Unlock(c)
    <3>1. UNCHANGED keys /\ pc[c] \in Locked /\ pc'[c] # "idle"
      BY <1>1, <1>5, <2>3 DEF CommitStep, LockRow, CheckGold, MoveItems, Debit, Credit,
         WriteTx, AbortTx, EndTx, Cleanup, Goto, Locked, TxPhase
    <3> QED BY <1>4, <1>5, <3>1, CommitFrame
  <2> QED BY <2>1, <2>2, <2>3
<1>6. ASSUME NEW k \in SUBSET Chars, LockExpire(k) PROVE (KeyHeld /\ PairExclusive)'
  BY <1>1, <1>6 DEF LockExpire, KeyHeld, PairExclusive
<1>7. ASSUME NEW c \in Chars, NEW h \in {"update", "confirm"}, Lookup(c, h)
      PROVE  (KeyHeld /\ PairExclusive)'
  BY <1>1, <1>2, <1>4, <1>7 DEF Lookup
<1>8. ASSUME NEW c \in Chars, UpdateOffer(c) \/ Confirm(c)
      PROVE  (KeyHeld /\ PairExclusive)'
  BY <1>1, <1>2, <1>4, <1>8 DEF UpdateOffer, Confirm, Goto
<1>9. CASE UNCHANGED <<pc, cur, keys, expired>>
  BY <1>4, <1>9
<1> QED BY <1>5, <1>6, <1>7, <1>8, <1>9 DEF Next, vars, AcceptTrade, Cancel, ToggleEquip

\* The cache lock excludes: one Commit at a time for a pair of characters, as
\* long as no key outlives its TTL.
THEOREM ExclusiveCorrect == Spec => []PairExclusive
<1>1. Init => KeyHeld /\ PairExclusive
  BY DEF Init, KeyHeld, PairExclusive, Locked, TxPhase
<1> QED BY <1>1, TypeInit, TypeStep, ExclusiveStep, PTL DEF Spec

-----------------------------------------------------------------------------
(* Gold *)

\* Goroutines act only in sessions of their own character, so nobody confirms
\* side B of a trade with oneself and no such trade reaches Commit.
OwnSession ==
  /\ \A c \in Chars : active[c] # 0 => c \in Key(active[c])
  /\ \A c \in Chars : pc[c] # "idle" => c \in Key(cur[c])
  /\ \A s \in Sessions :
       s > sessions \/ party[s]["A"] = party[s]["B"] => ~offer[s]["B"].confirmed

Checked == {"itemsA", "itemsB", "debitA", "creditB", "debitB", "creditA", "write"}

\* A transaction past a row lock holds that row.
RowsLocked ==
  \A c \in Chars :
    /\ pc[c] \in Checked \cup {"rowB", "check"} => rowLock[party[cur[c]]["A"]] = c
    /\ pc[c] \in Checked \cup {"check"} => rowLock[party[cur[c]]["B"]] = c

\* What the open transaction of c has added to either side's gold so far, when
\* nobody rewrites the offers, and what CheckGold has established for it.
Ledger(c) ==
  LET a == offer[cur[c]]["A"].gold
      b == offer[cur[c]]["B"].gold
  IN /\ delta[c]["A"] = (IF pc[c] = "write" THEN b ELSE 0)
          - (IF pc[c] \in {"creditB", "debitB", "creditA", "write"} THEN a ELSE 0)
     /\ delta[c]["B"] = (IF pc[c] \in {"debitB", "creditA", "write"} THEN a ELSE 0)
          - (IF pc[c] \in {"creditA", "write"} THEN b ELSE 0)
     /\ pc[c] \in Checked => /\ a <= gold[party[cur[c]]["A"]]
                             /\ b <= gold[party[cur[c]]["B"]]

Ledgers ==
  \A c \in Chars :
    /\ pc[c] \notin TxPhase => delta[c] = NoGold
    /\ pc[c] \in TxPhase /\ cur[c] \notin late => Ledger(c)

GoldInv == TypeInv /\ CommitsAgreed /\ OwnSession /\ RowsLocked /\ Ledgers

LEMMA OwnSessionStep == TypeInv /\ OwnSession /\ [Next]_vars => OwnSession'
<1> SUFFICES ASSUME TypeInv, OwnSession, [Next]_vars PROVE OwnSession'
  OBVIOUS
<1> USE DEF svcVars, dbVars, histVars
<1>1. /\ pc \in [Chars -> Phase] /\ cur \in [Chars -> 0 .. sessions]
      /\ active \in [Chars -> 0 .. sessions]
      /\ offer \in [Sessions -> [Side -> Offer]]
      /\ party \in [Sessions -> [Side -> Chars \cup {0}]]
      /\ sessions \in Nat /\ 1 .. sessions \subseteq Sessions
  BY TradeAssumption DEF TypeInv, TypeOK, Sessions
<1>2. CASE UNCHANGED <<active, sessions, party, offer, pc, cur>>
  BY <1>2 DEF OwnSession, Key
<1>3. ASSUME NEW a \in Chars, NEW b \in Chars, AcceptTrade(a, b) PROVE OwnSession'
  <2> DEFINE sides == [x \in Side |-> IF x = "A" THEN a ELSE b]
  <2>1. /\ sessions' = sessions + 1 /\ sessions' \in Sessions
        /\ party' = [party EXCEPT ![sessions'] = sides]
        /\ UNCHANGED <<offer, pc, cur>>
    BY <1>1, <1>3, TradeAssumption DEF AcceptTrade, TypeInv, TypeOK, Sessions
  <2>2. active' = [active EXCEPT ![a] = sessions', ![b] = sessions']
    BY <1>3 DEF AcceptTrade
  <2>3. party'[sessions']["A"] = a /\ party'[sessions']["B"] = b
    BY <1>1, <2>1 DEF Side
  <2>4. \A s \in Sessions \ {sessions'} : party'[s] = party[s]
    BY <1>1, <2>1
  <2>5. \A c \in Chars : active'[c] # 0 => c \in Key(active[c])'
    <3> SUFFICES ASSUME NEW c \in Chars, active'[c] # 0 PROVE c \in Key(active[c])'
      OBVIOUS
    <3>1. CASE c \in {a, b}
      BY <1>1, <2>2, <2>3, <3>1 DEF Key
    <3>2. CASE c \notin {a, b}
      <4>1. active'[c] = active[c]
        BY <1>1, <2>2, <3>2
      <4>2. active[c] \in Sessions \ {sessions'}
        BY <1>1, <2>1, <3>2, <4>1
      <4> QED BY <2>4, <4>1, <4>2 DEF OwnSession, Key
    <3> QED BY <3>1, <3>2
  <2>6. \A c \in Chars : pc'[c] # "idle" => c \in Key(cur[c])'
    BY <1>1, <2>1, PartyFrame DEF OwnSession, Key
  <2>7. \A s \in Sessions : s > sessions' \/ party'[s]["A"] = party'[s]["B"] =>
                              ~offer'[s]["B"].confirmed
    <3> SUFFICES ASSUME NEW s \in Sessions,
                        s > sessions' \/ party'[s]["A"] = party'[s]["B"]
                 PROVE  ~offer[s]["B"].confirmed
      BY <2>1
    <3>1. CASE s > sessions
      BY <3>1 DEF OwnSession
    <3>2. CASE ~(s > sessions)
      <4>1. s \in Sessions \ {sessions'} /\ ~(s > sessions')
        BY <1>1, <2>1, <3>2 DEF Sessions
      <4>2. party[s]["A"] = party[s]["B"]
        BY <2>4, <4>1
      <4> QED BY <4>2 DEF OwnSession
    <3> QED BY <3>1, <3>2
  <2> QED BY <2>5, <2>6, <2>7 DEF OwnSession
<1>4. ASSUME NEW c \in Chars, NEW h \in {"update", "confirm"}, Lookup(c, h)
      PROVE  OwnSession'
  BY <1>1, <1>4 DEF Lookup, OwnSession, Key
<1>5. ASSUME NEW c \in Chars, UpdateOffer(c) PROVE OwnSession'
  <2>1. PICK items \in SUBSET Items, g \in Amounts :
          offer' = [offer EXCEPT ![cur[c]][SideOf(cur[c], c)] =
                      [items |-> items, gold |-> g, confirmed |-> FALSE]]
    BY <1>5 DEF UpdateOffer
  <2>2. \A s \in Sessions : offer'[s]["B"].confirmed => offer[s]["B"].confirmed
    BY <1>1, <2>1 DEF Side
  <2>3. UNCHANGED <<active, sessions, party>>
    BY <1>5 DEF UpdateOffer
  <2>4. \A d \in Chars : pc'[d] # "idle" => pc[d] # "idle" /\ cur'[d] = cur[d]
    BY <1>1, <1>5 DEF UpdateOffer, Goto
  <2> QED BY <2>2, <2>3, <2>4 DEF OwnSession, Key
<1>6. ASSUME NEW c \in Chars, Confirm(c) PROVE OwnSession'
  <2> DEFINE x == SideOf(cur[c], c)
             mine == [offer[cur[c]][x] EXCEPT !.confirmed = TRUE]
  <2>1. offer' = [offer EXCEPT ![cur[c]][x] = mine]
    BY <1>6 DEF Confirm
  <2>2. UNCHANGED <<active, sessions, party>>
    BY <1>6 DEF Confirm
  <2>3. \A d \in Chars : pc'[d] # "idle" => pc[d] # "idle" /\ cur'[d] = cur[d]
    BY <1>1, <1>6 DEF Confirm, Goto
  <2>4. cur[c] \in 1 .. sessions /\ c \in Key(cur[c])
    BY <1>6 DEF Confirm, TypeInv, Holding, OwnSession
  <2>5. x = "B" => party[cur[c]]["A"] # party[cur[c]]["B"]
    BY <2>4 DEF SideOf, Key
  <2>6. \A s \in Sessions : s # cur[c] \/ x # "B" => offer'[s]["B"] = offer[s]["B"]
    <3> HIDE DEF mine, x
    <3> QED BY <1>1, <2>1 DEF Side
  <2>7. \A s \in Sessions : s > sessions' \/ party'[s]["A"] = party'[s]["B"] =>
                              ~offer'[s]["B"].confirmed
    <3> HIDE DEF x
    <3> QED BY <1>1, <2>2, <2>4, <2>5, <2>6 DEF OwnSession
  <2> QED BY <2>2, <2>3, <2>7 DEF OwnSession, Key
<1>7. ASSUME NEW c \in Chars, Cancel(c) PROVE OwnSession'
  BY <1>1, <1>7 DEF Cancel, OwnSession, Key
<1>8. ASSUME NEW c \in Chars, CommitStep(c) PROVE OwnSession'
  <2>1. UNCHANGED <<sessions, party, offer>>
    BY <1>8, CommitFrame
  <2>2. \A d \in Chars : pc'[d] # "idle" => pc[d] # "idle" /\ cur'[d] = cur[d]
    BY <1>8, CommitFrame DEF CommitPhase, Locked, TxPhase
  <2>3. \A d \in Chars : active'[d] # 0 => active'[d] = active[d]
    BY <1>1, <1>8 DEF CommitStep, SetNX, LockRow, CheckGold, MoveItems, Debit, Credit,
       WriteTx, AbortTx, Cleanup, Unlock
  <2> QED BY <2>1, <2>2, <2>3 DEF OwnSession, Key
<1> QED BY <1>2, <1>3, <1>4, <1>5, <1>6, <1>7, <1>8 DEF Next, vars, LockExpire, ToggleEquip

\* No step of another goroutine takes a locked row away.
LEMMA RowKept ==
  ASSUME TypeInv, [Next]_vars, NEW c \in Chars, NEW r \in Chars, rowLock[r] = c,
         pc'[c] \in TxPhase
  PROVE  rowLock'[r] = c
<1> USE DEF svcVars, dbVars, histVars
<1>1. /\ rowLock \in [Chars -> Chars \cup {0}] /\ c # 0
      /\ pc \in [Chars -> Phase]
  BY TradeAssumption DEF TypeInv, TypeOK
<1>2. ASSUME NEW d \in Chars, CommitStep(d) PROVE rowLock'[r] = c
  <2>1. ASSUME NEW at, NEW x, NEW next, LockRow(d, at, x, next) PROVE rowLock'[r] = c
    BY <1>1, <2>1 DEF LockRow
  <2>2. ASSUME EndTx(d) PROVE rowLock'[r] = c
    <3>1. d # c
      BY <1>1, <2>2 DEF EndTx, Goto, TxPhase
    <3> QED BY <1>1, <2>2, <3>1 DEF EndTx
  <2> QED BY <1>2, <2>1, <2>2 DEF CommitStep, SetNX, CheckGold, MoveItems, Debit, Credit,
             WriteTx, AbortTx, Cleanup, Unlock
<1> QED BY <1>2 DEF Next, vars, AcceptTrade, Lookup, UpdateOffer, Confirm, Cancel,
           LockExpire, ToggleEquip

LEMMA RowsStep == TypeInv /\ RowsLocked /\ [Next]_vars => RowsLocked'
<1> SUFFICES ASSUME TypeInv, RowsLocked, [Next]_vars, NEW c \in Chars,
                    pc'[c] \in Checked \cup {"rowB", "check"}
             PROVE  /\ rowLock'[party'[cur'[c]]["A"]] = c
                    /\ pc'[c] # "rowB" => rowLock'[party'[cur'[c]]["B"]] = c
  BY DEF RowsLocked, Checked
<1> USE DEF svcVars, dbVars, histVars
<1>1. /\ pc \in [Chars -> Phase] /\ cur \in [Chars -> 0 .. sessions]
      /\ pc'[c] \in TxPhase
  BY DEF TypeInv, TypeOK, TxPhase, Checked
<1>2. ASSUME pc[c] = pc'[c] \/ pc[c] \in Checked \cup {"check"}, cur'[c] = cur[c]
      PROVE  /\ rowLock'[party'[cur'[c]]["A"]] = c
             /\ pc'[c] # "rowB" => rowLock'[party'[cur'[c]]["B"]] = c
  <2>1. pc[c] \in Checked \cup {"rowB", "check"} /\ pc[c] # "idle"
    BY <1>2 DEF Checked
  <2>2. party'[cur[c]] = party[cur[c]]
    BY <2>1, PartyFrame
  <2>3. party[cur[c]]["A"] \in Chars /\ party[cur[c]]["B"] \in Chars
    BY <2>1, HeldSession DEF Side
  <2> QED BY <1>1, <1>2, <2>1, <2>2, <2>3, RowKept DEF RowsLocked
<1>3. CASE CommitStep(c)
  <2>1. party' = party /\ cur'[c] = cur[c] /\ pc[c] # "idle"
    BY <1>1, <1>3, CommitFrame DEF TxPhase, CommitPhase, Locked
  <2>2. party[cur[c]]["A"] \in Chars /\ party[cur[c]]["B"] \in Chars
    BY <2>1, HeldSession DEF Side
  <2>3. CASE LockRow(c, "rowA", "A", "rowB")
    <3>1. rowLock'[party[cur[c]]["A"]] = c /\ pc'[c] = "rowB"
      BY <1>1, <2>2, <2>3 DEF LockRow, Goto, TypeInv, TypeOK
    <3> QED BY <2>1, <3>1
  <2>4. CASE LockRow(c, "rowB", "B", "check")
    <3>1. rowLock'[party[cur[c]]["B"]] = c
      BY <2>2, <2>4 DEF LockRow, TypeInv, TypeOK
    <3>2. rowLock[party[cur[c]]["A"]] = c
      BY <2>4 DEF LockRow, RowsLocked
    <3> QED BY <1>1, <2>1, <2>2, <3>1, <3>2, RowKept
  <2>5. CASE ~LockRow(c, "rowA", "A", "rowB") /\ ~LockRow(c, "rowB", "B", "check")
    <3>1. pc[c] \in Checked \cup {"check"}
      BY <1>1, <1>3, <2>5 DEF CommitStep, SetNX, CheckGold, MoveItems, Debit, Credit,
         WriteTx, AbortTx, EndTx, Cleanup, Unlock, Goto, Checked
    <3> QED BY <1>2, <2>1, <3>1
  <2> QED BY <2>3, <2>4, <2>5
<1>4. ASSUME NEW d \in Chars, d # c, CommitStep(d)
      PROVE  pc[c] = pc'[c] /\ cur'[c] = cur[c]
  BY <1>4, CommitFrame
<1>5. ASSUME NEW d \in Chars, NEW h \in {"update", "confirm"}, Lookup(d, h)
      PROVE  pc[c] = pc'[c] /\ cur'[c] = cur[c]
  BY <1>1, <1>5 DEF Lookup, TxPhase
<1>6. ASSUME NEW d \in Chars, UpdateOffer(d) \/ Confirm(d)
      PROVE  pc[c] = pc'[c] /\ cur'[c] = cur[c]
  BY <1>1, <1>6 DEF UpdateOffer, Confirm, Goto, TxPhase
<1> QED BY <1>2, <1>3, <1>4, <1>5, <1>6 DEF Next, vars, AcceptTrade, Cancel, LockExpire,
           ToggleEquip

\* Between the statements of a transaction nobody changes what it relies on:
\* the amounts offered (or the session becomes late) and the gold of both rows.
LEMMA LedgerFrame ==
  ASSUME GoldInv, [Next]_vars, NEW c \in Chars, pc[c] \in TxPhase, ~WriteTx(c),
         cur[c] \notin late'
  PROVE  /\ cur[c] \notin late
         /\ \A x \in Side : offer'[cur[c]][x].gold = offer[cur[c]][x].gold
         /\ pc[c] \in Checked =>
              \A x \in Side : gold'[party[cur[c]][x]] = gold[party[cur[c]][x]]
<1> USE DEF svcVars, dbVars, histVars
<1>1. /\ offer \in [Sessions -> [Side -> Offer]]
      /\ gold \in [Chars -> Int]
      /\ pc[c] # "idle" /\ cur[c] \in Sessions
      /\ pc[c] \in CommitPhase
      /\ \A x \in Side : party[cur[c]][x] \in Chars
  BY HeldSession DEF GoldInv, TypeInv, TypeOK, TxPhase, CommitPhase
<1>2. cur[c] \notin late
  BY CommitFrame DEF Next, vars, AcceptTrade, Lookup, UpdateOffer, Confirm, Cancel,
     LockExpire, ToggleEquip, GoldInv
<1>3. \A x \in Side : offer'[cur[c]][x].gold = offer[cur[c]][x].gold
  <2>1. ASSUME NEW d \in Chars, UpdateOffer(d) PROVE offer'[cur[c]] = offer[cur[c]]
    <3>1. cur[d] # cur[c]
      BY <1>1, <2>1 DEF UpdateOffer, InCommit
    <3> QED BY <1>1, <2>1, <3>1 DEF UpdateOffer
  <2>2. ASSUME NEW d \in Chars, Confirm(d), NEW x \in Side
        PROVE  offer'[cur[c]][x].gold = offer[cur[c]][x].gold
    <3> DEFINE y == SideOf(cur[d], d)
               mine == [offer[cur[d]][y] EXCEPT !.confirmed = TRUE]
    <3>1. cur[d] \in Sessions /\ y \in Side /\ offer[cur[d]][y] \in Offer
      BY <2>2, HeldSession, SideOfType DEF Confirm, GoldInv
    <3>2. mine.gold = offer[cur[d]][y].gold
      BY <3>1 DEF Offer
    <3>3. offer' = [offer EXCEPT ![cur[d]][y] = mine]
      BY <2>2 DEF Confirm
    <3> HIDE DEF y, mine
    <3> QED BY <1>1, <3>1, <3>2, <3>3
  <2>3. ASSUME NEW d \in Chars, CommitStep(d) PROVE offer' = offer
    BY <2>3, CommitFrame DEF GoldInv
  <2> QED BY <2>1, <2>2, <2>3 DEF Next, vars, AcceptTrade, Lookup, Cancel, LockExpire,
             ToggleEquip
<1>4. ASSUME pc[c] \in Checked, NEW x \in Side
      PROVE  gold'[party[cur[c]][x]] = gold[party[cur[c]][x]]
  <2>1. ASSUME NEW d \in Chars, WriteTx(d)
        PROVE  gold'[party[cur[c]][x]] = gold[party[cur[c]][x]]
    <3>1. d # c
      BY <2>1
    <3>2. rowLock[party[cur[c]][x]] = c
      BY <1>4 DEF GoldInv, RowsLocked, Checked, Side
    <3>3. \A r \in Key(cur[d]) : rowLock[r] = d
      BY <2>1 DEF WriteTx, GoldInv, RowsLocked, Checked, Key
    <3>4. party[cur[c]][x] \notin Key(cur[d])
      BY <3>1, <3>2, <3>3
    <3> QED BY <1>1, <2>1, <3>4 DEF WriteTx
  <2> QED BY <2>1 DEF Next, vars, AcceptTrade, Lookup, UpdateOffer, Confirm, Cancel,
         LockExpire, ToggleEquip, CommitStep, SetNX, LockRow, CheckGold, MoveItems,
         Debit, Credit, AbortTx, Cleanup, Unlock
<1> QED BY <1>2, <1>3, <1>4

\* The next statement of the transaction of c books what Ledger says.
LEMMA LedgerOwn ==
  ASSUME GoldInv, NEW c \in Chars, CommitStep(c), pc'[c] \in TxPhase, cur[c] \notin late
  PROVE  Ledger(c)'
<1> USE DEF svcVars, dbVars, histVars
<1> DEFINE s == cur[c]
           A == party[s]["A"]
           B == party[s]["B"]
           a == offer[s]["A"].gold
           b == offer[s]["B"].gold
<1>1. /\ UNCHANGED <<party, offer>> /\ cur'[c] = s
  BY CommitFrame DEF GoldInv, TxPhase
<1>2. /\ delta \in [Chars -> [Side -> Int]] /\ gold \in [Chars -> Int]
      /\ pc \in [Chars -> Phase]
      /\ pc[c] # "idle"
  BY CommitFrame DEF GoldInv, TypeInv, TypeOK, CommitPhase, Locked, TxPhase
<1>3. a \in Nat /\ b \in Nat /\ A \in Chars /\ B \in Chars
  BY <1>2, HeldSession DEF GoldInv, Offer, Side
<1>4. pc[c] \in TxPhase => Ledger(c)
  BY DEF GoldInv, Ledgers
<1> HIDE DEF s, A, B, a, b
<1>5. CASE SetNX(c)
  <2>1. delta[c] = NoGold /\ delta' = delta /\ pc'[c] = "rowA"
    BY <1>2, <1>5 DEF SetNX, Goto, GoldInv, Ledgers, TxPhase
  <2> QED BY <1>1, <1>3, <2>1 DEF Ledger, NoGold, Side, Checked, a, b, s
<1>6. CASE LockRow(c, "rowA", "A", "rowB") \/ LockRow(c, "rowB", "B", "check")
  <2>1. UNCHANGED <<delta, gold>> /\ pc[c] \in {"rowA", "rowB"} /\ pc'[c] \in {"rowB", "check"}
    BY <1>2, <1>6 DEF LockRow, Goto
  <2> QED BY <1>1, <1>3, <1>4, <2>1 DEF Ledger, Checked, TxPhase, a, b, s
<1>7. CASE CheckGold(c)
  <2>1. /\ UNCHANGED <<delta, gold>> /\ pc[c] = "check" /\ pc'[c] = "itemsA"
        /\ a <= gold[A] /\ b <= gold[B]
    BY <1>2, <1>7 DEF CheckGold, Goto, Side, a, b, s, A, B
  <2> QED BY <1>1, <1>3, <1>4, <2>1 DEF Ledger, Checked, TxPhase, a, b, s, A, B
<1>8. CASE \/ MoveItems(c, "itemsA", "A", "itemsB") \/ MoveItems(c, "itemsB", "B", "debitA")
  <2>1. /\ UNCHANGED <<delta, gold>> /\ pc[c] \in {"itemsA", "itemsB"}
        /\ pc'[c] \in {"itemsB", "debitA"}
    BY <1>2, <1>8 DEF MoveItems, Goto
  <2> QED BY <1>1, <1>3, <1>4, <2>1 DEF Ledger, Checked, TxPhase, a, b, s
<1>9. CASE Debit(c, "debitA", "A", "creditB", "debitB")
  <2>1. /\ gold' = gold /\ pc[c] = "debitA"
        /\ pc'[c] = IF a > 0 THEN "creditB" ELSE "debitB"
        /\ delta' = IF a > 0 /\ gold[A] + delta[c]["A"] >= a
                      THEN [delta EXCEPT ![c]["A"] = @ - a] ELSE delta
    BY <1>2, <1>9 DEF Debit, Goto, a, s, A
  <2>2. /\ delta[c]["A"] = 0 /\ delta[c]["B"] = 0
        /\ a <= gold[A] /\ b <= gold[B] /\ gold[A] \in Int
    BY <1>2, <1>3, <1>4, <2>1 DEF Ledger, Checked, TxPhase, a, b, s, A, B
  <2>3. delta'[c]["A"] = 0 - a /\ delta'[c]["B"] = 0
    BY <1>2, <1>3, <2>1, <2>2 DEF Side
  <2> QED BY <1>1, <1>3, <2>1, <2>2, <2>3 DEF Ledger, Checked, a, b, s, A, B
<1>10. CASE Credit(c, "creditB", "A", "debitB")
  <2>1. /\ gold' = gold /\ pc[c] = "creditB" /\ pc'[c] = "debitB"
        /\ delta' = [delta EXCEPT ![c]["B"] = @ + a]
    BY <1>2, <1>10 DEF Credit, Goto, Other, a, s
  <2>2. /\ delta[c]["A"] = 0 - a /\ delta[c]["B"] = 0
        /\ a <= gold[A] /\ b <= gold[B]
    BY <1>2, <1>3, <1>4, <2>1 DEF Ledger, Checked, TxPhase, a, b, s, A, B
  <2>3. delta'[c]["A"] = 0 - a /\ delta'[c]["B"] = a
    BY <1>2, <1>3, <2>1, <2>2 DEF Side
  <2> QED BY <1>1, <1>3, <2>1, <2>2, <2>3 DEF Ledger, Checked, a, b, s, A, B
<1>11. CASE Debit(c, "debitB", "B", "creditA", "write")
  <2>1. /\ gold' = gold /\ pc[c] = "debitB"
        /\ pc'[c] = IF b > 0 THEN "creditA" ELSE "write"
        /\ delta' = IF b > 0 /\ gold[B] + delta[c]["B"] >= b
                      THEN [delta EXCEPT ![c]["B"] = @ - b] ELSE delta
    BY <1>2, <1>11 DEF Debit, Goto, b, s, B
  <2>2. /\ delta[c]["A"] = 0 - a /\ delta[c]["B"] = a
        /\ a <= gold[A] /\ b <= gold[B] /\ gold[B] \in Int
    BY <1>2, <1>3, <1>4, <2>1 DEF Ledger, Checked, TxPhase, a, b, s, A, B
  <2>3. delta'[c]["A"] = 0 - a /\ delta'[c]["B"] = a - b
    BY <1>2, <1>3, <2>1, <2>2 DEF Side
  <2> QED BY <1>1, <1>3, <2>1, <2>2, <2>3 DEF Ledger, Checked, a, b, s, A, B
<1>12. CASE Credit(c, "creditA", "B", "write")
  <2>1. /\ gold' = gold /\ pc[c] = "creditA" /\ pc'[c] = "write"
        /\ delta' = [delta EXCEPT ![c]["A"] = @ + b]
    BY <1>2, <1>12 DEF Credit, Goto, Other, b, s
  <2>2. /\ delta[c]["A"] = 0 - a /\ delta[c]["B"] = a - b
        /\ a <= gold[A] /\ b <= gold[B]
    BY <1>2, <1>3, <1>4, <2>1 DEF Ledger, Checked, TxPhase, a, b, s, A, B
  <2>3. delta'[c]["A"] = b - a /\ delta'[c]["B"] = a - b
    BY <1>2, <1>3, <2>1, <2>2 DEF Side
  <2> QED BY <1>1, <1>3, <2>1, <2>2, <2>3 DEF Ledger, Checked, a, b, s, A, B
<1>13. ~WriteTx(c) /\ ~AbortTx(c) /\ ~Cleanup(c) /\ ~Unlock(c)
  BY <1>2 DEF WriteTx, AbortTx, EndTx, Cleanup, Unlock, Goto, TxPhase
<1> QED BY <1>5, <1>6, <1>7, <1>8, <1>9, <1>10, <1>11, <1>12, <1>13 DEF CommitStep

LEMMA LedgersStep == GoldInv /\ [Next]_vars => Ledgers'
<1> SUFFICES ASSUME GoldInv, [Next]_vars, NEW c \in Chars
             PROVE  /\ pc'[c] \notin TxPhase => delta'[c] = NoGold
                    /\ pc'[c] \in TxPhase /\ cur'[c] \notin late' => Ledger(c)'
  BY DEF Ledgers
<1> USE DEF svcVars, dbVars, histVars
<1>1. /\ delta \in [Chars -> [Side -> Int]]
      /\ pc \in [Chars -> Phase] /\ cur \in [Chars -> 0 .. sessions]
  BY DEF GoldInv, TypeInv, TypeOK
<1>2. CASE CommitStep(c)
  <2>1. ASSUME pc'[c] \notin TxPhase PROVE delta'[c] = NoGold
    <3>1. CASE EndTx(c)
      BY <1>1, <3>1 DEF EndTx
    <3>2. CASE SetNX(c) \/ Cleanup(c) \/ Unlock(c)
      BY <3>2 DEF SetNX, Cleanup, Unlock, GoldInv, Ledgers, TxPhase
    <3> QED BY <1>1, <1>2, <2>1, <3>1, <3>2 DEF CommitStep, LockRow, CheckGold, MoveItems,
               Debit, Credit, WriteTx, AbortTx, Goto, TxPhase
  <2>2. ASSUME pc'[c] \in TxPhase, cur'[c] \notin late' PROVE Ledger(c)'
    <3>1. cur[c] \notin late
      BY <1>2, <2>2, CommitFrame DEF GoldInv, TxPhase
    <3> QED BY <1>2, <2>2, <3>1, LedgerOwn
  <2> QED BY <2>1, <2>2
<1>3. CASE ~CommitStep(c)
  <2>1. delta'[c] = delta[c]
    <3>1. ASSUME NEW d \in Chars, d # c, CommitStep(d) PROVE delta'[c] = delta[c]
      BY <1>1, <3>1 DEF CommitStep, SetNX, LockRow, CheckGold, MoveItems, Debit, Credit,
         WriteTx, AbortTx, EndTx, Cleanup, Unlock
    <3> QED BY <1>3, <3>1 DEF Next, vars, AcceptTrade, Lookup, UpdateOffer, Confirm, Cancel,
               LockExpire, ToggleEquip
  <2>2. (pc[c] \in TxPhase \/ pc'[c] \in TxPhase) => pc'[c] = pc[c] /\ cur'[c] = cur[c]
    <3>1. ASSUME NEW d \in Chars, CommitStep(d) PROVE pc'[c] = pc[c] /\ cur'[c] = cur[c]
      BY <1>3, <3>1, CommitFrame DEF GoldInv
    <3>2. ASSUME NEW d \in Chars, NEW h \in {"update", "confirm"}, Lookup(d, h),
                 pc[c] \in TxPhase \/ pc'[c] \in TxPhase
          PROVE  pc'[c] = pc[c] /\ cur'[c] = cur[c]
      BY <1>1, <3>2 DEF Lookup, TxPhase
    <3>3. ASSUME NEW d \in Chars, UpdateOffer(d) \/ Confirm(d),
                 pc[c] \in TxPhase \/ pc'[c] \in TxPhase
          PROVE  pc'[c] = pc[c] /\ cur'[c] = cur[c]
      BY <1>1, <3>3 DEF UpdateOffer, Confirm, Goto, TxPhase
    <3> QED BY <3>1, <3>2, <3>3 DEF Next, vars, AcceptTrade, Cancel, LockExpire, ToggleEquip
  <2>3. ASSUME pc'[c] \in TxPhase, cur'[c] \notin late' PROVE Ledger(c)'
    <3>1. /\ pc[c] \in TxPhase /\ pc'[c] = pc[c] /\ cur'[c] = cur[c] /\ ~WriteTx(c)
          /\ pc[c] # "idle"
      BY <1>3, <2>2, <2>3 DEF CommitStep, TxPhase
    <3>2. /\ cur[c] \notin late
          /\ \A x \in Side : offer'[cur[c]][x].gold = offer[cur[c]][x].gold
          /\ pc[c] \in Checked =>
               \A x \in Side : gold'[party[cur[c]][x]] = gold[party[cur[c]][x]]
      BY <2>3, <3>1, LedgerFrame
    <3>3. party'[cur[c]] = party[cur[c]]
      BY <3>1, PartyFrame DEF GoldInv
    <3>4. Ledger(c)
      BY <3>1, <3>2 DEF GoldInv, Ledgers
    <3> QED BY <2>1, <3>1, <3>2, <3>3, <3>4 DEF Ledger, Side
  <2>4. ASSUME pc'[c] \notin TxPhase PROVE delta'[c] = NoGold
    BY <2>1, <2>2, <2>4 DEF GoldInv, Ledgers
  <2> QED BY <2>3, <2>4
<1> QED BY <1>2, <1>3

LEMMA GoldInit == Init => GoldInv
<1> SUFFICES ASSUME Init PROVE GoldInv
  OBVIOUS
<1>1. CommitsAgreed /\ RowsLocked /\ Ledgers
  BY DEF Init, CommitsAgreed, RowsLocked, Ledgers, CommitPhase, TxPhase, Checked
<1>2. OwnSession
  BY DEF Init, OwnSession, EmptyOffer, Side
<1> QED BY <1>1, <1>2, TypeInit DEF GoldInv

LEMMA GoldStep == GoldInv /\ [Next]_vars => GoldInv'
BY TypeStep, AgreedStep, OwnSessionStep, RowsStep, LedgersStep DEF GoldInv

\* What the commit of a transaction nobody disturbed does to gold.
LEMMA WriteBalance ==
  ASSUME GoldInv, NEW c \in Chars, WriteTx(c), cur[c] \notin late
  PROVE  \E x, y \in Chars :
           /\ x # y
           /\ gold'[x] + gold'[y] = gold[x] + gold[y]
           /\ \A z \in Chars \ {x, y} : gold'[z] = gold[z]
           /\ gold'[x] >= 0 /\ gold'[y] >= 0
<1> DEFINE s == cur[c]
           A == party[s]["A"]
           B == party[s]["B"]
           a == offer[s]["A"].gold
           b == offer[s]["B"].gold
<1>1. /\ gold \in [Chars -> Int] /\ pc[c] = "write" /\ s \in Sessions
      /\ A \in Chars /\ B \in Chars /\ a \in Nat /\ b \in Nat
  BY HeldSession DEF WriteTx, GoldInv, TypeInv, TypeOK, Side, Offer
<1>2. A # B
  BY <1>1 DEF GoldInv, CommitsAgreed, BothConfirmed, OwnSession, CommitPhase, TxPhase
<1>3. /\ delta[c]["A"] = b - a /\ delta[c]["B"] = a - b
      /\ a <= gold[A] /\ b <= gold[B]
  BY <1>1 DEF GoldInv, Ledgers, Ledger, TxPhase, Checked
<1>4. gold' = [d \in Chars |-> IF d \in {A, B} THEN gold[d] + delta[c][SideOf(s, d)]
                                                ELSE gold[d]]
  BY DEF WriteTx, Key
<1>5. SideOf(s, A) = "A" /\ SideOf(s, B) = "B"
  BY <1>2 DEF SideOf
<1> HIDE DEF s, A, B, a, b
<1>6. /\ gold'[A] = gold[A] + (b - a) /\ gold'[B] = gold[B] + (a - b)
      /\ \A z \in Chars \ {A, B} : gold'[z] = gold[z]
  BY <1>1, <1>3, <1>4, <1>5
<1>7. /\ gold'[A] + gold'[B] = gold[A] + gold[B]
      /\ gold'[A] >= 0 /\ gold'[B] >= 0
  <2>1. gold[A] \in Int /\ gold[B] \in Int
    BY <1>1
  <2> QED BY <1>1, <1>3, <1>6, <2>1
<1> QED BY <1>1, <1>2, <1>6, <1>7

\* Only the commit of a transaction changes gold.
LEMMA GoldFrame ==
  ASSUME [Next]_vars, gold' # gold PROVE \E c \in Chars : WriteTx(c)
BY DEF Next, vars, dbVars, AcceptTrade, Lookup, UpdateOffer, Confirm, Cancel, LockExpire,
   ToggleEquip, CommitStep, SetNX, LockRow, CheckGold, MoveItems, Debit, Credit, AbortTx,
   Cleanup, Unlock

\* Trading neither makes nor loses gold, in every interleaving of handlers in
\* which no offer is rewritten under a running Commit.
THEOREM GoldIsConserved == Spec => GoldConserved
<1>1. GoldInv /\ [Next]_vars => [GoldMoves]_vars
  <2> SUFFICES ASSUME GoldInv, [Next]_vars, gold' # gold PROVE GoldMoves
    BY DEF GoldMoves
  <2>1. PICK c \in Chars : WriteTx(c)
    BY GoldFrame
  <2>2. CASE cur[c] \in late
    <3>1. cur[c] \in Sessions /\ commits \in [Sessions -> Nat]
      BY <2>1, HeldSession DEF WriteTx, GoldInv, TypeInv, TypeOK
    <3>2. commits'[cur[c]] # commits[cur[c]]
      BY <2>1, <3>1 DEF WriteTx
    <3> QED BY <2>2, <3>2 DEF GoldMoves
  <2>3. CASE cur[c] \notin late
    BY <2>1, <2>3, WriteBalance DEF GoldMoves
  <2> QED BY <2>2, <2>3
<1> QED BY <1>1, GoldInit, GoldStep, PTL DEF Spec, GoldConserved

\* Nor does it leave anybody with less than nothing.
THEOREM GoldStaysNonNegative == Spec => []GoldNonNegative
<1>1. Init => GoldNonNegative
  BY TradeAssumption DEF Init, GoldNonNegative
<1>2. GoldInv /\ GoldNonNegative /\ [Next]_vars => GoldNonNegative'
  <2> SUFFICES ASSUME GoldInv, GoldNonNegative, [Next]_vars, late' = {}
               PROVE  \A d \in Chars : gold'[d] >= 0
    BY DEF GoldNonNegative
  <2>1. late = {}
    BY DEF Next, vars, dbVars, histVars, AcceptTrade, Lookup, UpdateOffer, Confirm, Cancel,
       LockExpire, ToggleEquip, CommitStep, SetNX, LockRow, CheckGold, MoveItems, Debit,
       Credit, WriteTx, AbortTx, Cleanup, Unlock
  <2>2. CASE gold' = gold
    BY <2>1, <2>2 DEF GoldNonNegative
  <2>3. CASE gold' # gold
    BY <2>1, <2>3, GoldFrame, WriteBalance DEF GoldNonNegative
  <2> QED BY <2>2, <2>3
<1> QED BY <1>1, <1>2, GoldInit, GoldStep, PTL DEF Spec

-----------------------------------------------------------------------------
(* Locks are given back *)

\* A goroutine leaves the locked part of Commit by Unlock only, and the open
\* transaction by EndTx only.
LEMMA LeakStep == TypeInv /\ NoLeakedLock /\ [Next]_vars => NoLeakedLock'
<1> SUFFICES ASSUME TypeInv, NoLeakedLock, [Next]_vars PROVE NoLeakedLock'
  OBVIOUS
<1> USE DEF svcVars, dbVars, histVars
<1>1. /\ pc \in [Chars -> Phase] /\ cur \in [Chars -> 0 .. sessions]
      /\ rowLock \in [Chars -> Chars \cup {0}] /\ 0 \notin Chars
      /\ TxPhase \subseteq Locked /\ {"cleanup", "unlock"} \subseteq Locked
      /\ "idle" \notin Locked /\ "setnx" \notin Locked
      /\ "update" \notin Locked /\ "confirm" \notin Locked
  BY TradeAssumption DEF TypeInv, TypeOK, Locked, TxPhase
<1>2. \A d \in Chars : pc[d] \in Locked /\ cur'[d] = cur[d] => Key(cur[d])' = Key(cur[d])
  BY <1>1, PartyFrame DEF Key
<1>3. ASSUME keys' \subseteq keys, rowLock' = rowLock,
             \A d \in Chars : pc[d] \in Locked => pc'[d] = pc[d] /\ cur'[d] = cur[d]
      PROVE  NoLeakedLock'
  BY <1>1, <1>2, <1>3 DEF NoLeakedLock
<1>4. ASSUME NEW c \in Chars, CommitStep(c) PROVE NoLeakedLock'
  <2>1. /\ \A d \in Chars \ {c} : pc'[d] = pc[d] /\ cur'[d] = cur[d]
        /\ pc[c] # "idle" /\ (pc'[c] # "idle" => cur'[c] = cur[c])
        /\ UNCHANGED party
    BY <1>4, CommitFrame DEF CommitPhase, Locked, TxPhase
  <2>2. \A d \in Chars \ {c} : Key(cur[d])' = Key(cur[d])
    BY <2>1 DEF Key
  <2>3. ASSUME keys' = keys, pc'[c] \in Locked
        PROVE  \A k \in keys' : \E d \in Chars : pc'[d] \in Locked /\ Key(cur[d])' = k
    <3>1. Key(cur[c])' = Key(cur[c])
      BY <1>1, <2>1, <2>3 DEF Key
    <3> QED BY <2>1, <2>2, <2>3, <3>1 DEF NoLeakedLock
  <2>4. ASSUME rowLock' = rowLock, pc[c] \in TxPhase => pc'[c] \in TxPhase
        PROVE  \A r \in Chars : rowLock'[r] # 0 => pc'[rowLock'[r]] \in TxPhase
    BY <1>1, <2>1, <2>4 DEF NoLeakedLock
  <2>5. CASE SetNX(c)
    <3>1. keys' \subseteq keys \cup {Key(cur[c])} /\ rowLock' = rowLock /\ pc[c] = "setnx"
      BY <2>5 DEF SetNX
    <3>2. keys' = keys \/ pc'[c] = "rowA"
      BY <1>1, <2>5 DEF SetNX, Goto
    <3>3. pc'[c] = "rowA" => Key(cur[c])' = Key(cur[c])
      BY <2>1 DEF Key
    <3>4. \A k \in keys' : \E d \in Chars : pc'[d] \in Locked /\ Key(cur[d])' = k
      <4> SUFFICES ASSUME NEW k \in keys'
                   PROVE  \E d \in Chars : pc'[d] \in Locked /\ Key(cur[d])' = k
        OBVIOUS
      <4>1. CASE k \in keys
        BY <1>1, <2>1, <2>2, <3>1, <4>1 DEF NoLeakedLock
      <4>2. CASE k \notin keys
        <5>1. k = Key(cur[c]) /\ pc'[c] = "rowA"
          BY <3>1, <3>2, <4>2
        <5> QED BY <1>1, <3>3, <5>1 DEF TxPhase
      <4> QED BY <4>1, <4>2
    <3>5. pc[c] \notin TxPhase
      BY <3>1 DEF TxPhase
    <3> QED BY <2>4, <3>1, <3>4, <3>5 DEF NoLeakedLock
  <2>6. ASSUME NEW at \in TxPhase, NEW x \in Side, NEW next \in TxPhase,
               LockRow(c, at, x, next)
        PROVE  NoLeakedLock'
    <3>1. /\ keys' = keys /\ pc'[c] = next
          /\ \A r \in Chars : rowLock'[r] \in {rowLock[r], c}
      BY <1>1, <2>6 DEF LockRow, Goto
    <3>2. \A r \in Chars : rowLock'[r] # 0 => pc'[rowLock'[r]] \in TxPhase
      BY <1>1, <2>1, <3>1 DEF NoLeakedLock
    <3> QED BY <1>1, <2>3, <3>1, <3>2 DEF NoLeakedLock
  <2>7. ASSUME EndTx(c), keys' = keys PROVE NoLeakedLock'
    <3>1. /\ pc'[c] = "cleanup"
          /\ \A r \in Chars : rowLock'[r] # 0 => rowLock'[r] = rowLock[r] /\ rowLock[r] # c
      BY <1>1, <2>7 DEF EndTx, Goto
    <3>2. \A r \in Chars : rowLock'[r] # 0 => pc'[rowLock'[r]] \in TxPhase
      BY <1>1, <2>1, <3>1 DEF NoLeakedLock
    <3> QED BY <1>1, <2>3, <2>7, <3>1, <3>2 DEF NoLeakedLock
  <2>8. ASSUME NEW at \in TxPhase, NEW x \in Side, NEW next \in TxPhase, NEW skip \in TxPhase,
               MoveItems(c, at, x, next) \/ Credit(c, at, x, next)
                 \/ Debit(c, at, x, next, skip)
        PROVE  NoLeakedLock'
    <3>1. keys' = keys /\ rowLock' = rowLock /\ pc'[c] \in TxPhase
      BY <1>1, <2>8 DEF MoveItems, Credit, Debit, Goto
    <3> QED BY <1>1, <2>3, <2>4, <3>1 DEF NoLeakedLock
  <2>9. CASE CheckGold(c)
    <3>1. keys' = keys /\ rowLock' = rowLock /\ pc'[c] \in TxPhase
      BY <1>1, <2>9 DEF CheckGold, Goto, TxPhase
    <3> QED BY <1>1, <2>3, <2>4, <3>1 DEF NoLeakedLock
  <2>10. CASE Cleanup(c)
    <3>1. keys' = keys /\ rowLock' = rowLock /\ pc'[c] = "unlock" /\ pc[c] \notin TxPhase
      BY <1>1, <2>10 DEF Cleanup, Goto, TxPhase
    <3> QED BY <1>1, <2>3, <2>4, <3>1 DEF NoLeakedLock
  <2>11. CASE Unlock(c)
    <3>1. keys' = keys \ {Key(cur[c])} /\ rowLock' = rowLock /\ pc[c] \notin TxPhase
      BY <2>11 DEF Unlock, TxPhase
    <3>2. \A k \in keys' : \E d \in Chars : pc'[d] \in Locked /\ Key(cur[d])' = k
      BY <2>1, <2>2, <3>1 DEF NoLeakedLock
    <3> QED BY <2>4, <3>1, <3>2 DEF NoLeakedLock
  <2> QED BY <1>4, <2>5, <2>6, <2>7, <2>8, <2>9, <2>10, <2>11
          DEF CommitStep, WriteTx, AbortTx, Side, TxPhase
<1>5. ASSUME NEW k \in SUBSET Chars, LockExpire(k) PROVE NoLeakedLock'
  BY <1>1, <1>3, <1>5 DEF LockExpire
<1>6. ASSUME NEW c \in Chars, NEW h \in {"update", "confirm"}, Lookup(c, h)
      PROVE  NoLeakedLock'
  BY <1>1, <1>3, <1>6 DEF Lookup
<1>7. ASSUME NEW c \in Chars, UpdateOffer(c) \/ Confirm(c) PROVE NoLeakedLock'
  BY <1>1, <1>3, <1>7 DEF UpdateOffer, Confirm, Goto
<1>8. CASE UNCHANGED <<pc, cur, keys, rowLock>>
  BY <1>3, <1>8
<1> QED BY <1>4, <1>5, <1>6, <1>7, <1>8 DEF Next, vars, AcceptTrade, Cancel, ToggleEquip

\* No return path of Commit leaves its cache key or a locked row behind: a key
\* has a holder that will delete it, a locked row a transaction still open.
THEOREM LocksGivenBack == Spec => []NoLeakedLock
<1>1. Init => NoLeakedLock
  BY DEF Init, NoLeakedLock
<1> QED BY <1>1, TypeInit, TypeStep, LeakStep, PTL DEF Spec

-----------------------------------------------------------------------------
(* Rows change hands only in a trade *)

\* Where a transaction may already have moved rows.
Moving == Checked \ {"itemsA"}

\* A row an open transaction has moved is not equipped, belongs to one of its
\* two characters and, when nobody rewrites the offers, is in that one's offer.
RowsMoved ==
  \A c \in Chars : \A i \in moved[c] :
    /\ pc[c] \in Moving
    /\ i \notin equipped
    /\ owner[i] \in Key(cur[c])
    /\ cur[c] \notin late => i \in offer[cur[c]][SideOf(cur[c], owner[i])].items

ItemInv == TypeInv /\ CommitsAgreed /\ OwnSession /\ RowsLocked /\ RowsMoved

\* Two open transactions have not moved the same row: both would hold the row
\* of its owner.
LEMMA MovedOnce ==
  ASSUME ItemInv, NEW c \in Chars, NEW d \in Chars, NEW i \in Items,
         i \in moved[c], i \in moved[d]
  PROVE  c = d
<1>1. /\ pc[c] \in Moving /\ owner[i] \in Key(cur[c])
      /\ pc[d] \in Moving /\ owner[i] \in Key(cur[d])
  BY DEF ItemInv, RowsMoved
<1>2. rowLock[owner[i]] = c
  BY <1>1 DEF ItemInv, RowsLocked, Moving, Key
<1>3. rowLock[owner[i]] = d
  BY <1>1 DEF ItemInv, RowsLocked, Moving, Key
<1> QED BY <1>2, <1>3

\* Only the commit of a transaction changes who owns a row.
LEMMA OwnerFrame ==
  ASSUME [Next]_vars, owner' # owner PROVE \E c \in Chars : WriteTx(c)
<1> USE DEF dbVars
<1>1. ASSUME NEW c \in Chars, CommitStep(c) PROVE owner' = owner \/ WriteTx(c)
  <2>1. ASSUME NEW at, NEW x, NEW next,
               LockRow(c, at, x, next) \/ MoveItems(c, at, x, next) \/ Credit(c, at, x, next)
        PROVE  owner' = owner
    BY <2>1 DEF LockRow, MoveItems, Credit
  <2>2. ASSUME NEW at, NEW x, NEW next, NEW skip, Debit(c, at, x, next, skip)
        PROVE  owner' = owner
    BY <2>2 DEF Debit
  <2>3. SetNX(c) \/ CheckGold(c) \/ AbortTx(c) \/ Cleanup(c) \/ Unlock(c) => owner' = owner
    BY DEF SetNX, CheckGold, AbortTx, Cleanup, Unlock
  <2> QED BY <1>1, <2>1, <2>2, <2>3 DEF CommitStep
<1> QED BY <1>1 DEF Next, vars, AcceptTrade, Lookup, UpdateOffer, Confirm, Cancel,
           LockExpire, ToggleEquip

\* Only its owner's equip and unequip change whether a row is equipped, and
\* they wait for a row an open transaction has moved.
LEMMA EquipFrame ==
  ASSUME [Next]_vars, NEW i \in RowsHeld, i \notin equipped PROVE i \notin equipped'
<1> USE DEF dbVars
<1>1. ASSUME NEW c \in Chars, CommitStep(c) PROVE equipped' = equipped
  <2>1. ASSUME NEW at, NEW x, NEW next,
               LockRow(c, at, x, next) \/ MoveItems(c, at, x, next) \/ Credit(c, at, x, next)
        PROVE  equipped' = equipped
    BY <2>1 DEF LockRow, MoveItems, Credit
  <2>2. ASSUME NEW at, NEW x, NEW next, NEW skip, Debit(c, at, x, next, skip)
        PROVE  equipped' = equipped
    BY <2>2 DEF Debit
  <2>3. SetNX(c) \/ CheckGold(c) \/ WriteTx(c) \/ AbortTx(c) \/ Cleanup(c) \/ Unlock(c)
          => equipped' = equipped
    BY DEF SetNX, CheckGold, WriteTx, AbortTx, Cleanup, Unlock
  <2> QED BY <1>1, <2>1, <2>2, <2>3 DEF CommitStep
<1>2. ASSUME NEW j \in Items, ToggleEquip(j) PROVE i \notin equipped'
  BY <1>2 DEF ToggleEquip
<1> QED BY <1>1, <1>2 DEF Next, vars, AcceptTrade, Lookup, UpdateOffer, Confirm, Cancel,
           LockExpire

\* A session whose transaction is open and that is not late keeps its offers.
LEMMA OfferFrame ==
  ASSUME TypeInv, [Next]_vars, NEW c \in Chars, pc[c] \in CommitPhase,
         cur[c] \notin late'
  PROVE  /\ cur[c] \notin late
         /\ \A x \in Side : offer'[cur[c]][x].items = offer[cur[c]][x].items
<1> USE DEF svcVars, dbVars, histVars
<1>1. /\ offer \in [Sessions -> [Side -> Offer]]
      /\ cur[c] \in Sessions
  BY HeldSession DEF TypeInv, TypeOK, TxPhase, CommitPhase
<1>2. cur[c] \notin late
  BY CommitFrame DEF Next, vars, AcceptTrade, Lookup, UpdateOffer, Confirm, Cancel,
     LockExpire, ToggleEquip
<1>3. ASSUME NEW d \in Chars, UpdateOffer(d) PROVE offer'[cur[c]] = offer[cur[c]]
  <2>1. cur[d] # cur[c]
    BY <1>1, <1>3 DEF UpdateOffer, InCommit
  <2> QED BY <1>1, <1>3, <2>1 DEF UpdateOffer
<1>4. ASSUME NEW d \in Chars, Confirm(d), NEW x \in Side
      PROVE  offer'[cur[c]][x].items = offer[cur[c]][x].items
  <2> DEFINE s == cur[d]
             y == SideOf(s, d)
             mine == [offer[s][y] EXCEPT !.confirmed = TRUE]
  <2>1. s \in Sessions /\ y \in Side /\ offer[s][y] \in Offer
    BY <1>4, HeldSession, SideOfType DEF Confirm
  <2>2. mine.items = offer[s][y].items
    BY <2>1 DEF Offer
  <2>3. offer' = [offer EXCEPT ![s][y] = mine]
    BY <1>4 DEF Confirm
  <2> HIDE DEF s, y, mine
  <2> QED BY <1>1, <2>1, <2>2, <2>3
<1>5. ASSUME NEW d \in Chars, CommitStep(d) PROVE offer' = offer
  BY <1>5, CommitFrame
<1> QED BY <1>2, <1>3, <1>4, <1>5 DEF Next, vars, AcceptTrade, Lookup, Cancel,
           LockExpire, ToggleEquip

\* The rows a transaction has moved and the step it takes with them.
LEMMA MovedFrame ==
  ASSUME TypeInv, [Next]_vars, NEW c \in Chars, moved'[c] # {},
         RowsMoved
  PROVE  \/ /\ moved'[c] = moved[c]
            /\ pc'[c] \in Moving
         \/ MoveItems(c, "itemsA", "A", "itemsB")
         \/ MoveItems(c, "itemsB", "B", "debitA")
<1> USE DEF svcVars, dbVars, histVars
<1>1. /\ pc \in [Chars -> Phase] /\ moved \in [Chars -> SUBSET Items]
  BY DEF TypeInv, TypeOK
<1>2. moved[c] # {} => pc[c] \in Moving
  BY DEF RowsMoved
<1>3. CASE CommitStep(c)
  <2>1. ~EndTx(c)
    BY <1>1 DEF EndTx
  <2>2. CASE \/ Debit(c, "debitA", "A", "creditB", "debitB")
             \/ Credit(c, "creditB", "A", "debitB")
             \/ Debit(c, "debitB", "B", "creditA", "write")
             \/ Credit(c, "creditA", "B", "write")
    BY <1>1, <2>2 DEF Debit, Credit, Goto, Moving, Checked
  <2>3. CASE \/ SetNX(c) \/ CheckGold(c) \/ Cleanup(c) \/ Unlock(c)
             \/ LockRow(c, "rowA", "A", "rowB") \/ LockRow(c, "rowB", "B", "check")
    BY <1>1, <1>2, <2>3 DEF SetNX, CheckGold, Cleanup, Unlock, LockRow, Moving, Checked
  <2> QED BY <1>3, <2>1, <2>2, <2>3 DEF CommitStep, WriteTx, AbortTx
<1>4. ASSUME NEW d \in Chars, d # c, CommitStep(d)
      PROVE  moved'[c] = moved[c] /\ pc'[c] = pc[c]
  <2>1. pc'[c] = pc[c]
    BY <1>4, CommitFrame
  <2>2. ASSUME NEW at, NEW x, NEW next, MoveItems(d, at, x, next)
        PROVE  moved'[c] = moved[c]
    BY <1>1, <1>4, <2>2 DEF MoveItems
  <2>3. ASSUME EndTx(d) PROVE moved'[c] = moved[c]
    BY <1>1, <1>4, <2>3 DEF EndTx
  <2>4. moved'[c] = moved[c]
    BY <1>4, <2>2, <2>3 DEF CommitStep, SetNX, LockRow, CheckGold, Debit, Credit,
       WriteTx, AbortTx, Cleanup, Unlock
  <2> QED BY <2>1, <2>4
<1>5. ASSUME NEW d \in Chars, UpdateOffer(d) \/ Confirm(d)
      PROVE  moved'[c] = moved[c] /\ (pc[c] \in Moving => pc'[c] = pc[c])
  BY <1>1, <1>5 DEF UpdateOffer, Confirm, Goto, Moving, Checked
<1>6. ASSUME NEW d \in Chars, NEW h \in {"update", "confirm"}, Lookup(d, h)
      PROVE  moved'[c] = moved[c] /\ (pc[c] \in Moving => pc'[c] = pc[c])
  BY <1>1, <1>6 DEF Lookup, Moving, Checked
<1>7. CASE UNCHANGED <<pc, moved>>
  BY <1>2, <1>7
<1> QED BY <1>2, <1>3, <1>4, <1>5, <1>6, <1>7 DEF Next, vars, AcceptTrade, Cancel,
           LockExpire, ToggleEquip

LEMMA ItemStep == ItemInv /\ [Next]_vars => RowsMoved'
<1> SUFFICES ASSUME ItemInv, [Next]_vars, NEW c \in Chars, NEW i \in moved'[c]
             PROVE  /\ pc'[c] \in Moving
                    /\ i \notin equipped'
                    /\ owner'[i] \in Key(cur[c])'
                    /\ cur'[c] \notin late' =>
                         i \in offer'[cur'[c]][SideOf(cur[c], owner[i])'].items
  BY DEF RowsMoved
<1> USE DEF svcVars, dbVars, histVars
<1>1. /\ pc \in [Chars -> Phase] /\ cur \in [Chars -> 0 .. sessions]
      /\ moved \in [Chars -> SUBSET Items] /\ owner \in [Items -> Chars]
      /\ TypeInv /\ RowsMoved /\ CommitsAgreed /\ OwnSession
  BY DEF ItemInv, TypeInv, TypeOK
<1>2. Moving \subseteq TxPhase /\ TxPhase \subseteq CommitPhase /\ "idle" \notin Moving
      /\ "idle" \notin CommitPhase
  BY DEF Moving, Checked, TxPhase, CommitPhase
<1>3. \/ moved'[c] = moved[c] /\ pc'[c] \in Moving
      \/ MoveItems(c, "itemsA", "A", "itemsB")
      \/ MoveItems(c, "itemsB", "B", "debitA")
  BY <1>1, MovedFrame
\* Whoever moved the row: it stays with its owner until the transaction ends.
<1>4. i \in moved[c] => owner'[i] = owner[i] /\ i \notin equipped'
  <2> SUFFICES ASSUME i \in moved[c] PROVE owner'[i] = owner[i] /\ i \notin equipped'
    OBVIOUS
  <2>1. i \in Items /\ i \notin equipped /\ pc[c] \in Moving
    BY <1>1 DEF RowsMoved
  <2>2. i \in RowsHeld
    BY DEF RowsHeld
  <2>3. i \notin equipped'
    BY <2>1, <2>2, EquipFrame
  <2>4. ASSUME NEW d \in Chars, WriteTx(d) PROVE owner'[i] = owner[i]
    <3>1. d # c
      BY <1>1, <1>3, <2>4 DEF WriteTx, EndTx, Goto, MoveItems, Moving, Checked
    <3>2. i \notin moved[d]
      BY <2>1, <3>1, MovedOnce
    <3> QED BY <2>1, <2>4, <3>2 DEF WriteTx
  <2> QED BY <2>3, <2>4, OwnerFrame
<1>5. pc[c] \in CommitPhase /\ cur'[c] = cur[c]
  <2>1. CASE moved'[c] = moved[c] /\ pc'[c] \in Moving
    <3>1. pc[c] \in Moving
      BY <1>1, <2>1 DEF RowsMoved
    <3>2. ASSUME NEW d \in Chars, CommitStep(d) PROVE cur'[c] = cur[c]
      BY <1>1, <1>2, <2>1, <3>2, CommitFrame
    <3>3. ASSUME NEW d \in Chars, UpdateOffer(d) \/ Confirm(d) PROVE cur'[c] = cur[c]
      BY <1>1, <3>1, <3>3 DEF UpdateOffer, Confirm, Goto, Moving, Checked
    <3>4. ASSUME NEW d \in Chars, NEW h \in {"update", "confirm"}, Lookup(d, h)
          PROVE  cur'[c] = cur[c]
      BY <1>1, <1>2, <3>1, <3>4 DEF Lookup
    <3> QED BY <1>2, <3>1, <3>2, <3>3, <3>4 DEF Next, vars, AcceptTrade, Cancel, LockExpire,
               ToggleEquip
  <2>2. CASE MoveItems(c, "itemsA", "A", "itemsB") \/ MoveItems(c, "itemsB", "B", "debitA")
    BY <1>2, <2>2 DEF MoveItems, Goto, TxPhase
  <2> QED BY <1>3, <2>1, <2>2
<1>6. /\ Key(cur[c])' = Key(cur[c])
      /\ party'[cur[c]] = party[cur[c]]
  <2>1. party'[cur[c]] = party[cur[c]]
    BY <1>1, <1>2, <1>5, PartyFrame
  <2> QED BY <1>5, <2>1 DEF Key, SideOf
<1>7. cur[c] \notin late' =>
        /\ cur[c] \notin late
        /\ \A x \in Side : offer'[cur[c]][x].items = offer[cur[c]][x].items
  BY <1>1, <1>5, OfferFrame
<1>8. CASE i \in moved[c]
  <2>1. pc'[c] \in Moving
    BY <1>1, <1>3 DEF MoveItems, Goto, Moving, Checked
  <2>2. SideOf(cur[c], owner[i])' = SideOf(cur[c], owner[i])
    BY <1>4, <1>5, <1>8, <1>6 DEF SideOf
  <2>3. cur'[c] \notin late' => i \in offer'[cur'[c]][SideOf(cur[c], owner[i])'].items
    BY <1>1, <1>5, <1>7, <1>8, <2>2, SideOfType DEF RowsMoved
  <2>4. owner'[i] \in Key(cur[c])'
    BY <1>1, <1>4, <1>6, <1>8 DEF RowsMoved
  <2> QED BY <1>4, <1>8, <2>1, <2>3, <2>4
<1>9. CASE i \notin moved[c]
  <2>1. PICK x \in Side, at \in {"itemsA", "itemsB"}, next \in {"itemsB", "debitA"} :
          MoveItems(c, at, x, next)
    BY <1>3, <1>9 DEF Side
  <2>2. /\ i \in offer[cur[c]][x].items /\ owner[i] = party[cur[c]][x]
        /\ i \notin equipped /\ pc'[c] = next
        /\ owner' = owner /\ equipped' = equipped
    BY <1>1, <1>9, <2>1 DEF MoveItems, Goto
  <2>3. owner[i] \in Key(cur[c])
    BY <2>2 DEF Key, Side
  <2>4. ASSUME cur[c] \notin late
        PROVE  SideOf(cur[c], owner[i]) = x
    <3>1. cur[c] \in Sessions
      BY <1>1, <1>2, <1>5, HeldSession
    <3>2. party[cur[c]]["A"] # party[cur[c]]["B"]
      BY <1>1, <1>5, <2>4, <3>1 DEF CommitsAgreed, BothConfirmed, OwnSession
    <3> QED BY <2>2, <3>2 DEF SideOf, Side
  <2>5. SideOf(cur[c], owner[i])' = SideOf(cur[c], owner[i])
    BY <1>5, <1>6, <2>2 DEF SideOf
  <2>6. cur'[c] \notin late' => i \in offer'[cur'[c]][SideOf(cur[c], owner[i])'].items
    BY <1>5, <1>7, <2>2, <2>4, <2>5
  <2> QED BY <1>6, <2>2, <2>3, <2>6 DEF Moving, Checked
<1> QED BY <1>8, <1>9

\* A row changes hands only by the commit of a trade of its owner with the new
\* one, never while it is equipped and, unless an offer was rewritten under the
\* running Commit, only when both confirmed and its owner had offered it.
THEOREM ItemsOnlyByTrade == Spec => ItemsMoveByTrade
<1>1. Init => ItemInv
  <2>1. Init => RowsMoved /\ CommitsAgreed /\ RowsLocked /\ OwnSession
    BY GoldInit DEF Init, RowsMoved, GoldInv
  <2> QED BY <2>1, TypeInit DEF ItemInv
<1>2. ItemInv /\ [Next]_vars => ItemInv'
  BY TypeStep, AgreedStep, OwnSessionStep, RowsStep, ItemStep DEF ItemInv
<1>3. ItemInv /\ [Next]_vars => [ItemMoves]_vars
  <2> SUFFICES ASSUME ItemInv, [Next]_vars, NEW i \in Items, owner'[i] # owner[i]
               PROVE  /\ i \notin equipped
                      /\ \E s \in Sessions :
                           /\ commits'[s] # commits[s]
                           /\ Key(s) = {owner[i], owner'[i]}
                           /\ s \notin late =>
                                /\ BothConfirmed(s)
                                /\ i \in offer[s][SideOf(s, owner[i])].items
    BY DEF ItemMoves
  <2>1. PICK c \in Chars : WriteTx(c)
    BY OwnerFrame
  <2>2. i \in moved[c] /\ owner'[i] = party[cur[c]][Other(SideOf(cur[c], owner[i]))]
    BY <2>1 DEF WriteTx, ItemInv, TypeInv, TypeOK
  <2>3. cur[c] \in Sessions /\ pc[c] = "write" /\ commits \in [Sessions -> Nat]
    BY <2>1, HeldSession DEF WriteTx, ItemInv, TypeInv, TypeOK
  <2>4. commits'[cur[c]] # commits[cur[c]]
    BY <2>1, <2>3 DEF WriteTx
  <2>5. i \notin equipped /\ owner[i] \in Key(cur[c])
    BY <2>2 DEF ItemInv, RowsMoved
  <2>6. Key(cur[c]) = {owner[i], owner'[i]}
    BY <2>2, <2>5 DEF Key, SideOf, Other
  <2>7. cur[c] \notin late => /\ BothConfirmed(cur[c])
                              /\ i \in offer[cur[c]][SideOf(cur[c], owner[i])].items
    BY <2>2, <2>3 DEF ItemInv, RowsMoved, CommitsAgreed, CommitPhase, TxPhase
  <2> QED BY <2>3, <2>4, <2>5, <2>6, <2>7
<1> QED BY <1>1, <1>2, <1>3, PTL DEF Spec, ItemsMoveByTrade
=============================================================================
