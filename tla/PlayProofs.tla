----------------------------- MODULE PlayProofs -----------------------------
(***************************************************************************)
(* What an event, a battle and the map promise, for every value of the     *)
(* constants of MCPlay: the server never waits for an answer the player    *)
(* cannot give, nothing outlives the event, the battle or the life it was  *)
(* started for, and with every message heard the map shows what there is.  *)
(* Each has invariants of its own; the theorems, in ScenesProofs, put them *)
(* beside the other scenes.                                                *)
(***************************************************************************)
EXTENDS MCPlay, FiniteSetTheorems, WellFoundedInduction, TLAPS

-----------------------------------------------------------------------------
(* Fighting on the map *)

\* AutoRests is kept by every step as it stands.
FieldInv ==
  /\ isDead \in BOOLEAN /\ autoAttack \in BOOLEAN
  /\ Field!AutoRests

LEMMA FieldInitial == Field!Init => FieldInv
BY DEF Field!Init, FieldInv, Field!AutoRests

LEMMA FieldStep == FieldInv /\ [Field!Next]_f => FieldInv'
<1> SUFFICES ASSUME FieldInv, [Field!Next]_f PROVE FieldInv'
  OBVIOUS
<1>1. isDead \in BOOLEAN /\ autoAttack \in BOOLEAN
      /\ (autoAttack => ~isDead /\ fieldScene = "map" /\ mode # "turnbased")
  BY DEF FieldInv, Field!AutoRests, Field!FieldAttack
<1>2. \/ UNCHANGED <<mode, fieldScene, isDead, autoAttack>>
      \/ UNCHANGED mode /\ isDead' \in BOOLEAN /\ autoAttack' = FALSE
      \/ UNCHANGED <<mode, fieldScene, autoAttack>> /\ isDead' = FALSE
      \/ UNCHANGED <<mode, fieldScene, isDead>> /\ fieldScene = "map" /\ mode # "turnbased"
         /\ ~isDead /\ autoAttack' = ~autoAttack
      \/ UNCHANGED <<mode, isDead, autoAttack>> /\ fieldScene' = "map"
  <2> USE DEF Field!serverFieldVars, Field!clientFieldVars
  <2>1. CASE UNCHANGED f
    BY <2>1 DEF f
  <2>2. CASE Field!MonsterAttacks \/ Field!SetStats \/ Field!TransferPlayer \/ Field!GcdOver
    BY <2>2 DEF Field!MonsterAttacks, Field!SetStats, Field!TransferPlayer, Field!GcdOver
  <2>3. CASE Field!HandleAttack \/ Field!HandleReviveRequest \/ Field!Reconnect
    BY <2>3 DEF Field!HandleAttack, Field!HandleReviveRequest, Field!Reconnect
  <2>4. CASE Field!OnMapInit
    BY <2>4 DEF Field!OnMapInit, Field!Heard
  <2>5. CASE Field!OnCooldown \/ Field!OnError
    BY <2>5 DEF Field!OnCooldown, Field!OnError, Field!Heard
  <2>6. CASE Field!OnPlayerDeath
    BY <2>6 DEF Field!OnPlayerDeath, Field!Heard
  <2>7. CASE Field!OnPlayerRevive
    BY <2>7 DEF Field!OnPlayerRevive, Field!Heard
  <2>8. CASE Field!ClickMonster \/ Field!CooldownOver \/ Field!PressR
    BY <2>8 DEF Field!ClickMonster, Field!CooldownOver, Field!PressR, Field!Acts
  <2>9. CASE Field!ClickGround
    BY <1>1, <2>9 DEF Field!ClickGround, Field!Acts
  <2>10. CASE Field!PressA
    BY <2>10 DEF Field!PressA, Field!Acts, Field!FieldAttack
  <2>11. CASE Field!Terminate
    BY <1>1, <2>11 DEF Field!Terminate
  <2>12. CASE Field!CreateCharacters
    BY <2>12 DEF Field!CreateCharacters
  <2> QED BY <2>1, <2>2, <2>3, <2>4, <2>5, <2>6, <2>7, <2>8, <2>9, <2>10, <2>11, <2>12
          DEF Field!Next
<1>3. isDead' \in BOOLEAN /\ autoAttack' \in BOOLEAN
  BY <1>1, <1>2
<1>4. mode' = mode
  BY <1>2
<1>5. CASE UNCHANGED autoAttack
  <2>1. autoAttack' = autoAttack
    BY <1>5
  <2>2. autoAttack => isDead' = FALSE /\ fieldScene' = "map"
    <3> SUFFICES ASSUME autoAttack PROVE isDead' = FALSE /\ fieldScene' = "map"
      OBVIOUS
    <3>1. autoAttack' = TRUE /\ isDead = FALSE /\ fieldScene = "map"
      BY <1>1, <2>1
    <3> QED BY <1>2, <3>1
  <2> QED BY <1>1, <1>3, <1>4, <2>1, <2>2, Zenon DEF FieldInv, Field!AutoRests, Field!FieldAttack
<1>6. CASE autoAttack' = FALSE
  BY <1>3, <1>6, Zenon DEF FieldInv, Field!AutoRests, Field!FieldAttack
<1>7. CASE UNCHANGED <<mode, fieldScene, isDead>> /\ fieldScene = "map" /\ mode # "turnbased" /\ ~isDead
  <2>1. isDead' = FALSE /\ fieldScene' = "map"
    BY <1>1, <1>7
  <2> QED BY <1>3, <1>4, <1>7, <2>1 DEF FieldInv, Field!AutoRests, Field!FieldAttack
<1> QED BY <1>2, <1>5, <1>6, <1>7

-----------------------------------------------------------------------------
(* Sequences of messages *)

\* No message of these kinds; exactly one, which is of E, and none of L after it.
NoneOf(q, K) == \A k \in 1..Len(q) : q[k].t \notin K
OneOf(q, K, E, L) ==
  \E j \in 1..Len(q) :
    /\ q[j].t \in K /\ q[j] \in E
    /\ \A k \in 1..Len(q) : (k # j => q[k].t \notin K) /\ (k > j => q[k].t \notin L)

\* Sequences grow by one, by several, and lose their first.
LEMMA Grown ==
  ASSUME NEW M, NEW q \in Seq(M)
  PROVE  /\ \A r \in M : Append(q, r) \in Seq(M)
         /\ \A r \in Seq(M) : q \o r \in Seq(M)
         /\ q # <<>> => Head(q) \in M /\ Tail(q) \in Seq(M)
OBVIOUS

LEMMA NoneEmpty == ASSUME NEW K PROVE NoneOf(<<>>, K)
BY DEF NoneOf

LEMMA NoneAppend ==
  ASSUME NEW M, NEW q \in Seq(M), NEW r \in M, NEW K
  PROVE  NoneOf(Append(q, r), K) <=> NoneOf(q, K) /\ r.t \notin K
<1>1. /\ Len(Append(q, r)) = Len(q) + 1 /\ Append(q, r)[Len(q) + 1] = r /\ Len(q) \in Nat
      /\ \A k \in 1..Len(q) : Append(q, r)[k] = q[k]
  OBVIOUS
<1>2. ASSUME NoneOf(Append(q, r), K) PROVE NoneOf(q, K) /\ r.t \notin K
  BY <1>1, <1>2 DEF NoneOf
<1>3. ASSUME NoneOf(q, K), r.t \notin K PROVE NoneOf(Append(q, r), K)
  BY <1>1, <1>3 DEF NoneOf
<1> QED BY <1>2, <1>3

LEMMA NoneConcat ==
  ASSUME NEW M, NEW q \in Seq(M), NEW r \in Seq(M), NEW K
  PROVE  NoneOf(q \o r, K) <=> NoneOf(q, K) /\ NoneOf(r, K)
<1>1. /\ Len(q \o r) = Len(q) + Len(r) /\ Len(q) \in Nat /\ Len(r) \in Nat
      /\ \A k \in 1..Len(q \o r) : (q \o r)[k] = IF k <= Len(q) THEN q[k] ELSE r[k - Len(q)]
  OBVIOUS
<1>2. ASSUME NoneOf(q \o r, K) PROVE NoneOf(q, K) /\ NoneOf(r, K)
  <2>1. \A k \in 1..Len(q) : k \in 1..Len(q \o r) /\ (q \o r)[k] = q[k]
    BY <1>1
  <2>2. \A k \in 1..Len(r) : Len(q) + k \in 1..Len(q \o r) /\ (q \o r)[Len(q) + k] = r[k]
    BY <1>1
  <2> QED BY <1>2, <2>1, <2>2 DEF NoneOf
<1>3. ASSUME NoneOf(q, K), NoneOf(r, K) PROVE NoneOf(q \o r, K)
  BY <1>1, <1>3 DEF NoneOf
<1> QED BY <1>2, <1>3

LEMMA NoneTail ==
  ASSUME NEW M, NEW q \in Seq(M), q # <<>>, NEW K
  PROVE  NoneOf(q, K) <=> Head(q).t \notin K /\ NoneOf(Tail(q), K)
<1>1. /\ Len(q) \in Nat /\ Len(q) >= 1 /\ Head(q) = q[1] /\ Len(Tail(q)) = Len(q) - 1
      /\ \A k \in 1..Len(Tail(q)) : Tail(q)[k] = q[k + 1]
  OBVIOUS
<1>2. ASSUME NoneOf(q, K) PROVE Head(q).t \notin K /\ NoneOf(Tail(q), K)
  BY <1>1, <1>2 DEF NoneOf
<1>3. ASSUME Head(q).t \notin K, NoneOf(Tail(q), K), NEW k \in 1..Len(q) PROVE q[k].t \notin K
  <2>1. CASE k = 1
    BY <1>1, <1>3, <2>1
  <2>2. CASE k # 1
    <3>1. k - 1 \in 1..Len(Tail(q)) /\ q[k] = Tail(q)[k - 1]
      BY <1>1, <2>2
    <3> QED BY <1>3, <3>1 DEF NoneOf
  <2> QED BY <2>1, <2>2
<1> QED BY <1>2, <1>3 DEF NoneOf

LEMMA OneAppend ==
  ASSUME NEW M, NEW q \in Seq(M), NEW r \in M, NEW K, NEW E, NEW L
  PROVE  /\ OneOf(q, K, E, L) /\ r.t \notin K /\ r.t \notin L => OneOf(Append(q, r), K, E, L)
         /\ NoneOf(q, K) /\ r.t \in K /\ r \in E => OneOf(Append(q, r), K, E, L)
<1>1. /\ Len(Append(q, r)) = Len(q) + 1 /\ Append(q, r)[Len(q) + 1] = r /\ Len(q) \in Nat
      /\ \A k \in 1..Len(q) : Append(q, r)[k] = q[k]
  OBVIOUS
<1>2. ASSUME OneOf(q, K, E, L), r.t \notin K, r.t \notin L PROVE OneOf(Append(q, r), K, E, L)
  BY <1>1, <1>2 DEF OneOf
<1>3. ASSUME NoneOf(q, K), r.t \in K, r \in E PROVE OneOf(Append(q, r), K, E, L)
  <2>1. Len(q) + 1 \in 1..Len(Append(q, r))
    BY <1>1
  <2>2. \A k \in 1..Len(Append(q, r)) : /\ k # Len(q) + 1 => Append(q, r)[k].t \notin K
                                         /\ ~(k > Len(q) + 1)
    BY <1>1, <1>3 DEF NoneOf
  <2> QED BY <1>1, <1>3, <2>1, <2>2 DEF OneOf
<1> QED BY <1>2, <1>3

LEMMA OneConcat ==
  ASSUME NEW M, NEW q \in Seq(M), NEW r \in Seq(M), NEW K, NEW E, NEW L,
         OneOf(q, K, E, L), NoneOf(r, K), NoneOf(r, L)
  PROVE  OneOf(q \o r, K, E, L)
<1>1. /\ Len(q \o r) = Len(q) + Len(r) /\ Len(q) \in Nat /\ Len(r) \in Nat
      /\ \A k \in 1..Len(q \o r) : (q \o r)[k] = IF k <= Len(q) THEN q[k] ELSE r[k - Len(q)]
  OBVIOUS
<1> QED BY <1>1 DEF OneOf, NoneOf

LEMMA OneTail ==
  ASSUME NEW M, NEW q \in Seq(M), q # <<>>, NEW K, NEW E, NEW L, OneOf(q, K, E, L)
  PROVE  /\ Head(q).t \in K => Head(q) \in E /\ NoneOf(Tail(q), K) /\ NoneOf(Tail(q), L)
         /\ Head(q).t \notin K => OneOf(Tail(q), K, E, L)
<1>1. /\ Len(q) \in Nat /\ Len(q) >= 1 /\ Head(q) = q[1] /\ Len(Tail(q)) = Len(q) - 1
      /\ \A k \in 1..Len(Tail(q)) : Tail(q)[k] = q[k + 1]
  OBVIOUS
<1>2. PICK j \in 1..Len(q) :
        /\ q[j].t \in K /\ q[j] \in E
        /\ \A k \in 1..Len(q) : (k # j => q[k].t \notin K) /\ (k > j => q[k].t \notin L)
  BY DEF OneOf
<1>3. CASE j = 1
  <2>1. NoneOf(Tail(q), K) /\ NoneOf(Tail(q), L)
    BY <1>1, <1>2, <1>3 DEF NoneOf
  <2> QED BY <1>1, <1>2, <1>3, <2>1
<1>4. CASE j # 1
  <2>1. j - 1 \in 1..Len(Tail(q)) /\ Tail(q)[j - 1] = q[j]
    BY <1>1, <1>4
  <2>2. \A k \in 1..Len(Tail(q)) : /\ k # j - 1 => Tail(q)[k].t \notin K
                                   /\ k > j - 1 => Tail(q)[k].t \notin L
    BY <1>1, <1>2
  <2>3. OneOf(Tail(q), K, E, L)
    BY <1>2, <2>1, <2>2 DEF OneOf
  <2> QED BY <1>1, <1>2, <1>4, <2>3
<1> QED BY <1>3, <1>4

-----------------------------------------------------------------------------
(* The dialogs of an event: what its messages are *)

Asking == {"dialog", "choices", "both"}
Questions == [t : Asking, n : Nat]
Effects == [t : {"effect"}, n : Nat, kind : Kinds, wait : BOOLEAN]
ToClient == [t : {"start", "end", "init", "dialogend"}] \union Questions \union Effects
EffectAcks == [t : {"effectack"}]
Answers == [t : {"ack", "reply"}, ids : SUBSET Nat]
ToServer == [t : {"interact", "move", "ready"}] \union EffectAcks \union Answers

DialogTypes ==
  /\ spc \in {"idle", "run", "dialog", "choice", "effect", "loading"} /\ at \in Nat
  /\ toClient \in Seq(ToClient) /\ toServer \in Seq(ToServer)
  /\ queued \in Seq(Questions) /\ effq \in Seq(Effects)
  /\ gm \in [text : SUBSET Nat, menu : SUBSET Nat]
  /\ win \in [mode : {"closed", "text", "pause", "menu"}, ids : SUBSET Nat]
  /\ dialogAck \in SUBSET Nat /\ choiceCh \in SUBSET Nat

LEMMA DialogTypesInitial == Init => DialogTypes
<1> SUFFICES ASSUME Init PROVE DialogTypes
  OBVIOUS
<1>1. <<>> \in Seq(ToClient) /\ <<>> \in Seq(ToServer) /\ <<>> \in Seq(Questions)
      /\ <<>> \in Seq(Effects)
  OBVIOUS
<1> QED BY <1>1 DEF Init, DialogTypes, Nothing, Closed

\* What playing effects sends and shows.
LEMMA Executed ==
  ASSUME NEW q \in Seq(Effects), Execute(q)
  PROVE  /\ \E r \in Seq(EffectAcks) : toServer' = toServer \o r
         /\ win' \in {win, Closed}
<1> DEFINE over == {i \in DOMAIN q : q[i].wait} \ {i \in {j \in DOMAIN q : q[j].wait} : q[i].kind \in Lasting}
           acks == [i \in 1..Cardinality(over) |-> [t |-> "effectack"]]
<1>1. IsFiniteSet(over)
  <2>1. IsFiniteSet(1..Len(q)) /\ over \subseteq 1..Len(q)
    <3>1. Len(q) \in Nat /\ DOMAIN q = 1..Len(q)
      OBVIOUS
    <3> QED BY <3>1, FS_Interval
  <2> QED BY <2>1, FS_Subset
<1>2. Cardinality(over) \in Nat
  BY <1>1, FS_CardinalityType
<1>3. toServer' = toServer \o acks /\ win' \in {win, Closed}
  BY DEF Execute
<1> HIDE DEF over
<1>4. acks \in Seq(EffectAcks)
  <2>1. \A i \in 1..Cardinality(over) : [t |-> "effectack"] \in EffectAcks
    BY DEF EffectAcks
  <2> QED BY <1>2, <2>1
<1> QED BY <1>3, <1>4

\* A message of the server, by its kind.
LEMMA Heads ==
  ASSUME toClient \in Seq(ToClient), toClient # <<>>
  PROVE  /\ Head(toClient) \in ToClient /\ Tail(toClient) \in Seq(ToClient)
         /\ Head(toClient).t \in Asking => Head(toClient) \in Questions
         /\ Head(toClient).t = "effect" => Head(toClient) \in Effects
<1>1. Head(toClient) \in ToClient /\ Tail(toClient) \in Seq(ToClient)
  OBVIOUS
<1>2. \A x \in ToClient : /\ x.t \in Asking => x \in Questions
                          /\ x.t = "effect" => x \in Effects
  BY DEF ToClient, Asking, Questions, Effects
<1> QED BY <1>1, <1>2

LEMMA DialogTypesStep == DialogTypes /\ [Next]_d => DialogTypes'
<1> SUFFICES ASSUME DialogTypes, [Next]_d PROVE DialogTypes'
  OBVIOUS
<1>a. /\ spc \in {"idle", "run", "dialog", "choice", "effect", "loading"} /\ at \in Nat
      /\ gm \in [text : SUBSET Nat, menu : SUBSET Nat]
      /\ win \in [mode : {"closed", "text", "pause", "menu"}, ids : SUBSET Nat]
      /\ dialogAck \in SUBSET Nat /\ choiceCh \in SUBSET Nat
  BY DEF DialogTypes
<1>b. toClient \in Seq(ToClient) /\ toServer \in Seq(ToServer)
  BY DEF DialogTypes
<1>c. queued \in Seq(Questions) /\ effq \in Seq(Effects)
  BY DEF DialogTypes
<1>1. CASE UNCHANGED d
  BY <1>1, <1>a, <1>b, <1>c DEF DialogTypes, d, vars, serverVars, messageVars, effectVars
<1>2. CASE Read
  <2>1. toServer # <<>> /\ toServer' = Tail(toServer)
        /\ UNCHANGED <<at, queued, effq, gm, win>>
    BY <1>2 DEF Read, messageVars, effectVars
  <2>2. Head(toServer) \in ToServer /\ Tail(toServer) \in Seq(ToServer)
    BY <1>b, <2>1
  <2>3. Head(toServer).t \in {"ack", "reply"} => Head(toServer).ids \in SUBSET Nat
    BY <2>2 DEF ToServer, EffectAcks, Answers
  <2>4. dialogAck' \in SUBSET Nat /\ choiceCh' \in SUBSET Nat
    BY <1>2, <1>a, <2>3 DEF Read
  <2>5. [t |-> "start"] \in ToClient /\ [t |-> "end"] \in ToClient
    BY DEF ToClient
  <2>6. spc' \in {spc, "run"}
        /\ (toClient' = toClient \/ \E u \in {"start", "end"} : toClient' = Append(toClient, [t |-> u]))
    BY <1>2 DEF Read, Send
  <2>7. toClient' \in Seq(ToClient)
    <3>1. CASE toClient' = toClient
      BY <1>b, <3>1
    <3>2. CASE \E u \in {"start", "end"} : toClient' = Append(toClient, [t |-> u])
      BY <1>b, <2>5, <3>2
    <3> QED BY <2>6, <3>1, <3>2
  <2> QED BY <1>a, <1>b, <1>c, <2>1, <2>2, <2>4, <2>6, <2>7 DEF DialogTypes
<1>3. CASE Command
  <2>1. at' = at + 1 /\ spc' \in {"dialog", "choice", "effect", "run"}
        /\ UNCHANGED <<queued, effq, gm, win, dialogAck, choiceCh, toServer>>
    BY <1>3 DEF Command, messageVars, effectVars
  <2>2. \E x \in ToClient : toClient' = Append(toClient, x)
    <3>1. CASE toClient' = Append(toClient, [t |-> "dialog", n |-> at'])
      <4>1. [t |-> "dialog", n |-> at'] \in ToClient
        BY <1>a, <2>1 DEF ToClient, Questions, Asking
      <4> QED BY <3>1, <4>1
    <3>2. CASE \E u \in {"choices", "both"} : toClient' = Append(toClient, [t |-> u, n |-> at'])
      <4>1. \A u \in {"choices", "both"} : [t |-> u, n |-> at'] \in ToClient
        BY <1>a, <2>1 DEF ToClient, Questions, Asking
      <4> QED BY <3>2, <4>1
    <3>3. CASE \E u \in Kinds, v \in BOOLEAN :
                 toClient' = Append(toClient, [t |-> "effect", n |-> at', kind |-> u, wait |-> v])
      <4>1. \A u \in Kinds, v \in BOOLEAN : [t |-> "effect", n |-> at', kind |-> u, wait |-> v] \in ToClient
        BY <1>a, <2>1 DEF ToClient, Effects
      <4> QED BY <3>3, <4>1
    <3> QED BY <1>3, <3>1, <3>2, <3>3 DEF Command, Send
  <2> QED BY <1>a, <1>b, <1>c, <2>1, <2>2 DEF DialogTypes
<1>4. CASE TakeAck \/ TakeReply \/ TakeEffectAck \/ Autorun
  <2>1. spc' = "run" /\ dialogAck' \in {dialogAck, {}} /\ choiceCh' \in {choiceCh, {}}
        /\ UNCHANGED <<at, queued, effq, gm, win, toClient, toServer>>
    BY <1>4 DEF TakeAck, TakeReply, TakeEffectAck, Autorun, messageVars, effectVars
  <2> QED BY <1>a, <1>b, <1>c, <2>1 DEF DialogTypes
<1>5. CASE Transfer \/ End \/ Expire
  <2>1. spc' \in {"loading", "idle", "run"} /\ at' \in {at, at + 1}
        /\ dialogAck' \in {dialogAck, {}} /\ choiceCh' \in {choiceCh, {}}
        /\ UNCHANGED <<queued, effq, gm, win, toServer>>
    BY <1>5 DEF Transfer, End, Expire, messageVars, effectVars
  <2>2. toClient' \in Seq(ToClient)
    <3>1. <<[t |-> "init"], [t |-> "dialogend"]>> \in Seq(ToClient)
          /\ <<[t |-> "dialogend"], [t |-> "end"]>> \in Seq(ToClient)
      BY DEF ToClient
    <3>2. \/ toClient' = toClient
          \/ toClient' = toClient \o <<[t |-> "init"], [t |-> "dialogend"]>>
          \/ toClient' = toClient \o <<[t |-> "dialogend"], [t |-> "end"]>>
      BY <1>5 DEF Transfer, End, Expire
    <3> HIDE DEF ToClient
    <3> QED BY <1>b, <3>1, <3>2, Grown, Zenon
  <2> QED BY <1>a, <1>b, <1>c, <2>1, <2>2 DEF DialogTypes
<1>6. CASE OnEventStart \/ OnEventEnd \/ OnDialogEnd \/ OnMapInit
  <2>1. toClient # <<>> /\ toClient' = Tail(toClient)
        /\ effq' \in {effq, <<>>} /\ gm' \in {gm, Nothing} /\ win' \in {win, Closed}
        /\ UNCHANGED <<spc, at, queued, dialogAck, choiceCh, toServer>>
    <3>1. CASE OnEventStart
      BY <3>1 DEF OnEventStart, Received, serverVars, messageVars
    <3>2. CASE OnEventEnd \/ OnDialogEnd
      BY <3>2 DEF OnEventEnd, OnDialogEnd, Received, serverVars, effectVars
    <3>3. CASE OnMapInit
      BY <3>3 DEF OnMapInit, Received, serverVars
    <3> QED BY <1>6, <3>1, <3>2, <3>3
  <2>2. toClient' \in Seq(ToClient) /\ toServer' \in Seq(ToServer)
    BY <1>b, <2>1
  <2>3. <<>> \in Seq(Effects)
    OBVIOUS
  <2>4. queued' \in Seq(Questions) /\ effq' \in Seq(Effects)
    BY <1>c, <2>1, <2>3
  <2> QED BY <1>a, <2>1, <2>2, <2>4 DEF DialogTypes, Nothing, Closed
<1>7. CASE OnDialog \/ OnDialogChoices \/ OnChoices
  <2>1. toClient # <<>> /\ toClient' = Tail(toClient) /\ Head(toClient).t \in Asking
        /\ gm' \in {gm, Shown(Head(toClient))} /\ queued' \in {queued, Append(queued, Head(toClient))}
        /\ UNCHANGED <<spc, at, effq, win, dialogAck, choiceCh, toServer>>
    BY <1>7 DEF OnDialog, OnDialogChoices, OnChoices, Received, serverVars, effectVars, Asking
  <2>2. Head(toClient) \in Questions /\ Head(toClient).n \in Nat
    <3>1. Head(toClient) \in Questions
      BY <1>b, <2>1, Heads
    <3> QED BY <3>1 DEF Questions
  <2>3. Shown(Head(toClient)) \in [text : SUBSET Nat, menu : SUBSET Nat]
    BY <1>a, <2>2 DEF Shown
  <2>4. Tail(toClient) \in Seq(ToClient) /\ Append(queued, Head(toClient)) \in Seq(Questions)
    BY <1>b, <1>c, <2>1, <2>2
  <2> QED BY <1>a, <1>b, <1>c, <2>1, <2>3, <2>4 DEF DialogTypes
<1>8. CASE OnEffect
  <2>1. toClient # <<>> /\ toClient' = Tail(toClient) /\ Head(toClient).t = "effect"
        /\ UNCHANGED <<spc, at, queued, gm, dialogAck, choiceCh>>
    BY <1>8 DEF OnEffect, Received, serverVars
  <2>2. Head(toClient) \in Effects
    BY <1>b, <2>1, Heads
  <2>3. CASE UNCHANGED <<toServer, win>> /\ effq' = Append(effq, Head(toClient))
    <3>1. Tail(toClient) \in Seq(ToClient) /\ effq' \in Seq(Effects)
      BY <1>b, <1>c, <2>1, <2>2, <2>3
    <3> QED BY <1>a, <1>b, <1>c, <2>1, <2>3, <3>1 DEF DialogTypes
  <2>4. CASE Execute(<<Head(toClient)>>) /\ UNCHANGED effq
    <3>1. <<Head(toClient)>> \in Seq(Effects)
      BY <2>2
    <3>2. PICK r \in Seq(EffectAcks) : toServer' = toServer \o r
      BY <2>4, <3>1, Executed
    <3>3. win' \in {win, Closed}
      BY <2>4, <3>1, Executed
    <3>4. r \in Seq(ToServer)
      BY DEF ToServer
    <3>5. Tail(toClient) \in Seq(ToClient) /\ toServer' \in Seq(ToServer)
      BY <1>b, <2>1, <3>2, <3>4
    <3> QED BY <1>a, <1>c, <2>1, <2>4, <3>3, <3>5 DEF DialogTypes, Closed
  <2> QED BY <1>8, <2>3, <2>4 DEF OnEffect
<1>9. CASE DrainSome \/ DrainAll
  <2>1. \E q \in Seq(Effects) : Execute(q)
    <3>1. DrainSome => Head(effq) \in Effects /\ Execute(<<Head(effq)>>)
      BY <1>c DEF DrainSome
    <3>2. Head(effq) \in Effects => <<Head(effq)>> \in Seq(Effects)
      OBVIOUS
    <3>3. DrainAll => Execute(effq)
      BY DEF DrainAll
    <3> QED BY <1>9, <1>c, <3>1, <3>2, <3>3
  <2>2. PICK r \in Seq(EffectAcks) : toServer' = toServer \o r /\ win' \in {win, Closed}
    BY <2>1, Executed
  <2>3. r \in Seq(ToServer)
    BY DEF ToServer
  <2>4. gm' \in {gm, Nothing} /\ UNCHANGED <<spc, at, queued, toClient, dialogAck, choiceCh>>
    BY <1>9 DEF DrainSome, DrainAll, serverVars
  <2>5. effq' \in Seq(Effects)
    <3>1. (effq # <<>> /\ effq' = Tail(effq)) \/ effq' = <<>>
      BY <1>9 DEF DrainSome, DrainAll
    <3>2. <<>> \in Seq(Effects)
      OBVIOUS
    <3>3. CASE effq # <<>> /\ effq' = Tail(effq)
      BY <1>c, <3>3
    <3> QED BY <3>1, <3>2, <3>3
  <2>6. toServer' \in Seq(ToServer)
    BY <1>b, <2>2, <2>3
  <2> QED BY <1>a, <1>b, <1>c, <2>2, <2>4, <2>5, <2>6 DEF DialogTypes, Closed, Nothing
<1>10. CASE AckEffect \/ RouteEnds \/ Interact \/ Walk
  <2>1. UNCHANGED <<spc, at, toClient, queued, effq, gm, win, dialogAck, choiceCh>>
    BY <1>10 DEF AckEffect, RouteEnds, Interact, Walk, serverVars, messageVars, effectVars
  <2>2. toServer' = toServer \/ \E u \in {"effectack", "interact", "move"} : toServer' = Append(toServer, [t |-> u])
    BY <1>10 DEF AckEffect, RouteEnds, Interact, Walk, Reply
  <2>3. \A u \in {"effectack", "interact", "move"} : [t |-> u] \in ToServer
    BY DEF ToServer, EffectAcks
  <2>4. toServer' \in Seq(ToServer)
    <3>1. CASE toServer' = toServer
      BY <1>b, <3>1
    <3>2. CASE \E u \in {"effectack", "interact", "move"} : toServer' = Append(toServer, [t |-> u])
      <4>1. PICK u \in {"effectack", "interact", "move"} : toServer' = Append(toServer, [t |-> u])
        BY <3>2
      <4> QED BY <1>b, <2>3, <4>1, Grown, Zenon
    <3> QED BY <2>2, <3>1, <3>2
  <2> QED BY <1>a, <1>b, <1>c, <2>1, <2>4 DEF DialogTypes
<1>11. CASE StartMessage \/ EndOfText
  <2>1. UNCHANGED <<spc, at, toClient, toServer, queued, effq, gm, dialogAck, choiceCh>>
    BY <1>11 DEF StartMessage, EndOfText, serverVars, effectVars
  <2>2. win' \in [mode : {"closed", "text", "pause", "menu"}, ids : SUBSET Nat]
    <3>1. CASE StartMessage
      BY <1>a, <3>1 DEF StartMessage
    <3>2. CASE EndOfText /\ gm.menu # {}
      BY <1>a, <3>2 DEF EndOfText
    <3>3. CASE EndOfText /\ gm.menu = {}
      BY <1>a, <3>3 DEF EndOfText
    <3> QED BY <1>11, <3>1, <3>2, <3>3
  <2> QED BY <1>a, <1>b, <1>c, <2>1, <2>2 DEF DialogTypes
<1>12. CASE Dismiss
  <2>1. UNCHANGED <<spc, at, toClient, queued, effq, dialogAck, choiceCh>>
        /\ gm' = Nothing /\ win' = Closed
    BY <1>12 DEF Dismiss, serverVars, effectVars
  <2>2. <<[t |-> "reply", ids |-> gm.menu]>> \in Seq(ToServer) /\ <<>> \in Seq(ToServer)
        /\ <<[t |-> "ack", ids |-> win.ids]>> \in Seq(ToServer)
    BY <1>a DEF ToServer, Answers
  <2>3. toServer' \in Seq(ToServer)
    BY <1>12, <1>b, <2>2 DEF Dismiss
  <2> QED BY <1>a, <1>b, <1>c, <2>1, <2>3 DEF DialogTypes, Closed, Nothing
<1>13. CASE SceneStart
  <2>1. UNCHANGED <<spc, at, toClient, win, effq, dialogAck, choiceCh>>
    BY <1>13 DEF SceneStart, serverVars, effectVars
  <2>2. toServer' = Append(toServer, [t |-> "ready"]) /\ [t |-> "ready"] \in ToServer
    BY <1>13 DEF SceneStart, Reply, ToServer
  <2>3. \/ UNCHANGED <<gm, queued>>
        \/ queued # <<>> /\ gm' = Shown(Head(queued)) /\ queued' = Tail(queued)
    BY <1>13 DEF SceneStart
  <2>4. queued # <<>> => Head(queued) \in Questions /\ Tail(queued) \in Seq(Questions)
    BY <1>c
  <2>5. queued # <<>> => Head(queued).n \in Nat
    BY <2>4 DEF Questions
  <2>6. queued # <<>> => Shown(Head(queued)) \in [text : SUBSET Nat, menu : SUBSET Nat]
    BY <1>a, <2>5 DEF Shown
  <2>7. toServer' \in Seq(ToServer)
    BY <1>b, <2>2
  <2>8. queued' \in Seq(Questions) /\ gm' \in [text : SUBSET Nat, menu : SUBSET Nat]
    BY <1>a, <1>c, <2>3, <2>4, <2>6
  <2> QED BY <1>a, <1>b, <1>c, <2>1, <2>7, <2>8 DEF DialogTypes
<1> QED BY <1>1, <1>2, <1>3, <1>4, <1>5, <1>6, <1>7, <1>8, <1>9, <1>10, <1>11, <1>12, <1>13
        DEF Next, Server, Client, Player

-----------------------------------------------------------------------------
(* The player is set free *)

\* Every start and every effect on its way has an end behind it.
Closing(q) ==
  \A j \in 1..Len(q) : q[j].t \in {"start", "effect"} =>
    \E k \in 1..Len(q) : k > j /\ q[k].t = "end"

FreeInv ==
  /\ endPending => draining
  /\ effq # <<>> => draining
  /\ active => \/ spc # "idle" \/ endPending
               \/ ~NoneOf(toClient, {"end"}) \/ ~NoneOf(toServer, {"interact"}) \/ ignored
  /\ forced \/ Some(effq, "route") => spc # "idle" \/ endPending \/ ~NoneOf(toClient, {"end"})
  /\ spc = "idle" => Closing(toClient)

LEMMA ClosingGrows ==
  ASSUME NEW q \in Seq(ToClient)
  PROVE  /\ Closing(q) => Closing(Append(q, [t |-> "end"]))
         /\ ~NoneOf(Append(q, [t |-> "end"]), {"end"})
         /\ Closing(q \o <<[t |-> "dialogend"], [t |-> "end"]>>)
         /\ ~NoneOf(q \o <<[t |-> "dialogend"], [t |-> "end"]>>, {"end"})
<1> DEFINE x == Append(q, [t |-> "end"])
           y == q \o <<[t |-> "dialogend"], [t |-> "end"]>>
<1>1. /\ Len(x) = Len(q) + 1 /\ x[Len(q) + 1] = [t |-> "end"] /\ Len(q) \in Nat
      /\ \A k \in 1..Len(q) : x[k] = q[k]
  OBVIOUS
<1>2. Len(y) = Len(q) + 2 /\ y[Len(q) + 1] = [t |-> "dialogend"] /\ y[Len(q) + 2] = [t |-> "end"]
  OBVIOUS
<1> HIDE DEF x, y
<1>3. ~NoneOf(x, {"end"})
  <2>1. Len(q) + 1 \in 1..Len(x) /\ x[Len(q) + 1].t = "end"
    BY <1>1
  <2> QED BY <2>1 DEF NoneOf
<1>4. ~NoneOf(y, {"end"})
  <2>1. Len(q) + 2 \in 1..Len(y) /\ y[Len(q) + 2].t = "end"
    BY <1>1, <1>2
  <2> QED BY <2>1 DEF NoneOf
<1>5. Closing(y)
  <2>1. Len(q) + 2 \in 1..Len(y) /\ y[Len(q) + 2].t = "end"
        /\ \A j \in 1..Len(y) : j = Len(q) + 2 \/ Len(q) + 2 > j
    BY <1>1, <1>2
  <2> QED BY <2>1 DEF Closing
<1>6. Closing(x)
  <2>1. Len(q) + 1 \in 1..Len(x) /\ x[Len(q) + 1].t = "end"
        /\ \A j \in 1..Len(x) : j = Len(q) + 1 \/ Len(q) + 1 > j
    BY <1>1
  <2> QED BY <2>1 DEF Closing
<1> QED BY <1>3, <1>4, <1>5, <1>6 DEF x, y

LEMMA ClosingTail ==
  ASSUME NEW q \in Seq(ToClient), q # <<>>, Closing(q)
  PROVE  /\ Closing(Tail(q))
         /\ Head(q).t \in {"start", "effect"} => ~NoneOf(Tail(q), {"end"})
<1>1. /\ Len(q) \in Nat /\ Len(q) >= 1 /\ Head(q) = q[1] /\ Len(Tail(q)) = Len(q) - 1
      /\ \A k \in 1..Len(Tail(q)) : Tail(q)[k] = q[k + 1]
  OBVIOUS
<1>2. ASSUME NEW j \in 1..Len(q), q[j].t \in {"start", "effect"}
      PROVE  \E k \in 1..Len(Tail(q)) : k > j - 1 /\ Tail(q)[k].t = "end"
  <2>1. PICK k \in 1..Len(q) : k > j /\ q[k].t = "end"
    BY <1>2 DEF Closing
  <2>2. k - 1 \in 1..Len(Tail(q)) /\ Tail(q)[k - 1] = q[k] /\ k - 1 > j - 1
    BY <1>1, <2>1
  <2> QED BY <2>1, <2>2
<1>3. Closing(Tail(q))
  <2>1. SUFFICES ASSUME NEW j \in 1..Len(Tail(q)), Tail(q)[j].t \in {"start", "effect"}
                 PROVE  \E k \in 1..Len(Tail(q)) : k > j /\ Tail(q)[k].t = "end"
    BY DEF Closing
  <2>2. j + 1 \in 1..Len(q) /\ q[j + 1].t \in {"start", "effect"} /\ (j + 1) - 1 = j
    BY <1>1, <2>1
  <2> QED BY <1>2, <2>2
<1>4. Head(q).t \in {"start", "effect"} => ~NoneOf(Tail(q), {"end"})
  <2>1. 1 \in 1..Len(q)
    BY <1>1
  <2> QED BY <1>1, <1>2, <2>1 DEF NoneOf
<1> QED BY <1>3, <1>4

\* The routes among the effects.
LEMMA Routes ==
  ASSUME NEW q \in Seq(Effects)
  PROVE  /\ ~Some(<<>>, "route")
         /\ \A r \in Effects : Some(Append(q, r), "route") => Some(q, "route") \/ r.kind = "route"
         /\ q # <<>> => (Head(q).kind = "route" \/ Some(Tail(q), "route") => Some(q, "route"))
<1>1. DOMAIN q = 1..Len(q) /\ Len(q) \in Nat /\ DOMAIN <<>> = {}
  OBVIOUS
<1>2. ASSUME NEW r \in Effects, Some(Append(q, r), "route") PROVE Some(q, "route") \/ r.kind = "route"
  <2>1. DOMAIN Append(q, r) = 1..(Len(q) + 1) /\ Append(q, r)[Len(q) + 1] = r
        /\ \A k \in 1..Len(q) : Append(q, r)[k] = q[k]
    OBVIOUS
  <2> QED BY <1>1, <1>2, <2>1 DEF Some
<1>3. ASSUME q # <<>> PROVE Head(q).kind = "route" \/ Some(Tail(q), "route") => Some(q, "route")
  <2>1. Len(q) >= 1 /\ Head(q) = q[1] /\ DOMAIN Tail(q) = 1..(Len(q) - 1)
        /\ \A k \in 1..(Len(q) - 1) : Tail(q)[k] = q[k + 1]
    BY <1>3
  <2>2. 1 \in 1..Len(q) /\ \A k \in 1..(Len(q) - 1) : k + 1 \in 1..Len(q)
    BY <1>1, <2>1
  <2> QED BY <1>1, <2>1, <2>2 DEF Some
<1> QED BY <1>1, <1>2, <1>3 DEF Some

LEMMA FreeInitial == Init => FreeInv
<1> SUFFICES ASSUME Init PROVE FreeInv
  OBVIOUS
<1>1. <<>> \in Seq(Effects) /\ Len(<<>>) = 0 /\ 1..0 = {}
  OBVIOUS
<1>2. ~Some(<<>>, "route") /\ Closing(<<>>)
  BY <1>1, Routes DEF Closing
<1> QED BY <1>2 DEF Init, FreeInv

\* What the client sends is behind what it has sent.
LEMMA Sends ==
  ASSUME DialogTypes, NEW x \in Seq(ToServer), toServer' = toServer \o x
  PROVE  ~NoneOf(toServer, {"interact"}) => ~NoneOf(toServer', {"interact"})
<1>1. toServer \in Seq(ToServer)
  BY DEF DialogTypes
<1> QED BY <1>1, NoneConcat

LEMMA FreeStep == DialogTypes /\ FreeInv /\ [Next]_d => FreeInv'
<1> SUFFICES ASSUME DialogTypes, FreeInv, [Next]_d PROVE FreeInv'
  OBVIOUS
<1> DEFINE EndComes == ~NoneOf(toClient, {"end"})
           Asks == ~NoneOf(toServer, {"interact"})
           Route == Some(effq, "route")
<1>a. toClient \in Seq(ToClient) /\ toServer \in Seq(ToServer) /\ effq \in Seq(Effects)
  BY DEF DialogTypes
<1>b. /\ endPending => draining
      /\ effq # <<>> => draining
      /\ active => spc # "idle" \/ endPending \/ EndComes \/ Asks \/ ignored
      /\ forced \/ Route => spc # "idle" \/ endPending \/ EndComes
      /\ spc = "idle" => Closing(toClient)
  BY DEF FreeInv
<1>c. SUFFICES /\ endPending' => draining'
               /\ effq' # <<>> => draining'
               /\ active' => spc' # "idle" \/ endPending' \/ EndComes' \/ Asks' \/ ignored'
               /\ forced' \/ Route' => spc' # "idle" \/ endPending' \/ EndComes'
               /\ spc' = "idle" => Closing(toClient')
  BY DEF FreeInv
\* A message is heard: what an end or a start behind it is worth.
<1>d. toClient # <<>> /\ toClient' = Tail(toClient) =>
        /\ Head(toClient).t # "end" => (EndComes => EndComes')
        /\ spc = "idle" => /\ Closing(toClient')
                           /\ Head(toClient).t \in {"start", "effect"} => EndComes'
  <2> SUFFICES ASSUME toClient # <<>>, toClient' = Tail(toClient)
               PROVE  /\ Head(toClient).t # "end" => (EndComes => EndComes')
                      /\ spc = "idle" => /\ Closing(toClient')
                                         /\ Head(toClient).t \in {"start", "effect"} => EndComes'
    OBVIOUS
  <2>1. NoneOf(toClient, {"end"}) <=> Head(toClient).t \notin {"end"} /\ NoneOf(Tail(toClient), {"end"})
    BY <1>a, NoneTail
  <2>2. Closing(toClient) => /\ Closing(Tail(toClient))
                             /\ Head(toClient).t \in {"start", "effect"} => ~NoneOf(Tail(toClient), {"end"})
    BY <1>a, ClosingTail
  <2> QED BY <1>b, <2>1, <2>2
\* What is sent grows.
<1>e. \A x \in Seq(ToServer) : toServer' = toServer \o x => (Asks => Asks')
  BY Sends
<1>f. \A x \in ToServer : toServer' = Append(toServer, x) =>
        (Asks => Asks') /\ (x.t = "interact" => Asks')
  <2> SUFFICES ASSUME NEW x \in ToServer, toServer' = Append(toServer, x)
               PROVE  (Asks => Asks') /\ (x.t = "interact" => Asks')
    OBVIOUS
  <2>1. NoneOf(toServer', {"interact"}) <=> NoneOf(toServer, {"interact"}) /\ x.t \notin {"interact"}
    BY <1>a, NoneAppend
  <2> QED BY <2>1
<1> HIDE DEF EndComes, Asks, Route
<1>1. CASE UNCHANGED d
  <2>1. UNCHANGED <<spc, endPending, draining, active, forced, effq, toClient, toServer, ignored>>
    BY <1>1 DEF d, vars, serverVars, effectVars
  <2> QED BY <1>b, <2>1 DEF EndComes, Asks, Route
<1>2. CASE Server
  <2>1. UNCHANGED effectVars /\ (ignored => ignored')
    <3>1. CASE Read
      <4>1. ignored' = ignored \/ ignored' = (ignored \/ Head(toServer).t = "interact")
        BY <3>1, Zenon DEF Read
      <4>2. UNCHANGED effectVars
        BY <3>1 DEF Read
      <4>3. ignored => ignored'
        BY <4>1, Zenon
      <4> QED BY <4>2, <4>3
    <3>2. CASE Command \/ TakeAck \/ TakeReply \/ TakeEffectAck \/ Transfer \/ Autorun \/ End \/ Expire
      BY <3>2 DEF Command, TakeAck, TakeReply, TakeEffectAck, Transfer, Autorun, End, Expire
    <3> QED BY <1>2, <3>1, <3>2 DEF Server
  <2>2. Route' = Route
    BY <2>1 DEF Route, effectVars
  <2>3. CASE spc' # "idle"
    BY <1>b, <2>1, <2>2, <2>3 DEF effectVars
  <2>4. CASE EndComes' /\ Closing(toClient')
    BY <1>b, <2>1, <2>2, <2>4 DEF effectVars
  <2>5. CASE UNCHANGED <<spc, toClient>> /\ (Asks => Asks')
    <3>1. EndComes' = EndComes
      BY <2>5 DEF EndComes
    <3> QED BY <1>b, <2>1, <2>2, <2>5, <3>1 DEF effectVars
  <2>6. CASE End \/ Expire
    <3>1. spc' # "idle" \/ toClient' = toClient \o <<[t |-> "dialogend"], [t |-> "end"]>>
      BY <2>6 DEF End, Expire
    <3>2. toClient' = toClient \o <<[t |-> "dialogend"], [t |-> "end"]>> => EndComes' /\ Closing(toClient')
      BY <1>a, ClosingGrows DEF EndComes
    <3> QED BY <2>3, <2>4, <3>1, <3>2
  <2>7. CASE Read
    <3>1. toServer # <<>> /\ toServer' = Tail(toServer)
      BY <2>7 DEF Read
    <3>2. NoneOf(toServer, {"interact"}) <=>
            Head(toServer).t \notin {"interact"} /\ NoneOf(Tail(toServer), {"interact"})
      BY <1>a, <3>1, NoneTail
    <3>3. CASE spc' = "run"
      BY <2>3, <3>3
    <3>4. CASE UNCHANGED spc /\ toClient' = Append(toClient, [t |-> "end"])
      <4>1. EndComes' /\ (Closing(toClient) => Closing(toClient'))
        BY <1>a, <3>4, ClosingGrows DEF EndComes
      <4> QED BY <1>b, <2>3, <2>4, <3>4, <4>1
    <3>5. CASE ignored' = (ignored \/ Head(toServer).t = "interact") /\ UNCHANGED <<spc, toClient>>
      <4>1. CASE Head(toServer).t # "interact"
        BY <2>5, <3>1, <3>2, <3>5, <4>1 DEF Asks
      <4>2. CASE Head(toServer).t = "interact"
        <5>1. EndComes' = EndComes /\ ignored'
          BY <3>5, <4>2 DEF EndComes
        <5> QED BY <1>b, <2>1, <2>2, <3>5, <5>1 DEF effectVars
      <4> QED BY <4>1, <4>2
    <3> QED BY <2>7, <3>3, <3>4, <3>5 DEF Read, Send
  <2>8. CASE Command \/ TakeAck \/ TakeReply \/ TakeEffectAck \/ Transfer \/ Autorun
    <3>1. spc' # "idle"
      BY <2>8 DEF Command, TakeAck, TakeReply, TakeEffectAck, Transfer, Autorun
    <3> QED BY <2>3, <3>1
  <2> QED BY <1>2, <2>6, <2>7, <2>8 DEF Server
<1>3. CASE OnEventStart
  <2>1. /\ toClient # <<>> /\ toClient' = Tail(toClient) /\ Head(toClient).t = "start"
        /\ UNCHANGED <<spc, endPending, draining, forced, effq, ignored>>
    BY <1>3 DEF OnEventStart, Received, serverVars
  <2>2. Route' = Route
    BY <2>1 DEF Route
  <2> QED BY <1>b, <1>d, <2>1, <2>2
<1>4. CASE OnEventEnd
  <2>1. /\ toClient # <<>> /\ toClient' = Tail(toClient)
        /\ endPending' = (endPending \/ draining) /\ active' = (active /\ draining)
        /\ forced' = FALSE /\ ignored' = (ignored /\ draining) /\ UNCHANGED <<spc, draining, effq>>
    BY <1>4 DEF OnEventEnd, Received, serverVars
  <2>2. Route' = Route
    BY <2>1 DEF Route
  <2>3. ~draining => ~Route
    <3>1. effq = <<>> => ~Route
      BY <1>a, Routes DEF Route
    <3> QED BY <1>b, <3>1
  <2> QED BY <1>b, <1>d, <2>1, <2>2, <2>3, Zenon
<1>5. CASE OnDialog \/ OnDialogChoices \/ OnChoices \/ OnDialogEnd
  <2>1. /\ toClient # <<>> /\ toClient' = Tail(toClient) /\ Head(toClient).t # "end"
        /\ UNCHANGED <<spc, endPending, draining, active, forced, effq, toServer, ignored>>
    BY <1>5 DEF OnDialog, OnDialogChoices, OnChoices, OnDialogEnd, Received, serverVars, effectVars
  <2>2. Route' = Route /\ Asks' = Asks
    BY <2>1 DEF Route, Asks
  <2> QED BY <1>b, <1>d, <2>1, <2>2
<1>6. CASE OnMapInit
  <2>1. /\ toClient # <<>> /\ toClient' = Tail(toClient) /\ Head(toClient).t = "init"
        /\ UNCHANGED <<spc, endPending, draining, active, toServer, ignored>> /\ effq' = <<>> /\ forced' = FALSE
    BY <1>6 DEF OnMapInit, Received, serverVars
  <2>2. ~Route' /\ Asks' = Asks
    BY <1>a, <2>1, Routes DEF Route, Asks
  <2> QED BY <1>b, <1>d, <2>1, <2>2
<1>7. CASE OnEffect
  <2>1. /\ toClient # <<>> /\ toClient' = Tail(toClient) /\ Head(toClient).t = "effect"
        /\ UNCHANGED <<spc, endPending, active, ignored>>
        /\ draining => draining' = draining
        /\ ~draining => UNCHANGED effq
    BY <1>7 DEF OnEffect, Received, serverVars
  <2> QED BY <1>b, <1>d, <2>1
<1>8. CASE DrainSome
  <2>1. /\ draining /\ effq # <<>> /\ effq' = Tail(effq)
        /\ UNCHANGED <<spc, endPending, draining, active, toClient, ignored>>
        /\ forced' = (forced \/ Head(effq).kind = "route")
    BY <1>8 DEF DrainSome, serverVars
  <2>2. Head(effq).kind = "route" \/ Route' => Route
    BY <1>a, <2>1, Routes DEF Route
  <2>3. Asks => Asks'
    <3>1. \E x \in Seq(EffectAcks) : toServer' = toServer \o x
      <4>1. Head(effq) \in Effects /\ Execute(<<Head(effq)>>)
        BY <1>8, <1>a DEF DrainSome
      <4>2. <<Head(effq)>> \in Seq(Effects)
        BY <4>1
      <4> QED BY <4>1, <4>2, Executed
    <3>2. \A x \in Seq(EffectAcks) : x \in Seq(ToServer)
      BY DEF ToServer
    <3> QED BY <1>e, <3>1, <3>2
  <2>4. EndComes' = EndComes
    BY <2>1 DEF EndComes
  <2>5. forced' \/ Route' => forced \/ Route
    BY <2>1, <2>2, Zenon
  <2> QED BY <1>b, <2>1, <2>3, <2>4, <2>5
<1>9. CASE DrainAll
  <2>1. /\ draining' = FALSE /\ effq' = <<>> /\ endPending' = FALSE
        /\ active' = (active /\ ~endPending) /\ forced' = ((forced \/ Route) /\ ~endPending)
        /\ ignored' = (ignored /\ ~endPending)
        /\ UNCHANGED <<spc, toClient>>
    BY <1>9 DEF DrainAll, serverVars, Route
  <2>2. ~Route'
    BY <1>a, <2>1, Routes DEF Route
  <2>3. Asks => Asks'
    <3>1. \E x \in Seq(EffectAcks) : toServer' = toServer \o x
      BY <1>9, <1>a, Executed DEF DrainAll
    <3>2. \A x \in Seq(EffectAcks) : x \in Seq(ToServer)
      BY DEF ToServer
    <3> QED BY <1>e, <3>1, <3>2
  <2>4. EndComes' = EndComes
    BY <2>1 DEF EndComes
  <2> QED BY <1>b, <2>1, <2>2, <2>3, <2>4, Zenon
<1>10. CASE AckEffect \/ RouteEnds \/ StartMessage \/ EndOfText \/ SceneStart \/ Walk \/ Dismiss
  <2>1. /\ UNCHANGED <<spc, toClient, endPending, draining, active, effq, ignored>>
        /\ UNCHANGED forced \/ forced' = FALSE
    BY <1>10 DEF AckEffect, RouteEnds, StartMessage, EndOfText, SceneStart, Walk, Dismiss,
                 serverVars, effectVars
  <2>2. Asks => Asks'
    <3>1. CASE Dismiss
      <4>1. win \in [mode : {"closed", "text", "pause", "menu"}, ids : SUBSET Nat]
            /\ gm \in [text : SUBSET Nat, menu : SUBSET Nat]
        BY DEF DialogTypes
      <4>2. [t |-> "reply", ids |-> gm.menu] \in ToServer /\ [t |-> "ack", ids |-> win.ids] \in ToServer
        BY <4>1 DEF ToServer, Answers
      <4>3. PICK x, y \in Seq(ToServer) : toServer' = toServer \o x \o y
        <5>1. <<[t |-> "reply", ids |-> gm.menu]>> \in Seq(ToServer) /\ <<>> \in Seq(ToServer)
              /\ <<[t |-> "ack", ids |-> win.ids]>> \in Seq(ToServer)
          BY <4>2
        <5> QED BY <3>1, <5>1 DEF Dismiss
      <4>4. toServer' = toServer \o (x \o y) /\ x \o y \in Seq(ToServer)
        BY <1>a, <4>3
      <4> QED BY <1>e, <4>4
    <3>2. CASE toServer' = toServer
      BY <3>2 DEF Asks
    <3>3. CASE \E z \in {"effectack", "ready", "move"} : toServer' = Append(toServer, [t |-> z])
      <4>1. \A z \in {"effectack", "ready", "move"} : [t |-> z] \in ToServer
        BY DEF ToServer, EffectAcks
      <4> QED BY <1>f, <3>3, <4>1
    <3> QED BY <1>10, <3>1, <3>2, <3>3 DEF AckEffect, RouteEnds, StartMessage, EndOfText, SceneStart, Walk, Reply
  <2>3. EndComes' = EndComes /\ Route' = Route
    BY <2>1 DEF EndComes, Route
  <2>4. forced' \/ Route' => forced \/ Route
    BY <2>1, <2>3, Zenon
  <2> QED BY <1>b, <2>1, <2>2, <2>3, <2>4
<1>11. CASE Interact
  <2>1. UNCHANGED <<spc, toClient, endPending, draining, effq, forced, ignored>>
        /\ toServer' = Append(toServer, [t |-> "interact"])
    BY <1>11 DEF Interact, Reply, serverVars
  <2>2. [t |-> "interact"] \in ToServer
    BY DEF ToServer
  <2>3. Asks'
    BY <1>f, <2>1, <2>2
  <2>4. EndComes' = EndComes /\ Route' = Route
    BY <2>1 DEF EndComes, Route
  <2> QED BY <1>b, <2>1, <2>3, <2>4
<1> QED BY <1>1, <1>2, <1>3, <1>4, <1>5, <1>6, <1>7, <1>8, <1>9, <1>10, <1>11
        DEF Next, Client, Player

LEMMA FreeRests == DialogTypes /\ FreeInv => FreeAtRest
<1> SUFFICES ASSUME DialogTypes, FreeInv, spc = "idle", toClient = <<>>, ~draining,
                    ~Sent(toServer, "interact")
             PROVE  (active => ignored) /\ ~endPending /\ ~forced
  BY DEF FreeAtRest
<1>1. NoneOf(toClient, {"end"})
  BY NoneEmpty
<1>2. NoneOf(toServer, {"interact"})
  <2>1. DOMAIN toServer = 1..Len(toServer)
    BY DEF DialogTypes
  <2> QED BY <2>1 DEF Sent, NoneOf
<1> QED BY <1>1, <1>2 DEF FreeInv

-----------------------------------------------------------------------------
(* A battle that is played: its timer and its mark *)

PuppetOwn ==
  /\ puppetMode \in BOOLEAN /\ defeatTimer \in BOOLEAN /\ inBattle \in BOOLEAN
  /\ Puppet!OwnBattle

LEMMA PuppetOwnInitial == Puppet!Init => PuppetOwn
BY DEF Puppet!Init, PuppetOwn, Puppet!OwnBattle

LEMMA PuppetOwnStep == PuppetOwn /\ [Puppet!Next]_p => PuppetOwn'
<1> SUFFICES ASSUME PuppetOwn, [Puppet!Next]_p PROVE PuppetOwn'
  OBVIOUS
<1>1. /\ puppetMode \in BOOLEAN /\ defeatTimer \in BOOLEAN /\ inBattle \in BOOLEAN
      /\ defeatTimer \/ inBattle => puppetMode
  BY DEF PuppetOwn, Puppet!OwnBattle
<1>2. \/ UNCHANGED <<puppetMode, defeatTimer, inBattle>>
      \/ puppetMode' = TRUE /\ defeatTimer' \in BOOLEAN /\ inBattle' \in BOOLEAN
      \/ puppetMode' = FALSE /\ defeatTimer' = FALSE /\ inBattle' = FALSE
      \/ UNCHANGED <<puppetMode, inBattle>> /\ defeatTimer' = FALSE
  <2>1. CASE UNCHANGED p
    BY <2>1 DEF p
  <2>2. CASE Puppet!Battle
    BY <2>2 DEF Puppet!Battle, Puppet!BattleBegins, Puppet!RequestInput, Puppet!TakeInput,
                Puppet!DropAnswer, Puppet!Report, Puppet!OtherEscapes, Puppet!ShowText,
                Puppet!TakeAck, Puppet!BattleEnds, Puppet!Recover, Puppet!ServerOnly,
                Puppet!sceneVars
  <2>3. CASE Puppet!Messages
    <3>1. CASE Puppet!OnBattleStart
      BY <1>1, <3>1 DEF Puppet!OnBattleStart
    <3>2. CASE Puppet!OnBattleEnd
      BY <3>2 DEF Puppet!OnBattleEnd
    <3>3. CASE Puppet!OnInputRequest \/ Puppet!OnReport \/ Puppet!OnTroopText \/ Puppet!TextRead
               \/ Puppet!OnRecover
      BY <3>3 DEF Puppet!OnInputRequest, Puppet!OnReport, Puppet!OnTroopText, Puppet!TextRead,
                  Puppet!OnRecover, Puppet!sceneVars
    <3>4. ASSUME NEW k \in {"input", "action", "escape", "turnend", "text", "end"}, Puppet!Ignored(k)
          PROVE  UNCHANGED <<puppetMode, defeatTimer, inBattle>>
      BY <3>4 DEF Puppet!Ignored, Puppet!sceneVars
    <3> QED BY <2>3, <3>1, <3>2, <3>3, <3>4 DEF Puppet!Messages
  <2>4. CASE Puppet!SceneChange
    <3>1. UNCHANGED <<puppetMode, defeatTimer>>
          /\ inBattle' = (inBattle \/ (goingTo = "battle" /\ puppetMode))
      BY <2>4 DEF Puppet!SceneChange
    <3>2. CASE puppetMode
      <4>1. inBattle' \in BOOLEAN
        BY <3>1, Zenon
      <4> QED BY <1>1, <3>1, <3>2, <4>1
    <3>3. CASE ~puppetMode
      <4>1. inBattle' = FALSE /\ inBattle = FALSE
        BY <1>1, <3>1, <3>3, Zenon
      <4> QED BY <3>1, <4>1
    <3> QED BY <3>2, <3>3
  <2>5. CASE Puppet!LeaveDefeated
    BY <1>1, <2>5 DEF Puppet!LeaveDefeated
  <2>6. CASE Puppet!ArmDefeat \/ Puppet!ProcessInput
    BY <1>1, <2>6 DEF Puppet!ArmDefeat, Puppet!ProcessInput, Puppet!Frame, Puppet!sceneVars
  <2>7. CASE Puppet!BecomeReady \/ Puppet!PlayNext \/ Puppet!HitFrame \/ Puppet!ActionOver
    BY <2>7 DEF Puppet!BecomeReady, Puppet!PlayNext, Puppet!HitFrame, Puppet!ActionOver, Puppet!sceneVars
  <2>8. CASE Puppet!Choices
    BY <2>8 DEF Puppet!Choices, Puppet!Choosing, Puppet!CommandAttack, Puppet!CommandGuard,
                Puppet!CommandEscape, Puppet!CommandCustom, Puppet!OpenList, Puppet!ListOk,
                Puppet!ListCancel, Puppet!TargetOk, Puppet!TargetCancel, Puppet!sceneVars
  <2> QED BY <2>1, <2>2, <2>3, <2>4, <2>5, <2>6, <2>7, <2>8 DEF Puppet!Next, Puppet!Frames
<1>3. /\ puppetMode' \in BOOLEAN /\ defeatTimer' \in BOOLEAN /\ inBattle' \in BOOLEAN
      /\ defeatTimer' \/ inBattle' => puppetMode'
  <2>1. CASE UNCHANGED <<puppetMode, defeatTimer, inBattle>>
    <3>1. puppetMode' = puppetMode /\ defeatTimer' = defeatTimer /\ inBattle' = inBattle
      BY <2>1
    <3> QED BY <1>1, <3>1, Zenon
  <2>2. CASE puppetMode' = TRUE /\ defeatTimer' \in BOOLEAN /\ inBattle' \in BOOLEAN
    BY <2>2
  <2>3. CASE puppetMode' = FALSE /\ defeatTimer' = FALSE /\ inBattle' = FALSE
    BY <2>3
  <2>4. CASE UNCHANGED <<puppetMode, inBattle>> /\ defeatTimer' = FALSE
    <3>1. puppetMode' = puppetMode /\ inBattle' = inBattle /\ defeatTimer' = FALSE
      BY <2>4
    <3> QED BY <1>1, <3>1, Zenon
  <2> QED BY <1>2, <2>1, <2>2, <2>3, <2>4, Zenon
<1> QED BY <1>3, Zenon DEF PuppetOwn, Puppet!OwnBattle

-----------------------------------------------------------------------------
(* The server waits for an answer *)

\* What the server asks for now, and the answer to it.
Waiting == spc \in {"dialog", "choice"}
Fitting == {x \in Questions : x.n = at /\ (x.t = "dialog" <=> spc = "dialog")}
Answering == {"ack", "reply"}
Mine == {[t |-> IF spc = "dialog" THEN "ack" ELSE "reply", ids |-> {at}]}

\* Nothing is asked, nothing is shown, nothing is answered.
Silent == NoneOf(toClient, Asking)
Clear == queued = <<>> /\ gm = Nothing /\ win = Closed
Unanswered == dialogAck = {} /\ choiceCh = {} /\ NoneOf(toServer, Answering)
NoEnd == NoneOf(toClient, {"dialogend"})

\* The ways of a question: nothing is asked; it is on its way, and no end of a dialog
\* behind it; it waits for the map; it is on the screen; the answer, and no other, is on
\* its way or in its channel.
Resting == ~Waiting /\ Silent /\ Clear /\ Unanswered
InFlight == Waiting /\ Clear /\ Unanswered /\ OneOf(toClient, Asking, Fitting, {"dialogend"})
Kept ==
  /\ Waiting /\ Silent /\ NoEnd /\ Unanswered
  /\ queued # <<>> /\ Head(queued) \in Fitting /\ Tail(queued) = <<>>
  /\ gm = Nothing /\ win = Closed
OnScreen ==
  /\ Waiting /\ Silent /\ NoEnd /\ Unanswered
  /\ queued = <<>>
  /\ gm = [text |-> {at}, menu |-> IF spc = "dialog" THEN {} ELSE {at}]
  /\ spc = "dialog" => pending
  /\ \/ win = Closed
     \/ win.ids = {at} /\ win.mode \in {"text", IF spc = "dialog" THEN "pause" ELSE "menu"}
Taken == /\ dialogAck = (IF spc = "dialog" THEN {at} ELSE {})
         /\ choiceCh = (IF spc = "dialog" THEN {} ELSE {at})
Answered ==
  /\ Waiting /\ Silent /\ Clear
  /\ \/ Taken /\ NoneOf(toServer, Answering)
     \/ dialogAck = {} /\ choiceCh = {} /\ OneOf(toServer, Answering, Mine, {})

Stage == Resting \/ InFlight \/ Kept \/ OnScreen \/ Answered
AskInv == ~upset => Stage

\* What is no answer.
Quiet == [t : {"interact", "move", "ready"}] \union EffectAcks

LEMMA QuietGrowth ==
  ASSUME NEW q \in Seq(ToServer), NEW x \in Seq(Quiet), NEW E
  PROVE  /\ NoneOf(q \o x, Answering) <=> NoneOf(q, Answering)
         /\ OneOf(q, Answering, E, {}) => OneOf(q \o x, Answering, E, {})
<1>1. \A y \in Quiet : y \in ToServer /\ y.t \notin Answering /\ y.t \notin {}
  BY DEF Quiet, ToServer, EffectAcks, Answering
<1>2. x \in Seq(ToServer)
  BY <1>1
<1>3. \A k \in 1..Len(x) : x[k] \in Quiet
  OBVIOUS
<1>4. NoneOf(x, Answering) /\ NoneOf(x, {})
  BY <1>1, <1>3 DEF NoneOf
<1>5. NoneOf(q \o x, Answering) <=> NoneOf(q, Answering)
  BY <1>2, <1>4, NoneConcat
<1>6. OneOf(q, Answering, E, {}) => OneOf(q \o x, Answering, E, {})
  BY <1>2, <1>4, OneConcat
<1> QED BY <1>5, <1>6

\* Nothing that is said about the question is undone.
LEMMA Stays ==
  ASSUME DialogTypes, Stage,
         UNCHANGED <<spc, at, dialogAck, choiceCh, queued, gm>>, win' \in {win, Closed},
         OnScreen => UNCHANGED pending,
         NEW x \in Seq(Quiet), toServer' = toServer \o x,
         Silent => Silent', NoEnd => NoEnd',
         OneOf(toClient, Asking, Fitting, {"dialogend"}) =>
           OneOf(toClient', Asking, Fitting, {"dialogend"})
  PROVE  Stage'
<1>1. toServer \in Seq(ToServer)
  BY DEF DialogTypes
<1>2. /\ NoneOf(toServer', Answering) <=> NoneOf(toServer, Answering)
      /\ OneOf(toServer, Answering, Mine, {}) => OneOf(toServer', Answering, Mine, {})
  BY <1>1, QuietGrowth
<1>4. Waiting' = Waiting /\ (Unanswered => Unanswered') /\ Fitting' = Fitting /\ Mine' = Mine
  BY <1>2 DEF Waiting, Unanswered, Fitting, Mine
<1>6. Clear => Clear'
  BY DEF Clear
<1>7. CASE Resting
  BY <1>4, <1>6, <1>7 DEF Resting, Stage
<1>8. CASE InFlight
  BY <1>4, <1>6, <1>8 DEF InFlight, Stage
<1>9. CASE Kept
  BY <1>4, <1>9 DEF Kept, Stage, Closed
<1>10. CASE OnScreen
  BY <1>4, <1>10 DEF OnScreen, Stage
<1>11. CASE Answered
  BY <1>2, <1>4, <1>6, <1>11 DEF Answered, Taken, Stage
<1> QED BY <1>7, <1>8, <1>9, <1>10, <1>11 DEF Stage

\* A message of another kind is heard, or another is sent.
LEMMA Overheard ==
  ASSUME DialogTypes, toClient # <<>>, Head(toClient).t \notin Asking, toClient' = Tail(toClient)
  PROVE  /\ Silent => Silent'
         /\ NoEnd => NoEnd' /\ Head(toClient).t # "dialogend"
         /\ OneOf(toClient, Asking, Fitting, {"dialogend"}) =>
              OneOf(toClient', Asking, Fitting, {"dialogend"})
<1>1. toClient \in Seq(ToClient)
  BY DEF DialogTypes
<1>2. NoneOf(toClient, Asking) <=> Head(toClient).t \notin Asking /\ NoneOf(Tail(toClient), Asking)
  BY <1>1, NoneTail
<1>3. NoneOf(toClient, {"dialogend"}) <=>
        Head(toClient).t \notin {"dialogend"} /\ NoneOf(Tail(toClient), {"dialogend"})
  BY <1>1, NoneTail
<1>4. OneOf(toClient, Asking, Fitting, {"dialogend"}) =>
        OneOf(Tail(toClient), Asking, Fitting, {"dialogend"})
  BY <1>1, OneTail
<1> QED BY <1>2, <1>3, <1>4 DEF Silent, NoEnd

LEMMA AskInitial == Init => AskInv
<1> SUFFICES ASSUME Init PROVE Stage
  BY DEF AskInv
<1>1. NoneOf(<<>>, Asking) /\ NoneOf(<<>>, Answering)
  BY NoneEmpty
<1> QED BY <1>1 DEF Init, Stage, Resting, Waiting, Silent, Clear, Unanswered

\* Whatever is neither asked, shown nor answered leaves the question where it is.
LEMMA AskPasses ==
  ASSUME DialogTypes, Stage, ~upset',
         \/ OnEventStart \/ OnEventEnd \/ OnMapInit \/ OnEffect \/ DrainSome \/ DrainAll
         \/ AckEffect \/ RouteEnds \/ Interact \/ Walk \/ (SceneStart /\ queued = <<>>)
  PROVE  Stage'
<1>a. toClient \in Seq(ToClient) /\ toServer \in Seq(ToServer) /\ effq \in Seq(Effects)
  BY DEF DialogTypes
<1>b. toServer \o <<>> = toServer /\ <<>> \in Seq(Quiet)
  BY <1>a
<1>c. \A x \in Quiet : Append(toServer, x) = toServer \o <<x>> /\ <<x>> \in Seq(Quiet)
  BY <1>a
<1>d. \A x \in Seq(EffectAcks) : x \in Seq(Quiet)
  BY DEF Quiet
<1>e. \A z \in {"interact", "move", "ready", "effectack"} : [t |-> z] \in Quiet
  BY DEF Quiet, EffectAcks
<1>1. /\ UNCHANGED <<spc, at, dialogAck, choiceCh, pending, queued>> /\ win' \in {win, Closed}
      /\ gm' \in {gm, Nothing} /\ (gm' = gm \/ spc = "idle")
  <2>1. CASE OnEventStart \/ OnMapInit \/ OnEffect
    <3>1. UNCHANGED <<spc, at, dialogAck, choiceCh, pending, queued, gm>>
      BY <2>1 DEF OnEventStart, OnMapInit, OnEffect, Received, serverVars, messageVars
    <3>2. win' \in {win, Closed}
      BY <2>1 DEF OnEventStart, OnMapInit, OnEffect, Execute, messageVars
    <3> QED BY <3>1, <3>2
  <2>2. CASE OnEventEnd
    <3>1. UNCHANGED <<spc, at, dialogAck, choiceCh, pending, queued, win>> /\ gm' = Nothing
      BY <2>2 DEF OnEventEnd, Received, serverVars
    <3>2. ~Swept
      BY <2>2 DEF OnEventEnd
    <3> QED BY <3>1, <3>2 DEF Swept
  <2>3. CASE DrainSome
    BY <2>3 DEF DrainSome, serverVars, Execute
  <2>4. CASE DrainAll
    <3>1. UNCHANGED <<spc, at, dialogAck, choiceCh, pending, queued>> /\ win' \in {win, Closed}
      BY <2>4 DEF DrainAll, serverVars, Execute
    <3>2. CASE endPending
      <4>1. ~Swept /\ gm' = Nothing
        BY <2>4, <3>2 DEF DrainAll
      <4> QED BY <3>1, <4>1 DEF Swept
    <3>3. CASE ~endPending
      BY <2>4, <3>1, <3>3 DEF DrainAll
    <3> QED BY <3>2, <3>3
  <2>5. CASE AckEffect \/ RouteEnds \/ Interact \/ Walk
    BY <2>5 DEF AckEffect, RouteEnds, Interact, Walk, serverVars, messageVars
  <2>6. CASE SceneStart /\ queued = <<>>
    BY <2>6 DEF SceneStart, serverVars
  <2> QED BY <2>1, <2>2, <2>3, <2>4, <2>5, <2>6
<1>2. gm' = gm
  <2>1. CASE gm' = Nothing /\ spc = "idle"
    BY <2>1 DEF Stage, Resting, InFlight, Kept, OnScreen, Answered, Waiting, Clear
  <2> QED BY <1>1, <2>1
<1>3. \E x \in Seq(Quiet) : toServer' = toServer \o x
  <2>1. CASE toServer' = toServer
    BY <1>b, <2>1
  <2>2. CASE \E z \in {"interact", "move", "ready", "effectack"} : toServer' = Append(toServer, [t |-> z])
    BY <1>c, <1>e, <2>2
  <2>3. CASE \E q \in Seq(Effects) : Execute(q)
    BY <1>d, <2>3, Executed
  <2>4. CASE OnEventStart \/ OnEventEnd \/ OnMapInit \/ RouteEnds
    BY <2>1, <2>4 DEF OnEventStart, OnEventEnd, OnMapInit, RouteEnds
  <2>5. CASE AckEffect \/ Interact \/ Walk \/ SceneStart
    BY <2>2, <2>5 DEF AckEffect, Interact, Walk, SceneStart, Reply
  <2>6. CASE OnEffect
    <3>1. <<Head(toClient)>> \in Seq(Effects)
      <4>1. Head(toClient) \in Effects
        BY <1>a, <2>6, Heads DEF OnEffect, Received
      <4> QED BY <4>1
    <3>2. toServer' = toServer \/ Execute(<<Head(toClient)>>)
      BY <2>6 DEF OnEffect
    <3> QED BY <2>1, <2>3, <3>1, <3>2
  <2>7. CASE DrainSome
    <3>1. <<Head(effq)>> \in Seq(Effects) /\ Execute(<<Head(effq)>>)
      <4>1. Head(effq) \in Effects /\ Execute(<<Head(effq)>>)
        BY <1>a, <2>7 DEF DrainSome
      <4> QED BY <4>1
    <3> QED BY <2>3, <3>1
  <2>8. CASE DrainAll
    BY <1>a, <2>3, <2>8 DEF DrainAll
  <2> QED BY <2>4, <2>5, <2>6, <2>7, <2>8
<1>4. /\ Silent => Silent'
      /\ NoEnd => NoEnd'
      /\ OneOf(toClient, Asking, Fitting, {"dialogend"}) =>
           OneOf(toClient', Asking, Fitting, {"dialogend"})
  <2>1. CASE OnEventStart \/ OnEventEnd \/ OnMapInit \/ OnEffect
    <3>1. toClient # <<>> /\ Head(toClient).t \notin Asking /\ toClient' = Tail(toClient)
      BY <2>1 DEF OnEventStart, OnEventEnd, OnMapInit, OnEffect, Received, Asking
    <3> QED BY <3>1, Overheard
  <2>2. CASE toClient' = toClient
    BY <2>2 DEF Silent, NoEnd
  <2> QED BY <2>1, <2>2 DEF DrainSome, DrainAll, AckEffect, RouteEnds, Interact, Walk, SceneStart
<1>5. PICK x \in Seq(Quiet) : toServer' = toServer \o x
  BY <1>3
<1> QED BY <1>1, <1>2, <1>4, <1>5, Stays

\* The end of an event's dialogs.
LEMMA AskEnded ==
  ASSUME DialogTypes, Stage, OnDialogEnd
  PROVE  Stage'
<1>1. /\ toClient # <<>> /\ toClient' = Tail(toClient) /\ Head(toClient).t = "dialogend" /\ gm' = Nothing
      /\ UNCHANGED <<spc, at, dialogAck, choiceCh, toServer, win, queued>>
  BY DEF OnDialogEnd, Received, serverVars
<1>2. /\ Silent => Silent'
      /\ ~NoEnd
      /\ OneOf(toClient, Asking, Fitting, {"dialogend"}) =>
           OneOf(toClient', Asking, Fitting, {"dialogend"})
  <2>1. Head(toClient).t \notin Asking
    BY <1>1 DEF Asking
  <2> QED BY <1>1, <2>1, Overheard
<1>3. ~OnScreen /\ gm' = gm
  BY <1>1, <1>2 DEF Stage, Resting, InFlight, Kept, OnScreen, Answered, Clear
<1>4. toServer' = toServer \o <<>> /\ <<>> \in Seq(Quiet)
  BY <1>1 DEF DialogTypes
<1> QED BY <1>1, <1>2, <1>3, <1>4, Stays

\* A question comes to the player: on the screen, or kept for the map.
LEMMA AskHeard ==
  ASSUME DialogTypes, Stage, OnDialog \/ OnDialogChoices \/ OnChoices
  PROVE  Stage'
<1> DEFINE x == Head(toClient)
<1>a. toClient \in Seq(ToClient) /\ queued \in Seq(Questions)
  BY DEF DialogTypes
<1>1. /\ toClient # <<>> /\ x.t \in Asking /\ toClient' = Tail(toClient)
      /\ UNCHANGED <<spc, at, dialogAck, choiceCh, toServer, win>>
      /\ x.t = "dialog" => pending' = TRUE
  BY DEF OnDialog, OnDialogChoices, OnChoices, Received, serverVars, Asking
<1>2. \/ gm' = Shown(x) /\ queued' = queued
      \/ gm' = gm /\ queued' = Append(queued, x)
  BY DEF OnDialog, OnDialogChoices, OnChoices
<1>3. ~Silent
  BY <1>a, <1>1, NoneTail DEF Silent
<1>4. InFlight
  BY <1>3 DEF Stage, Resting, Kept, OnScreen, Answered
<1>5. x \in Fitting /\ NoneOf(Tail(toClient), Asking) /\ NoneOf(Tail(toClient), {"dialogend"})
  BY <1>a, <1>1, <1>4, OneTail DEF InFlight
<1>6. Waiting' /\ Silent' /\ NoEnd' /\ Unanswered' /\ win' = Closed
  <2>1. Waiting' = Waiting /\ Unanswered' = Unanswered
    BY <1>1 DEF Waiting, Unanswered
  <2>2. Silent' /\ NoEnd'
    BY <1>1, <1>5 DEF Silent, NoEnd
  <2> QED BY <1>1, <1>4, <2>1, <2>2 DEF InFlight, Clear
<1>7. queued = <<>> /\ gm = Nothing
  BY <1>4 DEF InFlight, Clear
<1>8. CASE gm' = Shown(x) /\ queued' = queued
  <2>1. x.n = at /\ (x.t = "dialog" <=> spc = "dialog")
    BY <1>5 DEF Fitting
  <2>2. gm' = [text |-> {at}, menu |-> IF spc = "dialog" THEN {} ELSE {at}]
    BY <1>7, <1>8, <2>1 DEF Shown, Nothing
  <2>3. OnScreen'
    BY <1>1, <1>6, <1>7, <1>8, <2>1, <2>2 DEF OnScreen
  <2> QED BY <1>6, <2>3 DEF Stage
<1>9. CASE gm' = gm /\ queued' = Append(queued, x)
  <2>1. queued' = <<x>>
    BY <1>7, <1>9
  <2>2. queued' # <<>> /\ Head(queued') = x /\ Tail(queued') = <<>>
    BY <2>1
  <2>3. Fitting' = Fitting
    BY <1>1 DEF Fitting
  <2>4. Kept'
    BY <1>5, <1>6, <1>7, <1>9, <2>2, <2>3 DEF Kept
  <2> QED BY <1>6, <2>4 DEF Stage
<1> QED BY <1>2, <1>8, <1>9

\* The map is back, and with it the question that was kept.
LEMMA AskBrought ==
  ASSUME DialogTypes, Stage, SceneStart, queued # <<>>
  PROVE  Stage'
<1> DEFINE x == Head(queued)
<1>a. toServer \in Seq(ToServer)
  BY DEF DialogTypes
<1>1. /\ toServer' = Append(toServer, [t |-> "ready"]) /\ gm' = Shown(x) /\ pending' = TRUE
      /\ queued' = Tail(queued) /\ UNCHANGED <<spc, at, dialogAck, choiceCh, toClient, win>>
  BY DEF SceneStart, Reply, serverVars
<1>2. Kept
  BY DEF Stage, Resting, InFlight, OnScreen, Answered, Clear
<1>3. x.n = at /\ gm = Nothing /\ win = Closed /\ queued' = <<>> /\ (x.t = "dialog" <=> spc = "dialog")
  BY <1>1, <1>2 DEF Kept, Fitting
<1>4. gm' = [text |-> {at}, menu |-> IF spc = "dialog" THEN {} ELSE {at}]
  BY <1>1, <1>3 DEF Shown, Nothing
<1>5. toServer' = toServer \o <<[t |-> "ready"]>> /\ <<[t |-> "ready"]>> \in Seq(Quiet)
  BY <1>1, <1>a DEF Quiet
<1>6. NoneOf(toServer', Answering) <=> NoneOf(toServer, Answering)
  BY <1>5, <1>a, QuietGrowth
<1>7. (Unanswered => Unanswered') /\ Waiting' = Waiting /\ Silent' = Silent /\ NoEnd' = NoEnd
  BY <1>1, <1>6 DEF Unanswered, Waiting, Silent, NoEnd
<1>8. OnScreen'
  BY <1>1, <1>2, <1>3, <1>4, <1>7 DEF OnScreen, Kept
<1> QED BY <1>7, <1>8 DEF Stage

\* The windows: the message starts, its text ends.
LEMMA AskShown ==
  ASSUME DialogTypes, Stage, StartMessage \/ EndOfText
  PROVE  Stage'
<1>1. UNCHANGED <<spc, at, dialogAck, choiceCh, toServer, toClient, gm, pending, queued>>
  BY DEF StartMessage, EndOfText, serverVars
<1>2. OnScreen
  BY DEF StartMessage, EndOfText, Stage, Resting, InFlight, Kept, Answered, Clear, Nothing, Closed
<1>3. Unanswered' /\ Waiting' /\ Silent' /\ NoEnd'
  BY <1>1, <1>2 DEF OnScreen, Unanswered, Waiting, Silent, NoEnd
<1>4. win \in [mode : {"closed", "text", "pause", "menu"}, ids : SUBSET Nat]
  BY DEF DialogTypes
<1>5. win'.ids = {at} /\ win'.mode \in {"text", IF spc = "dialog" THEN "pause" ELSE "menu"}
  <2>1. CASE StartMessage
    BY <1>2, <2>1 DEF StartMessage, OnScreen
  <2>2. CASE EndOfText
    <3>1. win # Closed
      BY <2>2 DEF EndOfText, Closed
    <3>2. win.ids = {at}
      BY <1>2, <3>1 DEF OnScreen
    <3>3. gm.menu # {} <=> spc # "dialog"
      BY <1>2 DEF OnScreen
    <3> QED BY <1>4, <2>2, <3>2, <3>3 DEF EndOfText
  <2> QED BY <2>1, <2>2
<1>6. OnScreen'
  BY <1>1, <1>2, <1>3, <1>5 DEF OnScreen
<1> QED BY <1>3, <1>6 DEF Stage

\* The player answers.
LEMMA AskAnswered ==
  ASSUME DialogTypes, Stage, ~upset', Dismiss
  PROVE  Stage'
<1>a. toServer \in Seq(ToServer) /\ at \in Nat
  BY DEF DialogTypes
<1>1. /\ UNCHANGED <<spc, at, dialogAck, choiceCh, toClient, queued>>
      /\ win' = Closed /\ gm' = Nothing
  BY DEF Dismiss, serverVars
<1>2. OnScreen /\ win # Closed
  BY DEF Dismiss, Stage, Resting, InFlight, Kept, Answered, Clear, Closed
<1>3. win.ids = {at} /\ gm = [text |-> {at}, menu |-> IF spc = "dialog" THEN {} ELSE {at}]
  BY <1>2 DEF OnScreen
<1>4. win.mode = (IF spc = "dialog" THEN "pause" ELSE "menu")
  BY <1>2 DEF Dismiss, OnScreen
<1> DEFINE x == [t |-> IF spc = "dialog" THEN "ack" ELSE "reply", ids |-> {at}]
<1>5. toServer' = Append(toServer, x)
  <2>1. pending <=> spc = "dialog"
    <3>1. upset' = (upset \/ ((win.mode = "menu" /\ gm.menu # {}) /\ pending))
      BY Zenon DEF Dismiss
    <3>2. spc # "dialog" => win.mode = "menu" /\ gm.menu # {}
      BY <1>3, <1>4
    <3>3. spc # "dialog" => ~pending
      BY <3>1, <3>2
    <3> QED BY <1>2, <3>3 DEF OnScreen
  <2>2. toServer' = IF spc = "dialog" THEN toServer \o <<>> \o <<x>> ELSE toServer \o <<x>> \o <<>>
    BY <1>3, <1>4, <2>1 DEF Dismiss
  <2>3. x \in ToServer
    BY <1>a DEF ToServer, Answers
  <2> HIDE DEF x
  <2> QED BY <1>a, <2>2, <2>3
<1>6. x \in ToServer /\ x.t \in Answering /\ x \in Mine
  BY <1>a DEF ToServer, Answers, Answering, Mine
<1> HIDE DEF x
<1>7. NoneOf(toServer, Answering) /\ dialogAck = {} /\ choiceCh = {}
  BY <1>2 DEF OnScreen, Unanswered
<1>8. OneOf(toServer', Answering, Mine, {})
  BY <1>a, <1>5, <1>6, <1>7, OneAppend
<1>9. Mine' = Mine /\ Waiting' = Waiting /\ Silent' = Silent /\ Clear'
  BY <1>1, <1>2 DEF Mine, Waiting, Silent, Clear, OnScreen
<1>10. Answered'
  BY <1>1, <1>2, <1>7, <1>8, <1>9 DEF Answered, OnScreen
<1> QED BY <1>10 DEF Stage

\* The server reads: the answer comes in, or something else.
LEMMA AskRead ==
  ASSUME DialogTypes, Stage, Read
  PROVE  Stage'
<1>a. toServer \in Seq(ToServer) /\ toClient \in Seq(ToClient)
  BY DEF DialogTypes
<1>1. /\ toServer # <<>> /\ toServer' = Tail(toServer)
      /\ UNCHANGED <<at, gm, win, pending, queued>>
  BY DEF Read, messageVars
<1>2. /\ dialogAck' = (IF Head(toServer).t = "ack" /\ dialogAck = {} THEN Head(toServer).ids ELSE dialogAck)
      /\ choiceCh' = (IF Head(toServer).t = "reply" /\ choiceCh = {} THEN Head(toServer).ids ELSE choiceCh)
  BY DEF Read
<1>5. /\ spc' = spc \/ (spc = "idle" /\ spc' = "run")
      /\ toClient' = toClient \/ \E z \in {"start", "end"} : toClient' = Append(toClient, [t |-> z])
  BY DEF Read, Send
<1>6. Waiting' = Waiting /\ (Waiting => spc' = spc /\ Mine' = Mine)
  BY <1>1, <1>5 DEF Waiting, Mine
<1>7. /\ Silent => Silent'
      /\ NoEnd => NoEnd'
      /\ OneOf(toClient, Asking, Fitting, {"dialogend"}) =>
           OneOf(toClient', Asking, Fitting, {"dialogend"})
  <2>1. CASE toClient' = toClient
    BY <2>1 DEF Silent, NoEnd
  <2>2. CASE \E z \in {"start", "end"} : toClient' = Append(toClient, [t |-> z])
    <3>1. PICK z \in {"start", "end"} : toClient' = Append(toClient, [t |-> z])
      BY <2>2
    <3>2. [t |-> z] \in ToClient /\ [t |-> z].t \notin Asking /\ [t |-> z].t \notin {"dialogend"}
      BY DEF ToClient, Asking
    <3> QED BY <1>a, <3>1, <3>2, NoneAppend, OneAppend DEF Silent, NoEnd
  <2> QED BY <1>5, <2>1, <2>2
<1>8. NoneOf(toServer, Answering) <=> Head(toServer).t \notin Answering /\ NoneOf(toServer', Answering)
  BY <1>a, <1>1, NoneTail
<1>10. Unanswered => Unanswered'
  BY <1>2, <1>8 DEF Unanswered, Answering
<1>12. Clear => Clear'
  BY <1>1 DEF Clear
<1>13. CASE Resting
  BY <1>6, <1>7, <1>10, <1>12, <1>13 DEF Resting, Stage
<1>14. CASE InFlight
  <2>1. Fitting' = Fitting
    BY <1>1, <1>6, <1>14 DEF Fitting, InFlight
  <2> QED BY <1>6, <1>7, <1>10, <1>12, <1>14, <2>1 DEF InFlight, Stage
<1>15. CASE Kept
  <2>1. Fitting' = Fitting
    BY <1>1, <1>6, <1>15 DEF Fitting, Kept
  <2> QED BY <1>1, <1>6, <1>7, <1>10, <1>15, <2>1 DEF Kept, Stage
<1>16. CASE OnScreen
  BY <1>1, <1>6, <1>7, <1>10, <1>16 DEF OnScreen, Stage
<1>17. CASE Answered
  <2>1. spc' = spc /\ Mine' = Mine /\ Waiting' /\ Silent' /\ Clear'
    BY <1>6, <1>7, <1>12, <1>17 DEF Answered
  <2>2. CASE Taken /\ NoneOf(toServer, Answering)
    <3>1. Taken' /\ NoneOf(toServer', Answering)
      BY <1>1, <1>2, <1>8, <2>1, <2>2 DEF Taken, Answering
    <3> QED BY <2>1, <3>1 DEF Answered, Stage
  <2>3. CASE dialogAck = {} /\ choiceCh = {} /\ OneOf(toServer, Answering, Mine, {})
    <3>1. /\ Head(toServer).t \in Answering => Head(toServer) \in Mine /\ NoneOf(toServer', Answering)
          /\ Head(toServer).t \notin Answering => OneOf(toServer', Answering, Mine, {})
      BY <1>a, <1>1, <2>3, OneTail
    <3>2. CASE Head(toServer).t \in Answering
      <4>2. Head(toServer) = [t |-> IF spc = "dialog" THEN "ack" ELSE "reply", ids |-> {at}]
        BY <3>1, <3>2 DEF Mine
      <4>3. Head(toServer).ids = {at} /\ Head(toServer).t = (IF spc = "dialog" THEN "ack" ELSE "reply")
        BY <4>2
      <4>4. /\ dialogAck' = (IF spc = "dialog" THEN {at} ELSE {})
            /\ choiceCh' = (IF spc = "dialog" THEN {} ELSE {at})
        BY <1>2, <2>3, <4>3
      <4>1. Taken'
        BY <1>1, <2>1, <4>4 DEF Taken
      <4> QED BY <2>1, <3>1, <3>2, <4>1 DEF Answered, Stage
    <3>3. CASE Head(toServer).t \notin Answering
      <4>1. dialogAck' = {} /\ choiceCh' = {}
        BY <1>2, <2>3, <3>3 DEF Answering
      <4> QED BY <2>1, <3>1, <3>3, <4>1 DEF Answered, Stage
    <3> QED BY <3>2, <3>3
  <2> QED BY <1>17, <2>2, <2>3 DEF Answered
<1> QED BY <1>13, <1>14, <1>15, <1>16, <1>17 DEF Stage

\* The server takes the answer.
LEMMA AskTaken ==
  ASSUME DialogTypes, Stage, TakeAck \/ TakeReply
  PROVE  Stage'
<1>1. /\ UNCHANGED <<at, toClient, toServer, gm, win, queued>> /\ spc' = "run"
  BY DEF TakeAck, TakeReply, messageVars
<1>2. \/ spc = "dialog" /\ dialogAck # {} /\ dialogAck' = {} /\ UNCHANGED choiceCh
      \/ spc = "choice" /\ choiceCh # {} /\ choiceCh' = {} /\ UNCHANGED dialogAck
  BY DEF TakeAck, TakeReply
<1>3. Answered
  BY <1>2 DEF Stage, Resting, Waiting, InFlight, Kept, OnScreen, Unanswered
<1>4. Taken /\ NoneOf(toServer, Answering)
  BY <1>2, <1>3 DEF Answered
<1>5. Unanswered'
  BY <1>1, <1>2, <1>4 DEF Unanswered, Taken
<1>6. ~Waiting' /\ Silent' /\ Clear'
  BY <1>1, <1>3 DEF Answered, Waiting, Silent, Clear
<1> QED BY <1>5, <1>6 DEF Stage, Resting

\* The server goes on, or asks.
LEMMA AskNext ==
  ASSUME DialogTypes, Stage, ~upset',
         \/ Command \/ TakeEffectAck \/ Transfer \/ Autorun \/ End \/ Expire
  PROVE  Stage'
<1>a. at \in Nat /\ toClient \in Seq(ToClient)
  BY DEF DialogTypes
<1>1. UNCHANGED <<toServer, gm, win, pending, queued>>
  BY DEF Command, TakeEffectAck, Transfer, Autorun, End, Expire, messageVars
<1>2. ~Waiting
  BY DEF Command, TakeEffectAck, Transfer, Autorun, End, Expire, Waiting
<1>3. Resting
  BY <1>2 DEF Stage, InFlight, Kept, OnScreen, Answered
<1>4. at' \in {at, at + 1} /\ dialogAck' \in {dialogAck, {}} /\ choiceCh' \in {choiceCh, {}}
  BY DEF Command, TakeEffectAck, Transfer, Autorun, End, Expire
<1>7. Clear' /\ Unanswered'
  BY <1>1, <1>3, <1>4 DEF Resting, Clear, Unanswered
<1>8. ASSUME ~Waiting', NEW x \in Seq(ToClient), NoneOf(x, Asking), toClient' = toClient \o x
      PROVE  Stage'
  <2>1. Silent'
    BY <1>a, <1>3, <1>8, NoneConcat DEF Resting, Silent
  <2> QED BY <1>7, <1>8, <2>1 DEF Stage, Resting
<1>9. toClient \o <<>> = toClient /\ <<>> \in Seq(ToClient) /\ NoneOf(<<>>, Asking)
  BY <1>a DEF NoneOf
<1>10. \A x \in ToClient : x.t \notin Asking =>
         Append(toClient, x) = toClient \o <<x>> /\ <<x>> \in Seq(ToClient) /\ NoneOf(<<x>>, Asking)
  BY <1>a DEF NoneOf
<1>11. ASSUME NEW x \in ToClient, NEW y \in ToClient, x.t \notin Asking, y.t \notin Asking
       PROVE  <<x, y>> \in Seq(ToClient) /\ NoneOf(<<x, y>>, Asking)
  BY <1>11 DEF NoneOf
<1>12. \A z \in {"start", "end", "init", "dialogend"} : [t |-> z] \in ToClient /\ [t |-> z].t \notin Asking
  BY DEF ToClient, Asking
<1>13. CASE Command
  <2>1. at' = at + 1
    BY <1>13 DEF Command
  <2>2. ASSUME NEW k \in Asking, toClient' = Append(toClient, [t |-> k, n |-> at']),
               spc' \in {"dialog", "choice"}, k = "dialog" <=> spc' = "dialog"
        PROVE  InFlight'
    <3>1. [t |-> k, n |-> at'] \in Questions /\ [t |-> k, n |-> at'] \in ToClient
      BY <1>a, <2>1 DEF Questions, ToClient
    <3>2. [t |-> k, n |-> at'] \in Fitting'
      BY <2>2, <3>1 DEF Fitting
    <3>3. OneOf(toClient, Asking, Fitting, {"dialogend"})'
      <4>1. NoneOf(toClient, Asking) /\ [t |-> k, n |-> at'].t \in Asking
        BY <1>3 DEF Resting, Silent
      <4>2. OneOf(Append(toClient, [t |-> k, n |-> at']), Asking, Fitting', {"dialogend"})
        BY <1>a, <3>1, <3>2, <4>1, OneAppend
      <4> QED BY <2>2, <4>2
    <3> QED BY <1>7, <2>2, <3>3 DEF InFlight, Waiting
  <2>3. CASE spc' = "dialog" /\ Send([t |-> "dialog", n |-> at'])
    <3>1. InFlight'
      BY <2>2, <2>3 DEF Send, Asking
    <3> QED BY <3>1 DEF Stage
  <2>4. CASE spc' = "choice" /\ \E z \in {"choices", "both"} : Send([t |-> z, n |-> at'])
    <3>1. PICK z \in {"choices", "both"} : Send([t |-> z, n |-> at'])
      BY <2>4
    <3>2. z \in Asking /\ z # "dialog"
      BY DEF Asking
    <3>3. InFlight'
      BY <2>2, <2>4, <3>1, <3>2 DEF Send
    <3> QED BY <3>3 DEF Stage
  <2>5. CASE \E k \in Kinds, v \in BOOLEAN :
               /\ spc' = IF v THEN "effect" ELSE "run"
               /\ Send([t |-> "effect", n |-> at', kind |-> k, wait |-> v])
    <3>1. PICK k \in Kinds, v \in BOOLEAN :
                 /\ spc' = IF v THEN "effect" ELSE "run"
                 /\ Send([t |-> "effect", n |-> at', kind |-> k, wait |-> v])
      BY <2>5
    <3> DEFINE x == [t |-> "effect", n |-> at', kind |-> k, wait |-> v]
    <3>2. x \in ToClient /\ x.t \notin Asking
      BY <1>a, <2>1 DEF ToClient, Effects, Asking
    <3>3. ~Waiting'
      BY <3>1 DEF Waiting
    <3>4. toClient' = Append(toClient, x)
      BY <3>1 DEF Send
    <3> HIDE DEF x
    <3> QED BY <1>8, <1>10, <3>2, <3>3, <3>4
  <2> QED BY <1>13, <2>3, <2>4, <2>5 DEF Command
<1>14. CASE UNCHANGED toClient /\ spc' = "run"
  <2>1. ~Waiting'
    BY <1>14 DEF Waiting
  <2> QED BY <1>8, <1>9, <1>14, <2>1
<1>15. CASE \E y, z \in {"start", "end", "init", "dialogend"} :
              toClient' = toClient \o <<[t |-> y], [t |-> z]>> /\ spc' \in {"loading", "idle"}
  <2>1. ~Waiting'
    BY <1>15 DEF Waiting
  <2> QED BY <1>8, <1>11, <1>12, <1>15, <2>1
<1>16. CASE TakeEffectAck \/ Transfer \/ Autorun \/ End \/ Expire
  BY <1>14, <1>15, <1>16 DEF TakeEffectAck, Transfer, Autorun, End, Expire
<1> QED BY <1>13, <1>16

LEMMA AskStep == DialogTypes /\ AskInv /\ [Next]_d => AskInv'
<1> SUFFICES ASSUME DialogTypes, AskInv, [Next]_d, ~upset' PROVE Stage'
  BY DEF AskInv
<1>1. ~upset
  <2>1. UNCHANGED upset \/ \E z \in {TRUE, FALSE} : upset' = (upset \/ z)
    <3>1. CASE UNCHANGED d
      BY <3>1 DEF d, vars
    <3>2. CASE Server
      BY <3>2, Zenon DEF Server, Read, Command, TakeAck, TakeReply, TakeEffectAck, Transfer, Autorun, End, Expire
    <3>3. CASE Client
      BY <3>3, Zenon DEF Client, OnEventStart, OnEventEnd, OnDialog, OnDialogChoices, OnChoices,
            OnDialogEnd, OnMapInit, OnEffect, DrainSome, DrainAll, AckEffect, RouteEnds
    <3>4. CASE Player
      BY <3>4, Zenon DEF Player, StartMessage, EndOfText, Dismiss, SceneStart, Interact, Walk
    <3> QED BY <3>1, <3>2, <3>3, <3>4 DEF Next
  <2> QED BY <2>1, Zenon
<1>2. Stage
  BY <1>1 DEF AskInv
<1>3. CASE UNCHANGED d
  <2>1. UNCHANGED <<spc, at, dialogAck, choiceCh, toClient, toServer, gm, win, pending, queued>>
    BY <1>3 DEF d, vars, serverVars, messageVars
  <2> QED BY <1>2, <2>1 DEF Stage, Resting, InFlight, Kept, OnScreen, Answered, Waiting,
             Silent, Clear, Taken, Unanswered, NoEnd, Fitting, Mine
<1>4. CASE Server
  BY <1>2, <1>4, AskRead, AskTaken, AskNext DEF Server
<1>5. CASE Client
  BY <1>2, <1>5, AskPasses, AskEnded, AskHeard DEF Client
<1>6. CASE Player
  BY <1>2, <1>6, AskPasses, AskBrought, AskShown, AskAnswered DEF Player
<1> QED BY <1>3, <1>4, <1>5, <1>6 DEF Next

LEMMA AskComes == DialogTypes /\ AskInv => AnswerComing
<1> SUFFICES ASSUME DialogTypes, Stage, ~upset, Waiting
             PROVE  /\ \/ Asked(toClient) \/ Asked(queued)
                       \/ spc = "dialog" /\ at \in gm.text /\ pending
                       \/ spc = "dialog" /\ (at \in dialogAck \/ OnItsWay("ack"))
                       \/ spc = "choice" /\ at \in gm.menu
                       \/ spc = "choice" /\ (at \in choiceCh \/ OnItsWay("reply"))
                    /\ spc = "dialog" /\ dialogAck # {} => at \in dialogAck
                    /\ spc = "choice" /\ choiceCh # {} => at \in choiceCh
  BY DEF AskInv, AnswerComing, Waiting
<1>a. toClient \in Seq(ToClient) /\ toServer \in Seq(ToServer) /\ queued \in Seq(Questions)
  BY DEF DialogTypes
<1>b. /\ DOMAIN toClient = 1..Len(toClient) /\ DOMAIN toServer = 1..Len(toServer)
      /\ queued # <<>> => 1 \in DOMAIN queued /\ Head(queued) = queued[1]
  BY <1>a
<1>1. CASE InFlight
  BY <1>b, <1>1 DEF InFlight, OneOf, Fitting, Asking, Asked, Unanswered
<1>2. CASE Kept
  <2>1. queued # <<>> /\ Head(queued) \in Fitting /\ Unanswered
    BY <1>2 DEF Kept
  <2>2. 1 \in DOMAIN queued /\ queued[1].n = at /\ queued[1].t \in Asking
    BY <1>b, <2>1 DEF Fitting, Questions
  <2> QED BY <2>1, <2>2 DEF Asked, Asking, Unanswered
<1>3. CASE OnScreen
  BY <1>3 DEF OnScreen, Waiting, Unanswered
<1>4. CASE Answered
  <2>1. CASE Taken
    BY <2>1 DEF Taken, Waiting
  <2>2. CASE dialogAck = {} /\ choiceCh = {} /\ OneOf(toServer, Answering, Mine, {})
    <3>1. PICK j \in DOMAIN toServer : toServer[j] \in Mine
      BY <1>b, <2>2 DEF OneOf
    <3>2. toServer[j].t = (IF spc = "dialog" THEN "ack" ELSE "reply") /\ at \in toServer[j].ids
      BY <3>1 DEF Mine
    <3> QED BY <2>2, <3>2 DEF OnItsWay, Waiting
  <2> QED BY <1>4, <2>1, <2>2 DEF Answered
<1> QED BY <1>1, <1>2, <1>3, <1>4 DEF Stage, Resting

-----------------------------------------------------------------------------
(* A battle that is played: whom the server waits for *)

\* The messages of a battle; those that report what has happened are queued.
Reporting == {"action", "escape", "turnend"}
Actions == [t : {"action"}, a : Puppet!Actors, hp : Puppet!HP]
Reports == Actions \union [t : {"escape"}, a : Puppet!Actors]
           \union [t : {"turnend"}, a : Puppet!Actors, by : Puppet!HP \X Puppet!HP]
ToBattle == Reports \union [t : {"start"}, hp : [Puppet!Actors -> Puppet!HP]]
            \union [t : {"input"}, a : Puppet!Actors] \union [t : {"text", "end", "recover"}]
FromBattle == [t : {"ack", "result"}] \union [t : {"input"}, a : Puppet!Actors \union {None}]

PuppetTypes ==
  /\ srv \in {"none", "turn", "input", "text"} /\ hp \in [Puppet!Actors -> Puppet!HP]
  /\ toPuppet \in Seq(ToBattle) /\ fromPuppet \in Seq(FromBattle)
  /\ eventQueue \in Seq(Reports)
  /\ playing \in {Puppet!Idle} \union [report : Actions, applied : BOOLEAN]
  /\ request \in Puppet!Actors \union {None} /\ actorIndex \in Puppet!Actors \union {None}
  /\ first \in Puppet!Actors

\* What is still to be played: the action under way, the queue, the messages.
Played == IF playing # Puppet!Idle /\ ~playing.applied THEN <<playing.report>> ELSE <<>>
Coming == Played \o eventQueue \o toPuppet

\* An actor stands before the k-th of q, when those of D are down before the first:
\* whatever takes him down is followed by what brings him back.
Kills(x, u) == (x.t = "action" /\ x.a = u /\ x.hp = 0) \/ (x.t = "escape" /\ x.a = u)
Revives(x, u) == x.t = "action" /\ x.a = u /\ x.hp # 0
Upright(q, D, u, k) ==
  /\ u \in D => \E i \in 1..(k - 1) : Revives(q[i], u)
  /\ \A j \in 1..(k - 1) : Kills(q[j], u) => \E i \in 1..(k - 1) : i > j /\ Revives(q[i], u)

\* Every report finds somebody standing, an escape the one who stays; those of F stand
\* when all is played.
Standers(x) == IF x.t = "escape" THEN {Me} ELSE Puppet!Actors
Timely(q, D) ==
  \A k \in 1..Len(q) : q[k].t \in Reporting => \E u \in Standers(q[k]) : Upright(q, D, u, k)
Standing(q, D, F) == \A u \in F : Upright(q, D, u, Len(q) + 1)

\* Only the other escapes, and then nothing is done to him any more.
Gone(q, h, k) == h \/ \E j \in 1..(k - 1) : q[j].t = "escape"
Alone(q, h) ==
  \A k \in 1..Len(q) :
    /\ q[k].t = "escape" => q[k].a = Other
    /\ q[k].t = "action" /\ Gone(q, h, k) => q[k].a = Me
Parted ==
  /\ Alone(Coming, hidden)
  /\ Gone(Coming, hidden, Len(Coming) + 1) => Other \in escaped

BattleTold ==
  /\ Timely(Coming, deadActors)
  /\ srv # "none" => Standing(Coming, deadActors, Puppet!Fighting)
  /\ Parted

\* The other is hidden in a battle scene only, and when he was the first, he who is no
\* longer found stands.
Hiding == hidden => battleScene = "battle" /\ (first = Other => Me \notin deadActors)

\* A battle starts with its first message and ends with its last; the client is in it
\* from the one to the other, unless everybody has fallen.
Ordered ==
  /\ \A j \in 1..Len(toPuppet) :
       /\ toPuppet[j].t = "start" => j = 1 /\ ~puppetMode
       /\ toPuppet[j].t = "end" => j = Len(toPuppet) /\ srv = "none"
       /\ toPuppet[j].t = "recover" => Len(toPuppet) = 1 /\ ~puppetMode /\ srv = "none"
  /\ srv = "none" => /\ toPuppet # <<>> => toPuppet[Len(toPuppet)].t \in {"end", "recover"}
                     /\ puppetMode => toPuppet # <<>>
  /\ ~puppetMode => /\ eventQueue = <<>> /\ playing = Puppet!Idle
                    /\ \/ toPuppet # <<>> /\ toPuppet[1].t = "start"
                       \/ NoneOf(toPuppet, Reporting) /\ (srv # "none" => Puppet!Fighting = {})
Scened ==
  /\ puppetMode => goingTo = "battle"
  /\ battleWindows # {} => battleScene = "battle"

\* The client gives the battle up only when nobody is left to report on.
Armed ==
  defeatTimer => /\ puppetMode /\ deadActors = Puppet!Actors
                 /\ eventQueue = <<>> /\ playing = Puppet!Idle
                 /\ NoneOf(toPuppet, Reporting)

\* Where the request is, or the answer to it, of a player who is found.
Here == Puppet!Found(Me) = Me
InputSent == [t |-> "input", a |-> Me]
Requested ==
  /\ srv = "input" =>
       /\ asked \in Puppet!Fighting
       /\ toPuppet # <<>> => toPuppet[Len(toPuppet)] = [t |-> "input", a |-> asked]
       /\ toPuppet = <<>> =>
            /\ request \in {asked, None}
            /\ asked = Me /\ Here =>
                             \/ request = Me
                             \/ actorIndex = Me /\ battleWindows # {}
                             \/ \E j \in 1..Len(fromPuppet) : fromPuppet[j] = InputSent
  /\ srv = "text" /\ Puppet!Fighting # {} =>
       \/ toPuppet # <<>> /\ toPuppet[Len(toPuppet)].t = "text"
       \/ reading \/ ~NoneOf(fromPuppet, {"ack"})

PuppetInv == BattleTold /\ Hiding /\ Ordered /\ Scened /\ Armed /\ Requested

LEMMA PuppetTypesInitial == Puppet!Init => PuppetTypes
<1> SUFFICES ASSUME Puppet!Init PROVE PuppetTypes
  OBVIOUS
<1>1. <<>> \in Seq(ToBattle) /\ <<>> \in Seq(FromBattle) /\ <<>> \in Seq(Reports)
  OBVIOUS
<1>2. hp \in [Puppet!Actors -> Puppet!HP] /\ first \in Puppet!Actors
  BY DEF Puppet!Init, Puppet!Actors
<1> QED BY <1>1, <1>2 DEF Puppet!Init, PuppetTypes

\* A message by its kind.
LEMMA BattleHeads ==
  ASSUME toPuppet \in Seq(ToBattle), toPuppet # <<>>
  PROVE  /\ Head(toPuppet) \in ToBattle /\ Tail(toPuppet) \in Seq(ToBattle)
         /\ Head(toPuppet).t \in Reporting => Head(toPuppet) \in Reports
         /\ Head(toPuppet).t = "input" => Head(toPuppet).a \in Puppet!Actors
<1>1. Head(toPuppet) \in ToBattle /\ Tail(toPuppet) \in Seq(ToBattle)
  OBVIOUS
<1>2. \A x \in ToBattle : /\ x.t \in Reporting => x \in Reports
                          /\ x.t = "input" => x.a \in Puppet!Actors
  BY DEF ToBattle, Reporting, Reports, Actions
<1> QED BY <1>1, <1>2

\* The one with index 0 is chosen when a battle begins.
LEMMA FirstStep == PuppetTypes /\ [Puppet!Next]_p => first' \in Puppet!Actors
<1> SUFFICES ASSUME PuppetTypes, [Puppet!Next]_p PROVE first' \in Puppet!Actors
  OBVIOUS
<1>1. CASE Puppet!Battle
  BY <1>1 DEF PuppetTypes, Puppet!Battle, Puppet!BattleBegins, Puppet!RequestInput, Puppet!TakeInput,
     Puppet!DropAnswer, Puppet!Report, Puppet!OtherEscapes, Puppet!ShowText, Puppet!TakeAck,
     Puppet!BattleEnds, Puppet!Recover, Puppet!battleVars
<1>2. CASE Puppet!Messages \/ Puppet!Frames \/ Puppet!Choices \/ UNCHANGED p
  BY <1>2 DEF PuppetTypes, p, Puppet!Messages, Puppet!OnBattleStart, Puppet!OnInputRequest, Puppet!OnReport,
     Puppet!OnTroopText, Puppet!TextRead, Puppet!OnBattleEnd, Puppet!OnRecover, Puppet!Ignored,
     Puppet!Received, Puppet!Frames, Puppet!SceneChange, Puppet!BecomeReady, Puppet!PlayNext,
     Puppet!HitFrame, Puppet!ActionOver, Puppet!ArmDefeat, Puppet!LeaveDefeated, Puppet!ProcessInput,
     Puppet!ClientOnly, Puppet!Choices, Puppet!Choosing, Puppet!CommandAttack, Puppet!CommandGuard,
     Puppet!CommandEscape, Puppet!CommandCustom, Puppet!OpenList, Puppet!ListOk, Puppet!ListCancel,
     Puppet!TargetOk, Puppet!TargetCancel, Puppet!battleVars
<1> QED BY <1>1, <1>2 DEF Puppet!Next

LEMMA PuppetTypesStep == PuppetTypes /\ [Puppet!Next]_p => PuppetTypes'
<1> SUFFICES ASSUME PuppetTypes, [Puppet!Next]_p PROVE PuppetTypes'
  OBVIOUS
<1>a. /\ srv \in {"none", "turn", "input", "text"} /\ hp \in [Puppet!Actors -> Puppet!HP]
      /\ playing \in {Puppet!Idle} \union [report : Actions, applied : BOOLEAN]
      /\ request \in Puppet!Actors \union {None} /\ actorIndex \in Puppet!Actors \union {None}
      /\ first' \in Puppet!Actors
  BY FirstStep DEF PuppetTypes
<1>b. toPuppet \in Seq(ToBattle) /\ fromPuppet \in Seq(FromBattle) /\ eventQueue \in Seq(Reports)
  BY DEF PuppetTypes
<1>c. <<>> \in Seq(Reports)
  OBVIOUS
<1>1. CASE UNCHANGED p
  BY <1>1, <1>a, <1>b DEF PuppetTypes, p
<1>2. CASE Puppet!Battle
  <2>1. UNCHANGED <<playing, request, actorIndex, eventQueue>>
    BY <1>2 DEF Puppet!Battle, Puppet!BattleBegins, Puppet!RequestInput, Puppet!TakeInput,
                Puppet!DropAnswer, Puppet!Report, Puppet!OtherEscapes, Puppet!ShowText,
                Puppet!TakeAck, Puppet!BattleEnds, Puppet!Recover, Puppet!ServerOnly,
                Puppet!playVars, Puppet!inputVars
  <2>2. CASE Puppet!TakeInput \/ Puppet!DropAnswer \/ Puppet!TakeAck
    <3>1. /\ srv' \in {srv, "turn"} /\ UNCHANGED <<hp, toPuppet>>
          /\ fromPuppet' = fromPuppet \/ (fromPuppet # <<>> /\ fromPuppet' = Tail(fromPuppet))
      BY <2>2 DEF Puppet!TakeInput, Puppet!DropAnswer, Puppet!TakeAck, Puppet!battleVars
    <3>2. fromPuppet' \in Seq(FromBattle)
      BY <1>b, <3>1, Grown, Zenon
    <3> QED BY <1>a, <1>b, <2>1, <3>1, <3>2 DEF PuppetTypes
  <2>3. CASE Puppet!BattleBegins \/ Puppet!RequestInput \/ Puppet!OtherEscapes \/ Puppet!ShowText
             \/ Puppet!BattleEnds \/ Puppet!Recover \/ Puppet!Report
    <3>1. srv' \in {"none", "turn", "input", "text"} /\ fromPuppet' = fromPuppet
      BY <1>a, <2>3 DEF Puppet!BattleBegins, Puppet!RequestInput, Puppet!OtherEscapes, Puppet!ShowText,
                   Puppet!BattleEnds, Puppet!Recover, Puppet!Report
    <3>2. hp' \in [Puppet!Actors -> Puppet!HP]
      <4>1. CASE Puppet!Recover
        <5>1. MaxHP \in Puppet!HP
          BY PlayAssumption DEF PlayAssumption, Puppet!HP
        <5> QED BY <4>1, <5>1 DEF Puppet!Recover, Puppet!Full
      <4>2. CASE Puppet!Report
        BY <1>a, <4>2 DEF Puppet!Report
      <4>3. CASE UNCHANGED hp
        BY <1>a, <4>3
      <4> QED BY <2>3, <4>1, <4>2, <4>3 DEF Puppet!BattleBegins, Puppet!RequestInput,
                 Puppet!OtherEscapes, Puppet!ShowText, Puppet!BattleEnds
    <3>3. \E x \in ToBattle : toPuppet' = Append(toPuppet, x)
      <4>1. CASE Puppet!BattleBegins
        BY <1>a, <4>1 DEF Puppet!BattleBegins, Puppet!Tell, ToBattle
      <4>2. CASE Puppet!RequestInput
        <5>1. PICK u \in Puppet!Fighting : Puppet!Tell([t |-> "input", a |-> u])
          BY <4>2 DEF Puppet!RequestInput
        <5>2. [t |-> "input", a |-> u] \in ToBattle
          BY DEF ToBattle, Puppet!Fighting
        <5> QED BY <5>1, <5>2 DEF Puppet!Tell
      <4>3. CASE Puppet!OtherEscapes
        <5>1. [t |-> "escape", a |-> Other] \in ToBattle
          BY DEF ToBattle, Reports, Puppet!Actors
        <5> QED BY <4>3, <5>1 DEF Puppet!OtherEscapes, Puppet!Tell
      <4>4. CASE Puppet!ShowText \/ Puppet!BattleEnds \/ Puppet!Recover
        <5>1. \A z \in {"text", "end", "recover"} : [t |-> z] \in ToBattle
          BY DEF ToBattle
        <5> QED BY <4>4, <5>1 DEF Puppet!ShowText, Puppet!BattleEnds, Puppet!Recover, Puppet!Tell
      <4>5. CASE Puppet!Report
        <5>1. PICK u \in Puppet!Actors \ escaped, k \in Puppet!HP :
                 \/ Puppet!Tell([t |-> "action", a |-> u, hp |-> k])
                 \/ Puppet!Tell([t |-> "turnend", a |-> u, by |-> <<hp[u], k>>])
          BY <4>5 DEF Puppet!Report
        <5>2. [t |-> "action", a |-> u, hp |-> k] \in ToBattle
          BY <5>1 DEF ToBattle, Reports, Actions
        <5>3. [t |-> "turnend", a |-> u, by |-> <<hp[u], k>>] \in ToBattle
          BY <1>a, <5>1 DEF ToBattle, Reports
        <5> QED BY <5>1, <5>2, <5>3 DEF Puppet!Tell
      <4> QED BY <2>3, <4>1, <4>2, <4>3, <4>4, <4>5
    <3>4. toPuppet' \in Seq(ToBattle)
      BY <1>b, <3>3, Grown, Zenon
    <3> QED BY <1>a, <1>b, <2>1, <3>1, <3>2, <3>4 DEF PuppetTypes
  <2> QED BY <1>2, <2>2, <2>3 DEF Puppet!Battle
<1>3. CASE Puppet!Messages
  <2>1. CASE Puppet!TextRead
    <3>1. UNCHANGED <<srv, hp, toPuppet, eventQueue, playing, request, actorIndex>>
          /\ fromPuppet' = Append(fromPuppet, [t |-> "ack"])
      BY <2>1 DEF Puppet!TextRead, Puppet!Answer, Puppet!battleVars, Puppet!playVars, Puppet!inputVars
    <3>2. [t |-> "ack"] \in FromBattle
      BY DEF FromBattle
    <3>3. fromPuppet' \in Seq(FromBattle)
      BY <1>b, <3>1, <3>2, Grown, Zenon
    <3> QED BY <1>a, <1>b, <3>1, <3>3 DEF PuppetTypes
  <2>2. CASE \E z \in {"start", "input", "action", "escape", "turnend", "text", "end", "recover"} :
               Puppet!Received(z)
    <3>1. UNCHANGED <<srv, hp>> /\ toPuppet # <<>> /\ toPuppet' = Tail(toPuppet)
      BY <2>2 DEF Puppet!Received, Puppet!battleVars
    <3>2. toPuppet' \in Seq(ToBattle)
      BY <1>b, <3>1, BattleHeads
    <3>3. CASE Puppet!OnBattleStart
      BY <1>a, <1>b, <1>c, <3>1, <3>2, <3>3 DEF PuppetTypes, Puppet!OnBattleStart, Puppet!inputVars
    <3>4. CASE Puppet!OnInputRequest
      <4>1. request' \in Puppet!Actors
        BY <1>b, <3>1, <3>4, BattleHeads DEF Puppet!OnInputRequest, Puppet!Received
      <4> QED BY <1>a, <1>b, <3>1, <3>2, <3>4, <4>1 DEF PuppetTypes, Puppet!OnInputRequest, Puppet!inputVars
    <3>5. CASE Puppet!OnReport
      <4>1. Head(toPuppet) \in Reports /\ eventQueue' = Append(eventQueue, Head(toPuppet))
        BY <1>b, <3>1, <3>5, BattleHeads DEF Puppet!OnReport, Puppet!Received, Reporting
      <4>2. eventQueue' \in Seq(Reports)
        BY <1>b, <4>1, Grown, Zenon
      <4> QED BY <1>a, <1>b, <3>1, <3>2, <3>5, <4>2 DEF PuppetTypes, Puppet!OnReport, Puppet!inputVars
    <3>6. CASE Puppet!OnTroopText \/ Puppet!OnRecover
      BY <1>a, <1>b, <3>1, <3>2, <3>6
         DEF PuppetTypes, Puppet!OnTroopText, Puppet!OnRecover, Puppet!playVars, Puppet!inputVars
    <3>7. CASE Puppet!OnBattleEnd
      <4>1. fromPuppet' = Append(fromPuppet, [t |-> "result"]) /\ [t |-> "result"] \in FromBattle
        BY <3>7 DEF Puppet!OnBattleEnd, Puppet!Answer, FromBattle
      <4>2. fromPuppet' \in Seq(FromBattle)
        BY <1>b, <4>1, Grown, Zenon
      <4> QED BY <1>a, <1>b, <1>c, <3>1, <3>2, <3>7, <4>2 DEF PuppetTypes, Puppet!OnBattleEnd, Puppet!inputVars
    <3>8. ASSUME NEW z, Puppet!Ignored(z) PROVE PuppetTypes'
      BY <1>a, <1>b, <3>1, <3>2, <3>8 DEF PuppetTypes, Puppet!Ignored, Puppet!playVars, Puppet!inputVars
    <3>9. Puppet!TextRead \/ PuppetTypes'
      BY <1>3, <3>3, <3>4, <3>5, <3>6, <3>7, <3>8 DEF Puppet!Messages
    <3> QED BY <2>1, <3>9
  <2> QED BY <1>3, <2>1, <2>2 DEF Puppet!Messages, Puppet!OnBattleStart, Puppet!OnInputRequest,
             Puppet!OnReport, Puppet!OnTroopText, Puppet!OnBattleEnd, Puppet!OnRecover, Puppet!Ignored
<1>4. CASE Puppet!Frames
  <2>1. UNCHANGED <<srv, hp, toPuppet>>
    BY <1>4 DEF Puppet!Frames, Puppet!SceneChange, Puppet!BecomeReady, Puppet!PlayNext, Puppet!HitFrame,
                Puppet!ActionOver, Puppet!ArmDefeat, Puppet!LeaveDefeated, Puppet!ProcessInput,
                Puppet!ClientOnly, Puppet!battleVars
  <2>2. CASE Puppet!SceneChange \/ Puppet!BecomeReady \/ Puppet!ArmDefeat
    BY <1>a, <1>b, <2>1, <2>2 DEF PuppetTypes, Puppet!SceneChange, Puppet!BecomeReady, Puppet!ArmDefeat,
       Puppet!playVars, Puppet!inputVars
  <2>3. CASE Puppet!PlayNext
    <3>1. /\ eventQueue # <<>> /\ eventQueue' = Tail(eventQueue)
          /\ UNCHANGED <<fromPuppet, request, actorIndex>>
      BY <2>3 DEF Puppet!PlayNext, Puppet!inputVars
    <3>2. Head(eventQueue) \in Reports /\ eventQueue' \in Seq(Reports)
      BY <1>b, <3>1, Grown, Zenon
    <3>3. Head(eventQueue).t = "action" => Head(eventQueue) \in Actions
      BY <3>2 DEF Reports
    <3>4. playing' \in {Puppet!Idle} \union [report : Actions, applied : BOOLEAN]
      <4>1. CASE Head(eventQueue).t = "action" /\ Puppet!StartPuppetAction(Head(eventQueue))
        BY <3>3, <4>1 DEF Puppet!StartPuppetAction
      <4>2. CASE UNCHANGED playing
        BY <1>a, <4>2
      <4> QED BY <2>3, <4>1, <4>2 DEF Puppet!PlayNext, Puppet!ApplyTurnEnd, Puppet!ApplyActorEscape
    <3> QED BY <1>a, <1>b, <2>1, <3>1, <3>2, <3>4 DEF PuppetTypes
  <2>4. CASE Puppet!HitFrame
    <3>1. playing \in [report : Actions, applied : BOOLEAN]
      BY <1>a, <2>4 DEF Puppet!HitFrame
    <3> QED BY <1>a, <1>b, <2>1, <2>4, <3>1 DEF PuppetTypes, Puppet!HitFrame, Puppet!inputVars
  <2>5. CASE Puppet!ActionOver
    BY <1>a, <1>b, <2>1, <2>5 DEF PuppetTypes, Puppet!ActionOver, Puppet!inputVars
  <2>6. CASE Puppet!LeaveDefeated
    <3>1. UNCHANGED <<eventQueue, playing, request, actorIndex>>
          /\ fromPuppet' \in {fromPuppet, Append(fromPuppet, [t |-> "result"])}
      BY <2>6 DEF Puppet!LeaveDefeated, Puppet!Answer, Puppet!playVars, Puppet!inputVars
    <3>2. [t |-> "result"] \in FromBattle
      BY DEF FromBattle
    <3>3. Append(fromPuppet, [t |-> "result"]) \in Seq(FromBattle)
      BY <1>b, <3>2, Grown, Zenon
    <3> QED BY <1>a, <1>b, <2>1, <3>1, <3>3 DEF PuppetTypes
  <2>7. CASE Puppet!ProcessInput
    BY <1>a, <1>b, <2>1, <2>7 DEF PuppetTypes, Puppet!ProcessInput
  <2> QED BY <1>4, <2>2, <2>3, <2>4, <2>5, <2>6, <2>7 DEF Puppet!Frames
<1>5. CASE Puppet!Choices
  <2>1. UNCHANGED <<srv, hp, toPuppet, eventQueue, playing, request, actorIndex>>
        /\ fromPuppet' \in {fromPuppet, Append(fromPuppet, [t |-> "input", a |-> actorIndex])}
    BY <1>5 DEF Puppet!Choices, Puppet!Choosing, Puppet!CommandAttack, Puppet!CommandGuard,
                Puppet!CommandEscape, Puppet!CommandCustom, Puppet!OpenList, Puppet!ListOk,
                Puppet!ListCancel, Puppet!TargetOk, Puppet!TargetCancel, Puppet!SendInput, Puppet!Answer,
                Puppet!ClientOnly, Puppet!battleVars, Puppet!playVars
  <2>2. [t |-> "input", a |-> actorIndex] \in FromBattle
    BY <1>a DEF FromBattle
  <2>3. Append(fromPuppet, [t |-> "input", a |-> actorIndex]) \in Seq(FromBattle)
    BY <1>b, <2>2, Grown, Zenon
  <2> QED BY <1>a, <1>b, <2>1, <2>3 DEF PuppetTypes
<1> QED BY <1>1, <1>2, <1>3, <1>4, <1>5 DEF Puppet!Next

\* What is told later changes nothing for those before.
LEMMA Appended ==
  ASSUME NEW q \in Seq(ToBattle), NEW x \in ToBattle, NEW D
  PROVE  /\ Timely(q, D) /\ (x.t \in Reporting => \E u \in Standers(x) : Upright(q, D, u, Len(q) + 1))
              => Timely(Append(q, x), D)
         /\ \A u : \/ ~Kills(x, u) /\ Upright(q, D, u, Len(q) + 1)
                   \/ ~Kills(x, u) /\ Revives(x, u)
                   => Upright(Append(q, x), D, u, Len(Append(q, x)) + 1)
<1> DEFINE r == Append(q, x)
<1>1. /\ Len(r) = Len(q) + 1 /\ r[Len(q) + 1] = x /\ Len(q) \in Nat
      /\ \A k \in 1..Len(q) : r[k] = q[k]
  OBVIOUS
<1> HIDE DEF r
<1>2. ASSUME NEW k \in 1..(Len(q) + 1), NEW u, Upright(q, D, u, k) PROVE Upright(r, D, u, k)
  <2>1. \A i \in 1..(k - 1) : r[i] = q[i]
    BY <1>1
  <2> QED BY <1>2, <2>1 DEF Upright
<1>3. ASSUME Timely(q, D), x.t \in Reporting => \E u \in Standers(x) : Upright(q, D, u, Len(q) + 1)
      PROVE  Timely(r, D)
  <2> SUFFICES ASSUME NEW k \in 1..Len(r), r[k].t \in Reporting
               PROVE  \E u \in Standers(r[k]) : Upright(r, D, u, k)
    BY DEF Timely
  <2>1. k \in 1..(Len(q) + 1) /\ (k \in 1..Len(q) \/ k = Len(q) + 1)
    BY <1>1
  <2>2. \E u \in Standers(r[k]) : Upright(q, D, u, k)
    BY <1>1, <1>3, <2>1 DEF Timely
  <2> QED BY <1>2, <2>1, <2>2
<1>4. ASSUME NEW u, ~Kills(x, u), Upright(q, D, u, Len(q) + 1) \/ Revives(x, u)
      PROVE  Upright(r, D, u, Len(r) + 1)
  <2>1. (Len(r) + 1) - 1 = Len(q) + 1 /\ (Len(q) + 1) - 1 = Len(q) /\ 1..Len(q) \subseteq 1..(Len(q) + 1)
        /\ Len(q) + 1 \in 1..(Len(q) + 1)
    BY <1>1
  <2>2. ASSUME NEW j \in 1..(Len(q) + 1), Kills(r[j], u) PROVE j \in 1..Len(q) /\ Kills(q[j], u)
    BY <1>1, <1>4, <2>2
  <2>3. CASE Revives(x, u)
    <3>1. Revives(r[Len(q) + 1], u)
      BY <1>1, <2>3
    <3>2. \A j \in 1..Len(q) : Len(q) + 1 > j
      BY <1>1
    <3> QED BY <2>1, <2>2, <3>1, <3>2 DEF Upright
  <2>4. CASE Upright(q, D, u, Len(q) + 1)
    <3>1. \A i \in 1..Len(q) : Revives(q[i], u) => Revives(r[i], u)
      BY <1>1
    <3> QED BY <2>1, <2>2, <2>4, <3>1 DEF Upright
  <2> QED BY <1>4, <2>3, <2>4
<1> QED BY <1>3, <1>4 DEF r

\* The first is played, or one that changes nothing is taken out.
LEMMA Removed ==
  ASSUME NEW y \in Seq(ToBattle), NEW x \in ToBattle, NEW z \in Seq(ToBattle), NEW D, NEW c,
         \A u \in Puppet!Actors : u \in c => (u \in D /\ ~Revives(x, u)) \/ Kills(x, u),
         y = <<>> \/ \A u \in Puppet!Actors : ~Kills(x, u) /\ ~Revives(x, u)
  PROVE  /\ Timely(y \o <<x>> \o z, D) => Timely(y \o z, c)
         /\ \A u \in Puppet!Actors :
              Upright(y \o <<x>> \o z, D, u, Len(y \o <<x>> \o z) + 1)
                => Upright(y \o z, c, u, Len(y \o z) + 1)
<1> DEFINE q == y \o <<x>> \o z
           r == y \o z
           s == Len(y) + 1
           At(k) == IF k < s THEN k ELSE k + 1
           From(k) == IF k < s THEN k ELSE k - 1
<1>1. /\ Len(y) \in Nat /\ Len(z) \in Nat
      /\ Len(q) = Len(y) + 1 + Len(z) /\ Len(r) = Len(y) + Len(z)
      /\ q[s] = x
      /\ \A k \in 1..Len(r) : r[k] = q[At(k)]
  OBVIOUS
<1>2. s \in Nat /\ s >= 1 /\ Len(q) = Len(r) + 1 /\ s <= Len(q) /\ Len(r) \in Nat /\ (y = <<>> => s = 1)
  BY <1>1
<1> HIDE DEF q, r, s
<1>3. ASSUME NEW u \in Puppet!Actors, NEW k \in 1..(Len(r) + 1), Upright(q, D, u, At(k))
      PROVE  Upright(r, c, u, k)
  <2>1. \A i \in 1..(At(k) - 1) : i # s => From(i) \in 1..(k - 1) /\ r[From(i)] = q[i]
    BY <1>1, <1>2
  <2>2. \A j \in 1..(k - 1) : At(j) \in 1..(At(k) - 1) /\ r[j] = q[At(j)]
    BY <1>1, <1>2
  <2>3. \A j \in 1..(k - 1) : \A i \in 1..(At(k) - 1) : i > At(j) /\ i # s => From(i) > j
    BY <1>2
  <2>4. \A j \in 1..(k - 1) : \A i \in 1..(At(k) - 1) : i > At(j) /\ i = s => s # 1
    BY <1>2
  <2> HIDE DEF At, From
  <2>5. ASSUME NEW i \in 1..(At(k) - 1), Revives(q[i], u), i = s PROVE s = 1 /\ Revives(x, u)
    BY <1>1, <1>2, <2>5
  <2>6. \A j \in 1..(k - 1) : Kills(r[j], u) => \E i \in 1..(k - 1) : i > j /\ Revives(r[i], u)
    <3> SUFFICES ASSUME NEW j \in 1..(k - 1), Kills(r[j], u)
                 PROVE  \E i \in 1..(k - 1) : i > j /\ Revives(r[i], u)
      OBVIOUS
    <3>1. PICK i \in 1..(At(k) - 1) : i > At(j) /\ Revives(q[i], u)
      BY <1>3, <2>2 DEF Upright
    <3>2. i # s
      BY <2>4, <2>5, <3>1
    <3> QED BY <2>1, <2>3, <3>1, <3>2
  <2>7. u \in c => \E i \in 1..(k - 1) : Revives(r[i], u)
    <3> SUFFICES ASSUME u \in c PROVE \E i \in 1..(k - 1) : Revives(r[i], u)
      OBVIOUS
    <3>1. CASE u \in D /\ ~Revives(x, u)
      <4>1. PICK i \in 1..(At(k) - 1) : Revives(q[i], u)
        BY <1>3, <3>1 DEF Upright
      <4>2. i # s
        BY <2>5, <3>1, <4>1
      <4> QED BY <2>1, <4>1, <4>2
    <3>2. CASE Kills(x, u)
      <4>1. s = 1
        BY <1>2, <3>2
      <4>2. 1 \in 1..(At(k) - 1)
        BY <4>1 DEF At
      <4>3. PICK i \in 1..(At(k) - 1) : i > 1 /\ Revives(q[i], u)
        BY <1>1, <1>3, <3>2, <4>1, <4>2 DEF Upright
      <4> QED BY <2>1, <4>1, <4>3
    <3> QED BY <3>1, <3>2
  <2> QED BY <2>6, <2>7 DEF Upright
<1>4. Timely(q, D) => Timely(r, c)
  <2> SUFFICES ASSUME Timely(q, D), NEW k \in 1..Len(r), r[k].t \in Reporting
               PROVE  \E u \in Standers(r[k]) : Upright(r, c, u, k)
    BY DEF Timely
  <2>1. At(k) \in 1..Len(q) /\ k \in 1..(Len(r) + 1)
    BY <1>2
  <2>2. \E u \in Standers(r[k]) : Upright(q, D, u, At(k))
    BY <1>1, <2>1 DEF Timely
  <2>3. Standers(r[k]) \subseteq Puppet!Actors
    BY DEF Standers, Puppet!Actors
  <2> QED BY <1>3, <2>1, <2>2, <2>3
<1>5. \A u \in Puppet!Actors : Upright(q, D, u, Len(q) + 1) => Upright(r, c, u, Len(r) + 1)
  <2>1. At(Len(r) + 1) = Len(q) + 1 /\ Len(r) + 1 \in 1..(Len(r) + 1)
    BY <1>2
  <2> QED BY <1>3, <2>1
<1> QED BY <1>4, <1>5 DEF q, r

\* One more after an escape, and one less.
LEMMA AloneAppended ==
  ASSUME NEW q \in Seq(ToBattle), NEW x \in ToBattle, NEW h, NEW c, c => h, Alone(q, h),
         x.t = "escape" => x.a = Other,
         x.t = "action" /\ Gone(q, h, Len(q) + 1) => x.a = Me
  PROVE  /\ Alone(Append(q, x), c)
         /\ Gone(Append(q, x), c, Len(Append(q, x)) + 1) => Gone(q, h, Len(q) + 1) \/ x.t = "escape"
<1> DEFINE r == Append(q, x)
<1>1. /\ Len(r) = Len(q) + 1 /\ r[Len(q) + 1] = x /\ Len(q) \in Nat
      /\ \A k \in 1..Len(q) : r[k] = q[k]
  OBVIOUS
<1> HIDE DEF r
<1>2. ASSUME NEW k \in 1..(Len(q) + 1), Gone(r, c, k) PROVE Gone(q, h, k)
  <2>1. \A i \in 1..(k - 1) : r[i] = q[i]
    BY <1>1
  <2> QED BY <1>2, <2>1 DEF Gone
<1>3. ASSUME NEW k \in 1..Len(r)
      PROVE  /\ r[k].t = "escape" => r[k].a = Other
             /\ r[k].t = "action" /\ Gone(r, c, k) => r[k].a = Me
  <2>1. k \in 1..(Len(q) + 1) /\ (k \in 1..Len(q) \/ k = Len(q) + 1)
    BY <1>1
  <2> QED BY <1>1, <1>2, <2>1 DEF Alone
<1>4. ASSUME Gone(r, c, Len(r) + 1) PROVE Gone(q, h, Len(q) + 1) \/ x.t = "escape"
  <2>1. \A j \in 1..(Len(r) + 1 - 1) : j \in 1..(Len(q) + 1 - 1) \/ j = Len(q) + 1
    BY <1>1
  <2>2. \A j \in 1..(Len(q) + 1 - 1) : r[j] = q[j]
    BY <1>1
  <2> QED BY <1>1, <1>4, <2>1, <2>2 DEF Gone
<1> QED BY <1>3, <1>4 DEF r, Alone

LEMMA AloneRemoved ==
  ASSUME NEW y \in Seq(ToBattle), NEW x \in ToBattle, NEW z \in Seq(ToBattle), NEW h, NEW c,
         c => h \/ x.t = "escape", y = <<>> \/ x.t # "escape", Alone(y \o <<x>> \o z, h)
  PROVE  /\ Alone(y \o z, c)
         /\ Gone(y \o z, c, Len(y \o z) + 1)
              => Gone(y \o <<x>> \o z, h, Len(y \o <<x>> \o z) + 1)
<1> DEFINE q == y \o <<x>> \o z
           r == y \o z
           s == Len(y) + 1
           At(k) == IF k < s THEN k ELSE k + 1
<1>1. /\ Len(y) \in Nat /\ Len(z) \in Nat
      /\ Len(q) = Len(y) + 1 + Len(z) /\ Len(r) = Len(y) + Len(z)
      /\ q[s] = x
      /\ \A k \in 1..Len(r) : r[k] = q[At(k)]
  OBVIOUS
<1>2. s \in Nat /\ s >= 1 /\ Len(q) = Len(r) + 1 /\ s <= Len(q) /\ Len(r) \in Nat /\ (y = <<>> => s = 1)
  BY <1>1
<1>0. Alone(q, h)
  OBVIOUS
<1> HIDE DEF q, r, s
<1>3. ASSUME NEW k \in 1..(Len(r) + 1), Gone(r, c, k) PROVE Gone(q, h, At(k))
  <2>1. \A i \in 1..(k - 1) : At(i) \in 1..(At(k) - 1) /\ r[i] = q[At(i)]
    BY <1>1, <1>2
  <2>2. s = 1 => 1 \in 1..(At(k) - 1)
    BY <1>2
  <2> HIDE DEF At
  <2>3. CASE c
    <3>1. CASE h
      BY <3>1 DEF Gone
    <3>2. CASE x.t = "escape"
      BY <1>1, <1>2, <2>2, <3>2 DEF Gone
    <3> QED BY <2>3, <3>1, <3>2
  <2>4. CASE \E i \in 1..(k - 1) : r[i].t = "escape"
    BY <2>1, <2>4 DEF Gone
  <2> QED BY <1>3, <2>3, <2>4 DEF Gone
<1>4. ASSUME NEW k \in 1..Len(r)
      PROVE  /\ r[k].t = "escape" => r[k].a = Other
             /\ r[k].t = "action" /\ Gone(r, c, k) => r[k].a = Me
  <2>1. At(k) \in 1..Len(q) /\ r[k] = q[At(k)] /\ k \in 1..(Len(r) + 1)
    BY <1>1, <1>2
  <2> HIDE DEF At
  <2> QED BY <1>0, <1>3, <2>1 DEF Alone
<1>5. Gone(r, c, Len(r) + 1) => Gone(q, h, Len(q) + 1)
  <2>1. At(Len(r) + 1) = Len(q) + 1 /\ Len(r) + 1 \in 1..(Len(r) + 1)
    BY <1>2
  <2> QED BY <1>3, <2>1
<1> QED BY <1>4, <1>5 DEF Alone, q, r

\* Heads and tails of what is joined.
LEMMA Joined ==
  ASSUME NEW M, NEW q \in Seq(M), NEW r \in Seq(M), NEW s \in Seq(M), NEW x \in M
  PROVE  /\ q \o r \o Append(s, x) = Append(q \o r \o s, x)
         /\ q \o Append(r, x) \o s = q \o r \o (<<x>> \o s)
         /\ q \o <<x>> \o r = q \o (<<x>> \o r)
         /\ s # <<>> => s = <<Head(s)>> \o Tail(s)
         /\ <<>> \o q = q /\ q \o <<>> = q
         /\ (q \o r) \o s = q \o (r \o s)
<1>1. /\ q \o r \o Append(s, x) = Append(q \o r \o s, x)
      /\ q \o <<x>> \o r = q \o (<<x>> \o r)
  OBVIOUS
<1>2. q \o Append(r, x) \o s = q \o r \o (<<x>> \o s)
  <2>1. Append(r, x) = r \o <<x>> /\ <<x>> \in Seq(M)
    OBVIOUS
  <2>2. \A y, z, c \in Seq(M) : (y \o z) \o c = y \o (z \o c)
    OBVIOUS
  <2>3. r \o <<x>> \in Seq(M) /\ q \o r \in Seq(M)
    BY <2>1
  <2>4. q \o (r \o <<x>>) = (q \o r) \o <<x>>
    BY <2>1, <2>2, Zenon
  <2>5. ((q \o r) \o <<x>>) \o s = (q \o r) \o (<<x>> \o s)
    BY <2>1, <2>2, <2>3, Zenon
  <2> QED BY <2>1, <2>4, <2>5, Zenon
<1>3. s # <<>> => s = <<Head(s)>> \o Tail(s)
  OBVIOUS
<1>4. <<>> \o q = q /\ q \o <<>> = q
  OBVIOUS
<1>5. (q \o r) \o s = q \o (r \o s)
  OBVIOUS
<1> QED BY <1>1, <1>2, <1>3, <1>4, <1>5, Zenon

LEMMA Regrouped == \A q, r, s \in Seq(ToBattle) : (q \o r) \o s = q \o (r \o s)
<1> SUFFICES ASSUME NEW q \in Seq(ToBattle), NEW r \in Seq(ToBattle), NEW s \in Seq(ToBattle)
             PROVE  (q \o r) \o s = q \o (r \o s)
  OBVIOUS
<1> QED OBVIOUS

LEMMA ComingTyped == PuppetTypes => Played \in Seq(ToBattle) /\ eventQueue \in Seq(ToBattle) /\ Coming \in Seq(ToBattle)
<1> SUFFICES ASSUME PuppetTypes
             PROVE  Played \in Seq(ToBattle) /\ eventQueue \in Seq(ToBattle) /\ Coming \in Seq(ToBattle)
  OBVIOUS
<1>1. Played \in Seq(ToBattle)
  <2>1. CASE playing # Puppet!Idle /\ ~playing.applied
    <3>1. playing.report \in ToBattle /\ Played = <<playing.report>>
      BY <2>1 DEF PuppetTypes, Played, ToBattle, Reports
    <3> QED BY <3>1
  <2>2. CASE ~(playing # Puppet!Idle /\ ~playing.applied)
    BY <2>2 DEF Played
  <2> QED BY <2>1, <2>2
<1>2. eventQueue \in Seq(ToBattle)
  <2>1. \A x \in Reports : x \in ToBattle
    BY DEF ToBattle
  <2>2. eventQueue \in Seq(Reports)
    BY DEF PuppetTypes
  <2> QED BY <2>1, <2>2
<1>3. toPuppet \in Seq(ToBattle)
  BY DEF PuppetTypes
<1> HIDE DEF ToBattle
<1> QED BY <1>1, <1>2, <1>3 DEF Coming

\* What comes next: after the escape nothing is done to the other, and the escape itself
\* finds the one who stays standing.
LEMMA Leading ==
  ASSUME BattleTold, NEW x \in ToBattle, NEW z \in Seq(ToBattle), Coming = <<>> \o <<x>> \o z
  PROVE  /\ hidden /\ x.t = "action" => x.a = Me
         /\ x.t = "escape" => x.a = Other /\ Me \notin deadActors
<1>1. 1 \in 1..Len(Coming) /\ Coming[1] = x /\ 1..(1 - 1) = {}
  <2> HIDE DEF ToBattle
  <2> QED OBVIOUS
<1>2. Alone(Coming, hidden) /\ Timely(Coming, deadActors)
  BY DEF BattleTold, Parted
<1>3. hidden => Gone(Coming, hidden, 1)
  BY DEF Gone
<1>4. x.t = "escape" => Me \notin deadActors
  BY <1>1, <1>2 DEF Timely, Reporting, Standers, Upright
<1> QED BY <1>1, <1>2, <1>3, <1>4 DEF Alone

LEMMA BattleToldStep ==
  PuppetTypes /\ PuppetInv /\ [Puppet!Next]_p => BattleTold'
<1> SUFFICES ASSUME PuppetTypes, PuppetInv, [Puppet!Next]_p PROVE BattleTold'
  OBVIOUS
<1>a. /\ toPuppet \in Seq(ToBattle) /\ eventQueue \in Seq(Reports) /\ hp \in [Puppet!Actors -> Puppet!HP]
      /\ playing \in {Puppet!Idle} \union [report : Actions, applied : BOOLEAN]
  BY DEF PuppetTypes
<1>b. Played \in Seq(ToBattle) /\ eventQueue \in Seq(ToBattle) /\ Coming \in Seq(ToBattle)
  BY ComingTyped
<1>c. /\ Timely(Coming, deadActors)
      /\ srv # "none" => \A u \in Puppet!Fighting : Upright(Coming, deadActors, u, Len(Coming) + 1)
      /\ Alone(Coming, hidden)
      /\ Gone(Coming, hidden, Len(Coming) + 1) => Other \in escaped
  BY DEF PuppetInv, BattleTold, Standing, Parted
<1>d. Puppet!Fighting \subseteq Puppet!Actors
  BY DEF Puppet!Fighting
<1>e. ~puppetMode => /\ eventQueue = <<>> /\ playing = Puppet!Idle
                     /\ \/ toPuppet # <<>> /\ toPuppet[1].t = "start"
                        \/ NoneOf(toPuppet, Reporting) /\ (srv # "none" => Puppet!Fighting = {})
  BY DEF PuppetInv, Ordered
<1>f. toPuppet # <<>> => /\ Head(toPuppet) = toPuppet[1] /\ 1 \in 1..Len(toPuppet)
                         /\ Head(toPuppet) \in ToBattle /\ Tail(toPuppet) \in Seq(ToBattle)
                         /\ Len(Tail(toPuppet)) = Len(toPuppet) - 1 /\ Len(toPuppet) \in Nat
                         /\ Len(toPuppet) = 1 => Tail(toPuppet) = <<>>
  <2> HIDE DEF ToBattle
  <2>1. toPuppet # <<>> => /\ Head(toPuppet) = toPuppet[1] /\ 1 \in 1..Len(toPuppet)
                           /\ Head(toPuppet) \in ToBattle /\ Tail(toPuppet) \in Seq(ToBattle)
                           /\ Len(Tail(toPuppet)) = Len(toPuppet) - 1 /\ Len(toPuppet) \in Nat
    BY <1>a
  <2>2. \A q \in Seq(ToBattle) : Len(q) = 0 => q = <<>>
    OBVIOUS
  <2> QED BY <2>1, <2>2
<1>g. playing = Puppet!Idle => Played = <<>>
  BY DEF Played
<1> HIDE DEF ToBattle, Reports
\* The ways in which what is to come may change.
<1>A. ASSUME Coming' = Coming, deadActors' = deadActors, UNCHANGED <<hp, escaped>>,
             srv' # "none" => srv # "none", hidden' => hidden
      PROVE  BattleTold'
  <2>1. Alone(Coming', hidden') /\ (Gone(Coming', hidden', Len(Coming') + 1) => Other \in escaped')
    BY <1>A, <1>c DEF Alone, Gone
  <2> QED BY <1>A, <1>c, <2>1 DEF BattleTold, Standing, Puppet!Fighting, Parted
<1>B. ASSUME NEW x \in ToBattle, Coming' = Append(Coming, x), deadActors' = deadActors,
             x.t \in Reporting => \E u \in Standers(x) : Upright(Coming, deadActors, u, Len(Coming) + 1),
             srv' # "none" => \A u \in Puppet!Fighting' :
               ~Kills(x, u) /\ (Upright(Coming, deadActors, u, Len(Coming) + 1) \/ Revives(x, u)),
             UNCHANGED hidden,
             x.t = "escape" => x.a = Other /\ Other \in escaped',
             x.t = "action" => x.a \in Puppet!Actors \ escaped,
             Gone(Coming, hidden, Len(Coming) + 1) => Other \in escaped'
      PROVE  BattleTold'
  <2>1. Timely(Append(Coming, x), deadActors)
    BY <1>B, <1>b, <1>c, Appended
  <2>2. srv' # "none" => \A u \in Puppet!Fighting' :
          Upright(Append(Coming, x), deadActors, u, Len(Append(Coming, x)) + 1)
    BY <1>B, <1>b, Appended
  <2>3. x.t = "action" /\ Gone(Coming, hidden, Len(Coming) + 1) => x.a = Me
    BY <1>B, <1>c DEF Puppet!Actors
  <2>4. hidden => hidden
    OBVIOUS
  <2>5. /\ Alone(Append(Coming, x), hidden)
        /\ Gone(Append(Coming, x), hidden, Len(Append(Coming, x)) + 1)
             => Gone(Coming, hidden, Len(Coming) + 1) \/ x.t = "escape"
    BY <1>B, <1>b, <1>c, <2>3, <2>4, AloneAppended
  <2>6. Parted'
    BY <1>B, <2>5 DEF Parted
  <2> QED BY <1>B, <2>1, <2>2, <2>6 DEF BattleTold, Standing
<1>C. ASSUME NEW y \in Seq(ToBattle), NEW x \in ToBattle, NEW z \in Seq(ToBattle),
             Coming = y \o <<x>> \o z, Coming' = y \o z, UNCHANGED <<srv, hp, escaped>>,
             \A u \in Puppet!Actors :
               u \in deadActors' => (u \in deadActors /\ ~Revives(x, u)) \/ Kills(x, u),
             y = <<>> \/ \A u \in Puppet!Actors : ~Kills(x, u) /\ ~Revives(x, u),
             hidden' => hidden \/ x.t = "escape", y = <<>> \/ x.t # "escape"
      PROVE  BattleTold'
  <2>1. /\ Timely(y \o <<x>> \o z, deadActors) => Timely(y \o z, deadActors')
        /\ \A u \in Puppet!Actors :
             Upright(y \o <<x>> \o z, deadActors, u, Len(y \o <<x>> \o z) + 1)
               => Upright(y \o z, deadActors', u, Len(y \o z) + 1)
    BY <1>C, Removed
  <2>2. Puppet!Fighting' = Puppet!Fighting
    BY <1>C DEF Puppet!Fighting
  <2>3. Timely(Coming', deadActors')
    BY <1>C, <1>c, <2>1
  <2>4. srv' # "none" => \A u \in Puppet!Fighting' : Upright(Coming', deadActors', u, Len(Coming') + 1)
    BY <1>C, <1>c, <1>d, <2>1, <2>2
  <2>5. Alone(y \o <<x>> \o z, hidden)
    BY <1>C, <1>c
  <2>6. /\ Alone(y \o z, hidden')
        /\ Gone(y \o z, hidden', Len(y \o z) + 1)
             => Gone(y \o <<x>> \o z, hidden, Len(y \o <<x>> \o z) + 1)
    BY <1>C, <2>5, AloneRemoved
  <2>7. Parted'
    BY <1>C, <1>c, <2>6 DEF Parted
  <2> QED BY <2>3, <2>4, <2>7 DEF BattleTold, Standing
<1>D. ASSUME Coming' = <<>>, srv' = "none", UNCHANGED <<hidden, escaped>> PROVE BattleTold'
  <2>1. Len(<<>>) = 0 /\ 1..0 = {} /\ 1..(0 + 1 - 1) = {}
    OBVIOUS
  <2>2. Gone(<<>>, hidden, 1) => Gone(Coming, hidden, Len(Coming) + 1)
    BY <2>1 DEF Gone
  <2>3. Alone(<<>>, hidden') /\ (Gone(<<>>, hidden', 0 + 1) => Other \in escaped')
    BY <1>D, <1>c, <2>1, <2>2 DEF Alone
  <2> QED BY <1>D, <2>1, <2>3 DEF BattleTold, Timely, Parted
\* The server.
<1>1. CASE Puppet!BattleBegins \/ Puppet!RequestInput \/ Puppet!Report \/ Puppet!OtherEscapes
           \/ Puppet!ShowText \/ Puppet!BattleEnds \/ Puppet!Recover
  <2>1. UNCHANGED <<eventQueue, playing, deadActors, hidden>>
    BY <1>1 DEF Puppet!BattleBegins, Puppet!RequestInput, Puppet!Report, Puppet!OtherEscapes,
                Puppet!ShowText, Puppet!BattleEnds, Puppet!Recover, Puppet!ServerOnly,
                Puppet!bodyVars, Puppet!playVars
  <2>2. \A x \in ToBattle : toPuppet' = Append(toPuppet, x) => Coming' = Append(Coming, x)
    <3> SUFFICES ASSUME NEW x \in ToBattle, toPuppet' = Append(toPuppet, x) PROVE Coming' = Append(Coming, x)
      OBVIOUS
    <3>1. Played' = Played
      BY <2>1 DEF Played
    <3> QED BY <1>a, <1>b, <2>1, <3>1, Joined DEF Coming
  <2>3. CASE Puppet!BattleBegins
    <3> DEFINE x == [t |-> "start", hp |-> hp]
    <3>1. x \in ToBattle
      BY <1>a DEF ToBattle
    <3>2. toPuppet' = Append(toPuppet, x) /\ toPuppet = <<>> /\ goingTo = "map" /\ deadActors = {}
      BY <2>3 DEF Puppet!BattleBegins, Puppet!Tell
    <3>3. ~puppetMode
      BY <3>2 DEF PuppetInv, Scened
    <3>4. Coming = <<>>
      BY <1>e, <1>g, <3>2, <3>3 DEF Coming
    <3>5. \A u : Upright(Coming, deadActors, u, Len(Coming) + 1)
      <4>1. Len(<<>>) = 0 /\ (0 + 1) - 1 = 0 /\ 1..0 = {}
        OBVIOUS
      <4> QED BY <3>2, <3>4, <4>1 DEF Upright
    <3>6. x.t \notin Reporting /\ x.t \notin {"action", "escape"} /\ \A u : ~Kills(x, u)
      BY DEF Kills, Reporting
    <3>7. ~Gone(Coming, hidden, Len(Coming) + 1)
      <4>1. Len(<<>>) = 0 /\ (0 + 1) - 1 = 0 /\ 1..0 = {}
        OBVIOUS
      <4>2. ~hidden
        BY <2>3 DEF Puppet!BattleBegins, PuppetInv, Hiding
      <4> QED BY <3>4, <4>1, <4>2 DEF Gone
    <3> HIDE DEF x
    <3> QED BY <1>B, <2>1, <2>2, <3>1, <3>2, <3>5, <3>6, <3>7
  <2>4. CASE Puppet!RequestInput \/ Puppet!ShowText
    <3>1. UNCHANGED <<hp, escaped>> /\ srv = "turn"
      BY <2>4 DEF Puppet!RequestInput, Puppet!ShowText
    <3>2. PICK x \in ToBattle : toPuppet' = Append(toPuppet, x) /\ x.t \in {"input", "text"}
      <4>1. \A u \in Puppet!Fighting : [t |-> "input", a |-> u] \in ToBattle
        BY <1>d DEF ToBattle
      <4>2. [t |-> "text"] \in ToBattle
        BY DEF ToBattle
      <4>3. Puppet!ShowText => toPuppet' = Append(toPuppet, [t |-> "text"])
        BY DEF Puppet!ShowText, Puppet!Tell
      <4>4. Puppet!RequestInput => \E u \in Puppet!Fighting : toPuppet' = Append(toPuppet, [t |-> "input", a |-> u])
        BY DEF Puppet!RequestInput, Puppet!Tell
      <4> QED BY <2>4, <4>1, <4>2, <4>3, <4>4
    <3>3. x.t \notin Reporting /\ x.t \notin {"action", "escape"} /\ \A u : ~Kills(x, u)
      BY <3>2 DEF Reporting, Kills
    <3>4. Puppet!Fighting' = Puppet!Fighting
      BY <3>1 DEF Puppet!Fighting
    <3> QED BY <1>B, <1>c, <2>1, <2>2, <3>1, <3>2, <3>3, <3>4
  <2>5. CASE Puppet!BattleEnds \/ Puppet!Recover
    <3>1. srv' = "none" /\ UNCHANGED escaped
      BY <2>5 DEF Puppet!BattleEnds, Puppet!Recover
    <3>2. PICK x \in ToBattle : toPuppet' = Append(toPuppet, x) /\ x.t \notin Reporting
      <4>1. \A k \in {"end", "recover"} : [t |-> k] \in ToBattle /\ [t |-> k].t \notin Reporting
        BY DEF ToBattle, Reporting
      <4> QED BY <2>5, <4>1 DEF Puppet!BattleEnds, Puppet!Recover, Puppet!Tell
    <3>3. x.t \notin {"action", "escape"}
      BY <3>2 DEF Reporting
    <3> QED BY <1>B, <1>c, <2>1, <2>2, <3>1, <3>2, <3>3
  <2>6. CASE Puppet!OtherEscapes
    <3> DEFINE x == [t |-> "escape", a |-> Other]
    <3>1. x \in ToBattle /\ toPuppet' = Append(toPuppet, x)
      BY <2>6 DEF Puppet!OtherEscapes, Puppet!Tell, ToBattle, Reports, Puppet!Actors
    <3>2. /\ srv = "turn" /\ Me \in Puppet!Fighting
          /\ UNCHANGED hp /\ escaped' = {Other}
      BY <2>6 DEF Puppet!OtherEscapes
    <3>3. \A u \in Puppet!Fighting' : u \in Puppet!Fighting /\ u # Other
      BY <3>2 DEF Puppet!Fighting, Puppet!Actors
    <3>4. (\A u : Kills(x, u) => u = Other) /\ x.t = "escape" /\ x.a = Other /\ Standers(x) = {Me}
      BY DEF Kills, Standers
    <3>5. Other \in escaped'
      BY <3>2
    <3> HIDE DEF x
    <3> QED BY <1>B, <1>c, <1>d, <2>1, <2>2, <3>1, <3>2, <3>3, <3>4, <3>5
  <2>7. CASE Puppet!Report
    <3>1. srv = "turn" /\ Puppet!Fighting # {} /\ UNCHANGED <<srv, escaped>>
      BY <2>7 DEF Puppet!Report
    <3>2. \E u \in Puppet!Actors : Upright(Coming, deadActors, u, Len(Coming) + 1)
      BY <1>c, <1>d, <3>1
    <3>3. PICK u \in Puppet!Actors \ escaped, k \in Puppet!HP :
            /\ hp' = [hp EXCEPT ![u] = k]
            /\ \/ toPuppet' = Append(toPuppet, [t |-> "action", a |-> u, hp |-> k])
               \/ hp[u] > 0 /\ k > 0 /\ toPuppet' = Append(toPuppet, [t |-> "turnend", a |-> u, by |-> <<hp[u], k>>])
      BY <2>7 DEF Puppet!Report, Puppet!Tell
    <3>4. \A v \in Puppet!Actors : hp'[v] = IF v = u THEN k ELSE hp[v]
      BY <1>a, <3>3
    <3>5. CASE toPuppet' = Append(toPuppet, [t |-> "action", a |-> u, hp |-> k])
      <4> DEFINE x == [t |-> "action", a |-> u, hp |-> k]
      <4>1. x \in ToBattle
        BY <3>3 DEF ToBattle, Reports, Actions
      <4>2. \A v \in Puppet!Fighting' : ~Kills(x, v) /\ (v \in Puppet!Fighting \/ Revives(x, v))
        <5> SUFFICES ASSUME NEW v \in Puppet!Fighting'
                     PROVE  ~Kills(x, v) /\ (v \in Puppet!Fighting \/ Revives(x, v))
          OBVIOUS
        <5>1. v \in Puppet!Actors \ escaped /\ hp'[v] > 0
          BY <3>1 DEF Puppet!Fighting
        <5>2. CASE v = u
          <6>1. k # 0
            BY <3>4, <5>1, <5>2
          <6> QED BY <5>2, <6>1 DEF Kills, Revives
        <5>3. CASE v # u
          <6>1. hp[v] > 0
            BY <3>4, <5>1, <5>3
          <6> QED BY <5>1, <5>3, <6>1 DEF Kills, Puppet!Fighting
        <5> QED BY <5>2, <5>3
      <4>4. x.t # "escape" /\ Standers(x) = Puppet!Actors /\ x.a \in Puppet!Actors \ escaped
        BY <3>3 DEF Standers
      <4> HIDE DEF x
      <4>3. toPuppet' = Append(toPuppet, x)
        BY <3>5 DEF x
      <4> QED BY <1>B, <1>c, <2>1, <2>2, <3>1, <3>2, <4>1, <4>2, <4>3, <4>4
    <3>6. CASE hp[u] > 0 /\ k > 0 /\ toPuppet' = Append(toPuppet, [t |-> "turnend", a |-> u, by |-> <<hp[u], k>>])
      <4> DEFINE x == [t |-> "turnend", a |-> u, by |-> <<hp[u], k>>]
      <4>1. x \in ToBattle
        BY <1>a, <3>3 DEF ToBattle, Reports
      <4>2. \A v \in Puppet!Fighting' : v \in Puppet!Fighting
        BY <3>1, <3>4, <3>6 DEF Puppet!Fighting
      <4>3. (\A v : ~Kills(x, v)) /\ x.t \notin {"action", "escape"} /\ Standers(x) = Puppet!Actors
        BY DEF Kills, Standers
      <4> HIDE DEF x
      <4>4. toPuppet' = Append(toPuppet, x)
        BY <3>6 DEF x
      <4> QED BY <1>B, <1>c, <2>1, <2>2, <3>1, <3>2, <4>1, <4>2, <4>3, <4>4
    <3> QED BY <3>3, <3>5, <3>6
  <2> QED BY <1>1, <2>3, <2>4, <2>5, <2>6, <2>7
<1>2. CASE Puppet!TakeInput \/ Puppet!DropAnswer \/ Puppet!TakeAck \/ Puppet!TextRead
           \/ Puppet!SceneChange \/ Puppet!BecomeReady \/ Puppet!ArmDefeat \/ Puppet!LeaveDefeated
           \/ Puppet!ProcessInput \/ Puppet!Choices \/ UNCHANGED p
  <2>1. /\ UNCHANGED <<hp, escaped, toPuppet, eventQueue, playing, deadActors>>
        /\ srv' # "none" => srv # "none"
        /\ hidden' => hidden
    <3>1. CASE Puppet!TakeInput \/ Puppet!DropAnswer \/ Puppet!TakeAck
      BY <3>1 DEF Puppet!TakeInput, Puppet!DropAnswer, Puppet!TakeAck, Puppet!ServerOnly, Puppet!battleVars,
         Puppet!bodyVars, Puppet!playVars
    <3>2. CASE Puppet!TextRead \/ Puppet!BecomeReady \/ Puppet!ArmDefeat \/ Puppet!LeaveDefeated
      BY <3>2 DEF Puppet!TextRead, Puppet!BecomeReady, Puppet!ArmDefeat,
         Puppet!LeaveDefeated, Puppet!ClientOnly, Puppet!battleVars, Puppet!bodyVars, Puppet!playVars
    <3>a. CASE Puppet!SceneChange
      <4>1. hidden' => hidden
        BY <3>a, Zenon DEF Puppet!SceneChange
      <4>2. UNCHANGED <<hp, escaped, toPuppet, eventQueue, playing, deadActors, srv>>
        BY <3>a DEF Puppet!SceneChange, Puppet!ClientOnly, Puppet!battleVars, Puppet!playVars
      <4> QED BY <4>1, <4>2
    <3>3. CASE Puppet!ProcessInput \/ UNCHANGED p
      BY <3>3 DEF Puppet!ProcessInput, p, Puppet!ClientOnly, Puppet!battleVars
    <3>4. CASE Puppet!Choices
      BY <3>4 DEF Puppet!Choices, Puppet!Choosing, Puppet!CommandAttack, Puppet!CommandGuard,
                Puppet!CommandEscape, Puppet!CommandCustom, Puppet!OpenList, Puppet!ListOk,
                Puppet!ListCancel, Puppet!TargetOk, Puppet!TargetCancel,
                Puppet!ClientOnly, Puppet!battleVars, Puppet!bodyVars, Puppet!playVars
    <3> QED BY <1>2, <3>1, <3>2, <3>a, <3>3, <3>4
  <2>2. Coming' = Coming
    BY <2>1 DEF Coming, Played
  <2> QED BY <1>A, <2>1, <2>2
\* The client's messages.
<1>3. CASE Puppet!OnReport
  <2>1. /\ toPuppet # <<>> /\ toPuppet' = Tail(toPuppet) /\ eventQueue' = Append(eventQueue, Head(toPuppet))
        /\ UNCHANGED <<srv, hp, escaped, deadActors, playing, hidden>>
    BY <1>3 DEF Puppet!OnReport, Puppet!Received, Puppet!battleVars, Puppet!bodyVars
  <2>2. Played' = Played
    BY <2>1 DEF Played
  <2>3. Played \o Append(eventQueue, Head(toPuppet)) \o Tail(toPuppet)
          = Played \o eventQueue \o (<<Head(toPuppet)>> \o Tail(toPuppet))
    <3> DEFINE x == Head(toPuppet)
               z == Tail(toPuppet)
    <3>1. x \in ToBattle /\ z \in Seq(ToBattle)
      BY <1>f, <2>1
    <3> HIDE DEF x, z
    <3>2. Append(eventQueue, x) = eventQueue \o <<x>> /\ <<x>> \in Seq(ToBattle)
      BY <1>b, <3>1
    <3>3. Played \o eventQueue \in Seq(ToBattle)
      BY <1>b
    <3>4. Played \o (eventQueue \o <<x>>) = (Played \o eventQueue) \o <<x>>
      BY <1>b, <3>2, Regrouped, Zenon
    <3>5. ((Played \o eventQueue) \o <<x>>) \o z = (Played \o eventQueue) \o (<<x>> \o z)
      BY <3>1, <3>2, <3>3, Regrouped, Zenon
    <3>6. (Played \o Append(eventQueue, x)) \o z = (Played \o eventQueue) \o (<<x>> \o z)
      BY <3>2, <3>4, <3>5, Zenon
    <3> QED BY <3>6 DEF x, z
  <2>4. toPuppet = <<Head(toPuppet)>> \o Tail(toPuppet)
    BY <1>a, <2>1
  <2>5. Coming' = Coming
    BY <2>1, <2>2, <2>3, <2>4, Zenon DEF Coming
  <2> QED BY <1>A, <2>1, <2>5
<1>4. CASE Puppet!OnBattleEnd \/ Puppet!OnRecover
  <2>1. toPuppet # <<>> /\ toPuppet' = Tail(toPuppet) /\ Head(toPuppet).t \in {"end", "recover"}
        /\ UNCHANGED <<srv, hidden, escaped>>
    BY <1>4 DEF Puppet!OnBattleEnd, Puppet!OnRecover, Puppet!Received, Puppet!battleVars
  <2>2. /\ toPuppet[1].t = "end" => 1 = Len(toPuppet) /\ srv = "none"
        /\ toPuppet[1].t = "recover" => Len(toPuppet) = 1 /\ ~puppetMode /\ srv = "none"
    BY <1>f, <2>1 DEF PuppetInv, Ordered
  <2>3. toPuppet' = <<>> /\ srv' = "none" /\ (Head(toPuppet).t = "recover" => ~puppetMode)
    BY <1>f, <2>1, <2>2
  <2>4. eventQueue' = <<>> /\ playing' = Puppet!Idle
    <3>1. CASE Puppet!OnBattleEnd
      BY <3>1 DEF Puppet!OnBattleEnd
    <3>2. CASE Puppet!OnRecover
      BY <1>e, <2>3, <3>2 DEF Puppet!OnRecover, Puppet!Received, Puppet!playVars
    <3> QED BY <1>4, <3>1, <3>2
  <2>5. Coming' = <<>>
    BY <2>3, <2>4 DEF Coming, Played, Puppet!Idle
  <2> QED BY <1>D, <2>1, <2>3, <2>5
<1>5. CASE Puppet!OnBattleStart \/ Puppet!OnInputRequest \/ Puppet!OnTroopText
           \/ \E k \in {"input", "action", "escape", "turnend", "text", "end"} : Puppet!Ignored(k)
  <2>1. /\ toPuppet # <<>> /\ toPuppet' = Tail(toPuppet)
        /\ UNCHANGED <<srv, hp, escaped, deadActors, hidden>>
    BY <1>5 DEF Puppet!OnBattleStart, Puppet!OnInputRequest, Puppet!OnTroopText, Puppet!Ignored,
       Puppet!Received, Puppet!battleVars, Puppet!bodyVars
  <2>2. UNCHANGED <<eventQueue, playing>>
    <3>1. CASE Puppet!OnBattleStart
      <4>1. ~puppetMode
        BY <1>f, <2>1, <3>1 DEF Puppet!OnBattleStart, Puppet!Received, PuppetInv, Ordered
      <4> QED BY <1>e, <3>1, <4>1 DEF Puppet!OnBattleStart
    <3>2. CASE ~Puppet!OnBattleStart
      BY <1>5, <3>2 DEF Puppet!OnInputRequest, Puppet!OnTroopText, Puppet!Ignored, Puppet!playVars
    <3> QED BY <3>1, <3>2
  <2>3. Head(toPuppet).t \notin Reporting
    <3>1. ASSUME NEW k \in {"action", "escape", "turnend"}, Puppet!Ignored(k) PROVE FALSE
      <4>1. ~puppetMode /\ toPuppet[1].t = k
        BY <1>f, <2>1, <3>1 DEF Puppet!Ignored, Puppet!Received
      <4>2. NoneOf(toPuppet, Reporting)
        BY <1>e, <4>1
      <4> QED BY <1>f, <2>1, <4>1, <4>2 DEF NoneOf, Reporting
    <3>2. Puppet!OnBattleStart \/ Puppet!OnInputRequest \/ Puppet!OnTroopText
          \/ \E k \in {"input", "text", "end"} : Puppet!Ignored(k)
      BY <1>5, <3>1
    <3> QED BY <3>2 DEF Puppet!OnBattleStart, Puppet!OnInputRequest, Puppet!OnTroopText, Puppet!Ignored,
       Puppet!Received, Reporting
  <2>4. \A u : ~Kills(Head(toPuppet), u) /\ ~Revives(Head(toPuppet), u)
    BY <2>3 DEF Reporting, Kills, Revives
  <2> DEFINE y == Played \o eventQueue
             x == Head(toPuppet)
             z == Tail(toPuppet)
  <2>5. y \in Seq(ToBattle) /\ x \in ToBattle /\ z \in Seq(ToBattle)
    BY <1>b, <1>f, <2>1
  <2>6. Coming = y \o <<x>> \o z
    <3>1. toPuppet = <<x>> \o z
      BY <1>a, <2>1
    <3>2. y \o <<x>> \o z = y \o (<<x>> \o z)
      <4> HIDE DEF x, y, z
      <4>1. <<x>> \in Seq(ToBattle)
        BY <2>5
      <4> QED BY <2>5, <4>1, Regrouped, Zenon
    <3> QED BY <3>1, <3>2, Zenon DEF Coming
  <2>7. Coming' = y \o z
    BY <2>1, <2>2 DEF Coming, Played
  <2> HIDE DEF x, y, z
  <2>8. (\A u : ~Kills(x, u) /\ ~Revives(x, u)) /\ x.t # "escape"
    BY <2>3, <2>4 DEF x, Reporting
  <2> QED BY <1>C, <2>1, <2>5, <2>6, <2>7, <2>8
\* The frames.
<1>6. ASSUME NEW x \in ToBattle, NEW z \in Seq(ToBattle), Coming = <<>> \o <<x>> \o z, Coming' = z,
             UNCHANGED <<srv, hp, escaped>>,
             \A u \in Puppet!Actors :
               u \in deadActors' => (u \in deadActors /\ ~Revives(x, u)) \/ Kills(x, u),
             hidden' => hidden \/ x.t = "escape"
      PROVE  BattleTold'
  <2>1. <<>> \in Seq(ToBattle) /\ <<>> \o z = z
    OBVIOUS
  <2> QED BY <1>C, <1>6, <2>1
<1>7. ASSUME NEW x \in ToBattle, NEW z \in Seq(ToBattle), Coming = <<>> \o <<x>> \o z,
             x.t = "action", x.a \in Puppet!Actors, Puppet!Apply(x)
      PROVE  \A u \in Puppet!Actors :
               u \in deadActors' => (u \in deadActors /\ ~Revives(x, u)) \/ Kills(x, u)
  <2>1. hidden => x.a = Me
    BY <1>7, Leading DEF PuppetInv
  <2>2. hidden => (first = Other => Me \notin deadActors)
    BY DEF PuppetInv, Hiding
  <2>3. deadActors' = {u \in Puppet!Actors : IF u = Puppet!Found(x.a) THEN x.hp = 0 ELSE u \in deadActors}
    BY <1>7 DEF Puppet!Apply
  <2>4. None \notin Puppet!Actors /\ first \in Puppet!Actors
    BY PlayAssumption DEF PlayAssumption, Puppet!Actors, PuppetTypes
  <2>5. CASE Puppet!Found(x.a) = x.a
    BY <1>7, <2>3, <2>5 DEF Revives, Kills
  <2>6. CASE Puppet!Found(x.a) # x.a
    <3>1. hidden /\ x.a = Me /\ first = Other /\ Puppet!Found(x.a) = None
      BY <2>1, <2>4, <2>6 DEF Puppet!Found, Puppet!Actors
    <3> QED BY <2>2, <2>3, <2>4, <3>1 DEF Revives, Kills
  <2> QED BY <2>5, <2>6
<1>8. CASE Puppet!PlayNext
  <2> DEFINE x == Head(eventQueue)
             z == Tail(eventQueue) \o toPuppet
  <2>1. /\ eventQueue # <<>> /\ eventQueue' = Tail(eventQueue) /\ playing = Puppet!Idle
        /\ UNCHANGED <<srv, hp, escaped, toPuppet>>
    BY <1>8 DEF Puppet!PlayNext, Puppet!ClientOnly, Puppet!battleVars
  <2>2. x \in ToBattle /\ Tail(eventQueue) \in Seq(ToBattle) /\ z \in Seq(ToBattle) /\ x \in Reports
    <3>1. x \in ToBattle /\ Tail(eventQueue) \in Seq(ToBattle) /\ x \in Reports
      BY <1>a, <1>b, <2>1
    <3> QED BY <1>a, <3>1
  <2>3. Coming = <<>> \o <<x>> \o z
    <3>1. Coming = <<>> \o eventQueue \o toPuppet
      BY <1>g, <2>1 DEF Coming
    <3>2. eventQueue = <<x>> \o Tail(eventQueue)
      BY <1>b, <2>1
    <3>3. <<>> \in Seq(ToBattle) /\ <<x>> \in Seq(ToBattle)
      BY <2>2
    <3>4. (<<x>> \o Tail(eventQueue)) \o toPuppet = <<x>> \o (Tail(eventQueue) \o toPuppet)
      BY <1>a, <2>2, <3>3, Regrouped, Zenon
    <3>5. <<>> \o eventQueue = eventQueue /\ <<>> \o <<x>> = <<x>>
      BY <1>b, <3>3, <2>2, Joined, Zenon
    <3> QED BY <3>1, <3>2, <3>4, <3>5
  <2>4. CASE x.t = "action" /\ Puppet!StartPuppetAction(x) /\ UNCHANGED hidden
    <3>1. PICK c \in BOOLEAN : /\ playing' = [report |-> x, applied |-> c]
                               /\ IF c THEN Puppet!Apply(x) ELSE UNCHANGED <<shown, deadActors>>
      BY <2>4 DEF Puppet!StartPuppetAction
    <3>2. x \in Actions /\ x # None /\ x.a \in Puppet!Actors
      BY <2>2, <2>4, PlayAssumption DEF Reports, Actions, PlayAssumption, Puppet!Actors, Puppet!HP
    <3>3. playing' # Puppet!Idle
      BY <3>1, <3>2 DEF Puppet!Idle
    <3>4. CASE c
      <4>1. Played' = <<>>
        BY <3>1, <3>4 DEF Played
      <4>2. Coming' = z
        <5>1. Coming' = <<>> \o Tail(eventQueue) \o toPuppet
          BY <2>1, <4>1 DEF Coming
        <5>2. <<>> \o Tail(eventQueue) = Tail(eventQueue)
          BY <2>2
        <5> QED BY <5>1, <5>2
      <4>3. Puppet!Apply(x)
        BY <3>1, <3>4
      <4> HIDE DEF x, z
      <4> QED BY <1>6, <1>7, <2>1, <2>2, <2>3, <2>4, <3>2, <4>2, <4>3
    <3>5. CASE ~c
      <4>1. Played' = <<x>> /\ UNCHANGED deadActors
        BY <3>1, <3>3, <3>5 DEF Played
      <4>2. Coming' = <<x>> \o Tail(eventQueue) \o toPuppet
        BY <2>1, <4>1 DEF Coming
      <4>3. (<<x>> \o Tail(eventQueue)) \o toPuppet = <<x>> \o (Tail(eventQueue) \o toPuppet) /\ <<>> \o <<x>> = <<x>>
        <5>1. <<x>> \in Seq(ToBattle)
          BY <2>2
        <5>2. <<>> \o <<x>> = <<x>>
          BY <5>1
        <5> QED BY <1>a, <2>2, <5>1, <5>2, Regrouped, Zenon
      <4>4. Coming' = Coming
        BY <2>3, <4>2, <4>3
      <4> QED BY <1>A, <2>1, <2>4, <4>1, <4>4
    <3> QED BY <3>4, <3>5
  <2>5. CASE \/ x.t = "turnend" /\ Puppet!ApplyTurnEnd(x)
             \/ x.t = "escape" /\ Puppet!ApplyActorEscape(x)
    <3>1. playing' = playing
      BY <2>5 DEF Puppet!ApplyTurnEnd, Puppet!ApplyActorEscape
    <3>2. Coming' = z
      <4>1. Played' = <<>>
        BY <1>g, <2>1, <3>1 DEF Played
      <4>2. Coming' = <<>> \o Tail(eventQueue) \o toPuppet
        BY <2>1, <4>1 DEF Coming
      <4>3. <<>> \o Tail(eventQueue) = Tail(eventQueue)
        BY <2>2
      <4> QED BY <4>2, <4>3
    <3>3. \A u \in Puppet!Actors : u \in deadActors' => (u \in deadActors /\ ~Revives(x, u)) \/ Kills(x, u)
      BY <2>5 DEF Puppet!ApplyTurnEnd, Puppet!ApplyActorEscape, Revives, Kills
    <3>4. hidden' => hidden \/ x.t = "escape"
      BY <2>5 DEF Puppet!ApplyTurnEnd
    <3> HIDE DEF x, z
    <3> QED BY <1>6, <2>1, <2>2, <2>3, <3>2, <3>3, <3>4
  <2> QED BY <1>8, <2>4, <2>5 DEF Puppet!PlayNext
<1>9. CASE Puppet!HitFrame
  <2> DEFINE x == playing.report
             z == eventQueue \o toPuppet
  <2>1. /\ playing # Puppet!Idle /\ ~playing.applied /\ Puppet!Apply(x)
        /\ playing' = [playing EXCEPT !.applied = TRUE]
        /\ UNCHANGED <<srv, hp, escaped, toPuppet, eventQueue, hidden>>
    BY <1>9 DEF Puppet!HitFrame, Puppet!ClientOnly, Puppet!battleVars
  <2>2. playing \in [report : Actions, applied : BOOLEAN]
    BY <1>a, <2>1
  <2>3. x \in Actions /\ x.t = "action" /\ x \in ToBattle /\ x.a \in Puppet!Actors
    BY <2>2 DEF Actions, ToBattle, Reports
  <2>4. Played = <<x>> /\ Played' = <<>>
    BY <2>1, <2>2 DEF Played
  <2>5. z \in Seq(ToBattle)
    BY <1>a, <1>b
  <2>6. <<x>> \in Seq(ToBattle)
    BY <2>3
  <2>7. Coming = <<>> \o <<x>> \o z /\ Coming' = z
    <3>1. Coming = (<<x>> \o eventQueue) \o toPuppet /\ Coming' = (<<>> \o eventQueue) \o toPuppet
      BY <2>1, <2>4 DEF Coming
    <3>2. (<<x>> \o eventQueue) \o toPuppet = <<x>> \o (eventQueue \o toPuppet)
      BY <1>a, <1>b, <2>3, <2>6, Regrouped, Zenon
    <3>3. <<>> \o eventQueue = eventQueue /\ <<>> \o <<x>> = <<x>>
      BY <1>b, <2>3, <2>6, Joined, Zenon
    <3> QED BY <3>1, <3>2, <3>3
  <2> HIDE DEF x, z
  <2> QED BY <1>6, <1>7, <2>1, <2>3, <2>5, <2>7
<1>10. CASE Puppet!ActionOver
  <2>1. /\ playing # Puppet!Idle /\ playing.applied /\ playing' = Puppet!Idle
        /\ UNCHANGED <<srv, hp, escaped, toPuppet, eventQueue, deadActors, hidden>>
    BY <1>10 DEF Puppet!ActionOver, Puppet!ClientOnly, Puppet!battleVars, Puppet!bodyVars
  <2>2. Played' = <<>> /\ Played = <<>>
    BY <2>1 DEF Played
  <2>3. Coming' = Coming
    BY <2>1, <2>2 DEF Coming
  <2> QED BY <1>A, <2>1, <2>3
<1> QED BY <1>1, <1>2, <1>3, <1>4, <1>5, <1>8, <1>9, <1>10
        DEF Puppet!Next, Puppet!Battle, Puppet!Messages, Puppet!Frames

\* What a message more, and a message less, make of a sequence.
LongerBy(q, x, r) ==
  /\ Len(r) = Len(q) + 1 /\ Len(q) \in Nat /\ r # <<>> /\ r[Len(r)] = x
  /\ \A j \in 1..Len(r) : \/ j = Len(r) /\ r[j] = x
                          \/ j # Len(r) /\ j \in 1..Len(q) /\ r[j] = q[j]
  /\ q # <<>> => 1 \in 1..Len(q) /\ r[1] = q[1]
  /\ q = <<>> => Len(r) = 1
  /\ NoneOf(q, Reporting) /\ x.t \notin Reporting => NoneOf(r, Reporting)

LEMMA Longer == \A q \in Seq(ToBattle), x \in ToBattle : LongerBy(q, x, Append(q, x))
<1> SUFFICES ASSUME NEW q \in Seq(ToBattle), NEW x \in ToBattle, NEW r, r = Append(q, x) PROVE LongerBy(q, x, r)
  OBVIOUS
<1>1. /\ Len(r) = Len(q) + 1 /\ Len(q) \in Nat /\ r # <<>> /\ r[Len(r)] = x
      /\ \A j \in 1..Len(r) : \/ j = Len(r) /\ r[j] = x
                              \/ j # Len(r) /\ j \in 1..Len(q) /\ r[j] = q[j]
  <2> HIDE DEF ToBattle
  <2> QED OBVIOUS
<1>2. q # <<>> => 1 \in 1..Len(q) /\ r[1] = q[1]
  <2> HIDE DEF ToBattle
  <2> QED OBVIOUS
<1>3. q = <<>> => Len(r) = 1
  BY <1>1
<1>4. NoneOf(q, Reporting) /\ x.t \notin Reporting => NoneOf(r, Reporting)
  BY <1>1 DEF NoneOf
<1> QED BY <1>1, <1>2, <1>3, <1>4 DEF LongerBy

LEMMA Shorter ==
  ASSUME NEW q \in Seq(ToBattle), q # <<>>, NEW r, r = Tail(q)
  PROVE  /\ Len(q) = Len(r) + 1 /\ Len(r) \in Nat /\ Head(q) = q[1] /\ 1 \in 1..Len(q)
         /\ \A j \in 1..Len(r) : j + 1 \in 1..Len(q) /\ j + 1 # 1 /\ r[j] = q[j + 1]
         /\ r # <<>> => Len(r) \in 1..Len(r) /\ r[Len(r)] = q[Len(q)]
         /\ r = <<>> => Len(q) = 1 /\ q[Len(q)] = Head(q)
         /\ Len(q) = 1 => r = <<>>
         /\ NoneOf(q, Reporting) => NoneOf(r, Reporting) /\ Head(q).t \notin Reporting
<1>1. /\ Len(q) = Len(r) + 1 /\ Len(r) \in Nat /\ Head(q) = q[1] /\ 1 \in 1..Len(q)
      /\ \A j \in 1..Len(r) : j + 1 \in 1..Len(q) /\ j + 1 # 1 /\ r[j] = q[j + 1]
  <2> HIDE DEF ToBattle
  <2>1. Len(q) = Len(r) + 1 /\ Len(r) \in Nat /\ Head(q) = q[1]
    OBVIOUS
  <2>2. \A j \in 1..(Len(q) - 1) : Tail(q)[j] = q[j + 1]
    OBVIOUS
  <2> QED BY <2>1, <2>2
<1>2. r \in Seq(ToBattle)
  <2> HIDE DEF ToBattle
  <2> QED OBVIOUS
<1>3. \A z \in Seq(ToBattle) : (z = <<>> <=> Len(z) = 0)
  <2> HIDE DEF ToBattle
  <2>1. \A z \in Seq(ToBattle) : Len(z) = 0 => z = <<>>
    OBVIOUS
  <2>2. \A z \in Seq(ToBattle) : z = <<>> => Len(z) = 0
    OBVIOUS
  <2> QED BY <2>1, <2>2, Zenon
<1>4. r # <<>> => Len(r) \in 1..Len(r) /\ r[Len(r)] = q[Len(q)]
  BY <1>1, <1>2, <1>3
<1>5. r = <<>> <=> Len(q) = 1
  <2>1. r = <<>> <=> Len(r) = 0
    BY <1>2, <1>3, Zenon
  <2>2. Len(r) = 0 <=> Len(q) = 1
    BY <1>1
  <2> QED BY <2>1, <2>2, Zenon
<1>6. NoneOf(q, Reporting) => NoneOf(r, Reporting) /\ Head(q).t \notin Reporting
  BY <1>1 DEF NoneOf
<1> QED BY <1>1, <1>4, <1>5, <1>6

\* The first report of a sequence.
LEMMA FirstReport ==
  ASSUME NEW q, Len(q) \in Nat, ~NoneOf(q, Reporting)
  PROVE  \E k \in 1..Len(q) : q[k].t \in Reporting /\ \A i \in 1..(k - 1) : q[i].t \notin Reporting
<1> DEFINE S == {k \in 1..Len(q) : q[k].t \in Reporting}
<1>1. S # {} /\ S \in SUBSET Nat
  BY DEF NoneOf
<1> HIDE DEF S
<1>2. \E j \in S : \A k \in S : ~(<<k, j>> \in OpToRel(<, Nat))
  BY <1>1, NatLessThanWellFounded, WFMin, Zenon
<1>3. PICK j \in S : \A k \in S : ~(<<k, j>> \in OpToRel(<, Nat))
  BY <1>2, Zenon
<1>4. ASSUME NEW k \in S PROVE j <= k
  <2>1. <<k, j>> \notin {z \in Nat \X Nat : z[1] < z[2]}
    BY <1>3, Zenon DEF OpToRel
  <2>2. k \in Nat /\ j \in Nat /\ <<k, j>>[1] = k /\ <<k, j>>[2] = j
    BY <1>1
  <2> QED BY <2>1, <2>2
<1>5. j \in 1..Len(q) /\ q[j].t \in Reporting
  BY DEF S
<1>6. \A i \in 1..(j - 1) : q[i].t \notin Reporting
  BY <1>4, <1>5 DEF S
<1> QED BY <1>5, <1>6

\* When everybody is down, what is to come has no report, ...
LEMMA NothingToReport ==
  ASSUME PuppetTypes, Timely(toPuppet, Puppet!Actors)
  PROVE  NoneOf(toPuppet, Reporting)
<1> SUFFICES ASSUME ~NoneOf(toPuppet, Reporting) PROVE FALSE
  OBVIOUS
<1>1. Len(toPuppet) \in Nat
  BY DEF PuppetTypes
<1>2. PICK k \in 1..Len(toPuppet) : /\ toPuppet[k].t \in Reporting
                                    /\ \A i \in 1..(k - 1) : toPuppet[i].t \notin Reporting
  BY <1>1, FirstReport
<1>3. PICK u \in Puppet!Actors : Upright(toPuppet, Puppet!Actors, u, k)
  BY <1>2 DEF Timely, Standers, Puppet!Actors
<1>4. PICK i \in 1..(k - 1) : Revives(toPuppet[i], u)
  BY <1>3 DEF Upright
<1> QED BY <1>2, <1>4 DEF Revives, Reporting

\* ... and nobody fights on.
LEMMA NobodyLeft ==
  ASSUME PuppetTypes, PuppetInv, defeatTimer, srv # "none"
  PROVE  Puppet!Fighting = {}
<1>1. deadActors = Puppet!Actors /\ eventQueue = <<>> /\ playing = Puppet!Idle /\ NoneOf(toPuppet, Reporting)
  BY DEF PuppetInv, Armed
<1>2. toPuppet \in Seq(ToBattle)
  BY DEF PuppetTypes
<1>3. Coming = toPuppet
  <2>1. Coming = <<>> \o <<>> \o toPuppet
    BY <1>1 DEF Coming, Played
  <2>2. <<>> \in Seq(ToBattle)
    OBVIOUS
  <2> HIDE DEF ToBattle
  <2>3. <<>> \o <<>> = <<>>
    OBVIOUS
  <2>4. <<>> \o toPuppet = toPuppet
    BY <1>2
  <2> QED BY <2>1, <2>3, <2>4
<1>4. Puppet!Fighting \subseteq Puppet!Actors
  BY DEF Puppet!Fighting
<1>5. ASSUME NEW u \in Puppet!Fighting PROVE FALSE
  <2>1. Upright(toPuppet, Puppet!Actors, u, Len(toPuppet) + 1)
    BY <1>1, <1>3, <1>5 DEF PuppetInv, BattleTold, Standing
  <2>2. PICK i \in 1..(Len(toPuppet) + 1 - 1) : Revives(toPuppet[i], u)
    BY <1>4, <1>5, <2>1 DEF Upright
  <2>3. i \in 1..Len(toPuppet)
    BY <1>2
  <2> QED BY <1>1, <2>2, <2>3 DEF NoneOf, Revives, Reporting
<1> QED BY <1>5

\* The steps, as far as the conversation goes: the server takes an answer, tells
\* something, or begins a battle or recovers the party on the map; ...
LEMMA ServerKeeps ==
  ASSUME Puppet!Battle
  PROVE  /\ UNCHANGED <<puppetMode, goingTo, battleScene, defeatTimer, eventQueue, playing, deadActors,
                        request, actorIndex, battleWindows, reading, hidden>>
         /\ UNCHANGED first \/ (battleScene = "map" /\ srv' = "turn")
BY DEF Puppet!Battle, Puppet!battleVars, Puppet!BattleBegins, Puppet!RequestInput, Puppet!TakeInput,
       Puppet!DropAnswer, Puppet!Report, Puppet!OtherEscapes, Puppet!ShowText,
       Puppet!TakeAck, Puppet!BattleEnds, Puppet!Recover, Puppet!ServerOnly,
       Puppet!playVars, Puppet!inputVars, Puppet!sceneVars, Puppet!bodyVars

LEMMA ServerSteps ==
  ASSUME PuppetTypes, Puppet!Battle
  PROVE  \/ /\ UNCHANGED <<toPuppet, hp, escaped>>
            /\ \/ srv # "none" /\ srv' = "turn"
               \/ /\ UNCHANGED <<srv, asked>> /\ fromPuppet # <<>> /\ fromPuppet' = Tail(fromPuppet)
                  /\ srv = "input" /\ asked = Me => Head(fromPuppet) # InputSent
                  /\ srv # "none" => Head(fromPuppet).t # "ack"
         \/ \E x \in ToBattle :
              /\ toPuppet' = Append(toPuppet, x) /\ UNCHANGED fromPuppet
              /\ srv = "turn" /\ x.t \notin {"start", "recover"}
              /\ (x.t = "end") <=> (srv' = "none")
              /\ IF x.t \in Reporting THEN Puppet!Fighting # {} ELSE UNCHANGED <<hp, escaped>>
              /\ srv' = "input" => asked' \in Puppet!Fighting /\ x = [t |-> "input", a |-> asked']
              /\ srv' = "text" => x.t = "text"
         \/ \E x \in ToBattle :
              /\ toPuppet = <<>> /\ toPuppet' = Append(toPuppet, x) /\ goingTo = "map"
              /\ srv = "none" /\ \/ x.t = "start" /\ srv' = "turn"
                                 \/ x.t = "recover" /\ srv' = "none"
<1>a. hp \in [Puppet!Actors -> Puppet!HP] /\ fromPuppet \in Seq(FromBattle)
  BY DEF PuppetTypes
<1>2. CASE Puppet!TakeInput \/ Puppet!TakeAck
  BY <1>2 DEF Puppet!TakeInput, Puppet!TakeAck
<1>3. CASE Puppet!DropAnswer
  <2>1. UNCHANGED <<toPuppet, hp, escaped, srv, asked>> /\ fromPuppet # <<>> /\ fromPuppet' = Tail(fromPuppet)
    BY <1>3 DEF Puppet!DropAnswer, Puppet!battleVars
  <2>2. Head(fromPuppet) \in FromBattle
    BY <1>a, <2>1
  <2>3. /\ srv = "input" /\ asked = Me => Head(fromPuppet) # InputSent
        /\ srv # "none" => Head(fromPuppet).t # "ack"
    BY <1>3 DEF Puppet!DropAnswer, InputSent
  <2> QED BY <2>1, <2>3
<1>4. CASE Puppet!RequestInput
  <2>1. PICK u \in Puppet!Fighting : asked' = u /\ Puppet!Tell([t |-> "input", a |-> u])
    BY <1>4 DEF Puppet!RequestInput
  <2>2. [t |-> "input", a |-> u] \in ToBattle
    BY DEF ToBattle, Puppet!Fighting
  <2>3. srv = "turn" /\ srv' = "input" /\ UNCHANGED <<hp, escaped, fromPuppet>>
    BY <1>4 DEF Puppet!RequestInput
  <2> QED BY <2>1, <2>2, <2>3 DEF Puppet!Tell, Reporting
<1>5. CASE Puppet!OtherEscapes
  <2>1. [t |-> "escape", a |-> Other] \in ToBattle
    BY DEF ToBattle, Reports, Puppet!Actors
  <2> QED BY <1>5, <2>1 DEF Puppet!OtherEscapes, Puppet!Tell, Reporting
<1>6. CASE Puppet!ShowText \/ Puppet!BattleEnds
  <2>1. \A z \in {"text", "end"} : [t |-> z] \in ToBattle
    BY DEF ToBattle
  <2> QED BY <1>6, <2>1 DEF Puppet!ShowText, Puppet!BattleEnds, Puppet!Tell, Reporting
<1>7. CASE Puppet!Report
  <2>1. PICK u \in Puppet!Actors \ escaped, k \in Puppet!HP :
           \/ Puppet!Tell([t |-> "action", a |-> u, hp |-> k])
           \/ Puppet!Tell([t |-> "turnend", a |-> u, by |-> <<hp[u], k>>])
    BY <1>7 DEF Puppet!Report
  <2>2. [t |-> "action", a |-> u, hp |-> k] \in ToBattle
    BY <2>1 DEF ToBattle, Reports, Actions
  <2>3. [t |-> "turnend", a |-> u, by |-> <<hp[u], k>>] \in ToBattle
    BY <1>a, <2>1 DEF ToBattle, Reports
  <2>4. srv = "turn" /\ srv' = "turn" /\ Puppet!Fighting # {} /\ UNCHANGED fromPuppet
    BY <1>7 DEF Puppet!Report
  <2>5. \E x \in ToBattle : toPuppet' = Append(toPuppet, x) /\ x.t \in {"action", "turnend"}
    BY <2>1, <2>2, <2>3 DEF Puppet!Tell
  <2> QED BY <2>4, <2>5 DEF Reporting
<1>8. CASE Puppet!BattleBegins \/ Puppet!Recover
  <2>1. [t |-> "start", hp |-> hp] \in ToBattle /\ [t |-> "recover"] \in ToBattle
    BY <1>a DEF ToBattle
  <2> QED BY <1>8, <2>1 DEF Puppet!BattleBegins, Puppet!Recover, Puppet!Tell
<1> QED BY <1>2, <1>3, <1>4, <1>5, <1>6, <1>7, <1>8 DEF Puppet!Battle

\* ... the client hears a message; ...
LEMMA HeardSteps ==
  ASSUME PuppetTypes, Puppet!Messages, ~Puppet!TextRead
  PROVE  /\ toPuppet # <<>> /\ toPuppet' = Tail(toPuppet) /\ UNCHANGED <<srv, asked, hp, escaped>>
         /\ UNCHANGED <<actorIndex, battleWindows, battleScene, hidden, first>>
         /\ reading' = reading \/ (Head(toPuppet).t = "text" /\ reading' = TRUE)
         /\ fromPuppet' = fromPuppet \/ \E x \in FromBattle : fromPuppet' = Append(fromPuppet, x)
         /\ \/ /\ Head(toPuppet).t = "start" /\ puppetMode' = TRUE /\ goingTo' = "battle"
               /\ defeatTimer' = FALSE
            \/ /\ Head(toPuppet).t \in {"input", "text"} \union Reporting
               /\ puppetMode /\ UNCHANGED <<puppetMode, goingTo, defeatTimer, playing, deadActors>>
               /\ Head(toPuppet).t \notin Reporting => UNCHANGED eventQueue
               /\ Head(toPuppet).t = "input" => request' = Head(toPuppet).a
               /\ Head(toPuppet).t = "text" => reading' = TRUE
            \/ /\ Head(toPuppet).t = "end" /\ puppetMode' = FALSE /\ defeatTimer' = FALSE
               /\ eventQueue' = <<>> /\ playing' = Puppet!Idle
            \/ /\ Head(toPuppet).t = "recover"
               /\ UNCHANGED <<puppetMode, goingTo, defeatTimer, eventQueue, playing>>
            \/ /\ Head(toPuppet).t \notin {"start", "recover"} /\ ~puppetMode
               /\ UNCHANGED <<puppetMode, goingTo, defeatTimer, eventQueue, playing, deadActors>>
<1>1. CASE Puppet!OnBattleStart
  BY <1>1 DEF Puppet!OnBattleStart, Puppet!Received, Puppet!battleVars, Puppet!inputVars
<1>2. CASE Puppet!OnInputRequest \/ Puppet!OnReport \/ Puppet!OnTroopText
  <2>1. CASE Puppet!OnInputRequest
    BY <2>1 DEF Puppet!OnInputRequest, Puppet!Received, Puppet!battleVars, Puppet!inputVars,
                Puppet!sceneVars, Puppet!bodyVars, Puppet!playVars, Reporting
  <2>2. CASE Puppet!OnTroopText
    BY <2>2 DEF Puppet!OnTroopText, Puppet!Received, Puppet!battleVars, Puppet!inputVars,
                Puppet!sceneVars, Puppet!bodyVars, Puppet!playVars, Reporting
  <2>3. CASE Puppet!OnReport
    BY <2>3 DEF Puppet!OnReport, Puppet!Received, Puppet!battleVars, Puppet!inputVars,
                Puppet!sceneVars, Puppet!bodyVars, Puppet!playVars, Reporting
  <2> QED BY <1>2, <2>1, <2>2, <2>3
<1>3. CASE Puppet!OnBattleEnd
  <2>1. [t |-> "result"] \in FromBattle
    BY DEF FromBattle
  <2> QED BY <1>3, <2>1 DEF Puppet!OnBattleEnd, Puppet!Received, Puppet!battleVars, Puppet!inputVars,
             Puppet!Answer
<1>4. CASE Puppet!OnRecover
  BY <1>4 DEF Puppet!OnRecover, Puppet!Received, Puppet!battleVars, Puppet!inputVars,
              Puppet!sceneVars, Puppet!playVars
<1>5. ASSUME NEW k \in {"input", "action", "escape", "turnend", "text", "end"}, Puppet!Ignored(k)
      PROVE  /\ toPuppet # <<>> /\ toPuppet' = Tail(toPuppet) /\ UNCHANGED <<srv, asked, hp, escaped>>
             /\ UNCHANGED <<actorIndex, battleWindows, battleScene, hidden, first, reading, fromPuppet>>
             /\ Head(toPuppet).t \notin {"start", "recover"} /\ ~puppetMode
             /\ UNCHANGED <<puppetMode, goingTo, defeatTimer, eventQueue, playing, deadActors>>
  BY <1>5 DEF Puppet!Ignored, Puppet!Received, Puppet!battleVars, Puppet!inputVars,
              Puppet!sceneVars, Puppet!bodyVars, Puppet!playVars
<1> QED BY <1>1, <1>2, <1>3, <1>4, <1>5 DEF Puppet!Messages

\* ... or the scenes go on and the player chooses.
LEMMA PlaySteps ==
  ASSUME PuppetTypes, Puppet!TextRead \/ Puppet!Frames \/ Puppet!Choices
  PROVE  /\ UNCHANGED <<toPuppet, srv, asked, hp, escaped, first>>
         /\ Here' => Here \/ goingTo # "battle"
         /\ fromPuppet' = fromPuppet \/ \E x \in FromBattle : fromPuppet' = Append(fromPuppet, x)
         /\ \/ UNCHANGED <<puppetMode, goingTo>>
            \/ puppetMode' = FALSE /\ defeatTimer /\ UNCHANGED <<eventQueue, playing>>
         /\ \/ UNCHANGED <<eventQueue, playing, deadActors>>
            \/ puppetMode /\ ~(eventQueue = <<>> /\ playing = Puppet!Idle)
         /\ \/ defeatTimer' = FALSE
            \/ UNCHANGED <<defeatTimer, puppetMode>>
            \/ /\ puppetMode /\ eventQueue = <<>> /\ playing = Puppet!Idle /\ deadActors = Puppet!Actors
               /\ UNCHANGED <<puppetMode, eventQueue, playing, deadActors>>
         /\ \/ UNCHANGED <<battleScene, battleWindows>>
            \/ battleWindows' = {} /\ goingTo # battleScene
            \/ battleScene = "battle" /\ battleScene' = "battle"
         /\ reading' = reading \/ (fromPuppet' = Append(fromPuppet, [t |-> "ack"]))
         /\ \/ UNCHANGED <<request, actorIndex>>
            \/ request # None /\ request' = None /\ actorIndex' = request
               /\ (Puppet!Found(request) # None => battleWindows' # {})
         /\ \/ battleWindows' # {}
            \/ UNCHANGED battleWindows
            \/ goingTo # battleScene
            \/ fromPuppet' = Append(fromPuppet, [t |-> "input", a |-> actorIndex])
<1>0. UNCHANGED <<hidden, first>> => (Here' => Here)
  BY DEF Here, Puppet!Found
<1>1. CASE Puppet!TextRead
  <2>1. [t |-> "ack"] \in FromBattle
    BY DEF FromBattle
  <2> QED BY <1>0, <1>1, <2>1 DEF Puppet!TextRead, Puppet!Answer, Puppet!battleVars, Puppet!bodyVars,
             Puppet!playVars, Puppet!sceneVars, Puppet!inputVars
<1>2. CASE Puppet!SceneChange \/ Puppet!BecomeReady \/ Puppet!ArmDefeat
  <2>1. Here' => Here \/ goingTo # "battle"
    <3>1. UNCHANGED first
      BY <1>2 DEF Puppet!SceneChange, Puppet!BecomeReady, Puppet!ArmDefeat, Puppet!ClientOnly,
         Puppet!battleVars
    <3>2. CASE Puppet!SceneChange
      <4>1. goingTo = "battle" => (hidden' <=> hidden)
        BY <3>2, Zenon DEF Puppet!SceneChange
      <4> QED BY <3>1, <4>1 DEF Here, Puppet!Found
    <3>3. CASE Puppet!BecomeReady \/ Puppet!ArmDefeat
      BY <1>0, <3>1, <3>3 DEF Puppet!BecomeReady, Puppet!ArmDefeat, Puppet!bodyVars
    <3> QED BY <1>2, <3>2, <3>3
  <2> QED BY <1>2, <2>1 DEF Puppet!SceneChange, Puppet!BecomeReady, Puppet!ArmDefeat, Puppet!Frame, Puppet!AllDead,
     Puppet!ClientOnly, Puppet!battleVars, Puppet!bodyVars, Puppet!playVars, Puppet!sceneVars, Puppet!inputVars
<1>3. CASE Puppet!PlayNext \/ Puppet!HitFrame \/ Puppet!ActionOver
  <2>1. Here' => Here
    <3>1. UNCHANGED first /\ (UNCHANGED hidden \/ hidden' = TRUE)
      BY <1>3 DEF Puppet!PlayNext, Puppet!HitFrame, Puppet!ActionOver, Puppet!ApplyTurnEnd,
         Puppet!ApplyActorEscape, Puppet!ClientOnly, Puppet!battleVars, Puppet!bodyVars
    <3> QED BY <3>1 DEF Here, Puppet!Found
  <2> QED BY <1>3, <2>1 DEF Puppet!PlayNext, Puppet!HitFrame, Puppet!ActionOver, Puppet!Frame,
     Puppet!ClientOnly, Puppet!battleVars, Puppet!sceneVars, Puppet!inputVars
<1>4. CASE Puppet!LeaveDefeated
  <2>1. [t |-> "result"] \in FromBattle
    BY DEF FromBattle
  <2> QED BY <1>0, <1>4, <2>1 DEF Puppet!LeaveDefeated, Puppet!Answer,
     Puppet!ClientOnly, Puppet!battleVars, Puppet!bodyVars, Puppet!playVars, Puppet!inputVars
<1>5. CASE Puppet!ProcessInput
  BY <1>0, <1>5 DEF Puppet!ProcessInput, Puppet!Frame, Puppet!ClientOnly, Puppet!battleVars
<1>6. CASE Puppet!Choices
  <2>1. /\ Puppet!Choosing
        /\ \/ battleWindows' # {} /\ UNCHANGED fromPuppet
           \/ fromPuppet' = Append(fromPuppet, [t |-> "input", a |-> actorIndex])
    <3>1. CASE Puppet!CommandAttack \/ Puppet!CommandGuard \/ Puppet!CommandEscape \/ Puppet!CommandCustom
      BY <3>1 DEF Puppet!CommandAttack, Puppet!CommandGuard, Puppet!CommandEscape, Puppet!CommandCustom,
         Puppet!SendInput, Puppet!Answer
    <3>2. CASE Puppet!OpenList \/ Puppet!ListOk \/ Puppet!ListCancel
      BY <3>2 DEF Puppet!OpenList, Puppet!ListOk, Puppet!ListCancel, Puppet!SendInput, Puppet!Answer
    <3>3. CASE Puppet!TargetOk \/ Puppet!TargetCancel
      BY <3>3 DEF Puppet!TargetOk, Puppet!TargetCancel, Puppet!SendInput, Puppet!Answer
    <3> QED BY <1>6, <3>1, <3>2, <3>3 DEF Puppet!Choices
  <2>2. [t |-> "input", a |-> actorIndex] \in FromBattle
    BY DEF FromBattle, PuppetTypes
  <2>3. UNCHANGED <<toPuppet, srv, asked, hp, escaped, puppetMode, goingTo, battleScene, eventQueue, playing,
                    deadActors, defeatTimer, actorIndex, request, reading, hidden, first>> /\ battleScene = "battle"
    BY <2>1 DEF Puppet!Choosing, Puppet!Frame, Puppet!ClientOnly, Puppet!battleVars, Puppet!bodyVars,
       Puppet!playVars, Puppet!sceneVars
  <2> QED BY <1>0, <2>1, <2>2, <2>3
<1> QED BY <1>1, <1>2, <1>3, <1>4, <1>5, <1>6 DEF Puppet!Frames

LEMMA PuppetInvInitial == Puppet!Init => PuppetInv
<1> SUFFICES ASSUME Puppet!Init PROVE PuppetInv
  OBVIOUS
<1>1. /\ toPuppet = <<>> /\ eventQueue = <<>> /\ playing = Puppet!Idle /\ srv = "none"
      /\ puppetMode = FALSE /\ defeatTimer = FALSE /\ battleWindows = {}
  BY DEF Puppet!Init
<1>2. Coming = <<>>
  BY <1>1 DEF Coming, Played
<1>3. BattleTold /\ Hiding
  <2>1. ~hidden
    BY DEF Puppet!Init
  <2> QED BY <1>1, <1>2, <2>1 DEF BattleTold, Timely, Parted, Alone, Gone, Hiding
<1>4. Ordered
  BY <1>1 DEF Ordered, NoneOf
<1>5. Scened /\ Armed /\ Requested
  BY <1>1 DEF Scened, Armed, Requested
<1> QED BY <1>3, <1>4, <1>5 DEF PuppetInv

LEMMA OrderedStep == PuppetTypes /\ PuppetOwn /\ PuppetInv /\ [Puppet!Next]_p => Ordered'
<1> SUFFICES ASSUME PuppetTypes, PuppetOwn, PuppetInv, [Puppet!Next]_p PROVE Ordered'
  OBVIOUS
<1>a. toPuppet \in Seq(ToBattle)
  BY DEF PuppetTypes
<1>b. \A j \in 1..Len(toPuppet) :
       /\ toPuppet[j].t = "start" => j = 1 /\ ~puppetMode
       /\ toPuppet[j].t = "end" => j = Len(toPuppet) /\ srv = "none"
       /\ toPuppet[j].t = "recover" => Len(toPuppet) = 1 /\ ~puppetMode /\ srv = "none"
  BY DEF PuppetInv, Ordered
<1>c. srv = "none" => /\ toPuppet # <<>> => toPuppet[Len(toPuppet)].t \in {"end", "recover"}
                      /\ puppetMode => toPuppet # <<>>
  BY DEF PuppetInv, Ordered
<1>d. ~puppetMode => /\ eventQueue = <<>> /\ playing = Puppet!Idle
                     /\ \/ toPuppet # <<>> /\ toPuppet[1].t = "start"
                        \/ NoneOf(toPuppet, Reporting) /\ (srv # "none" => Puppet!Fighting = {})
  BY DEF PuppetInv, Ordered
<1>e. puppetMode \in BOOLEAN /\ (puppetMode => goingTo = "battle")
  BY DEF PuppetOwn, PuppetInv, Scened
<1>f. toPuppet # <<>> => 1 \in 1..Len(toPuppet)
  <2> HIDE DEF ToBattle
  <2> QED BY <1>a
<1> HIDE DEF ToBattle
\* The frame.
<1>A. ASSUME UNCHANGED <<toPuppet, hp, escaped, puppetMode>>, srv' = "none" <=> srv = "none",
             ~puppetMode => UNCHANGED <<eventQueue, playing>>
      PROVE  Ordered'
  BY <1>A, <1>b, <1>c, <1>d DEF Ordered, Puppet!Fighting
<1>1. CASE Puppet!Battle
  <2>1. UNCHANGED <<puppetMode, goingTo, eventQueue, playing>>
    BY <1>1, ServerKeeps, ServerSteps
  <2>2. CASE UNCHANGED <<toPuppet, hp, escaped>> /\ (srv' = "none" <=> srv = "none")
    BY <1>A, <2>1, <2>2
  <2>3. ASSUME NEW x \in ToBattle, toPuppet' = Append(toPuppet, x),
               srv = "turn", x.t \notin {"start", "recover"},
               (x.t = "end") <=> (srv' = "none"),
               IF x.t \in Reporting THEN Puppet!Fighting # {} ELSE UNCHANGED <<hp, escaped>>
        PROVE  Ordered'
    <3>1. /\ Len(toPuppet') = Len(toPuppet) + 1 /\ Len(toPuppet) \in Nat /\ toPuppet' # <<>>
          /\ toPuppet'[Len(toPuppet')] = x
          /\ \A j \in 1..Len(toPuppet') :
               \/ j = Len(toPuppet') /\ toPuppet'[j] = x
               \/ j # Len(toPuppet') /\ j \in 1..Len(toPuppet) /\ toPuppet'[j] = toPuppet[j]
          /\ toPuppet # <<>> => 1 \in 1..Len(toPuppet) /\ toPuppet'[1] = toPuppet[1]
          /\ toPuppet = <<>> => Len(toPuppet') = 1
          /\ NoneOf(toPuppet, Reporting) /\ x.t \notin Reporting => NoneOf(toPuppet', Reporting)
      <4>1. toPuppet' = Append(toPuppet, x)
        BY <2>3
      <4>2. LongerBy(toPuppet, x, toPuppet')
        BY <1>a, <4>1, Longer, Zenon
      <4> QED BY <4>2 DEF LongerBy
    <3>2. ASSUME NEW j \in 1..Len(toPuppet')
          PROVE  /\ toPuppet'[j].t = "start" => j = 1 /\ ~puppetMode'
                 /\ toPuppet'[j].t = "end" => j = Len(toPuppet') /\ srv' = "none"
                 /\ toPuppet'[j].t = "recover" => Len(toPuppet') = 1 /\ ~puppetMode' /\ srv' = "none"
      <4>1. CASE j = Len(toPuppet') /\ toPuppet'[j] = x
        BY <2>3, <4>1
      <4>2. CASE j \in 1..Len(toPuppet) /\ toPuppet'[j] = toPuppet[j]
        BY <1>b, <2>1, <2>3, <4>2
      <4> QED BY <3>1, <4>1, <4>2
    <3>3. srv' = "none" => toPuppet'[Len(toPuppet')].t \in {"end", "recover"}
      BY <2>3, <3>1
    <3>4. ~puppetMode' => /\ eventQueue' = <<>> /\ playing' = Puppet!Idle
                          /\ \/ toPuppet' # <<>> /\ toPuppet'[1].t = "start"
                             \/ NoneOf(toPuppet', Reporting) /\ (srv' # "none" => Puppet!Fighting' = {})
      <4>1. UNCHANGED <<hp, escaped>> => Puppet!Fighting' = Puppet!Fighting
        BY DEF Puppet!Fighting
      <4> QED BY <1>d, <2>1, <2>3, <3>1, <4>1
    <3> QED BY <3>1, <3>2, <3>3, <3>4 DEF Ordered
  <2>4. ASSUME NEW x \in ToBattle, toPuppet = <<>>, toPuppet' = Append(toPuppet, x), goingTo = "map",
               \/ x.t = "start" /\ srv' = "turn"
               \/ x.t = "recover" /\ srv' = "none"
        PROVE  Ordered'
    <3>1. /\ Len(toPuppet') = 1 /\ toPuppet' # <<>> /\ toPuppet'[1] = x
      <4> HIDE DEF ToBattle
      <4> QED BY <2>4
    <3>2. ~puppetMode'
      BY <1>e, <2>1, <2>4
    <3>3. x.t = "recover" => NoneOf(toPuppet', Reporting)
      BY <3>1 DEF NoneOf, Reporting
    <3> QED BY <1>d, <2>1, <2>4, <3>1, <3>2, <3>3 DEF Ordered
  <2> QED BY <1>1, <2>2, <2>3, <2>4, ServerKeeps, ServerSteps
<1>2. CASE Puppet!Messages /\ ~Puppet!TextRead
  <2>1. toPuppet # <<>> /\ toPuppet' = Tail(toPuppet) /\ UNCHANGED <<srv, hp, escaped>>
    BY <1>2, HeardSteps
  <2>2. /\ Len(toPuppet) = Len(toPuppet') + 1 /\ Len(toPuppet') \in Nat
        /\ Head(toPuppet) = toPuppet[1] /\ 1 \in 1..Len(toPuppet)
        /\ \A j \in 1..Len(toPuppet') : /\ j + 1 \in 1..Len(toPuppet) /\ j + 1 # 1
                                        /\ toPuppet'[j] = toPuppet[j + 1]
        /\ toPuppet' # <<>> => Len(toPuppet') \in 1..Len(toPuppet') /\ toPuppet'[Len(toPuppet')] = toPuppet[Len(toPuppet)]
        /\ toPuppet' = <<>> => Len(toPuppet) = 1 /\ toPuppet[Len(toPuppet)] = Head(toPuppet)
        /\ Len(toPuppet) = 1 => toPuppet' = <<>>
        /\ NoneOf(toPuppet, Reporting) => NoneOf(toPuppet', Reporting)
    BY <1>a, <2>1, Shorter
  <2>3. \A j \in 1..Len(toPuppet') :
          /\ toPuppet'[j].t \notin {"start", "recover"}
          /\ toPuppet'[j].t = "end" => j = Len(toPuppet') /\ srv' = "none"
    <3> SUFFICES ASSUME NEW j \in 1..Len(toPuppet')
                 PROVE  /\ toPuppet'[j].t \notin {"start", "recover"}
                        /\ toPuppet'[j].t = "end" => j = Len(toPuppet') /\ srv' = "none"
      OBVIOUS
    <3>1. j + 1 \in 1..Len(toPuppet) /\ j + 1 # 1 /\ toPuppet'[j] = toPuppet[j + 1]
      BY <2>2
    <3>2. /\ toPuppet[j + 1].t # "start"
          /\ toPuppet[j + 1].t = "end" => j + 1 = Len(toPuppet) /\ srv = "none"
          /\ toPuppet[j + 1].t = "recover" => Len(toPuppet) = 1
      BY <1>b, <3>1
    <3>3. Len(toPuppet) = Len(toPuppet') + 1 /\ Len(toPuppet') \in Nat /\ srv' = srv
      BY <2>1, <2>2
    <3> QED BY <3>1, <3>2, <3>3
  <2>4. srv' = "none" =>
          /\ toPuppet' # <<>> => toPuppet'[Len(toPuppet')].t \in {"end", "recover"}
          /\ Head(toPuppet).t \notin {"end", "recover"} => toPuppet' # <<>>
    BY <1>c, <2>1, <2>2
  <2>5. Puppet!Fighting' = Puppet!Fighting
    BY <2>1 DEF Puppet!Fighting
  <2>6. puppetMode' => /\ puppetMode \/ Head(toPuppet).t = "start"
                       /\ Head(toPuppet).t \notin {"end", "recover"}
    <3>1. Head(toPuppet).t = "recover" => ~puppetMode
      BY <1>b, <2>2
    <3>2. \/ Head(toPuppet).t = "start" /\ puppetMode' = TRUE
          \/ Head(toPuppet).t \in {"input", "text"} \union Reporting /\ puppetMode
          \/ Head(toPuppet).t = "end" /\ puppetMode' = FALSE
          \/ Head(toPuppet).t = "recover" /\ puppetMode' = puppetMode
          \/ ~puppetMode /\ puppetMode' = puppetMode
      BY <1>2, HeardSteps
    <3> QED BY <1>e, <3>1, <3>2 DEF Reporting
  <2>7. ~puppetMode' => /\ eventQueue' = <<>> /\ playing' = Puppet!Idle
                        /\ NoneOf(toPuppet', Reporting) /\ (srv' # "none" => Puppet!Fighting' = {})
    <3>1. CASE Head(toPuppet).t \in {"end", "recover"}
      <4>1. toPuppet' = <<>> /\ srv' = "none"
        BY <1>b, <2>1, <2>2, <3>1
      <4>2. NoneOf(toPuppet', Reporting)
        BY <4>1 DEF NoneOf
      <4>3. ~puppetMode' => eventQueue' = <<>> /\ playing' = Puppet!Idle
        BY <1>2, <1>d, <3>1, HeardSteps DEF Reporting
      <4> QED BY <4>1, <4>2, <4>3
    <3>2. CASE ~puppetMode' /\ Head(toPuppet).t \notin {"end", "recover"}
      <4>1. ~puppetMode /\ Head(toPuppet).t # "start" /\ UNCHANGED <<eventQueue, playing>>
        BY <1>2, <1>e, <3>2, HeardSteps
      <4> QED BY <1>d, <2>1, <2>2, <2>5, <4>1
    <3> QED BY <3>1, <3>2
  <2> QED BY <2>1, <2>3, <2>4, <2>6, <2>7 DEF Ordered
<1>3. CASE Puppet!TextRead \/ Puppet!Frames \/ Puppet!Choices
  <2>1. UNCHANGED <<toPuppet, srv, hp, escaped>> /\ (~puppetMode => UNCHANGED <<eventQueue, playing>>)
    BY <1>3, PlaySteps
  <2>2. CASE UNCHANGED puppetMode
    BY <1>A, <2>1, <2>2
  <2>3. CASE puppetMode' = FALSE /\ defeatTimer /\ UNCHANGED <<eventQueue, playing>>
    <3>1. eventQueue = <<>> /\ playing = Puppet!Idle /\ NoneOf(toPuppet, Reporting)
      BY <2>3 DEF PuppetInv, Armed
    <3>2. srv # "none" => Puppet!Fighting = {}
      BY <2>3, NobodyLeft
    <3>3. Puppet!Fighting' = Puppet!Fighting
      BY <2>1 DEF Puppet!Fighting
    <3> QED BY <1>b, <1>c, <2>1, <2>3, <3>1, <3>2, <3>3 DEF Ordered
  <2> QED BY <1>3, <2>2, <2>3, PlaySteps
<1>4. CASE UNCHANGED p
  <2>1. UNCHANGED <<toPuppet, hp, escaped, puppetMode, srv, eventQueue, playing>>
    BY <1>4 DEF p
  <2> QED BY <1>A, <2>1
<1> QED BY <1>1, <1>2, <1>3, <1>4 DEF Puppet!Next, Puppet!Messages

LEMMA ScenedStep == PuppetTypes /\ PuppetOwn /\ PuppetInv /\ [Puppet!Next]_p => Scened'
<1> SUFFICES ASSUME PuppetTypes, PuppetOwn, PuppetInv, [Puppet!Next]_p PROVE Scened'
  OBVIOUS
<1>a. /\ puppetMode \in BOOLEAN
      /\ puppetMode => goingTo = "battle"
      /\ battleWindows # {} => battleScene = "battle"
  BY DEF PuppetOwn, PuppetInv, Scened
<1>1. CASE Puppet!Battle
  <2>1. UNCHANGED <<puppetMode, goingTo, battleWindows, battleScene>>
    BY <1>1, ServerKeeps, ServerSteps
  <2> QED BY <1>a, <2>1 DEF Scened
<1>2. CASE Puppet!Messages /\ ~Puppet!TextRead
  <2>1. \/ goingTo' = "battle" \/ puppetMode' = FALSE
        \/ UNCHANGED <<puppetMode, goingTo>>
    BY <1>2, HeardSteps
  <2>2. UNCHANGED <<battleWindows, battleScene>>
    BY <1>2, HeardSteps
  <2> QED BY <1>a, <2>1, <2>2 DEF Scened
<1>3. CASE Puppet!TextRead \/ Puppet!Frames \/ Puppet!Choices
  <2>1. UNCHANGED <<puppetMode, goingTo>> \/ puppetMode' = FALSE
    BY <1>3, PlaySteps
  <2>2. \/ UNCHANGED <<battleScene, battleWindows>>
        \/ battleWindows' = {} \/ battleScene' = "battle"
    BY <1>3, PlaySteps
  <2> QED BY <1>a, <2>1, <2>2 DEF Scened
<1>4. CASE UNCHANGED p
  BY <1>a, <1>4 DEF Scened, p
<1> QED BY <1>1, <1>2, <1>3, <1>4 DEF Puppet!Next, Puppet!Messages

\* While nothing is queued or played, what is to come are the messages.
LEMMA IdleComing ==
  ASSUME PuppetTypes, eventQueue = <<>>, playing = Puppet!Idle
  PROVE  Coming = toPuppet
<1>1. Coming = <<>> \o <<>> \o toPuppet
  BY DEF Coming, Played
<1>2. toPuppet \in Seq(ToBattle)
  BY DEF PuppetTypes
<1>3. <<>> \in Seq(ToBattle)
  OBVIOUS
<1> HIDE DEF ToBattle
<1>4. <<>> \o <<>> = <<>>
  OBVIOUS
<1>5. <<>> \o toPuppet = toPuppet
  BY <1>2
<1> QED BY <1>1, <1>4, <1>5

LEMMA ArmedStep == PuppetTypes /\ PuppetOwn /\ PuppetInv /\ [Puppet!Next]_p => Armed'
<1> SUFFICES ASSUME PuppetTypes, PuppetOwn, PuppetInv, [Puppet!Next]_p, defeatTimer'
             PROVE  /\ puppetMode' /\ deadActors' = Puppet!Actors
                    /\ eventQueue' = <<>> /\ playing' = Puppet!Idle
                    /\ NoneOf(toPuppet', Reporting)
  BY DEF Armed
<1>a. /\ puppetMode \in BOOLEAN /\ defeatTimer \in BOOLEAN
      /\ puppetMode => goingTo = "battle"
      /\ defeatTimer => /\ puppetMode /\ deadActors = Puppet!Actors
                        /\ eventQueue = <<>> /\ playing = Puppet!Idle
                        /\ NoneOf(toPuppet, Reporting)
  BY DEF PuppetOwn, PuppetInv, Scened, Armed
<1>b. toPuppet \in Seq(ToBattle)
  BY DEF PuppetTypes
<1> HIDE DEF ToBattle
<1>1. CASE Puppet!Battle
  <2>1. UNCHANGED <<puppetMode, goingTo, defeatTimer, eventQueue, playing, deadActors>>
    BY <1>1, ServerKeeps, ServerSteps
  <2>2. NoneOf(toPuppet', Reporting)
    <3>1. CASE UNCHANGED toPuppet
      BY <1>a, <2>1, <3>1
    <3>2. ASSUME NEW x \in ToBattle, toPuppet' = Append(toPuppet, x), srv = "turn",
                 x.t \in Reporting => Puppet!Fighting # {}
          PROVE  NoneOf(toPuppet', Reporting)
      <4>1. x.t \notin Reporting /\ NoneOf(toPuppet, Reporting)
        BY <1>a, <2>1, <3>2, NobodyLeft
      <4>2. LongerBy(toPuppet, x, toPuppet')
        <5>1. toPuppet' = Append(toPuppet, x)
          BY <3>2
        <5> QED BY <1>b, <5>1, Longer, Zenon
      <4> QED BY <4>1, <4>2 DEF LongerBy
    <3>3. CASE goingTo = "map"
      BY <1>a, <2>1, <3>3
    <3> QED BY <1>1, <3>1, <3>2, <3>3, ServerKeeps, ServerSteps
  <2> QED BY <1>a, <2>1, <2>2
<1>2. CASE Puppet!Messages /\ ~Puppet!TextRead
  <2>1. toPuppet # <<>> /\ toPuppet' = Tail(toPuppet) /\ UNCHANGED <<srv, hp, escaped>>
    BY <1>2, HeardSteps
  <2>2. /\ NoneOf(toPuppet, Reporting) => NoneOf(toPuppet', Reporting) /\ Head(toPuppet).t \notin Reporting
        /\ Head(toPuppet) = toPuppet[1] /\ 1 \in 1..Len(toPuppet)
    BY <1>b, <2>1, Shorter
  <2>3. Head(toPuppet).t = "recover" => ~puppetMode
    BY <2>2 DEF PuppetInv, Ordered
  <2>4. \/ defeatTimer' = FALSE
        \/ /\ puppetMode /\ UNCHANGED <<puppetMode, defeatTimer, playing, deadActors>>
           /\ Head(toPuppet).t \notin Reporting => UNCHANGED eventQueue
        \/ ~puppetMode /\ UNCHANGED defeatTimer
    <3>1. \/ defeatTimer' = FALSE
          \/ /\ puppetMode /\ UNCHANGED <<puppetMode, defeatTimer, playing, deadActors>>
             /\ Head(toPuppet).t \notin Reporting => UNCHANGED eventQueue
          \/ Head(toPuppet).t = "recover" /\ UNCHANGED defeatTimer
          \/ ~puppetMode /\ UNCHANGED defeatTimer
      BY <1>2, HeardSteps
    <3> QED BY <2>3, <3>1
  <2>5. /\ puppetMode /\ UNCHANGED <<puppetMode, defeatTimer, playing, deadActors>>
        /\ Head(toPuppet).t \notin Reporting => UNCHANGED eventQueue
    BY <1>a, <2>4
  <2> QED BY <1>a, <2>2, <2>5
<1>3. CASE Puppet!TextRead \/ Puppet!Frames \/ Puppet!Choices
  <2>1. UNCHANGED <<toPuppet, srv, hp, escaped>>
    BY <1>3, PlaySteps
  <2>2. CASE UNCHANGED <<defeatTimer, puppetMode>>
    <3>1. UNCHANGED <<eventQueue, playing, deadActors>>
      BY <1>3, <1>a, <2>2, PlaySteps
    <3> QED BY <1>a, <2>1, <2>2, <3>1
  <2>3. CASE /\ puppetMode /\ eventQueue = <<>> /\ playing = Puppet!Idle /\ deadActors = Puppet!Actors
             /\ UNCHANGED <<puppetMode, eventQueue, playing, deadActors>>
    <3>1. Timely(toPuppet, Puppet!Actors)
      BY <2>3, IdleComing DEF PuppetInv, BattleTold
    <3>2. NoneOf(toPuppet, Reporting)
      BY <3>1, NothingToReport
    <3> QED BY <2>1, <2>3, <3>2
  <2> QED BY <1>3, <2>2, <2>3, PlaySteps
<1>4. CASE UNCHANGED p
  BY <1>a, <1>4 DEF p
<1> QED BY <1>1, <1>2, <1>3, <1>4 DEF Puppet!Next, Puppet!Messages

\* An answer that has been sent is there until it is taken.
HasInput(q) == \E j \in 1..Len(q) : q[j] = InputSent
HasAck(q) == ~NoneOf(q, {"ack"})

LEMMA AnswerStays ==
  \A q \in Seq(FromBattle), x \in FromBattle :
    /\ HasInput(q) \/ x = InputSent => HasInput(Append(q, x))
    /\ HasAck(q) \/ x.t = "ack" => HasAck(Append(q, x))
<1> SUFFICES ASSUME NEW q \in Seq(FromBattle), NEW x \in FromBattle, NEW r, r = Append(q, x)
             PROVE  /\ HasInput(q) \/ x = InputSent => HasInput(r)
                    /\ HasAck(q) \/ x.t = "ack" => HasAck(r)
  OBVIOUS
<1> HIDE DEF FromBattle, InputSent
<1>1. /\ \A j \in 1..Len(q) : j \in 1..Len(r) /\ r[j] = q[j]
      /\ Len(r) \in 1..Len(r) /\ r[Len(r)] = x
  OBVIOUS
<1> QED BY <1>1 DEF HasInput, HasAck, NoneOf

LEMMA AnswerWaits ==
  \A q \in Seq(FromBattle) :
    q # <<>> => /\ HasInput(q) /\ Head(q) # InputSent => HasInput(Tail(q))
                /\ HasAck(q) /\ Head(q).t # "ack" => HasAck(Tail(q))
<1> SUFFICES ASSUME NEW q \in Seq(FromBattle), q # <<>>, NEW r, r = Tail(q)
             PROVE  /\ HasInput(q) /\ Head(q) # InputSent => HasInput(r)
                    /\ HasAck(q) /\ Head(q).t # "ack" => HasAck(r)
  OBVIOUS
<1> HIDE DEF FromBattle, InputSent
<1>1. Len(q) = Len(r) + 1 /\ Len(r) \in Nat /\ Head(q) = q[1]
  OBVIOUS
<1>2. \A j \in 1..(Len(q) - 1) : Tail(q)[j] = q[j + 1]
  OBVIOUS
<1>3. \A j \in 1..Len(q) : j # 1 => j - 1 \in 1..Len(r) /\ r[j - 1] = q[j]
  BY <1>1, <1>2
<1>4. HasInput(q) /\ Head(q) # InputSent => HasInput(r)
  BY <1>1, <1>3 DEF HasInput
<1>5. HasAck(q) /\ Head(q).t # "ack" => HasAck(r)
  BY <1>1, <1>3 DEF HasAck, NoneOf
<1> QED BY <1>4, <1>5

LEMMA RequestedStep == PuppetTypes /\ PuppetOwn /\ PuppetInv /\ [Puppet!Next]_p => Requested'
<1> SUFFICES ASSUME PuppetTypes, PuppetOwn, PuppetInv, [Puppet!Next]_p PROVE Requested'
  OBVIOUS
<1>a. toPuppet \in Seq(ToBattle) /\ fromPuppet \in Seq(FromBattle) /\ puppetMode \in BOOLEAN
  BY DEF PuppetTypes, PuppetOwn
<1>b. srv = "input" =>
       /\ asked \in Puppet!Fighting
       /\ toPuppet # <<>> => toPuppet[Len(toPuppet)] = [t |-> "input", a |-> asked]
       /\ toPuppet = <<>> => /\ request \in {asked, None}
                             /\ asked = Me /\ Here => \/ request = Me
                                                      \/ actorIndex = Me /\ battleWindows # {}
                                                      \/ HasInput(fromPuppet)
  BY DEF PuppetInv, Requested, HasInput
<1>c. srv = "text" /\ Puppet!Fighting # {} =>
       \/ toPuppet # <<>> /\ toPuppet[Len(toPuppet)].t = "text"
       \/ reading \/ HasAck(fromPuppet)
  BY DEF PuppetInv, Requested, HasAck
<1>d. ~puppetMode => \/ toPuppet # <<>> /\ toPuppet[1].t = "start"
                     \/ srv # "none" => Puppet!Fighting = {}
  BY DEF PuppetInv, Ordered
<1>e. (puppetMode => goingTo = "battle") /\ (battleWindows # {} => battleScene = "battle")
  BY DEF PuppetInv, Scened
<1>f. UNCHANGED <<hp, escaped>> => Puppet!Fighting' = Puppet!Fighting
  BY DEF Puppet!Fighting
<1>g. UNCHANGED <<hidden, first>> => (Here' <=> Here)
  BY DEF Here, Puppet!Found
<1> HIDE DEF ToBattle, FromBattle, Here
<1>A. ASSUME srv' = "input" =>
               /\ asked' \in Puppet!Fighting'
               /\ toPuppet' # <<>> => toPuppet'[Len(toPuppet')] = [t |-> "input", a |-> asked']
               /\ toPuppet' = <<>> => /\ request' \in {asked', None}
                                      /\ asked' = Me /\ Here' =>
                                           \/ request' = Me
                                           \/ actorIndex' = Me /\ battleWindows' # {}
                                           \/ HasInput(fromPuppet'),
             srv' = "text" /\ Puppet!Fighting' # {} =>
               \/ toPuppet' # <<>> /\ toPuppet'[Len(toPuppet')].t = "text"
               \/ reading' \/ HasAck(fromPuppet')
      PROVE  Requested'
  BY <1>A DEF Requested, HasInput, HasAck
<1>1. CASE Puppet!Battle
  <2>1. /\ UNCHANGED <<request, actorIndex, battleWindows, reading, hidden>>
        /\ srv' \in {"input", "text"} => UNCHANGED first
    BY <1>1, ServerKeeps, ServerSteps
  <2>2. CASE srv' \notin {"input", "text"}
    BY <1>A, <2>2
  <2>3. CASE UNCHANGED <<srv, asked, toPuppet, hp, escaped>> /\ fromPuppet # <<>> /\ fromPuppet' = Tail(fromPuppet)
             /\ (srv = "input" /\ asked = Me => Head(fromPuppet) # InputSent)
             /\ (srv # "none" => Head(fromPuppet).t # "ack")
    <3>1. /\ srv = "input" /\ asked = Me /\ HasInput(fromPuppet) => HasInput(fromPuppet')
          /\ srv = "text" /\ HasAck(fromPuppet) => HasAck(fromPuppet')
      BY <1>a, <2>3, AnswerWaits
    <3> QED BY <1>A, <1>b, <1>c, <1>f, <1>g, <2>1, <2>2, <2>3, <3>1
  <2>4. ASSUME NEW x \in ToBattle, toPuppet' = Append(toPuppet, x),
               x.t \notin Reporting => UNCHANGED <<hp, escaped>>,
               srv' = "input" => asked' \in Puppet!Fighting /\ x = [t |-> "input", a |-> asked'],
               srv' = "text" => x.t = "text"
        PROVE  Requested'
    <3>1. toPuppet' # <<>> /\ toPuppet'[Len(toPuppet')] = x
      <4>1. toPuppet' = Append(toPuppet, x)
        BY <2>4
      <4>2. LongerBy(toPuppet, x, toPuppet')
        BY <1>a, <4>1, Longer, Zenon
      <4> QED BY <4>2 DEF LongerBy
    <3>2. srv' = "input" => asked' \in Puppet!Fighting'
      BY <1>f, <2>4 DEF Reporting
    <3> QED BY <1>A, <2>4, <3>1, <3>2
  <2> QED BY <1>1, <2>2, <2>3, <2>4, ServerKeeps, ServerSteps
<1>2. CASE Puppet!Messages /\ ~Puppet!TextRead
  <2>1. /\ toPuppet # <<>> /\ toPuppet' = Tail(toPuppet) /\ UNCHANGED <<srv, asked, hp, escaped>>
        /\ reading' = reading \/ reading' = TRUE
        /\ fromPuppet' = fromPuppet \/ \E x \in FromBattle : fromPuppet' = Append(fromPuppet, x)
    BY <1>2, HeardSteps
  <2>2. /\ Head(toPuppet) = toPuppet[1]
        /\ toPuppet' # <<>> => toPuppet'[Len(toPuppet')] = toPuppet[Len(toPuppet)]
        /\ toPuppet' = <<>> => toPuppet[Len(toPuppet)] = Head(toPuppet)
    BY <1>a, <2>1, Shorter
  <2>3. HasAck(fromPuppet) => HasAck(fromPuppet')
    BY <1>a, <2>1, AnswerStays
  <2>4. ASSUME Head(toPuppet).t \in {"input", "text"}, srv # "none", Puppet!Fighting # {}
        PROVE  /\ Head(toPuppet).t = "input" => request' = Head(toPuppet).a
               /\ Head(toPuppet).t = "text" => reading' = TRUE
    <3>1. puppetMode
      BY <1>d, <2>2, <2>4
    <3> QED BY <1>2, <2>4, <3>1, HeardSteps
  <2>5. srv' = "input" =>
          /\ asked' \in Puppet!Fighting'
          /\ toPuppet' # <<>> => toPuppet'[Len(toPuppet')] = [t |-> "input", a |-> asked']
          /\ toPuppet' = <<>> => request' = asked'
    <3> SUFFICES ASSUME srv' = "input"
                 PROVE  /\ asked' \in Puppet!Fighting'
                        /\ toPuppet' # <<>> => toPuppet'[Len(toPuppet')] = [t |-> "input", a |-> asked']
                        /\ toPuppet' = <<>> => request' = asked'
      OBVIOUS
    <3>1. /\ srv = "input" /\ asked' = asked
          /\ asked \in Puppet!Fighting /\ toPuppet[Len(toPuppet)] = [t |-> "input", a |-> asked]
      BY <1>b, <2>1
    <3>2. asked' \in Puppet!Fighting'
      BY <1>f, <2>1, <3>1
    <3>3. toPuppet' = <<>> => request' = asked'
      <4> SUFFICES ASSUME toPuppet' = <<>> PROVE request' = asked'
        OBVIOUS
      <4>1. Head(toPuppet) = [t |-> "input", a |-> asked]
        BY <2>2, <3>1
      <4>2. Head(toPuppet).t = "input" /\ Head(toPuppet).a = asked
        BY <4>1
      <4>3. srv # "none" /\ Puppet!Fighting # {}
        BY <3>1
      <4> QED BY <2>4, <3>1, <4>2, <4>3
    <3> QED BY <2>2, <3>1, <3>2, <3>3
  <2>6. srv' = "text" /\ Puppet!Fighting' # {} =>
          \/ toPuppet' # <<>> /\ toPuppet'[Len(toPuppet')].t = "text"
          \/ reading' \/ HasAck(fromPuppet')
    <3> SUFFICES ASSUME srv' = "text", Puppet!Fighting' # {}
                 PROVE  \/ toPuppet' # <<>> /\ toPuppet'[Len(toPuppet')].t = "text"
                        \/ reading' \/ HasAck(fromPuppet')
      OBVIOUS
    <3>1. srv = "text" /\ srv # "none" /\ Puppet!Fighting # {}
      BY <1>f, <2>1
    <3>2. CASE toPuppet[Len(toPuppet)].t = "text"
      <4>1. toPuppet' = <<>> => reading' = TRUE
        BY <2>2, <2>4, <3>1, <3>2
      <4> QED BY <2>2, <3>2, <4>1
    <3>3. CASE reading \/ HasAck(fromPuppet)
      BY <2>1, <2>3, <3>3
    <3> QED BY <1>c, <3>1, <3>2, <3>3
  <2> QED BY <1>A, <2>5, <2>6
<1>3. CASE Puppet!TextRead \/ Puppet!Frames \/ Puppet!Choices
  <2>1. /\ UNCHANGED <<toPuppet, srv, asked, hp, escaped>>
        /\ fromPuppet' = fromPuppet \/ \E x \in FromBattle : fromPuppet' = Append(fromPuppet, x)
        /\ reading' = reading \/ (fromPuppet' = Append(fromPuppet, [t |-> "ack"]))
    BY <1>3, PlaySteps
  <2>2. /\ HasInput(fromPuppet) => HasInput(fromPuppet')
        /\ HasAck(fromPuppet) => HasAck(fromPuppet')
    BY <1>a, <2>1, AnswerStays
  <2>3. ~reading' => ~reading \/ HasAck(fromPuppet')
    <3>1. [t |-> "ack"] \in FromBattle /\ [t |-> "ack"].t = "ack"
      BY DEF FromBattle
    <3> QED BY <1>a, <2>1, <3>1, AnswerStays
  <2>4. ASSUME srv = "input", toPuppet = <<>>
        PROVE  /\ request' \in {asked, None}
               /\ asked = Me /\ Here' => \/ request' = Me
                                         \/ actorIndex' = Me /\ battleWindows' # {}
                                         \/ HasInput(fromPuppet')
    <3>0. Here' => Here
      <4>1. goingTo = "battle"
        BY <1>b, <1>d, <1>e, <2>4
      <4> QED BY <1>3, <4>1, PlaySteps
    <3>1. CASE /\ request # None /\ request' = None /\ actorIndex' = request
               /\ (Puppet!Found(request) # None => battleWindows' # {})
      <4>1. Me # None
        BY PlayAssumption DEF PlayAssumption
      <4>2. request = Me /\ Here => Puppet!Found(request) # None
        BY <4>1 DEF Here
      <4> QED BY <1>b, <2>4, <3>0, <3>1, <4>2
    <3>2. CASE UNCHANGED <<request, actorIndex>>
      <4>1. \/ battleWindows' # {}
            \/ UNCHANGED battleWindows
            \/ goingTo # battleScene
            \/ fromPuppet' = Append(fromPuppet, [t |-> "input", a |-> actorIndex])
        BY <1>3, PlaySteps
      <4>2. goingTo = "battle"
        BY <1>b, <1>d, <1>e, <2>4
      <4>3. actorIndex = Me /\ battleWindows # {} => battleWindows' # {} \/ HasInput(fromPuppet')
        <5>1. InputSent \in FromBattle
          BY DEF InputSent, FromBattle, Puppet!Actors
        <5>2. fromPuppet' = Append(fromPuppet, InputSent) => HasInput(fromPuppet')
          BY <1>a, <5>1, AnswerStays
        <5> QED BY <1>e, <4>1, <4>2, <5>2 DEF InputSent
      <4> QED BY <1>b, <2>2, <2>4, <3>0, <3>2, <4>3
    <3> QED BY <1>3, <3>1, <3>2, PlaySteps
  <2> QED BY <1>A, <1>b, <1>c, <1>f, <2>1, <2>2, <2>3, <2>4
<1>4. CASE UNCHANGED p
  <2>1. UNCHANGED <<toPuppet, fromPuppet, srv, asked, hp, escaped, request, actorIndex, battleWindows, reading,
                  hidden, first>>
    BY <1>4 DEF p
  <2> QED BY <1>A, <1>b, <1>c, <1>f, <1>g, <2>1
<1> QED BY <1>1, <1>2, <1>3, <1>4 DEF Puppet!Next, Puppet!Messages

LEMMA HidingStep == PuppetTypes /\ PuppetInv /\ [Puppet!Next]_p => Hiding'
<1> SUFFICES ASSUME PuppetTypes, PuppetInv, [Puppet!Next]_p, hidden'
             PROVE  battleScene' = "battle" /\ (first' = Other => Me \notin deadActors')
  BY DEF Hiding
<1>a. hidden => battleScene = "battle" /\ (first = Other => Me \notin deadActors)
  BY DEF PuppetInv, Hiding
<1>b. toPuppet \in Seq(ToBattle) /\ eventQueue \in Seq(Reports)
      /\ playing \in {Puppet!Idle} \union [report : Actions, applied : BOOLEAN]
  BY DEF PuppetTypes
<1>c. Played \in Seq(ToBattle) /\ eventQueue \in Seq(ToBattle)
  BY ComingTyped
<1>d. Me # Other /\ None \notin Puppet!Actors
  BY PlayAssumption DEF PlayAssumption, Puppet!Actors
\* What is applied next.
<1>A. ASSUME NEW x \in ToBattle, NEW z \in Seq(ToBattle), Coming = <<>> \o <<x>> \o z,
             x.t = "action", Puppet!Apply(x), UNCHANGED <<hidden, first>>
      PROVE  first' = Other => Me \notin deadActors'
  <2>1. x.a = Me
    BY <1>A, Leading DEF PuppetInv
  <2>2. first = Other => Puppet!Found(x.a) = None
    BY <1>d, <1>A, <2>1 DEF Puppet!Found
  <2> QED BY <1>a, <1>d, <1>A, <2>2 DEF Puppet!Apply, Puppet!Actors
<1>1. CASE Puppet!Battle
  <2>1. UNCHANGED <<hidden, deadActors, battleScene>> /\ (UNCHANGED first \/ battleScene = "map")
    BY <1>1, ServerKeeps, ServerSteps
  <2> QED BY <1>a, <2>1
<1>2. CASE Puppet!OnBattleEnd
  <2>1. UNCHANGED <<hidden, first, battleScene>> /\ deadActors' = Puppet!Fallen(eventQueue, deadActors)
    BY <1>2 DEF Puppet!OnBattleEnd, Puppet!Received, Puppet!battleVars
  <2>2. ASSUME NEW i \in 1..Len(eventQueue), eventQueue[i].t = "action" PROVE eventQueue[i].a = Me
    <3>1. /\ Len(Played) + i \in 1..Len(Coming) /\ Coming[Len(Played) + i] = eventQueue[i]
      <4> HIDE DEF ToBattle, Played
      <4> QED BY <1>b, <1>c DEF Coming
    <3>2. Alone(Coming, hidden) /\ Gone(Coming, hidden, Len(Played) + i)
      BY <2>1 DEF PuppetInv, BattleTold, Parted, Gone
    <3> QED BY <2>2, <3>1, <3>2 DEF Alone
  <2>3. DOMAIN eventQueue = 1..Len(eventQueue)
    BY <1>b
  <2>4. first = Other => {i \in DOMAIN eventQueue :
                            eventQueue[i].t = "action" /\ Puppet!Found(eventQueue[i].a) = Me} = {}
    BY <1>d, <2>1, <2>2, <2>3 DEF Puppet!Found, Puppet!Actors
  <2>5. first = Other => (Me \in deadActors' => Me \in deadActors)
    BY <2>1, <2>4 DEF Puppet!Fallen
  <2> QED BY <1>a, <2>1, <2>5
<1>3. CASE Puppet!OnRecover
  BY <1>a, <1>3 DEF Puppet!OnRecover, Puppet!Received, Puppet!battleVars, Puppet!sceneVars
<1>4. CASE Puppet!Messages /\ ~Puppet!OnBattleEnd /\ ~Puppet!OnRecover
  BY <1>a, <1>4 DEF Puppet!Messages, Puppet!OnBattleStart, Puppet!OnInputRequest, Puppet!OnReport,
     Puppet!OnTroopText, Puppet!TextRead, Puppet!Ignored, Puppet!Received, Puppet!battleVars,
     Puppet!bodyVars, Puppet!sceneVars
<1>5. CASE Puppet!SceneChange
  BY <1>a, <1>5 DEF Puppet!SceneChange, Puppet!ClientOnly, Puppet!battleVars
<1>6. CASE Puppet!PlayNext
  <2> DEFINE x == Head(eventQueue)
             z == Tail(eventQueue) \o toPuppet
  <2>1. /\ eventQueue # <<>> /\ playing = Puppet!Idle /\ UNCHANGED <<first, battleScene>>
        /\ battleScene = "battle"
    BY <1>6 DEF Puppet!PlayNext, Puppet!Frame, Puppet!ClientOnly, Puppet!battleVars, Puppet!sceneVars
  <2>2. x \in ToBattle /\ z \in Seq(ToBattle)
    <3> HIDE DEF ToBattle
    <3> QED BY <1>b, <1>c, <2>1
  <2>3. Coming = <<>> \o <<x>> \o z
    <3>1. Coming = <<>> \o eventQueue \o toPuppet
      BY <2>1 DEF Coming, Played
    <3> HIDE DEF ToBattle
    <3>2. eventQueue = <<x>> \o Tail(eventQueue) /\ Tail(eventQueue) \in Seq(ToBattle)
      BY <1>c, <2>1
    <3>3. <<>> \in Seq(ToBattle) /\ <<x>> \in Seq(ToBattle)
      BY <2>2
    <3>4. (<<x>> \o Tail(eventQueue)) \o toPuppet = <<x>> \o (Tail(eventQueue) \o toPuppet)
      BY <1>b, <3>2, <3>3, Regrouped, Zenon
    <3>5. <<>> \o eventQueue = eventQueue /\ <<>> \o <<x>> = <<x>>
      BY <1>c, <3>3, <2>2, Joined, Zenon
    <3> QED BY <3>1, <3>2, <3>4, <3>5
  <2> HIDE DEF z
  <2>4. CASE x.t = "action" /\ Puppet!StartPuppetAction(x) /\ UNCHANGED hidden
    <3>1. Puppet!Apply(x) \/ UNCHANGED deadActors
      BY <2>4 DEF Puppet!StartPuppetAction
    <3> QED BY <1>a, <1>A, <2>1, <2>2, <2>3, <2>4, <3>1
  <2>5. CASE x.t = "turnend" /\ Puppet!ApplyTurnEnd(x)
    BY <1>a, <2>1, <2>5 DEF Puppet!ApplyTurnEnd
  <2>6. CASE x.t = "escape" /\ Puppet!ApplyActorEscape(x)
    <3>1. x.a = Other /\ Me \notin deadActors
      BY <2>2, <2>3, <2>6, Leading DEF PuppetInv
    <3> QED BY <1>d, <2>1, <2>6, <3>1 DEF Puppet!ApplyActorEscape
  <2> QED BY <1>6, <2>4, <2>5, <2>6 DEF Puppet!PlayNext
<1>7. CASE Puppet!HitFrame
  <2> DEFINE x == playing.report
             z == eventQueue \o toPuppet
  <2>1. /\ playing # Puppet!Idle /\ ~playing.applied /\ Puppet!Apply(x)
        /\ UNCHANGED <<hidden, first, battleScene>>
    BY <1>7 DEF Puppet!HitFrame, Puppet!ClientOnly, Puppet!battleVars, Puppet!sceneVars
  <2>2. x \in Actions /\ x.t = "action" /\ x \in ToBattle
    BY <1>b, <2>1 DEF Actions, ToBattle, Reports
  <2>3. Played = <<x>>
    BY <2>1 DEF Played
  <2>4. z \in Seq(ToBattle) /\ <<x>> \in Seq(ToBattle) /\ <<>> \in Seq(ToBattle)
    <3> HIDE DEF ToBattle
    <3> QED BY <1>b, <1>c, <2>2
  <2>5. Coming = <<>> \o <<x>> \o z
    <3>1. Coming = (<<x>> \o eventQueue) \o toPuppet
      BY <2>3 DEF Coming
    <3> HIDE DEF ToBattle
    <3>2. (<<x>> \o eventQueue) \o toPuppet = <<x>> \o (eventQueue \o toPuppet)
      BY <1>b, <1>c, <2>4, Regrouped, Zenon
    <3>3. <<>> \o <<x>> = <<x>>
      BY <2>2, <2>4, Joined, Zenon
    <3> QED BY <3>1, <3>2, <3>3
  <2> HIDE DEF x, z
  <2> QED BY <1>a, <1>A, <2>1, <2>2, <2>4, <2>5
<1>8. CASE Puppet!BecomeReady \/ Puppet!ActionOver \/ Puppet!ArmDefeat \/ Puppet!LeaveDefeated
           \/ Puppet!ProcessInput \/ UNCHANGED p
  BY <1>a, <1>8 DEF Puppet!BecomeReady, Puppet!ActionOver, Puppet!ArmDefeat, Puppet!LeaveDefeated,
     Puppet!ProcessInput, p, Puppet!ClientOnly, Puppet!battleVars, Puppet!bodyVars, Puppet!sceneVars
<1>9. CASE Puppet!Choices
  BY <1>a, <1>9 DEF Puppet!Choices, Puppet!Choosing, Puppet!CommandAttack, Puppet!CommandGuard,
     Puppet!CommandEscape, Puppet!CommandCustom, Puppet!OpenList, Puppet!ListOk, Puppet!ListCancel,
     Puppet!TargetOk, Puppet!TargetCancel, Puppet!ClientOnly, Puppet!battleVars, Puppet!bodyVars,
     Puppet!sceneVars
<1> QED BY <1>1, <1>2, <1>3, <1>4, <1>5, <1>6, <1>7, <1>8, <1>9 DEF Puppet!Next, Puppet!Frames

LEMMA PuppetInvStep == PuppetTypes /\ PuppetOwn /\ PuppetInv /\ [Puppet!Next]_p => PuppetInv'
BY BattleToldStep, HidingStep, OrderedStep, ScenedStep, ArmedStep, RequestedStep DEF PuppetInv

LEMMA PuppetAnswers == PuppetTypes /\ PuppetInv => Puppet!Answerable
<1> SUFFICES ASSUME PuppetTypes, PuppetInv PROVE Puppet!Answerable
  OBVIOUS
<1>a. toPuppet \in Seq(ToBattle) /\ fromPuppet \in Seq(FromBattle)
  BY DEF PuppetTypes
<1>b. /\ DOMAIN toPuppet = 1..Len(toPuppet) /\ DOMAIN fromPuppet = 1..Len(fromPuppet)
      /\ toPuppet # <<>> => Len(toPuppet) \in DOMAIN toPuppet
  <2> HIDE DEF ToBattle, FromBattle
  <2> QED BY <1>a
<1>1. srv = "input" /\ asked = Me /\ Puppet!Found(Me) = Me =>
       \/ Puppet!Sent(toPuppet, "input")
       \/ request = Me
       \/ actorIndex = Me /\ battleWindows # {}
       \/ Puppet!Sent(fromPuppet, "input")
  <2>1. InputSent.t = "input"
    BY DEF InputSent
  <2> QED BY <1>b, <2>1 DEF PuppetInv, Requested, Puppet!Sent, Here
<1>2. srv = "text" /\ Puppet!Fighting # {} =>
       Puppet!Sent(toPuppet, "text") \/ reading \/ Puppet!Sent(fromPuppet, "ack")
  BY <1>b DEF PuppetInv, Requested, Puppet!Sent, NoneOf
<1> QED BY <1>1, <1>2 DEF Puppet!Answerable

-----------------------------------------------------------------------------
(* What a sequence of messages ends in *)

\* None of these; one of these, and none of those after it.
Free(q, B) == \A k \in 1..Len(q) : q[k] \notin B
Ends(q, A, B) ==
  \E j \in 1..Len(q) : q[j] \in A /\ \A k \in 1..Len(q) : k > j => q[k] \notin B

LEMMA FreeAppend ==
  ASSUME NEW M, NEW q \in Seq(M), NEW x \in M, NEW B
  PROVE  /\ Append(q, x) \in Seq(M)
         /\ Free(q, B) /\ x \notin B => Free(Append(q, x), B)
<1>1. /\ Append(q, x) \in Seq(M) /\ Len(Append(q, x)) = Len(q) + 1 /\ Append(q, x)[Len(q) + 1] = x
      /\ Len(q) \in Nat /\ \A k \in 1..Len(q) : Append(q, x)[k] = q[k]
  OBVIOUS
<1> QED BY <1>1 DEF Free

LEMMA EndsAppend ==
  ASSUME NEW M, NEW q \in Seq(M), NEW x \in M, NEW A, NEW B
  PROVE  x \in A \/ (Ends(q, A, B) /\ x \notin B) => Ends(Append(q, x), A, B)
<1>1. /\ Len(Append(q, x)) = Len(q) + 1 /\ Append(q, x)[Len(q) + 1] = x
      /\ Len(q) \in Nat /\ \A k \in 1..Len(q) : Append(q, x)[k] = q[k]
  OBVIOUS
<1>2. ASSUME x \in A PROVE Ends(Append(q, x), A, B)
  <2>1. Len(q) + 1 \in 1..Len(Append(q, x)) /\ Append(q, x)[Len(q) + 1] \in A
    BY <1>1, <1>2
  <2>2. \A k \in 1..Len(Append(q, x)) : ~(k > Len(q) + 1)
    BY <1>1
  <2> QED BY <2>1, <2>2 DEF Ends
<1>3. ASSUME Ends(q, A, B), x \notin B PROVE Ends(Append(q, x), A, B)
  <2>1. PICK j \in 1..Len(q) : q[j] \in A /\ \A k \in 1..Len(q) : k > j => q[k] \notin B
    BY <1>3 DEF Ends
  <2>2. j \in 1..Len(Append(q, x)) /\ Append(q, x)[j] \in A
    BY <1>1, <2>1
  <2>3. \A k \in 1..Len(Append(q, x)) : k > j => Append(q, x)[k] \notin B
    BY <1>1, <1>3, <2>1
  <2> QED BY <2>2, <2>3 DEF Ends
<1> QED BY <1>2, <1>3

LEMMA EndsTail ==
  ASSUME NEW M, NEW q \in Seq(M), q # <<>>, NEW A, NEW B
  PROVE  /\ Head(q) \in M /\ Tail(q) \in Seq(M)
         /\ Free(q, B) => Head(q) \notin B /\ Free(Tail(q), B)
         /\ Ends(q, A, B) => Ends(Tail(q), A, B) \/ (Head(q) \in A /\ Free(Tail(q), B))
<1>1. /\ Head(q) \in M /\ Tail(q) \in Seq(M) /\ Head(q) = q[1] /\ Len(q) \in Nat /\ Len(q) > 0
      /\ Len(Tail(q)) = Len(q) - 1 /\ \A k \in 1..(Len(q) - 1) : Tail(q)[k] = q[k + 1]
  OBVIOUS
<1>2. Free(q, B) => Head(q) \notin B /\ Free(Tail(q), B)
  BY <1>1 DEF Free
<1>3. ASSUME Ends(q, A, B) PROVE Ends(Tail(q), A, B) \/ (Head(q) \in A /\ Free(Tail(q), B))
  <2>1. PICK j \in 1..Len(q) : q[j] \in A /\ \A k \in 1..Len(q) : k > j => q[k] \notin B
    BY <1>3 DEF Ends
  <2>2. CASE j = 1
    <3>1. \A k \in 1..Len(Tail(q)) : k + 1 \in 1..Len(q) /\ k + 1 > 1 /\ Tail(q)[k] = q[k + 1]
      BY <1>1
    <3> QED BY <1>1, <2>1, <2>2, <3>1 DEF Free
  <2>3. CASE j # 1
    <3>1. j - 1 \in 1..Len(Tail(q)) /\ Tail(q)[j - 1] = q[j]
      BY <1>1, <2>3
    <3>2. \A k \in 1..Len(Tail(q)) : k > j - 1 => k + 1 \in 1..Len(q) /\ k + 1 > j /\ Tail(q)[k] = q[k + 1]
      BY <1>1
    <3> QED BY <2>1, <3>1, <3>2 DEF Ends
  <2> QED BY <2>2, <2>3
<1> QED BY <1>1, <1>2, <1>3

\* What ends in one of A and no B after it has an A last of both, or none of either.
LEMMA FreeBoth ==
  ASSUME NEW q, NEW A, NEW B
  PROVE  Free(q, B) => Free(q, A \union B) \/ Ends(q, A, B)
BY DEF Free, Ends

\* Sequences of none and of one.
LEMMA NoneOrOne ==
  ASSUME NEW M
  PROVE  /\ <<>> \in Seq(M) /\ Len(<<>>) = 0
         /\ \A q \in Seq(M) : q = <<>> <=> Len(q) = 0
         /\ \A e1 \in M : <<e1>> \in Seq(M) /\ Len(<<e1>>) = 1 /\ <<e1>>[1] = e1 /\ <<e1>> # <<>>
OBVIOUS

\* Two of them in a row.
LEMMA OneAndOne ==
  ASSUME NEW M, NEW q \in Seq(M), NEW r \in Seq(M), Len(q) = 1, Len(r) = 1
  PROVE  Len(q \o r) = 2 /\ (q \o r)[1] = q[1] /\ (q \o r)[2] = r[1] /\ q \o r # <<>>
<1>1. Len(q \o r) = Len(q) + Len(r)
  OBVIOUS
<1>2. (q \o r)[1] = q[1] /\ (q \o r)[2] = r[1]
  OBVIOUS
<1>3. q \o r \in Seq(M)
  OBVIOUS
<1> QED BY <1>1, <1>2, <1>3, NoneOrOne

LEMMA NothingEnds ==
  ASSUME NEW A, NEW B
  PROVE  Free(<<>>, B) /\ ~Ends(<<>>, A, B)
BY DEF Free, Ends

-----------------------------------------------------------------------------
(* The death overlay *)

FromField == {"result", "death", "revive", "init_here", "init_elsewhere", "on_cooldown", "error"}

\* While the player lives, and has not been given his life back in silence, the last of what
\* he has heard or will hear of his deaths is that he has been revived.
ShroudInv ==
  /\ fromField \in Seq(FromField) /\ dead \in BOOLEAN /\ cutOff \in BOOLEAN /\ healed \in BOOLEAN
  /\ ~dead /\ ~cutOff /\ ~healed =>
       \/ overlay = "none" /\ Free(fromField, {"death"})
       \/ Ends(fromField, {"revive"}, {"death"})

LEMMA ShroudInitial == Field!Init => ShroudInv
<1> SUFFICES ASSUME Field!Init PROVE ShroudInv
  OBVIOUS
<1>1. fromField = <<>> /\ dead = FALSE /\ cutOff = FALSE /\ healed = FALSE /\ overlay = "none"
  BY DEF Field!Init
<1>2. <<>> \in Seq(FromField) /\ Free(<<>>, {"death"})
  BY NothingEnds
<1> QED BY <1>1, <1>2 DEF ShroudInv

\* What the server does to it, ...
LEMMA ShroudTold ==
  ASSUME ShroudInv, NEW x \in FromField, fromField' = Append(fromField, x), UNCHANGED <<overlay, cutOff>>,
         \/ x # "death" /\ UNCHANGED <<dead, healed>>
         \/ dead' = TRUE /\ UNCHANGED healed
         \/ x = "revive" /\ dead' = FALSE /\ healed' = FALSE
  PROVE  ShroudInv'
<1>1. fromField \in Seq(FromField) /\ fromField' \in Seq(FromField)
  BY DEF ShroudInv
<1>2. x \notin {"death"} /\ Free(fromField, {"death"}) => Free(fromField', {"death"})
  BY <1>1, FreeAppend
<1>3. x \in {"revive"} \/ (Ends(fromField, {"revive"}, {"death"}) /\ x \notin {"death"})
        => Ends(fromField', {"revive"}, {"death"})
  BY <1>1, EndsAppend
<1> QED BY <1>1, <1>2, <1>3 DEF ShroudInv

\* ... and what the client hears.
LEMMA ShroudHeard ==
  ASSUME ShroudInv, fromField # <<>>, fromField' = Tail(fromField), UNCHANGED <<dead, cutOff, healed>>,
         Head(fromField) # "death" => overlay' \in {overlay, "none"},
         Head(fromField) = "revive" => overlay' = "none"
  PROVE  ShroudInv'
<1>1. fromField \in Seq(FromField)
  BY DEF ShroudInv
<1>2. /\ fromField' \in Seq(FromField)
      /\ Free(fromField, {"death"}) => Head(fromField) \notin {"death"} /\ Free(fromField', {"death"})
      /\ Ends(fromField, {"revive"}, {"death"}) =>
           \/ Ends(fromField', {"revive"}, {"death"})
           \/ Head(fromField) \in {"revive"} /\ Free(fromField', {"death"})
  BY <1>1, EndsTail
<1> QED BY <1>2 DEF ShroudInv

\* What changes neither the news of his deaths nor puts the overlay up, and gives nobody
\* his life back in silence.
LEMMA ShroudKept ==
  ASSUME ShroudInv, UNCHANGED <<fromField, cutOff>>, overlay' \in {overlay, "none"},
         dead' \in BOOLEAN, healed' \in BOOLEAN, ~dead' /\ ~healed' => ~dead /\ ~healed
  PROVE  ShroudInv'
BY DEF ShroudInv

LEMMA ShroudStep == ShroudInv /\ [Field!Next]_f => ShroudInv'
<1> SUFFICES ASSUME ShroudInv, [Field!Next]_f PROVE ShroudInv'
  OBVIOUS
<1> USE DEF Field!serverFieldVars, Field!clientFieldVars
<1>a. fromField \in Seq(FromField) /\ dead \in BOOLEAN /\ cutOff \in BOOLEAN /\ healed \in BOOLEAN
  BY DEF ShroudInv
<1>b. \A x \in FromField : fromField \o <<x>> = Append(fromField, x) /\ Append(fromField, x) \in Seq(FromField)
  BY <1>a
<1>0. CASE /\ UNCHANGED <<fromField, cutOff, healed>>
           /\ overlay' = overlay \/ overlay' = "none"
           /\ UNCHANGED dead
  BY <1>0 DEF ShroudInv
<1>1. CASE Field!MonsterAttacks
  <2>1. CASE UNCHANGED dead /\ Field!Tell(<<"result">>)
    <3>1. "result" \in FromField /\ "result" # "death"
      BY DEF FromField
    <3>2. fromField' = Append(fromField, "result")
      BY <1>b, <2>1, <3>1 DEF Field!Tell
    <3> QED BY <1>1, <2>1, <3>1, <3>2, ShroudTold DEF Field!MonsterAttacks
  <2>2. CASE dead' = TRUE /\ Field!Tell(<<"result", "death">>)
    <3>1. "result" \in FromField /\ "death" \in FromField
      BY DEF FromField
    <3>2. fromField' \in Seq(FromField)
      BY <1>a, <2>2, <3>1 DEF Field!Tell
    <3> QED BY <1>1, <2>2, <3>2, <1>a DEF Field!MonsterAttacks, ShroudInv
  <2> QED BY <1>1, <2>1, <2>2 DEF Field!MonsterAttacks
<1>2. CASE Field!TransferPlayer
  <2>1. PICK x \in {"init_here", "init_elsewhere"} : Field!Tell(<<x>>)
    BY <1>2 DEF Field!TransferPlayer
  <2>2. x \in FromField /\ x # "death"
    BY DEF FromField
  <2>3. fromField' = Append(fromField, x)
    BY <1>b, <2>1, <2>2 DEF Field!Tell
  <2> QED BY <1>2, <2>2, <2>3, ShroudTold DEF Field!TransferPlayer
<1>3. CASE Field!HandleAttack
  <2>1. PICK x \in {"on_cooldown", "result", "error"} : Field!Tell(<<x>>)
    BY <1>3 DEF Field!HandleAttack
  <2>2. x \in FromField /\ x # "death"
    BY DEF FromField
  <2>3. fromField' = Append(fromField, x)
    BY <1>b, <2>1, <2>2 DEF Field!Tell
  <2> QED BY <1>3, <2>2, <2>3, ShroudTold DEF Field!HandleAttack
<1>4. CASE Field!HandleReviveRequest
  <2>1. CASE dead
    <3>1. "revive" \in FromField
      BY DEF FromField
    <3>2. fromField' = Append(fromField, "revive") /\ dead' = FALSE /\ healed' = FALSE /\ UNCHANGED <<overlay, cutOff>>
      BY <1>b, <1>4, <2>1, <3>1 DEF Field!HandleReviveRequest, Field!Tell
    <3> QED BY <3>1, <3>2, ShroudTold
  <2>2. CASE ~dead
    BY <1>0, <1>4, <1>a, <2>2 DEF Field!HandleReviveRequest
  <2> QED BY <2>1, <2>2
<1>5. CASE Field!Reconnect
  <2>1. fromField' = <<"init_here">> /\ "init_here" \in FromField
    BY <1>5 DEF Field!Reconnect, FromField
  <2>2. fromField' \in Seq(FromField) /\ Free(fromField', {"death"})
    BY <2>1 DEF Free
  <2>3. UNCHANGED <<overlay, dead, healed>> /\ cutOff' = (cutOff \/ fromField # <<>>)
    BY <1>5 DEF Field!Reconnect
  <2>4. fromField = <<>> => ~Ends(fromField, {"revive"}, {"death"})
    BY NothingEnds
  <2> QED BY <1>a, <2>2, <2>3, <2>4 DEF ShroudInv
<1>6. CASE Field!OnMapInit \/ Field!OnCooldown \/ Field!OnError
  <2>1. /\ fromField # <<>> /\ fromField' = Tail(fromField) /\ UNCHANGED <<dead, cutOff, healed, overlay>>
        /\ Head(fromField) # "revive"
    <3>1. CASE Field!OnMapInit
      BY <3>1 DEF Field!OnMapInit, Field!Heard
    <3>2. CASE Field!OnCooldown \/ Field!OnError
      BY <3>2 DEF Field!OnCooldown, Field!OnError, Field!Heard
    <3> QED BY <1>6, <3>1, <3>2
  <2> QED BY <2>1, ShroudHeard
<1>7. CASE Field!OnPlayerDeath
  BY <1>7, ShroudHeard DEF Field!OnPlayerDeath, Field!Heard
<1>8. CASE Field!OnPlayerRevive
  BY <1>8, ShroudHeard DEF Field!OnPlayerRevive, Field!Heard
<1>9. CASE Field!ClickMonster \/ Field!ClickGround \/ Field!CooldownOver \/ Field!PressR \/ Field!PressA
  <2>1. UNCHANGED <<fromField, cutOff, healed, overlay, dead>>
    BY <1>9 DEF Field!ClickMonster, Field!ClickGround, Field!CooldownOver, Field!PressR, Field!PressA, Field!Acts
  <2> QED BY <1>0, <2>1
<1>10. CASE Field!GcdOver \/ Field!CreateCharacters
  BY <1>0, <1>10 DEF Field!GcdOver, Field!CreateCharacters
<1>12. CASE Field!SetStats
  <2>1. UNCHANGED <<fromField, cutOff, overlay>> /\ dead' \in BOOLEAN
        /\ healed' = (healed \/ (dead /\ ~dead'))
    BY <1>12 DEF Field!SetStats
  <2>2. healed' \in BOOLEAN /\ (~dead' /\ ~healed' => ~dead /\ ~healed)
    BY <1>a, <2>1, Zenon
  <2> QED BY <2>1, <2>2, ShroudKept
<1>13. CASE Field!Terminate
  <2>1. UNCHANGED <<fromField, cutOff, dead>> /\ overlay' = "none"
        /\ healed' = (healed /\ Field!DeathUnderway)
    BY <1>13 DEF Field!Terminate
  <2>2. ~Field!DeathUnderway => Free(fromField, {"death"})
    BY DEF Field!DeathUnderway, Free
  <2>3. healed' \in BOOLEAN
    BY <1>a, <2>1, Zenon
  <2>4. CASE Free(fromField, {"death"})
    BY <1>a, <2>1, <2>3, <2>4 DEF ShroudInv
  <2>5. CASE Field!DeathUnderway
    <3>1. ~dead' /\ ~healed' => ~dead /\ ~healed
      BY <2>1, <2>5
    <3> QED BY <2>1, <2>3, <3>1, ShroudKept, <1>a
  <2> QED BY <2>2, <2>4, <2>5
<1>11. CASE UNCHANGED f
  BY <1>0, <1>11 DEF f
<1> QED BY <1>1, <1>2, <1>3, <1>4, <1>5, <1>6, <1>7, <1>8, <1>9, <1>10, <1>11, <1>12, <1>13
        DEF Field!Next

LEMMA ShroudGone == ShroudInv => Field!NoLastingShroud
BY NothingEnds DEF ShroudInv, Field!NoLastingShroud
-----------------------------------------------------------------------------
(* An NPC and its sprite *)

\* What the server says of it, and of where it is.
OfNpc == [t : {"list", "sync", "page", "locate", "route"}, d : Npc!Data]
Placing == {mg \in OfNpc : mg.t \in {"list", "sync"}}
PlacedAt(col) == {mg \in Placing : mg.d.x = col}
PlacedOff(col) == {mg \in Placing : mg.d.x # col}

NpcTypes ==
  /\ npc \in Npc!Data /\ toView \in Seq(OfNpc)
  /\ onMap \in BOOLEAN /\ stale \in BOOLEAN /\ displaced \in BOOLEAN
  /\ npcContainer \in {"none", "old", "live"} /\ (onMap <=> npcContainer = "live")
  /\ sprite \in NpcSprites \union {NoNpc} /\ initNPCs \in Npc!Data \union {NoNpc}
  /\ pendingNPCs \in Seq(Npc!Data) /\ Len(pendingNPCs) \in {0, 1}

\* Nothing of it is on its way, or the last of it is where the NPC is.
NpcSettled ==
  /\ onMap /\ ~stale => /\ sprite = NoNpc => initNPCs = NoNpc
                        /\ sprite # NoNpc /\ ~displaced => Npc!Goal(sprite) = npc.x
  /\ ~onMap /\ ~stale => /\ pendingNPCs # <<>> => pendingNPCs[1].x = npc.x
                         /\ pendingNPCs = <<>> /\ initNPCs # NoNpc => initNPCs.x = npc.x
NpcFollows ==
  \/ Ends(toView, PlacedAt(npc.x), PlacedOff(npc.x))
  \/ Free(toView, Placing) /\ NpcSettled

NpcInv == NpcTypes /\ NpcFollows /\ Npc!NoOrphans

-----------------------------------------------------------------------------
(* What the sprite's operators make of it *)

LEMMA FreshSprite ==
  ASSUME NEW dat \in Npc!Data
  PROVE  /\ Npc!Fresh(dat) \in NpcSprites /\ Npc!Fresh(dat) # NoNpc
         /\ Npc!Goal(Npc!Fresh(dat)) = dat.x /\ Npc!Fresh(dat).drawn = {}
<1>1. <<>> \in Seq(Npc!Columns) /\ dat.x \in Npc!Columns /\ dat.look \in Npc!Looks
  BY DEF Npc!Data
<1>2. Npc!Fresh(dat) \in NpcSprites
  BY <1>1 DEF Npc!Fresh, NpcSprites
<1> QED BY <1>2, PlayAssumption DEF Npc!Fresh, Npc!Goal, PlayAssumption

LEMMA SyncedSprite ==
  ASSUME NEW sp \in NpcSprites, NEW dat \in Npc!Data
  PROVE  /\ Npc!SyncData(sp, dat) \in NpcSprites /\ Npc!SyncData(sp, dat) # NoNpc
         /\ Npc!Goal(Npc!SyncData(sp, dat)) = dat.x
         /\ Npc!SyncData(sp, dat).drawn = sp.drawn
<1>1. sp.queue \in Seq(Npc!Columns) /\ dat.x \in Npc!Columns /\ sp.x \in Npc!Columns
  BY DEF Npc!Data, NpcSprites
<1>2. /\ Append(sp.queue, dat.x) \in Seq(Npc!Columns) /\ <<>> \in Seq(Npc!Columns)
      /\ Append(sp.queue, dat.x) # <<>>
      /\ Append(sp.queue, dat.x)[Len(Append(sp.queue, dat.x))] = dat.x
  BY <1>1
<1>3. CASE Npc!Far(dat.x, Npc!Goal(sp)) \/ Len(sp.queue) >= QueueMax
  <2>1. Npc!SyncData(sp, dat) = [sp EXCEPT !.data = dat, !.queue = <<>>, !.x = dat.x, !.moving = FALSE]
    BY <1>3 DEF Npc!SyncData
  <2>2. Npc!SyncData(sp, dat) \in NpcSprites
    BY <1>1, <1>2, <2>1 DEF NpcSprites
  <2>3. /\ Npc!SyncData(sp, dat).queue = <<>> /\ Npc!SyncData(sp, dat).x = dat.x
        /\ Npc!SyncData(sp, dat).drawn = sp.drawn
    BY <2>1 DEF NpcSprites
  <2> QED BY <2>2, <2>3, PlayAssumption DEF Npc!Goal, PlayAssumption
<1>4. CASE ~(Npc!Far(dat.x, Npc!Goal(sp)) \/ Len(sp.queue) >= QueueMax)
  <2> DEFINE later == IF dat.x # Npc!Goal(sp) THEN Append(sp.queue, dat.x) ELSE sp.queue
  <2>1. Npc!SyncData(sp, dat) = [sp EXCEPT !.data = dat, !.queue = later]
    BY <1>4 DEF Npc!SyncData
  <2>2. later \in Seq(Npc!Columns)
    BY <1>1, <1>2
  <2>3. (IF later = <<>> THEN sp.x ELSE later[Len(later)]) = dat.x
    BY <1>2 DEF Npc!Goal
  <2> HIDE DEF later
  <2>4. Npc!SyncData(sp, dat) \in NpcSprites
    BY <2>1, <2>2 DEF NpcSprites
  <2>5. /\ Npc!SyncData(sp, dat).queue = later /\ Npc!SyncData(sp, dat).x = sp.x
        /\ Npc!SyncData(sp, dat).drawn = sp.drawn
    BY <2>1 DEF NpcSprites
  <2> QED BY <2>3, <2>4, <2>5, PlayAssumption DEF Npc!Goal, PlayAssumption
<1> QED BY <1>3, <1>4

\* A change of what does not place it.
LEMMA SameGoal ==
  ASSUME NEW sp, NEW sq, sq.queue = sp.queue, sq.x = sp.x
  PROVE  Npc!Goal(sq) = Npc!Goal(sp)
BY DEF Npc!Goal

LEMMA PagedSprite ==
  ASSUME NEW sp \in NpcSprites, NEW dat \in Npc!Data
  PROVE  /\ Npc!PageChange(sp, dat) \in NpcSprites /\ Npc!PageChange(sp, dat) # NoNpc
         /\ Npc!Goal(Npc!PageChange(sp, dat)) = Npc!Goal(sp)
         /\ Npc!PageChange(sp, dat).look = dat.look
         /\ Npc!PageChange(sp, dat).drawn = IF dat.look = sp.look THEN sp.drawn ELSE sp.drawn \ {"label"}
<1>1. dat.look \in Npc!Looks
  BY DEF Npc!Data
<1>2. Npc!PageChange(sp, dat) \in NpcSprites
  BY <1>1 DEF Npc!PageChange, NpcSprites
<1>3. /\ Npc!PageChange(sp, dat).queue = sp.queue /\ Npc!PageChange(sp, dat).x = sp.x
      /\ Npc!PageChange(sp, dat).look = dat.look
      /\ Npc!PageChange(sp, dat).drawn = IF dat.look = sp.look THEN sp.drawn ELSE sp.drawn \ {"label"}
  BY DEF Npc!PageChange, NpcSprites
<1> QED BY <1>2, <1>3, SameGoal, PlayAssumption DEF PlayAssumption
-----------------------------------------------------------------------------
(* What is said of it *)

\* Something that does not place it, ...
LEMMA NpcOtherwise ==
  ASSUME NEW q \in Seq(OfNpc), NEW mg \in OfNpc, mg \notin Placing, NEW col
  PROVE  /\ Append(q, mg) \in Seq(OfNpc)
         /\ Ends(q, PlacedAt(col), PlacedOff(col)) => Ends(Append(q, mg), PlacedAt(col), PlacedOff(col))
         /\ Free(q, Placing) => Free(Append(q, mg), Placing)
<1>1. mg \notin PlacedOff(col)
  BY DEF PlacedOff
<1> QED BY <1>1, FreeAppend, EndsAppend

\* ... something that does, ...
LEMMA NpcPlaced ==
  ASSUME NEW q \in Seq(OfNpc), NEW mg \in Placing
  PROVE  Append(q, mg) \in Seq(OfNpc) /\ Ends(Append(q, mg), PlacedAt(mg.d.x), PlacedOff(mg.d.x))
<1>1. mg \in OfNpc /\ mg \in PlacedAt(mg.d.x)
  BY DEF Placing, PlacedAt
<1> QED BY <1>1, FreeAppend, EndsAppend

\* ... and what is heard of it.
LEMMA NpcHeard ==
  ASSUME NEW q \in Seq(OfNpc), q # <<>>, NEW col,
         Ends(q, PlacedAt(col), PlacedOff(col)) \/ Free(q, Placing)
  PROVE  /\ Head(q) \in OfNpc /\ Tail(q) \in Seq(OfNpc)
         /\ \/ Ends(Tail(q), PlacedAt(col), PlacedOff(col))
            \/ Free(Tail(q), Placing) /\ Head(q) \in PlacedAt(col)
            \/ Free(q, Placing) /\ Free(Tail(q), Placing) /\ Head(q) \notin Placing
<1>1. /\ Head(q) \in OfNpc /\ Tail(q) \in Seq(OfNpc)
      /\ Free(q, Placing) => Head(q) \notin Placing /\ Free(Tail(q), Placing)
      /\ Ends(q, PlacedAt(col), PlacedOff(col)) =>
           \/ Ends(Tail(q), PlacedAt(col), PlacedOff(col))
           \/ Head(q) \in PlacedAt(col) /\ Free(Tail(q), PlacedOff(col))
  BY EndsTail
<1>2. PlacedAt(col) \union PlacedOff(col) = Placing
  BY DEF PlacedAt, PlacedOff, Placing
<1>3. Free(Tail(q), PlacedOff(col)) =>
        Free(Tail(q), Placing) \/ Ends(Tail(q), PlacedAt(col), PlacedOff(col))
  BY <1>2, FreeBoth
<1> QED BY <1>1, <1>3

-----------------------------------------------------------------------------

LEMMA NpcInitial == Npc!Init => NpcInv
<1> SUFFICES ASSUME Npc!Init PROVE NpcInv
  OBVIOUS
<1>1. /\ npc \in Npc!Data /\ npc.x = 0
  <2>1. PICK look \in {"tagged", "plain"} : npc = [x |-> 0, look |-> look]
    BY DEF Npc!Init
  <2>2. 0 \in Npc!Columns
    BY PlayAssumption DEF PlayAssumption, Npc!Columns
  <2> QED BY <2>1, <2>2 DEF Npc!Data, Npc!Looks
<1>2. /\ onMap = FALSE /\ npcContainer = "none" /\ sprite = NoNpc /\ initNPCs = NoNpc
      /\ pendingNPCs = <<>> /\ stale = FALSE /\ displaced = FALSE
      /\ toView = <<[t |-> "list", d |-> npc]>>
  BY DEF Npc!Init
<1>3. /\ toView = Append(<<>>, [t |-> "list", d |-> npc]) /\ <<>> \in Seq(OfNpc)
      /\ <<>> \in Seq(Npc!Data) /\ Len(pendingNPCs) = 0
  BY <1>2, NoneOrOne
<1>4. [t |-> "list", d |-> npc] \in Placing /\ [t |-> "list", d |-> npc].d.x = npc.x
  BY <1>1 DEF Placing, OfNpc
<1>5. toView \in Seq(OfNpc) /\ Ends(toView, PlacedAt(npc.x), PlacedOff(npc.x))
  BY <1>3, <1>4, NpcPlaced
<1>6. NpcTypes
  <2>1. /\ initNPCs \in Npc!Data \union {NoNpc} /\ sprite \in NpcSprites \union {NoNpc}
        /\ npcContainer \in {"none", "old", "live"} /\ (onMap <=> npcContainer = "live")
        /\ onMap \in BOOLEAN /\ stale \in BOOLEAN /\ displaced \in BOOLEAN
    BY <1>2
  <2>2. pendingNPCs \in Seq(Npc!Data) /\ Len(pendingNPCs) \in {0, 1}
    BY <1>2, <1>3
  <2> QED BY <1>1, <1>5, <2>1, <2>2 DEF NpcTypes
<1> QED BY <1>2, <1>5, <1>6 DEF NpcInv, NpcFollows, Npc!NoOrphans

\* The server's part: what it says is put at the end.
LEMMA NpcTold ==
  ASSUME NpcInv, NEW mg \in OfNpc, toView' = Append(toView, mg), npc' \in Npc!Data,
         UNCHANGED <<onMap, npcContainer, initNPCs, pendingNPCs, sprite, nodes, stale, displaced>>,
         \/ mg \in Placing /\ mg.d.x = npc'.x
         \/ mg \notin Placing /\ npc'.x = npc.x
  PROVE  NpcInv'
<1>1. toView \in Seq(OfNpc)
  BY DEF NpcInv, NpcTypes
<1>2. CASE mg \in Placing /\ mg.d.x = npc'.x
  <2>1. toView' \in Seq(OfNpc) /\ Ends(toView', PlacedAt(npc'.x), PlacedOff(npc'.x))
    BY <1>1, <1>2, NpcPlaced
  <2> QED BY <2>1 DEF NpcInv, NpcTypes, NpcFollows, Npc!NoOrphans, PlacedAt, PlacedOff
<1>3. CASE mg \notin Placing /\ npc'.x = npc.x
  <2>1. /\ toView' \in Seq(OfNpc)
        /\ Ends(toView, PlacedAt(npc.x), PlacedOff(npc.x)) => Ends(toView', PlacedAt(npc.x), PlacedOff(npc.x))
        /\ Free(toView, Placing) => Free(toView', Placing)
    BY <1>1, <1>3, NpcOtherwise
  <2>2. NpcSettled => NpcSettled'
    BY <1>3 DEF NpcSettled, Npc!Goal
  <2>3. NpcFollows' 
    BY <1>3, <2>1, <2>2 DEF NpcInv, NpcFollows, PlacedAt, PlacedOff
  <2> QED BY <2>1, <2>3 DEF NpcInv, NpcTypes, Npc!NoOrphans
<1> QED BY <1>2, <1>3

\* What happens on the map without a word.
LEMMA NpcAlone ==
  ASSUME NpcInv, UNCHANGED <<npc, toView>>, NpcTypes', NpcSettled => NpcSettled', Npc!NoOrphans'
  PROVE  NpcInv'
BY DEF NpcInv, NpcFollows, PlacedAt, PlacedOff

\* A message that is heard, with what comes of the sprite and the saved lists.
LEMMA NpcListens ==
  ASSUME NpcInv, toView # <<>>, toView' = Tail(toView), UNCHANGED npc,
         Head(toView) \in OfNpc =>
           /\ NpcTypes' \/ toView' \notin Seq(OfNpc)
           /\ Npc!NoOrphans'
           /\ Head(toView) \in PlacedAt(npc.x) => NpcSettled'
           /\ Head(toView) \notin Placing /\ NpcSettled => NpcSettled'
  PROVE  NpcInv'
<1>1. toView \in Seq(OfNpc) /\ NpcFollows
  BY DEF NpcInv, NpcTypes
<1>2. /\ Head(toView) \in OfNpc /\ toView' \in Seq(OfNpc)
      /\ \/ Ends(toView', PlacedAt(npc.x), PlacedOff(npc.x))
         \/ Free(toView', Placing) /\ Head(toView) \in PlacedAt(npc.x)
         \/ Free(toView, Placing) /\ Free(toView', Placing) /\ Head(toView) \notin Placing
  BY <1>1, NpcHeard DEF NpcFollows
<1>3. NpcTypes' /\ Npc!NoOrphans'
  BY <1>2
<1>4. Free(toView, Placing) /\ ~Ends(toView, PlacedAt(npc.x), PlacedOff(npc.x)) => NpcSettled
  BY <1>1 DEF NpcFollows
<1>5. Free(toView, Placing) => ~Ends(toView, PlacedAt(npc.x), PlacedOff(npc.x))
  BY DEF Free, Ends, PlacedAt
<1>6. NpcFollows'
  BY <1>2, <1>4, <1>5 DEF NpcFollows, PlacedAt, PlacedOff
<1> QED BY <1>3, <1>6 DEF NpcInv
LEMMA NpcServerStep ==
  ASSUME NpcInv, Npc!ServerMoves \/ Npc!ServerTurnsPage \/ Npc!ServerSends
  PROVE  NpcInv'
<1> USE DEF Npc!managerVars
<1>a. npc \in Npc!Data
  BY DEF NpcInv, NpcTypes
<1>1. CASE Npc!ServerMoves
  <2>1. PICK col \in Npc!Columns :
          /\ npc' = [npc EXCEPT !.x = col]
          /\ toView' = Append(toView, [t |-> "sync", d |-> [x |-> col, look |-> "none"]])
    BY <1>1 DEF Npc!ServerMoves
  <2>2. npc' \in Npc!Data /\ npc'.x = col
    BY <1>a, <2>1 DEF Npc!Data
  <2> DEFINE mg == [t |-> "sync", d |-> [x |-> col, look |-> "none"]]
  <2>3. mg \in OfNpc /\ mg \in Placing /\ mg.d.x = npc'.x
    BY <2>2 DEF OfNpc, Placing, Npc!Data, Npc!Looks
  <2>4. toView' = Append(toView, mg)
    BY <2>1
  <2> HIDE DEF mg
  <2> QED BY <1>1, <2>2, <2>3, <2>4, NpcTold DEF Npc!ServerMoves
<1>2. CASE Npc!ServerTurnsPage
  <2>1. PICK look \in Npc!Looks :
          npc' = [npc EXCEPT !.look = look] /\ toView' = Append(toView, [t |-> "page", d |-> npc'])
    BY <1>2 DEF Npc!ServerTurnsPage
  <2>2. npc' \in Npc!Data /\ npc'.x = npc.x
    BY <1>a, <2>1 DEF Npc!Data
  <2> DEFINE mg == [t |-> "page", d |-> npc']
  <2>3. mg \in OfNpc /\ mg \notin Placing
    BY <2>2 DEF OfNpc, Placing
  <2>4. toView' = Append(toView, mg)
    BY <2>1
  <2> HIDE DEF mg
  <2> QED BY <1>2, <2>2, <2>3, <2>4, NpcTold DEF Npc!ServerTurnsPage
<1>3. CASE Npc!ServerSends
  <2>1. PICK kind \in {"list", "locate", "route"} : toView' = Append(toView, [t |-> kind, d |-> npc])
    BY <1>3 DEF Npc!ServerSends
  <2> DEFINE mg == [t |-> kind, d |-> npc]
  <2>2. mg \in OfNpc /\ (mg \in Placing => mg.d.x = npc.x)
    BY <1>a DEF OfNpc, Placing
  <2>3. toView' = Append(toView, mg) /\ npc' = npc
    BY <1>3, <2>1 DEF Npc!ServerSends
  <2> HIDE DEF mg
  <2> QED BY <1>3, <1>a, <2>2, <2>3, NpcTold DEF Npc!ServerSends
<1> QED BY <1>1, <1>2, <1>3

\* The sprite by itself.
LEMMA NpcSpriteStep ==
  ASSUME NpcInv, \/ Npc!Walk \/ Npc!DrawIcon \/ Npc!DrawLabel \/ Npc!RouteStep \/ Npc!RouteOver
  PROVE  NpcInv'
<1> USE DEF Npc!managerVars, Npc!npcVars
<1>a. /\ NpcTypes /\ Npc!NoOrphans /\ sprite \in NpcSprites /\ sprite # NoNpc /\ onMap
      /\ UNCHANGED <<npc, toView, onMap, npcContainer, initNPCs, pendingNPCs, stale>>
  BY DEF NpcInv, NpcTypes, Npc!Walk, Npc!DrawIcon, Npc!DrawLabel, Npc!RouteStep, Npc!RouteOver
<1>b. /\ sprite.queue \in Seq(Npc!Columns) /\ sprite.x \in Npc!Columns
      /\ sprite.drawn \subseteq {"icon", "label"}
  BY <1>a DEF NpcSprites
<1>c. \A sp \in NpcSprites : sp # NoNpc
  BY PlayAssumption DEF PlayAssumption
\* It is enough to see what becomes of the sprite.
<1>d. ASSUME sprite' \in NpcSprites, displaced' \in BOOLEAN,
             nodes' = {"body"} \union sprite'.drawn,
             displaced' = TRUE \/ (Npc!Goal(sprite') = Npc!Goal(sprite) /\ UNCHANGED displaced)
      PROVE  NpcInv'
  <2>1. NpcTypes' /\ Npc!NoOrphans'
    BY <1>a, <1>c, <1>d DEF NpcTypes, Npc!NoOrphans
  <2>2. NpcSettled => NpcSettled'
    BY <1>a, <1>c, <1>d DEF NpcSettled
  <2> QED BY <1>a, <2>1, <2>2, NpcAlone
<1>e. nodes = {"body"} \union sprite.drawn
  BY <1>a DEF Npc!NoOrphans
<1>f. displaced \in BOOLEAN
  BY <1>a DEF NpcTypes
<1>1. CASE Npc!Walk
  <2>0. UNCHANGED <<nodes, displaced>>
    BY <1>1 DEF Npc!Walk
  <2>1. CASE sprite.moving
    <3>1. sprite' = [sprite EXCEPT !.moving = FALSE]
      BY <1>1, <2>1 DEF Npc!Walk
    <3>2. sprite' \in NpcSprites /\ sprite'.queue = sprite.queue /\ sprite'.x = sprite.x
          /\ sprite'.drawn = sprite.drawn
      BY <1>a, <3>1 DEF NpcSprites
    <3> QED BY <1>d, <1>e, <1>f, <2>0, <3>2, SameGoal
  <2>2. CASE ~sprite.moving
    <3>1. /\ sprite.queue # <<>>
          /\ sprite' = [sprite EXCEPT !.x = Head(sprite.queue), !.queue = Tail(sprite.queue),
                                      !.moving = Head(sprite.queue) # sprite.x]
      BY <1>1, <2>2 DEF Npc!Walk
    <3>2. /\ Head(sprite.queue) \in Npc!Columns /\ Tail(sprite.queue) \in Seq(Npc!Columns)
          /\ Len(sprite.queue) \in Nat /\ Len(sprite.queue) > 0
          /\ Len(Tail(sprite.queue)) = Len(sprite.queue) - 1
          /\ Head(sprite.queue) = sprite.queue[1]
          /\ \A k \in 1..Len(sprite.queue) - 1 : Tail(sprite.queue)[k] = sprite.queue[k + 1]
      BY <1>b, <3>1
    <3>3. /\ sprite' \in NpcSprites /\ sprite'.queue = Tail(sprite.queue)
          /\ sprite'.x = Head(sprite.queue) /\ sprite'.drawn = sprite.drawn
      BY <1>a, <3>1, <3>2 DEF NpcSprites
    <3>4. Npc!Goal(sprite') = Npc!Goal(sprite)
      <4>1. Npc!Goal(sprite) = sprite.queue[Len(sprite.queue)]
        BY <3>1 DEF Npc!Goal
      <4>2. CASE Tail(sprite.queue) = <<>>
        <5>0. Len(Tail(sprite.queue)) = 0
          BY <3>2, <4>2, NoneOrOne
        <5>1. Len(sprite.queue) = 1
          BY <3>2, <5>0
        <5>2. Npc!Goal(sprite') = sprite.queue[1]
          BY <3>2, <3>3, <4>2 DEF Npc!Goal
        <5> QED BY <4>1, <5>1, <5>2
      <4>3. CASE Tail(sprite.queue) # <<>>
        <5>1. Npc!Goal(sprite') = Tail(sprite.queue)[Len(Tail(sprite.queue))]
          BY <3>3, <4>3 DEF Npc!Goal
        <5>2. Len(Tail(sprite.queue)) > 0
          BY <3>2, <4>3
        <5>3. Tail(sprite.queue)[Len(sprite.queue) - 1] = sprite.queue[Len(sprite.queue)]
          BY <3>2, <5>2
        <5> QED BY <3>2, <4>1, <5>1, <5>3
      <4> QED BY <4>2, <4>3
    <3> QED BY <1>d, <1>e, <1>f, <2>0, <3>3, <3>4
  <2> QED BY <2>1, <2>2
<1>2. CASE Npc!DrawIcon \/ Npc!DrawLabel
  <2>1. PICK part0 \in {"icon", "label"} :
          \/ sprite' = [sprite EXCEPT !.drawn = @ \cup {part0}] /\ nodes' = nodes \cup {part0}
          \/ sprite' = [sprite EXCEPT !.drawn = @ \ {part0}] /\ nodes' = nodes \ {part0}
    BY <1>2 DEF Npc!DrawIcon, Npc!DrawLabel
  <2>2. UNCHANGED displaced
    BY <1>2 DEF Npc!DrawIcon, Npc!DrawLabel
  <2>0. sprite.drawn \cup {part0} \in SUBSET {"icon", "label"} /\ sprite.drawn \ {part0} \in SUBSET {"icon", "label"}
    BY <1>b
  <2>3. /\ sprite' \in NpcSprites /\ sprite'.queue = sprite.queue /\ sprite'.x = sprite.x
        /\ \/ sprite'.drawn = sprite.drawn \cup {part0} /\ nodes' = nodes \cup {part0}
           \/ sprite'.drawn = sprite.drawn \ {part0} /\ nodes' = nodes \ {part0}
    BY <1>a, <2>0, <2>1 DEF NpcSprites
  <2>4. nodes' = {"body"} \union sprite'.drawn
    BY <1>e, <2>3
  <2> QED BY <1>d, <1>f, <2>2, <2>3, <2>4, SameGoal
<1>3. CASE Npc!RouteStep
  <2>1. PICK col \in Npc!Columns : sprite' = [sprite EXCEPT !.x = col, !.moving = col # sprite.x]
    BY <1>3 DEF Npc!RouteStep
  <2>2. sprite' \in NpcSprites /\ sprite'.drawn = sprite.drawn
    BY <1>a, <2>1 DEF NpcSprites
  <2>3. displaced' = TRUE /\ nodes' = nodes
    BY <1>3 DEF Npc!RouteStep
  <2> QED BY <1>d, <1>e, <2>2, <2>3
<1>4. CASE Npc!RouteOver
  <2>1. sprite' = [sprite EXCEPT !.route = FALSE] /\ UNCHANGED <<nodes, displaced>>
    BY <1>4 DEF Npc!RouteOver
  <2>2. /\ sprite' \in NpcSprites /\ sprite'.queue = sprite.queue /\ sprite'.x = sprite.x
        /\ sprite'.drawn = sprite.drawn
    BY <1>a, <2>1 DEF NpcSprites
  <2> QED BY <1>d, <1>e, <1>f, <2>1, <2>2, SameGoal
<1> QED BY <1>1, <1>2, <1>3, <1>4
\* The client hears of it.
LEMMA NpcListenStep ==
  ASSUME NpcInv, \/ Npc!Populate \/ Npc!Sync \/ Npc!Page \/ Npc!Locate \/ Npc!StartRoute
  PROVE  NpcInv'
<1> USE DEF Npc!managerVars, Npc!npcVars, Npc!Live
<1>a. /\ NpcTypes /\ Npc!NoOrphans /\ toView # <<>> /\ toView' = Tail(toView) /\ UNCHANGED npc
      /\ UNCHANGED <<onMap, npcContainer>>
  BY DEF NpcInv, Npc!Populate, Npc!Sync, Npc!Page, Npc!Locate, Npc!StartRoute, Npc!Heard
<1>b. \A sp \in NpcSprites : sp # NoNpc
  BY PlayAssumption DEF PlayAssumption
<1>c. \A dat \in Npc!Data : dat # NoNpc
  BY PlayAssumption DEF PlayAssumption
<1> DEFINE dat == Head(toView).d
<1> SUFFICES ASSUME Head(toView) \in OfNpc
             PROVE  /\ NpcTypes' \/ toView' \notin Seq(OfNpc)
                    /\ Npc!NoOrphans'
                    /\ Head(toView) \in PlacedAt(npc.x) => NpcSettled'
                    /\ Head(toView) \notin Placing /\ NpcSettled => NpcSettled'
  BY <1>a, NpcListens
<1>d. dat \in Npc!Data
  BY DEF OfNpc
<1>e. Head(toView) \in PlacedAt(npc.x) => dat.x = npc.x
  BY DEF PlacedAt
<1>f. Head(toView) \notin Placing <=> Head(toView).t \notin {"list", "sync"}
  BY DEF Placing
<1> HIDE DEF dat
<1>1. CASE Npc!Populate
  <2>1. /\ initNPCs' = dat /\ stale' = FALSE /\ displaced' = FALSE /\ Head(toView).t = "list"
        /\ IF npcContainer = "none"
           THEN sprite' = NoNpc /\ pendingNPCs' = <<dat>> /\ nodes' = Npc!Cleared
           ELSE /\ sprite' = Npc!Fresh(dat) /\ pendingNPCs' = <<>>
                /\ nodes' = Npc!Cleared \cup (IF Npc!Live THEN {"body"} ELSE {})
    BY <1>1 DEF Npc!Populate, Npc!Heard, dat
  <2>2. Npc!Fresh(dat) \in NpcSprites /\ Npc!Goal(Npc!Fresh(dat)) = dat.x /\ Npc!Fresh(dat).drawn = {}
    BY <1>d, FreshSprite
  <2>3. /\ <<dat>> \in Seq(Npc!Data) /\ <<>> \in Seq(Npc!Data) /\ Len(<<dat>>) = 1 /\ <<dat>>[1] = dat
        /\ Len(<<>>) = 0 /\ <<dat>> # <<>>
    BY <1>d, NoneOrOne
  <2>4. NpcTypes' \/ toView' \notin Seq(OfNpc)
    <3>1. sprite' \in NpcSprites \union {NoNpc} /\ initNPCs' \in Npc!Data \union {NoNpc}
      BY <1>d, <2>1, <2>2
    <3>2. pendingNPCs' \in Seq(Npc!Data) /\ Len(pendingNPCs') \in {0, 1}
      BY <2>1, <2>3
    <3> QED BY <1>a, <2>1, <3>1, <3>2 DEF NpcTypes
  <2>5. Npc!NoOrphans'
    BY <1>a, <1>b, <2>1, <2>2 DEF NpcTypes, Npc!NoOrphans, Npc!Cleared
  <2>6. dat.x = npc.x => NpcSettled'
    BY <1>a, <1>b, <1>c, <1>d, <2>1, <2>2, <2>3 DEF NpcTypes, NpcSettled
  <2> QED BY <1>e, <1>f, <2>1, <2>4, <2>5, <2>6
<1>2. CASE Npc!Sync
  <2>1. /\ sprite' = (IF sprite = NoNpc THEN NoNpc ELSE Npc!SyncData(sprite, dat))
        /\ stale' = (IF sprite # NoNpc /\ Npc!Live THEN FALSE ELSE TRUE)
        /\ displaced' = (displaced /\ sprite # NoNpc /\ sprite.route)
        /\ UNCHANGED <<nodes, initNPCs, pendingNPCs>> /\ Head(toView).t = "sync"
    BY <1>2 DEF Npc!Sync, Npc!Heard, dat
  <2>2. sprite # NoNpc => /\ Npc!SyncData(sprite, dat) \in NpcSprites
                          /\ Npc!Goal(Npc!SyncData(sprite, dat)) = dat.x
                          /\ Npc!SyncData(sprite, dat).drawn = sprite.drawn
    <3> SUFFICES ASSUME sprite # NoNpc
                 PROVE  /\ Npc!SyncData(sprite, dat) \in NpcSprites
                        /\ Npc!Goal(Npc!SyncData(sprite, dat)) = dat.x
                        /\ Npc!SyncData(sprite, dat).drawn = sprite.drawn
      OBVIOUS
    <3>1. sprite \in NpcSprites
      BY <1>a DEF NpcTypes
    <3> QED BY <1>d, <3>1, SyncedSprite
  <2>3. displaced' \in BOOLEAN /\ stale' \in BOOLEAN
    BY <2>1
  <2>4. NpcTypes' \/ toView' \notin Seq(OfNpc)
    BY <1>a, <2>1, <2>2, <2>3 DEF NpcTypes
  <2>5. Npc!NoOrphans'
    BY <1>a, <1>b, <2>1, <2>2 DEF Npc!NoOrphans
  <2>6. dat.x = npc.x => NpcSettled'
    BY <1>a, <1>b, <2>1, <2>2 DEF NpcTypes, NpcSettled
  <2> QED BY <1>e, <1>f, <2>1, <2>4, <2>5, <2>6
<1>3. CASE Npc!Page
  <2>1. /\ sprite' = (IF sprite = NoNpc THEN NoNpc ELSE Npc!PageChange(sprite, dat))
        /\ nodes' = (IF sprite # NoNpc /\ Npc!Live /\ sprite'.look # sprite.look
                     THEN nodes \ {"label"} ELSE nodes)
        /\ UNCHANGED <<initNPCs, pendingNPCs, stale, displaced>> /\ Head(toView).t = "page"
    BY <1>3 DEF Npc!Page, Npc!Heard, dat
  <2>2. sprite # NoNpc =>
          /\ Npc!PageChange(sprite, dat) \in NpcSprites
          /\ Npc!Goal(Npc!PageChange(sprite, dat)) = Npc!Goal(sprite)
          /\ Npc!PageChange(sprite, dat).look = dat.look
          /\ Npc!PageChange(sprite, dat).drawn = IF dat.look = sprite.look THEN sprite.drawn
                                                 ELSE sprite.drawn \ {"label"}
    <3>1. sprite # NoNpc => sprite \in NpcSprites
      BY <1>a DEF NpcTypes
    <3> QED BY <1>d, <3>1, PagedSprite
  <2>3. NpcTypes' \/ toView' \notin Seq(OfNpc)
    BY <1>a, <2>1, <2>2 DEF NpcTypes
  <2>4. Npc!NoOrphans'
    BY <1>a, <1>b, <2>1, <2>2 DEF NpcTypes, Npc!NoOrphans
  <2>5. NpcSettled => NpcSettled'
    BY <1>a, <1>b, <2>1, <2>2 DEF NpcTypes, NpcSettled
  <2> QED BY <1>f, <2>1, <2>3, <2>4, <2>5 DEF PlacedAt
<1>4. CASE Npc!Locate \/ Npc!StartRoute
  <2>1. /\ displaced' = TRUE /\ Head(toView).t \in {"locate", "route"}
        /\ UNCHANGED <<nodes, initNPCs, pendingNPCs, stale>>
    BY <1>4 DEF Npc!Locate, Npc!StartRoute, Npc!Heard
  <2>2. \/ sprite = NoNpc /\ sprite' = NoNpc
        \/ sprite # NoNpc /\ sprite' \in NpcSprites /\ sprite'.drawn = sprite.drawn
    <3>1. CASE sprite = NoNpc
      BY <1>4, <3>1 DEF Npc!Locate, Npc!StartRoute
    <3>2. CASE sprite # NoNpc /\ Npc!Locate
      <4>1. PICK col \in Npc!Columns : sprite' = [sprite EXCEPT !.x = col, !.moving = FALSE]
        BY <3>2 DEF Npc!Locate
      <4>2. sprite \in NpcSprites
        BY <1>a, <3>2 DEF NpcTypes
      <4> QED BY <3>2, <4>1, <4>2 DEF NpcSprites
    <3>3. CASE sprite # NoNpc /\ Npc!StartRoute
      <4>1. sprite' = [sprite EXCEPT !.route = TRUE, !.through = TRUE]
        BY <3>3 DEF Npc!StartRoute
      <4>2. sprite \in NpcSprites
        BY <1>a, <3>3 DEF NpcTypes
      <4> QED BY <3>3, <4>1, <4>2 DEF NpcSprites
    <3> QED BY <1>4, <3>1, <3>2, <3>3
  <2>3. NpcTypes' \/ toView' \notin Seq(OfNpc)
    BY <1>a, <2>1, <2>2 DEF NpcTypes
  <2>4. Npc!NoOrphans'
    BY <1>a, <1>b, <2>1, <2>2 DEF Npc!NoOrphans
  <2>5. NpcSettled => NpcSettled'
    BY <1>a, <1>b, <2>1, <2>2 DEF NpcTypes, NpcSettled
  <2> QED BY <1>f, <2>1, <2>3, <2>4, <2>5 DEF PlacedAt
<1> QED BY <1>1, <1>2, <1>3, <1>4
\* Scenes and connections come and go.
LEMMA NpcSceneStep ==
  ASSUME NpcInv, Npc!CreateCharacters \/ Npc!Terminate \/ Npc!Disconnected
  PROVE  NpcInv'
<1> USE DEF Npc!npcVars, Npc!Live
<1>a. NpcTypes /\ Npc!NoOrphans
  BY DEF NpcInv
<1>b. \A sp \in NpcSprites : sp # NoNpc
  BY PlayAssumption DEF PlayAssumption
<1>c. \A dat \in Npc!Data : dat # NoNpc
  BY PlayAssumption DEF PlayAssumption
<1>d. <<>> \in Seq(Npc!Data) /\ Len(<<>>) = 0
  BY NoneOrOne
<1>1. CASE Npc!CreateCharacters
  <2> DEFINE list0 == (IF initNPCs = NoNpc THEN <<>> ELSE <<initNPCs>>) \o pendingNPCs
  <2>1. /\ ~onMap /\ onMap' = TRUE /\ npcContainer' = "live" /\ sprite' = Npc!Added(list0)
        /\ nodes' = (IF list0 = <<>> THEN {} ELSE {"body"})
        /\ initNPCs' = NoNpc /\ pendingNPCs' = <<>> /\ displaced' = FALSE
        /\ UNCHANGED <<npc, toView, stale>>
    BY <1>1 DEF Npc!CreateCharacters
  <2>2. /\ pendingNPCs \in Seq(Npc!Data) /\ Len(pendingNPCs) \in {0, 1}
        /\ initNPCs # NoNpc => initNPCs \in Npc!Data
    BY <1>a DEF NpcTypes
  <2> DEFINE found == \/ list0 = <<>> /\ sprite' = NoNpc
                      \/ /\ list0 # <<>> /\ sprite' \in NpcSprites /\ sprite'.drawn = {}
                         /\ Npc!Goal(sprite') = list0[Len(list0)].x
  <2>3. /\ found
        /\ pendingNPCs = <<>> /\ initNPCs = NoNpc => list0 = <<>>
        /\ pendingNPCs # <<>> => list0 # <<>> /\ list0[Len(list0)] = pendingNPCs[1]
        /\ pendingNPCs = <<>> /\ initNPCs # NoNpc => list0 # <<>> /\ list0[Len(list0)] = initNPCs
    <3>1. CASE initNPCs = NoNpc /\ Len(pendingNPCs) = 0
      <4>1. list0 = <<>> /\ pendingNPCs = <<>> /\ Len(list0) = 0
        BY <2>2, <3>1
      <4>2. sprite' = NoNpc
        BY <2>1, <4>1 DEF Npc!Added
      <4> QED BY <3>1, <4>1, <4>2
    <3>2. CASE initNPCs = NoNpc /\ Len(pendingNPCs) = 1
      <4>1. /\ list0 = pendingNPCs /\ Len(list0) = 1 /\ list0[1] \in Npc!Data /\ list0 # <<>>
        BY <2>2, <3>2
      <4> HIDE DEF list0
      <4>2. sprite' = Npc!Fresh(list0[1])
        BY <2>1, <4>1 DEF Npc!Added
      <4>3. sprite' \in NpcSprites /\ sprite'.drawn = {} /\ Npc!Goal(sprite') = list0[1].x
        BY <4>1, <4>2, FreshSprite
      <4> QED BY <3>2, <4>1, <4>3
    <3>3. CASE initNPCs # NoNpc /\ Len(pendingNPCs) = 0
      <4>1. list0 = <<initNPCs>> /\ Len(list0) = 1 /\ list0[1] = initNPCs /\ list0 # <<>>
            /\ pendingNPCs = <<>>
        BY <2>2, <3>3
      <4> HIDE DEF list0
      <4>2. sprite' = Npc!Fresh(initNPCs)
        BY <2>1, <4>1 DEF Npc!Added
      <4>3. sprite' \in NpcSprites /\ sprite'.drawn = {} /\ Npc!Goal(sprite') = initNPCs.x
        BY <2>2, <3>3, <4>2, FreshSprite
      <4> QED BY <3>3, <4>1, <4>3
    <3>4. CASE initNPCs # NoNpc /\ Len(pendingNPCs) = 1
      <4>0. /\ <<initNPCs>> \in Seq(Npc!Data) /\ Len(<<initNPCs>>) = 1 /\ <<initNPCs>>[1] = initNPCs
            /\ pendingNPCs[1] \in Npc!Data /\ pendingNPCs # <<>>
        BY <2>2, <3>4, NoneOrOne
      <4>a. list0 = <<initNPCs>> \o pendingNPCs
        BY <3>4
      <4>1. /\ Len(list0) = 2 /\ list0[1] = initNPCs /\ list0[2] = pendingNPCs[1] /\ list0 # <<>>
        BY <2>2, <3>4, <4>0, <4>a, OneAndOne
      <4> HIDE DEF list0
      <4>2. sprite' = Npc!SyncData(Npc!Fresh(initNPCs), pendingNPCs[1])
        BY <2>1, <4>1 DEF Npc!Added
      <4>3. Npc!Fresh(initNPCs) \in NpcSprites /\ Npc!Fresh(initNPCs).drawn = {}
        BY <2>2, <3>4, FreshSprite
      <4>4. sprite' \in NpcSprites /\ sprite'.drawn = {} /\ Npc!Goal(sprite') = pendingNPCs[1].x
        BY <4>0, <4>2, <4>3, SyncedSprite
      <4> QED BY <3>4, <4>0, <4>1, <4>4
    <3> QED BY <2>2, <3>1, <3>2, <3>3, <3>4
  <2> HIDE DEF list0
  <2>4. NpcTypes'
    <3>1. sprite' \in NpcSprites \union {NoNpc}
      BY <2>3
    <3> QED BY <1>a, <1>d, <2>1, <3>1 DEF NpcTypes
  <2>5. Npc!NoOrphans'
    BY <1>b, <2>1, <2>3 DEF Npc!NoOrphans
  <2>6. NpcSettled => NpcSettled'
    BY <1>b, <2>1, <2>2, <2>3 DEF NpcSettled
  <2> QED BY <2>1, <2>4, <2>5, <2>6, NpcAlone
<1>2. CASE Npc!Terminate
  <2>1. /\ onMap /\ onMap' = FALSE /\ npcContainer' = "old"
        /\ initNPCs' = (IF initNPCs # NoNpc \/ sprite = NoNpc THEN initNPCs
                        ELSE [sprite.data EXCEPT !.x = sprite.x])
        /\ pendingNPCs' = <<>> /\ sprite' = NoNpc /\ nodes' = {}
        /\ stale' = (stale \/ sprite # NoNpc) /\ UNCHANGED <<npc, toView, displaced>>
    BY <1>2 DEF Npc!Terminate
  <2>2. initNPCs' \in Npc!Data \union {NoNpc}
    <3>1. CASE initNPCs # NoNpc \/ sprite = NoNpc
      BY <1>a, <2>1, <3>1 DEF NpcTypes
    <3>2. CASE ~(initNPCs # NoNpc \/ sprite = NoNpc)
      <4>1. sprite.data \in Npc!Data /\ sprite.x \in Npc!Columns
        BY <1>a, <3>2 DEF NpcTypes, NpcSprites
      <4>2. [sprite.data EXCEPT !.x = sprite.x] \in Npc!Data
        BY <4>1 DEF Npc!Data
      <4> QED BY <2>1, <3>2, <4>2
    <3> QED BY <3>1, <3>2
  <2>3. NpcTypes'
    <3>1. stale' \in BOOLEAN
      BY <2>1
    <3> QED BY <1>a, <1>d, <2>1, <2>2, <3>1 DEF NpcTypes
  <2>4. Npc!NoOrphans'
    BY <2>1 DEF Npc!NoOrphans
  <2>5. NpcSettled => NpcSettled'
    BY <2>1 DEF NpcSettled
  <2> QED BY <2>1, <2>3, <2>4, <2>5, NpcAlone
<1>3. CASE Npc!Disconnected
  <2>1. /\ toView' = <<[t |-> "list", d |-> npc]>> /\ sprite' = NoNpc /\ nodes' = Npc!Cleared
        /\ pendingNPCs' = <<>> /\ UNCHANGED <<npc, onMap, npcContainer, initNPCs, stale, displaced>>
    BY <1>3 DEF Npc!Disconnected
  <2> DEFINE mg == [t |-> "list", d |-> npc]
  <2>2. mg \in Placing /\ mg.d.x = npc.x
    BY <1>a DEF NpcTypes, Placing, OfNpc
  <2>3. toView' = Append(<<>>, mg) /\ <<>> \in Seq(OfNpc)
    BY <2>1
  <2> HIDE DEF mg
  <2>4. toView' \in Seq(OfNpc) /\ Ends(toView', PlacedAt(npc.x), PlacedOff(npc.x))
    BY <2>2, <2>3, NpcPlaced
  <2>5. NpcTypes'
    BY <1>a, <1>d, <2>1, <2>4 DEF NpcTypes
  <2>6. Npc!NoOrphans'
    BY <1>a, <2>1 DEF NpcTypes, Npc!NoOrphans, Npc!Cleared
  <2> QED BY <2>1, <2>4, <2>5, <2>6 DEF NpcInv, NpcFollows, PlacedAt, PlacedOff
<1> QED BY <1>1, <1>2, <1>3

LEMMA NpcStep == NpcInv /\ [Npc!Next]_n => NpcInv'
<1>1. NpcInv /\ UNCHANGED n => NpcInv'
  BY DEF n, NpcInv, NpcTypes, NpcFollows, NpcSettled, Npc!NoOrphans, Npc!Goal, PlacedAt, PlacedOff
<1> QED BY <1>1, NpcServerStep, NpcSpriteStep, NpcListenStep, NpcSceneStep DEF Npc!Next

LEMMA NpcShown == NpcInv => Npc!Follows /\ Npc!NoOrphans
BY NothingEnds DEF NpcInv, NpcFollows, NpcSettled, Npc!Follows
-----------------------------------------------------------------------------
(* The dots of the minimap *)

MiniNews ==
  [t : {"map_init"}, map : Maps, tile : Mini!Doors]
    \union [t : {"npc_sync"}, npc : Npcs, tile : Mini!Paths] \union [t : {"locate"}, tile : Mini!Doors]
MapInits == {mg \in MiniNews : mg.t = "map_init"}
StepsOf(c) == {mg \in MiniNews : mg.t = "npc_sync" /\ mg.npc = c}
StepsTo(c, tl) == {mg \in StepsOf(c) : mg.tile = tl}
Dots == [npc : Npcs, tile : Mini!Paths]

\* Every dot is where its NPC is, and there is one of each.
DotRight(c) == minimap # NoMinimap =>
  \A k \in 1..Len(minimap.dots) : minimap.dots[k].npc = c => minimap.dots[k].tile = npcTiles[c]
OneDot(dots) == \A k, j \in 1..Len(dots) : dots[k].npc = dots[j].npc => k = j

\* Nothing says where an NPC is, or the last that does is right: its step, or the map_init that
\* drops the dots.
DotSettled(c) ==
  \/ Ends(toMinimap, MapInits, StepsOf(c))
  \/ Ends(toMinimap, StepsTo(c, npcTiles[c]), StepsOf(c))
  \/ Free(toMinimap, StepsOf(c) \union MapInits) /\ DotRight(c)
MiniInv ==
  /\ roomAt \in Maps /\ npcTiles \in [Npcs -> {<<0, 0>>} \union Mini!Paths] /\ told \in BOOLEAN
  /\ toMinimap \in Seq(MiniNews)
  /\ minimap # NoMinimap =>
       /\ minimap \in [cached : {minimap.cached}, land : {minimap.land}, dots : Seq(Dots)]
       /\ OneDot(minimap.dots)
  /\ told => \A c \in Npcs : DotSettled(c)

-----------------------------------------------------------------------------
(* The dot of an NPC *)

\* The first of some numbers.
LEMMA FirstOf ==
  ASSUME NEW S \in SUBSET Nat, S # {}
  PROVE  Mini!Min(S) \in S /\ Floor!Min(S) \in S
<1>1. \E j \in S : \A k \in S : ~(<<k, j>> \in OpToRel(<, Nat))
  BY NatLessThanWellFounded, WFMin, Zenon
<1>2. PICK j \in S : \A k \in S : ~(<<k, j>> \in OpToRel(<, Nat))
  BY <1>1, Zenon
<1>3. ASSUME NEW k \in S PROVE j <= k
  <2>1. <<k, j>> \notin {z \in Nat \X Nat : z[1] < z[2]}
    BY <1>2, Zenon DEF OpToRel
  <2>2. k \in Nat /\ j \in Nat /\ <<k, j>>[1] = k /\ <<k, j>>[2] = j
    OBVIOUS
  <2> QED BY <2>1, <2>2
<1> QED BY <1>3 DEF Mini!Min, Floor!Min

LEMMA DotMoved ==
  ASSUME NEW dots \in Seq(Dots), OneDot(dots), NEW c \in Npcs, NEW tl \in Mini!Paths
  PROVE  /\ Mini!UpdateNPC(dots, c, tl) \in Seq(Dots) /\ OneDot(Mini!UpdateNPC(dots, c, tl))
         /\ \A k \in 1..Len(Mini!UpdateNPC(dots, c, tl)) :
              LET dt == Mini!UpdateNPC(dots, c, tl)[k] IN
              \/ dt.npc = c /\ dt.tile = tl
              \/ dt.npc # c /\ k \in 1..Len(dots) /\ dt = dots[k]
<1> DEFINE I == {k \in 1..Len(dots) : dots[k].npc = c}
           i == IF I # {} THEN Mini!Min(I) ELSE 0
           upd == Mini!UpdateNPC(dots, c, tl)
<1>1. upd = IF i # 0 THEN [dots EXCEPT ![i].tile = tl] ELSE Append(dots, [npc |-> c, tile |-> tl])
  BY DEF Mini!UpdateNPC, Mini!SelectInSeq
<1>2. i \in I \/ (I = {} /\ i = 0)
  <2>1. I \in SUBSET Nat
    OBVIOUS
  <2> HIDE DEF I
  <2> QED BY <2>1, FirstOf
<1>3. I \subseteq 1..Len(dots) /\ \A k \in 1..Len(dots) : k \in I <=> dots[k].npc = c
  OBVIOUS
<1>4. [npc |-> c, tile |-> tl] \in Dots
  BY DEF Dots
<1> HIDE DEF i, I, upd
<1>5. CASE i \in I
  <2>1. i \in 1..Len(dots) /\ dots[i] \in Dots /\ dots[i].npc = c /\ i # 0
    BY <1>3, <1>5
  <2>2. upd = [dots EXCEPT ![i] = [dots[i] EXCEPT !.tile = tl]]
    BY <1>1, <2>1
  <2>3. [dots[i] EXCEPT !.tile = tl] \in Dots /\ [dots[i] EXCEPT !.tile = tl].npc = c
        /\ [dots[i] EXCEPT !.tile = tl].tile = tl
    BY <2>1 DEF Dots
  <2>4. upd \in Seq(Dots) /\ Len(upd) = Len(dots) /\ upd[i].npc = c /\ upd[i].tile = tl
        /\ \A k \in 1..Len(dots) : k # i => upd[k] = dots[k]
    BY <2>1, <2>2, <2>3
  <2>5. \A k \in 1..Len(dots) : upd[k].npc = dots[k].npc
    BY <2>1, <2>4
  <2>6. OneDot(upd)
    BY <2>4, <2>5 DEF OneDot
  <2>7. ASSUME NEW k \in 1..Len(upd)
        PROVE  \/ upd[k].npc = c /\ upd[k].tile = tl
               \/ upd[k].npc # c /\ k \in 1..Len(dots) /\ upd[k] = dots[k]
    <3>1. CASE k = i
      BY <2>4, <3>1
    <3>2. CASE k # i
      BY <2>1, <2>4, <3>2 DEF OneDot
    <3> QED BY <3>1, <3>2
  <2> QED BY <2>4, <2>6, <2>7 DEF upd
<1>6. CASE I = {} /\ i = 0
  <2>1. upd = Append(dots, [npc |-> c, tile |-> tl])
    BY <1>1, <1>6
  <2>2. \A k \in 1..Len(dots) : dots[k].npc # c
    BY <1>3, <1>6
  <2>3. /\ upd \in Seq(Dots) /\ Len(upd) = Len(dots) + 1 /\ Len(dots) \in Nat
        /\ upd[Len(dots) + 1] = [npc |-> c, tile |-> tl]
        /\ \A k \in 1..Len(dots) : upd[k] = dots[k]
    BY <1>4, <2>1
  <2>4. OneDot(upd)
    BY <2>2, <2>3 DEF OneDot
  <2>5. ASSUME NEW k \in 1..Len(upd)
        PROVE  \/ upd[k].npc = c /\ upd[k].tile = tl
               \/ upd[k].npc # c /\ k \in 1..Len(dots) /\ upd[k] = dots[k]
    <3>1. k = Len(dots) + 1 \/ k \in 1..Len(dots)
      BY <2>3
    <3> QED BY <2>2, <2>3, <3>1
  <2> QED BY <2>3, <2>4, <2>5 DEF upd
<1> QED BY <1>2, <1>5, <1>6

LEMMA MiniInitial == Mini!Init => MiniInv
<1> SUFFICES ASSUME Mini!Init PROVE MiniInv
  OBVIOUS
<1>1. /\ roomAt = 1 /\ npcTiles = [c \in Npcs |-> <<0, 0>>] /\ told = FALSE /\ toMinimap = <<>>
      /\ minimap = [cached |-> NoMap, land |-> {}, dots |-> <<>>]
  BY DEF Mini!Init, Mini!Fresh
<1>2. npcTiles \in [Npcs -> {<<0, 0>>} \union Mini!Paths]
  BY <1>1
<1>5. toMinimap \in Seq(MiniNews)
  BY <1>1, NoneOrOne
<1>6. 1 \in Maps
  BY PlayAssumption DEF PlayAssumption
<1>3. minimap \in [cached : {minimap.cached}, land : {minimap.land}, dots : Seq(Dots)]
  BY <1>1, NoneOrOne
<1>4. OneDot(minimap.dots)
  <2>1. Len(minimap.dots) = 0
    BY <1>1, NoneOrOne
  <2> QED BY <2>1 DEF OneDot
<1> QED BY <1>1, <1>2, <1>3, <1>4, <1>5, <1>6 DEF MiniInv

\* What is said that is not about this NPC, and what is heard.
LEMMA MiniTold ==
  ASSUME MiniInv, NEW msg \in MiniNews, toMinimap' = Append(toMinimap, msg), UNCHANGED minimap,
         NEW c \in Npcs, npcTiles'[c] = npcTiles[c], DotSettled(c), msg \notin MapInits \union StepsOf(c)
  PROVE  DotSettled(c)'
<1>1. toMinimap \in Seq(MiniNews)
  BY DEF MiniInv
<1>2. DotRight(c)' <=> DotRight(c)
  BY DEF DotRight
<1>3. Ends(toMinimap, MapInits, StepsOf(c)) => Ends(toMinimap', MapInits, StepsOf(c))
  BY <1>1, EndsAppend
<1>4. Ends(toMinimap, StepsTo(c, npcTiles[c]), StepsOf(c))
        => Ends(toMinimap', StepsTo(c, npcTiles[c]), StepsOf(c))
  BY <1>1, EndsAppend
<1>5. Free(toMinimap, StepsOf(c) \union MapInits) => Free(toMinimap', StepsOf(c) \union MapInits)
  BY <1>1, FreeAppend
<1> QED BY <1>2, <1>3, <1>4, <1>5 DEF DotSettled

LEMMA MiniHeard ==
  ASSUME MiniInv, toMinimap # <<>>, toMinimap' = Tail(toMinimap), UNCHANGED npcTiles,
         NEW c \in Npcs, DotSettled(c),
         Head(toMinimap) \in MapInits \union StepsTo(c, npcTiles[c]) => DotRight(c)',
         Head(toMinimap) \notin MapInits \union StepsOf(c) /\ DotRight(c) => DotRight(c)'
  PROVE  DotSettled(c)'
<1> DEFINE S == StepsOf(c)
           T == StepsTo(c, npcTiles[c])
<1>1. toMinimap \in Seq(MiniNews)
  BY DEF MiniInv
<1>2. /\ Ends(toMinimap, MapInits, S) =>
           Ends(toMinimap', MapInits, S) \/ (Head(toMinimap) \in MapInits /\ Free(toMinimap', S))
      /\ Ends(toMinimap, T, S) => Ends(toMinimap', T, S) \/ (Head(toMinimap) \in T /\ Free(toMinimap', S))
      /\ Free(toMinimap, S \union MapInits) =>
           Head(toMinimap) \notin S \union MapInits /\ Free(toMinimap', S \union MapInits)
  BY <1>1, EndsTail
<1>3. Free(toMinimap', S) => Free(toMinimap', MapInits \union S) \/ Ends(toMinimap', MapInits, S)
  BY FreeBoth
<1>4. S \union MapInits = MapInits \union S
  OBVIOUS
<1>5. DotSettled(c) <=> \/ Ends(toMinimap, MapInits, S)
                        \/ Ends(toMinimap, T, S)
                        \/ Free(toMinimap, S \union MapInits) /\ DotRight(c)
  BY DEF DotSettled
<1>6. DotSettled(c)' <=> \/ Ends(toMinimap', MapInits, S)
                         \/ Ends(toMinimap', T, S)
                         \/ Free(toMinimap', S \union MapInits) /\ DotRight(c)'
  BY DEF DotSettled
<1> HIDE DEF S, T
<1> QED BY <1>2, <1>3, <1>4, <1>5, <1>6 DEF S, T

LEMMA MiniServerStep ==
  ASSUME MiniInv,
         \/ \E mp \in Maps : Mini!EnterRoom(mp)
         \/ \E tl \in Mini!Doors : Mini!SendMapInit(tl) \/ Mini!Relocate(tl)
         \/ \E c \in Npcs : Mini!NpcSteps(c)
  PROVE  MiniInv'
<1> USE DEF Mini!roomVars, Mini!playerVars
<1>a. /\ roomAt \in Maps /\ npcTiles \in [Npcs -> {<<0, 0>>} \union Mini!Paths] /\ told \in BOOLEAN
      /\ toMinimap \in Seq(MiniNews)
      /\ told => \A c \in Npcs : DotSettled(c)
  BY DEF MiniInv
<1>b. minimap' = minimap =>
        (minimap # NoMinimap =>
           /\ minimap \in [cached : {minimap.cached}, land : {minimap.land}, dots : Seq(Dots)]
           /\ OneDot(minimap.dots))'
  BY DEF MiniInv
<1>1. ASSUME NEW mp \in Maps, Mini!EnterRoom(mp) PROVE MiniInv'
  <2>1. roomAt' \in Maps /\ npcTiles' \in [Npcs -> {<<0, 0>>} \union Mini!Paths] /\ told' = FALSE
        /\ toMinimap' = toMinimap /\ minimap' = minimap
    BY <1>1 DEF Mini!EnterRoom
  <2> QED BY <1>a, <1>b, <2>1 DEF MiniInv
<1>2. ASSUME NEW tl \in Mini!Doors, Mini!SendMapInit(tl) PROVE MiniInv'
  <2> DEFINE msg == [t |-> "map_init", map |-> roomAt, tile |-> tl]
  <2>1. msg \in MiniNews /\ msg \in MapInits /\ \A c \in Npcs : msg \notin StepsOf(c)
    BY <1>a DEF MiniNews, MapInits, StepsOf
  <2>2. toMinimap' = Append(toMinimap, msg) /\ told' = TRUE /\ UNCHANGED <<roomAt, npcTiles, minimap>>
    BY <1>2 DEF Mini!SendMapInit, Mini!Tell
  <2> HIDE DEF msg
  <2>3. toMinimap' \in Seq(MiniNews)
    BY <1>a, <2>1, <2>2
  <2>4. ASSUME NEW c \in Npcs PROVE DotSettled(c)'
    BY <1>a, <2>1, <2>2, EndsAppend DEF DotSettled
  <2> QED BY <1>a, <1>b, <2>2, <2>3, <2>4 DEF MiniInv
<1>3. ASSUME NEW tl \in Mini!Doors, Mini!Relocate(tl) PROVE MiniInv'
  <2> DEFINE msg == [t |-> "locate", tile |-> tl]
  <2>1. msg \in MiniNews /\ msg \notin MapInits /\ \A c \in Npcs : msg \notin StepsOf(c)
    BY <1>a DEF MiniNews, MapInits, StepsOf
  <2>2. toMinimap' = Append(toMinimap, msg) /\ told' = told /\ UNCHANGED <<roomAt, npcTiles, minimap>>
    BY <1>3 DEF Mini!Relocate, Mini!Tell
  <2> HIDE DEF msg
  <2>3. toMinimap' \in Seq(MiniNews)
    BY <1>a, <2>1, <2>2
  <2>4. ASSUME told, NEW c \in Npcs PROVE DotSettled(c)'
    <3>1. DotSettled(c) /\ npcTiles'[c] = npcTiles[c]
      BY <1>a, <2>2, <2>4
    <3> QED BY <2>1, <2>2, <3>1, MiniTold
  <2> QED BY <1>a, <1>b, <2>2, <2>3, <2>4 DEF MiniInv
<1>4. ASSUME NEW s1 \in Npcs, Mini!NpcSteps(s1) PROVE MiniInv'
  <2>1. PICK tl \in Mini!Paths :
          /\ npcTiles' = [npcTiles EXCEPT ![s1] = tl]
          /\ Mini!Tell([t |-> "npc_sync", npc |-> s1, tile |-> tl])
    BY <1>4 DEF Mini!NpcSteps
  <2> DEFINE msg == [t |-> "npc_sync", npc |-> s1, tile |-> tl]
  <2>2. /\ msg \in MiniNews /\ msg \notin MapInits /\ msg \in StepsTo(s1, tl)
        /\ \A c \in Npcs : c # s1 => msg \notin StepsOf(c)
    BY DEF MiniNews, MapInits, StepsOf, StepsTo
  <2>3. toMinimap' = Append(toMinimap, msg) /\ UNCHANGED <<roomAt, told, minimap>>
    BY <1>4, <2>1 DEF Mini!NpcSteps, Mini!Tell
  <2> HIDE DEF msg
  <2>4. toMinimap' \in Seq(MiniNews)
    BY <1>a, <2>2, <2>3
  <2>5. /\ npcTiles' \in [Npcs -> {<<0, 0>>} \union Mini!Paths] /\ npcTiles'[s1] = tl
        /\ \A c \in Npcs : c # s1 => npcTiles'[c] = npcTiles[c]
    BY <1>a, <2>1
  <2>6. ASSUME told, NEW c \in Npcs PROVE DotSettled(c)'
    <3>1. CASE c = s1
      <4>1. Ends(toMinimap', StepsTo(s1, tl), StepsOf(s1))
        BY <1>a, <2>2, <2>3, EndsAppend
      <4> QED BY <2>5, <3>1, <4>1 DEF DotSettled
    <3>2. CASE c # s1
      <4>1. DotSettled(c) /\ npcTiles'[c] = npcTiles[c] /\ msg \notin MapInits \union StepsOf(c)
        BY <1>a, <2>2, <2>5, <2>6, <3>2
      <4> QED BY <2>2, <2>3, <4>1, MiniTold
    <3> QED BY <3>1, <3>2
  <2> QED BY <1>a, <1>b, <2>3, <2>4, <2>5, <2>6 DEF MiniInv
<1> QED BY <1>1, <1>2, <1>3, <1>4

LEMMA MiniHearStep ==
  ASSUME MiniInv, Mini!Hear
  PROVE  MiniInv'
<1> USE DEF Mini!roomVars, Mini!playerVars
<1>a. /\ roomAt \in Maps /\ npcTiles \in [Npcs -> {<<0, 0>>} \union Mini!Paths] /\ told \in BOOLEAN
      /\ toMinimap \in Seq(MiniNews)
      /\ minimap # NoMinimap =>
           /\ minimap \in [cached : {minimap.cached}, land : {minimap.land}, dots : Seq(Dots)]
           /\ OneDot(minimap.dots)
      /\ told => \A c \in Npcs : DotSettled(c)
  BY DEF MiniInv
<1>b. /\ toMinimap # <<>> /\ toMinimap' = Tail(toMinimap) /\ UNCHANGED <<roomAt, npcTiles, told>>
      /\ Head(toMinimap) \in MiniNews /\ toMinimap' \in Seq(MiniNews)
  <2>1. toMinimap # <<>> /\ toMinimap' = Tail(toMinimap) /\ UNCHANGED <<roomAt, npcTiles, told>>
    BY DEF Mini!Hear
  <2>2. Head(toMinimap) \in MiniNews /\ Tail(toMinimap) \in Seq(MiniNews)
    BY <1>a, <2>1, EndsTail
  <2> QED BY <2>1, <2>2
<1>c. SUFFICES /\ (minimap # NoMinimap =>
                    /\ minimap \in [cached : {minimap.cached}, land : {minimap.land}, dots : Seq(Dots)]
                    /\ OneDot(minimap.dots))'
               /\ \A c \in Npcs :
                    /\ Head(toMinimap) \in MapInits \union StepsTo(c, npcTiles[c]) => DotRight(c)'
                    /\ Head(toMinimap) \notin MapInits \union StepsOf(c) /\ DotRight(c) => DotRight(c)'
  <2>1. ASSUME told', NEW c \in Npcs,
               Head(toMinimap) \in MapInits \union StepsTo(c, npcTiles[c]) => DotRight(c)',
               Head(toMinimap) \notin MapInits \union StepsOf(c) /\ DotRight(c) => DotRight(c)'
        PROVE  DotSettled(c)'
    <3>1. DotSettled(c)
      BY <1>a, <1>b, <2>1
    <3> QED BY <1>b, <2>1, <3>1, MiniHeard
  <2> QED BY <1>a, <1>b, <2>1 DEF MiniInv
<1>1. CASE Mini!HearMapInit(Head(toMinimap))
  <2>1. CASE minimap = NoMinimap
    <3>1. minimap' = NoMinimap
      BY <1>1, <2>1 DEF Mini!HearMapInit
    <3> QED BY <3>1 DEF DotRight
  <2>2. CASE minimap # NoMinimap
    <3>1. minimap' = [minimap EXCEPT !.cached = NoMap, !.dots = <<>>]
      BY <1>1, <2>2 DEF Mini!HearMapInit
    <3>2. minimap' = [cached |-> NoMap, land |-> minimap.land, dots |-> <<>>]
      BY <1>a, <2>2, <3>1
    <3>3. /\ minimap'.cached = NoMap /\ minimap'.land = minimap.land /\ minimap'.dots = <<>>
      BY <3>2
    <3>4. minimap' \in [cached : {minimap'.cached}, land : {minimap'.land}, dots : Seq(Dots)]
      BY <3>2, <3>3
    <3>5. OneDot(minimap'.dots) /\ \A c \in Npcs : DotRight(c)'
      BY <3>3 DEF OneDot, DotRight
    <3> QED BY <3>4, <3>5
  <2> QED BY <2>1, <2>2
<1>2. CASE Mini!HearNpcSync(Head(toMinimap))
  <2>1. CASE minimap = NoMinimap
    <3>1. minimap' = NoMinimap
      BY <1>2, <2>1 DEF Mini!HearNpcSync
    <3> QED BY <3>1 DEF DotRight
  <2>2. CASE minimap # NoMinimap
    <3>1. PICK s1 \in Npcs, tl \in Mini!Paths : Head(toMinimap) = [t |-> "npc_sync", npc |-> s1, tile |-> tl]
      BY <1>2, <1>b DEF Mini!HearNpcSync, MiniNews
    <3> DEFINE upd == Mini!UpdateNPC(minimap.dots, s1, tl)
    <3>2. minimap' = [minimap EXCEPT !.dots = upd]
      BY <1>2, <2>2, <3>1 DEF Mini!HearNpcSync
    <3>3. minimap.dots \in Seq(Dots) /\ OneDot(minimap.dots)
      BY <1>a, <2>2
    <3>4. /\ upd \in Seq(Dots) /\ OneDot(upd)
          /\ \A k \in 1..Len(upd) : \/ upd[k].npc = s1 /\ upd[k].tile = tl
                                    \/ upd[k].npc # s1 /\ k \in 1..Len(minimap.dots) /\ upd[k] = minimap.dots[k]
      BY <3>3, DotMoved
    <3> HIDE DEF upd
    <3>5. minimap' = [cached |-> minimap.cached, land |-> minimap.land, dots |-> upd]
      BY <1>a, <2>2, <3>2
    <3>6. minimap'.cached = minimap.cached /\ minimap'.land = minimap.land /\ minimap'.dots = upd
      BY <3>5
    <3>7. minimap' \in [cached : {minimap'.cached}, land : {minimap'.land}, dots : Seq(Dots)]
      BY <3>4, <3>5, <3>6
    <3>8. OneDot(minimap'.dots)
      BY <3>4, <3>6
    <3>9. ASSUME NEW c \in Npcs
          PROVE  /\ Head(toMinimap) \in MapInits \union StepsTo(c, npcTiles[c]) => DotRight(c)'
                 /\ Head(toMinimap) \notin MapInits \union StepsOf(c) /\ DotRight(c) => DotRight(c)'
      <4>1. Head(toMinimap) \notin MapInits /\ (Head(toMinimap) \in StepsOf(c) <=> c = s1)
            /\ (Head(toMinimap) \in StepsTo(c, npcTiles[c]) => c = s1 /\ npcTiles[c] = tl)
        BY <1>b, <3>1 DEF MapInits, StepsOf, StepsTo
      <4>2. ASSUME c = s1, npcTiles[c] = tl PROVE DotRight(c)'
        BY <1>b, <3>4, <3>6, <4>2 DEF DotRight
      <4>3. ASSUME c # s1, DotRight(c) PROVE DotRight(c)'
        BY <1>b, <2>2, <3>4, <3>6, <4>3 DEF DotRight
      <4> QED BY <4>1, <4>2, <4>3
    <3> QED BY <3>7, <3>8, <3>9
  <2> QED BY <2>1, <2>2
<1>3. CASE Mini!HearLocate(Head(toMinimap))
  <2>1. minimap' = minimap /\ Head(toMinimap).t = "locate"
    BY <1>3 DEF Mini!HearLocate
  <2>2. \A c \in Npcs : Head(toMinimap) \notin MapInits \union StepsTo(c, npcTiles[c])
    BY <2>1 DEF MapInits, StepsOf, StepsTo
  <2>3. \A c \in Npcs : DotRight(c)' <=> DotRight(c)
    BY <1>b, <2>1 DEF DotRight
  <2> QED BY <1>a, <2>1, <2>2, <2>3
<1> QED BY <1>1, <1>2, <1>3 DEF Mini!Hear

\* A step that says and hears nothing, and leaves the dots or drops them.
LEMMA MiniAlone ==
  ASSUME MiniInv, UNCHANGED <<roomAt, npcTiles, told, toMinimap>>,
         (minimap # NoMinimap =>
            minimap \in [cached : {minimap.cached}, land : {minimap.land}, dots : Seq(Dots)])',
         minimap' # NoMinimap => \/ minimap # NoMinimap /\ minimap'.dots = minimap.dots
                                 \/ minimap'.dots = <<>>
  PROVE  MiniInv'
<1>1. ASSUME NEW c \in Npcs, DotRight(c) PROVE DotRight(c)'
  BY <1>1 DEF DotRight
<1>2. minimap' # NoMinimap => OneDot(minimap'.dots)
  BY DEF MiniInv, OneDot
<1>3. ASSUME NEW c \in Npcs, DotSettled(c) PROVE DotSettled(c)'
  BY <1>1, <1>3 DEF DotSettled
<1> QED BY <1>2, <1>3 DEF MiniInv

LEMMA MiniStep == MiniInv /\ [Mini!Next]_m => MiniInv'
<1> SUFFICES ASSUME MiniInv, [Mini!Next]_m PROVE MiniInv'
  OBVIOUS
<1> USE DEF Mini!roomVars, Mini!playerVars
<1>a. minimap # NoMinimap => minimap \in [cached : {minimap.cached}, land : {minimap.land}, dots : Seq(Dots)]
  BY DEF MiniInv
<1>1. CASE \/ \E mp \in Maps : Mini!EnterRoom(mp)
           \/ \E tl \in Mini!Doors : Mini!SendMapInit(tl) \/ Mini!Relocate(tl)
           \/ \E c \in Npcs : Mini!NpcSteps(c)
  BY <1>1, MiniServerStep
<1>2. CASE Mini!Hear
  BY <1>2, MiniHearStep
<1>3. CASE Mini!Refresh
  <2>1. UNCHANGED <<roomAt, npcTiles, told, toMinimap>> /\ minimap # NoMinimap
    BY <1>3 DEF Mini!Refresh
  <2>2. PICK nm, nl : minimap' = [minimap EXCEPT !.cached = nm, !.land = nl] \/ minimap' = minimap
    BY <1>3 DEF Mini!Refresh
  <2>3. CASE minimap' = [minimap EXCEPT !.cached = nm, !.land = nl]
    <3>1. minimap' = [cached |-> nm, land |-> nl, dots |-> minimap.dots] /\ minimap.dots \in Seq(Dots)
      BY <1>a, <2>1, <2>3
    <3>2. minimap'.cached = nm /\ minimap'.land = nl /\ minimap'.dots = minimap.dots
      BY <3>1
    <3>3. minimap' \in [cached : {minimap'.cached}, land : {minimap'.land}, dots : Seq(Dots)]
      BY <3>1, <3>2
    <3> QED BY <2>1, <3>2, <3>3, MiniAlone
  <2>4. CASE minimap' = minimap
    BY <1>a, <2>1, <2>4, MiniAlone
  <2> QED BY <2>2, <2>3, <2>4
<1>4. CASE (\E tl \in Mini!Tiles : Mini!Walk(tl)) \/ UNCHANGED m
  <2>1. UNCHANGED <<roomAt, npcTiles, told, toMinimap, minimap>>
    BY <1>4 DEF Mini!Walk, m
  <2> QED BY <1>a, <2>1, MiniAlone
<1>5. CASE Mini!LeaveMap
  <2>1. UNCHANGED <<roomAt, npcTiles, told, toMinimap>> /\ minimap' = NoMinimap
    BY <1>5 DEF Mini!LeaveMap
  <2> QED BY <2>1, MiniAlone
<1>6. CASE Mini!CreateAllWindows
  <2>1. UNCHANGED <<roomAt, npcTiles, told, toMinimap>> /\ minimap' = [cached |-> NoMap, land |-> {}, dots |-> <<>>]
    BY <1>6 DEF Mini!CreateAllWindows, Mini!Fresh
  <2>2. minimap' \in [cached : {minimap'.cached}, land : {minimap'.land}, dots : Seq(Dots)] /\ minimap'.dots = <<>>
    BY <2>1
  <2> QED BY <2>1, <2>2, MiniAlone
<1> QED BY <1>1, <1>2, <1>3, <1>4, <1>5, <1>6 DEF Mini!Next

LEMMA DotsShown == MiniInv => Mini!DotsTrue
<1> SUFFICES ASSUME MiniInv, toMinimap = <<>>, told, minimap # NoMinimap PROVE
      \A k \in DOMAIN minimap.dots :
        /\ minimap.dots[k].tile = npcTiles[minimap.dots[k].npc]
        /\ \A j \in DOMAIN minimap.dots : minimap.dots[k].npc = minimap.dots[j].npc => k = j
  BY DEF Mini!DotsTrue
<1>1. minimap.dots \in Seq(Dots) /\ OneDot(minimap.dots) /\ \A c \in Npcs : DotSettled(c)
  BY DEF MiniInv
<1>2. \A c \in Npcs : DotRight(c)
  BY <1>1, NothingEnds DEF DotSettled
<1>3. ASSUME NEW k \in 1..Len(minimap.dots) PROVE minimap.dots[k].npc \in Npcs
  <2>1. minimap.dots[k] \in Dots
    BY <1>1, <1>3
  <2> QED BY <2>1 DEF Dots
<1>4. DOMAIN minimap.dots = 1..Len(minimap.dots)
  BY <1>1
<1> QED BY <1>1, <1>2, <1>3, <1>4 DEF DotRight, OneDot

-----------------------------------------------------------------------------
(* The other players *)

\* What the room says of who is there: what brings a player onto the map, what takes him away.
OfPeers ==
  [t : {"join", "leave", "sync"}, c : Others] \union [t : {"init", "shared"}, cs : SUBSET Others]
    \union [t : {"instance"}]
Mentions(x) ==
  {mg \in OfPeers : (mg.t = "join" /\ mg.c = x) \/ (mg.t \in {"init", "shared"} /\ x \in mg.cs)}
Removes(x) ==
  {mg \in OfPeers : (mg.t = "leave" /\ mg.c = x) \/ (mg.t \in {"init", "shared"} /\ x \notin mg.cs)}

\* Whom the client knows of: on the map, saved for the next scene or before the first.
Saved == IF initPlayers = NoList THEN {} ELSE DOMAIN initPlayers
HeldPeers == DOMAIN sprites \union DOMAIN pendingPlayers \union Saved

\* Who is not in the room is known of no more, or will not be when all has been heard.
PeersTypes ==
  /\ room \subseteq Others /\ unannounced \subseteq room /\ snapshot \subseteq Others
  /\ toMap \in Seq(OfPeers) /\ strayed \in BOOLEAN /\ HeldPeers \subseteq Others
  /\ mine \in {"out", "added", "taken", "in", "instance"}
Absent(x) ==
  \/ Free(toMap, Mentions(x)) /\ x \notin HeldPeers
  \/ Ends(toMap, Removes(x), Mentions(x))
PeersInv ==
  /\ PeersTypes
  /\ mine = "taken" /\ ~strayed => snapshot \subseteq room
  /\ mine = "in" /\ ~strayed => \A x \in Others \ room : Absent(x)

LEMMA PeersDomains ==
  /\ DOMAIN Peers!NoSprites = {}
  /\ \A cs : DOMAIN Peers!Named(cs) = cs
  /\ \A ls, x : DOMAIN Peers!Without(ls, x) = DOMAIN ls \ {x}
  /\ \A ls, ms : DOMAIN Peers!Merged(ls, ms) = DOMAIN ls \union DOMAIN ms
  /\ \A ls, cs : ls # NoList => DOMAIN Peers!Cut(ls, cs) = DOMAIN ls \ cs
<1>1. DOMAIN Peers!NoSprites = {} /\ \A cs : DOMAIN Peers!Named(cs) = cs
  BY DEF Peers!NoSprites, Peers!Named
<1>2. \A ls, x : DOMAIN Peers!Without(ls, x) = DOMAIN ls \ {x}
  BY DEF Peers!Without
<1>3. \A ls, ms : DOMAIN Peers!Merged(ls, ms) = DOMAIN ls \union DOMAIN ms
  BY DEF Peers!Merged
<1>4. \A ls, cs : ls # NoList => DOMAIN Peers!Cut(ls, cs) = DOMAIN ls \ cs
  BY DEF Peers!Cut
<1> QED BY <1>1, <1>2, <1>3, <1>4

LEMMA PeersInitial == Peers!Init => PeersInv
<1> SUFFICES ASSUME Peers!Init PROVE PeersInv
  OBVIOUS
<1>1. /\ room \subseteq Others /\ unannounced = {} /\ mine = "out" /\ snapshot = {} /\ toMap = <<>>
      /\ sprites = Peers!NoSprites /\ initPlayers = NoList /\ pendingPlayers = Peers!NoSprites
      /\ strayed = FALSE
  BY DEF Peers!Init
<1>2. toMap \in Seq(OfPeers)
  BY <1>1, NoneOrOne
<1>3. HeldPeers = {}
  BY <1>1, PeersDomains DEF HeldPeers, Saved
<1> QED BY <1>1, <1>2, <1>3 DEF PeersInv, PeersTypes

\* A message that brings nobody back who is not there, ...
LEMMA PeersTold ==
  ASSUME toMap \in Seq(OfPeers), NEW msg \in OfPeers, toMap' = Append(toMap, msg),
         HeldPeers' = HeldPeers, NEW x, (Absent(x) /\ msg \notin Mentions(x)) \/ msg \in Removes(x)
  PROVE  Absent(x)'
<1>1. Free(toMap, Mentions(x)) /\ msg \notin Mentions(x) => Free(toMap', Mentions(x))
  BY FreeAppend
<1>2. (msg \in Removes(x)) \/ (Ends(toMap, Removes(x), Mentions(x)) /\ msg \notin Mentions(x))
        => Ends(toMap', Removes(x), Mentions(x))
  BY EndsAppend
<1> QED BY <1>1, <1>2 DEF Absent

\* ... and the next message is heard.
LEMMA PeersHeard ==
  ASSUME toMap \in Seq(OfPeers), toMap # <<>>, toMap' = Tail(toMap), NEW x, Absent(x),
         Head(toMap) \in Removes(x) => x \notin HeldPeers',
         Head(toMap) \notin Mentions(x) /\ x \notin HeldPeers => x \notin HeldPeers'
  PROVE  Absent(x)'
<1>1. /\ Free(toMap, Mentions(x)) => Head(toMap) \notin Mentions(x) /\ Free(toMap', Mentions(x))
      /\ Ends(toMap, Removes(x), Mentions(x)) =>
           Ends(toMap', Removes(x), Mentions(x)) \/ (Head(toMap) \in Removes(x) /\ Free(toMap', Mentions(x)))
  BY EndsTail
<1> QED BY <1>1 DEF Absent

LEMMA PeersSame ==
  UNCHANGED <<sprites, initPlayers, pendingPlayers>> => HeldPeers' = HeldPeers
BY DEF HeldPeers, Saved

LEMMA PeersServerStep ==
  ASSUME PeersInv,
         \/ Peers!Enter \/ Peers!Announce \/ Peers!Leave \/ Peers!Dirty \/ Peers!EnterMapRoom
         \/ Peers!PlayerSnapshot \/ Peers!SendMapInit
         \/ Peers!EnterInstanceMidEvent \/ Peers!LeaveInstanceMidEvent
  PROVE  PeersInv'
<1> USE DEF Peers!roomVars, Peers!sceneVars
<1>a. PeersTypes /\ (mine = "taken" /\ ~strayed => snapshot \subseteq room)
      /\ (mine = "in" /\ ~strayed => \A x \in Others \ room : Absent(x))
  BY DEF PeersInv
<1>b. UNCHANGED <<sprites, initPlayers, pendingPlayers>>
  BY DEF Peers!Enter, Peers!Announce, Peers!Leave, Peers!Dirty, Peers!EnterMapRoom, Peers!PlayerSnapshot,
         Peers!SendMapInit, Peers!EnterInstanceMidEvent, Peers!LeaveInstanceMidEvent, Peers!ClientSame
<1>c. HeldPeers' = HeldPeers /\ HeldPeers \subseteq Others
  BY <1>a, <1>b, PeersSame DEF PeersTypes
<1>d. /\ room \subseteq Others /\ unannounced \subseteq room /\ snapshot \subseteq Others
      /\ toMap \in Seq(OfPeers) /\ strayed \in BOOLEAN
      /\ mine \in {"out", "added", "taken", "in", "instance"}
  BY <1>a DEF PeersTypes
\* What is said to the client, if he listens, keeps the type of the queue.
<1>e. \A msg \in OfPeers : Append(toMap, msg) \in Seq(OfPeers)
  BY <1>d
<1>0. ASSUME NEW x, toMap' = toMap, Absent(x) PROVE Absent(x)'
  BY <1>0, <1>c DEF Absent
<1>1. CASE Peers!Enter
  <2>1. PICK c1 \in Others \ room : room' = room \cup {c1} /\ unannounced' = unannounced \cup {c1}
    BY <1>1 DEF Peers!Enter
  <2>2. UNCHANGED <<mine, snapshot, toMap, strayed>>
    BY <1>1 DEF Peers!Enter
  <2>3. PeersTypes'
    BY <1>c, <1>d, <2>1, <2>2 DEF PeersTypes
  <2> QED BY <1>a, <1>0, <2>1, <2>2, <2>3 DEF PeersInv
<1>2. CASE Peers!Announce
  <2>1. PICK c1 \in unannounced :
          /\ unannounced' = unannounced \ {c1} /\ Peers!Broadcast([t |-> "join", c |-> c1])
          /\ strayed' = (strayed \/ (mine = "taken" /\ c1 \notin snapshot))
    BY <1>2 DEF Peers!Announce
  <2>2. UNCHANGED <<room, mine, snapshot>>
    BY <1>2 DEF Peers!Announce
  <2> DEFINE msg == [t |-> "join", c |-> c1]
  <2>3. msg \in OfPeers /\ \A x \in Others \ room : msg \notin Mentions(x)
    BY <1>d, <2>1 DEF OfPeers, Mentions
  <2>4. toMap' = toMap \/ toMap' = Append(toMap, msg)
    BY <2>1 DEF Peers!Broadcast
  <2> HIDE DEF msg
  <2>5. PeersTypes'
    BY <1>c, <1>d, <1>e, <2>1, <2>2, <2>3, <2>4 DEF PeersTypes
  <2>6. ASSUME mine' = "in", ~strayed', NEW x \in Others \ room' PROVE Absent(x)'
    <3>1. Absent(x) /\ x \in Others \ room
      BY <1>a, <2>1, <2>2, <2>6
    <3> QED BY <1>0, <1>c, <1>d, <2>3, <2>4, <3>1, PeersTold
  <2> QED BY <1>a, <2>1, <2>2, <2>5, <2>6 DEF PeersInv
<1>3. CASE Peers!Leave
  <2>1. PICK c1 \in room \ unannounced :
          /\ room' = room \ {c1} /\ Peers!Broadcast([t |-> "leave", c |-> c1])
          /\ strayed' = (strayed \/ (mine = "taken" /\ c1 \in snapshot))
    BY <1>3 DEF Peers!Leave
  <2>2. UNCHANGED <<unannounced, mine, snapshot>>
    BY <1>3 DEF Peers!Leave
  <2> DEFINE msg == [t |-> "leave", c |-> c1]
  <2>3. msg \in OfPeers /\ msg \in Removes(c1) /\ \A x : msg \notin Mentions(x)
    BY <1>d, <2>1 DEF OfPeers, Mentions, Removes
  <2>4. (mine = "in" => toMap' = Append(toMap, msg)) /\ (toMap' = toMap \/ toMap' = Append(toMap, msg))
    BY <2>1 DEF Peers!Broadcast, Peers!Listening
  <2> HIDE DEF msg
  <2>5. PeersTypes'
    BY <1>c, <1>d, <1>e, <2>1, <2>2, <2>3, <2>4 DEF PeersTypes
  <2>6. ASSUME mine' = "in", ~strayed', NEW x \in Others \ room' PROVE Absent(x)'
    <3>1. x = c1 \/ Absent(x)
      BY <1>a, <2>1, <2>2, <2>6
    <3>2. toMap' = Append(toMap, msg)
      BY <2>2, <2>4, <2>6
    <3> QED BY <1>c, <1>d, <2>3, <3>1, <3>2, PeersTold
  <2> QED BY <1>a, <2>1, <2>2, <2>5, <2>6 DEF PeersInv
<1>4. CASE Peers!Dirty
  <2>1. PICK c1 \in room : Peers!Broadcast([t |-> "sync", c |-> c1])
    BY <1>4 DEF Peers!Dirty
  <2>2. UNCHANGED <<room, unannounced, mine, snapshot, strayed>>
    BY <1>4 DEF Peers!Dirty
  <2> DEFINE msg == [t |-> "sync", c |-> c1]
  <2>3. msg \in OfPeers /\ \A x : msg \notin Mentions(x)
    BY <1>d, <2>1 DEF OfPeers, Mentions
  <2>4. toMap' = toMap \/ toMap' = Append(toMap, msg)
    BY <2>1 DEF Peers!Broadcast
  <2> HIDE DEF msg
  <2>5. PeersTypes'
    BY <1>c, <1>d, <1>e, <2>2, <2>3, <2>4 DEF PeersTypes
  <2>6. ASSUME mine' = "in", ~strayed', NEW x \in Others \ room' PROVE Absent(x)'
    <3>1. Absent(x)
      BY <1>a, <2>2, <2>6
    <3> QED BY <1>0, <1>c, <1>d, <2>3, <2>4, <3>1, PeersTold
  <2> QED BY <1>a, <2>2, <2>5, <2>6 DEF PeersInv
<1>5. CASE Peers!EnterMapRoom
  <2>1. /\ room' \subseteq Others /\ unannounced' = {} /\ mine' = "added"
        /\ UNCHANGED <<snapshot, toMap, strayed>>
    BY <1>5, <1>d DEF Peers!EnterMapRoom
  <2> QED BY <1>c, <1>d, <2>1 DEF PeersInv, PeersTypes
<1>6. CASE Peers!PlayerSnapshot
  <2>1. snapshot' = room /\ mine' = "taken" /\ UNCHANGED <<room, unannounced, toMap, strayed>>
    BY <1>6 DEF Peers!PlayerSnapshot
  <2> QED BY <1>c, <1>d, <2>1 DEF PeersInv, PeersTypes
<1>7. CASE Peers!SendMapInit
  <2> DEFINE msg == [t |-> "init", cs |-> snapshot]
  <2>1. /\ mine = "taken" /\ toMap' = Append(toMap, msg) /\ mine' = "in" /\ snapshot' = {}
        /\ UNCHANGED <<room, unannounced, strayed>>
    BY <1>7 DEF Peers!SendMapInit
  <2>2. msg \in OfPeers /\ \A x : x \notin snapshot => msg \in Removes(x)
    BY <1>d DEF OfPeers, Removes
  <2> HIDE DEF msg
  <2>3. PeersTypes'
    BY <1>c, <1>d, <1>e, <2>1, <2>2 DEF PeersTypes
  <2>4. ASSUME ~strayed', NEW x \in Others \ room' PROVE Absent(x)'
    <3>1. msg \in Removes(x)
      BY <1>a, <2>1, <2>2, <2>4
    <3> QED BY <1>c, <1>d, <2>1, <2>2, <3>1, PeersTold
  <2> QED BY <2>1, <2>3, <2>4 DEF PeersInv
<1>8. CASE Peers!EnterInstanceMidEvent
  <2>1. /\ mine' = "instance" /\ toMap' = Append(toMap, [t |-> "instance"])
        /\ UNCHANGED <<room, unannounced, snapshot, strayed>>
    BY <1>8 DEF Peers!EnterInstanceMidEvent
  <2>2. [t |-> "instance"] \in OfPeers
    BY DEF OfPeers
  <2> QED BY <1>c, <1>d, <1>e, <2>1, <2>2 DEF PeersInv, PeersTypes
<1>9. CASE Peers!LeaveInstanceMidEvent
  <2> DEFINE msg == [t |-> "shared", cs |-> room]
  <2>1. /\ toMap' = Append(toMap, msg) /\ mine' = "in"
        /\ UNCHANGED <<room, unannounced, snapshot, strayed>>
    BY <1>9 DEF Peers!LeaveInstanceMidEvent
  <2>2. msg \in OfPeers /\ \A x : x \notin room => msg \in Removes(x)
    BY <1>d DEF OfPeers, Removes
  <2> HIDE DEF msg
  <2>3. PeersTypes'
    BY <1>c, <1>d, <1>e, <2>1, <2>2 DEF PeersTypes
  <2>4. ASSUME NEW x \in Others \ room' PROVE Absent(x)'
    BY <1>c, <1>d, <2>1, <2>2, <2>4, PeersTold
  <2> QED BY <2>1, <2>3, <2>4 DEF PeersInv
<1> QED BY <1>1, <1>2, <1>3, <1>4, <1>5, <1>6, <1>7, <1>8, <1>9

\* The client hears of it.
LEMMA PeersHearStep ==
  ASSUME PeersInv,
         \/ Peers!OnJoin \/ Peers!OnLeave \/ Peers!OnSync \/ Peers!OnMapInit
         \/ Peers!OnInstanceEnter \/ Peers!OnInstanceLeave
  PROVE  PeersInv'
<1> USE DEF Peers!roomVars, Peers!sceneVars
<1>a. PeersTypes /\ (mine = "taken" /\ ~strayed => snapshot \subseteq room)
      /\ (mine = "in" /\ ~strayed => \A x \in Others \ room : Absent(x))
  BY DEF PeersInv
<1>b. toMap # <<>> /\ toMap' = Tail(toMap) /\ UNCHANGED <<room, unannounced, mine, snapshot>>
  BY DEF Peers!OnJoin, Peers!OnLeave, Peers!OnSync, Peers!OnMapInit,
         Peers!OnInstanceEnter, Peers!OnInstanceLeave, Peers!Heard
<1>c. toMap \in Seq(OfPeers) /\ HeldPeers \subseteq Others /\ strayed \in BOOLEAN
  BY <1>a DEF PeersTypes
<1>d. Head(toMap) \in OfPeers /\ toMap' \in Seq(OfPeers)
  BY <1>b, <1>c, EndsTail
<1>e. SUFFICES /\ strayed' \in BOOLEAN /\ (strayed => strayed') /\ HeldPeers' \subseteq Others
               /\ ~strayed' => \A x \in Others :
                    /\ Head(toMap) \in Removes(x) => x \notin HeldPeers'
                    /\ Head(toMap) \notin Mentions(x) /\ x \notin HeldPeers => x \notin HeldPeers'
  <2>1. ASSUME mine' = "in", ~strayed', NEW x \in Others \ room'
        PROVE  Absent(x)'
    <3>1. Absent(x)
      BY <1>a, <1>b, <1>c, <1>e, <2>1
    <3>2. /\ Head(toMap) \in Removes(x) => x \notin HeldPeers'
          /\ Head(toMap) \notin Mentions(x) /\ x \notin HeldPeers => x \notin HeldPeers'
      BY <1>e, <2>1
    <3> QED BY <1>b, <1>c, <3>1, <3>2, PeersHeard
  <2>2. PeersTypes'
    BY <1>a, <1>b, <1>d, <1>e DEF PeersTypes
  <2> QED BY <1>a, <1>b, <1>c, <1>e, <2>1, <2>2 DEF PeersInv
<1> DEFINE msg == Head(toMap)
<1>f. /\ msg.t \in {"join", "leave", "sync"} => msg.c \in Others
      /\ msg.t \in {"init", "shared"} => msg.cs \subseteq Others
      /\ \A x : msg \in Mentions(x) <=> \/ msg.t = "join" /\ msg.c = x
                                        \/ msg.t \in {"init", "shared"} /\ x \in msg.cs
      /\ \A x : msg \in Removes(x) <=> \/ msg.t = "leave" /\ msg.c = x
                                       \/ msg.t \in {"init", "shared"} /\ x \notin msg.cs
  BY <1>d DEF OfPeers, Mentions, Removes
<1>g. /\ HeldPeers = DOMAIN sprites \union DOMAIN pendingPlayers \union Saved
      /\ HeldPeers' = DOMAIN sprites' \union DOMAIN pendingPlayers' \union Saved'
      /\ Saved = (IF initPlayers = NoList THEN {} ELSE DOMAIN initPlayers)
      /\ Saved' = (IF initPlayers' = NoList THEN {} ELSE DOMAIN initPlayers')
  BY DEF HeldPeers, Saved
<1>1. CASE Peers!OnJoin
  <2>1. msg.t = "join" /\ UNCHANGED <<initPlayers, strayed>>
    BY <1>1 DEF Peers!OnJoin, Peers!Heard
  <2>2. \/ pendingPlayers' = Peers!Merged(Peers!Named({msg.c}), pendingPlayers) /\ sprites' = sprites
        \/ sprites' = Peers!Merged(Peers!Named({msg.c}), sprites) /\ pendingPlayers' = pendingPlayers
    BY <1>1 DEF Peers!OnJoin
  <2> HIDE DEF msg
  <2>3. \/ DOMAIN pendingPlayers' = {msg.c} \union DOMAIN pendingPlayers /\ sprites' = sprites
        \/ DOMAIN sprites' = {msg.c} \union DOMAIN sprites /\ pendingPlayers' = pendingPlayers
    <3> DEFINE nm == Peers!Named({msg.c})
    <3>1. DOMAIN nm = {msg.c}
      BY PeersDomains, Zenon
    <3>2. \A ls, ms : DOMAIN Peers!Merged(ls, ms) = DOMAIN ls \union DOMAIN ms
      BY PeersDomains, Zenon
    <3>3. \A ls : DOMAIN Peers!Merged(nm, ls) = {msg.c} \union DOMAIN ls
      BY <3>1, <3>2, Zenon
    <3> QED BY <2>2, <3>3, Zenon
  <2>4. HeldPeers' = HeldPeers \union {msg.c}
    BY <1>g, <2>1, <2>3
  <2> QED BY <1>c, <1>f, <2>1, <2>4 DEF msg
<1>2. CASE Peers!OnLeave
  <2>1. /\ msg.t = "leave" /\ UNCHANGED strayed
        /\ sprites' = Peers!Without(sprites, msg.c)
        /\ initPlayers' = IF initPlayers = NoList THEN NoList ELSE Peers!Without(initPlayers, msg.c)
        /\ pendingPlayers' = Peers!Without(pendingPlayers, msg.c)
    BY <1>2 DEF Peers!OnLeave, Peers!Heard
  <2> HIDE DEF msg
  <2>2. /\ DOMAIN sprites' = DOMAIN sprites \ {msg.c}
        /\ DOMAIN pendingPlayers' = DOMAIN pendingPlayers \ {msg.c}
        /\ initPlayers # NoList => DOMAIN initPlayers' = DOMAIN initPlayers \ {msg.c}
    BY <2>1, PeersDomains
  <2>3. HeldPeers' \subseteq HeldPeers \ {msg.c}
    BY <1>g, <2>1, <2>2
  <2> QED BY <1>c, <1>f, <2>1, <2>3 DEF msg
<1>3. CASE Peers!OnSync
  <2>1. /\ msg.t = "sync" /\ UNCHANGED <<initPlayers, pendingPlayers, strayed>>
        /\ DOMAIN sprites' = DOMAIN sprites
    BY <1>3 DEF Peers!OnSync, Peers!Heard
  <2> HIDE DEF msg
  <2>2. HeldPeers' = HeldPeers
    BY <1>g, <2>1
  <2> QED BY <1>c, <1>f, <2>1, <2>2 DEF msg
<1>4. CASE Peers!OnMapInit
  <2>1. /\ msg.t = "init" /\ UNCHANGED strayed
        /\ initPlayers' = Peers!Named(msg.cs \ DOMAIN sprites)
        /\ \/ pendingPlayers' = Peers!Named(msg.cs) /\ sprites' = Peers!NoSprites
           \/ sprites' = Peers!Named(msg.cs) /\ pendingPlayers' = Peers!NoSprites
    BY <1>4 DEF Peers!OnMapInit, Peers!Heard
  <2> HIDE DEF msg
  <2>2. /\ DOMAIN initPlayers' = msg.cs \ DOMAIN sprites
        /\ DOMAIN sprites' \union DOMAIN pendingPlayers' = msg.cs
    BY <2>1, PeersDomains
  <2>3. HeldPeers' = msg.cs
    BY <1>g, <2>2
  <2> QED BY <1>c, <1>f, <2>1, <2>3 DEF msg
<1>5. CASE Peers!OnInstanceEnter
  <2>1. /\ msg.t = "instance"
        /\ initPlayers' = Peers!Cut(initPlayers, DOMAIN sprites)
        /\ sprites' = Peers!NoSprites /\ pendingPlayers' = Peers!NoSprites
        /\ strayed' \in BOOLEAN /\ (strayed => strayed')
    BY <1>5, <1>c DEF Peers!OnInstanceEnter, Peers!Heard
  <2> HIDE DEF msg
  <2>2. /\ DOMAIN sprites' = {} /\ DOMAIN pendingPlayers' = {}
        /\ initPlayers # NoList => DOMAIN initPlayers' = DOMAIN initPlayers \ DOMAIN sprites
        /\ initPlayers = NoList => initPlayers' = NoList
    BY <2>1, PeersDomains DEF Peers!Cut
  <2>3. HeldPeers' \subseteq HeldPeers
    BY <1>g, <2>2
  <2> QED BY <1>c, <1>f, <2>1, <2>3 DEF msg
<1>6. CASE Peers!OnInstanceLeave
  <2>1. /\ msg.t = "shared"
        /\ initPlayers' = Peers!Cut(initPlayers, DOMAIN sprites)
        /\ \/ pendingPlayers' = Peers!Named(msg.cs) /\ sprites' = Peers!NoSprites
           \/ sprites' = Peers!Named(msg.cs) /\ pendingPlayers' = Peers!NoSprites
        /\ strayed' \in BOOLEAN /\ (strayed => strayed') /\ (~strayed' => initPlayers = NoList)
    BY <1>6, <1>c DEF Peers!OnInstanceLeave, Peers!Heard
  <2> HIDE DEF msg
  <2>2. /\ DOMAIN sprites' \union DOMAIN pendingPlayers' = msg.cs
        /\ initPlayers # NoList => DOMAIN initPlayers' = DOMAIN initPlayers \ DOMAIN sprites
        /\ initPlayers = NoList => initPlayers' = NoList
    BY <2>1, PeersDomains DEF Peers!Cut
  <2>3. HeldPeers' \subseteq HeldPeers \union msg.cs /\ (~strayed' => HeldPeers' = msg.cs)
    BY <1>g, <2>1, <2>2
  <2> QED BY <1>c, <1>f, <2>1, <2>3 DEF msg
<1> QED BY <1>1, <1>2, <1>3, <1>4, <1>5, <1>6

\* The scenes, the context menu and a lost connection.
LEMMA PeersStep == PeersInv /\ [Peers!Next]_o => PeersInv'
<1> SUFFICES ASSUME PeersInv, [Peers!Next]_o PROVE PeersInv'
  OBVIOUS
<1> USE DEF Peers!roomVars, Peers!sceneVars
<1>a. PeersTypes /\ (mine = "taken" /\ ~strayed => snapshot \subseteq room)
      /\ (mine = "in" /\ ~strayed => \A x \in Others \ room : Absent(x))
  BY DEF PeersInv
<1>b. ASSUME UNCHANGED <<room, unannounced, mine, snapshot, toMap, strayed>>, HeldPeers' \subseteq HeldPeers
      PROVE  PeersInv'
  <2>1. \A x : Absent(x) => Absent(x)'
    BY <1>b DEF Absent
  <2> QED BY <1>a, <1>b, <2>1 DEF PeersInv, PeersTypes
<1>g. /\ HeldPeers = DOMAIN sprites \union DOMAIN pendingPlayers \union Saved
      /\ HeldPeers' = DOMAIN sprites' \union DOMAIN pendingPlayers' \union Saved'
      /\ Saved = (IF initPlayers = NoList THEN {} ELSE DOMAIN initPlayers)
      /\ Saved' = (IF initPlayers' = NoList THEN {} ELSE DOMAIN initPlayers')
  BY DEF HeldPeers, Saved
<1>1. CASE \/ Peers!Enter \/ Peers!Announce \/ Peers!Leave \/ Peers!Dirty \/ Peers!EnterMapRoom
           \/ Peers!PlayerSnapshot \/ Peers!SendMapInit
           \/ Peers!EnterInstanceMidEvent \/ Peers!LeaveInstanceMidEvent
  BY <1>1, PeersServerStep
<1>2. CASE \/ Peers!OnJoin \/ Peers!OnLeave \/ Peers!OnSync \/ Peers!OnMapInit
           \/ Peers!OnInstanceEnter \/ Peers!OnInstanceLeave
  BY <1>2, PeersHearStep
<1>3. CASE Peers!CreateCharacters
  <2>1. /\ UNCHANGED <<room, unannounced, mine, snapshot, toMap, strayed>>
        /\ sprites' = Peers!Merged(IF initPlayers = NoList THEN Peers!NoSprites ELSE initPlayers, pendingPlayers)
        /\ initPlayers' = NoList /\ pendingPlayers' = Peers!NoSprites
    BY <1>3 DEF Peers!CreateCharacters
  <2>2. DOMAIN sprites' = Saved \union DOMAIN pendingPlayers /\ DOMAIN pendingPlayers' = {}
    <3> DEFINE sv == IF initPlayers = NoList THEN Peers!NoSprites ELSE initPlayers
    <3>1. DOMAIN sv = Saved
      BY <1>g, PeersDomains
    <3> HIDE DEF sv
    <3>2. DOMAIN sprites' = DOMAIN sv \union DOMAIN pendingPlayers
      BY <2>1, PeersDomains DEF sv
    <3> QED BY <2>1, <3>1, <3>2, PeersDomains
  <2> QED BY <1>b, <1>g, <2>1, <2>2
<1>4. CASE \/ Peers!Start \/ Peers!FadedIn \/ Peers!RightClick \/ Peers!MenuClick \/ UNCHANGED o
  <2>1. UNCHANGED <<room, unannounced, mine, snapshot, toMap, strayed, sprites, initPlayers, pendingPlayers>>
    BY <1>4 DEF Peers!Start, Peers!FadedIn, Peers!RightClick, Peers!MenuClick, o
  <2> QED BY <1>b, <2>1, PeersSame
<1>5. CASE Peers!Terminate
  <2>1. /\ UNCHANGED <<room, unannounced, mine, snapshot, toMap, strayed>>
        /\ initPlayers' = initPlayers \/ initPlayers' = sprites
        /\ sprites' = Peers!NoSprites /\ pendingPlayers' = Peers!NoSprites
    BY <1>5 DEF Peers!Terminate
  <2>2. DOMAIN sprites' = {} /\ DOMAIN pendingPlayers' = {}
    BY <2>1, PeersDomains
  <2> QED BY <1>b, <1>g, <2>1, <2>2
<1>6. CASE Peers!Disconnected
  <2>1. /\ mine' = "out" /\ room' \subseteq Others /\ unannounced' = {} /\ toMap' = <<>>
        /\ initPlayers' = Peers!Cut(initPlayers, DOMAIN sprites)
        /\ sprites' = Peers!NoSprites /\ pendingPlayers' = Peers!NoSprites
        /\ UNCHANGED <<snapshot, strayed>>
    BY <1>6 DEF Peers!Disconnected
  <2>2. /\ DOMAIN sprites' = {} /\ DOMAIN pendingPlayers' = {}
        /\ initPlayers # NoList => DOMAIN initPlayers' = DOMAIN initPlayers \ DOMAIN sprites
        /\ initPlayers = NoList => initPlayers' = NoList
    BY <2>1, PeersDomains DEF Peers!Cut
  <2>3. HeldPeers' \subseteq HeldPeers
    BY <1>g, <2>2
  <2>4. toMap' \in Seq(OfPeers)
    BY <2>1, NoneOrOne
  <2> QED BY <1>a, <2>1, <2>3, <2>4 DEF PeersInv, PeersTypes
<1> QED BY <1>1, <1>2, <1>3, <1>4, <1>5, <1>6 DEF Peers!Next

LEMMA PeersShown == PeersInv => Peers!NoGhosts
<1> SUFFICES ASSUME PeersInv, mine = "in", toMap = <<>>, ~strayed, NEW x \in DOMAIN sprites
             PROVE  x \in room
  BY DEF Peers!NoGhosts, Peers!Known
<1>1. x \in HeldPeers /\ x \in Others
  BY DEF PeersInv, PeersTypes, HeldPeers
<1> QED BY <1>1, NothingEnds DEF PeersInv, Absent

-----------------------------------------------------------------------------
(* What lies on the ground *)

DropTypes ==
  /\ fallen \in Nat /\ fallen <= MaxDrops
  /\ floor \subseteq 1..fallen /\ spawning \subseteq 1..fallen
  /\ expired \subseteq 1..fallen /\ lostDrops \subseteq 1..fallen
  /\ bag \in [Floor!Ids -> SUBSET DropPlayers]

\* A drop is in one place, and before it falls in none.
AtOnce(x) ==
  \/ x \in floor /\ x \notin expired /\ x \notin lostDrops /\ bag[x] = {}
  \/ x \notin floor /\ x \in expired /\ x \notin lostDrops /\ bag[x] = {}
  \/ x \notin floor /\ x \notin expired /\ x \in lostDrops /\ bag[x] = {}
  \/ x \notin floor /\ x \notin expired /\ x \notin lostDrops /\ \E who \in DropPlayers : bag[x] = {who}
GroundInv ==
  /\ DropTypes /\ picking \in [DropPlayers -> Floor!Ids \union {NoDrop}]
  /\ \A x \in 1..fallen : AtOnce(x)
  /\ \A x \in Floor!Ids \ 1..fallen : bag[x] = {}

LEMMA GroundInitial == Floor!Init => GroundInv
<1> SUFFICES ASSUME Floor!Init PROVE GroundInv
  OBVIOUS
<1>1. /\ fallen = 0 /\ floor = {} /\ spawning = {} /\ expired = {} /\ lostDrops = {}
      /\ bag = [x \in Floor!Ids |-> {}] /\ picking = [who \in DropPlayers |-> NoDrop]
  BY DEF Floor!Init
<1>2. MaxDrops \in Nat
  BY PlayAssumption DEF PlayAssumption
<1>3. DropTypes /\ picking \in [DropPlayers -> Floor!Ids \union {NoDrop}]
  BY <1>1, <1>2 DEF DropTypes
<1> QED BY <1>1, <1>3 DEF GroundInv

LEMMA GroundStep ==
  ASSUME GroundInv, [Floor!Next]_g,
         picking' \in [DropPlayers -> Floor!Ids \union {NoDrop}]
  PROVE  GroundInv'
<1> USE DEF Floor!clients, Floor!ground, Floor!handlers, Floor!place
<1>a. /\ DropTypes /\ picking \in [DropPlayers -> Floor!Ids \union {NoDrop}]
      /\ \A x \in 1..fallen : AtOnce(x)
      /\ \A x \in Floor!Ids \ 1..fallen : bag[x] = {}
  BY DEF GroundInv
<1>b. /\ fallen \in Nat /\ fallen <= MaxDrops
      /\ floor \subseteq 1..fallen /\ spawning \subseteq 1..fallen
      /\ expired \subseteq 1..fallen /\ lostDrops \subseteq 1..fallen
      /\ bag \in [Floor!Ids -> SUBSET DropPlayers]
  BY <1>a DEF DropTypes
<1>c. MaxDrops \in Nat /\ NoDrop \notin Floor!Ids /\ Floor!Ids = 1..MaxDrops
  BY PlayAssumption DEF PlayAssumption, Floor!Ids
<1>0. CASE UNCHANGED <<fallen, floor, expired, lostDrops, bag>> /\ spawning' \subseteq spawning
  BY <1>0, <1>a DEF GroundInv, DropTypes, AtOnce
<1>1. CASE Floor!AddDrop
  <2>1. /\ fallen < MaxDrops /\ fallen' = fallen + 1 /\ floor' = floor \union {fallen + 1}
        /\ spawning' = spawning \union {fallen + 1} /\ UNCHANGED <<expired, lostDrops, bag>>
    BY <1>1 DEF Floor!AddDrop
  <2>2. DropTypes'
    BY <1>b, <1>c, <2>1 DEF DropTypes
  <2>3. ASSUME NEW x \in 1..fallen' PROVE AtOnce(x)'
    <3>1. CASE x \in 1..fallen
      <4>1. AtOnce(x) /\ x # fallen + 1
        BY <1>a, <1>b, <3>1
      <4> QED BY <2>1, <4>1 DEF AtOnce
    <3>2. CASE x = fallen + 1
      <4>1. x \in Floor!Ids \ 1..fallen
        BY <1>b, <1>c, <2>1, <3>2
      <4>2. bag[x] = {} /\ x \notin expired /\ x \notin lostDrops
        BY <1>a, <1>b, <4>1
      <4> QED BY <2>1, <3>2, <4>2 DEF AtOnce
    <3> QED BY <1>b, <2>1, <3>1, <3>2
  <2>4. \A x \in Floor!Ids \ 1..fallen' : bag'[x] = {}
    BY <1>a, <1>b, <2>1
  <2> QED BY <2>2, <2>3, <2>4 DEF GroundInv
<1>2. CASE Floor!CleanExpiredDrops
  <2> DEFINE y == Floor!Min(floor)
  <2>1. /\ floor # {} /\ floor' = floor \ {y} /\ expired' = expired \union {y}
        /\ UNCHANGED <<fallen, spawning, lostDrops, bag>>
    BY <1>2 DEF Floor!CleanExpiredDrops
  <2>2. y \in floor
    <3>1. floor \in SUBSET Nat
      BY <1>b
    <3> QED BY <2>1, <3>1, FirstOf
  <2> HIDE DEF y
  <2>3. DropTypes'
    BY <1>b, <2>1, <2>2 DEF DropTypes
  <2>4. ASSUME NEW x \in 1..fallen' PROVE AtOnce(x)'
    <3>1. AtOnce(x)
      BY <1>a, <2>1
    <3> QED BY <2>1, <2>2, <3>1 DEF AtOnce
  <2> QED BY <1>a, <2>1, <2>3, <2>4 DEF GroundInv
<1>3. ASSUME NEW who \in DropPlayers, Floor!ConsumeDrop(who) PROVE GroundInv'
  <2> DEFINE y == picking[who]
  <2>1. PICK wr \in BOOLEAN :
          /\ floor' = floor \ {y}
          /\ bag' = IF y \in floor /\ wr THEN [bag EXCEPT ![y] = @ \union {who}] ELSE bag
          /\ lostDrops' = IF y \in floor /\ ~wr THEN lostDrops \union {y} ELSE lostDrops
    BY <1>3 DEF Floor!ConsumeDrop
  <2>2. UNCHANGED <<fallen, spawning, expired>> /\ y \in Floor!Ids
    BY <1>3, <1>a DEF Floor!ConsumeDrop
  <2> HIDE DEF y
  <2>3. CASE y \notin floor
    BY <1>0, <2>1, <2>2, <2>3
  <2>4. CASE y \in floor /\ ~wr
    <3>1. floor' = floor \ {y} /\ bag' = bag /\ lostDrops' = lostDrops \union {y}
      BY <2>1, <2>4
    <3>2. DropTypes'
      BY <1>b, <2>2, <2>4, <3>1 DEF DropTypes
    <3>3. ASSUME NEW x \in 1..fallen' PROVE AtOnce(x)'
      <4>1. AtOnce(x)
        BY <1>a, <2>2
      <4> QED BY <2>2, <2>4, <3>1, <4>1 DEF AtOnce
    <3> QED BY <1>a, <2>2, <3>1, <3>2, <3>3 DEF GroundInv
  <2>5. CASE y \in floor /\ wr
    <3>1. /\ floor' = floor \ {y} /\ lostDrops' = lostDrops
          /\ bag' = [bag EXCEPT ![y] = bag[y] \union {who}]
      BY <2>1, <2>5
    <3>2. /\ bag' \in [Floor!Ids -> SUBSET DropPlayers] /\ bag'[y] = bag[y] \union {who}
          /\ \A x \in Floor!Ids : x # y => bag'[x] = bag[x]
      BY <1>b, <2>2, <3>1
    <3>3. DropTypes'
      BY <1>b, <2>2, <2>5, <3>1, <3>2 DEF DropTypes
    <3>4. y \in 1..fallen /\ AtOnce(y)
      BY <1>a, <1>b, <2>5
    <3>5. bag[y] = {} /\ y \notin expired /\ y \notin lostDrops
      BY <2>5, <3>4 DEF AtOnce
    <3>6. ASSUME NEW x \in 1..fallen' PROVE AtOnce(x)'
      <4>1. AtOnce(x) /\ x \in Floor!Ids
        BY <1>a, <1>b, <1>c, <2>2
      <4>2. CASE x = y
        <5>1. bag'[x] = {who} /\ x \notin floor' /\ x \notin expired' /\ x \notin lostDrops'
          BY <2>2, <3>1, <3>2, <3>5, <4>2
        <5> QED BY <5>1 DEF AtOnce
      <4>3. CASE x # y
        BY <2>2, <3>1, <3>2, <4>1, <4>3 DEF AtOnce
      <4> QED BY <4>2, <4>3
    <3>7. \A x \in Floor!Ids \ 1..fallen' : bag'[x] = {}
      BY <1>a, <2>2, <3>2, <3>4
    <3> QED BY <3>3, <3>6, <3>7 DEF GroundInv
  <2> QED BY <2>3, <2>4, <2>5
<1>4. CASE Floor!Deliver \/ \E x \in Floor!Ids : Floor!BroadcastSpawn(x)
  <2>1. UNCHANGED <<fallen, floor, expired, lostDrops, bag>> /\ spawning' \subseteq spawning
    BY <1>4 DEF Floor!Deliver, Floor!BroadcastSpawn
  <2> QED BY <1>0, <2>1
<1>5. ASSUME NEW who \in DropPlayers,
             \/ Floor!AddPlayer(who) \/ Floor!SendMapInit(who) \/ Floor!RemovePlayer(who)
             \/ Floor!GetDrop(who) \/ Floor!BroadcastRemove(who) \/ Floor!Hear(who)
             \/ Floor!ChangeScene(who) \/ \E x \in dropSprites[who] : Floor!Click(who, x)
      PROVE  GroundInv'
  <2>1. UNCHANGED <<fallen, floor, expired, lostDrops, bag, spawning>>
    BY <1>5 DEF Floor!AddPlayer, Floor!SendMapInit, Floor!RemovePlayer, Floor!GetDrop, Floor!BroadcastRemove,
                Floor!Hear, Floor!ChangeScene, Floor!Click
  <2> QED BY <1>0, <2>1
<1>6. CASE UNCHANGED g
  BY <1>0, <1>6 DEF g
<1> QED BY <1>1, <1>2, <1>3, <1>4, <1>5, <1>6 DEF Floor!Next

LEMMA GroundShown == GroundInv => Floor!InOnePlace
<1> SUFFICES ASSUME GroundInv, NEW x \in 1..fallen
             PROVE  Floor!Cardinality(bag[x]) + Floor!Cardinality({s1 \in {1} : x \in floor})
                      + Floor!Cardinality({s1 \in {1} : x \in expired}) + Floor!Cardinality({s1 \in {1} : x \in lostDrops}) = 1
  BY DEF Floor!InOnePlace
<1>1. AtOnce(x)
  BY DEF GroundInv
<1>2. Floor!Cardinality({}) = 0 /\ (\A y : Floor!Cardinality({y}) = 1)
  <2>1. \A S : Floor!Cardinality(S) = Cardinality(S)
    BY Zenon DEF Floor!Cardinality, Cardinality
  <2>2. Cardinality({}) = 0 /\ (\A y : Cardinality({y}) = 1)
    BY FS_EmptySet, FS_Singleton
  <2> QED BY <2>1, <2>2, Zenon
<1>3. /\ x \in floor => {s1 \in {1} : x \in floor} = {1}
      /\ x \notin floor => {s1 \in {1} : x \in floor} = {}
      /\ x \in expired => {s1 \in {1} : x \in expired} = {1}
      /\ x \notin expired => {s1 \in {1} : x \in expired} = {}
      /\ x \in lostDrops => {s1 \in {1} : x \in lostDrops} = {1}
      /\ x \notin lostDrops => {s1 \in {1} : x \in lostDrops} = {}
  OBVIOUS
<1>4. /\ x \in floor => Floor!Cardinality({s1 \in {1} : x \in floor}) = 1
      /\ x \notin floor => Floor!Cardinality({s1 \in {1} : x \in floor}) = 0
      /\ x \in expired => Floor!Cardinality({s1 \in {1} : x \in expired}) = 1
      /\ x \notin expired => Floor!Cardinality({s1 \in {1} : x \in expired}) = 0
      /\ x \in lostDrops => Floor!Cardinality({s1 \in {1} : x \in lostDrops}) = 1
      /\ x \notin lostDrops => Floor!Cardinality({s1 \in {1} : x \in lostDrops}) = 0
  BY <1>2, <1>3, Zenon
<1>5. Floor!Cardinality(bag[x]) = 0 \/ Floor!Cardinality(bag[x]) = 1
  BY <1>1, <1>2 DEF AtOnce
<1>6. /\ bag[x] = {} => Floor!Cardinality(bag[x]) = 0
      /\ (\E who \in DropPlayers : bag[x] = {who}) => Floor!Cardinality(bag[x]) = 1
  BY <1>2
<1> QED BY <1>1, <1>4, <1>6 DEF AtOnce

-----------------------------------------------------------------------------
(* What has been picked up *)

\* What the room says of a drop: it lies there; it is gone, or all are.
OfDrops == [t : {"spawn", "remove"}, id : Floor!Ids] \union [t : {"init"}, id : {NoDrop}]
Spawns(x) == {mg \in OfDrops : mg.t = "spawn" /\ mg.id = x}
TakenOff(x) == {mg \in OfDrops : mg.t = "remove" /\ mg.id = x}
Clears(x) == {mg \in OfDrops : mg.t = "init" \/ (mg.t = "remove" /\ mg.id = x)}

HandlerTypes ==
  /\ broadcastQ \in Seq(OfDrops) /\ inbox \in [DropPlayers -> Seq(OfDrops)]
  /\ inRoom \in [DropPlayers -> {"no", "added", "yes"}]
  /\ askedDrop \in [DropPlayers -> Floor!Ids \union {NoDrop}]
  /\ picking \in [DropPlayers -> Floor!Ids \union {NoDrop}]
  /\ claimed \in [DropPlayers -> BOOLEAN]
  /\ \A who \in DropPlayers : claimed[who] => picking[who] # NoDrop
  /\ dropSprites \in [DropPlayers -> SUBSET Floor!Ids]

\* Nobody has heard of it; the player does not see it, or will not when all is heard.
Unknown(who, x) ==
  /\ Free(inbox[who], Spawns(x)) /\ x \notin dropSprites[who]
  /\ askedDrop[who] # x /\ picking[who] # x
Vanished(who, x) ==
  \/ Free(inbox[who], Spawns(x)) /\ x \notin dropSprites[who]
  \/ Ends(inbox[who], Clears(x), Spawns(x))

\* A drop that somebody has is about to be announced as gone, or has been to everybody.
TakenTold(x) ==
  \/ \E who \in DropPlayers : claimed[who] /\ picking[who] = x
  \/ Ends(broadcastQ, TakenOff(x), Spawns(x))
  \/ Free(broadcastQ, Spawns(x)) /\ \A who \in DropPlayers : inRoom[who] = "yes" => Vanished(who, x)
Unspawned == spawning \union (Floor!Ids \ 1..fallen)
TakenInv ==
  /\ HandlerTypes
  /\ \A x \in Unspawned : Free(broadcastQ, Spawns(x)) /\ \A who \in DropPlayers : Unknown(who, x)
  /\ \A x \in spawning : bag[x] = {}
  /\ \A x \in Floor!Ids : x \notin unheard /\ bag[x] # {} => TakenTold(x)

LEMMA TakenInitial == Floor!Init => TakenInv
<1> SUFFICES ASSUME Floor!Init PROVE TakenInv
  OBVIOUS
<1>1. /\ fallen = 0 /\ spawning = {} /\ bag = [x \in Floor!Ids |-> {}]
      /\ broadcastQ = <<>> /\ inbox = [who \in DropPlayers |-> <<>>]
      /\ inRoom = [who \in DropPlayers |-> "no"]
      /\ askedDrop = [who \in DropPlayers |-> NoDrop] /\ picking = [who \in DropPlayers |-> NoDrop]
      /\ claimed = [who \in DropPlayers |-> FALSE] /\ dropSprites = [who \in DropPlayers |-> {}]
  BY DEF Floor!Init
<1>2. NoDrop \notin Floor!Ids
  BY PlayAssumption DEF PlayAssumption
<1>3. /\ broadcastQ \in Seq(OfDrops) /\ inbox \in [DropPlayers -> Seq(OfDrops)]
      /\ \A x : Free(broadcastQ, Spawns(x)) /\ \A who \in DropPlayers : Free(inbox[who], Spawns(x))
  BY <1>1, NoneOrOne, NothingEnds
<1>4. HandlerTypes
  BY <1>1, <1>3 DEF HandlerTypes
<1>5. \A x \in Unspawned : \A who \in DropPlayers : Unknown(who, x)
  BY <1>1, <1>2, <1>3 DEF Unspawned, Unknown
<1> QED BY <1>1, <1>3, <1>4, <1>5 DEF TakenInv

\* What a player is told next, ...
LEMMA DropTold ==
  ASSUME NEW x, NEW who \in DropPlayers, inbox[who] \in Seq(OfDrops), NEW msg \in OfDrops,
         inbox'[who] = Append(inbox[who], msg), dropSprites'[who] = dropSprites[who]
  PROVE  /\ inbox'[who] \in Seq(OfDrops)
         /\ Free(inbox[who], Spawns(x)) /\ msg \notin Spawns(x) => Free(inbox'[who], Spawns(x))
         /\ (Vanished(who, x) /\ msg \notin Spawns(x)) \/ msg \in Clears(x) => Vanished(who, x)'
<1>1. /\ Append(inbox[who], msg) \in Seq(OfDrops)
      /\ Free(inbox[who], Spawns(x)) /\ msg \notin Spawns(x) => Free(Append(inbox[who], msg), Spawns(x))
  BY FreeAppend
<1>2. (msg \in Clears(x)) \/ (Ends(inbox[who], Clears(x), Spawns(x)) /\ msg \notin Spawns(x))
        => Ends(Append(inbox[who], msg), Clears(x), Spawns(x))
  BY EndsAppend
<1> QED BY <1>1, <1>2 DEF Vanished

\* ... and hears next.
LEMMA DropHeard ==
  ASSUME NEW x, NEW who \in DropPlayers, inbox[who] \in Seq(OfDrops), inbox[who] # <<>>,
         inbox'[who] = Tail(inbox[who]),
         Head(inbox[who]) \in Clears(x) => x \notin dropSprites'[who],
         Head(inbox[who]) \notin Spawns(x) /\ x \notin dropSprites[who] => x \notin dropSprites'[who]
  PROVE  /\ Free(inbox[who], Spawns(x)) /\ x \notin dropSprites[who] =>
              Free(inbox'[who], Spawns(x)) /\ x \notin dropSprites'[who]
         /\ Vanished(who, x) => Vanished(who, x)'
<1>1. /\ Free(inbox[who], Spawns(x)) => Head(inbox[who]) \notin Spawns(x) /\ Free(inbox'[who], Spawns(x))
      /\ Ends(inbox[who], Clears(x), Spawns(x)) =>
           \/ Ends(inbox'[who], Clears(x), Spawns(x))
           \/ Head(inbox[who]) \in Clears(x) /\ Free(inbox'[who], Spawns(x))
  BY EndsTail
<1> QED BY <1>1 DEF Vanished

\* The ground: a drop falls, is announced, expires.
LEMMA TakenGroundStep ==
  ASSUME TakenInv, GroundInv,
         Floor!AddDrop \/ Floor!CleanExpiredDrops \/ \E x \in Floor!Ids : Floor!BroadcastSpawn(x)
  PROVE  TakenInv'
<1> USE DEF Floor!clients, Floor!ground, Floor!handlers, Floor!place
<1>a. /\ HandlerTypes
      /\ \A x \in Unspawned : Free(broadcastQ, Spawns(x)) /\ \A who \in DropPlayers : Unknown(who, x)
      /\ \A x \in spawning : bag[x] = {}
      /\ \A x \in Floor!Ids : x \notin unheard /\ bag[x] # {} => TakenTold(x)
  BY DEF TakenInv
<1>b. UNCHANGED <<inbox, inRoom, askedDrop, picking, claimed, dropSprites, bag>>
  BY DEF Floor!AddDrop, Floor!CleanExpiredDrops, Floor!BroadcastSpawn
<1>c. /\ \A who \in DropPlayers : \A x : Unknown(who, x)' <=> Unknown(who, x)
      /\ \A who \in DropPlayers : \A x : Vanished(who, x)' <=> Vanished(who, x)
  BY <1>b DEF Unknown, Vanished
<1>1. CASE Floor!AddDrop
  <2>1. /\ fallen < MaxDrops /\ fallen' = fallen + 1 /\ spawning' = spawning \union {fallen + 1}
        /\ UNCHANGED <<broadcastQ, unheard>>
    BY <1>1 DEF Floor!AddDrop
  <2>2. fallen \in Nat /\ MaxDrops \in Nat /\ Floor!Ids = 1..MaxDrops
    BY PlayAssumption DEF GroundInv, DropTypes, PlayAssumption, Floor!Ids
  <2>3. fallen + 1 \in Floor!Ids \ 1..fallen
    BY <2>1, <2>2
  <2>4. Unspawned' \subseteq Unspawned
    BY <2>1, <2>2, <2>3 DEF Unspawned
  <2>5. bag[fallen + 1] = {}
    BY <2>3 DEF GroundInv
  <2>6. HandlerTypes'
    BY <1>a, <1>b, <2>1 DEF HandlerTypes
  <2>7. \A x : TakenTold(x)' <=> TakenTold(x)
    BY <1>b, <1>c, <2>1 DEF TakenTold
  <2> QED BY <1>a, <1>b, <1>c, <2>1, <2>4, <2>5, <2>6, <2>7 DEF TakenInv
<1>2. CASE Floor!CleanExpiredDrops
  <2>1. UNCHANGED <<fallen, spawning, broadcastQ, unheard>>
    BY <1>2 DEF Floor!CleanExpiredDrops
  <2>2. HandlerTypes' /\ Unspawned' = Unspawned
    BY <1>a, <1>b, <2>1 DEF HandlerTypes, Unspawned
  <2>3. \A x : TakenTold(x)' <=> TakenTold(x)
    BY <1>b, <1>c, <2>1 DEF TakenTold
  <2> QED BY <1>a, <1>b, <1>c, <2>1, <2>2, <2>3 DEF TakenInv
<1>3. ASSUME NEW y \in Floor!Ids, Floor!BroadcastSpawn(y) PROVE TakenInv'
  <2> DEFINE msg == [t |-> "spawn", id |-> y]
  <2>1. /\ y \in spawning /\ spawning' = spawning \ {y} /\ fallen' = fallen
        /\ \/ broadcastQ' = Append(broadcastQ, msg) /\ unheard' = unheard
           \/ broadcastQ' = broadcastQ /\ unheard' = unheard \union {y}
    BY <1>3 DEF Floor!BroadcastSpawn, Floor!Broadcast
  <2>2. msg \in OfDrops /\ \A x : x # y => msg \notin Spawns(x)
    BY DEF OfDrops, Spawns
  <2> HIDE DEF msg
  <2>3. broadcastQ \in Seq(OfDrops)
    BY <1>a DEF HandlerTypes
  <2>4. broadcastQ' \in Seq(OfDrops)
    BY <2>1, <2>2, <2>3
  <2>5. HandlerTypes'
    BY <1>a, <1>b, <2>4 DEF HandlerTypes
  <2>6. y \in 1..fallen /\ Unspawned' = Unspawned \ {y}
    BY <2>1 DEF Unspawned, GroundInv, DropTypes
  <2>7. ASSUME NEW x, x # y
        PROVE  /\ Free(broadcastQ, Spawns(x)) => Free(broadcastQ', Spawns(x))
               /\ TakenTold(x) => TakenTold(x)'
    <3>1. /\ Free(broadcastQ, Spawns(x)) => Free(Append(broadcastQ, msg), Spawns(x))
          /\ Ends(broadcastQ, TakenOff(x), Spawns(x)) => Ends(Append(broadcastQ, msg), TakenOff(x), Spawns(x))
      BY <2>2, <2>3, <2>7, FreeAppend, EndsAppend
    <3> QED BY <1>b, <1>c, <2>1, <3>1 DEF TakenTold
  <2>8. \A x \in Floor!Ids : x \notin unheard' /\ bag'[x] # {} => TakenTold(x)'
    BY <1>a, <1>b, <2>1, <2>7
  <2> QED BY <1>a, <1>b, <1>c, <2>1, <2>5, <2>6, <2>7, <2>8 DEF TakenInv
<1> QED BY <1>1, <1>2, <1>3

\* The room: it delivers, players come and go.
LEMMA TakenRoomStep ==
  ASSUME TakenInv,
         \/ Floor!Deliver
         \/ \E who \in DropPlayers : Floor!AddPlayer(who) \/ Floor!SendMapInit(who) \/ Floor!RemovePlayer(who)
  PROVE  TakenInv'
<1> USE DEF Floor!clients, Floor!ground, Floor!handlers, Floor!place
<1>a. /\ HandlerTypes
      /\ \A x \in Unspawned : Free(broadcastQ, Spawns(x)) /\ \A who \in DropPlayers : Unknown(who, x)
      /\ \A x \in spawning : bag[x] = {}
      /\ \A x \in Floor!Ids : x \notin unheard /\ bag[x] # {} => TakenTold(x)
  BY DEF TakenInv
<1>b. UNCHANGED <<fallen, spawning, bag, askedDrop, picking, claimed, dropSprites, unheard>>
  BY DEF Floor!Deliver, Floor!AddPlayer, Floor!SendMapInit, Floor!RemovePlayer
<1>c. Unspawned' = Unspawned
  BY <1>b DEF Unspawned
<1>d. /\ broadcastQ \in Seq(OfDrops) /\ inbox \in [DropPlayers -> Seq(OfDrops)]
      /\ inRoom \in [DropPlayers -> {"no", "added", "yes"}]
      /\ \A who \in DropPlayers : inbox[who] \in Seq(OfDrops)
  BY <1>a DEF HandlerTypes
<1>1. CASE Floor!Deliver
  <2> DEFINE msg == Head(broadcastQ)
             has(who) == IF inRoom[who] = "no" THEN inbox[who] ELSE Append(inbox[who], msg)
  <2>1. /\ broadcastQ # <<>> /\ broadcastQ' = Tail(broadcastQ) /\ inRoom' = inRoom
        /\ inbox' = [who \in DropPlayers |-> has(who)]
    BY <1>1 DEF Floor!Deliver
  <2>2. msg \in OfDrops /\ broadcastQ' \in Seq(OfDrops)
    BY <1>d, <2>1, EndsTail
  <2>3. /\ inbox' \in [DropPlayers -> Seq(OfDrops)]
        /\ \A who \in DropPlayers : \/ inbox'[who] = inbox[who] /\ inRoom[who] = "no"
                                    \/ inbox'[who] = Append(inbox[who], msg)
    <3>1. \A who \in DropPlayers : has(who) \in Seq(OfDrops)
      BY <1>d, <2>2
    <3>2. \A who \in DropPlayers : inbox'[who] = has(who)
      BY <2>1
    <3> HIDE DEF msg
    <3>3. \A who \in DropPlayers : \/ has(who) = inbox[who] /\ inRoom[who] = "no"
                                   \/ has(who) = Append(inbox[who], msg)
      OBVIOUS
    <3> HIDE DEF has
    <3> QED BY <2>1, <3>1, <3>2, <3>3
  <2> HIDE DEF msg, has
  <2>4. HandlerTypes'
    BY <1>a, <1>b, <2>1, <2>2, <2>3 DEF HandlerTypes
  <2>5. ASSUME NEW x
        PROVE  /\ Free(broadcastQ, Spawns(x)) => msg \notin Spawns(x) /\ Free(broadcastQ', Spawns(x))
               /\ Ends(broadcastQ, TakenOff(x), Spawns(x)) =>
                    \/ Ends(broadcastQ', TakenOff(x), Spawns(x))
                    \/ msg \in TakenOff(x) /\ Free(broadcastQ', Spawns(x))
    BY <1>d, <2>1, EndsTail DEF msg
  <2>6. ASSUME NEW x, NEW who \in DropPlayers
        PROVE  /\ Unknown(who, x) /\ msg \notin Spawns(x) => Unknown(who, x)'
               /\ Vanished(who, x) /\ msg \notin Spawns(x) => Vanished(who, x)'
               /\ msg \in Clears(x) /\ inRoom[who] = "yes" => Vanished(who, x)'
    <3>1. CASE inbox'[who] = inbox[who] /\ inRoom[who] = "no"
      BY <1>b, <3>1 DEF Unknown, Vanished
    <3>2. CASE inbox'[who] = Append(inbox[who], msg)
      <4>1. /\ Free(inbox[who], Spawns(x)) /\ msg \notin Spawns(x) => Free(inbox'[who], Spawns(x))
            /\ (Vanished(who, x) /\ msg \notin Spawns(x)) \/ msg \in Clears(x) => Vanished(who, x)'
        BY <1>b, <1>d, <2>2, <3>2, DropTold
      <4> QED BY <1>b, <4>1 DEF Unknown
    <3> QED BY <2>3, <3>1, <3>2
  <2>7. ASSUME NEW x \in Floor!Ids, TakenTold(x) PROVE TakenTold(x)'
    <3>1. CASE \E who \in DropPlayers : claimed[who] /\ picking[who] = x
      BY <1>b, <3>1 DEF TakenTold
    <3>2. CASE msg \in TakenOff(x) /\ Free(broadcastQ', Spawns(x))
      <4>1. msg \in Clears(x)
        BY <3>2 DEF TakenOff, Clears
      <4> QED BY <2>1, <2>6, <3>2, <4>1 DEF TakenTold
    <3>3. CASE Ends(broadcastQ', TakenOff(x), Spawns(x))
      BY <3>3 DEF TakenTold
    <3>4. CASE Free(broadcastQ, Spawns(x)) /\ \A who \in DropPlayers : inRoom[who] = "yes" => Vanished(who, x)
      <4>1. msg \notin Spawns(x) /\ Free(broadcastQ', Spawns(x))
        BY <2>5, <3>4
      <4> QED BY <2>1, <2>6, <3>4, <4>1 DEF TakenTold
    <3> QED BY <2>5, <2>7, <3>1, <3>2, <3>3, <3>4 DEF TakenTold
  <2> QED BY <1>a, <1>b, <1>c, <2>4, <2>5, <2>6, <2>7 DEF TakenInv
<1>2. ASSUME NEW who \in DropPlayers, Floor!SendMapInit(who) PROVE TakenInv'
  <2> DEFINE msg == [t |-> "init", id |-> NoDrop]
  <2>1. /\ broadcastQ' = broadcastQ /\ inRoom[who] = "added" /\ inRoom' = [inRoom EXCEPT ![who] = "yes"]
        /\ inbox' = [inbox EXCEPT ![who] = Append(@, msg)]
    BY <1>2 DEF Floor!SendMapInit
  <2>2. msg \in OfDrops /\ \A x : msg \in Clears(x) /\ msg \notin Spawns(x)
    BY DEF OfDrops, Clears, Spawns
  <2> HIDE DEF msg
  <2>3. /\ inbox' \in [DropPlayers -> Seq(OfDrops)] /\ inbox'[who] = Append(inbox[who], msg)
        /\ \A q1 \in DropPlayers \ {who} : inbox'[q1] = inbox[q1]
    BY <1>d, <2>1, <2>2
  <2>4. /\ inRoom' \in [DropPlayers -> {"no", "added", "yes"}]
        /\ \A q1 \in DropPlayers \ {who} : inRoom'[q1] = inRoom[q1]
    BY <1>d, <2>1
  <2>5. HandlerTypes'
    BY <1>a, <1>b, <2>1, <2>3, <2>4 DEF HandlerTypes
  <2>6. ASSUME NEW x, NEW q1 \in DropPlayers
        PROVE  /\ Unknown(q1, x) => Unknown(q1, x)'
               /\ q1 # who /\ Vanished(q1, x) => Vanished(q1, x)'
               /\ q1 = who => Vanished(q1, x)'
    <3>1. CASE q1 # who
      BY <1>b, <2>3, <3>1 DEF Unknown, Vanished
    <3>2. CASE q1 = who
      <4>1. /\ Free(inbox[q1], Spawns(x)) /\ msg \notin Spawns(x) => Free(inbox'[q1], Spawns(x))
            /\ (Vanished(q1, x) /\ msg \notin Spawns(x)) \/ msg \in Clears(x) => Vanished(q1, x)'
        BY <1>b, <1>d, <2>2, <2>3, <3>2, DropTold
      <4> QED BY <1>b, <2>2, <3>2, <4>1 DEF Unknown
    <3> QED BY <3>1, <3>2
  <2>7. ASSUME NEW x, TakenTold(x) PROVE TakenTold(x)'
    BY <1>b, <2>1, <2>4, <2>6, <2>7 DEF TakenTold
  <2> QED BY <1>a, <1>b, <1>c, <2>1, <2>5, <2>6, <2>7 DEF TakenInv
<1>3. ASSUME NEW who \in DropPlayers, Floor!AddPlayer(who) \/ Floor!RemovePlayer(who) PROVE TakenInv'
  <2>1. /\ UNCHANGED <<broadcastQ, inbox>>
        /\ inRoom' = [inRoom EXCEPT ![who] = "added"] \/ inRoom' = [inRoom EXCEPT ![who] = "no"]
    BY <1>3 DEF Floor!AddPlayer, Floor!RemovePlayer
  <2>2. /\ inRoom' \in [DropPlayers -> {"no", "added", "yes"}]
        /\ \A q1 \in DropPlayers : inRoom'[q1] = "yes" => inRoom[q1] = "yes"
    BY <1>d, <2>1
  <2>3. HandlerTypes'
    BY <1>a, <1>b, <2>1, <2>2 DEF HandlerTypes
  <2>4. \A q1 \in DropPlayers : \A x : (Unknown(q1, x)' <=> Unknown(q1, x)) /\ (Vanished(q1, x)' <=> Vanished(q1, x))
    BY <1>b, <2>1 DEF Unknown, Vanished
  <2>5. \A x : TakenTold(x) => TakenTold(x)'
    BY <1>b, <2>1, <2>2, <2>4 DEF TakenTold
  <2> QED BY <1>a, <1>b, <1>c, <2>1, <2>3, <2>4, <2>5 DEF TakenInv
<1> QED BY <1>1, <1>2, <1>3

\* The handlers: a drop is looked up, consumed, announced as gone.
LEMMA TakenHandlerStep ==
  ASSUME TakenInv, GroundInv, NEW who \in DropPlayers,
         Floor!GetDrop(who) \/ Floor!ConsumeDrop(who) \/ Floor!BroadcastRemove(who)
  PROVE  TakenInv'
<1> USE DEF Floor!clients, Floor!ground, Floor!handlers, Floor!place
<1>a. /\ HandlerTypes
      /\ \A x \in Unspawned : Free(broadcastQ, Spawns(x)) /\ \A q1 \in DropPlayers : Unknown(q1, x)
      /\ \A x \in spawning : bag[x] = {}
      /\ \A x \in Floor!Ids : x \notin unheard /\ bag[x] # {} => TakenTold(x)
  BY DEF TakenInv
<1>b. UNCHANGED <<fallen, spawning, inbox, inRoom, dropSprites>>
  BY DEF Floor!GetDrop, Floor!ConsumeDrop, Floor!BroadcastRemove
<1>c. Unspawned' = Unspawned /\ \A q1, x : Vanished(q1, x)' <=> Vanished(q1, x)
  BY <1>b DEF Unspawned, Vanished
<1>d. /\ broadcastQ \in Seq(OfDrops)
      /\ askedDrop \in [DropPlayers -> Floor!Ids \union {NoDrop}]
      /\ picking \in [DropPlayers -> Floor!Ids \union {NoDrop}]
      /\ claimed \in [DropPlayers -> BOOLEAN]
      /\ \A q1 \in DropPlayers : claimed[q1] => picking[q1] # NoDrop
  BY <1>a DEF HandlerTypes
<1>e. NoDrop \notin Floor!Ids /\ Floor!Ids \cap Unspawned = Unspawned
  BY PlayAssumption DEF PlayAssumption, Unspawned, GroundInv, DropTypes, Floor!Ids
\* In the hands of others nothing changes; this one has nothing that is not known.
<1>f. SUFFICES /\ askedDrop' \in [DropPlayers -> Floor!Ids \union {NoDrop}]
               /\ picking' \in [DropPlayers -> Floor!Ids \union {NoDrop}]
               /\ claimed' \in [DropPlayers -> BOOLEAN]
               /\ \A q1 \in DropPlayers \ {who} :
                    /\ askedDrop'[q1] = askedDrop[q1] /\ picking'[q1] = picking[q1]
                    /\ claimed'[q1] = claimed[q1]
               /\ askedDrop'[who] \in {askedDrop[who], NoDrop}
               /\ picking'[who] \in {picking[who], askedDrop[who], NoDrop}
               /\ claimed'[who] => picking'[who] # NoDrop
               /\ broadcastQ' \in Seq(OfDrops)
               /\ \A x : Free(broadcastQ, Spawns(x)) => Free(broadcastQ', Spawns(x))
               /\ \A x \in spawning : bag'[x] = {}
               /\ \A x \in Floor!Ids : x \notin unheard' /\ bag'[x] # {} => TakenTold(x)'
  <2>1. HandlerTypes'
    BY <1>a, <1>b, <1>d, <1>f DEF HandlerTypes
  <2>2. ASSUME NEW x \in Unspawned, NEW q1 \in DropPlayers, Unknown(q1, x) PROVE Unknown(q1, x)'
    <3>1. x # NoDrop
      BY <1>e
    <3>2. Free(inbox[q1], Spawns(x)) /\ x \notin dropSprites[q1] /\ askedDrop[q1] # x /\ picking[q1] # x
      BY <2>2 DEF Unknown
    <3>3. askedDrop'[q1] # x /\ picking'[q1] # x
      BY <1>f, <3>1, <3>2
    <3> QED BY <1>b, <3>2, <3>3 DEF Unknown
  <2> QED BY <1>a, <1>b, <1>c, <1>f, <2>1, <2>2 DEF TakenInv
<1>1. CASE Floor!GetDrop(who)
  <2>1. /\ askedDrop[who] # NoDrop /\ picking[who] = NoDrop
        /\ askedDrop' = [askedDrop EXCEPT ![who] = NoDrop]
        /\ picking' = [picking EXCEPT ![who] = askedDrop[who]] \/ picking' = picking
        /\ UNCHANGED <<bag, broadcastQ, claimed, unheard>>
    BY <1>1 DEF Floor!GetDrop
  <2>2. /\ askedDrop' \in [DropPlayers -> Floor!Ids \union {NoDrop}] /\ askedDrop'[who] = NoDrop
        /\ \A q1 \in DropPlayers \ {who} : askedDrop'[q1] = askedDrop[q1]
    BY <1>d, <2>1
  <2>3. /\ picking' \in [DropPlayers -> Floor!Ids \union {NoDrop}] /\ picking'[who] \in {picking[who], askedDrop[who]}
        /\ \A q1 \in DropPlayers \ {who} : picking'[q1] = picking[q1]
    BY <1>d, <2>1
  <2>4. ~claimed[who]
    BY <1>d, <2>1
  <2>5. ASSUME NEW x \in Floor!Ids, TakenTold(x) PROVE TakenTold(x)'
    <3>1. ASSUME NEW q1 \in DropPlayers, claimed[q1], picking[q1] = x PROVE claimed'[q1] /\ picking'[q1] = x
      BY <2>1, <2>3, <2>4, <3>1
    <3> QED BY <1>b, <1>c, <2>1, <2>5, <3>1 DEF TakenTold
  <2> QED BY <1>a, <1>b, <1>d, <2>1, <2>2, <2>3, <2>4, <2>5
<1>2. CASE Floor!ConsumeDrop(who)
  <2> DEFINE y == picking[who]
  <2>1. PICK wr \in BOOLEAN :
          /\ bag' = IF y \in floor /\ wr THEN [bag EXCEPT ![y] = @ \union {who}] ELSE bag
          /\ claimed' = [claimed EXCEPT ![who] = y \in floor /\ wr]
          /\ picking' = IF y \in floor /\ wr THEN picking ELSE [picking EXCEPT ![who] = NoDrop]
    BY <1>2 DEF Floor!ConsumeDrop
  <2>2. y # NoDrop /\ ~claimed[who] /\ UNCHANGED <<broadcastQ, askedDrop, unheard>>
    BY <1>2 DEF Floor!ConsumeDrop
  <2>3. y \in Floor!Ids /\ y \notin spawning
    <3>1. y \in Floor!Ids
      BY <1>d, <2>2
    <3>2. ASSUME y \in spawning PROVE FALSE
      <4>1. Unknown(who, y)
        BY <1>a, <3>2 DEF Unspawned
      <4> QED BY <4>1 DEF Unknown
    <3> QED BY <3>1, <3>2
  <2>4. /\ picking' \in [DropPlayers -> Floor!Ids \union {NoDrop}] /\ picking'[who] \in {y, NoDrop}
        /\ \A q1 \in DropPlayers \ {who} : picking'[q1] = picking[q1]
        /\ y \in floor /\ wr => picking'[who] = y
    BY <1>d, <2>1
  <2>5. /\ claimed' \in [DropPlayers -> BOOLEAN] /\ claimed'[who] = (y \in floor /\ wr)
        /\ \A q1 \in DropPlayers \ {who} : claimed'[q1] = claimed[q1]
    BY <1>d, <2>1
  <2>6. \A x \in Floor!Ids : x # y \/ ~(y \in floor /\ wr) => bag'[x] = bag[x]
    BY <2>1 DEF GroundInv, DropTypes
  <2> HIDE DEF y
  <2>7. ASSUME NEW x \in Floor!Ids, TakenTold(x) PROVE TakenTold(x)'
    <3>1. ASSUME NEW q1 \in DropPlayers, claimed[q1], picking[q1] = x PROVE claimed'[q1] /\ picking'[q1] = x
      BY <2>2, <2>4, <2>5, <3>1
    <3> QED BY <1>b, <1>c, <2>2, <2>7, <3>1 DEF TakenTold
  <2>8. ASSUME NEW x \in Floor!Ids, x \notin unheard', bag'[x] # {} PROVE TakenTold(x)'
    <3>1. CASE x = y /\ y \in floor /\ wr
      <4>1. claimed'[who] /\ picking'[who] = x
        BY <2>4, <2>5, <3>1
      <4> QED BY <4>1 DEF TakenTold
    <3>2. CASE ~(x = y /\ y \in floor /\ wr)
      <4>1. bag'[x] = bag[x]
        BY <2>6, <3>2
      <4> QED BY <1>a, <2>2, <2>7, <2>8, <4>1
    <3> QED BY <3>1, <3>2
  <2>9. ASSUME NEW x \in spawning PROVE bag'[x] = {}
    <3>1. x \in Floor!Ids /\ bag[x] = {}
      BY <1>a, <1>e, <2>9 DEF Unspawned
    <3> QED BY <2>3, <2>6, <2>9, <3>1
  <2> QED BY <1>d, <2>2, <2>4, <2>5, <2>8, <2>9 DEF y
<1>3. CASE Floor!BroadcastRemove(who)
  <2> DEFINE y == picking[who]
             msg == [t |-> "remove", id |-> y]
  <2>1. /\ claimed[who] /\ claimed' = [claimed EXCEPT ![who] = FALSE]
        /\ picking' = [picking EXCEPT ![who] = NoDrop] /\ UNCHANGED <<bag, askedDrop>>
        /\ \/ broadcastQ' = Append(broadcastQ, msg) /\ unheard' = unheard
           \/ broadcastQ' = broadcastQ /\ unheard' = unheard \union {y}
    BY <1>3 DEF Floor!BroadcastRemove, Floor!Broadcast
  <2>2. y \in Floor!Ids
    BY <1>d, <2>1
  <2>3. msg \in OfDrops /\ msg \in TakenOff(y) /\ \A x : msg \notin Spawns(x)
    BY <2>2 DEF OfDrops, TakenOff, Spawns
  <2>4. /\ picking' \in [DropPlayers -> Floor!Ids \union {NoDrop}] /\ picking'[who] = NoDrop
        /\ \A q1 \in DropPlayers \ {who} : picking'[q1] = picking[q1]
    BY <1>d, <2>1
  <2>5. /\ claimed' \in [DropPlayers -> BOOLEAN] /\ claimed'[who] = FALSE
        /\ \A q1 \in DropPlayers \ {who} : claimed'[q1] = claimed[q1]
    BY <1>d, <2>1
  <2> HIDE DEF msg
  <2>6. broadcastQ' \in Seq(OfDrops) /\ \A x : Free(broadcastQ, Spawns(x)) => Free(broadcastQ', Spawns(x))
    <3>1. /\ Append(broadcastQ, msg) \in Seq(OfDrops)
          /\ \A x : Free(broadcastQ, Spawns(x)) => Free(Append(broadcastQ, msg), Spawns(x))
      BY <1>d, <2>3, FreeAppend
    <3> QED BY <1>d, <2>1, <3>1
  <2>7. ASSUME NEW x \in Floor!Ids, x \notin unheard', bag'[x] # {} PROVE TakenTold(x)'
    <3>1. TakenTold(x) /\ (x = y => broadcastQ' = Append(broadcastQ, msg))
      BY <1>a, <2>1, <2>7
    <3>2. CASE x = y
      <4>1. Ends(Append(broadcastQ, msg), TakenOff(x), Spawns(x))
        BY <1>d, <2>3, <3>2, EndsAppend
      <4> QED BY <3>1, <3>2, <4>1 DEF TakenTold
    <3>3. CASE x # y
      <4>1. ASSUME NEW q1 \in DropPlayers, claimed[q1], picking[q1] = x PROVE claimed'[q1] /\ picking'[q1] = x
        BY <2>4, <2>5, <3>3, <4>1
      <4>2. Ends(broadcastQ, TakenOff(x), Spawns(x)) => Ends(broadcastQ', TakenOff(x), Spawns(x))
        <5>1. Ends(broadcastQ, TakenOff(x), Spawns(x)) => Ends(Append(broadcastQ, msg), TakenOff(x), Spawns(x))
          BY <1>d, <2>3, EndsAppend
        <5> QED BY <2>1, <5>1
      <4> QED BY <1>b, <1>c, <2>6, <3>1, <4>1, <4>2 DEF TakenTold
    <3> QED BY <3>2, <3>3
  <2> HIDE DEF y
  <2> QED BY <1>a, <1>d, <2>1, <2>4, <2>5, <2>6, <2>7 DEF y
<1> QED BY <1>1, <1>2, <1>3

\* The clients: they hear, click and change scenes.
LEMMA TakenClientStep ==
  ASSUME TakenInv, GroundInv, NEW who \in DropPlayers,
         Floor!Hear(who) \/ Floor!ChangeScene(who) \/ \E x \in dropSprites[who] : Floor!Click(who, x)
  PROVE  TakenInv'
<1> USE DEF Floor!clients, Floor!ground, Floor!handlers, Floor!place
<1>a. /\ HandlerTypes
      /\ \A x \in Unspawned : Free(broadcastQ, Spawns(x)) /\ \A q1 \in DropPlayers : Unknown(q1, x)
      /\ \A x \in spawning : bag[x] = {}
      /\ \A x \in Floor!Ids : x \notin unheard /\ bag[x] # {} => TakenTold(x)
  BY DEF TakenInv
<1>b. UNCHANGED <<fallen, spawning, bag, broadcastQ, inRoom, picking, claimed, unheard>>
  BY DEF Floor!Hear, Floor!ChangeScene, Floor!Click
<1>c. Unspawned' = Unspawned
  BY <1>b DEF Unspawned
<1>d. /\ inbox \in [DropPlayers -> Seq(OfDrops)]
      /\ askedDrop \in [DropPlayers -> Floor!Ids \union {NoDrop}]
      /\ dropSprites \in [DropPlayers -> SUBSET Floor!Ids]
  BY <1>a DEF HandlerTypes
<1>e. SUFFICES /\ inbox' \in [DropPlayers -> Seq(OfDrops)]
               /\ askedDrop' \in [DropPlayers -> Floor!Ids \union {NoDrop}]
               /\ dropSprites' \in [DropPlayers -> SUBSET Floor!Ids]
               /\ \A q1 \in DropPlayers : \A x \in Floor!Ids :
                    /\ Unknown(q1, x) => Unknown(q1, x)'
                    /\ Vanished(q1, x) => Vanished(q1, x)'
  <2>1. HandlerTypes'
    BY <1>a, <1>b, <1>e DEF HandlerTypes
  <2>2. ASSUME NEW x \in Floor!Ids, TakenTold(x) PROVE TakenTold(x)'
    BY <1>b, <1>e, <2>2 DEF TakenTold
  <2>3. ASSUME NEW x \in Unspawned, NEW q1 \in DropPlayers PROVE Unknown(q1, x)'
    <3>1. x \in Floor!Ids
      BY PlayAssumption DEF PlayAssumption, Unspawned, GroundInv, DropTypes, Floor!Ids
    <3> QED BY <1>a, <1>e, <3>1
  <2> QED BY <1>a, <1>b, <1>c, <2>1, <2>2, <2>3 DEF TakenInv
<1>1. CASE Floor!Hear(who)
  <2> DEFINE msg == Head(inbox[who])
             seen == CASE msg.t = "init" -> {}
                       [] msg.t = "spawn" -> dropSprites[who] \union {msg.id}
                       [] msg.t = "remove" -> dropSprites[who] \ {msg.id}
  <2>1. /\ inbox[who] # <<>> /\ inbox' = [inbox EXCEPT ![who] = Tail(inbox[who])]
        /\ dropSprites' = [dropSprites EXCEPT ![who] = seen] /\ askedDrop' = askedDrop
    BY <1>1 DEF Floor!Hear
  <2>2. inbox[who] \in Seq(OfDrops) /\ dropSprites[who] \subseteq Floor!Ids
    BY <1>d
  <2>3. msg \in OfDrops /\ Tail(inbox[who]) \in Seq(OfDrops)
    BY <2>1, <2>2, EndsTail
  <2>4. /\ inbox' \in [DropPlayers -> Seq(OfDrops)] /\ inbox'[who] = Tail(inbox[who])
        /\ \A q1 \in DropPlayers \ {who} : inbox'[q1] = inbox[q1]
    BY <1>d, <2>1, <2>3
  <2>5. /\ msg.t \in {"init", "spawn", "remove"} /\ (msg.t # "init" => msg.id \in Floor!Ids)
        /\ \A x : msg \in Spawns(x) <=> msg.t = "spawn" /\ msg.id = x
        /\ \A x : msg \in Clears(x) <=> msg.t = "init" \/ (msg.t = "remove" /\ msg.id = x)
    BY <2>3 DEF OfDrops, Spawns, Clears
  <2> HIDE DEF msg
  <2>6. /\ msg.t = "init" => seen = {}
        /\ msg.t = "spawn" => seen = dropSprites[who] \union {msg.id}
        /\ msg.t = "remove" => seen = dropSprites[who] \ {msg.id}
    OBVIOUS
  <2> HIDE DEF seen
  <2>7. seen \subseteq Floor!Ids
    BY <2>2, <2>5, <2>6
  <2>8. /\ dropSprites' \in [DropPlayers -> SUBSET Floor!Ids] /\ dropSprites'[who] = seen
        /\ \A q1 \in DropPlayers \ {who} : dropSprites'[q1] = dropSprites[q1]
    BY <1>d, <2>1, <2>7
  <2>9. ASSUME NEW q1 \in DropPlayers, NEW x \in Floor!Ids
        PROVE  /\ Unknown(q1, x) => Unknown(q1, x)'
               /\ Vanished(q1, x) => Vanished(q1, x)'
    <3>1. CASE q1 # who
      BY <1>b, <2>1, <2>4, <2>8, <3>1 DEF Unknown, Vanished
    <3>2. CASE q1 = who
      <4>1. /\ msg \in Clears(x) => x \notin seen
            /\ msg \notin Spawns(x) /\ x \notin dropSprites[who] => x \notin seen
        BY <2>5, <2>6
      <4>2. /\ Free(inbox[who], Spawns(x)) /\ x \notin dropSprites[who] =>
                 Free(inbox'[who], Spawns(x)) /\ x \notin dropSprites'[who]
            /\ Vanished(who, x) => Vanished(who, x)'
        BY <2>1, <2>2, <2>4, <2>8, <4>1, DropHeard DEF msg
      <4> QED BY <1>b, <2>1, <3>2, <4>2 DEF Unknown
    <3> QED BY <3>1, <3>2
  <2> QED BY <1>d, <2>1, <2>4, <2>8, <2>9
<1>2. CASE Floor!ChangeScene(who)
  <2>1. dropSprites' = [dropSprites EXCEPT ![who] = {}] /\ UNCHANGED <<inbox, askedDrop>>
    BY <1>2 DEF Floor!ChangeScene
  <2>2. /\ dropSprites' \in [DropPlayers -> SUBSET Floor!Ids]
        /\ \A q1 \in DropPlayers : dropSprites'[q1] \subseteq dropSprites[q1]
    BY <1>d, <2>1
  <2> QED BY <1>b, <1>d, <2>1, <2>2 DEF Unknown, Vanished
<1>3. CASE \E x \in dropSprites[who] : Floor!Click(who, x)
  <2>0. PICK y \in dropSprites[who] : Floor!Click(who, y)
    BY <1>3
  <2>1. askedDrop' = [askedDrop EXCEPT ![who] = y] /\ UNCHANGED <<inbox, dropSprites>>
    BY <2>0 DEF Floor!Click
  <2>2. y \in Floor!Ids
    BY <1>d
  <2>3. /\ askedDrop' \in [DropPlayers -> Floor!Ids \union {NoDrop}] /\ askedDrop'[who] = y
        /\ \A q1 \in DropPlayers \ {who} : askedDrop'[q1] = askedDrop[q1]
    BY <1>d, <2>1, <2>2
  <2>4. ASSUME NEW q1 \in DropPlayers, NEW x \in Floor!Ids, Unknown(q1, x) PROVE Unknown(q1, x)'
    <3>1. q1 = who => x # y
      BY <2>4 DEF Unknown
    <3> QED BY <1>b, <2>1, <2>3, <2>4, <3>1 DEF Unknown
  <2>5. \A q1 \in DropPlayers : \A x \in Floor!Ids : Vanished(q1, x) => Vanished(q1, x)'
    BY <2>1 DEF Vanished
  <2> QED BY <1>d, <2>1, <2>3, <2>4, <2>5
<1> QED BY <1>1, <1>2, <1>3

LEMMA TakenStep == TakenInv /\ GroundInv /\ [Floor!Next]_g => TakenInv'
<1> SUFFICES ASSUME TakenInv, GroundInv, [Floor!Next]_g PROVE TakenInv'
  OBVIOUS
<1>1. CASE UNCHANGED g
  BY <1>1 DEF g, TakenInv, HandlerTypes, Unspawned, Unknown, TakenTold, Vanished
<1>2. CASE Floor!AddDrop \/ Floor!CleanExpiredDrops \/ \E x \in Floor!Ids : Floor!BroadcastSpawn(x)
  BY <1>2, TakenGroundStep
<1>3. CASE \/ Floor!Deliver
           \/ \E who \in DropPlayers : Floor!AddPlayer(who) \/ Floor!SendMapInit(who) \/ Floor!RemovePlayer(who)
  BY <1>3, TakenRoomStep
<1>4. ASSUME NEW who \in DropPlayers, Floor!GetDrop(who) \/ Floor!ConsumeDrop(who) \/ Floor!BroadcastRemove(who)
      PROVE  TakenInv'
  BY <1>4, TakenHandlerStep
<1>5. ASSUME NEW who \in DropPlayers,
             Floor!Hear(who) \/ Floor!ChangeScene(who) \/ \E x \in dropSprites[who] : Floor!Click(who, x)
      PROVE  TakenInv'
  BY <1>5, TakenClientStep
<1> QED BY <1>1, <1>2, <1>3, <1>4, <1>5 DEF Floor!Next

LEMMA TakenShown == TakenInv => Floor!NoneTaken
<1> SUFFICES ASSUME TakenInv, NEW who \in DropPlayers, Floor!Settled(who),
                    NEW x \in dropSprites[who], x \notin unheard, bag[x] # {}
             PROVE  FALSE
  BY DEF Floor!NoneTaken
<1>1. /\ inRoom[who] = "yes" /\ inbox[who] = <<>> /\ broadcastQ = <<>>
      /\ \A q1 \in DropPlayers : ~claimed[q1]
  BY DEF Floor!Settled
<1>2. x \in Floor!Ids
  BY DEF TakenInv, HandlerTypes
<1>3. TakenTold(x)
  BY <1>2 DEF TakenInv
<1>4. Vanished(who, x)
  BY <1>1, <1>3, NothingEnds DEF TakenTold
<1> QED BY <1>1, <1>4, NothingEnds DEF Vanished
=============================================================================
