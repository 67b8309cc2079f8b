-------------------------- MODULE TurnBattleProofs --------------------------
(***************************************************************************)
(* Theorems about TurnBattle: types, and that inputCh is big enough and    *)
(* never holds an answer for a later turn, for any number of participants. *)
(***************************************************************************)
EXTENDS TurnBattle, FiniteSetTheorems, TLAPS

\* An input is told apart by its actor and by whether the player sent it.
Tag(input)   == <<input.actor, input.dummy>>
Tags(s)      == {Tag(s[k]) : k \in 1 .. Len(s)}
AllApart(s)  == \A j, k \in 1 .. Len(s) : Tag(s[j]) = Tag(s[k]) => j = k

IsAsk(e)     == e.kind = "ask"
Requests(s)  == {s[k].actor : k \in {j \in 1 .. Len(s) : IsAsk(s[j])}}
AskedOnce(s) == \A j, k \in 1 .. Len(s) :
                  IsAsk(s[j]) /\ IsAsk(s[k]) /\ s[j].actor = s[k].actor => j = k

\* An input of the actor is in inputCh, or taken out to be put back.
InFlight(i, dummy) == <<i, dummy>> \in Tags(inputCh) \/ Tag(held) = <<i, dummy>>

\* A request of the actor is under way, with its client, or answered.
Pending(i) == i \in Requests(events) \/ i \in asked \/ InFlight(i, FALSE)

ChanInv ==
  /\ AllApart(inputCh) /\ Tag(held) \notin Tags(inputCh)
  /\ pc # "putback" => held = NoInput
  /\ pc = "putback" => held \in Input

\* The input that stands for a disconnected player is pushed once, after the flag.
DummyInv ==
  \A i \in Actors : /\ InFlight(i, TRUE) => i \in disc /\ mon[i] \notin {"watch", "push"}
                    /\ mon[i] = "push" => i \in disc

\* A request is in one place at a time, ...
OnceInv ==
  /\ AskedOnce(events)
  /\ \A i \in Actors : /\ i \in Requests(events) => i \notin asked /\ ~InFlight(i, FALSE)
                       /\ i \in asked => ~InFlight(i, FALSE)

\* ... and only that of the actor who is waited for, unless the player has gone,
\* who will not be asked again, or the battle has ended.
PendingInv ==
  \A i \in Actors :
    Pending(i) => \/ Waiting(i)
                  \/ i \in disc /\ ~(pc = "ask" /\ at = i)
                  \/ pc \in {"end", "cleanup", "over"}

\* Only an actor that there is is asked.
AtInv == pc \in {"ask", "wait", "putback"} => at \in Actors

InputInv == TypeOK /\ AtInv /\ ChanInv /\ DummyInv /\ OnceInv /\ PendingInv
-----------------------------------------------------------------------------
(* Sequences of inputs and of events *)

LEMMA TailApart ==
  ASSUME NEW s \in Seq(Input), s # <<>>, AllApart(s)
  PROVE  /\ Tail(s) \in Seq(Input) /\ Head(s) \in Input /\ AllApart(Tail(s))
         /\ Tags(s) = Tags(Tail(s)) \cup {Tag(Head(s))}
         /\ Tag(Head(s)) \notin Tags(Tail(s))
<1>1. /\ Len(s) \in Nat \ {0} /\ Len(Tail(s)) = Len(s) - 1 /\ Head(s) = s[1]
      /\ Tail(s) \in Seq(Input) /\ Head(s) \in Input
      /\ \A k \in 1 .. Len(s) - 1 : Tail(s)[k] = s[k + 1]
  OBVIOUS
<1>2. AllApart(Tail(s)) /\ Tag(Head(s)) \notin Tags(Tail(s))
  BY <1>1 DEF AllApart, Tags
<1>3. Tags(s) \subseteq Tags(Tail(s)) \cup {Tag(Head(s))}
  <2>1. ASSUME NEW k \in 1 .. Len(s), k # 1
        PROVE  Tag(s[k]) \in Tags(Tail(s))
    <3>1. k - 1 \in 1 .. Len(Tail(s)) /\ Tail(s)[k - 1] = s[k]
      BY <1>1, <2>1
    <3> QED
      BY <3>1 DEF Tags
  <2> QED
    BY <2>1, <1>1 DEF Tags
<1>4. Tags(Tail(s)) \cup {Tag(Head(s))} \subseteq Tags(s)
  <2>1. ASSUME NEW k \in 1 .. Len(Tail(s))
        PROVE  Tag(Tail(s)[k]) \in Tags(s)
    <3>1. k + 1 \in 1 .. Len(s) /\ Tail(s)[k] = s[k + 1]
      BY <1>1, <2>1
    <3> QED
      BY <3>1 DEF Tags
  <2>2. Tag(Head(s)) \in Tags(s)
    BY <1>1 DEF Tags
  <2> QED
    BY <2>1, <2>2 DEF Tags
<1> QED
  BY <1>1, <1>2, <1>3, <1>4

LEMMA AppendApart ==
  ASSUME NEW s \in Seq(Input), AllApart(s), NEW x \in Input, Tag(x) \notin Tags(s)
  PROVE  /\ Append(s, x) \in Seq(Input) /\ AllApart(Append(s, x))
         /\ Tags(Append(s, x)) = Tags(s) \cup {Tag(x)}
         /\ Len(Append(s, x)) = Len(s) + 1
<1>1. /\ Len(s) \in Nat /\ Len(Append(s, x)) = Len(s) + 1 /\ Append(s, x) \in Seq(Input)
      /\ \A k \in 1 .. Len(s) : Append(s, x)[k] = s[k]
      /\ Append(s, x)[Len(s) + 1] = x
  OBVIOUS
<1>2. \A k \in 1 .. Len(s) : Tag(s[k]) # Tag(x)
  BY DEF Tags
<1>3. AllApart(Append(s, x))
  <2>1. ASSUME NEW j \in 1 .. Len(s) + 1, NEW k \in 1 .. Len(s) + 1,
               Tag(Append(s, x)[j]) = Tag(Append(s, x)[k])
        PROVE  j = k
    <3>1. CASE j \in 1 .. Len(s) /\ k \in 1 .. Len(s)
      BY <3>1, <2>1, <1>1 DEF AllApart
    <3>2. CASE j = Len(s) + 1 \/ k = Len(s) + 1
      BY <3>2, <2>1, <1>1, <1>2
    <3> QED
      BY <3>1, <3>2, <1>1
  <2> QED
    BY <2>1, <1>1 DEF AllApart
<1>4. Tags(Append(s, x)) = Tags(s) \cup {Tag(x)}
  <2>1. 1 .. Len(Append(s, x)) = (1 .. Len(s)) \cup {Len(s) + 1}
    BY <1>1
  <2> QED
    BY <2>1, <1>1 DEF Tags
<1> QED
  BY <1>1, <1>3, <1>4

\* There are only so many inputs that differ in their actor or their origin.
LEMMA ApartFits ==
  ASSUME NEW s \in Seq(Input), AllApart(s)
  PROVE  Len(s) <= 2 * NumActors
<1> DEFINE f == [k \in 1 .. Len(s) |-> Tag(s[k])]
           T == Actors \X BOOLEAN
<1>1. Len(s) \in Nat /\ NumActors \in Nat /\ \A k \in 1 .. Len(s) : s[k] \in Input
  BY BattleAssumption
<1>2. f \in Injection(1 .. Len(s), T)
  <2>1. f \in [1 .. Len(s) -> T]
    BY <1>1 DEF Tag, Input
  <2>2. \A j, k \in 1 .. Len(s) : f[j] = f[k] => j = k
    BY DEF AllApart
  <2> QED
    BY <2>1, <2>2 DEF Injection, IsInjective
<1>3. IsFiniteSet(Actors) /\ Cardinality(Actors) = NumActors
  BY <1>1, FS_Interval DEF Actors
<1>4. IsFiniteSet(BOOLEAN) /\ Cardinality(BOOLEAN) = 2
  <2>1. BOOLEAN = {TRUE} \cup {FALSE} /\ FALSE \notin {TRUE}
    OBVIOUS
  <2>2. IsFiniteSet({TRUE}) /\ Cardinality({TRUE}) = 1
    BY FS_Singleton
  <2>3. /\ IsFiniteSet({TRUE} \cup {FALSE})
        /\ Cardinality({TRUE} \cup {FALSE}) = Cardinality({TRUE}) + 1
    BY <2>1, <2>2, FS_AddElement
  <2>4. 1 + 1 = 2
    OBVIOUS
  <2> QED
    BY <2>1, <2>2, <2>3, <2>4, Zenon
<1>5. IsFiniteSet(T) /\ Cardinality(T) = NumActors * 2
  BY <1>3, <1>4, FS_Product
<1>6. Cardinality(1 .. Len(s)) = Len(s)
  <2> DEFINE n == Len(s)
  <2>1. n \in Nat
    BY <1>1
  <2> HIDE DEF n
  <2>2. Cardinality(1 .. n) = n
    BY <2>1, FS_Interval
  <2> QED
    BY <2>2 DEF n
<1>7. Cardinality(1 .. Len(s)) <= Cardinality(T)
  <2> HIDE DEF f, T
  <2> QED
    BY <1>2, <1>5, FS_Injection
<1> QED
  BY <1>1, <1>5, <1>6, <1>7

LEMMA TailAsks ==
  ASSUME NEW s \in Seq(Event), s # <<>>, AskedOnce(s)
  PROVE  /\ Tail(s) \in Seq(Event) /\ Head(s) \in Event /\ AskedOnce(Tail(s))
         /\ Requests(Tail(s)) \subseteq Requests(s)
         /\ IsAsk(Head(s)) => /\ Head(s).actor \in Requests(s)
                              /\ Head(s).actor \notin Requests(Tail(s))
<1>1. /\ Len(s) \in Nat \ {0} /\ Len(Tail(s)) = Len(s) - 1 /\ Head(s) = s[1]
      /\ Tail(s) \in Seq(Event) /\ Head(s) \in Event
      /\ \A k \in 1 .. Len(s) - 1 : Tail(s)[k] = s[k + 1]
  OBVIOUS
<1>2. AskedOnce(Tail(s))
  BY <1>1 DEF AskedOnce
<1>3. ASSUME NEW k \in 1 .. Len(Tail(s)), IsAsk(Tail(s)[k])
      PROVE  /\ Tail(s)[k].actor \in Requests(s)
             /\ IsAsk(Head(s)) => Tail(s)[k].actor # Head(s).actor
  <2>1. k + 1 \in 1 .. Len(s) /\ k + 1 # 1 /\ Tail(s)[k] = s[k + 1] /\ 1 \in 1 .. Len(s)
    BY <1>1
  <2> QED
    BY <2>1, <1>1, <1>3 DEF Requests, AskedOnce
<1>4. IsAsk(Head(s)) => Head(s).actor \in Requests(s)
  BY <1>1 DEF Requests
<1> QED
  BY <1>1, <1>2, <1>3, <1>4 DEF Requests

LEMMA AppendAsks ==
  ASSUME NEW s \in Seq(Event), AskedOnce(s), NEW e \in Event,
         IsAsk(e) => e.actor \notin Requests(s)
  PROVE  /\ Append(s, e) \in Seq(Event) /\ AskedOnce(Append(s, e))
         /\ Requests(Append(s, e)) = Requests(s) \cup (IF IsAsk(e) THEN {e.actor} ELSE {})
<1>1. /\ Len(s) \in Nat /\ Len(Append(s, e)) = Len(s) + 1 /\ Append(s, e) \in Seq(Event)
      /\ \A k \in 1 .. Len(s) : Append(s, e)[k] = s[k]
      /\ Append(s, e)[Len(s) + 1] = e
  OBVIOUS
<1>2. \A k \in 1 .. Len(s) : IsAsk(s[k]) /\ IsAsk(e) => s[k].actor # e.actor
  BY DEF Requests
<1>3. AskedOnce(Append(s, e))
  <2>1. ASSUME NEW j \in 1 .. Len(s) + 1, NEW k \in 1 .. Len(s) + 1,
               IsAsk(Append(s, e)[j]), IsAsk(Append(s, e)[k]),
               Append(s, e)[j].actor = Append(s, e)[k].actor
        PROVE  j = k
    <3>1. CASE j \in 1 .. Len(s) /\ k \in 1 .. Len(s)
      BY <3>1, <2>1, <1>1 DEF AskedOnce
    <3>2. CASE j = Len(s) + 1 \/ k = Len(s) + 1
      BY <3>2, <2>1, <1>1, <1>2
    <3> QED
      BY <3>1, <3>2, <1>1
  <2> QED
    BY <2>1, <1>1 DEF AskedOnce
<1>4. Requests(Append(s, e)) = Requests(s) \cup (IF IsAsk(e) THEN {e.actor} ELSE {})
  <2>1. 1 .. Len(Append(s, e)) = (1 .. Len(s)) \cup {Len(s) + 1} /\ Len(s) + 1 \notin 1 .. Len(s)
    BY <1>1
  <2>2. Requests(s) = {Append(s, e)[k].actor : k \in {j \in 1 .. Len(s) : IsAsk(Append(s, e)[j])}}
    BY <1>1 DEF Requests
  <2> QED
    BY <2>1, <2>2, <1>1 DEF Requests
<1> QED
  BY <1>1, <1>3, <1>4
-----------------------------------------------------------------------------
(* What a step does to the channel and to the events *)

LEMMA PushStep ==
  ASSUME TypeOK, AllApart(inputCh), NEW x \in Input, Tag(x) \notin Tags(inputCh), Push(x)
  PROVE  /\ inputCh' \in Seq(Input) /\ Len(inputCh') <= InputCap /\ AllApart(inputCh')
         /\ Tags(inputCh') \subseteq Tags(inputCh) \cup {Tag(x)}
         /\ lost' \in BOOLEAN
         /\ InputCap >= 2 * NumActors => lost' = lost
<1>1. /\ inputCh \in Seq(Input) /\ Len(inputCh) \in Nat /\ Len(inputCh) <= InputCap
      /\ InputCap \in Nat /\ NumActors \in Nat /\ lost \in BOOLEAN
  BY BattleAssumption DEF TypeOK
<1>2. /\ Append(inputCh, x) \in Seq(Input) /\ AllApart(Append(inputCh, x))
      /\ Tags(Append(inputCh, x)) = Tags(inputCh) \cup {Tag(x)}
      /\ Len(Append(inputCh, x)) = Len(inputCh) + 1
  BY <1>1, AppendApart
<1>3. Len(Append(inputCh, x)) <= 2 * NumActors
  BY <1>2, ApartFits
<1>4. CASE Len(inputCh) < InputCap
  <2>1. inputCh' = Append(inputCh, x) /\ lost' = lost
    BY <1>4 DEF Push
  <2> QED
    BY <2>1, <1>1, <1>2, <1>4
<1>5. CASE ~(Len(inputCh) < InputCap)
  <2>1. inputCh' = inputCh /\ lost' = TRUE
    BY <1>5 DEF Push
  <2>2. ~(InputCap >= 2 * NumActors)
    BY <1>1, <1>2, <1>3, <1>5
  <2> QED
    BY <2>1, <2>2, <1>1
<1> QED
  BY <1>4, <1>5

\* The steps of the battle that neither ask nor take an input.
QuietStep ==
  \/ TurnStart \/ Collect \/ GiveUp \/ Order \/ TurnEnd \/ End \/ Cleanup
  \/ \E b \in Battlers : Act(b)
  \/ \E i \in Actors : EscapeFails(i) \/ Escape(i)

LEMMA NextSteps ==
  ASSUME Next
  PROVE  \/ QuietStep \/ Ask \/ Receive \/ PutBack \/ Expire \/ Broadcast
         \/ \E i \in Actors : \/ Answer(i) \/ Disconnect(i) \/ Mark(i) \/ PushDummy(i)
                             \/ CancelIfAllGone(i) \/ StopWatching(i)
<1>1. CASE BattleStep
  BY <1>1, Zenon DEF BattleStep, QuietStep
<1>2. CASE \/ \E i \in Actors : Answer(i) \/ Disconnect(i) \/ Monitor(i)
           \/ Expire \/ Broadcast
  BY <1>2, Zenon DEF Monitor
<1> QED
  BY <1>1, <1>2, Zenon DEF Next

\* An event that is emitted is appended, or dropped.
LEMMA EmitStep ==
  ASSUME TypeOK, AskedOnce(events), NEW e \in Event, Emit(e),
         IsAsk(e) => e.actor \notin Requests(events)
  PROVE  /\ events' \in Seq(Event) /\ Len(events') <= EventCap /\ AskedOnce(events')
         /\ dropped' \subseteq Event
         /\ Requests(events') \subseteq Requests(events) \cup (IF IsAsk(e) THEN {e.actor} ELSE {})
<1>1. /\ events \in Seq(Event) /\ Len(events) \in Nat /\ Len(events) <= EventCap
      /\ dropped \subseteq Event /\ EventCap \in Nat
  BY BattleAssumption DEF TypeOK
<1>2. CASE Len(events) < EventCap /\ events' = Append(events, e) /\ UNCHANGED dropped
  <2>1. /\ Append(events, e) \in Seq(Event) /\ AskedOnce(Append(events, e))
        /\ Requests(Append(events, e)) = Requests(events) \cup (IF IsAsk(e) THEN {e.actor} ELSE {})
    BY <1>1, AppendAsks
  <2>2. Len(Append(events, e)) = Len(events) + 1
    BY <1>1
  <2> QED
    BY <1>1, <1>2, <2>1, <2>2
<1>3. CASE dropped' = dropped \cup {e} /\ UNCHANGED events
  BY <1>1, <1>3
<1> QED
  BY <1>2, <1>3 DEF Emit

\* Events other than requests add none.
LEMMA OtherEvents ==
  ASSUME TypeOK, AskedOnce(events), NEW e \in Event, ~IsAsk(e), Emit(e)
  PROVE  /\ events' \in Seq(Event) /\ Len(events') <= EventCap /\ AskedOnce(events')
         /\ dropped' \subseteq Event /\ Requests(events') \subseteq Requests(events)
<1>1. IsAsk(e) => e.actor \notin Requests(events)
  OBVIOUS
<1>2. /\ events' \in Seq(Event) /\ Len(events') <= EventCap /\ AskedOnce(events')
      /\ dropped' \subseteq Event
      /\ Requests(events') \subseteq Requests(events) \cup (IF IsAsk(e) THEN {e.actor} ELSE {})
  BY <1>1, EmitStep
<1> QED
  BY <1>2

LEMMA QuietFrame ==
  ASSUME TypeOK, AskedOnce(events), QuietStep
  PROVE  /\ UNCHANGED <<inputCh, held, asked, told, disc, off, mon, lost, expired>>
         /\ events' \in Seq(Event) /\ Len(events') <= EventCap /\ AskedOnce(events')
         /\ dropped' \subseteq Event /\ Requests(events') \subseteq Requests(events)
         /\ \/ pc' \in {"end", "cleanup", "over"} /\ pc # "putback"
            \/ /\ pc \in {"turn", "collect", "act"}
               /\ pc' \in {"turn", "collect", "act"} \/ (pc' = "ask" /\ at' = at /\ at \notin disc)
<1> DEFINE Frame == UNCHANGED <<inputCh, held, asked, told, disc, off, mon, lost, expired>>
           Told  == /\ events' \in Seq(Event) /\ Len(events') <= EventCap /\ AskedOnce(events')
                    /\ dropped' \subseteq Event /\ Requests(events') \subseteq Requests(events)
           Moved == \/ pc' \in {"end", "cleanup", "over"} /\ pc # "putback"
                    \/ /\ pc \in {"turn", "collect", "act"}
                       /\ \/ pc' \in {"turn", "collect", "act"}
                          \/ pc' = "ask" /\ at' = at /\ at \notin disc
<1>0. /\ Ended \in Event /\ ~IsAsk(Ended)
      /\ \A i \in Actors : Flees(i) \in Event /\ ~IsAsk(Flees(i))
  BY DEF Ended, Flees, Event, IsAsk
<1>1. UNCHANGED <<events, dropped>> => Told
  BY DEF TypeOK
<1>2. \A n \in {"turn", "collect", "act"} : Settle(n) => pc' \in {"turn", "collect", "act", "end"}
  BY DEF Settle
<1> HIDE DEF Told
<1> SUFFICES Frame /\ Told /\ Moved
  BY DEF Told
<1>3. CASE TurnStart \/ TurnEnd
  BY <1>1, <1>2, <1>3 DEF TurnStart, TurnEnd, chanVars, connVars, clientVars, histVars
<1>4. CASE Collect
  BY <1>1, <1>4 DEF Collect, chanVars, connVars, clientVars, histVars
<1>5. CASE GiveUp \/ Order \/ Cleanup
  BY <1>1, <1>5 DEF GiveUp, Order, Cleanup, chanVars, connVars, clientVars, histVars
<1>6. ASSUME NEW b \in Battlers, Act(b)
      PROVE  Frame /\ Told /\ Moved
  BY <1>1, <1>2, <1>6 DEF Act, chanVars, connVars, clientVars, histVars
<1>7. ASSUME NEW i \in Actors, EscapeFails(i)
      PROVE  Frame /\ Told /\ Moved
  BY <1>1, <1>7 DEF EscapeFails, chanVars, connVars, clientVars, histVars
<1>8. ASSUME NEW i \in Actors, Escape(i)
      PROVE  Frame /\ Told /\ Moved
  <2>1. pc = "act" /\ pc' \in {"act", "end"} /\ Frame
    BY <1>8 DEF Escape, connVars, clientVars
  <2>2. Emit(Flees(i)) \/ UNCHANGED <<events, dropped>>
    BY <1>8 DEF Escape
  <2>3. Emit(Flees(i)) => Told
    BY <1>0, OtherEvents DEF Told
  <2> QED
    BY <1>1, <2>1, <2>2, <2>3
<1>9. CASE End
  <2>1. pc = "end" /\ pc' = "cleanup" /\ Frame /\ Emit(Ended)
    BY <1>9 DEF End, connVars, clientVars
  <2>2. Told
    BY <1>0, <2>1, OtherEvents DEF Told
  <2> QED
    BY <2>1, <2>2
<1> HIDE DEF Frame, Moved
<1> QED
  BY <1>3, <1>4, <1>5, <1>6, <1>7, <1>8, <1>9 DEF QuietStep
-----------------------------------------------------------------------------
(* What is in flight *)

LEMMA NoInputTag ==
  /\ NoInput \notin Input /\ 0 \notin Actors
  /\ \A i \in Actors, d \in BOOLEAN : Tag(NoInput) # <<i, d>>
  /\ \A x \in Input : Tag(x) # Tag(NoInput)
  /\ \A i \in Actors, a \in {"act", "escape"}, d \in BOOLEAN :
       [actor |-> i, act |-> a, dummy |-> d] \in Input
<1>1. 0 \notin Actors
  BY BattleAssumption DEF Actors
<1>2. NoInput.actor = 0 /\ NoInput.dummy = FALSE
  BY DEF NoInput
<1>3. \A x \in Input : x.actor \in Actors
  BY DEF Input
<1>4. NoInput \notin Input
  BY <1>1, <1>2, <1>3
<1>5. \A i \in Actors, d \in BOOLEAN : Tag(NoInput) # <<i, d>>
  BY <1>1, <1>2 DEF Tag
<1>6. \A x \in Input : Tag(x) # Tag(NoInput)
  BY <1>1, <1>2, <1>3 DEF Tag
<1>7. \A i \in Actors, a \in {"act", "escape"}, d \in BOOLEAN :
        [actor |-> i, act |-> a, dummy |-> d] \in Input
  BY DEF Input, Action
<1> QED
  BY <1>1, <1>4, <1>5, <1>6, <1>7

\* Taking an input out.
LEMMA ReceiveStep ==
  ASSUME InputInv, Receive
  PROVE  /\ ChanInv' /\ inputCh' \in Seq(Input) /\ Len(inputCh') <= InputCap
         /\ held' \in Input \cup {NoInput} /\ action' \in [Actors -> Action]
         /\ at \in Actors /\ pc = "wait" /\ pc' \in {"collect", "putback"}
         /\ \A i \in Actors, d \in BOOLEAN : InFlight(i, d)' => InFlight(i, d)
         /\ pc' = "putback" => at' = at
         /\ pc' = "collect" => /\ at' = at + 1
                               /\ InFlight(at, FALSE) \/ InFlight(at, TRUE)
                               /\ \A i \in Actors : i = at /\ InFlight(i, FALSE)' => InFlight(i, TRUE)
<1> DEFINE x == Head(inputCh)
           T == Tail(inputCh)
<1>1. /\ inputCh \in Seq(Input) /\ Len(inputCh) <= InputCap /\ AllApart(inputCh)
      /\ held = NoInput /\ inputCh # <<>> /\ pc = "wait" /\ inputCh' = T
      /\ at \in 1 .. NumActors + 1 /\ action \in [Actors -> Action]
      /\ InputCap \in Nat
  BY BattleAssumption DEF InputInv, TypeOK, ChanInv, Receive
<1>2. /\ T \in Seq(Input) /\ x \in Input /\ AllApart(T)
      /\ Tags(inputCh) = Tags(T) \cup {Tag(x)} /\ Tag(x) \notin Tags(T)
  BY <1>1, TailApart
<1>3. Len(T) <= InputCap
  BY <1>1
<1>4. at \in Actors
  BY <1>1 DEF InputInv, AtInv
<1>5. CASE x.actor = at
  <2>1. /\ action' = [action EXCEPT ![at] = x.act] /\ at' = at + 1 /\ pc' = "collect"
        /\ held' = NoInput
    BY <1>1, <1>5 DEF Receive
  <2>2. x.act \in Action
    BY <1>2 DEF Input
  <2>3. action' \in [Actors -> Action]
    BY <2>1, <2>2, <1>1
  <2>4. ChanInv'
    BY <1>1, <1>2, <2>1, NoInputTag DEF ChanInv, InputInv
  <2>5. \A i \in Actors, d \in BOOLEAN : InFlight(i, d)' => InFlight(i, d)
    BY <1>1, <1>2, <2>1, NoInputTag DEF InFlight
  <2>6. Tag(x) = <<at, TRUE>> \/ Tag(x) = <<at, FALSE>>
    BY <1>2, <1>5 DEF Input, Tag
  <2>7. ASSUME NEW i \in Actors, i = at, InFlight(i, FALSE)'
        PROVE  InFlight(i, TRUE)
    <3>1. CASE Tag(x) = <<at, TRUE>>
      BY <3>1, <2>7, <1>2 DEF InFlight
    <3>2. CASE Tag(x) = <<at, FALSE>>
      <4>1. Tag(held') # <<i, FALSE>>
        BY <2>1, NoInputTag
      <4>2. <<i, FALSE>> \notin Tags(inputCh')
        BY <3>2, <2>7, <1>1, <1>2
      <4> QED
        BY <4>1, <4>2, <2>7 DEF InFlight
    <3> QED
      BY <3>1, <3>2, <2>6
  <2>8. InFlight(at, FALSE) \/ InFlight(at, TRUE)
    BY <2>6, <1>2 DEF InFlight
  <2> QED
    BY <1>1, <1>2, <1>3, <1>4, <2>1, <2>3, <2>4, <2>5, <2>7, <2>8
<1>6. CASE x.actor # at
  <2>1. action' = action /\ at' = at /\ pc' = "putback" /\ held' = x
    BY <1>1, <1>6 DEF Receive
  <2>2. ChanInv'
    BY <1>1, <1>2, <2>1, NoInputTag DEF ChanInv, InputInv
  <2>3. \A i \in Actors, d \in BOOLEAN : InFlight(i, d)' => InFlight(i, d)
    BY <1>1, <1>2, <2>1, NoInputTag DEF InFlight
  <2> QED
    BY <1>1, <1>2, <1>3, <1>4, <2>1, <2>2, <2>3
<1> QED
  BY <1>5, <1>6

\* Putting it back.
LEMMA PutBackStep ==
  ASSUME InputInv, PutBack
  PROVE  /\ ChanInv' /\ inputCh' \in Seq(Input) /\ Len(inputCh') <= InputCap
         /\ held' = NoInput /\ lost' \in BOOLEAN
         /\ InputCap >= 2 * NumActors => lost' = lost
         /\ \A i \in Actors, d \in BOOLEAN : InFlight(i, d)' => InFlight(i, d)
<1>1. /\ AllApart(inputCh) /\ held \in Input /\ Tag(held) \notin Tags(inputCh)
      /\ Push(held) /\ held' = NoInput /\ pc' = "wait"
  BY DEF InputInv, ChanInv, PutBack
<1>2. /\ inputCh' \in Seq(Input) /\ Len(inputCh') <= InputCap /\ AllApart(inputCh')
      /\ Tags(inputCh') \subseteq Tags(inputCh) \cup {Tag(held)}
      /\ lost' \in BOOLEAN /\ (InputCap >= 2 * NumActors => lost' = lost)
  BY <1>1, PushStep DEF InputInv
<1>3. Tag(NoInput) \notin Tags(inputCh')
  <2>1. \A k \in 1 .. Len(inputCh') : inputCh'[k] \in Input
    BY <1>2
  <2> QED
    BY <2>1, NoInputTag DEF Tags
<1>4. ChanInv'
  BY <1>1, <1>2, <1>3 DEF ChanInv
<1>5. \A i \in Actors, d \in BOOLEAN : InFlight(i, d)' => InFlight(i, d)
  BY <1>1, <1>2, NoInputTag DEF InFlight
<1> QED
  BY <1>1, <1>2, <1>4, <1>5

\* A participant's answer, or the input that stands for him.
LEMMA SendStep ==
  ASSUME InputInv, NEW x \in Input, x.actor \in Actors, ~InFlight(x.actor, x.dummy),
         Push(x), held' = held, pc' = pc
  PROVE  /\ ChanInv' /\ inputCh' \in Seq(Input) /\ Len(inputCh') <= InputCap
         /\ lost' \in BOOLEAN
         /\ InputCap >= 2 * NumActors => lost' = lost
         /\ \A i \in Actors, d \in BOOLEAN :
              InFlight(i, d)' => InFlight(i, d) \/ <<i, d>> = Tag(x)
<1>1. /\ AllApart(inputCh) /\ Tag(held) \notin Tags(inputCh)
      /\ Tag(x) \notin Tags(inputCh) /\ Tag(x) # Tag(held)
  BY DEF InputInv, ChanInv, InFlight, Tag
<1>2. /\ inputCh' \in Seq(Input) /\ Len(inputCh') <= InputCap /\ AllApart(inputCh')
      /\ Tags(inputCh') \subseteq Tags(inputCh) \cup {Tag(x)}
      /\ lost' \in BOOLEAN /\ (InputCap >= 2 * NumActors => lost' = lost)
  BY <1>1, PushStep DEF InputInv
<1>3. ChanInv'
  BY <1>1, <1>2 DEF ChanInv, InputInv
<1>4. \A i \in Actors, d \in BOOLEAN :
        InFlight(i, d)' => InFlight(i, d) \/ <<i, d>> = Tag(x)
  BY <1>1, <1>2 DEF InFlight
<1> QED
  BY <1>2, <1>3, <1>4
-----------------------------------------------------------------------------
(* Types *)

LEMMA AnswerPushes ==
  ASSUME InputInv, NEW i \in Actors, Answer(i)
  PROVE  \/ UNCHANGED <<inputCh, lost>>
         \/ \E x \in Input : /\ Tag(x) = <<i, FALSE>> /\ x.actor = i /\ x.dummy = FALSE
                             /\ Push(x) /\ ~InFlight(i, FALSE)
<1>1. ASSUME NEW a \in {"act", "escape"}, Push([actor |-> i, act |-> a, dummy |-> FALSE])
      PROVE  \E x \in Input : /\ Tag(x) = <<i, FALSE>> /\ x.actor = i /\ x.dummy = FALSE
                              /\ Push(x) /\ ~InFlight(i, FALSE)
  <2>1. [actor |-> i, act |-> a, dummy |-> FALSE] \in Input
    BY NoInputTag
  <2>2. ~InFlight(i, FALSE)
    BY DEF Answer, InputInv, OnceInv
  <2> QED
    BY <2>1, <2>2, <1>1 DEF Tag
<1> QED
  BY <1>1 DEF Answer

LEMMA DummyPushes ==
  ASSUME InputInv, NEW i \in Actors, PushDummy(i)
  PROVE  \E x \in Input : /\ Tag(x) = <<i, TRUE>> /\ x.actor = i /\ x.dummy = TRUE
                          /\ Push(x) /\ ~InFlight(i, TRUE)
<1>1. [actor |-> i, act |-> "act", dummy |-> TRUE] \in Input
  BY NoInputTag
<1>2. ~InFlight(i, TRUE)
  BY DEF PushDummy, InputInv, DummyInv
<1> QED
  BY <1>1, <1>2 DEF PushDummy, Tag

\* The channel's part of an answer and of a monitor's input.
LEMMA PushFrame ==
  ASSUME InputInv, NEW i \in Actors, Answer(i) \/ PushDummy(i)
  PROVE  /\ ChanInv' /\ inputCh' \in Seq(Input) /\ Len(inputCh') <= InputCap
         /\ lost' \in BOOLEAN
         /\ InputCap >= 2 * NumActors => lost' = lost
         /\ UNCHANGED <<battleVars, events, off, disc, cancelled, inBattle, told, dropped, expired>>
         /\ \A j \in Actors : InFlight(j, TRUE)' => InFlight(j, TRUE) \/ (j = i /\ PushDummy(i))
         /\ \A j \in Actors : InFlight(j, FALSE)' => InFlight(j, FALSE) \/ (j = i /\ Answer(i))
<1>1. UNCHANGED <<battleVars, events, off, disc, cancelled, inBattle, told, dropped, expired>>
  BY DEF Answer, PushDummy, connVars, clientVars
<1>2. UNCHANGED <<held, pc>>
  BY <1>1 DEF battleVars
<1>3. CASE Answer(i)
  <2>1. CASE UNCHANGED <<inputCh, lost>>
    BY <2>1, <1>1, <1>2 DEF InputInv, TypeOK, ChanInv, InFlight
  <2>2. ASSUME NEW x \in Input, Tag(x) = <<i, FALSE>>, x.actor = i, x.dummy = FALSE, Push(x),
               ~InFlight(i, FALSE)
        PROVE  /\ ChanInv' /\ inputCh' \in Seq(Input) /\ Len(inputCh') <= InputCap
               /\ lost' \in BOOLEAN
               /\ InputCap >= 2 * NumActors => lost' = lost
               /\ \A j \in Actors : InFlight(j, TRUE)' => InFlight(j, TRUE)
               /\ \A j \in Actors : InFlight(j, FALSE)' => InFlight(j, FALSE) \/ j = i
    <3>1. x.actor \in Actors /\ ~InFlight(x.actor, x.dummy) /\ held' = held /\ pc' = pc
      BY <2>2, <1>2
    <3>2. /\ ChanInv' /\ inputCh' \in Seq(Input) /\ Len(inputCh') <= InputCap
          /\ lost' \in BOOLEAN
          /\ InputCap >= 2 * NumActors => lost' = lost
          /\ \A j \in Actors, d \in BOOLEAN :
               InFlight(j, d)' => InFlight(j, d) \/ <<j, d>> = Tag(x)
      BY <2>2, <3>1, SendStep
    <3>3. \A j \in Actors : <<j, TRUE>> # Tag(x) /\ (<<j, FALSE>> = Tag(x) => j = i)
      BY <2>2
    <3> QED
      BY <3>2, <3>3
  <2> QED
    BY <2>1, <2>2, <1>1, <1>3, AnswerPushes
<1>4. CASE PushDummy(i)
  <2>1. PICK x \in Input : /\ Tag(x) = <<i, TRUE>> /\ x.actor = i /\ x.dummy = TRUE
                           /\ Push(x) /\ ~InFlight(i, TRUE)
    BY <1>4, DummyPushes
  <2>2. /\ ChanInv' /\ inputCh' \in Seq(Input) /\ Len(inputCh') <= InputCap
        /\ lost' \in BOOLEAN
        /\ InputCap >= 2 * NumActors => lost' = lost
        /\ \A j \in Actors : InFlight(j, TRUE)' => InFlight(j, TRUE) \/ j = i
        /\ \A j \in Actors : InFlight(j, FALSE)' => InFlight(j, FALSE)
    <3>1. x.actor \in Actors /\ ~InFlight(x.actor, x.dummy) /\ held' = held /\ pc' = pc
      BY <2>1, <1>2
    <3>2. /\ ChanInv' /\ inputCh' \in Seq(Input) /\ Len(inputCh') <= InputCap
          /\ lost' \in BOOLEAN
          /\ InputCap >= 2 * NumActors => lost' = lost
          /\ \A j \in Actors, d \in BOOLEAN :
               InFlight(j, d)' => InFlight(j, d) \/ <<j, d>> = Tag(x)
      BY <2>1, <3>1, SendStep
    <3>3. \A j \in Actors : <<j, FALSE>> # Tag(x) /\ (<<j, TRUE>> = Tag(x) => j = i)
      BY <2>1
    <3> QED
      BY <3>2, <3>3
  <2> QED
    BY <2>2, <1>1, <1>4
<1> QED
  BY <1>3, <1>4

\* The steps that leave the battle and the channel alone.
LEMMA IdleFrame ==
  ASSUME NEW i \in Actors,
         Disconnect(i) \/ Mark(i) \/ CancelIfAllGone(i) \/ StopWatching(i) \/ Expire \/ Broadcast
  PROVE  UNCHANGED <<battleVars, inputCh, lost>>
BY DEF Disconnect, Mark, CancelIfAllGone, StopWatching, Expire, Broadcast, chanVars, histVars

LEMMA BroadcastStep ==
  ASSUME InputInv, Broadcast
  PROVE  /\ events' \in Seq(Event) /\ Len(events') <= EventCap
         /\ AskedOnce(events') /\ Requests(events') \subseteq Requests(events)
         /\ inBattle' \subseteq inBattle /\ asked' \subseteq Actors /\ told' \in [Actors -> Nat]
         /\ \A i \in asked' : \/ i \in asked
                             \/ i \in Requests(events) \ Requests(events')
         /\ UNCHANGED <<connVars, histVars>>
<1> DEFINE e == Head(events)
<1>1. /\ events \in Seq(Event) /\ AskedOnce(events) /\ events # <<>> /\ events' = Tail(events)
      /\ asked \subseteq Actors /\ told \in [Actors -> Nat] /\ inBattle \subseteq Actors
  BY DEF Broadcast, InputInv, TypeOK, OnceInv
<1>0. Len(Tail(events)) <= EventCap
  <2>1. Len(events) \in Nat /\ Len(events) <= EventCap /\ EventCap \in Nat
    BY BattleAssumption DEF InputInv, TypeOK
  <2>2. Len(Tail(events)) = Len(events) - 1
    BY <1>1
  <2> QED
    BY <2>1, <2>2
<1>2. /\ Tail(events) \in Seq(Event) /\ e \in Event /\ AskedOnce(Tail(events))
      /\ Requests(Tail(events)) \subseteq Requests(events)
      /\ IsAsk(e) => e.actor \in Requests(events) /\ e.actor \notin Requests(Tail(events))
  BY <1>1, TailAsks
<1>3. CASE e.kind = "ask"
  <2>1. asked' = asked \cup ({e.actor} \cap (Actors \ (off \cup fled))) /\ UNCHANGED <<told, inBattle>>
    BY <1>3 DEF Broadcast
  <2> QED
    BY <2>1, <1>0, <1>1, <1>2, <1>3 DEF IsAsk, Broadcast
<1>4. CASE e.kind = "escape"
  <2>1. /\ UNCHANGED asked /\ inBattle' = inBattle \ {e.actor}
        /\ told' = [i \in Actors |-> IF i = e.actor /\ i \notin off THEN told[i] + 1 ELSE told[i]]
    BY <1>4 DEF Broadcast
  <2>2. told' \in [Actors -> Nat]
    BY <2>1, <1>1
  <2> QED
    BY <2>1, <2>2, <1>0, <1>1, <1>2 DEF Broadcast
<1>5. CASE e.kind = "end"
  <2>1. /\ UNCHANGED inBattle /\ asked' = asked \ (Actors \ (off \cup fled))
        /\ told' = [i \in Actors |-> IF i \in Actors \ (off \cup fled) THEN told[i] + 1 ELSE told[i]]
    BY <1>5 DEF Broadcast
  <2>2. told' \in [Actors -> Nat]
    BY <2>1, <1>1
  <2> QED
    BY <2>1, <2>2, <1>0, <1>1, <1>2 DEF Broadcast
<1> QED
  BY <1>2, <1>3, <1>4, <1>5 DEF Event

\* A request is told to one client, or dropped.
LEMMA AskStep ==
  ASSUME InputInv, Ask
  PROVE  /\ AskedOnce(events') /\ Requests(events') \subseteq Requests(events) \cup {at}
         /\ events' \in Seq(Event) /\ Len(events') <= EventCap /\ dropped' \subseteq Event
         /\ at \in Actors /\ ~Pending(at)
         /\ pc = "ask" /\ pc' = "wait" /\ at' = at
         /\ UNCHANGED <<asked, inputCh, held, disc>>
<1> DEFINE e == [kind |-> "ask", actor |-> at]
<1>1. /\ Emit(e) /\ pc = "ask" /\ pc' = "wait" /\ at' = at
      /\ UNCHANGED <<asked, inputCh, held, disc>>
  BY DEF Ask, connVars, clientVars
<1>2. at \in Actors
  BY <1>1 DEF InputInv, AtInv
<1>3. ~Pending(at)
  BY <1>1, <1>2 DEF InputInv, PendingInv, Waiting
<1>4. TypeOK /\ AskedOnce(events) /\ at \notin Requests(events)
  BY <1>3 DEF InputInv, OnceInv, Pending
<1>5. e \in Event /\ IsAsk(e) /\ e.actor = at
  BY <1>2 DEF Event, IsAsk
<1>6. /\ events' \in Seq(Event) /\ Len(events') <= EventCap /\ AskedOnce(events')
      /\ dropped' \subseteq Event
      /\ Requests(events') \subseteq Requests(events) \cup (IF IsAsk(e) THEN {e.actor} ELSE {})
  <2> HIDE DEF e
  <2> QED
    BY <1>1, <1>4, <1>5, EmitStep
<1> QED
  BY <1>1, <1>2, <1>3, <1>5, <1>6

LEMMA QuietTypes ==
  ASSUME InputInv, QuietStep
  PROVE  TypeOK' /\ AtInv'
<1>1. /\ UNCHANGED <<inputCh, held, asked, told, disc, off, mon, lost, expired>>
      /\ events' \in Seq(Event) /\ Len(events') <= EventCap /\ dropped' \subseteq Event
  BY QuietFrame DEF InputInv, OnceInv
<1>2. /\ TypeOK /\ NumActors \in Nat
      /\ \A n \in {"turn", "collect", "act"} : Settle(n) => pc' \in Phase \ {"ask", "wait", "putback"}
  BY BattleAssumption DEF InputInv, Settle, Phase
<1> DEFINE Rest == /\ pc' \in Phase /\ at' \in 1 .. NumActors + 1
                   /\ action' \in [Actors -> Action]
                   /\ todo' \subseteq Battlers /\ alive' \subseteq Actors /\ fled' \subseteq Actors
                   /\ cancelled' \in BOOLEAN /\ inBattle' \subseteq Actors
                   /\ pc' \in {"ask", "wait", "putback"} => at' \in Actors
<1>3. ASSUME TurnStart \/ TurnEnd
      PROVE  Rest
  <2>1. at' \in 1 .. NumActors + 1 /\ pc' \in Phase \ {"ask", "wait", "putback"}
    BY <1>3, <1>2 DEF TurnStart, TurnEnd, TypeOK
  <2> QED
    BY <2>1, <1>2, <1>3 DEF TurnStart, TurnEnd, TypeOK, Action, connVars
<1>4. ASSUME Collect
      PROVE  Rest
  <2>1. at \in Actors /\ at + 1 \in 1 .. NumActors + 1
    BY <1>4, <1>2 DEF Collect, TypeOK, Actors
  <2>2. /\ action' \in [Actors -> Action]
        /\ \/ at' = at + 1 /\ pc' = "collect"
           \/ at' = at /\ pc' = "ask"
    BY <1>4, <1>2 DEF Collect, TypeOK, Action
  <2>3. UNCHANGED <<todo, alive, fled, cancelled, inBattle>>
    BY <1>4 DEF Collect, connVars
  <2>4. at' \in 1 .. NumActors + 1 /\ pc' \in Phase
        /\ (pc' \in {"ask", "wait", "putback"} => at' \in Actors)
    BY <2>1, <2>2, <1>2 DEF Phase, TypeOK
  <2> QED
    BY <2>2, <2>3, <2>4, <1>2 DEF TypeOK
<1>5. ASSUME GiveUp \/ Order \/ End \/ Cleanup
      PROVE  Rest
  <2>1. /\ UNCHANGED <<at, action, alive, fled>> /\ pc' \in Phase \ {"ask", "wait", "putback"}
        /\ cancelled' \in {cancelled, TRUE} /\ inBattle' \in {inBattle, {}}
        /\ todo' \in {todo, alive \cup Foes}
    BY <1>5 DEF GiveUp, Order, End, Cleanup, Phase, connVars
  <2> QED
    BY <2>1, <1>2 DEF TypeOK, Battlers
<1>6. ASSUME NEW b \in Battlers, Act(b)
      PROVE  Rest
  BY <1>6, <1>2 DEF Act, TypeOK, connVars
<1>7. ASSUME NEW i \in Actors, EscapeFails(i)
      PROVE  Rest
  BY <1>7, <1>2 DEF EscapeFails, TypeOK, connVars
<1>8. ASSUME NEW i \in Actors, Escape(i)
      PROVE  Rest
  <2>1. pc' \in {"act", "end"} /\ fled' \subseteq Actors
    BY <1>8, <1>2 DEF Escape, TypeOK
  <2> QED
    BY <2>1, <1>2, <1>8 DEF Escape, TypeOK, Phase, connVars
<1>9. Rest
  <2> HIDE DEF Rest
  <2> QED
    BY <1>3, <1>4, <1>5, <1>6, <1>7, <1>8, Zenon DEF QuietStep
<1> QED
  BY <1>1, <1>2, <1>9 DEF TypeOK, AtInv

LEMMA TypeStep ==
  ASSUME InputInv, Next
  PROVE  TypeOK' /\ AtInv'
<1>0. TypeOK /\ AtInv /\ NumActors \in Nat
  BY BattleAssumption DEF InputInv
<1>1. CASE QuietStep
  BY <1>1, QuietTypes
<1>2. CASE Ask
  <2>1. at \in Actors
    BY <1>0, <1>2 DEF Ask, AtInv
  <2>2. events' \in Seq(Event) /\ Len(events') <= EventCap /\ dropped' \subseteq Event
    BY <1>2, AskStep
  <2> QED
    BY <2>1, <2>2, <1>0, <1>2 DEF Ask, TypeOK, AtInv, Phase, connVars, clientVars
<1>3. CASE Receive
  <2>1. /\ inputCh' \in Seq(Input) /\ Len(inputCh') <= InputCap
        /\ held' \in Input \cup {NoInput} /\ action' \in [Actors -> Action]
        /\ at \in Actors /\ pc' \in {"collect", "putback"}
        /\ pc' = "putback" => at' = at
        /\ pc' = "collect" => at' = at + 1
    BY <1>3, ReceiveStep
  <2>2. at' \in 1 .. NumActors + 1
    BY <2>1, <1>0 DEF Actors
  <2> QED
    BY <2>1, <2>2, <1>0, <1>3 DEF Receive, TypeOK, AtInv, Phase, connVars, clientVars, histVars
<1>4. CASE PutBack
  <2>1. /\ inputCh' \in Seq(Input) /\ Len(inputCh') <= InputCap /\ held' = NoInput
        /\ lost' \in BOOLEAN
    BY <1>4, PutBackStep
  <2> QED
    BY <2>1, <1>0, <1>4 DEF PutBack, TypeOK, AtInv, Phase, connVars, clientVars
<1>5. ASSUME NEW i \in Actors, Answer(i) \/ PushDummy(i)
      PROVE  TypeOK' /\ AtInv'
  <2>1. /\ inputCh' \in Seq(Input) /\ Len(inputCh') <= InputCap /\ lost' \in BOOLEAN
        /\ UNCHANGED <<battleVars, events, off, disc, cancelled, inBattle, told, dropped, expired>>
    BY <1>5, PushFrame
  <2>2. asked' \subseteq Actors /\ mon' \in [Actors -> {"watch", "push", "look", "done"}]
    BY <1>0, <1>5 DEF Answer, PushDummy, TypeOK, connVars, clientVars
  <2> QED
    BY <2>1, <2>2, <1>0 DEF TypeOK, AtInv, battleVars
<1>6. CASE Expire
  BY <1>0, <1>6 DEF Expire, TypeOK, AtInv, battleVars, chanVars, clientVars
<1>7. ASSUME NEW i \in Actors, Disconnect(i) \/ Mark(i) \/ CancelIfAllGone(i) \/ StopWatching(i)
      PROVE  TypeOK' /\ AtInv'
  <2>1. /\ mon' \in [Actors -> {"watch", "push", "look", "done"}]
        /\ off' \subseteq Actors /\ disc' \subseteq off' /\ cancelled' \in BOOLEAN
    BY <1>0, <1>7 DEF Disconnect, Mark, CancelIfAllGone, StopWatching, TypeOK
  <2>2. UNCHANGED <<battleVars, chanVars, inBattle, clientVars, histVars>>
    BY <1>7 DEF Disconnect, Mark, CancelIfAllGone, StopWatching
  <2> QED
    BY <2>1, <2>2, <1>0 DEF TypeOK, AtInv, battleVars, chanVars, clientVars, histVars
<1>8. CASE Broadcast
  <2>1. /\ events' \in Seq(Event) /\ Len(events') <= EventCap /\ inBattle' \subseteq inBattle
        /\ asked' \subseteq Actors /\ told' \in [Actors -> Nat]
        /\ UNCHANGED <<connVars, histVars, battleVars, inputCh>>
    BY <1>8, BroadcastStep DEF Broadcast
  <2> QED
    BY <2>1, <1>0 DEF TypeOK, AtInv, battleVars, connVars, histVars
<1> QED
  BY <1>1, <1>2, <1>3, <1>4, <1>5, <1>6, <1>7, <1>8, NextSteps, Zenon
-----------------------------------------------------------------------------
(* The invariant *)

LEMMA ChanStep ==
  ASSUME InputInv, Next
  PROVE  ChanInv'
<1>1. CASE QuietStep
  <2>1. UNCHANGED <<inputCh, held>> /\ pc # "putback" /\ pc' # "putback"
    BY <1>1, QuietFrame DEF InputInv, OnceInv
  <2> QED
    BY <2>1 DEF InputInv, ChanInv
<1>2. CASE Ask
  BY <1>2 DEF Ask, InputInv, ChanInv
<1>3. CASE Receive
  BY <1>3, ReceiveStep
<1>4. CASE PutBack
  BY <1>4, PutBackStep
<1>5. ASSUME NEW i \in Actors, Answer(i) \/ PushDummy(i)
      PROVE  ChanInv'
  BY <1>5, PushFrame
<1>6. CASE UNCHANGED <<battleVars, inputCh>>
  BY <1>6 DEF InputInv, ChanInv, battleVars
<1>7. CASE Expire \/ Broadcast
  BY <1>6, <1>7 DEF Expire, Broadcast, chanVars
<1>8. ASSUME NEW i \in Actors, Disconnect(i) \/ Mark(i) \/ CancelIfAllGone(i) \/ StopWatching(i)
      PROVE  ChanInv'
  BY <1>6, <1>8 DEF Disconnect, Mark, CancelIfAllGone, StopWatching, chanVars
<1> QED
  BY <1>1, <1>2, <1>3, <1>4, <1>5, <1>7, <1>8, NextSteps, Zenon

\* Nothing gets into flight but a client's answer and a monitor's input.
LEMMA FlightStep ==
  ASSUME InputInv, Next
  PROVE  \A j \in Actors :
           /\ InFlight(j, TRUE)' => InFlight(j, TRUE) \/ PushDummy(j)
           /\ InFlight(j, FALSE)' => InFlight(j, FALSE) \/ Answer(j)
<1> DEFINE Kept == \A j \in Actors : /\ InFlight(j, TRUE)' => InFlight(j, TRUE)
                                     /\ InFlight(j, FALSE)' => InFlight(j, FALSE)
<1>1. UNCHANGED <<inputCh, held>> => Kept
  BY DEF InFlight
<1>2. CASE QuietStep
  BY <1>1, <1>2, QuietFrame DEF InputInv, OnceInv
<1>3. CASE Ask
  BY <1>1, <1>3 DEF Ask
<1>4. CASE Receive
  BY <1>4, ReceiveStep
<1>5. CASE PutBack
  BY <1>5, PutBackStep
<1>6. ASSUME NEW i \in Actors, Answer(i) \/ PushDummy(i)
      PROVE  \A j \in Actors :
               /\ InFlight(j, TRUE)' => InFlight(j, TRUE) \/ (j = i /\ PushDummy(i))
               /\ InFlight(j, FALSE)' => InFlight(j, FALSE) \/ (j = i /\ Answer(i))
  BY <1>6, PushFrame
<1>7. CASE Expire \/ Broadcast
  BY <1>1, <1>7 DEF Expire, Broadcast, chanVars, battleVars
<1>8. ASSUME NEW i \in Actors, Disconnect(i) \/ Mark(i) \/ CancelIfAllGone(i) \/ StopWatching(i)
      PROVE  Kept
  BY <1>1, <1>8 DEF Disconnect, Mark, CancelIfAllGone, StopWatching, chanVars, battleVars
<1> QED
  BY <1>2, <1>3, <1>4, <1>5, <1>6, <1>7, <1>8, NextSteps

\* The monitors go one way, and the flag is never taken back.
LEMMA MonStep ==
  ASSUME InputInv, Next
  PROVE  /\ disc \subseteq disc'
         /\ \A i \in Actors :
              \/ mon'[i] = mon[i]
              \/ mon[i] = "watch" /\ mon'[i] = "push" /\ i \in disc'
              \/ mon'[i] \in {"look", "done"} /\ (mon[i] = "watch" \/ i \in disc \/ mon[i] = "look")
<1>0. /\ mon \in [Actors -> {"watch", "push", "look", "done"}]
      /\ \A i \in Actors : mon[i] = "push" => i \in disc
  BY DEF InputInv, TypeOK, DummyInv
<1>1. CASE QuietStep
  BY <1>1, QuietFrame DEF InputInv, OnceInv
<1>2. CASE Ask \/ Receive \/ PutBack \/ Expire \/ Broadcast
  BY <1>2 DEF Ask, Receive, PutBack, Expire, Broadcast, connVars
<1>3. ASSUME NEW i \in Actors,
             \/ Answer(i) \/ Disconnect(i) \/ Mark(i) \/ PushDummy(i)
             \/ CancelIfAllGone(i) \/ StopWatching(i)
      PROVE  /\ disc \subseteq disc'
             /\ \A j \in Actors :
                  \/ mon'[j] = mon[j]
                  \/ mon[j] = "watch" /\ mon'[j] = "push" /\ j \in disc'
                  \/ mon'[j] \in {"look", "done"} /\ (mon[j] = "watch" \/ j \in disc \/ mon[j] = "look")
  BY <1>0, <1>3 DEF Answer, Disconnect, Mark, PushDummy, CancelIfAllGone, StopWatching, connVars
<1> QED
  BY <1>1, <1>2, <1>3, NextSteps, Zenon

LEMMA DummyStep ==
  ASSUME InputInv, Next
  PROVE  DummyInv'
<1> SUFFICES ASSUME NEW i \in Actors
             PROVE  /\ InFlight(i, TRUE)' => i \in disc' /\ mon'[i] \notin {"watch", "push"}
                    /\ mon'[i] = "push" => i \in disc'
  BY DEF DummyInv
<1>1. /\ InFlight(i, TRUE) => i \in disc /\ mon[i] \notin {"watch", "push"}
      /\ mon[i] = "push" => i \in disc
      /\ mon \in [Actors -> {"watch", "push", "look", "done"}]
  BY DEF InputInv, DummyInv, TypeOK
<1>2. /\ disc \subseteq disc'
      /\ \/ mon'[i] = mon[i]
         \/ mon[i] = "watch" /\ mon'[i] = "push" /\ i \in disc'
         \/ mon'[i] \in {"look", "done"} /\ (mon[i] = "watch" \/ i \in disc \/ mon[i] = "look")
  BY MonStep
<1>3. PushDummy(i) => mon[i] = "push" /\ mon'[i] = "look"
  BY <1>1 DEF PushDummy
<1>4. InFlight(i, TRUE)' => InFlight(i, TRUE) \/ PushDummy(i)
  BY FlightStep
<1> QED
  BY <1>1, <1>2, <1>3, <1>4

LEMMA SteadyStep ==
  ASSUME InputInv, NEW i \in Actors,
         \/ QuietStep \/ Receive \/ PutBack \/ Expire
         \/ PushDummy(i) \/ Disconnect(i) \/ Mark(i) \/ CancelIfAllGone(i) \/ StopWatching(i)
  PROVE  /\ AskedOnce(events') /\ Requests(events') \subseteq Requests(events) /\ asked' = asked
         /\ \A j \in Actors : InFlight(j, FALSE)' => InFlight(j, FALSE)
<1>0. AskedOnce(events)
  BY DEF InputInv, OnceInv
<1>1. CASE QuietStep
  BY <1>0, <1>1, QuietFrame DEF InputInv, InFlight
<1>2. CASE Receive
  <2>1. UNCHANGED <<events, asked>>
    BY <1>2 DEF Receive, clientVars
  <2> QED
    BY <2>1, <1>0, <1>2, ReceiveStep
<1>3. CASE PutBack
  <2>1. UNCHANGED <<events, asked>>
    BY <1>3 DEF PutBack, clientVars
  <2> QED
    BY <2>1, <1>0, <1>3, PutBackStep
<1>4. CASE PushDummy(i)
  <2>1. UNCHANGED <<events, asked>> /\ ~Answer(i)
    BY <1>4 DEF PushDummy, Answer, clientVars, InputInv, TypeOK
  <2> QED
    BY <2>1, <1>0, <1>4, PushFrame
<1>5. CASE Expire \/ Disconnect(i) \/ Mark(i) \/ CancelIfAllGone(i) \/ StopWatching(i)
  <2>1. UNCHANGED <<events, asked, inputCh, held>>
    BY <1>5 DEF Expire, Disconnect, Mark, CancelIfAllGone, StopWatching,
       battleVars, chanVars, clientVars
  <2> QED
    BY <2>1, <1>0 DEF InFlight
<1> QED
  BY <1>1, <1>2, <1>3, <1>4, <1>5

LEMMA OnceStep ==
  ASSUME InputInv, Next
  PROVE  OnceInv'
<1>0. /\ AskedOnce(events)
      /\ \A j \in Actors : /\ j \in Requests(events) => j \notin asked /\ ~InFlight(j, FALSE)
                           /\ j \in asked => ~InFlight(j, FALSE)
  BY DEF InputInv, OnceInv
<1> DEFINE Good == \A j \in Actors :
                     /\ j \in Requests(events') => j \notin asked' /\ ~InFlight(j, FALSE)'
                     /\ j \in asked' => ~InFlight(j, FALSE)'
<1>ok. AskedOnce(events') /\ Good => OnceInv'
  BY DEF OnceInv
<1>1. ASSUME NEW i \in Actors,
             \/ QuietStep \/ Receive \/ PutBack \/ Expire
             \/ PushDummy(i) \/ Disconnect(i) \/ Mark(i) \/ CancelIfAllGone(i) \/ StopWatching(i)
      PROVE  OnceInv'
  <2>1. /\ AskedOnce(events') /\ Requests(events') \subseteq Requests(events) /\ asked' = asked
        /\ \A j \in Actors : InFlight(j, FALSE)' => InFlight(j, FALSE)
    BY <1>1, SteadyStep
  <2>good. Good
    BY <2>1, <1>0
  <2> QED
    BY <2>1, <2>good, <1>0, <1>ok
<1>2. CASE Ask
  <2>1. /\ AskedOnce(events') /\ Requests(events') \subseteq Requests(events) \cup {at}
        /\ ~Pending(at) /\ UNCHANGED <<asked, inputCh, held>>
    BY <1>2, AskStep
  <2>2. /\ at \notin asked /\ ~InFlight(at, FALSE)
        /\ \A j \in Actors : InFlight(j, FALSE)' = InFlight(j, FALSE)
    BY <2>1 DEF Pending, InFlight
  <2>good. Good
    BY <2>1, <2>2, <1>0
  <2> QED
    BY <2>1, <2>good, <1>ok
<1>3. ASSUME NEW i \in Actors, Answer(i)
      PROVE  OnceInv'
  <2>1. /\ i \in asked /\ asked' = asked \ {i} /\ events' = events
        /\ \A j \in Actors : InFlight(j, FALSE)' => InFlight(j, FALSE) \/ j = i
    BY <1>3, PushFrame DEF Answer
  <2>good. Good
    BY <2>1, <1>0
  <2> QED
    BY <2>1, <2>good, <1>0, <1>ok
<1>4. CASE Broadcast
  <2>1. /\ AskedOnce(events') /\ Requests(events') \subseteq Requests(events)
        /\ \A j \in asked' : j \in asked \/ j \in Requests(events) \ Requests(events')
    BY <1>4, BroadcastStep
  <2>2. \A j \in Actors : InFlight(j, FALSE)' = InFlight(j, FALSE)
    BY <1>4 DEF Broadcast, battleVars, InFlight
  <2>good. Good
    BY <2>1, <2>2, <1>0
  <2> QED
    BY <2>1, <2>good, <1>ok
<1>5. 1 \in Actors
  BY BattleAssumption DEF Actors
<1> QED
  BY <1>1, <1>2, <1>3, <1>4, <1>5, NextSteps, Zenon

\* Once the battle has been decided or its actor has gone, it stays so.
LEMMA PendingStep ==
  ASSUME InputInv, Next
  PROVE  PendingInv'
<1> DEFINE Over == pc \in {"end", "cleanup", "over"}
<1>0. \A j \in Actors : Pending(j) => Waiting(j) \/ (j \in disc /\ ~(pc = "ask" /\ at = j)) \/ Over
  BY DEF InputInv, PendingInv
<1>1. disc \subseteq disc'
  BY MonStep
<1>2. ASSUME NEW i \in Actors,
             \/ QuietStep \/ Receive \/ PutBack \/ Expire
             \/ PushDummy(i) \/ Disconnect(i) \/ Mark(i) \/ CancelIfAllGone(i) \/ StopWatching(i)
      PROVE  \A j \in Actors : Pending(j)' => Pending(j)
  <2>1. /\ Requests(events') \subseteq Requests(events) /\ asked' = asked
        /\ \A j \in Actors : InFlight(j, FALSE)' => InFlight(j, FALSE)
    BY <1>2, SteadyStep
  <2> QED
    BY <2>1 DEF Pending
<1>3. 1 \in Actors
  BY BattleAssumption DEF Actors
<1>4. CASE QuietStep
  <2>1. \A j \in Actors : Pending(j)' => Pending(j)
    BY <1>2, <1>3, <1>4
  <2>2. \/ pc' \in {"end", "cleanup", "over"} /\ pc # "putback"
        \/ /\ pc \in {"turn", "collect", "act"}
           /\ pc' \in {"turn", "collect", "act"} \/ (pc' = "ask" /\ at' = at /\ at \notin disc)
    BY <1>4, QuietFrame DEF InputInv, OnceInv
  <2>3. disc' = disc
    BY <1>4, QuietFrame DEF InputInv, OnceInv
  <2> QED
    BY <2>1, <2>2, <2>3, <1>0 DEF PendingInv, Waiting
<1>5. CASE Ask
  <2>1. /\ Requests(events') \subseteq Requests(events) \cup {at} /\ at \in Actors
        /\ pc = "ask" /\ pc' = "wait" /\ at' = at
        /\ UNCHANGED <<asked, inputCh, held, disc>>
    BY <1>5, AskStep
  <2>2. \A j \in Actors : Pending(j)' => Pending(j) \/ j = at
    BY <2>1 DEF Pending, InFlight
  <2> QED
    BY <2>1, <2>2, <1>0 DEF PendingInv, Waiting
<1>6. CASE Receive
  <2>1. \A j \in Actors : Pending(j)' => Pending(j)
    BY <1>2, <1>3, <1>6
  <2>2. /\ at \in Actors /\ pc = "wait" /\ pc' \in {"collect", "putback"}
        /\ pc' = "putback" => at' = at
        /\ pc' = "collect" =>
             /\ InFlight(at, FALSE) \/ InFlight(at, TRUE)
             /\ \A i \in Actors : i = at /\ InFlight(i, FALSE)' => InFlight(i, TRUE)
    BY <1>6, ReceiveStep
  <2>3. /\ Requests(events') = Requests(events) /\ asked' = asked /\ disc' = disc
    BY <1>6 DEF Receive, clientVars, connVars
  <2>4. CASE pc' = "putback"
    BY <2>1, <2>2, <2>3, <2>4, <1>0 DEF PendingInv, Waiting
  <2>5. CASE pc' = "collect"
    <3>1. ASSUME NEW j \in Actors, j # at, Pending(j)'
          PROVE  j \in disc'
      BY <3>1, <2>1, <2>2, <2>3, <1>0 DEF Waiting
    <3>2. ASSUME NEW j \in Actors, j = at, Pending(j)'
          PROVE  j \in disc'
      <4>1. InFlight(j, TRUE) => j \in disc
        BY DEF InputInv, DummyInv
      <4>2. CASE InFlight(j, FALSE)'
        BY <4>1, <4>2, <3>2, <2>2, <2>3, <2>5
      <4>3. CASE ~InFlight(j, FALSE)'
        <5>1. j \in Requests(events) \/ j \in asked
          BY <4>3, <3>2, <2>3 DEF Pending
        <5>2. ~InFlight(j, FALSE)
          BY <5>1 DEF InputInv, OnceInv
        <5> QED
          BY <5>2, <4>1, <3>2, <2>2, <2>3, <2>5
      <4> QED
        BY <4>2, <4>3
    <3> QED
      BY <3>1, <3>2, <2>5 DEF PendingInv, Waiting
  <2> QED
    BY <2>2, <2>4, <2>5
<1>7. CASE PutBack
  <2>1. \A j \in Actors : Pending(j)' => Pending(j)
    BY <1>2, <1>3, <1>7
  <2> QED
    BY <2>1, <1>0, <1>7 DEF PutBack, PendingInv, Waiting, connVars
<1>8. ASSUME NEW i \in Actors,
             \/ Expire \/ Answer(i) \/ PushDummy(i) \/ Disconnect(i) \/ Mark(i)
             \/ CancelIfAllGone(i) \/ StopWatching(i) \/ Broadcast
      PROVE  PendingInv'
  <2>1. UNCHANGED <<pc, at>>
    BY <1>8 DEF Expire, Answer, PushDummy, Disconnect, Mark, CancelIfAllGone, StopWatching,
       Broadcast, battleVars
  <2>2. \A j \in Actors : Pending(j)' => Pending(j)
    <3>1. CASE Answer(i)
      <4>1. /\ i \in asked /\ asked' = asked \ {i} /\ events' = events
            /\ \A j \in Actors : InFlight(j, FALSE)' => InFlight(j, FALSE) \/ j = i
        BY <3>1, PushFrame DEF Answer
      <4> QED
        BY <4>1 DEF Pending
    <3>2. CASE Broadcast
      <4>1. /\ Requests(events') \subseteq Requests(events)
            /\ \A j \in asked' : j \in asked \/ j \in Requests(events)
        BY <3>2, BroadcastStep
      <4>2. \A j \in Actors : InFlight(j, FALSE)' = InFlight(j, FALSE)
        BY <3>2 DEF Broadcast, battleVars, InFlight
      <4> QED
        BY <4>1, <4>2 DEF Pending
    <3> QED
      BY <1>8, <1>2, <3>1, <3>2
  <2> QED
    BY <2>1, <2>2, <1>0, <1>1 DEF PendingInv, Waiting
<1> QED
  BY <1>3, <1>4, <1>5, <1>6, <1>7, <1>8, NextSteps, Zenon
-----------------------------------------------------------------------------
(* Theorems *)

LEMMA InputInit == Init => InputInv
<1> SUFFICES ASSUME Init
             PROVE  InputInv
  OBVIOUS
<1>1. NumActors \in Nat \ {0} /\ InputCap \in Nat /\ EventCap \in Nat /\ 1 \in 1 .. NumActors + 1
  BY BattleAssumption
<1>2. Tags(inputCh) = {} /\ Requests(events) = {} /\ AllApart(inputCh) /\ AskedOnce(events)
  BY DEF Init, Tags, Requests, AllApart, AskedOnce
<1>3. /\ <<>> \in Seq(Input) /\ <<>> \in Seq(Event) /\ Len(<<>>) = 0
  OBVIOUS
<1>4. TypeOK
  <2>1. /\ inputCh \in Seq(Input) /\ events \in Seq(Event) /\ Len(inputCh) <= InputCap
        /\ Len(events) <= EventCap /\ at \in 1 .. NumActors + 1
    BY <1>1, <1>3 DEF Init
  <2>2. action \in [Actors -> Action] /\ told \in [Actors -> Nat] /\ pc \in Phase
    BY DEF Init, Action, Phase
  <2> QED
    BY <2>1, <2>2 DEF Init, TypeOK
<1>5. \A i \in Actors, d \in BOOLEAN : ~InFlight(i, d)
  BY <1>2, NoInputTag DEF Init, InFlight
<1>6. AtInv /\ ChanInv /\ DummyInv /\ OnceInv /\ PendingInv
  BY <1>1, <1>2, <1>5 DEF Init, AtInv, ChanInv, DummyInv, OnceInv, PendingInv, Pending
<1> QED
  BY <1>4, <1>6 DEF InputInv

LEMMA InputStutter ==
  ASSUME InputInv, UNCHANGED vars
  PROVE  InputInv'
<1>1. UNCHANGED <<battleVars, chanVars, connVars, inBattle, clientVars, histVars>>
  BY DEF vars
<1>2. UNCHANGED <<pc, at, held, action, todo, alive, fled, inputCh, events, off, disc, mon,
                  cancelled, inBattle, asked, told, lost, dropped, expired>>
  BY <1>1 DEF battleVars, chanVars, connVars, clientVars, histVars
<1> QED
  BY <1>2 DEF InputInv, TypeOK, AtInv, ChanInv, DummyInv, OnceInv, PendingInv,
     InFlight, Pending, Waiting

LEMMA InputStep == InputInv /\ [Next]_vars => InputInv'
<1>1. ASSUME InputInv, Next
      PROVE  InputInv'
  BY <1>1, TypeStep, ChanStep, DummyStep, OnceStep, PendingStep DEF InputInv
<1> QED
  BY <1>1, InputStutter

LEMMA InputAlways == Spec => []InputInv
BY InputInit, InputStep, PTL DEF Spec

\* Every variable of the battle, its channels and its participants keeps its type.
THEOREM TypeCorrect == Spec => []TypeOK
<1>1. InputInv => TypeOK
  BY DEF InputInv
<1> QED
  BY <1>1, InputAlways, PTL

\* waitForInput never finds an answer to an earlier request: whatever a participant
\* sends is taken for the request it answers, or the battle is over or he has gone.
THEOREM AnswersFresh == Spec => []FreshInput
<1>1. ASSUME InputInv
      PROVE  FreshInput
  <2>1. ASSUME NEW k \in 1 .. Len(inputCh), ~inputCh[k].dummy
        PROVE  \/ Waiting(inputCh[k].actor) \/ inputCh[k].actor \in disc
               \/ pc \in {"end", "cleanup", "over"}
    <3>1. inputCh[k] \in Input
      BY <1>1 DEF InputInv, TypeOK
    <3>2. inputCh[k].actor \in Actors /\ inputCh[k].dummy = FALSE
      BY <3>1, <2>1 DEF Input
    <3>3. Tag(inputCh[k]) = <<inputCh[k].actor, FALSE>> /\ Tag(inputCh[k]) \in Tags(inputCh)
      BY <3>2 DEF Tag, Tags
    <3>4. Pending(inputCh[k].actor)
      BY <3>3 DEF Pending, InFlight
    <3> QED
      BY <3>2, <3>4, <1>1 DEF InputInv, PendingInv
  <2> QED
    BY <2>1 DEF FreshInput
<1> QED
  BY <1>1, InputAlways, PTL

\* inputCh never overflows if it has room for an answer of everybody and an input
\* that stands for everybody: with the code's 8 that is a party of 4.
THEOREM ChannelSuffices ==
  ASSUME InputCap >= 2 * NumActors
  PROVE  Spec => []NoInputLost
<1>1. Init => NoInputLost
  BY DEF Init, NoInputLost
<1>2. ASSUME InputInv, NoInputLost, Next
      PROVE  NoInputLost'
  <2>1. CASE QuietStep
    BY <1>2, <2>1, QuietFrame DEF InputInv, OnceInv, NoInputLost
  <2>2. CASE Ask \/ Receive
    BY <1>2, <2>2 DEF Ask, Receive, histVars, NoInputLost
  <2>3. CASE PutBack
    BY <1>2, <2>3, PutBackStep DEF NoInputLost
  <2>4. ASSUME NEW i \in Actors, Answer(i) \/ PushDummy(i)
        PROVE  NoInputLost'
    BY <1>2, <2>4, PushFrame DEF NoInputLost
  <2>5. ASSUME NEW i \in Actors,
               \/ Disconnect(i) \/ Mark(i) \/ CancelIfAllGone(i) \/ StopWatching(i)
               \/ Expire \/ Broadcast
        PROVE  NoInputLost'
    BY <1>2, <2>5, IdleFrame DEF NoInputLost
  <2>6. 1 \in Actors
    BY BattleAssumption DEF Actors
  <2> QED
    BY <1>2, <2>1, <2>2, <2>3, <2>4, <2>5, <2>6, NextSteps, Zenon
<1>3. NoInputLost /\ UNCHANGED vars => NoInputLost'
  BY DEF NoInputLost, vars, histVars
<1>4. InputInv /\ NoInputLost /\ [Next]_vars => NoInputLost'
  BY <1>2, <1>3
<1> QED
  BY <1>1, <1>4, InputAlways, PTL DEF Spec

-----------------------------------------------------------------------------
(* Everybody is told once *)

Done == {"cleanup", "over"}

Escapees(s) == {s[k].actor : k \in {j \in 1 .. Len(s) : s[j].kind = "escape"}}
LeftOnce(s) == \A j, k \in 1 .. Len(s) :
                 s[j].kind = "escape" /\ s[k].kind = "escape" /\ s[j].actor = s[k].actor
                   => j = k
HasEnd(s)   == \E k \in 1 .. Len(s) : s[k].kind = "end"
EndsLast(s) == \A k \in 1 .. Len(s) : s[k].kind = "end" => k = Len(s)

\* The end is the last event there is, an escape is announced once, and an event
\* that was dropped is not on its way ...
EventsInv ==
  /\ LeftOnce(events) /\ EndsLast(events)
  /\ HasEnd(events) => pc \in Done
  /\ Escapees(events) \subseteq fled
  /\ Ended \in dropped => pc \in Done /\ ~HasEnd(events)
  /\ \A i \in Actors : Flees(i) \in dropped => i \in fled /\ i \notin Escapees(events)

\* ... so whoever has been told is in no event still to come, and whoever has not
\* been told is, or was in one that was dropped, as long as there is somebody to tell.
ToldInv ==
  \A i \in Actors :
    /\ told[i] \in {0, 1}
    /\ i \in Escapees(events) => told[i] = 0
    /\ i \notin fled /\ (HasEnd(events) \/ pc \notin Done \/ Ended \in dropped) => told[i] = 0
    /\ Flees(i) \in dropped => told[i] = 0
    /\ i \in fled \ off => told[i] = 1 \/ i \in Escapees(events) \/ Flees(i) \in dropped
    /\ i \notin fled /\ i \notin off /\ pc \in Done /\ ~HasEnd(events) /\ ~expired
         => told[i] = 1 \/ Ended \in dropped

\* The battle is given up without an end only if nobody is there to be told.
GivenUpInv == cancelled /\ ~expired /\ pc # "over" => off = Actors

EndInv == EventsInv /\ ToldInv /\ GivenUpInv

LEMMA TailEnds ==
  ASSUME NEW s \in Seq(Event), s # <<>>, LeftOnce(s), EndsLast(s)
  PROVE  /\ Tail(s) \in Seq(Event) /\ Head(s) \in Event
         /\ LeftOnce(Tail(s)) /\ EndsLast(Tail(s))
         /\ Head(s).kind = "end" => HasEnd(s) /\ ~HasEnd(Tail(s)) /\ Escapees(s) = {}
         /\ Head(s).kind # "end" => (HasEnd(Tail(s)) <=> HasEnd(s))
         /\ Head(s).kind = "escape" => /\ Head(s).actor \in Escapees(s)
                                       /\ Head(s).actor \notin Escapees(Tail(s))
         /\ Escapees(s) \subseteq Escapees(Tail(s)) \cup
              (IF Head(s).kind = "escape" THEN {Head(s).actor} ELSE {})
         /\ Escapees(Tail(s)) \subseteq Escapees(s)
<1>1. /\ Len(s) \in Nat \ {0} /\ Len(Tail(s)) = Len(s) - 1 /\ Head(s) = s[1]
      /\ Tail(s) \in Seq(Event) /\ Head(s) \in Event
      /\ \A k \in 1 .. Len(s) - 1 : Tail(s)[k] = s[k + 1]
  OBVIOUS
<1>3. \A k \in 1 .. Len(Tail(s)) : k + 1 \in 1 .. Len(s) /\ k + 1 # 1 /\ Tail(s)[k] = s[k + 1]
  BY <1>1
<1>2. LeftOnce(Tail(s)) /\ EndsLast(Tail(s))
  <2>1. LeftOnce(Tail(s))
    BY <1>1 DEF LeftOnce
  <2>2. ASSUME NEW k \in 1 .. Len(Tail(s)), Tail(s)[k].kind = "end" PROVE k = Len(Tail(s))
    <3>1. k + 1 = Len(s)
      BY <1>3, <2>2 DEF EndsLast
    <3>2. k \in Int /\ Len(s) \in Int /\ Len(Tail(s)) = Len(s) - 1
      BY <1>1
    <3> QED BY <3>1, <3>2
  <2> QED BY <2>1, <2>2 DEF EndsLast
<1>4. \A k \in 1 .. Len(s) : k = 1 \/ (k - 1 \in 1 .. Len(Tail(s)) /\ Tail(s)[k - 1] = s[k])
  BY <1>1
<1>5. Head(s).kind = "end" => HasEnd(s) /\ ~HasEnd(Tail(s)) /\ Escapees(s) = {}
  <2> SUFFICES ASSUME Head(s).kind = "end"
               PROVE  HasEnd(s) /\ ~HasEnd(Tail(s)) /\ Escapees(s) = {}
    OBVIOUS
  <2>1. 1 \in 1 .. Len(s) /\ s[1].kind = "end"
    BY <1>1
  <2>2. Len(s) = 1
    BY <2>1 DEF EndsLast
  <2>3. 1 .. Len(Tail(s)) = {} /\ 1 .. Len(s) = {1} /\ "end" # "escape"
    BY <1>1, <2>2
  <2>4. Escapees(s) = {}
    BY <2>1, <2>3 DEF Escapees
  <2>5. ~HasEnd(Tail(s))
    BY <2>3 DEF HasEnd
  <2> QED BY <2>1, <2>4, <2>5 DEF HasEnd
<1>6. HasEnd(Tail(s)) => HasEnd(s)
  BY <1>3 DEF HasEnd
<1>7. HasEnd(s) /\ Head(s).kind # "end" => HasEnd(Tail(s))
  BY <1>1, <1>4 DEF HasEnd
<1>8. Escapees(Tail(s)) \subseteq Escapees(s)
  BY <1>3 DEF Escapees
<1>9. Head(s).kind = "escape" => /\ Head(s).actor \in Escapees(s)
                                 /\ Head(s).actor \notin Escapees(Tail(s))
  <2> SUFFICES ASSUME Head(s).kind = "escape"
               PROVE  /\ Head(s).actor \in Escapees(s)
                      /\ Head(s).actor \notin Escapees(Tail(s))
    OBVIOUS
  <2>1. Head(s).actor \in Escapees(s)
    BY <1>1 DEF Escapees
  <2>2. ASSUME NEW k \in 1 .. Len(Tail(s)), Tail(s)[k].kind = "escape"
        PROVE  Tail(s)[k].actor # Head(s).actor
    BY <1>1, <1>3, <2>2 DEF LeftOnce
  <2> QED BY <2>1, <2>2 DEF Escapees
<1>10. Escapees(s) \subseteq Escapees(Tail(s)) \cup
          (IF Head(s).kind = "escape" THEN {Head(s).actor} ELSE {})
  BY <1>1, <1>4 DEF Escapees
<1> QED BY <1>1, <1>2, <1>5, <1>6, <1>7, <1>8, <1>9, <1>10

LEMMA AppendEnds ==
  ASSUME NEW s \in Seq(Event), LeftOnce(s), ~HasEnd(s), NEW e \in Event,
         e.kind = "escape" => e.actor \notin Escapees(s)
  PROVE  /\ Append(s, e) \in Seq(Event)
         /\ LeftOnce(Append(s, e)) /\ EndsLast(Append(s, e))
         /\ HasEnd(Append(s, e)) <=> e.kind = "end"
         /\ Escapees(Append(s, e)) = Escapees(s) \cup
              (IF e.kind = "escape" THEN {e.actor} ELSE {})
<1>1. /\ Len(s) \in Nat /\ Len(Append(s, e)) = Len(s) + 1 /\ Append(s, e) \in Seq(Event)
      /\ \A k \in 1 .. Len(s) : Append(s, e)[k] = s[k]
      /\ Append(s, e)[Len(s) + 1] = e
  OBVIOUS
<1>2. 1 .. Len(Append(s, e)) = (1 .. Len(s)) \cup {Len(s) + 1} /\ Len(s) + 1 \notin 1 .. Len(s)
  BY <1>1
<1>3. \A k \in 1 .. Len(s) : s[k].kind # "end"
  BY DEF HasEnd
<1>4. EndsLast(Append(s, e)) /\ (HasEnd(Append(s, e)) <=> e.kind = "end")
  BY <1>1, <1>2, <1>3 DEF EndsLast, HasEnd
<1>5. LeftOnce(Append(s, e))
  <2>1. \A k \in 1 .. Len(s) : s[k].kind = "escape" /\ e.kind = "escape" => s[k].actor # e.actor
    BY DEF Escapees
  <2>2. ASSUME NEW j \in 1 .. Len(s) + 1, NEW k \in 1 .. Len(s) + 1,
               Append(s, e)[j].kind = "escape", Append(s, e)[k].kind = "escape",
               Append(s, e)[j].actor = Append(s, e)[k].actor
        PROVE  j = k
    <3>1. CASE j \in 1 .. Len(s) /\ k \in 1 .. Len(s)
      BY <1>1, <2>2, <3>1 DEF LeftOnce
    <3>2. CASE j = Len(s) + 1 \/ k = Len(s) + 1
      BY <1>1, <2>1, <2>2, <3>2
    <3> QED BY <1>1, <3>1, <3>2
  <2> QED BY <1>1, <2>2 DEF LeftOnce
<1>6. Escapees(Append(s, e)) = Escapees(s) \cup (IF e.kind = "escape" THEN {e.actor} ELSE {})
  <2>1. Escapees(s) = {Append(s, e)[k].actor :
                         k \in {j \in 1 .. Len(s) : Append(s, e)[j].kind = "escape"}}
    BY <1>1 DEF Escapees
  <2> QED BY <1>1, <1>2, <2>1 DEF Escapees
<1> QED BY <1>1, <1>4, <1>5, <1>6

\* The steps of the battle itself, as far as events and who is told go: it goes
\* on, ends with or without an event, asks, or lets somebody go.
GoesOn   == /\ UNCHANGED <<fled, events, dropped, cancelled>>
            /\ pc \notin Done /\ pc' \notin Done
Ends     == /\ UNCHANGED <<fled, cancelled>>
            /\ pc \notin Done /\ pc' = "cleanup" /\ Emit(Ended)
Stops    == /\ UNCHANGED <<fled, events, dropped, cancelled>>
            /\ pc \notin Done /\ pc' = "cleanup" /\ cancelled
Closes   == /\ UNCHANGED <<fled, events, dropped>>
            /\ pc = "cleanup" /\ pc' = "over"
Requires == /\ UNCHANGED <<fled, cancelled>>
            /\ pc = "ask" /\ pc \notin Done /\ pc' \notin Done
            /\ Emit([kind |-> "ask", actor |-> at])
LetsGo(i) == /\ fled' = fled \cup {i} /\ UNCHANGED cancelled
             /\ pc \notin Done /\ pc' \notin Done
             /\ Emit(Flees(i))

LEMMA BattleFrame ==
  ASSUME BattleStep
  PROVE  /\ UNCHANGED <<told, off, expired>>
         /\ \/ GoesOn \/ Ends \/ Stops \/ Closes \/ Requires
            \/ \E i \in Actors \ fled : LetsGo(i)
<1> USE DEF connVars, clientVars, histVars, chanVars, Done
<1>1. CASE TurnStart \/ TurnEnd
  BY <1>1 DEF TurnStart, TurnEnd, Settle, GoesOn
<1>2. CASE Collect \/ Receive \/ PutBack \/ Order
  BY <1>2 DEF Collect, Receive, PutBack, Order, GoesOn
<1>3. CASE Ask
  BY <1>3 DEF Ask, Requires
<1>4. CASE GiveUp
  BY <1>4 DEF GiveUp, Stops
<1>5. ASSUME NEW b \in Battlers, Act(b)
      PROVE  UNCHANGED <<told, off, expired>> /\ GoesOn
  BY <1>5 DEF Act, Settle, GoesOn
<1>6. ASSUME NEW i \in Actors, EscapeFails(i)
      PROVE  UNCHANGED <<told, off, expired>> /\ GoesOn
  BY <1>6 DEF EscapeFails, GoesOn
<1>7. ASSUME NEW i \in Actors, Escape(i)
      PROVE  UNCHANGED <<told, off, expired>> /\ (GoesOn \/ (i \notin fled /\ LetsGo(i)))
  BY <1>7 DEF Escape, Able, LetsGo, GoesOn
<1>8. CASE End
  BY <1>8 DEF End, Ends
<1>9. CASE Cleanup
  BY <1>9 DEF Cleanup, Closes
<1> QED
  BY <1>1, <1>2, <1>3, <1>4, <1>5, <1>6, <1>7, <1>8, <1>9 DEF BattleStep

\* The participants and their monitors.
LEMMA OthersFrame ==
  ASSUME NEW i \in Actors, Answer(i) \/ Disconnect(i) \/ Monitor(i) \/ Expire
  PROVE  /\ UNCHANGED <<pc, fled, events, dropped, told>>
         /\ off \subseteq off' /\ (expired => expired')
         /\ cancelled' => cancelled \/ off = Actors \/ expired'
<1> USE DEF battleVars, connVars, clientVars, histVars, chanVars
<1>1. CASE Answer(i)
  BY <1>1 DEF Answer
<1>2. CASE Disconnect(i) \/ Expire
  BY <1>2 DEF Disconnect, Expire
<1>3. CASE CancelIfAllGone(i)
  <2>1. UNCHANGED <<pc, fled, events, dropped, told, off, expired>>
    BY <1>3 DEF CancelIfAllGone
  <2>2. cancelled' => cancelled \/ off = Actors
    BY <1>3, Zenon DEF CancelIfAllGone
  <2> QED BY <2>1, <2>2
<1>4. CASE Mark(i) \/ PushDummy(i) \/ StopWatching(i)
  BY <1>4 DEF Mark, PushDummy, StopWatching
<1> QED BY <1>1, <1>2, <1>3, <1>4 DEF Monitor

LEMMA EndStep ==
  ASSUME InputInv, EndInv, [Next]_vars
  PROVE  EndInv'
<1>1. /\ events \in Seq(Event) /\ LeftOnce(events) /\ EndsLast(events)
      /\ Escapees(events) \subseteq fled /\ (HasEnd(events) => pc \in Done)
      /\ off \subseteq Actors /\ fled \subseteq Actors
      /\ told \in [Actors -> Nat] /\ cancelled \in BOOLEAN /\ expired \in BOOLEAN
      /\ Ended \in Event /\ Ended.kind = "end"
      /\ "over" \in Done /\ "cleanup" \in Done
      /\ Ended \in dropped => pc \in Done /\ ~HasEnd(events)
      /\ \A i \in Actors : /\ Flees(i) \in dropped => i \in fled /\ i \notin Escapees(events)
                           /\ Flees(i) # Ended /\ Flees(i) \in Event
                           /\ Flees(i).kind = "escape" /\ Flees(i).actor = i
  BY DEF InputInv, TypeOK, EndInv, EventsInv, Event, Ended, Flees, Done
<1>2. CASE BattleStep
  <2>1. /\ UNCHANGED <<told, off, expired>>
        /\ \/ GoesOn \/ Ends \/ Stops \/ Closes \/ Requires
           \/ \E i \in Actors \ fled : LetsGo(i)
    BY <1>2, BattleFrame
  <2>2. CASE GoesOn
    BY <1>1, <2>1, <2>2 DEF GoesOn, EndInv, EventsInv, ToldInv, GivenUpInv, Done
  <2>3. CASE Ends
    <3>1. ~HasEnd(events) /\ Ended \notin dropped
      BY <1>1, <2>3 DEF Ends
    <3>2. CASE events' = Append(events, Ended) /\ UNCHANGED dropped
      <4>1. /\ LeftOnce(events') /\ EndsLast(events') /\ HasEnd(events')
            /\ Escapees(events') = Escapees(events)
        <5>1. /\ events \in Seq(Event) /\ LeftOnce(events) /\ Ended \in Event
              /\ Ended.kind = "end"
          BY <1>1
        <5> QED BY <3>1, <3>2, <5>1, AppendEnds
      <4> QED BY <1>1, <2>1, <2>3, <3>1, <3>2, <4>1
              DEF Ends, EndInv, EventsInv, ToldInv, GivenUpInv, Done
    <3>3. CASE dropped' = dropped \cup {Ended} /\ UNCHANGED events
      BY <1>1, <2>1, <2>3, <3>1, <3>3 DEF Ends, EndInv, EventsInv, ToldInv, GivenUpInv, Done
    <3> QED BY <2>3, <3>2, <3>3 DEF Ends, Emit
  <2>4. CASE Stops
    <3>1. ~HasEnd(events)
      BY <1>1, <2>4 DEF Stops
    <3> QED BY <1>1, <2>1, <2>4, <3>1
            DEF Stops, EndInv, EventsInv, ToldInv, GivenUpInv, Done
  <2>5. CASE Closes
    BY <1>1, <2>1, <2>5 DEF Closes, EndInv, EventsInv, ToldInv, GivenUpInv, Done
  <2>6. CASE Requires
    <3> DEFINE e == [kind |-> "ask", actor |-> at]
    <3>1. ~HasEnd(events)
      BY <1>1, <2>6 DEF Requires
    <3>2. e \in Event /\ e.kind = "ask" /\ e # Ended /\ \A i \in Actors : e # Flees(i)
      <4>1. at \in Actors
        BY <2>6 DEF InputInv, AtInv, Requires
      <4>2. \A i \in Actors : Flees(i).kind = "escape"
        BY <1>1
      <4> QED BY <1>1, <4>1, <4>2 DEF Event
    <3>3. CASE events' = Append(events, e) /\ UNCHANGED dropped
      <4>1. /\ LeftOnce(events') /\ EndsLast(events') /\ ~HasEnd(events')
            /\ Escapees(events') = Escapees(events)
        BY <1>1, <3>1, <3>2, <3>3, AppendEnds
      <4> QED BY <1>1, <2>1, <2>6, <3>3, <4>1
              DEF Requires, EndInv, EventsInv, ToldInv, GivenUpInv, Done
    <3>4. CASE dropped' = dropped \cup {e} /\ UNCHANGED events
      <4> HIDE DEF e
      <4> QED BY <1>1, <2>1, <2>6, <3>2, <3>4
              DEF Requires, EndInv, EventsInv, ToldInv, GivenUpInv, Done
    <3> QED BY <2>6, <3>3, <3>4 DEF Requires, Emit
  <2>7. ASSUME NEW i \in Actors, i \notin fled, LetsGo(i) PROVE EndInv'
    <3>1. ~HasEnd(events) /\ i \notin Escapees(events) /\ Ended \notin dropped
      BY <1>1, <2>7 DEF LetsGo
    <3>2. /\ fled' = fled \cup {i} /\ UNCHANGED cancelled /\ pc \notin Done /\ pc' \notin Done
          /\ Emit(Flees(i))
      BY <2>7 DEF LetsGo
    <3>3. told[i] = 0 /\ Flees(i) \notin dropped
      BY <1>1, <2>7, <3>2 DEF EndInv, ToldInv
    <3>4. \A j \in Actors : Flees(j) = Flees(i) => j = i
      BY <1>1
    <3>5. CASE events' = Append(events, Flees(i)) /\ UNCHANGED dropped
      <4>1. /\ LeftOnce(events') /\ EndsLast(events') /\ ~HasEnd(events')
            /\ Escapees(events') = Escapees(events) \cup {i}
        BY <1>1, <3>1, <3>5, AppendEnds
      <4>2. EventsInv'
        BY <1>1, <3>1, <3>2, <3>3, <3>5, <4>1 DEF EventsInv
      <4>3. ToldInv'
        BY <1>1, <2>1, <3>1, <3>2, <3>3, <3>5, <4>1 DEF EndInv, ToldInv
      <4> QED BY <1>1, <2>1, <3>2, <4>2, <4>3 DEF EndInv, GivenUpInv, Done
    <3>6. CASE dropped' = dropped \cup {Flees(i)} /\ UNCHANGED events
      <4>1. EventsInv'
        BY <1>1, <3>1, <3>2, <3>4, <3>6 DEF EventsInv
      <4>2. ToldInv'
        BY <1>1, <2>1, <3>1, <3>2, <3>3, <3>4, <3>6 DEF EndInv, ToldInv
      <4> QED BY <1>1, <2>1, <3>2, <4>1, <4>2 DEF EndInv, GivenUpInv, Done
    <3> QED BY <3>2, <3>5, <3>6 DEF Emit
  <2> QED BY <2>1, <2>2, <2>3, <2>4, <2>5, <2>6, <2>7
<1>3. ASSUME NEW i \in Actors, Answer(i) \/ Disconnect(i) \/ Monitor(i) \/ Expire
      PROVE  EndInv'
  <2>1. /\ UNCHANGED <<pc, fled, events, dropped, told>>
        /\ off \subseteq off' /\ (expired => expired')
        /\ cancelled' => cancelled \/ off = Actors \/ expired'
    BY <1>3, OthersFrame
  <2>2. off' \subseteq Actors
    BY <1>1, <1>3 DEF Answer, Disconnect, Monitor, Expire, Mark, PushDummy, CancelIfAllGone,
       StopWatching, connVars
  <2> QED BY <1>1, <2>1, <2>2 DEF EndInv, EventsInv, ToldInv, GivenUpInv
<1>4. CASE Broadcast
  <2> DEFINE e == Head(events)
             T == Tail(events)
  <2>1. /\ events # <<>> /\ events' = T
        /\ UNCHANGED <<pc, fled, off, dropped, cancelled, expired>>
        /\ \/ e.kind = "ask" /\ told' = told
           \/ /\ e.kind = "escape"
              /\ told' = [i \in Actors |-> IF i = e.actor /\ i \notin off
                                             THEN told[i] + 1 ELSE told[i]]
           \/ /\ e.kind = "end"
              /\ told' = [i \in Actors |-> IF i \in Actors \ (off \cup fled)
                                             THEN told[i] + 1 ELSE told[i]]
    BY <1>4 DEF Broadcast, battleVars, connVars, histVars
  <2>2. /\ LeftOnce(T) /\ EndsLast(T)
        /\ e.kind = "end" => HasEnd(events) /\ ~HasEnd(T) /\ Escapees(events) = {}
        /\ e.kind # "end" => (HasEnd(T) <=> HasEnd(events))
        /\ e.kind = "escape" => e.actor \in Escapees(events) /\ e.actor \notin Escapees(T)
        /\ Escapees(events) \subseteq Escapees(T) \cup
             (IF e.kind = "escape" THEN {e.actor} ELSE {})
        /\ Escapees(T) \subseteq Escapees(events)
    BY <1>1, <2>1, TailEnds
  <2> HIDE DEF e, T
  <2>3. EventsInv'
    BY <1>1, <2>1, <2>2 DEF EventsInv
  <2>4. GivenUpInv'
    BY <2>1 DEF EndInv, GivenUpInv
  <2>5. ToldInv'
    <3>1. CASE e.kind = "ask"
      BY <1>1, <2>1, <2>2, <3>1 DEF EndInv, ToldInv
    <3>2. CASE e.kind = "escape"
      BY <1>1, <2>1, <2>2, <3>2 DEF EndInv, ToldInv
    <3>3. CASE e.kind = "end"
      BY <1>1, <2>1, <2>2, <3>3 DEF EndInv, ToldInv
    <3> QED BY <2>1, <3>1, <3>2, <3>3
  <2> QED BY <2>3, <2>4, <2>5 DEF EndInv
<1>5. CASE UNCHANGED vars
  BY <1>5 DEF vars, battleVars, chanVars, connVars, clientVars, histVars,
     EndInv, EventsInv, ToldInv, GivenUpInv
<1>6. 1 \in Actors
  BY BattleAssumption DEF Actors
<1> QED BY <1>2, <1>3, <1>4, <1>5, <1>6 DEF Next

\* Whatever order escapes and the end reach the broadcaster in, nobody is told
\* twice that the battle is over for him, and when it is nobody connected has
\* been left out, but those whose last event found the channel full, for whom no
\* other stands in, and those of an event whose context ran out.
THEOREM EndIsTold == Spec => []EndTold
<1>1. Init => EndInv
  <2> SUFFICES ASSUME Init PROVE EndInv
    OBVIOUS
  <2>1. /\ Escapees(events) = {} /\ ~HasEnd(events) /\ LeftOnce(events) /\ EndsLast(events)
    BY DEF Init, Escapees, HasEnd, LeftOnce, EndsLast
  <2> QED BY <2>1 DEF Init, EndInv, EventsInv, ToldInv, GivenUpInv, Done
<1>2. EndInv => EndTold
  <2> SUFFICES ASSUME EndInv, NEW i \in Actors
               PROVE  /\ told[i] <= 1
                      /\ pc = "over" /\ events = <<>> /\ i \notin off /\ ~expired
                           => told[i] = IF LastEvent(i) \in dropped THEN 0 ELSE 1
    BY DEF EndTold
  <2>1. told[i] <= 1
    BY DEF EndInv, ToldInv
  <2>2. ASSUME pc = "over", events = <<>>, i \notin off, ~expired
        PROVE  told[i] = IF LastEvent(i) \in dropped THEN 0 ELSE 1
    <3>1. ~HasEnd(events) /\ Escapees(events) = {} /\ pc \in Done
      BY <2>2 DEF HasEnd, Escapees, Done
    <3>2. CASE i \in fled
      BY <2>2, <3>1, <3>2 DEF EndInv, ToldInv, LastEvent
    <3>3. CASE i \notin fled
      BY <2>2, <3>1, <3>3 DEF EndInv, ToldInv, LastEvent
    <3> QED BY <3>2, <3>3
  <2> QED BY <2>1, <2>2
<1> QED BY <1>1, <1>2, InputAlways, EndStep, PTL DEF Spec
=============================================================================
