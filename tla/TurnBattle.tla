----------------------------- MODULE TurnBattle -----------------------------
(***************************************************************************)
(* One server-run turn battle: RunBattle and its participants              *)
(* (server/api/ws/handlers_battle_session.go) around the turn loop of      *)
(* BattleInstance.Run (server/game/battle/instance.go).                    *)
(*                                                                         *)
(* Goroutines: the battle itself (pc), one monitor for each participant,   *)
(* the broadcaster, and the participants' readers, which push inputs into  *)
(* inputCh.  The battle asks one actor after the other and takes from      *)
(* inputCh; an input of another actor is put back at the end.              *)
(*                                                                         *)
(* Damage, states and troop events are abstracted to what they may change: *)
(* which actors are alive, and whether the battle is decided, for the      *)
(* enemies are all dead or fled or a script has aborted it.  Of the events *)
(* only those are kept that ask for an input or end somebody's battle; the *)
(* others take slots of the channel of events all the same.  A client      *)
(* answers a request once, if at all.                                      *)
(***************************************************************************)
EXTENDS Integers, Sequences, FiniteSets

CONSTANTS
  NumActors,    \* participants: the initiator and party members nearby
  Foes,         \* the troop
  InputCap,     \* capacity of inputCh
  EventCap,     \* capacity of the channel of events
  Deadline      \* the battle's event has one: NPCs' have, touch events have not

Actors == 1 .. NumActors
Battlers == Actors \cup Foes

\* inputCh holds 8, the channel of events 64; a party has at most 4 members.
ASSUME BattleAssumption ==
  /\ NumActors \in Nat \ {0}
  /\ Foes \cap Nat = {}
  /\ InputCap \in Nat /\ InputCap > NumActors
  /\ EventCap \in Nat \ {0}
  /\ Deadline \in BOOLEAN

VARIABLES
  pc, at,       \* the battle: where it is, and which actor it collects from
  held,         \* an input of another actor, taken out and not yet put back
  action,       \* actor -> CurrentAction: none, escape, or anything else
  todo,         \* battlers of this turn's order that have not had their turn
  alive, fled,  \* actors standing; actors that have escaped
  inputCh,      \* inputs on their way to the battle
  events,       \* events on their way to the broadcaster
  off,          \* participants whose session is closed (Done)
  disc,         \* disconnected
  mon,          \* where each participant's monitor is
  cancelled,    \* battleCtx is done
  inBattle,     \* participants with InBattle() set and an entry in bm.sessions
  asked,        \* clients with a request they have not answered
  told,         \* client -> battle_end messages it has received
  lost,         \* history: an input found inputCh full
  dropped,      \* history: the events that found their channel full
  expired       \* history: the event's context ran out under the battle

battleVars == <<pc, at, held, action, todo, alive, fled>>
chanVars   == <<inputCh, events>>
connVars   == <<off, disc, mon, cancelled>>
clientVars == <<asked, told>>
histVars   == <<lost, dropped, expired>>
vars == <<battleVars, chanVars, connVars, inBattle, clientVars, histVars>>

Action  == {"none", "act", "escape"}
Input   == [actor : Actors, act : Action, dummy : BOOLEAN]
NoInput == [actor |-> 0, act |-> "none", dummy |-> FALSE]
Event   == [kind : {"ask", "escape", "end"}, actor : Actors \cup {0}]
Ended   == [kind |-> "end", actor |-> 0]
Flees(i) == [kind |-> "escape", actor |-> i]
Phase   == {"turn", "collect", "ask", "wait", "putback", "act", "end", "cleanup", "over"}

Waiting(i) == pc \in {"wait", "putback"} /\ at = i

Init ==
  /\ pc = "turn" /\ at = 1 /\ held = NoInput
  /\ action = [i \in Actors |-> "none"] /\ todo = {}
  /\ alive \in SUBSET Actors /\ fled = {}
  /\ inputCh = <<>> /\ events = <<>>
  /\ off = {} /\ disc = {} /\ cancelled = FALSE
  /\ mon = [i \in Actors |-> "watch"]
  /\ inBattle = Actors
  /\ asked = {} /\ told = [i \in Actors |-> 0]
  /\ lost = FALSE /\ dropped = {} /\ expired = FALSE

\* A non-blocking send into inputCh.
Push(input) ==
  IF Len(inputCh) < InputCap
    THEN inputCh' = Append(inputCh, input) /\ UNCHANGED lost
    ELSE lost' = TRUE /\ UNCHANGED inputCh

\* emitEvent: a non-blocking send too. The broadcaster may be behind by any number
\* of events that are not kept here, so any event may find the channel full.
Emit(event) ==
  \/ Len(events) < EventCap /\ events' = Append(events, event) /\ UNCHANGED dropped
  \/ dropped' = dropped \cup {event} /\ UNCHANGED events

-----------------------------------------------------------------------------
(* The turn loop *)

\* checkBattleEnd: the battle is decided if no actor is left in it; it may be
\* decided by the enemies' deaths and escapes, or by a script that aborts it.
\* Then it ends, else it goes on.
Settle(next) ==
  \/ pc' = "end"
  \/ ~(alive' \subseteq fled) /\ pc' = next

\* emitBattleEnd: battle_end
End ==
  /\ pc = "end"
  /\ Emit(Ended)
  /\ pc' = "cleanup"
  /\ UNCHANGED <<at, held, action, todo, alive, fled,
                 inputCh, connVars, inBattle, clientVars, lost, expired>>

\* Troop events of the turn start, on cleared actions.
TurnStart ==
  /\ pc = "turn"
  /\ alive' \in SUBSET Actors /\ UNCHANGED fled
  /\ at' = 1
  /\ Settle("collect")
  /\ UNCHANGED <<held, action, todo, chanVars, connVars, inBattle, clientVars, histVars>>

\* Mutant: the actor after the last is looked at too.
Collect_Past ==
  /\ pc = "collect" /\ at <= NumActors + 1
  /\ at' = at + 1
  /\ UNCHANGED <<pc, held, action, todo, alive, fled,
                 chanVars, connVars, inBattle, clientVars, histVars>>

\* collectActions for one actor: out of the battle, restricted by a state
\* (it cannot move or is forced to attack), disconnected (it
\* guards), or to be asked.
Collect ==
  /\ pc = "collect" /\ at <= NumActors
  /\ \/ /\ at \notin alive \/ at \in fled
        /\ at' = at + 1 /\ UNCHANGED <<pc, action>>
     \/ /\ at \in alive /\ at \notin fled
        /\ \E a \in {"none", "act"} : action' = [action EXCEPT ![at] = a]
        /\ at' = at + 1 /\ UNCHANGED pc
     \/ /\ at \in (alive \cap disc) \ fled
        /\ action' = [action EXCEPT ![at] = "act"]
        /\ at' = at + 1 /\ UNCHANGED pc
     \/ /\ at \in alive \ (fled \cup disc)
        /\ pc' = "ask" /\ UNCHANGED <<at, action>>
  /\ UNCHANGED <<held, todo, alive, fled,
                 chanVars, connVars, inBattle, clientVars, histVars>>

\* input_request
Ask ==
  /\ pc = "ask"
  /\ Emit([kind |-> "ask", actor |-> at])
  /\ pc' = "wait"
  /\ UNCHANGED <<at, held, action, todo, alive, fled,
                 inputCh, connVars, inBattle, clientVars, lost, expired>>

\* Mutant: the input that is taken stays in the channel.
Receive_Keeps ==
  /\ pc = "wait" /\ inputCh # <<>>
  /\ LET input == Head(inputCh) IN
       IF input.actor = at
         THEN /\ action' = [action EXCEPT ![at] = input.act]
              /\ at' = at + 1 /\ pc' = "collect" /\ UNCHANGED <<held, inputCh>>
         ELSE /\ held' = input /\ pc' = "putback" /\ inputCh' = Tail(inputCh)
              /\ UNCHANGED <<action, at>>
  /\ UNCHANGED <<todo, alive, fled,
                 events, connVars, inBattle, clientVars, histVars>>

\* waitForInput takes an input; validateInput may turn it into an attack.
Receive ==
  /\ pc = "wait" /\ inputCh # <<>>
  /\ LET input == Head(inputCh) IN
       IF input.actor = at
         THEN /\ action' = [action EXCEPT ![at] = input.act]
              /\ at' = at + 1 /\ pc' = "collect" /\ UNCHANGED held
         ELSE held' = input /\ pc' = "putback" /\ UNCHANGED <<action, at>>
  /\ inputCh' = Tail(inputCh)
  /\ UNCHANGED <<todo, alive, fled,
                 events, connVars, inBattle, clientVars, histVars>>

PutBack ==
  /\ pc = "putback"
  /\ Push(held)
  /\ held' = NoInput /\ pc' = "wait"
  /\ UNCHANGED <<at, action, todo, alive, fled,
                 events, connVars, inBattle, clientVars, dropped, expired>>

\* ctx.Done in waitForInput: Run returns ResultLose, without battle_end.
GiveUp ==
  /\ pc = "wait" /\ cancelled
  /\ pc' = "cleanup"
  /\ UNCHANGED <<at, held, action, todo, alive, fled,
                 chanVars, connVars, inBattle, clientVars, histVars>>

\* The enemies' actions are chosen, and MakeActionOrder takes whoever is alive.
Order ==
  /\ pc = "collect" /\ at = NumActors + 1
  /\ todo' = alive \cup Foes /\ pc' = "act"
  /\ UNCHANGED <<at, held, action, alive, fled,
                 chanVars, connVars, inBattle, clientVars, histVars>>

\* Actors that die or leave before their turn, or have no action, are passed over.
Able(i) == i \in (todo \cap alive) \ fled /\ action[i] # "none"

\* An action, and the troop events after it. A foe that has died or fled by then
\* does nothing, one of the outcomes; one that flees ends the battle, another.
Act(b) ==
  /\ pc = "act"
  /\ b \in todo \cap Foes \/ (b \in Actors /\ Able(b) /\ action[b] = "act")
  /\ todo' = todo \ {b}
  /\ alive' \in SUBSET Actors /\ UNCHANGED fled
  /\ Settle("act")
  /\ UNCHANGED <<at, held, action, chanVars, connVars, inBattle, clientVars, histVars>>

EscapeFails(i) ==
  /\ pc = "act" /\ Able(i) /\ action[i] = "escape"
  /\ todo' = todo \ {i}
  /\ UNCHANGED <<pc, at, held, action, alive, fled,
                 chanVars, connVars, inBattle, clientVars, histVars>>

\* In a party the actor alone leaves; alone, the battle is over.
Escape(i) ==
  /\ pc = "act" /\ Able(i) /\ action[i] = "escape"
  /\ todo' = todo \ {i}
  /\ \/ /\ NumActors > 1
        /\ fled' = fled \cup {i}
        /\ Emit(Flees(i))
        /\ pc' = IF alive \subseteq fled' THEN "end" ELSE "act"
     \/ /\ NumActors = 1
        /\ pc' = "end" /\ UNCHANGED <<fled, events, dropped>>
  /\ UNCHANGED <<at, held, action, alive, inputCh, connVars, inBattle, clientVars,
                 lost, expired>>

\* Troop events, regeneration and states of the turn's end.
TurnEnd ==
  /\ pc = "act" /\ todo \cap Foes = {} /\ ~\E i \in Actors : Able(i)
  /\ todo' = {}
  /\ alive' \in SUBSET Actors /\ UNCHANGED fled
  /\ Settle("turn")
  /\ action' = [i \in Actors |-> "none"]
  /\ UNCHANGED <<at, held, chanVars, connVars, inBattle, clientVars, histVars>>

\* After Run and the writing back of HP and rewards: InBattle and the entries of
\* bm.sessions are cleared, and battleCtx is cancelled on return.
Cleanup ==
  /\ pc = "cleanup"
  /\ inBattle' = {} /\ cancelled' = TRUE /\ pc' = "over"
  /\ UNCHANGED <<at, held, action, todo, alive, fled,
                 chanVars, off, disc, mon, clientVars, histVars>>

-----------------------------------------------------------------------------
(* The participants *)

\* HandleBattleInput: the answer of the player whose actor was asked. A session
\* closed by a later login may still be handling one.
Answer(i) ==
  /\ i \in asked
  /\ asked' = asked \ {i}
  /\ IF i \in inBattle
       THEN \E a \in {"act", "escape"} :
              Push([actor |-> i, act |-> a, dummy |-> FALSE])
       ELSE UNCHANGED <<inputCh, lost>>
  /\ UNCHANGED <<battleVars, events, connVars, inBattle, told, dropped, expired>>

\* The connection closes, or a later login closes the session.
Disconnect(i) ==
  /\ i \notin off
  /\ off' = off \cup {i}
  /\ UNCHANGED <<battleVars, chanVars, disc, mon, cancelled, inBattle,
                 clientVars, histVars>>

\* The context of the event that started the battle runs out.
Expire ==
  /\ Deadline /\ ~expired
  /\ expired' = TRUE /\ cancelled' = TRUE
  /\ UNCHANGED <<battleVars, chanVars, off, disc, mon, inBattle, clientVars, lost, dropped>>

-----------------------------------------------------------------------------
(* The monitors and the broadcaster *)

\* <-p.Done: MarkDisconnected sets the flag ...
Mark(i) ==
  /\ mon[i] = "watch" /\ i \in off
  /\ disc' = disc \cup {i}
  /\ mon' = [mon EXCEPT ![i] = "push"]
  /\ UNCHANGED <<battleVars, chanVars, off, cancelled, inBattle, clientVars, histVars>>

\* Mutant: only the flag is set.
PushDummy_None(i) ==
  /\ mon[i] = "push"
  /\ mon' = [mon EXCEPT ![i] = "look"]
  /\ UNCHANGED <<battleVars, chanVars, off, disc, cancelled, inBattle,
                 clientVars, histVars>>

\* ... and pushes an input for a battle that waits for this actor;
PushDummy(i) ==
  /\ mon[i] = "push"
  /\ Push([actor |-> i, act |-> "act", dummy |-> TRUE])
  /\ mon' = [mon EXCEPT ![i] = "look"]
  /\ UNCHANGED <<battleVars, events, off, disc, cancelled, inBattle,
                 clientVars, dropped, expired>>

\* then the battle is cancelled if all have gone.
CancelIfAllGone(i) ==
  /\ mon[i] = "look"
  /\ cancelled' = (cancelled \/ off = Actors)
  /\ mon' = [mon EXCEPT ![i] = "done"]
  /\ UNCHANGED <<battleVars, chanVars, off, disc, inBattle, clientVars, histVars>>

\* <-battleCtx.Done
StopWatching(i) ==
  /\ mon[i] = "watch" /\ cancelled
  /\ mon' = [mon EXCEPT ![i] = "done"]
  /\ UNCHANGED <<battleVars, chanVars, off, disc, cancelled, inBattle,
                 clientVars, histVars>>

\* Mutant: those who have escaped are sent the rest of the battle too.
Broadcast_Everyone ==
  /\ events # <<>>
  /\ events' = Tail(events)
  /\ LET e == Head(events)
         here == Actors \ off
     IN \/ /\ e.kind = "ask"
           /\ asked' = asked \cup ({e.actor} \cap here)
           /\ UNCHANGED <<told, inBattle>>
        \/ /\ e.kind = "escape"
           /\ told' = [i \in Actors |-> IF i = e.actor /\ i \notin off
                                          THEN told[i] + 1 ELSE told[i]]
           /\ inBattle' = inBattle \ {e.actor}
           /\ UNCHANGED asked
        \/ /\ e.kind = "end"
           /\ told' = [i \in Actors |-> IF i \in here THEN told[i] + 1 ELSE told[i]]
           /\ asked' = asked \ here
           /\ UNCHANGED inBattle
  /\ UNCHANGED <<battleVars, inputCh, connVars, histVars>>

\* Mutant: an escape is announced, the escaped player stays in the session.
Broadcast_NoRelease ==
  /\ events # <<>>
  /\ events' = Tail(events)
  /\ LET e == Head(events)
         here == Actors \ (off \cup fled)
         reached == IF e.kind = "end" THEN here
                    ELSE IF e.kind = "escape" THEN {e.actor} \ off ELSE {}
     IN /\ asked' = IF e.kind = "ask" THEN asked \cup ({e.actor} \cap here)
                    ELSE IF e.kind = "end" THEN asked \ here ELSE asked
        /\ told' = [i \in Actors |-> IF i \in reached THEN told[i] + 1 ELSE told[i]]
  /\ UNCHANGED <<battleVars, inputCh, connVars, inBattle, histVars>>

\* broadcastEvents sends an event to the participants that have not escaped by
\* now; the one whose escape it announces gets a battle_end of his own and is
\* taken out of the session.
Broadcast ==
  /\ events # <<>>
  /\ events' = Tail(events)
  /\ LET e == Head(events)
         here == Actors \ (off \cup fled)
     IN \/ /\ e.kind = "ask"
           /\ asked' = asked \cup ({e.actor} \cap here)
           /\ UNCHANGED <<told, inBattle>>
        \/ /\ e.kind = "escape"
           /\ told' = [i \in Actors |-> IF i = e.actor /\ i \notin off
                                          THEN told[i] + 1 ELSE told[i]]
           /\ inBattle' = inBattle \ {e.actor}
           /\ UNCHANGED asked
        \/ /\ e.kind = "end"
           /\ told' = [i \in Actors |-> IF i \in here THEN told[i] + 1 ELSE told[i]]
           /\ asked' = asked \ here
           /\ UNCHANGED inBattle
  /\ UNCHANGED <<battleVars, inputCh, connVars, histVars>>

BattleStep ==
  \/ TurnStart \/ Collect \/ Ask \/ Receive \/ PutBack \/ GiveUp \/ Order
  \/ \E b \in Battlers : Act(b)
  \/ \E i \in Actors : EscapeFails(i) \/ Escape(i)
  \/ TurnEnd \/ End \/ Cleanup

Monitor(i) == Mark(i) \/ PushDummy(i) \/ CancelIfAllGone(i) \/ StopWatching(i)

Next ==
  \/ BattleStep
  \/ \E i \in Actors : Answer(i) \/ Disconnect(i) \/ Monitor(i)
  \/ Expire
  \/ Broadcast

Spec == Init /\ [][Next]_vars

\* The scheduler runs the battle, the monitors and the broadcaster; a select with
\* ctx.Done ready picks it in the end, whatever else is ready.  Nothing is assumed
\* of players, who may think as long as they like.
FairSpec ==
  /\ Spec
  /\ WF_vars(BattleStep)
  /\ SF_vars(GiveUp)
  /\ \A i \in Actors : WF_vars(Monitor(i))
  /\ WF_vars(Broadcast)
-----------------------------------------------------------------------------
(* Properties *)

TypeOK ==
  /\ pc \in Phase /\ at \in 1 .. NumActors + 1
  /\ held \in Input \cup {NoInput}
  /\ action \in [Actors -> Action]
  /\ todo \subseteq Battlers /\ alive \subseteq Actors /\ fled \subseteq Actors
  /\ inputCh \in Seq(Input) /\ Len(inputCh) <= InputCap
  /\ events \in Seq(Event) /\ Len(events) <= EventCap
  /\ off \subseteq Actors /\ disc \subseteq off
  /\ mon \in [Actors -> {"watch", "push", "look", "done"}]
  /\ cancelled \in BOOLEAN
  /\ inBattle \subseteq Actors
  /\ asked \subseteq Actors /\ told \in [Actors -> Nat]
  /\ lost \in BOOLEAN /\ dropped \subseteq Event /\ expired \in BOOLEAN

\* inputCh never overflows: neither an answer, nor the input that stands for a
\* player who has gone, nor one that is put back is ever dropped.
NoInputLost == ~lost

\* An answer is never kept for a later request: it lies in the channel only
\* while the battle waits for that actor, unless the battle is over or the
\* player has gone and will not be asked again.
FreshInput ==
  \A k \in 1 .. Len(inputCh) :
    LET input == inputCh[k] IN
    ~input.dummy => \/ Waiting(input.actor)
                    \/ input.actor \in disc
                    \/ pc \in {"end", "cleanup", "over"}

\* The event that tells a participant that the battle is over for him.
LastEvent(i) == IF i \in fled THEN Flees(i) ELSE Ended

\* Every participant is told once that the battle is over for him, by his own
\* escape or by its end, however escapes and the end overtake one another in
\* the broadcaster - unless the event's context ran out; and the one whose last
\* event found the channel full is not told by another.
EndTold ==
  \A i \in Actors :
    /\ told[i] <= 1
    /\ pc = "over" /\ events = <<>> /\ i \notin off /\ ~expired
         => told[i] = IF LastEvent(i) \in dropped THEN 0 ELSE 1

\* A battle never goes on waiting for a player who has gone.
AutoGuard == \A i \in Actors : Waiting(i) /\ i \in off ~> ~Waiting(i)

\* A player who has escaped is set free although the battle goes on, if only his
\* escape found room among the events.
EscapeeFreed == \A i \in Actors : i \in fled ~> i \notin inBattle \/ Flees(i) \in dropped

(* What a comment says, and the code does not do *)

\* handlers_battle_session.go: the battle is cancelled when everybody has gone.
\* A battle that nobody is left to be asked in never looks at its context.
AllGoneEnds == disc = Actors ~> pc = "over"
=============================================================================
