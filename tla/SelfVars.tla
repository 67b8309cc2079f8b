------------------------------- MODULE SelfVars -------------------------------
(***************************************************************************)
(* The variables that events of TemplateEvent.js have to themselves        *)
(* (client_plugin/mmo-template-event-hook.js, api/ws/                      *)
(* handlers_template_event.go). The client changes them and sends its      *)
(* changes in batches, after a while or when the map is left; the server's *)
(* events change them and tell the client at once.                         *)
(*                                                                         *)
(* One index of each event stands for all. Values are numbered in the      *)
(* order they are set, by whichever side; a new variable is 0. What the    *)
(* server holds outlives the connection (see GameState).                   *)
(***************************************************************************)
EXTENDS Integers, Sequences

CONSTANTS
  Events,       \* of one map, numbered from 1
  BatchSize,    \* BATCH_SIZE
  SendQueue,    \* what SendChan holds
  MaxValues,    \* bound on the changes
  MaxBreaks     \* bound on the broken connections and reloads

\* The event of a change whose map_id and event_id the server does not find.
Unnamed == 0

VARIABLES
  page,         \* "loading", "listening" for the server's changes, "hooked"
  local,        \* $gameSelfSwitches._variableData
  own,          \* history: the events whose value on the page the page has set last
  pending,      \* _pendingChanges, in the order of its keys
  flushTimer,   \* _flushTimer is not null
  timeouts,     \* the calls of flushChanges that setTimeout still owes
  connected,
  toServer, toPage,
  stored,       \* selfVariables
  lost,         \* history: the server's last change of an event that was not heard
  values, breaks

svVars == <<page, local, own, pending, flushTimer, timeouts, connected, toServer, toPage,
            stored, lost, values, breaks>>

Change == [event : Events, value : 1..MaxValues]

Init ==
  /\ page = "loading" /\ connected = FALSE
  /\ local = [e \in Events |-> 0] /\ own = {} /\ pending = <<>>
  /\ flushTimer = FALSE /\ timeouts = 0
  /\ toServer = <<>> /\ toPage = <<>>
  /\ stored = [e \in Events \union {Unnamed} |-> 0]
  /\ lost = [e \in Events |-> 0]
  /\ values = 0 /\ breaks = 0

-----------------------------------------------------------------------------
(* The page. *)

\* initialize: each look registers the handler anew, until TemplateEvent.js is there.
Poll ==
  /\ page # "hooked"
  /\ page' \in {"listening", "hooked"}
  /\ UNCHANGED <<local, own, pending, flushTimer, timeouts, connected, toServer, toPage,
                 stored, lost, values, breaks>>

\* A change takes the place of an earlier one of the same key.
Queued(c) ==
  IF \E i \in DOMAIN pending : pending[i].event = c.event
  THEN [i \in DOMAIN pending |-> IF pending[i].event = c.event THEN c ELSE pending[i]]
  ELSE Append(pending, c)

\* queueChange, while there is a connection.
QueueChange(c) ==
  /\ pending' = Queued(c)
  /\ flushTimer' = TRUE
  /\ timeouts' = IF flushTimer THEN timeouts ELSE timeouts + 1

\* setVariableValue, hooked or not.
SetVariableValue(e) ==
  /\ values < MaxValues /\ values' = values + 1
  /\ local' = [local EXCEPT ![e] = values']
  /\ own' = own \union {e}
  /\ \/ page = "hooked" /\ connected /\ QueueChange([event |-> e, value |-> values'])
     \/ ~(page = "hooked" /\ connected) /\ UNCHANGED <<pending, flushTimer, timeouts>>
  /\ UNCHANGED <<page, connected, toServer, toPage, stored, lost, breaks>>

\* Changes in batches of at most BatchSize.
Batches(changes) ==
  LET count == (Len(changes) + BatchSize - 1) \div BatchSize
      end(j) == IF j < count THEN j * BatchSize ELSE Len(changes)
  IN [j \in 1..count |-> SubSeq(changes, (j - 1) * BatchSize + 1, end(j))]

\* flushChanges: with no connection the changes are thrown away.
FlushChanges ==
  /\ flushTimer' = FALSE
  /\ pending' = <<>>
  /\ toServer' = IF connected THEN toServer \o Batches(pending) ELSE toServer
  /\ UNCHANGED <<page, local, own, connected, toPage, stored, lost, values, breaks>>

\* setTimeout calls it; so does the end of the map's scene, which leaves the timeout be.
Timeout == timeouts > 0 /\ timeouts' = timeouts - 1 /\ FlushChanges

Terminate == page # "loading" /\ FlushChanges /\ UNCHANGED timeouts

\* self_var_change: the variable is written past the hook.
OnSelfVarChange ==
  /\ toPage # <<>> /\ connected
  /\ toPage' = Tail(toPage)
  /\ LET c == Head(toPage) IN
       IF page = "loading"
       THEN /\ lost' = [lost EXCEPT ![c.event] = IF c.value > @ THEN c.value ELSE @]
            /\ UNCHANGED <<local, own>>
       ELSE /\ local' = [local EXCEPT ![c.event] = c.value]
            /\ own' = own \ {c.event}
            /\ UNCHANGED lost
  /\ UNCHANGED <<page, pending, flushTimer, timeouts, connected, toServer, stored, values,
                 breaks>>

-----------------------------------------------------------------------------
(* The server. *)

\* The changes of a batch are named mapId and eventId by the page, and map_id and
\* event_id are looked for.
Decoded(c) == [c EXCEPT !.event = Unnamed]

\* HandleSelfVarSetBatch: one after the other.
HandleSelfVarSetBatch ==
  /\ toServer # <<>> /\ connected
  /\ toServer' = Tail(toServer)
  /\ LET batch == Head(toServer)
         set(e) == {i \in DOMAIN batch : Decoded(batch[i]).event = e}
         last(e) == CHOOSE i \in set(e) : \A j \in set(e) : j <= i
     IN stored' = [e \in DOMAIN stored |-> IF set(e) = {} THEN stored[e] ELSE batch[last(e)].value]
  /\ UNCHANGED <<page, local, own, pending, flushTimer, timeouts, connected, toPage, lost,
                 values, breaks>>

\* teSetSelfVariable and sendSelfVarChange, of an event that may outlast the connection.
TeSetSelfVariable(e) ==
  /\ values < MaxValues /\ values' = values + 1
  /\ stored' = [stored EXCEPT ![e] = values']
  /\ IF connected /\ Len(toPage) < SendQueue
     THEN /\ toPage' = Append(toPage, [event |-> e, value |-> values'])
          /\ UNCHANGED lost
     ELSE /\ lost' = [lost EXCEPT ![e] = values']
          /\ UNCHANGED toPage
  /\ UNCHANGED <<page, local, own, pending, flushTimer, timeouts, connected, toServer, breaks>>

-----------------------------------------------------------------------------
(* The connection. *)

Connect ==
  /\ ~connected /\ connected' = TRUE
  /\ UNCHANGED <<page, local, own, pending, flushTimer, timeouts, toServer, toPage, stored,
                 lost, values, breaks>>

\* The last change of an event among those that nobody has heard or will hear.
Unheard(e) ==
  LET all == {lost[e]} \union
             {toPage[i].value : i \in {j \in DOMAIN toPage : toPage[j].event = e}}
  IN CHOOSE v \in all : \A w \in all : w <= v

Break ==
  /\ connected /\ breaks < MaxBreaks
  /\ breaks' = breaks + 1
  /\ connected' = FALSE
  /\ toServer' = <<>> /\ toPage' = <<>>
  /\ lost' = [e \in Events |-> Unheard(e)]
  /\ UNCHANGED <<page, local, own, pending, flushTimer, timeouts, stored, values>>

\* A new page knows no variable; the server says nothing of those it holds.
Reload ==
  /\ ~connected /\ breaks < MaxBreaks
  /\ breaks' = breaks + 1
  /\ page' = "loading"
  /\ local' = [e \in Events |-> 0] /\ own' = {} /\ pending' = <<>>
  /\ flushTimer' = FALSE /\ timeouts' = 0
  /\ lost' = [e \in Events |-> stored[e]]
  /\ UNCHANGED <<connected, toServer, toPage, stored, values>>

Next ==
  \/ Poll \/ Timeout \/ Terminate \/ OnSelfVarChange
  \/ HandleSelfVarSetBatch
  \/ \E e \in Events : SetVariableValue(e) \/ TeSetSelfVariable(e)
  \/ Connect \/ Break \/ Reload

Spec == Init /\ [][Next]_svVars

-----------------------------------------------------------------------------
(* Properties. *)

\* The type of the state.
TypeOK ==
  /\ page \in {"loading", "listening", "hooked"}
  /\ local \in [Events -> 0..MaxValues] /\ own \subseteq Events
  /\ \A i \in DOMAIN pending : pending[i] \in Change
  /\ \A i, j \in DOMAIN pending : i # j => pending[i].event # pending[j].event
  /\ {flushTimer, connected} \subseteq BOOLEAN /\ timeouts \in 0..MaxValues
  /\ \A i \in DOMAIN toServer : Len(toServer[i]) \in 1..BatchSize
  /\ \A i \in DOMAIN toPage : toPage[i] \in Change
  /\ stored \in [Events \union {Unnamed} -> 0..MaxValues]
  /\ lost \in [Events -> 0..MaxValues]

\* A change that waits has a timeout that will send it, whatever flushes, breaks and
\* scene ends came before (mmo-template-event-hook.js:84: one timer for all that waits,
\* never cleared; line 95 forgets it at every flush).
FlushComes == pending # <<>> => flushTimer /\ timeouts > 0

\* Once the server's changes are heard, a variable the page has not set itself is what
\* the server holds, unless it is the server's last change that was lost
\* (mmo-template-event-hook.js:191, executor_template.go:304).
Follows ==
  toPage = <<>> => \A e \in Events \ own : local[e] = stored[e] \/ lost[e] = stored[e]

\* NOT kept: what the page has set is stored as the variable of its event
\* (mmo-template-event-hook.js:3). The batch names mapId and eventId, the server reads
\* map_id and event_id, and every change of the page is stored under map 0, event 0
\* (mmo-template-event-hook.js:82; handlers_template_event.go:146).
NoneUnnamed == stored[Unnamed] = 0

\* NOT kept: what waits to be sent is what the page holds. A change of the server's that
\* arrives meanwhile is shown, and the older one is sent after it.
QueuedIsCurrent == \A i \in DOMAIN pending : pending[i].value = local[pending[i].event]
=============================================================================
