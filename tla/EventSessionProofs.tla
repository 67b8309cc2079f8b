------------------------- MODULE EventSessionProofs -------------------------
(***************************************************************************)
(* Theorems about EventSession: types, exclusion, and that nothing is left *)
(* behind at rest - no locked client, no flag, no second room.             *)
(***************************************************************************)
EXTENDS EventSession, FiniteSetTheorems, TLAPS

\* The goroutine p has EventMu: from Lock, or from the TryLock that made it, to Unlock.
Holder(p) == p # Reader /\ pc[p] \in EnterPhase \cup BodyPhase \cup {"recheck", "inherit"}

\* An autorun goroutine that has not yet looked at needEventEnd.
PreClear == {"start", "fetch", "wait", "acquire", "recheck", "inherit", "bail"}

ShapeInv ==
  /\ pc[Reader] \in EnterPhase \cup {"idle", "checked"}
  /\ pc[Event] \in EnterPhase \cup BodyPhase \cup {"idle"}
  /\ \A p \in Procs : pc[p] \in EnterPhase => dest[p] \in Maps
  /\ mapId = NoMap => pc[Reader] \in {"checked", "leave", "move"}

BoundInv == mapGen + Cardinality(Entering) <= MaxGen

LockInv == \A p \in Procs : Holder(p) => eventMu = p

\* A locked client has something coming that will unlock it.
Asked     == \E i \in 1 .. Len(inbox) : inbox[i] = "interact"
Answering == {"greet", "mark", "tell", "bailTell"}
ClientInv ==
  /\ closed => ~locked
  /\ locked => dropped \/ needEnd \/ Asked \/ \E p \in Procs : pc[p] \in Answering

\* As long as no transfer by the reader overlaps an event, nobody changes the map
\* of a goroutine that is about to touch the flag ...
ReaderAlone == ~raced /\ pc[Reader] \in EnterPhase => eventMu = Nobody
OnOwnMap ==
  ~raced => \A p \in Procs \ {Reader} :
              pc[p] \in {"inherit", "greet", "mark", "unmark"} => mapId = home[p]

\* ... and needEventEnd has somebody who will see to it: the goroutine with the
\* event, as long as it is on its own map or in between, or the newest autorun.
Sees(p) ==
  /\ p # Reader
  /\ \/ pc[p] \in EnterPhase \cup {"unmark"}
     \/ pc[p] \in {"head", "run", "close"} /\ mapId = home[p]
FlagSeen ==
  ~raced /\ needEnd => \/ mapGen > 0 /\ pc[mapGen] \in PreClear
                      \/ \E p \in Procs : Sees(p)

FlagInv == ReaderAlone /\ OnOwnMap /\ FlagSeen

\* The room follows the phases of the one EnterMapRoom under way.
RoomInv ==
  ~raced /\ ~closed =>
    /\ \A p \in Procs :
         /\ pc[p] = "leave" => rooms \subseteq {mapId}
         /\ pc[p] = "move" => rooms = {}
         /\ pc[p] = "join" => rooms = {} /\ dest[p] = mapId
         /\ pc[p] = "spawn" => rooms = {mapId} /\ dest[p] = mapId
    /\ Entering = {} => rooms = IF mapId = NoMap THEN {} ELSE {mapId}

\* A generation not yet reached has no goroutine.
FreshInv == \A g \in Autoruns : g > mapGen => pc[g] = "none"

BaseInv == TypeOK /\ ShapeInv /\ BoundInv /\ LockInv /\ FreshInv
RestInv == BaseInv /\ ClientInv /\ FlagInv /\ RoomInv
-----------------------------------------------------------------------------
(* Types *)

LEMMA ProcFacts ==
  /\ Reader \in Procs /\ Event \in Procs /\ Reader # Event
  /\ Autoruns = Procs \ {Reader, Event}
  /\ Nobody \notin Procs
  /\ Procs \subseteq Int /\ MaxGen \in Nat /\ MaxAutoruns \in Nat \ {0}
BY BoundAssumption DEF Reader, Event, Procs, Autoruns, Nobody

LEMMA GotoType ==
  ASSUME TypeOK, NEW p \in Procs, NEW at \in Phase, Goto(p, at)
  PROVE  /\ pc' \in [Procs -> Phase]
         /\ pc'[p] = at
         /\ \A q \in Procs \ {p} : pc'[q] = pc[q]
BY DEF TypeOK, Goto

LEMMA FinishType ==
  ASSUME TypeOK, NEW p \in Procs, Finish(p)
  PROVE  /\ pc' \in [Procs -> Phase] /\ pc'[p] \in {"none", "idle"}
         /\ home' \in [Procs -> Maps \cup {NoMap}]
         /\ todo' \in [Procs -> 0 .. MaxAutoruns]
         /\ \A q \in Procs \ {p} : pc'[q] = pc[q] /\ home'[q] = home[q]
<1>1. MaxAutoruns \in Nat
  BY ProcFacts
<1> QED
  BY <1>1 DEF TypeOK, Finish, Goto, Phase

\* A step is one of these actions.
LEMMA NextActions ==
  ASSUME Next
  PROVE  \/ ClientInteract \/ ClientMove \/ SceneStart \/ CooldownOver \/ Disconnect \/ CleanStale
         \/ InteractDropped \/ InteractRejected \/ InteractAccepted
         \/ HandleMove \/ PlainMove \/ TouchEvent
         \/ \E p \in Procs : \/ \E m \in Maps : StartTransfer(p, m)
                             \/ LeaveMap(p) \/ MoveToMap(p) \/ JoinRoom(p) \/ SpawnAutorun(p)
         \/ \E g \in Autoruns :
              \/ StaleCheck(g) \/ FetchAutoruns(g) \/ WaitScene(g) \/ Acquire(g)
              \/ Recheck(g) \/ Inherit(g) \/ Bail(g) \/ BailTell(g) \/ NextAutorun(g)
         \/ \E p \in Procs \ {Reader} :
              \/ Greet(p) \/ Mark(p) \/ EndExecute(p) \/ Close(p)
              \/ Unmark(p) \/ TellEnd(p) \/ Unlock(p)
<1>1. CASE ReaderStep
  BY <1>1, ProcFacts, Zenon DEF ReaderStep, EnterMapRoom
<1>2. ASSUME NEW p \in Procs \ {Reader}, ProcStep(p)
      PROVE  \/ LeaveMap(p) \/ MoveToMap(p) \/ JoinRoom(p) \/ SpawnAutorun(p)
             \/ /\ p \in Autoruns
                /\ \/ StaleCheck(p) \/ FetchAutoruns(p) \/ WaitScene(p) \/ Recheck(p)
                   \/ Inherit(p) \/ Bail(p) \/ BailTell(p) \/ NextAutorun(p)
             \/ Greet(p) \/ Mark(p) \/ EndExecute(p) \/ Close(p)
             \/ Unmark(p) \/ TellEnd(p) \/ Unlock(p)
  <2>1. p # Event => p \in Autoruns
    BY <1>2, ProcFacts
  <2> QED
    BY <2>1, <1>2, Zenon DEF ProcStep, AutorunStep, BodyStep, EnterMapRoom
<1> QED
  BY <1>1, <1>2, Zenon DEF Next

\* Only StartTransfer sends a goroutine into EnterMapRoom; SpawnAutorun takes it out.
LEMMA BoundStep ==
  ASSUME TypeOK, BoundInv, Next
  PROVE  BoundInv'
<1>1. IsFiniteSet(Entering)
  <2>1. IsFiniteSet(Procs)
    BY ProcFacts, FS_Interval DEF Procs
  <2> QED
    BY <2>1, FS_Subset DEF Entering
<1>2. mapGen \in Nat /\ Cardinality(Entering) \in Nat /\ mapGen + Cardinality(Entering) <= MaxGen
  BY <1>1, ProcFacts, FS_CardinalityType DEF TypeOK, BoundInv
<1>3. ASSUME Entering' \subseteq Entering, mapGen' = mapGen
      PROVE  BoundInv'
  <2>1. Cardinality(Entering') <= Cardinality(Entering) /\ Cardinality(Entering') \in Nat
    BY <1>1, <1>3, FS_Subset, FS_CardinalityType
  <2> QED
    BY <2>1, <1>2, <1>3, ProcFacts DEF BoundInv
<1>4. ASSUME NEW p \in Procs, NEW m \in Maps, StartTransfer(p, m)
      PROVE  BoundInv'
  <2>1. Entering' = Entering \cup {p} /\ p \notin Entering
    BY <1>4, ProcFacts DEF StartTransfer, Goto, Entering, TypeOK, EnterPhase
  <2>2. Cardinality(Entering') = Cardinality(Entering) + 1
    BY <2>1, <1>1, FS_AddElement
  <2> QED
    BY <2>2, <1>2, <1>4, ProcFacts DEF BoundInv, StartTransfer, sessionVars
<1>5. ASSUME NEW p \in Procs, SpawnAutorun(p)
      PROVE  BoundInv'
  <2>1. Entering' \subseteq Entering \ {p} /\ p \in Entering
    BY <1>5 DEF SpawnAutorun, Entering, TypeOK, EnterPhase
  <2>2. /\ Cardinality(Entering \ {p}) = Cardinality(Entering) - 1
        /\ IsFiniteSet(Entering \ {p})
    BY <2>1, <1>1, FS_RemoveElement
  <2>3. Cardinality(Entering') <= Cardinality(Entering) - 1 /\ Cardinality(Entering') \in Nat
    BY <2>1, <2>2, FS_Subset, FS_CardinalityType
  <2> QED
    BY <2>3, <1>2, <1>5, ProcFacts DEF BoundInv, SpawnAutorun
<1>6. CASE \/ ClientInteract \/ ClientMove \/ SceneStart \/ CooldownOver \/ Disconnect \/ CleanStale
           \/ InteractDropped \/ InteractRejected
  BY <1>3, <1>6 DEF ClientInteract, ClientMove, SceneStart, CooldownOver, Disconnect, CleanStale,
     InteractDropped, InteractRejected, Entering, sessionVars, procVars
<1>7. CASE InteractAccepted \/ HandleMove \/ PlainMove \/ TouchEvent
  <2>1. Entering' \subseteq Entering /\ mapGen' = mapGen
    BY <1>7, ProcFacts DEF InteractAccepted, HandleMove, PlainMove, TouchEvent, StartEvent,
       Goto, Entering, sessionVars, TypeOK, EnterPhase
  <2> QED
    BY <2>1, <1>3
<1>8. ASSUME NEW p \in Procs, LeaveMap(p) \/ MoveToMap(p) \/ JoinRoom(p)
      PROVE  BoundInv'
  <2>1. Entering' \subseteq Entering /\ mapGen' = mapGen
    BY <1>8 DEF LeaveMap, MoveToMap, JoinRoom, Goto, Entering, TypeOK, EnterPhase
  <2> QED
    BY <2>1, <1>3
<1>9. ASSUME NEW g \in Autoruns,
             \/ StaleCheck(g) \/ FetchAutoruns(g) \/ WaitScene(g) \/ Acquire(g)
             \/ Recheck(g) \/ Inherit(g) \/ Bail(g) \/ BailTell(g) \/ NextAutorun(g)
      PROVE  BoundInv'
  <2>1. mapGen' = mapGen
    BY <1>9 DEF StaleCheck, FetchAutoruns, WaitScene, Acquire, Recheck, Inherit, Bail,
       BailTell, NextAutorun, sessionVars
  <2>2. /\ \A q \in Procs \ {g} : pc'[q] = pc[q]
        /\ pc'[g] \notin EnterPhase
    BY <1>9, ProcFacts DEF StaleCheck, FetchAutoruns, WaitScene, Acquire, Recheck, Inherit, Bail,
       BailTell, NextAutorun, Finish, Goto, TypeOK, EnterPhase
  <2> QED
    BY <2>1, <2>2, <1>3 DEF Entering
<1>10. ASSUME NEW p \in Procs \ {Reader},
             \/ Greet(p) \/ Mark(p) \/ EndExecute(p) \/ Close(p)
             \/ Unmark(p) \/ TellEnd(p) \/ Unlock(p)
      PROVE  BoundInv'
  <2>1. mapGen' = mapGen
    BY <1>10 DEF Greet, Mark, EndExecute, Close, Unmark, TellEnd, Unlock, sessionVars
  <2>2. /\ \A q \in Procs \ {p} : pc'[q] = pc[q]
        /\ pc'[p] \notin EnterPhase
    BY <1>10 DEF Greet, Mark, EndExecute, Close, Unmark, TellEnd, Unlock, Finish, Goto,
       TypeOK, EnterPhase
  <2> QED
    BY <2>1, <2>2, <1>3 DEF Entering
<1> QED
  BY <1>4, <1>5, <1>6, <1>7, <1>8, <1>9, <1>10, NextActions, Zenon

\* The generation SpawnAutorun is about to use has a goroutine of its own.
LEMMA NextGeneration ==
  ASSUME TypeOK, BoundInv, NEW p \in Procs, pc[p] \in EnterPhase
  PROVE  mapGen + 1 \in 1 .. MaxGen /\ mapGen + 1 \in Autoruns /\ mapGen \in Nat
<1>1. IsFiniteSet(Entering) /\ p \in Entering
  <2>1. IsFiniteSet(Procs)
    BY ProcFacts, FS_Interval DEF Procs
  <2>2. Entering \subseteq Procs /\ p \in Entering
    BY DEF Entering
  <2> QED
    BY <2>1, <2>2, FS_Subset
<1>2. Cardinality(Entering) # 0 /\ Cardinality(Entering) \in Nat
  BY <1>1, FS_EmptySet, FS_CardinalityType
<1>3. mapGen \in Nat /\ MaxGen \in Nat /\ mapGen + Cardinality(Entering) <= MaxGen
  BY ProcFacts DEF BoundInv, TypeOK
<1>4. mapGen + 1 <= MaxGen
  <2> DEFINE n == Cardinality(Entering)
  <2>1. n \in Nat /\ n # 0 /\ mapGen + n <= MaxGen
    BY <1>2, <1>3
  <2> HIDE DEF n
  <2> QED
    BY <2>1, <1>3
<1> QED
  BY <1>3, <1>4 DEF Autoruns

LEMMA TypeStep ==
  ASSUME TypeOK, ShapeInv, BoundInv, Next
  PROVE  TypeOK'
<1>1. CASE \/ ClientInteract \/ ClientMove \/ SceneStart \/ CooldownOver \/ Disconnect \/ CleanStale
           \/ InteractDropped \/ InteractRejected
  <2>0. inbox \in Seq(Message) /\ (inbox # <<>> => Tail(inbox) \in Seq(Message))
        /\ Append(inbox, "interact") \in Seq(Message)
        /\ Append(inbox, "move") \in Seq(Message) /\ <<>> \in Seq(Message)
    BY DEF TypeOK, Message
  <2>1. inbox' \in Seq(Message)
    BY <1>1, <2>0 DEF ClientInteract, ClientMove, SceneStart, CooldownOver, Disconnect, CleanStale,
       InteractDropped, InteractRejected, clientVars
  <2> HIDE DEF Message
  <2> QED
    BY <1>1, <2>1 DEF ClientInteract, ClientMove, SceneStart, CooldownOver, Disconnect, CleanStale,
       InteractDropped, InteractRejected, TypeOK, sessionVars, flagVars, procVars,
       clientVars, histVars, Tell
<1>2. CASE InteractAccepted \/ HandleMove \/ PlainMove \/ TouchEvent
  <2>0. inbox \in Seq(Message) /\ (inbox # <<>> => Tail(inbox) \in Seq(Message))
    BY DEF TypeOK
  <2>1. inbox' \in Seq(Message)
    BY <1>2, <2>0 DEF InteractAccepted, HandleMove, PlainMove, TouchEvent, clientVars
  <2>2. pc' \in [Procs -> Phase] /\ home' \in [Procs -> Maps \cup {NoMap}]
    BY <1>2, ProcFacts DEF InteractAccepted, HandleMove, PlainMove, TouchEvent, StartEvent,
       TypeOK, Goto, Phase, BodyPhase, EnterPhase
  <2> QED
    BY <1>2, <2>1, <2>2, ProcFacts DEF InteractAccepted, HandleMove, PlainMove, TouchEvent,
       StartEvent, TypeOK, sessionVars, flagVars, clientVars, histVars
<1>3. ASSUME NEW p \in Procs, NEW m \in Maps, StartTransfer(p, m)
      PROVE  TypeOK'
  BY <1>3 DEF StartTransfer, Goto, TypeOK, Phase, EnterPhase, sessionVars, flagVars, clientVars
<1>4. ASSUME NEW p \in Procs, LeaveMap(p) \/ MoveToMap(p) \/ JoinRoom(p)
      PROVE  TypeOK'
  <2>1. pc[p] \in EnterPhase
    BY <1>4 DEF LeaveMap, MoveToMap, JoinRoom, EnterPhase
  <2>2. dest[p] \in Maps
    BY <2>1 DEF ShapeInv
  <2>3. rooms' \subseteq Maps /\ mapId' \in Maps \cup {NoMap}
    BY <1>4, <2>2 DEF LeaveMap, MoveToMap, JoinRoom, TypeOK
  <2> QED
    BY <1>4, <2>3 DEF LeaveMap, MoveToMap, JoinRoom, Goto, TypeOK, Phase, EnterPhase,
       flagVars, clientVars, histVars
<1>5. ASSUME NEW p \in Procs, SpawnAutorun(p)
      PROVE  TypeOK'
  <2>1. mapGen + 1 \in 1 .. MaxGen /\ mapGen \in Nat
    BY <1>5, NextGeneration DEF SpawnAutorun, EnterPhase
  <2>2. pc' \in [Procs -> Phase] /\ home' \in [Procs -> Maps \cup {NoMap}]
        /\ dest' \in [Procs -> Maps \cup {NoMap}]
    BY <1>5 DEF SpawnAutorun, TypeOK, Phase, BodyPhase
  <2>3. mapGen' \in 0 .. MaxGen
    BY <1>5, <2>1, ProcFacts DEF SpawnAutorun
  <2> QED
    BY <1>5, <2>2, <2>3 DEF SpawnAutorun, TypeOK, flagVars, clientVars, histVars
<1>6. ASSUME NEW g \in Autoruns,
             \/ StaleCheck(g) \/ FetchAutoruns(g) \/ WaitScene(g) \/ Acquire(g)
             \/ Recheck(g) \/ Inherit(g) \/ Bail(g) \/ BailTell(g) \/ NextAutorun(g)
      PROVE  TypeOK'
  <2>1. g \in Procs /\ MaxAutoruns \in Nat
    BY ProcFacts
  <2>2. pc' \in [Procs -> Phase] /\ home' \in [Procs -> Maps \cup {NoMap}]
    BY <1>6, <2>1 DEF StaleCheck, FetchAutoruns, WaitScene, Acquire, Recheck, Inherit, Bail,
       BailTell, NextAutorun, Finish, Goto, TypeOK, Phase, BodyPhase
  <2>3. todo' \in [Procs -> 0 .. MaxAutoruns]
    <3>1. CASE FetchAutoruns(g)
      BY <3>1, <2>1 DEF FetchAutoruns, TypeOK
    <3>2. CASE NextAutorun(g)
      BY <3>2, <2>1 DEF NextAutorun, TypeOK
    <3>3. CASE \/ StaleCheck(g) \/ WaitScene(g) \/ Acquire(g) \/ Recheck(g) \/ Inherit(g)
               \/ Bail(g) \/ BailTell(g)
      <4>1. todo' = todo \/ Finish(g)
        BY <3>3 DEF StaleCheck, WaitScene, Acquire, Recheck, Inherit, Bail, BailTell
      <4> QED
        BY <4>1, <2>1, FinishType DEF TypeOK
    <3> QED
      BY <1>6, <3>1, <3>2, <3>3
  <2>4. UNCHANGED <<sessionVars, dest, scene, inbox, dropped>>
    BY <1>6 DEF StaleCheck, FetchAutoruns, WaitScene, Acquire, Recheck, Inherit, Bail,
       BailTell, NextAutorun, clientVars, histVars
  <2>5. /\ eventMu' \in Procs \cup {Nobody} /\ needEnd' \in BOOLEAN
        /\ locked' \in BOOLEAN /\ raced' \in BOOLEAN
    BY <1>6, <2>1 DEF StaleCheck, FetchAutoruns, WaitScene, Acquire, Recheck, Inherit, Bail,
       BailTell, NextAutorun, Tell, TypeOK, flagVars, clientVars, histVars
  <2> QED
    BY <2>2, <2>3, <2>4, <2>5 DEF TypeOK, sessionVars
<1>7. ASSUME NEW p \in Procs \ {Reader},
             \/ Greet(p) \/ Mark(p) \/ EndExecute(p) \/ Close(p)
             \/ Unmark(p) \/ TellEnd(p) \/ Unlock(p)
      PROVE  TypeOK'
  <2>1. MaxAutoruns \in Nat
    BY ProcFacts
  <2>2. /\ pc' \in [Procs -> Phase] /\ home' \in [Procs -> Maps \cup {NoMap}]
        /\ todo' \in [Procs -> 0 .. MaxAutoruns]
    <3>1. CASE Unlock(p)
      BY <3>1, FinishType DEF Unlock
    <3>2. CASE \/ Greet(p) \/ Mark(p) \/ EndExecute(p) \/ Close(p) \/ Unmark(p) \/ TellEnd(p)
      BY <3>2 DEF Greet, Mark, EndExecute, Close, Unmark, TellEnd, Goto, TypeOK, Phase, BodyPhase
    <3> QED
      BY <1>7, <3>1, <3>2
  <2> QED
    BY <1>7, <2>2 DEF Greet, Mark, EndExecute, Close, Unmark, TellEnd, Unlock, Tell, TypeOK,
       sessionVars, flagVars, clientVars, histVars
<1> QED
  BY <1>1, <1>2, <1>3, <1>4, <1>5, <1>6, <1>7, NextActions, Zenon

LEMMA ShapeStep ==
  ASSUME TypeOK, ShapeInv, BoundInv, Next
  PROVE  ShapeInv'
<1>1. CASE \/ ClientInteract \/ ClientMove \/ SceneStart \/ CooldownOver \/ Disconnect \/ CleanStale
           \/ InteractDropped \/ InteractRejected
  BY <1>1 DEF ClientInteract, ClientMove, SceneStart, CooldownOver, Disconnect, CleanStale,
     InteractDropped, InteractRejected, ShapeInv, sessionVars, procVars
<1>2. CASE InteractAccepted \/ HandleMove \/ PlainMove \/ TouchEvent
  BY <1>2, ProcFacts DEF InteractAccepted, HandleMove, PlainMove, TouchEvent, StartEvent,
     Goto, TypeOK, ShapeInv, sessionVars, EnterPhase, BodyPhase
<1>3. ASSUME NEW p \in Procs, NEW m \in Maps, StartTransfer(p, m)
      PROVE  ShapeInv'
  BY <1>3, ProcFacts DEF StartTransfer, Goto, TypeOK, ShapeInv, sessionVars, EnterPhase, BodyPhase
<1>4. ASSUME NEW p \in Procs, LeaveMap(p) \/ MoveToMap(p) \/ JoinRoom(p)
      PROVE  ShapeInv'
  <2>1. pc[p] \in EnterPhase /\ dest[p] \in Maps /\ NoMap \notin Maps
    BY <1>4, MapAssumption DEF LeaveMap, MoveToMap, JoinRoom, EnterPhase, ShapeInv
  <2> QED
    BY <1>4, <2>1, ProcFacts DEF LeaveMap, MoveToMap, JoinRoom, Goto, TypeOK, ShapeInv,
       EnterPhase, BodyPhase
<1>5. ASSUME NEW p \in Procs, SpawnAutorun(p)
      PROVE  ShapeInv'
  <2>1. mapGen + 1 \in Autoruns
    BY <1>5, NextGeneration DEF SpawnAutorun, EnterPhase
  <2>2. mapGen + 1 \in Procs \ {Reader, Event}
    BY <2>1, ProcFacts
  <2> QED
    BY <1>5, <2>2, ProcFacts DEF SpawnAutorun, TypeOK, ShapeInv, EnterPhase, BodyPhase
<1>6. ASSUME NEW g \in Autoruns,
             \/ StaleCheck(g) \/ FetchAutoruns(g) \/ WaitScene(g) \/ Acquire(g)
             \/ Recheck(g) \/ Inherit(g) \/ Bail(g) \/ BailTell(g) \/ NextAutorun(g)
      PROVE  ShapeInv'
  <2>1. g \in Procs \ {Reader, Event}
    BY ProcFacts
  <2>2. /\ \A q \in Procs \ {g} : pc'[q] = pc[q]
        /\ pc'[g] \notin EnterPhase
        /\ UNCHANGED <<mapId, dest>>
    BY <1>6, <2>1 DEF StaleCheck, FetchAutoruns, WaitScene, Acquire, Recheck, Inherit, Bail,
       BailTell, NextAutorun, Finish, Goto, TypeOK, EnterPhase, sessionVars
  <2> QED
    BY <2>1, <2>2, ProcFacts DEF ShapeInv
<1>7. ASSUME NEW p \in Procs \ {Reader},
             \/ Greet(p) \/ Mark(p) \/ EndExecute(p) \/ Close(p)
             \/ Unmark(p) \/ TellEnd(p) \/ Unlock(p)
      PROVE  ShapeInv'
  <2>1. /\ \A q \in Procs \ {p} : pc'[q] = pc[q]
        /\ pc'[p] \notin EnterPhase
        /\ p = Event => pc'[p] \in BodyPhase \cup {"idle"}
        /\ UNCHANGED <<mapId, dest>>
    BY <1>7 DEF Greet, Mark, EndExecute, Close, Unmark, TellEnd, Unlock, Finish, Goto,
       TypeOK, EnterPhase, BodyPhase, sessionVars
  <2> QED
    BY <2>1, ProcFacts DEF ShapeInv
<1> QED
  BY <1>1, <1>2, <1>3, <1>4, <1>5, <1>6, <1>7, NextActions, Zenon

\* A goroutine becomes a holder only while EventMu is free, and stops being one
\* in the step that frees it.
LEMMA LockStep ==
  ASSUME TypeOK, ShapeInv, BoundInv, LockInv, Next
  PROVE  LockInv'
<1>1. ASSUME eventMu' = eventMu, \A q \in Procs : Holder(q)' => Holder(q)
      PROVE  LockInv'
  BY <1>1 DEF LockInv
<1>2. eventMu = Nobody => \A q \in Procs : ~Holder(q)
  BY ProcFacts DEF LockInv
<1>3. CASE \/ ClientInteract \/ ClientMove \/ SceneStart \/ CooldownOver \/ Disconnect \/ CleanStale
           \/ InteractDropped \/ InteractRejected
  <2>1. UNCHANGED <<eventMu, pc>>
    BY <1>3 DEF ClientInteract, ClientMove, SceneStart, CooldownOver, Disconnect, CleanStale,
       InteractDropped, InteractRejected, flagVars, procVars
  <2> QED
    BY <2>1, <1>1 DEF Holder
<1>4. CASE HandleMove \/ PlainMove
  <2>1. eventMu' = eventMu /\ \A q \in Procs \ {Reader} : pc'[q] = pc[q]
    BY <1>4, ProcFacts DEF HandleMove, PlainMove, Goto, flagVars, TypeOK
  <2> QED
    BY <2>1, <1>1 DEF Holder
<1>5. CASE InteractAccepted \/ TouchEvent
  <2>1. /\ eventMu = Nobody /\ eventMu' = Event
        /\ \A q \in Procs \ {Reader, Event} : pc'[q] = pc[q]
    BY <1>5, ProcFacts DEF InteractAccepted, TouchEvent, StartEvent, TypeOK
  <2> QED
    BY <2>1, <1>2 DEF LockInv, Holder
<1>6. ASSUME NEW p \in Procs,
             (\E m \in Maps : StartTransfer(p, m)) \/ LeaveMap(p) \/ MoveToMap(p) \/ JoinRoom(p)
      PROVE  LockInv'
  <2>1. /\ eventMu' = eventMu
        /\ \A q \in Procs \ {p} : pc'[q] = pc[q]
        /\ p # Reader => pc[p] \in EnterPhase \cup {"run"}
    BY <1>6 DEF StartTransfer, LeaveMap, MoveToMap, JoinRoom, Goto, flagVars, TypeOK, EnterPhase
  <2> QED
    BY <2>1, <1>1 DEF Holder, BodyPhase
<1>7. ASSUME NEW p \in Procs, SpawnAutorun(p)
      PROVE  LockInv'
  <2>1. eventMu' = eventMu /\ pc[p] \in EnterPhase
    BY <1>7 DEF SpawnAutorun, flagVars, EnterPhase
  <2>2. mapGen + 1 \in Procs
    BY <2>1, NextGeneration, ProcFacts
  <2>3. /\ \A q \in Procs \ {p, mapGen + 1} : pc'[q] = pc[q]
        /\ pc'[mapGen + 1] = "start"
    BY <1>7, <2>2 DEF SpawnAutorun, TypeOK
  <2> QED
    BY <2>1, <2>2, <2>3, <1>1 DEF Holder, EnterPhase, BodyPhase
<1>8. ASSUME NEW g \in Autoruns,
             \/ StaleCheck(g) \/ FetchAutoruns(g) \/ WaitScene(g)
             \/ Inherit(g) \/ Bail(g) \/ BailTell(g) \/ NextAutorun(g)
      PROVE  LockInv'
  <2>1. g \in Procs \ {Reader, Event}
    BY ProcFacts
  <2>2. /\ eventMu' = eventMu
        /\ \A q \in Procs \ {g} : pc'[q] = pc[q]
        /\ pc'[g] \in EnterPhase \cup BodyPhase \cup {"recheck", "inherit"}
             => pc[g] \in {"inherit", "head"}
    BY <1>8, <2>1 DEF StaleCheck, FetchAutoruns, WaitScene, Inherit, Bail, BailTell,
       NextAutorun, Finish, Goto, flagVars, TypeOK, EnterPhase, BodyPhase
  <2> QED
    BY <2>1, <2>2, <1>1 DEF Holder, BodyPhase
<1>9. ASSUME NEW g \in Autoruns, Acquire(g)
      PROVE  LockInv'
  <2>1. g \in Procs \ {Reader, Event}
    BY ProcFacts
  <2>2. /\ eventMu = Nobody /\ eventMu' = g
        /\ \A q \in Procs \ {g} : pc'[q] = pc[q]
    BY <1>9, <2>1 DEF Acquire, Goto, TypeOK
  <2> QED
    BY <2>1, <2>2, <1>2 DEF LockInv, Holder
<1>10. ASSUME NEW p \in Procs \ {Reader},
             Unlock(p) \/ (p \in Autoruns /\ Recheck(p))
      PROVE  LockInv'
  <2>1. Holder(p)
    BY <1>10, ProcFacts DEF Holder, Unlock, Recheck, BodyPhase
  <2>2. \A q \in Procs \ {p} : pc'[q] = pc[q] /\ ~Holder(q)
    BY <1>10, <2>1 DEF Unlock, Recheck, Finish, Goto, TypeOK, LockInv
  <2>3. ~Holder(p)' \/ eventMu' = eventMu
    BY <1>10, ProcFacts DEF Unlock, Recheck, Finish, Goto, TypeOK, Holder, EnterPhase, BodyPhase
  <2> QED
    BY <2>1, <2>2, <2>3 DEF LockInv, Holder
<1>11. ASSUME NEW p \in Procs \ {Reader},
             \/ Greet(p) \/ Mark(p) \/ EndExecute(p) \/ Close(p) \/ Unmark(p) \/ TellEnd(p)
      PROVE  LockInv'
  <2>1. /\ eventMu' = eventMu
        /\ \A q \in Procs \ {p} : pc'[q] = pc[q]
        /\ pc[p] \in BodyPhase
    BY <1>11 DEF Greet, Mark, EndExecute, Close, Unmark, TellEnd, Goto, flagVars, TypeOK, BodyPhase
  <2> QED
    BY <2>1, <1>1 DEF Holder
<1> QED
  BY <1>3, <1>4, <1>5, <1>6, <1>7, <1>8, <1>9, <1>10, <1>11, ProcFacts, NextActions, Zenon

LEMMA FreshStep ==
  ASSUME TypeOK, BoundInv, FreshInv, Next
  PROVE  FreshInv'
<1>0. mapGen \in Nat /\ Autoruns \subseteq Procs \cap Nat
  BY ProcFacts DEF TypeOK, Autoruns
<1>1. ASSUME mapGen' = mapGen, \A g \in Autoruns : pc[g] = "none" => pc'[g] = "none"
      PROVE  FreshInv'
  BY <1>1 DEF FreshInv
<1>2. CASE \/ ClientInteract \/ ClientMove \/ SceneStart \/ CooldownOver \/ Disconnect \/ CleanStale
           \/ InteractDropped \/ InteractRejected
  BY <1>2, <1>1 DEF ClientInteract, ClientMove, SceneStart, CooldownOver, Disconnect, CleanStale,
     InteractDropped, InteractRejected, sessionVars, procVars
<1>3. CASE InteractAccepted \/ HandleMove \/ PlainMove \/ TouchEvent
  <2>1. mapGen' = mapGen /\ \A q \in Procs \ {Reader, Event} : pc'[q] = pc[q]
    BY <1>3, ProcFacts DEF InteractAccepted, HandleMove, PlainMove, TouchEvent, StartEvent,
       Goto, sessionVars, TypeOK
  <2> QED
    BY <2>1, <1>1, ProcFacts
<1>4. ASSUME NEW p \in Procs,
             (\E m \in Maps : StartTransfer(p, m)) \/ LeaveMap(p) \/ MoveToMap(p) \/ JoinRoom(p)
      PROVE  FreshInv'
  <2>1. mapGen' = mapGen /\ pc[p] # "none" /\ \A q \in Procs \ {p} : pc'[q] = pc[q]
    BY <1>4 DEF StartTransfer, LeaveMap, MoveToMap, JoinRoom, Goto, sessionVars, TypeOK
  <2> QED
    BY <2>1, <1>0, <1>1
<1>5. ASSUME NEW p \in Procs, SpawnAutorun(p)
      PROVE  FreshInv'
  <2>1. mapGen + 1 \in Procs
    BY <1>5, NextGeneration, ProcFacts DEF SpawnAutorun, EnterPhase
  <2>2. /\ mapGen' = mapGen + 1 /\ pc[p] # "none"
        /\ \A q \in Procs \ {p, mapGen + 1} : pc'[q] = pc[q]
    BY <1>5, <2>1 DEF SpawnAutorun, TypeOK
  <2>3. ASSUME NEW g \in Autoruns, g > mapGen'
        PROVE  pc'[g] = "none"
    <3>1. g > mapGen /\ g # mapGen + 1
      BY <2>2, <2>3, <1>0
    <3>2. pc[g] = "none"
      BY <3>1 DEF FreshInv
    <3> QED
      BY <3>1, <3>2, <2>2, <1>0
  <2> QED
    BY <2>3 DEF FreshInv
<1>6. ASSUME NEW g \in Autoruns,
             \/ StaleCheck(g) \/ FetchAutoruns(g) \/ WaitScene(g) \/ Acquire(g)
             \/ Recheck(g) \/ Inherit(g) \/ Bail(g) \/ BailTell(g) \/ NextAutorun(g)
      PROVE  FreshInv'
  <2>1. mapGen' = mapGen /\ pc[g] # "none" /\ \A q \in Procs \ {g} : pc'[q] = pc[q]
    BY <1>6, <1>0 DEF StaleCheck, FetchAutoruns, WaitScene, Acquire, Recheck, Inherit, Bail,
       BailTell, NextAutorun, Finish, Goto, sessionVars, TypeOK
  <2> QED
    BY <2>1, <1>0, <1>1
<1>7. ASSUME NEW p \in Procs \ {Reader},
             \/ Greet(p) \/ Mark(p) \/ EndExecute(p) \/ Close(p)
             \/ Unmark(p) \/ TellEnd(p) \/ Unlock(p)
      PROVE  FreshInv'
  <2>1. mapGen' = mapGen /\ pc[p] # "none" /\ \A q \in Procs \ {p} : pc'[q] = pc[q]
    BY <1>7 DEF Greet, Mark, EndExecute, Close, Unmark, TellEnd, Unlock, Finish, Goto,
       sessionVars, TypeOK
  <2> QED
    BY <2>1, <1>0, <1>1
<1> QED
  BY <1>2, <1>3, <1>4, <1>5, <1>6, <1>7, NextActions, Zenon

LEMMA BaseInit == Init => BaseInv
<1> SUFFICES ASSUME Init PROVE BaseInv
  OBVIOUS
<1>1. TypeOK
  <2>1. 0 \in 0 .. MaxGen /\ 0 \in 0 .. MaxAutoruns /\ <<>> \in Seq(Message)
    BY ProcFacts
  <2>2. pc \in [Procs -> Phase]
    BY DEF Init, Phase
  <2> QED
    BY <2>1, <2>2 DEF Init, TypeOK
<1>2. Entering = {}
  BY DEF Init, Entering, EnterPhase
<1>3. ShapeInv /\ LockInv /\ FreshInv
  BY ProcFacts DEF Init, ShapeInv, LockInv, FreshInv, Holder, EnterPhase, BodyPhase
<1>4. BoundInv
  BY <1>2, FS_EmptySet, ProcFacts DEF Init, BoundInv
<1> QED
  BY <1>1, <1>3, <1>4 DEF BaseInv

LEMMA BaseStep == BaseInv /\ [Next]_vars => BaseInv'
<1>1. ASSUME BaseInv, Next PROVE BaseInv'
  BY <1>1, TypeStep, ShapeStep, BoundStep, LockStep, FreshStep, Zenon DEF BaseInv
<1>2. ASSUME BaseInv, UNCHANGED vars PROVE BaseInv'
  BY <1>2 DEF BaseInv, TypeOK, ShapeInv, BoundInv, LockInv, FreshInv, Holder, Entering, vars,
     sessionVars, flagVars, procVars, clientVars, histVars
<1> QED
  BY <1>1, <1>2

\* Every variable keeps its type, in any number of maps, autoruns and messages.
THEOREM TypeCorrect == Spec => []TypeOK
<1>1. BaseInv => TypeOK
  BY DEF BaseInv
<1> QED
  BY <1>1, BaseInit, BaseStep, PTL DEF Spec

\* EventMu keeps the events of a player apart, whichever goroutine runs them and
\* however often they change the map.
THEOREM EventsExclude == Spec => []EventExclusive
<1>1. BaseInv => EventExclusive
  BY DEF BaseInv, LockInv, EventExclusive, Running, Holder, BodyPhase
<1> QED
  BY <1>1, BaseInit, BaseStep, PTL DEF Spec

-----------------------------------------------------------------------------
(* The client is not left locked *)

LEMMA AskedStays ==
  ASSUME TypeOK, inbox # <<>>, Head(inbox) # "interact", inbox' = Tail(inbox), Asked
  PROVE  Asked'
<1>1. PICK i \in 1 .. Len(inbox) : inbox[i] = "interact"
  BY DEF Asked
<1>2. inbox \in Seq(Message) /\ i # 1
  BY <1>1 DEF TypeOK
<1>3. Len(inbox') = Len(inbox) - 1 /\ i - 1 \in 1 .. Len(inbox') /\ inbox'[i - 1] = inbox[i]
  BY <1>1, <1>2
<1> QED
  BY <1>1, <1>3 DEF Asked

LEMMA AskedGrows ==
  ASSUME TypeOK, NEW m \in Message, inbox' = Append(inbox, m), Asked \/ m = "interact"
  PROVE  Asked'
<1>1. inbox \in Seq(Message)
  BY DEF TypeOK
<1>2. /\ Len(inbox') = Len(inbox) + 1 /\ inbox'[Len(inbox) + 1] = m
      /\ \A i \in 1 .. Len(inbox) : inbox'[i] = inbox[i]
  BY <1>1
<1> QED
  BY <1>1, <1>2 DEF Asked

LEMMA ClientStep ==
  ASSUME BaseInv, ClientInv, Next
  PROVE  ClientInv'
<1>0. TypeOK /\ BoundInv
  BY DEF BaseInv
<1>1. ASSUME UNCHANGED <<closed, locked, dropped>>, needEnd => needEnd', Asked => Asked',
             \A p \in Procs : pc[p] \in Answering => pc'[p] \in Answering
      PROVE  ClientInv'
  BY <1>1 DEF ClientInv
<1>2. ASSUME Tell(FALSE), closed' = closed
      PROVE  ClientInv'
  BY <1>2 DEF ClientInv, Tell
<1>3. CASE ClientInteract
  BY <1>3, <1>0, AskedGrows DEF ClientInteract, ClientInv, sessionVars, Message
<1>4. CASE ClientMove
  BY <1>4, <1>0, <1>1, AskedGrows DEF ClientMove, sessionVars, flagVars, procVars, histVars, Message
<1>5. CASE SceneStart \/ CooldownOver
  BY <1>5, <1>1 DEF SceneStart, CooldownOver, Asked, sessionVars, flagVars, procVars,
     clientVars, histVars
<1>6. CASE Disconnect \/ CleanStale
  <2>1. CASE Disconnect
    BY <2>1 DEF Disconnect, ClientInv
  <2>2. CASE CleanStale
    BY <2>2, <1>1 DEF CleanStale, Asked, flagVars, procVars, clientVars, histVars
  <2> QED
    BY <1>6, <2>1, <2>2
<1>7. CASE InteractDropped
  BY <1>7 DEF InteractDropped, ClientInv, sessionVars
<1>8. CASE InteractRejected
  BY <1>8, <1>2 DEF InteractRejected
<1>9. CASE InteractAccepted
  <2>1. pc'[Event] = "greet" /\ closed' = closed /\ locked' = locked
    BY <1>9, <1>0, ProcFacts DEF InteractAccepted, StartEvent, TypeOK
  <2> QED
    BY <2>1, ProcFacts DEF ClientInv, Answering
<1>10. CASE HandleMove \/ PlainMove \/ TouchEvent
  <2>1. UNCHANGED <<closed, locked, dropped, needEnd>>
    BY <1>10 DEF HandleMove, PlainMove, TouchEvent, StartEvent, sessionVars, flagVars,
       clientVars, histVars
  <2>2. Asked => Asked'
    BY <1>10, <1>0, AskedStays DEF HandleMove, PlainMove, TouchEvent, clientVars, Asked
  <2>3. \A p \in Procs : pc[p] \in Answering => pc'[p] \in Answering
    BY <1>10, <1>0, ProcFacts DEF HandleMove, PlainMove, TouchEvent, StartEvent, Goto, TypeOK, Answering
  <2> QED
    BY <2>1, <2>2, <2>3, <1>1
<1>11. ASSUME NEW p \in Procs,
             (\E m \in Maps : StartTransfer(p, m)) \/ LeaveMap(p) \/ MoveToMap(p) \/ JoinRoom(p)
       PROVE  ClientInv'
  <2>1. /\ UNCHANGED <<closed, locked, dropped, needEnd, inbox>>
        /\ \A q \in Procs \ {p} : pc'[q] = pc[q]
        /\ pc[p] \notin Answering
    BY <1>11, <1>0 DEF StartTransfer, LeaveMap, MoveToMap, JoinRoom, Goto, TypeOK, sessionVars,
       flagVars, clientVars, histVars, Answering
  <2> QED
    BY <2>1, <1>1 DEF Asked
<1>12. ASSUME NEW p \in Procs, SpawnAutorun(p)
       PROVE  ClientInv'
  <2>1. mapGen + 1 \in Procs /\ pc[p] \notin Answering
    BY <1>12, <1>0, NextGeneration, ProcFacts DEF SpawnAutorun, EnterPhase, Answering
  <2>2. /\ UNCHANGED <<closed, locked, dropped, needEnd, inbox>>
        /\ \A q \in Procs \ {p, mapGen + 1} : pc'[q] = pc[q]
    BY <1>12, <1>0, <2>1 DEF SpawnAutorun, TypeOK, flagVars, clientVars, histVars
  <2>3. pc[mapGen + 1] \notin Answering
    <3>1. mapGen + 1 \in Autoruns /\ mapGen + 1 > mapGen
      BY <1>12, <1>0, NextGeneration DEF SpawnAutorun, EnterPhase
    <3> QED
      BY <3>1 DEF BaseInv, FreshInv, Answering
  <2> QED
    BY <2>1, <2>2, <2>3, <1>1 DEF Asked
<1>13. ASSUME NEW g \in Autoruns,
              \/ StaleCheck(g) \/ FetchAutoruns(g) \/ WaitScene(g) \/ Acquire(g)
              \/ Recheck(g) \/ NextAutorun(g)
       PROVE  ClientInv'
  <2>1. g \in Procs
    BY ProcFacts
  <2>2. /\ UNCHANGED <<closed, locked, dropped, needEnd, inbox>>
        /\ \A q \in Procs \ {g} : pc'[q] = pc[q]
        /\ pc[g] \notin Answering
    BY <1>13, <1>0, <2>1 DEF StaleCheck, FetchAutoruns, WaitScene, Acquire, Recheck,
       NextAutorun, Finish, Goto, sessionVars, flagVars, clientVars, histVars, TypeOK, Answering
  <2> QED
    BY <2>2, <1>1 DEF Asked
<1>14. ASSUME NEW g \in Autoruns, Inherit(g)
       PROVE  ClientInv'
  <2>1. g \in Procs
    BY ProcFacts
  <2>2. pc'[g] \in {"mark", "greet"} /\ closed' = closed /\ locked' = locked
    BY <1>14, <1>0, <2>1 DEF Inherit, Goto, TypeOK, sessionVars, clientVars
  <2> QED
    BY <2>1, <2>2 DEF ClientInv, Answering
<1>15. ASSUME NEW g \in Autoruns, Bail(g)
       PROVE  ClientInv'
  <2>1. g \in Procs
    BY ProcFacts
  <2>2. /\ UNCHANGED <<closed, locked, dropped, inbox>>
        /\ \A q \in Procs \ {g} : pc'[q] = pc[q]
        /\ pc[g] \notin Answering
        /\ needEnd => pc'[g] = "bailTell"
    BY <1>15, <1>0, <2>1 DEF Bail, Finish, Goto, TypeOK, sessionVars, clientVars, histVars, Answering
  <2>3. CASE needEnd
    BY <2>1, <2>2, <2>3 DEF ClientInv, Answering
  <2>4. CASE ~needEnd
    BY <2>2, <2>4, <1>1 DEF Asked
  <2> QED
    BY <2>3, <2>4
<1>16. ASSUME NEW g \in Procs, BailTell(g) \/ TellEnd(g)
       PROVE  ClientInv'
  BY <1>16, <1>2 DEF BailTell, TellEnd, sessionVars
<1>17. ASSUME NEW p \in Procs \ {Reader}, Greet(p)
       PROVE  ClientInv'
  <2>1. pc'[p] = "mark" /\ closed' = closed /\ (closed => locked' = locked)
    BY <1>17, <1>0 DEF Greet, Goto, Tell, TypeOK, sessionVars
  <2> QED
    BY <2>1 DEF ClientInv, Answering
<1>18. ASSUME NEW p \in Procs \ {Reader}, Mark(p)
       PROVE  ClientInv'
  BY <1>18 DEF Mark, ClientInv, sessionVars, clientVars
<1>19. ASSUME NEW p \in Procs \ {Reader}, Unmark(p)
       PROVE  ClientInv'
  <2>1. pc'[p] = "tell" /\ closed' = closed /\ locked' = locked
    BY <1>19, <1>0 DEF Unmark, Goto, TypeOK, sessionVars, clientVars
  <2> QED
    BY <2>1 DEF ClientInv, Answering
<1>20. ASSUME NEW p \in Procs \ {Reader}, EndExecute(p) \/ Close(p) \/ Unlock(p)
       PROVE  ClientInv'
  <2>1. /\ UNCHANGED <<closed, locked, dropped, needEnd, inbox>>
        /\ \A q \in Procs \ {p} : pc'[q] = pc[q]
        /\ pc[p] \notin Answering
    BY <1>20, <1>0 DEF EndExecute, Close, Unlock, Finish, Goto, sessionVars, flagVars,
       clientVars, histVars, TypeOK, Answering
  <2> QED
    BY <2>1, <1>1 DEF Asked
<1> QED
  BY <1>3, <1>4, <1>5, <1>6, <1>7, <1>8, <1>9, <1>10, <1>11, <1>12, <1>13, <1>14, <1>15,
     <1>16, <1>17, <1>18, <1>19, <1>20, NextActions, ProcFacts, Zenon

-----------------------------------------------------------------------------
(* needEventEnd is handed over *)

\* With EventMu free nobody has an event.
LEMMA NobodyHolds ==
  ASSUME LockInv, eventMu = Nobody
  PROVE  \A q \in Procs : ~Holder(q)
BY ProcFacts DEF LockInv

\* While somebody else has an event, the reader does not transfer the player.
LEMMA OneEnters ==
  ASSUME LockInv, ReaderAlone, ~raced, NEW p \in Procs, pc[p] \in EnterPhase
  PROVE  \A q \in Procs \ {p} : pc[q] \notin EnterPhase
<1>1. CASE p = Reader
  BY <1>1, NobodyHolds DEF ReaderAlone, Holder
<1>2. CASE p # Reader
  <2>1. eventMu = p /\ eventMu # Nobody
    BY <1>2, ProcFacts DEF LockInv, Holder
  <2> QED
    BY <2>1 DEF LockInv, ReaderAlone, Holder
<1> QED
  BY <1>1, <1>2

LEMMA ReaderAloneStep ==
  ASSUME BaseInv, FlagInv, Next
  PROVE  ReaderAlone'
<1>0. TypeOK /\ BoundInv /\ ReaderAlone
  BY DEF BaseInv, FlagInv
<1>1. ASSUME raced => raced', pc'[Reader] \in EnterPhase => pc[Reader] \in EnterPhase,
             eventMu' \in {eventMu, Nobody}
      PROVE  ReaderAlone'
  BY <1>0, <1>1 DEF ReaderAlone
<1>2. CASE \/ ClientInteract \/ ClientMove \/ SceneStart \/ CooldownOver \/ Disconnect \/ CleanStale
           \/ InteractDropped \/ InteractRejected
  <2>1. UNCHANGED <<raced, pc, eventMu>>
    BY <1>2 DEF ClientInteract, ClientMove, SceneStart, CooldownOver, Disconnect, CleanStale,
       InteractDropped, InteractRejected, flagVars, procVars, histVars
  <2> QED
    BY <2>1, <1>1
<1>3. CASE InteractAccepted \/ HandleMove \/ PlainMove \/ TouchEvent
  <2>1. pc'[Reader] \notin EnterPhase \/ pc'[Reader] = pc[Reader]
    BY <1>3, <1>0, ProcFacts DEF InteractAccepted, HandleMove, PlainMove, TouchEvent, StartEvent,
       Goto, TypeOK, EnterPhase
  <2>2. raced' = raced /\ (pc'[Reader] \in EnterPhase => eventMu' = eventMu)
    BY <1>3, <1>0, ProcFacts DEF InteractAccepted, HandleMove, PlainMove, TouchEvent, StartEvent,
       Goto, TypeOK, EnterPhase, flagVars, histVars
  <2> QED
    BY <2>1, <2>2, <1>0 DEF ReaderAlone
<1>4. ASSUME NEW p \in Procs, NEW m \in Maps, StartTransfer(p, m)
      PROVE  ReaderAlone'
  <2>1. p = Reader \/ pc'[Reader] = pc[Reader]
    BY <1>4, <1>0, ProcFacts DEF StartTransfer, Goto, TypeOK
  <2> QED
    BY <2>1, <1>4, <1>0 DEF StartTransfer, ReaderAlone, flagVars
<1>5. ASSUME NEW p \in Procs, LeaveMap(p) \/ MoveToMap(p) \/ JoinRoom(p)
      PROVE  ReaderAlone'
  <2>1. /\ raced' = raced /\ eventMu' = eventMu
        /\ pc'[Reader] \in EnterPhase => pc[Reader] \in EnterPhase
    BY <1>5, <1>0, ProcFacts DEF LeaveMap, MoveToMap, JoinRoom, Goto, TypeOK, EnterPhase,
       flagVars, histVars
  <2> QED
    BY <2>1, <1>1
<1>6. ASSUME NEW p \in Procs, SpawnAutorun(p)
      PROVE  ReaderAlone'
  <2>1. mapGen + 1 \in Procs \ {Reader}
    BY <1>6, <1>0, NextGeneration, ProcFacts DEF SpawnAutorun, EnterPhase
  <2>2. /\ raced' = raced /\ eventMu' = eventMu
        /\ pc'[Reader] \in EnterPhase => pc[Reader] \in EnterPhase
    BY <1>6, <1>0, <2>1, ProcFacts DEF SpawnAutorun, TypeOK, EnterPhase, flagVars, histVars
  <2> QED
    BY <2>2, <1>1
<1>7. ASSUME NEW g \in Autoruns,
             \/ StaleCheck(g) \/ FetchAutoruns(g) \/ WaitScene(g) \/ Acquire(g)
             \/ Recheck(g) \/ Inherit(g) \/ Bail(g) \/ BailTell(g) \/ NextAutorun(g)
      PROVE  ReaderAlone'
  <2>1. g \in Procs \ {Reader}
    BY ProcFacts
  <2>2. pc'[Reader] = pc[Reader]
    BY <1>7, <1>0, <2>1, ProcFacts DEF StaleCheck, FetchAutoruns, WaitScene, Acquire, Recheck,
       Inherit, Bail, BailTell, NextAutorun, Finish, Goto, TypeOK
  <2>3. CASE Acquire(g)
    BY <2>2, <2>3 DEF Acquire, ReaderAlone
  <2>4. CASE ~Acquire(g)
    <3>1. raced' = raced /\ eventMu' \in {eventMu, Nobody}
      BY <1>7, <2>4 DEF StaleCheck, FetchAutoruns, WaitScene, Recheck,
         Inherit, Bail, BailTell, NextAutorun, flagVars, histVars
    <3> QED
      BY <3>1, <2>2, <1>1
  <2> QED
    BY <2>3, <2>4
<1>8. ASSUME NEW p \in Procs \ {Reader},
             \/ Greet(p) \/ Mark(p) \/ EndExecute(p) \/ Close(p)
             \/ Unmark(p) \/ TellEnd(p) \/ Unlock(p)
      PROVE  ReaderAlone'
  <2>1. pc'[Reader] = pc[Reader]
    BY <1>8, <1>0, ProcFacts DEF Greet, Mark, EndExecute, Close, Unmark, TellEnd, Unlock,
       Finish, Goto, TypeOK
  <2>2. raced' = raced /\ eventMu' \in {eventMu, Nobody}
    BY <1>8 DEF Greet, Mark, EndExecute, Close, Unmark, TellEnd, Unlock, flagVars, histVars
  <2> QED
    BY <2>1, <2>2, <1>1
<1> QED
  BY <1>2, <1>3, <1>4, <1>5, <1>6, <1>7, <1>8, NextActions, Zenon

\* Only MoveToMap changes the map, and then nobody else has an event.
LEMMA OnOwnMapStep ==
  ASSUME BaseInv, FlagInv, Next
  PROVE  OnOwnMap'
<1>0. TypeOK /\ BoundInv /\ OnOwnMap /\ ReaderAlone /\ LockInv
  BY DEF BaseInv, FlagInv
<1> DEFINE Flagging == {"inherit", "greet", "mark", "unmark"}
<1>1. ASSUME raced => raced', mapId' = mapId, NEW p \in Procs,
             \A q \in Procs \ {p} : pc'[q] = pc[q] /\ home'[q] = home[q],
             p # Reader /\ pc'[p] \in Flagging => mapId = home'[p]
      PROVE  OnOwnMap'
  BY <1>0, <1>1 DEF OnOwnMap
<1>2. CASE \/ ClientInteract \/ ClientMove \/ SceneStart \/ CooldownOver \/ Disconnect \/ CleanStale
           \/ InteractDropped \/ InteractRejected
  BY <1>0, <1>2 DEF ClientInteract, ClientMove, SceneStart, CooldownOver, Disconnect, CleanStale,
     InteractDropped, InteractRejected, OnOwnMap, sessionVars, procVars, histVars
<1>3. CASE HandleMove \/ PlainMove
  <2>1. /\ raced' = raced /\ mapId' = mapId
        /\ \A q \in Procs \ {Reader} : pc'[q] = pc[q] /\ home'[q] = home[q]
    BY <1>3, <1>0, ProcFacts DEF HandleMove, PlainMove, Goto, TypeOK, sessionVars, histVars
  <2> QED
    BY <2>1, <1>1, ProcFacts
<1>4. CASE InteractAccepted \/ TouchEvent
  <2>1. /\ raced' = raced /\ mapId' = mapId
        /\ home'[Event] = mapId
        /\ \A q \in Procs \ {Reader, Event} : pc'[q] = pc[q] /\ home'[q] = home[q]
    BY <1>4, <1>0, ProcFacts DEF InteractAccepted, TouchEvent, StartEvent, TypeOK,
       sessionVars, histVars
  <2> QED
    BY <2>1, <1>0, ProcFacts DEF OnOwnMap
<1>5. ASSUME NEW p \in Procs, (\E m \in Maps : StartTransfer(p, m)) \/ LeaveMap(p) \/ JoinRoom(p)
      PROVE  OnOwnMap'
  <2>1. /\ raced => raced'
        /\ mapId' = mapId
        /\ \A q \in Procs \ {p} : pc'[q] = pc[q] /\ home'[q] = home[q]
        /\ pc'[p] \notin Flagging
    BY <1>5, <1>0 DEF StartTransfer, LeaveMap, JoinRoom, Goto, TypeOK, sessionVars, histVars
  <2> QED
    BY <2>1, <1>1
<1>6. ASSUME NEW p \in Procs, MoveToMap(p), ~raced
      PROVE  OnOwnMap'
  <2>1. /\ pc[p] \in EnterPhase /\ pc'[p] = "join"
        /\ \A q \in Procs \ {p} : pc'[q] = pc[q]
    BY <1>6, <1>0 DEF MoveToMap, Goto, TypeOK, EnterPhase
  <2>2. \A q \in Procs \ {p} : ~Holder(q)
    <3>1. CASE p = Reader
      BY <3>1, <2>1, <1>0, <1>6, NobodyHolds DEF ReaderAlone
    <3>2. CASE p # Reader
      BY <3>2, <2>1, <1>0 DEF LockInv, Holder
    <3> QED
      BY <3>1, <3>2
  <2> QED
    BY <2>1, <2>2 DEF OnOwnMap, Holder, BodyPhase
<1>7. ASSUME NEW p \in Procs, SpawnAutorun(p)
      PROVE  OnOwnMap'
  <2>1. mapGen + 1 \in Procs
    BY <1>7, <1>0, NextGeneration, ProcFacts DEF SpawnAutorun, EnterPhase
  <2>2. /\ raced' = raced /\ mapId' = mapId
        /\ pc'[mapGen + 1] = "start"
        /\ p # mapGen + 1 => pc'[p] \in {"idle", "run"}
        /\ \A q \in Procs \ {p, mapGen + 1} : pc'[q] = pc[q] /\ home'[q] = home[q]
    BY <1>7, <1>0, <2>1 DEF SpawnAutorun, TypeOK, histVars
  <2> QED
    BY <2>1, <2>2, <1>0 DEF OnOwnMap
<1>8. ASSUME NEW g \in Autoruns,
             \/ StaleCheck(g) \/ FetchAutoruns(g) \/ WaitScene(g) \/ Acquire(g)
             \/ Bail(g) \/ BailTell(g) \/ NextAutorun(g)
      PROVE  OnOwnMap'
  <2>1. g \in Procs \ {Reader, Event}
    BY ProcFacts
  <2>2. /\ raced => raced'
        /\ mapId' = mapId
        /\ \A q \in Procs \ {g} : pc'[q] = pc[q] /\ home'[q] = home[q]
        /\ pc'[g] \notin Flagging
    BY <1>8, <1>0, <2>1 DEF StaleCheck, FetchAutoruns, WaitScene, Acquire, Bail,
       BailTell, NextAutorun, Finish, Goto, TypeOK, sessionVars, histVars
  <2> QED
    BY <2>1, <2>2, <1>1
<1>9. ASSUME NEW g \in Autoruns, Recheck(g) \/ Inherit(g)
      PROVE  OnOwnMap'
  <2>1. g \in Procs \ {Reader, Event}
    BY ProcFacts
  <2>2. /\ raced' = raced /\ mapId' = mapId /\ home' = home
        /\ \A q \in Procs \ {g} : pc'[q] = pc[q]
        /\ pc[g] = "inherit" \/ pc'[g] = "bail" \/ mapId = home[g]
    BY <1>9, <1>0, <2>1 DEF Recheck, Inherit, Goto, TypeOK, sessionVars, histVars
  <2> QED
    BY <2>1, <2>2, <1>0 DEF OnOwnMap
<1>10. ASSUME NEW p \in Procs \ {Reader},
             \/ Greet(p) \/ Mark(p) \/ EndExecute(p) \/ Close(p)
             \/ Unmark(p) \/ TellEnd(p) \/ Unlock(p)
      PROVE  OnOwnMap'
  <2>1. /\ raced' = raced /\ mapId' = mapId
        /\ \A q \in Procs \ {p} : pc'[q] = pc[q] /\ home'[q] = home[q]
        /\ \/ pc'[p] \notin Flagging
           \/ home' = home /\ (pc[p] = "greet" \/ mapId = home[p])
    BY <1>10, <1>0 DEF Greet, Mark, EndExecute, Close, Unmark, TellEnd, Unlock, Finish, Goto,
       TypeOK, sessionVars, histVars
  <2> QED
    BY <2>1, <1>0 DEF OnOwnMap
<1>11. ASSUME raced, raced' = raced PROVE OnOwnMap'
  BY <1>11 DEF OnOwnMap
<1>12. ASSUME NEW p \in Procs, MoveToMap(p) PROVE OnOwnMap'
  BY <1>6, <1>11, <1>12 DEF MoveToMap, histVars
<1> QED
  BY <1>2, <1>3, <1>4, <1>5, <1>7, <1>8, <1>9, <1>10, <1>12, NextActions, Zenon

LEMMA FlagSeenStep ==
  ASSUME BaseInv, FlagInv, Next
  PROVE  FlagSeen'
<1>0. /\ TypeOK /\ BoundInv /\ OnOwnMap /\ ReaderAlone /\ LockInv /\ FlagSeen
      /\ mapGen \in Nat /\ (mapGen > 0 => mapGen \in Procs)
  BY ProcFacts DEF BaseInv, FlagInv, TypeOK, Procs
<1>1. ASSUME raced => raced', needEnd' => needEnd, mapGen' = mapGen,
             mapGen > 0 /\ pc[mapGen] \in PreClear => pc'[mapGen] \in PreClear,
             \A q \in Procs : Sees(q) => Sees(q)'
      PROVE  FlagSeen'
  BY <1>0, <1>1 DEF FlagSeen
<1>2. ASSUME raced => raced', needEnd' => needEnd, UNCHANGED <<mapGen, mapId>>, NEW p \in Procs,
             \A q \in Procs \ {p} : pc'[q] = pc[q] /\ home'[q] = home[q],
             p = mapGen /\ pc[p] \in PreClear => pc'[p] \in PreClear,
             Sees(p) => Sees(p)'
      PROVE  FlagSeen'
  <2>1. \A q \in Procs \ {p} : Sees(q) => Sees(q)'
    BY <1>2 DEF Sees
  <2> QED
    BY <2>1, <1>0, <1>1, <1>2
<1>3. ASSUME ~needEnd' \/ (raced /\ raced' = raced)
      PROVE  FlagSeen'
  BY <1>3 DEF FlagSeen
<1>4. CASE \/ ClientInteract \/ ClientMove \/ SceneStart \/ CooldownOver \/ Disconnect \/ CleanStale
           \/ InteractDropped \/ InteractRejected
  <2>1. UNCHANGED <<raced, needEnd, mapGen, mapId, pc, home>>
    BY <1>4 DEF ClientInteract, ClientMove, SceneStart, CooldownOver, Disconnect, CleanStale,
       InteractDropped, InteractRejected, sessionVars, flagVars, procVars, histVars
  <2> QED
    BY <2>1, <1>1 DEF Sees
<1>5. CASE HandleMove \/ PlainMove
  <2>1. /\ UNCHANGED <<raced, needEnd, mapGen, mapId>>
        /\ \A q \in Procs \ {Reader} : pc'[q] = pc[q] /\ home'[q] = home[q]
        /\ pc[Reader] \notin PreClear
    BY <1>5, <1>0, ProcFacts DEF HandleMove, PlainMove, Goto, TypeOK, sessionVars, flagVars,
       histVars, PreClear
  <2> QED
    BY <2>1, <1>2, ProcFacts DEF Sees
<1>6. CASE InteractAccepted \/ TouchEvent
  <2>1. /\ UNCHANGED <<raced, needEnd, mapGen, mapId>> /\ eventMu = Nobody
        /\ \A q \in Procs \ {Reader, Event} : pc'[q] = pc[q] /\ home'[q] = home[q]
    BY <1>6, <1>0, ProcFacts DEF InteractAccepted, TouchEvent, StartEvent, TypeOK,
       sessionVars, histVars
  <2>2. \A q \in Procs : ~Sees(q)
    BY <2>1, <1>0, NobodyHolds DEF Sees, Holder, BodyPhase
  <2>3. (mapGen # Reader /\ mapGen # Event) \/ mapGen = 0
    BY <1>0, ProcFacts DEF Reader, Event, TypeOK
  <2> QED
    BY <2>1, <2>2, <2>3, <1>0, <1>1
<1>7. ASSUME NEW p \in Procs, (\E m \in Maps : StartTransfer(p, m)) \/ LeaveMap(p) \/ JoinRoom(p)
      PROVE  FlagSeen'
  <2>1. /\ raced => raced'
        /\ UNCHANGED <<needEnd, mapGen, mapId>>
        /\ \A q \in Procs \ {p} : pc'[q] = pc[q] /\ home'[q] = home[q]
        /\ pc[p] \notin PreClear /\ pc'[p] \in EnterPhase
    BY <1>7, <1>0, ProcFacts DEF StartTransfer, LeaveMap, JoinRoom, Goto, TypeOK, sessionVars,
       flagVars, histVars, PreClear, EnterPhase
  <2> QED
    BY <2>1, <1>2 DEF Sees
<1>8. ASSUME NEW p \in Procs, MoveToMap(p), ~raced
      PROVE  FlagSeen'
  <2>1. /\ pc[p] \in EnterPhase /\ pc'[p] \in EnterPhase /\ pc[p] \notin PreClear
        /\ \A q \in Procs \ {p} : pc'[q] = pc[q]
        /\ UNCHANGED <<raced, needEnd, mapGen>>
    BY <1>8, <1>0 DEF MoveToMap, Goto, TypeOK, EnterPhase, PreClear, flagVars, histVars
  <2>2. \A q \in Procs \ {p} : ~Holder(q)
    <3>1. CASE p = Reader
      BY <3>1, <2>1, <1>0, <1>8, NobodyHolds DEF ReaderAlone
    <3>2. CASE p # Reader
      BY <3>2, <2>1, <1>0 DEF LockInv, Holder
    <3> QED
      BY <3>1, <3>2
  <2>3. \A q \in Procs : Sees(q) => Sees(q)'
    BY <2>1, <2>2 DEF Sees, Holder, BodyPhase
  <2> QED
    BY <2>1, <2>3, <1>0, <1>1
<1>9. ASSUME NEW p \in Procs, MoveToMap(p)
      PROVE  FlagSeen'
  BY <1>8, <1>9, <1>3 DEF MoveToMap, histVars
<1>10. ASSUME NEW p \in Procs, SpawnAutorun(p)
       PROVE  FlagSeen'
  <2>1. mapGen + 1 \in Procs
    BY <1>10, <1>0, NextGeneration, ProcFacts DEF SpawnAutorun, EnterPhase
  <2>2. mapGen' = mapGen + 1 /\ pc'[mapGen + 1] = "start"
    BY <1>10, <1>0, <2>1 DEF SpawnAutorun, TypeOK
  <2> QED
    BY <2>2, <1>0 DEF FlagSeen, PreClear
<1>11. ASSUME NEW g \in Autoruns, StaleCheck(g)
       PROVE  FlagSeen'
  <2>1. g \in Procs
    BY ProcFacts
  <2>2. /\ UNCHANGED <<raced, needEnd, mapGen, mapId>>
        /\ \A q \in Procs \ {g} : pc'[q] = pc[q] /\ home'[q] = home[q]
        /\ g = mapGen => pc'[g] \in PreClear
        /\ ~Sees(g)
    BY <1>11, <1>0, <2>1 DEF StaleCheck, Finish, Goto, TypeOK, sessionVars, flagVars, histVars,
       PreClear, Sees, EnterPhase
  <2> QED
    BY <2>1, <2>2, <1>2
<1>12. ASSUME NEW g \in Autoruns,
             FetchAutoruns(g) \/ WaitScene(g) \/ Acquire(g) \/ Recheck(g) \/ BailTell(g)
       PROVE  FlagSeen'
  <2>1. g \in Procs
    BY ProcFacts
  <2>2. /\ raced => raced'
        /\ UNCHANGED <<needEnd, mapGen, mapId>>
    BY <1>12, <1>0 DEF FetchAutoruns, WaitScene, Acquire, Recheck, BailTell, TypeOK,
       sessionVars, flagVars, histVars
  <2>3. /\ \A q \in Procs \ {g} : pc'[q] = pc[q] /\ home'[q] = home[q]
        /\ pc[g] \in PreClear => pc'[g] \in PreClear
        /\ ~Sees(g)
    BY <1>12, <1>0, <2>1 DEF FetchAutoruns, WaitScene, Acquire, Recheck, BailTell, Finish, Goto,
       TypeOK, PreClear, Sees, EnterPhase
  <2> QED
    BY <2>1, <2>2, <2>3, <1>2
<1>13. ASSUME NEW p \in Procs, Inherit(p) \/ Bail(p) \/ Unmark(p)
       PROVE  FlagSeen'
  BY <1>13, <1>3 DEF Inherit, Bail, Unmark
<1>14. ASSUME NEW p \in Procs \ {Reader}, Mark(p)
       PROVE  FlagSeen'
  <2>1. /\ UNCHANGED <<raced, mapId, home>>
        /\ pc[p] = "mark" /\ pc'[p] \in {"run", "head"}
    BY <1>14, <1>0 DEF Mark, Goto, TypeOK, sessionVars, histVars
  <2>2. raced \/ mapId = home[p]
    BY <2>1, <1>0 DEF OnOwnMap
  <2>3. raced' \/ Sees(p)'
    BY <2>1, <2>2 DEF Sees
  <2> QED
    BY <2>3 DEF FlagSeen
<1>15. ASSUME NEW p \in Procs \ {Reader},
             NextAutorun(p) \/ EndExecute(p) \/ Close(p)
       PROVE  FlagSeen'
  <2>1. /\ UNCHANGED <<raced, needEnd, mapGen, mapId, home>>
        /\ \A q \in Procs \ {p} : pc'[q] = pc[q]
        /\ pc[p] \notin PreClear
    BY <1>15, <1>0 DEF NextAutorun, EndExecute, Close, Goto, TypeOK, sessionVars, flagVars,
       histVars, PreClear
  <2>2. Sees(p) => Sees(p)'
    <3>1. Sees(p) => mapId = home[p]
      BY <1>15 DEF NextAutorun, EndExecute, Close, Sees, EnterPhase
    <3>2. mapId = home[p] => pc'[p] \in {"head", "run", "close", "unmark"}
      BY <1>15, <1>0 DEF NextAutorun, EndExecute, Close, Goto, TypeOK
    <3> QED
      BY <2>1, <3>1, <3>2 DEF Sees
  <2> QED
    BY <2>1, <2>2, <1>2
<1>16. ASSUME NEW p \in Procs \ {Reader}, Greet(p) \/ TellEnd(p) \/ Unlock(p)
       PROVE  FlagSeen'
  <2>1. UNCHANGED <<raced, needEnd, mapGen, mapId>>
    BY <1>16 DEF Greet, TellEnd, Unlock, sessionVars, flagVars, histVars
  <2>2. /\ \A q \in Procs \ {p} : pc'[q] = pc[q] /\ home'[q] = home[q]
        /\ pc[p] \notin PreClear
        /\ ~Sees(p)
    BY <1>16, <1>0 DEF Greet, TellEnd, Unlock, Finish, Goto, TypeOK, PreClear, Sees, EnterPhase
  <2> QED
    BY <2>1, <2>2, <1>2
<1> QED
  BY <1>4, <1>5, <1>6, <1>7, <1>9, <1>10, <1>11, <1>12, <1>13, <1>14, <1>15, <1>16,
     ProcFacts, NextActions, Zenon

LEMMA FlagStep ==
  ASSUME BaseInv, FlagInv, Next
  PROVE  FlagInv'
BY ReaderAloneStep, OnOwnMapStep, FlagSeenStep DEF FlagInv

-----------------------------------------------------------------------------
(* The room *)

LEMMA HistoryStays ==
  ASSUME TypeOK, Next
  PROVE  (raced => raced') /\ (closed => closed')
<1>1. CASE \/ ClientInteract \/ ClientMove \/ SceneStart \/ CooldownOver \/ Disconnect \/ CleanStale
           \/ InteractDropped \/ InteractRejected \/ InteractAccepted
           \/ HandleMove \/ PlainMove \/ TouchEvent
  <2>1. raced' = raced
    BY <1>1 DEF ClientInteract, ClientMove, SceneStart, CooldownOver, Disconnect, CleanStale,
       InteractDropped, InteractRejected, InteractAccepted, HandleMove, PlainMove, TouchEvent, histVars
  <2>2. closed' = closed \/ closed' = TRUE
    BY <1>1 DEF ClientInteract, ClientMove, SceneStart, CooldownOver, Disconnect, CleanStale,
       InteractDropped, InteractRejected, InteractAccepted, HandleMove, PlainMove, TouchEvent, sessionVars
  <2> QED
    BY <2>1, <2>2
<1>2. ASSUME NEW p \in Procs,
             \/ \E m \in Maps : StartTransfer(p, m)
             \/ LeaveMap(p) \/ MoveToMap(p) \/ JoinRoom(p) \/ SpawnAutorun(p)
      PROVE  (raced => raced') /\ (closed => closed')
  <2>1. closed' = closed
    BY <1>2 DEF StartTransfer, LeaveMap, MoveToMap, JoinRoom, SpawnAutorun, sessionVars
  <2>2. raced => raced'
    BY <1>2 DEF StartTransfer, LeaveMap, MoveToMap, JoinRoom, SpawnAutorun, histVars
  <2> QED
    BY <2>1, <2>2
<1>3. ASSUME NEW g \in Autoruns,
             \/ StaleCheck(g) \/ FetchAutoruns(g) \/ WaitScene(g) \/ Acquire(g)
             \/ Recheck(g) \/ Inherit(g) \/ Bail(g) \/ BailTell(g) \/ NextAutorun(g)
      PROVE  (raced => raced') /\ (closed => closed')
  BY <1>3 DEF StaleCheck, FetchAutoruns, WaitScene, Acquire, Recheck, Inherit, Bail, BailTell,
     NextAutorun, TypeOK, sessionVars, histVars
<1>4. ASSUME NEW p \in Procs \ {Reader},
             \/ Greet(p) \/ Mark(p) \/ EndExecute(p) \/ Close(p)
             \/ Unmark(p) \/ TellEnd(p) \/ Unlock(p)
      PROVE  (raced => raced') /\ (closed => closed')
  <2>1. closed' = closed /\ raced' = raced
    BY <1>4 DEF Greet, Mark, EndExecute, Close, Unmark, TellEnd, Unlock, sessionVars, histVars
  <2> QED
    BY <2>1
<1> QED
  BY <1>1, <1>2, <1>3, <1>4, NextActions, Zenon

LEMMA RoomStep ==
  ASSUME BaseInv, FlagInv, RoomInv, Next
  PROVE  RoomInv'
<1> SUFFICES ASSUME ~raced', ~closed' PROVE RoomInv'
  BY DEF RoomInv
<1>0. /\ TypeOK /\ ShapeInv /\ BoundInv /\ LockInv /\ ReaderAlone
      /\ NoMap \notin Maps /\ ~raced /\ ~closed
  BY HistoryStays, MapAssumption DEF BaseInv, FlagInv
<1>1. /\ \A q \in Procs : pc[q] = "leave" => rooms \subseteq {mapId}
      /\ \A q \in Procs : pc[q] = "move" => rooms = {}
      /\ \A q \in Procs : pc[q] = "join" => rooms = {} /\ dest[q] = mapId
      /\ \A q \in Procs : pc[q] = "spawn" => rooms = {mapId} /\ dest[q] = mapId
      /\ Entering = {} => rooms = IF mapId = NoMap THEN {} ELSE {mapId}
  BY <1>0 DEF RoomInv
<1>2. ASSUME UNCHANGED <<mapId, rooms, dest>>,
             \A q \in Procs : pc'[q] = pc[q] \/ {pc[q], pc'[q]} \cap EnterPhase = {}
      PROVE  RoomInv'
  <2>1. Entering' = Entering
    BY <1>2 DEF Entering
  <2>2. \A q \in Procs : pc'[q] \in EnterPhase => pc[q] = pc'[q]
    BY <1>2
  <2> QED
    BY <1>1, <1>2, <2>1, <2>2 DEF RoomInv, EnterPhase
\* The only goroutine in EnterMapRoom makes the step.
<1>3. ASSUME NEW p \in Procs, pc'[p] \in EnterPhase,
             \A q \in Procs \ {p} : pc'[q] \notin EnterPhase,
             pc'[p] = "leave" => (rooms \subseteq {mapId})',
             pc'[p] = "move" => rooms' = {},
             pc'[p] = "join" => rooms' = {} /\ dest'[p] = mapId',
             pc'[p] = "spawn" => rooms' = {mapId'} /\ dest'[p] = mapId'
      PROVE  RoomInv'
  <2>1. p \in Entering'
    BY <1>3 DEF Entering
  <2>2. \A q \in Procs : pc'[q] \in {"leave", "move", "join", "spawn"} => q = p
    BY <1>3 DEF EnterPhase
  <2> QED
    BY <1>3, <2>1, <2>2 DEF RoomInv
<1>4. CASE \/ ClientInteract \/ ClientMove \/ SceneStart \/ CooldownOver
           \/ InteractDropped \/ InteractRejected
  <2>1. UNCHANGED <<mapId, rooms, dest, pc>>
    BY <1>4 DEF ClientInteract, ClientMove, SceneStart, CooldownOver,
       InteractDropped, InteractRejected, sessionVars, procVars
  <2> QED
    BY <2>1, <1>2
<1>5. CASE Disconnect \/ CleanStale
  BY <1>0, <1>5 DEF Disconnect, CleanStale
<1>6. CASE InteractAccepted \/ HandleMove \/ PlainMove \/ TouchEvent
  <2>1. UNCHANGED <<mapId, rooms, dest>>
    BY <1>6 DEF InteractAccepted, HandleMove, PlainMove, TouchEvent, StartEvent, sessionVars
  <2>2. Holder(Event) => eventMu # Nobody
    BY <1>0, ProcFacts DEF LockInv
  <2>3. \A q \in Procs : pc'[q] = pc[q] \/ {pc[q], pc'[q]} \cap EnterPhase = {}
    BY <1>6, <1>0, <2>2, ProcFacts DEF InteractAccepted, HandleMove, PlainMove, TouchEvent, StartEvent,
       Goto, TypeOK, EnterPhase, Holder
  <2> QED
    BY <2>1, <2>3, <1>2
<1>7. ASSUME NEW p \in Procs, NEW m \in Maps, StartTransfer(p, m)
      PROVE  RoomInv'
  <2>1. /\ pc'[p] = "leave" /\ UNCHANGED <<mapId, rooms>> /\ pc[p] \notin EnterPhase
        /\ \A q \in Procs \ {p} : pc'[q] = pc[q]
    BY <1>7, <1>0 DEF StartTransfer, Goto, TypeOK, sessionVars, EnterPhase
  <2>2. \A q \in Procs : pc[q] \notin EnterPhase
    <3>1. CASE p = Reader
      <4>1. eventMu = Nobody
        BY <1>7, <3>1 DEF StartTransfer
      <4> QED
        BY <3>1, <2>1, <4>1, <1>0, NobodyHolds DEF Holder
    <3>2. CASE p # Reader
      <4>1. Holder(p) /\ eventMu = p /\ p # Nobody
        BY <1>7, <3>2, <1>0, ProcFacts DEF StartTransfer, Holder, BodyPhase, LockInv
      <4> QED
        BY <2>1, <4>1, <1>0 DEF LockInv, Holder, ReaderAlone
    <3> QED
      BY <3>1, <3>2
  <2>3. rooms \subseteq {mapId}
    BY <2>2, <1>1 DEF Entering
  <2> QED
    BY <2>1, <2>2, <2>3, <1>3 DEF EnterPhase
<1>8. ASSUME NEW p \in Procs, LeaveMap(p) \/ MoveToMap(p) \/ JoinRoom(p)
      PROVE  RoomInv'
  <2>1. /\ pc[p] \in EnterPhase /\ pc'[p] \in EnterPhase
        /\ \A q \in Procs \ {p} : pc'[q] = pc[q]
    BY <1>8, <1>0 DEF LeaveMap, MoveToMap, JoinRoom, Goto, TypeOK, EnterPhase
  <2>2. \A q \in Procs \ {p} : pc'[q] \notin EnterPhase
    BY <2>1, <1>0, OneEnters
  <2>3. CASE LeaveMap(p)
    <3>1. pc'[p] = "move" /\ rooms' = {}
      BY <2>3, <1>0, <1>1 DEF LeaveMap, Goto, TypeOK
    <3> QED
      BY <3>1, <2>1, <2>2, <1>3
  <2>4. CASE MoveToMap(p)
    <3>1. pc'[p] = "join" /\ rooms' = {} /\ dest'[p] = mapId'
      BY <2>4, <1>0, <1>1 DEF MoveToMap, Goto, TypeOK
    <3> QED
      BY <3>1, <2>1, <2>2, <1>3
  <2>5. CASE JoinRoom(p)
    <3>1. pc'[p] = "spawn" /\ rooms' = {mapId'} /\ dest'[p] = mapId'
      BY <2>5, <1>0, <1>1 DEF JoinRoom, Goto, TypeOK
    <3> QED
      BY <3>1, <2>1, <2>2, <1>3
  <2> QED
    BY <1>8, <2>3, <2>4, <2>5
<1>9. ASSUME NEW p \in Procs, SpawnAutorun(p)
      PROVE  RoomInv'
  <2>1. pc[p] \in EnterPhase /\ mapGen + 1 \in Procs
    BY <1>9, <1>0, NextGeneration, ProcFacts DEF SpawnAutorun, EnterPhase
  <2>2. /\ pc'[p] \notin EnterPhase /\ pc'[mapGen + 1] \notin EnterPhase
        /\ \A q \in Procs \ {p, mapGen + 1} : pc'[q] = pc[q]
    BY <1>9, <1>0, <2>1 DEF SpawnAutorun, TypeOK, EnterPhase
  <2>3. \A q \in Procs : pc'[q] \notin EnterPhase
    BY <2>1, <2>2, <1>0, OneEnters
  <2>4. rooms' = {mapId'} /\ mapId' # NoMap
    BY <1>9, <2>1, <1>0, <1>1 DEF SpawnAutorun, ShapeInv
  <2> QED
    BY <2>3, <2>4 DEF RoomInv, EnterPhase
<1>10. ASSUME NEW g \in Autoruns,
             \/ StaleCheck(g) \/ FetchAutoruns(g) \/ WaitScene(g) \/ Acquire(g)
             \/ Recheck(g) \/ Inherit(g) \/ Bail(g) \/ BailTell(g) \/ NextAutorun(g)
      PROVE  RoomInv'
  <2>1. g \in Procs
    BY ProcFacts
  <2>2. UNCHANGED <<mapId, rooms, dest>>
    BY <1>10 DEF StaleCheck, FetchAutoruns, WaitScene, Acquire, Recheck, Inherit, Bail, BailTell,
       NextAutorun, sessionVars
  <2>3. /\ \A q \in Procs \ {g} : pc'[q] = pc[q]
        /\ {pc[g], pc'[g]} \cap EnterPhase = {}
    BY <1>10, <1>0, <2>1, ProcFacts DEF StaleCheck, FetchAutoruns, WaitScene, Acquire, Recheck,
       Inherit, Bail, BailTell, NextAutorun, Finish, Goto, TypeOK, EnterPhase
  <2> QED
    BY <2>1, <2>2, <2>3, <1>2
<1>11. ASSUME NEW p \in Procs \ {Reader},
             \/ Greet(p) \/ Mark(p) \/ EndExecute(p) \/ Close(p)
             \/ Unmark(p) \/ TellEnd(p) \/ Unlock(p)
       PROVE  RoomInv'
  <2>1. UNCHANGED <<mapId, rooms, dest>>
    BY <1>11 DEF Greet, Mark, EndExecute, Close, Unmark, TellEnd, Unlock, sessionVars
  <2>2. /\ \A q \in Procs \ {p} : pc'[q] = pc[q]
        /\ {pc[p], pc'[p]} \cap EnterPhase = {}
    BY <1>11, <1>0 DEF Greet, Mark, EndExecute, Close, Unmark, TellEnd, Unlock, Finish, Goto,
       TypeOK, EnterPhase
  <2> QED
    BY <2>1, <2>2, <1>2
<1> QED
  BY <1>4, <1>5, <1>6, <1>7, <1>8, <1>9, <1>10, <1>11, NextActions, Zenon

-----------------------------------------------------------------------------
(* At rest *)

LEMMA RestInit == Init => RestInv
<1> SUFFICES ASSUME Init PROVE RestInv
  OBVIOUS
<1>1. \A p \in Procs : pc[p] \in {"checked", "idle", "none"} /\ (p = Reader => pc[p] = "checked")
  BY ProcFacts DEF Init
<1>2. ClientInv /\ FlagInv
  BY <1>1, ProcFacts DEF Init, ClientInv, FlagInv, ReaderAlone, OnOwnMap, FlagSeen, EnterPhase
<1>3. RoomInv
  BY <1>1 DEF Init, RoomInv
<1> QED
  BY <1>2, <1>3, BaseInit DEF RestInv

LEMMA RestStep == RestInv /\ [Next]_vars => RestInv'
<1>1. ASSUME RestInv, Next PROVE RestInv'
  BY <1>1, BaseStep, ClientStep, FlagStep, RoomStep, Zenon DEF RestInv
<1>2. ASSUME RestInv, UNCHANGED vars PROVE RestInv'
  <2>1. BaseInv'
    BY <1>2, BaseStep DEF RestInv
  <2>2. ClientInv' /\ FlagInv' /\ RoomInv'
    BY <1>2 DEF RestInv, ClientInv, Asked, FlagInv, ReaderAlone, OnOwnMap, FlagSeen, Sees,
       RoomInv, Entering, vars, sessionVars, flagVars, procVars, clientVars, histVars
  <2> QED
    BY <2>1, <2>2 DEF RestInv
<1> QED
  BY <1>1, <1>2

LEMMA AtRest ==
  ASSUME Quiet
  PROVE  \A p \in Procs : pc[p] \in {"idle", "none"}
BY ProcFacts DEF Quiet

\* The client is never left locked but by a transfer of the reader's in the middle
\* of an event, or by an interaction dropped without an answer.
THEOREM ClientUnlocked == Spec => []NeverStuck
<1>1. RestInv => NeverStuck
  <2> SUFFICES ASSUME RestInv, Quiet, locked, ~raced, ~dropped PROVE FALSE
    BY DEF NeverStuck
  <2>1. \A p \in Procs : pc[p] \in {"idle", "none"}
    BY AtRest
  <2>2. ~Asked
    BY DEF Asked, Quiet
  <2>3. needEnd
    BY <2>1, <2>2 DEF RestInv, ClientInv, Answering
  <2>4. mapGen \in 0 .. MaxGen
    BY DEF RestInv, BaseInv, TypeOK
  <2>5. mapGen \in Procs
    BY <2>4, ProcFacts DEF Procs
  <2> QED
    BY <2>1, <2>3, <2>5 DEF RestInv, FlagInv, FlagSeen, Sees, PreClear, EnterPhase
<1> QED
  BY <1>1, RestInit, RestStep, PTL DEF Spec

\* needEventEnd does not outlive the events, but for the same overlap.
THEOREM FlagCleared == Spec => []FlagHandedOver
<1>1. RestInv => FlagHandedOver
  <2> SUFFICES ASSUME RestInv, Quiet, needEnd, ~raced PROVE FALSE
    BY DEF FlagHandedOver
  <2>1. \A p \in Procs : pc[p] \in {"idle", "none"}
    BY AtRest
  <2>2. mapGen \in 0 .. MaxGen
    BY DEF RestInv, BaseInv, TypeOK
  <2>3. mapGen \in Procs
    BY <2>2, ProcFacts DEF Procs
  <2> QED
    BY <2>1, <2>3 DEF RestInv, FlagInv, FlagSeen, Sees, PreClear, EnterPhase
<1> QED
  BY <1>1, RestInit, RestStep, PTL DEF Spec

\* A player whose transfers never overlapped an event stands in the room of the
\* map the session says, and in no other.
THEOREM OneRoom == Spec => []InOneRoom
<1>1. RestInv => InOneRoom
  <2> SUFFICES ASSUME RestInv, Quiet, ~closed, ~raced PROVE rooms = {mapId}
    BY DEF InOneRoom
  <2>1. Entering = {}
    BY AtRest DEF Entering, EnterPhase
  <2>2. mapId # NoMap
    BY DEF RestInv, BaseInv, ShapeInv, Quiet
  <2> QED
    BY <2>1, <2>2 DEF RestInv, RoomInv
<1> QED
  BY <1>1, RestInit, RestStep, PTL DEF Spec
=============================================================================
