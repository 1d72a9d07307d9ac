---------------------------- MODULE Agent_proofs ----------------------------
(***************************************************************************)
(* Proofs about the health service of the agent, for any services, streams, *)
(* faults and bounds: no call waits for a watcher, Shutdown sticks, and the *)
(* service, with its mutex and channels, implements StatusFeed.             *)
(*                                                                          *)
(* None of them is inductive.  That a drained channel is still empty when   *)
(* the status is put needs that a watcher registers only when no call holds *)
(* the mutex (Locked); that Shutdown sticks needs what the call that holds  *)
(* the mutex has still to do (Closing); that a put is an offer of the       *)
(* current status needs that the call works on watchers of the service that *)
(* it has just set (CurrentPut).  SInv collects these facts.                *)
(***************************************************************************)
EXTENDS Agent, TLAPS

Offers == {"SERVING", "NOT_SERVING", "SERVICE_UNKNOWN"}

\* What the channel of a watcher can hold.
Slots == {<<>>} \cup {<<st>> : st \in Offers}

\* The part of the state that the promises are about.
core == <<mu, shutdown, statusMap, updates, job, chan, wpc, service, lastSent>>

Jobs == [st : Statuses \cup {None}, todo : SUBSET Services,
         rest : SUBSET Streams, put : Streams \cup {None}]

CoreTypes ==
  /\ mu \in BOOLEAN /\ shutdown \in BOOLEAN
  /\ statusMap \in [Services -> Statuses \cup {None}]
  /\ updates \in SUBSET Streams
  /\ job \in Jobs
  /\ chan \in [Streams -> Slots]
  /\ wpc \in [Streams -> {"idle", "watch", "loop", "send", "leave", "app"}]
  /\ service \in [Streams -> Services]
  /\ lastSent \in [Streams -> Offers \cup {None}]

\* Only the call that holds the mutex has something to do, and what it has to
\* do is for registered watchers.
Locked ==
  /\ ~mu => job = NoJob
  /\ mu => job.st \in Statuses
  /\ job.rest \subseteq updates
  /\ job.put \in job.rest \cup {None}

\* A stream is registered while its handler is in its loop or about to leave
\* it, and has neither statuses to take nor a last one otherwise.
Registered ==
  \A w \in Streams :
    /\ w \in updates <=> wpc[w] \in {"loop", "send", "leave"}
    /\ w \notin updates => chan[w] = <<>> /\ lastSent[w] = None

\* The call has just set the service that its watchers watch.
CurrentPut == \A w \in job.rest : statusMap[service[w]] = job.st

\* After Shutdown the services that are still to be set are set to the same.
Closing ==
  shutdown => /\ \A s \in Services \ job.todo : statusMap[s] # "SERVING"
              /\ job.todo # {} => job.st = "NOT_SERVING"

SInv == CoreTypes /\ Locked /\ Registered /\ CurrentPut /\ Closing /\ PutNeverWaits

-----------------------------------------------------------------------------
(* The invariant of the service *)

\* A new stream takes the place of one that is not in use.
LEMMA FreeStreamIdle == \A w \in FreeStream : w \in Streams /\ wpc[w] = "idle"
  BY DEF FreeStream

\* A channel is empty or holds one status.
LEMMA SlotFacts ==
  /\ <<>> \in Slots
  /\ \A st \in Offers : <<st>> \in Slots /\ <<st>> # <<>> /\ Head(<<st>>) = st
  /\ \A c \in Slots : c # <<>> => Head(c) \in Offers /\ Len(c) = 1
  BY DEF Slots

\* A new server has nothing to do and nobody to tell.
LEMMA SInvInit == Init => SInv
<1> SUFFICES ASSUME Init PROVE SInv
  OBVIOUS
<1>1. job = [st |-> None, todo |-> {}, rest |-> {}, put |-> None]
  BY DEF Init, ServerInit, NoJob, Job
<1>2. CoreTypes
  <2>1. statusMap \in [Services -> Statuses \cup {None}]
    BY DEF Init, ServerInit, InitialStatus, Statuses
  <2>2. job \in Jobs
    BY <1>1 DEF Jobs
  <2> QED BY <2>1, <2>2, ServerAssumption, SlotFacts DEF Init, ServerInit, CoreTypes
<1>3. Locked /\ CurrentPut /\ Closing /\ PutNeverWaits
  BY <1>1 DEF Init, ServerInit, Locked, CurrentPut, Closing, PutNeverWaits
<1>4. Registered
  BY DEF Init, ServerInit, Registered
<1> QED BY <1>2, <1>3, <1>4 DEF SInv

\* Steps that leave the core alone.
LEMMA SInvStutter == SInv /\ UNCHANGED core => SInv'
  BY DEF core, SInv, CoreTypes, Locked, Registered, CurrentPut, Closing, PutNeverWaits

\* A call that takes the mutex, if what it is to do agrees with Shutdown.
LEMMA SInvBegin ==
  ASSUME SInv, NEW todo \in SUBSET Services, NEW st \in Statuses, Begin(todo, st),
         shutdown' \in BOOLEAN,
         shutdown' => /\ \A s \in Services \ todo : statusMap[s] # "SERVING"
                      /\ todo # {} => st = "NOT_SERVING"
  PROVE  SInv'
<1> USE DEF Begin, watchVars
<1>1. job' = [st |-> st, todo |-> todo, rest |-> {}, put |-> None]
  BY DEF Job
<1>2. CoreTypes'
  BY <1>1 DEF SInv, CoreTypes, Jobs
<1>3. Locked' /\ CurrentPut' /\ PutNeverWaits'
  BY <1>1 DEF Locked, CurrentPut, PutNeverWaits
<1>4. Registered'
  BY DEF SInv, Registered
<1>5. Closing'
  BY <1>1 DEF Closing
<1> QED BY <1>2, <1>3, <1>4, <1>5 DEF SInv

\* A call that changes a status starts.
LEMMA SInvCall == SInv /\ StatusCall => SInv'
<1> SUFFICES ASSUME SInv, StatusCall PROVE SInv'
  OBVIOUS
<1>1. ASSUME NEW s \in Services, NEW st \in Statuses, SetServingStatus(s, st) PROVE SInv'
  <2>1. job = NoJob
    BY <1>1 DEF SetServingStatus, Begin, SInv, Locked
  <2>2. shutdown => \A v \in Services : statusMap[v] # "SERVING"
    BY <2>1 DEF SInv, Closing, NoJob, Job
  <2> DEFINE todo == IF shutdown THEN {} ELSE {s}
  <2>3. todo \in SUBSET Services /\ shutdown' = shutdown /\ shutdown \in BOOLEAN
    BY <1>1 DEF SetServingStatus, SInv, CoreTypes
  <2>4. Begin(todo, st)
    BY <1>1 DEF SetServingStatus
  <2> HIDE DEF todo
  <2>5. shutdown' => /\ \A v \in Services \ todo : statusMap[v] # "SERVING"
                     /\ todo # {} => st = "NOT_SERVING"
    BY <2>2, <2>3 DEF todo
  <2> QED BY <2>3, <2>4, <2>5, SInvBegin
<1>2. CASE Shutdown
  <2>1. Known \in SUBSET Services /\ "NOT_SERVING" \in Statuses
    BY DEF Known, Statuses
  <2>2. \A v \in Services \ Known : statusMap[v] # "SERVING"
    BY ServerAssumption DEF Known
  <2>3. Begin(Known, "NOT_SERVING") /\ shutdown' \in BOOLEAN
    BY <1>2 DEF Shutdown
  <2> QED BY <2>1, <2>2, <2>3, SInvBegin
<1>3. CASE Resume
  <2>1. Known \in SUBSET Services /\ "SERVING" \in Statuses
    BY DEF Known, Statuses
  <2>2. Begin(Known, "SERVING") /\ shutdown' = FALSE
    BY <1>3 DEF Resume
  <2> QED BY <2>1, <2>2, SInvBegin
<1> QED BY <1>1, <1>2, <1>3 DEF StatusCall

\* The call that holds the mutex goes on.
LEMMA SInvCaller == SInv /\ CallStep => SInv'
<1> SUFFICES ASSUME SInv, Caller PROVE SInv'
  BY DEF CallStep
<1> USE DEF watchVars
<1>1. CASE SetServingStatusLocked
  <2>1. PICK s \in job.todo :
          /\ statusMap' = [statusMap EXCEPT ![s] = job.st]
          /\ job' = Job(job.st, job.todo \ {s}, {w \in updates : service[w] = s}, None)
    BY <1>1 DEF SetServingStatusLocked
  <2>2. mu /\ s \in Services /\ job.st \in Statuses /\ job.rest = {} /\ job.put = None
    BY <1>1, <2>1 DEF SInv, Locked, CoreTypes, Jobs, NoJob, Job, SetServingStatusLocked
  <2>3. job' = [st |-> job.st, todo |-> job.todo \ {s},
                rest |-> {w \in updates : service[w] = s}, put |-> None]
    BY <2>1 DEF Job
  <2> DEFINE W == {w \in updates : service[w] = s}
  <2>a. UNCHANGED <<mu, shutdown, updates, chan, wpc, service, lastSent>>
    BY <1>1 DEF SetServingStatusLocked
  <2>4. CoreTypes'
    <3>1. job' \in Jobs
      BY <2>2, <2>3 DEF SInv, CoreTypes, Jobs
    <3>2. statusMap' \in [Services -> Statuses \cup {None}]
      BY <2>1, <2>2 DEF SInv, CoreTypes
    <3> QED BY <2>a, <3>1, <3>2 DEF SInv, CoreTypes
  <2>5. Locked' /\ PutNeverWaits'
    BY <1>1, <2>2, <2>3 DEF Locked, PutNeverWaits, SetServingStatusLocked
  <2>6. Registered'
    BY <1>1 DEF SInv, Registered, SetServingStatusLocked
  <2>7. CurrentPut'
    <3>1. statusMap'[s] = job.st
      BY <2>1, <2>2 DEF SInv, CoreTypes
    <3>2. job'.rest = W /\ job'.st = job.st
      BY <2>3
    <3> QED BY <2>a, <3>1, <3>2 DEF CurrentPut
  <2>8. Closing'
    <3> SUFFICES ASSUME shutdown PROVE Closing'
      BY <2>a DEF Closing
    <3>1. job.st = "NOT_SERVING" /\ \A v \in Services \ job.todo : statusMap[v] # "SERVING"
      BY <2>1 DEF SInv, Closing
    <3>2. job'.todo = job.todo \ {s} /\ job'.st = job.st
      BY <2>3
    <3>3. \A v \in Services : v # s => statusMap'[v] = statusMap[v]
      BY <2>1 DEF SInv, CoreTypes
    <3>4. statusMap'[s] # "SERVING"
      BY <2>1, <2>2, <3>1 DEF SInv, CoreTypes
    <3> QED BY <3>1, <3>2, <3>3, <3>4 DEF Closing
  <2> QED BY <2>4, <2>5, <2>6, <2>7, <2>8 DEF SInv
<1>2. CASE DrainUpdate
  <2>1. PICK w \in job.rest : /\ chan' = [chan EXCEPT ![w] = <<>>]
                              /\ job' = Job(job.st, job.todo, job.rest, w)
    BY <1>2 DEF DrainUpdate
  <2>2. mu /\ w \in updates /\ w \in Streams
    BY <2>1 DEF SInv, Locked, CoreTypes, NoJob, Job
  <2>3. job' = [st |-> job.st, todo |-> job.todo, rest |-> job.rest, put |-> w]
    BY <2>1 DEF Job
  <2>4. CoreTypes'
    <3>1. job' \in Jobs
      BY <2>2, <2>3 DEF SInv, CoreTypes, Jobs
    <3> QED BY <1>2, <2>1, <3>1, SlotFacts DEF SInv, CoreTypes, DrainUpdate
  <2>5. Locked' /\ CurrentPut' /\ Closing'
    BY <1>2, <2>1, <2>2, <2>3 DEF SInv, Locked, CurrentPut, Closing, DrainUpdate
  <2>6. Registered' /\ PutNeverWaits'
    BY <1>2, <2>1, <2>2, <2>3 DEF SInv, CoreTypes, Registered, PutNeverWaits, DrainUpdate
  <2> QED BY <2>4, <2>5, <2>6 DEF SInv
<1>3. CASE PutUpdate
  <2> DEFINE w == job.put
  <2>1. mu /\ w \in job.rest /\ w \in updates /\ w \in Streams /\ job.st \in Statuses
    BY <1>3 DEF SInv, Locked, CoreTypes, NoJob, Job, PutUpdate
  <2>2. job' = [st |-> job.st, todo |-> job.todo, rest |-> job.rest \ {w}, put |-> None]
    BY <1>3 DEF PutUpdate, Job
  <2>a. /\ UNCHANGED <<mu, shutdown, statusMap, updates, wpc, service, lastSent>>
        /\ chan' = [chan EXCEPT ![w] = <<job.st>>]
    BY <1>3 DEF PutUpdate
  <2> HIDE DEF w
  <2>3. CoreTypes'
    <3>1. job' \in Jobs
      BY <2>1, <2>2 DEF SInv, CoreTypes, Jobs
    <3>2. <<job.st>> \in Slots
      BY <2>1, SlotFacts DEF Statuses, Offers
    <3> QED BY <2>1, <2>a, <3>1, <3>2 DEF SInv, CoreTypes
  <2>4. Locked' /\ CurrentPut' /\ Closing' /\ PutNeverWaits'
    <3>1. /\ job'.st = job.st /\ job'.todo = job.todo
          /\ job'.rest = job.rest \ {w} /\ job'.put = None
      BY <2>2
    <3> QED BY <2>1, <2>a, <3>1 DEF SInv, Locked, CurrentPut, Closing, PutNeverWaits
  <2>5. Registered'
    BY <2>1, <2>a DEF SInv, CoreTypes, Registered
  <2> QED BY <2>3, <2>4, <2>5 DEF SInv
<1>4. CASE Unlock
  <2>1. CoreTypes' /\ Locked' /\ CurrentPut' /\ PutNeverWaits'
    BY <1>4 DEF SInv, CoreTypes, Jobs, Locked, CurrentPut, PutNeverWaits, NoJob, Job, Unlock
  <2>2. Registered' /\ Closing'
    BY <1>4 DEF SInv, Registered, Closing, NoJob, Job, Unlock
  <2> QED BY <2>1, <2>2 DEF SInv
<1> QED BY <1>1, <1>2, <1>3, <1>4 DEF Caller

\* The handlers of streams.
LEMMA SInvWatcher ==
  ASSUME NEW w \in Streams, SInv, Watcher(w)
  PROVE  SInv'
<1> USE DEF stateVars
<1>1. CASE Watch(w)
  <2> DEFINE st == IF service[w] \in Known THEN statusMap[service[w]] ELSE "SERVICE_UNKNOWN"
  <2>1. /\ wpc[w] = "watch" /\ ~mu
        /\ wpc' = [wpc EXCEPT ![w] = "loop"]
        /\ updates' = updates \cup {w}
        /\ chan' = [chan EXCEPT ![w] = <<st>>]
        /\ UNCHANGED <<mu, shutdown, statusMap, job, service, lastSent>>
    BY <1>1 DEF Watch
  <2>2. <<st>> \in Slots
    <3>1. st \in Offers
      BY DEF SInv, CoreTypes, Known, Statuses, Offers
    <3> QED BY <3>1, SlotFacts
  <2> HIDE DEF st
  <2>3. job = NoJob /\ job.rest = {} /\ job.put = None
    BY <2>1 DEF SInv, Locked, NoJob, Job
  <2>4. CoreTypes'
    BY <2>1, <2>2 DEF SInv, CoreTypes
  <2>5. Locked' /\ CurrentPut' /\ Closing' /\ PutNeverWaits'
    BY <2>1, <2>3 DEF SInv, Locked, CurrentPut, Closing, PutNeverWaits
  <2>6. Registered'
    BY <2>1 DEF SInv, CoreTypes, Registered
  <2> QED BY <2>4, <2>5, <2>6 DEF SInv
<1>2. CASE Take(w)
  <2> DEFINE pc == IF lastSent[w] = Head(chan[w]) THEN "loop" ELSE "send"
  <2>1. /\ wpc[w] = "loop" /\ chan[w] # <<>>
        /\ wpc' = [wpc EXCEPT ![w] = pc]
        /\ chan' = [chan EXCEPT ![w] = <<>>]
        /\ lastSent' = [lastSent EXCEPT ![w] = Head(chan[w])]
        /\ UNCHANGED <<mu, shutdown, statusMap, updates, job, service>>
    BY <1>2 DEF Take
  <2>2. pc \in {"loop", "send"} /\ <<>> \in Slots /\ Head(chan[w]) \in Offers
    BY <2>1, SlotFacts DEF SInv, CoreTypes
  <2> HIDE DEF pc
  <2>3. CoreTypes'
    BY <2>1, <2>2 DEF SInv, CoreTypes
  <2>4. Locked' /\ CurrentPut' /\ Closing' /\ PutNeverWaits'
    BY <2>1 DEF SInv, CoreTypes, Locked, CurrentPut, Closing, PutNeverWaits
  <2>5. Registered'
    BY <2>1, <2>2 DEF SInv, CoreTypes, Registered
  <2> QED BY <2>3, <2>4, <2>5 DEF SInv
<1>3. CASE Send(w) \/ ContextDone(w)
  <2>1. PICK pc \in {"loop", "leave"} :
          /\ wpc[w] \in {"loop", "send"}
          /\ wpc' = [wpc EXCEPT ![w] = pc]
          /\ UNCHANGED <<mu, shutdown, statusMap, updates, job, chan, service, lastSent>>
    BY <1>3 DEF Send, ContextDone
  <2>2. CoreTypes'
    BY <2>1 DEF SInv, CoreTypes
  <2>3. Locked' /\ CurrentPut' /\ Closing' /\ PutNeverWaits'
    BY <2>1 DEF SInv, Locked, CurrentPut, Closing, PutNeverWaits
  <2>4. Registered'
    BY <2>1 DEF SInv, CoreTypes, Registered
  <2> QED BY <2>2, <2>3, <2>4 DEF SInv
<1>4. CASE Leave(w)
  <2>1. /\ wpc[w] = "leave" /\ ~mu
        /\ updates' = updates \ {w}
        /\ wpc' = [wpc EXCEPT ![w] = "idle"]
        /\ chan' = [chan EXCEPT ![w] = <<>>]
        /\ service' = [service EXCEPT ![w] = Overall]
        /\ lastSent' = [lastSent EXCEPT ![w] = None]
        /\ UNCHANGED <<mu, shutdown, statusMap, job>>
    BY <1>4 DEF Leave, Forget
  <2>2. job = NoJob /\ job.rest = {} /\ job.put = None
    BY <2>1 DEF SInv, Locked, NoJob, Job
  <2>3. CoreTypes'
    BY <2>1, SlotFacts, ServerAssumption DEF SInv, CoreTypes
  <2>4. Locked' /\ CurrentPut' /\ Closing' /\ PutNeverWaits'
    BY <2>1, <2>2 DEF SInv, Locked, CurrentPut, Closing, PutNeverWaits
  <2>5. Registered'
    BY <2>1 DEF SInv, CoreTypes, Registered
  <2> QED BY <2>3, <2>4, <2>5 DEF SInv
<1>5. CASE SendApplicationHealth(w)
  <2>1. wpc[w] = "app" /\ w \notin updates /\ chan[w] = <<>> /\ lastSent[w] = None
    BY <1>5 DEF SendApplicationHealth, SInv, Registered
  <2>2. CASE UNCHANGED <<chan, wpc, service, lastSent>>
    BY <1>5, <2>2, SInvStutter DEF SendApplicationHealth, core
  <2>3. CASE Forget(w)
    <3>1. /\ wpc' = [wpc EXCEPT ![w] = "idle"]
          /\ chan' = chan
          /\ service' = [service EXCEPT ![w] = Overall]
          /\ lastSent' = lastSent
          /\ UNCHANGED <<mu, shutdown, statusMap, updates, job>>
      BY <1>5, <2>1, <2>3 DEF SendApplicationHealth, Forget, SInv, CoreTypes
    <3>2. CoreTypes'
      BY <3>1, ServerAssumption DEF SInv, CoreTypes
    <3>3. Locked' /\ Closing' /\ PutNeverWaits'
      BY <3>1 DEF SInv, Locked, Closing, PutNeverWaits
    <3>4. CurrentPut'
      BY <2>1, <3>1 DEF SInv, CoreTypes, Locked, CurrentPut
    <3>5. Registered'
      BY <2>1, <3>1 DEF SInv, CoreTypes, Registered
    <3> QED BY <3>2, <3>3, <3>4, <3>5 DEF SInv
  <2> QED BY <1>5, <2>2, <2>3 DEF SendApplicationHealth
<1> QED BY <1>1, <1>2, <1>3, <1>4, <1>5 DEF Watcher

\* A new stream.
LEMMA SInvAccept ==
  ASSUME SInv, NEW w \in FreeStream, NEW s \in Services, NEW handler \in {"watch", "app"},
         Accept(w, s, handler)
  PROVE  SInv'
<1>1. w \in Streams /\ wpc[w] = "idle" /\ w \notin updates
  BY FreeStreamIdle DEF SInv, Registered
<1>2. /\ wpc' = [wpc EXCEPT ![w] = handler]
      /\ service' = [service EXCEPT ![w] = s]
      /\ UNCHANGED <<mu, shutdown, statusMap, updates, job, chan, lastSent>>
  BY DEF Accept, stateVars
<1>3. CoreTypes'
  BY <1>1, <1>2 DEF SInv, CoreTypes
<1>4. Locked' /\ Closing' /\ PutNeverWaits'
  BY <1>2 DEF SInv, Locked, Closing, PutNeverWaits
<1>5. CurrentPut'
  BY <1>1, <1>2 DEF SInv, CoreTypes, Locked, CurrentPut
<1>6. Registered'
  BY <1>1, <1>2 DEF SInv, CoreTypes, Registered
<1> QED BY <1>3, <1>4, <1>5, <1>6 DEF SInv

\* The agent process ends.
LEMMA SInvStop == AgentStop => SInv'
<1> SUFFICES ASSUME AgentStop PROVE SInv'
  OBVIOUS
<1>1. job' = [st |-> None, todo |-> {}, rest |-> {}, put |-> None]
  BY DEF AgentStop, NoJob, Job
<1>2. CoreTypes'
  <2>1. statusMap' \in [Services -> Statuses \cup {None}]
    BY DEF AgentStop, InitialStatus, Statuses
  <2>2. job' \in Jobs
    BY <1>1 DEF Jobs
  <2> QED BY <2>1, <2>2, ServerAssumption, SlotFacts DEF AgentStop, CoreTypes
<1>3. Locked' /\ CurrentPut' /\ Closing' /\ PutNeverWaits'
  BY <1>1 DEF AgentStop, Locked, CurrentPut, Closing, PutNeverWaits, NoJob, Job
<1>4. Registered'
  BY DEF AgentStop, Registered
<1> QED BY <1>2, <1>3, <1>4 DEF SInv

\* The steps that open no stream leave the core alone.
ClientStep ==
  \/ AgentStart \/ Stop \/ Break \/ \E w \in Streams : Notice(w)
  \/ Connect \/ ConnectLate \/ ConnectError \/ OpenPanic \/ Recv \/ RecvError \/ StopLoop
  \/ (OpenStream /\ UNCHANGED serverVars)

\* A stream is opened, by the monitor or by another client.
NewStream ==
  \E w \in FreeStream, s \in Services, handler \in {"watch", "app"} : Accept(w, s, handler)

\* The monitor and the network do not change the state of the server.
LEMMA ClientStepCore == ClientStep => UNCHANGED core
  BY DEF ClientStep, core, AgentStart, Stop, Break, Notice, Connect, ConnectLate, ConnectError,
     OpenPanic, Recv, RecvError, StopLoop, serverVars, stateVars, watchVars

\* What a step can do to the core.
LEMMA NextCases ==
  ASSUME [Next]_vars
  PROVE  \/ AgentStop \/ StatusCall \/ CallStep \/ NewStream \/ UNCHANGED core
         \/ \E w \in Streams : Watcher(w)
<1>1. CASE MonitorStep
  <2>1. CASE OpenStream
    <3>1. NewStream \/ UNCHANGED serverVars
      BY <2>1, ServerAssumption DEF OpenStream, NewStream
    <3> QED BY <2>1, <3>1, ClientStepCore DEF ClientStep
  <2> QED BY <1>1, <2>1, ClientStepCore DEF MonitorStep, ClientStep
<1>2. ASSUME NEW s \in Services, OtherClient(s) PROVE NewStream
  BY <1>2 DEF OtherClient, NewStream
<1>3. CASE UNCHANGED vars
  BY <1>3 DEF vars, serverVars, stateVars, watchVars, core
<1> QED BY <1>1, <1>2, <1>3, ClientStepCore DEF Next, ClientStep, StreamStep

\* Every step preserves the invariant.
LEMMA SInvStep == SInv /\ [Next]_vars => SInv'
<1> SUFFICES ASSUME SInv, [Next]_vars PROVE SInv'
  OBVIOUS
<1>1. CASE NewStream
  BY <1>1, SInvAccept DEF NewStream
<1> QED BY <1>1, NextCases, SInvStop, SInvCall, SInvCaller, SInvStutter, SInvWatcher

\* The invariant holds in every reachable state.
LEMMA SInvAlways == Spec => []SInv
  BY SInvInit, SInvStep, PTL DEF Spec

\* A call that changes a status never waits for a watcher, however many
\* watchers there are and however slowly their clients read.
THEOREM CallsNeverWait == Spec => []PutNeverWaits
<1>1. SInv => PutNeverWaits
  BY DEF SInv
<1> QED BY <1>1, SInvAlways, PTL

\* A service that is shut down stays so until Resume, whatever calls come.
THEOREM ShutdownHolds == Spec => []ShutdownSticks
<1>1. SInv => ShutdownSticks
  <2> SUFFICES ASSUME SInv, ~mu, shutdown, NEW s \in Services PROVE Check(s) # "SERVING"
    BY DEF ShutdownSticks
  <2>1. job.todo = {}
    BY DEF SInv, Locked, NoJob, Job
  <2> QED BY <2>1 DEF SInv, Closing, Check
<1> QED BY <1>1, SInvAlways, PTL

-----------------------------------------------------------------------------
(* The service implements the abstract feed *)

\* What the feed sees of the service.
sub   == [w \in Streams |-> IF w \in updates THEN service[w] ELSE None]
offer == [w \in Streams |-> Pending(w)]

\* In the beginning nobody subscribes and nothing is offered.
LEMMA FeedInit == Init => Feed!Init
<1> SUFFICES ASSUME Init PROVE Feed!Init
  OBVIOUS
<1>1. updates = {} /\ chan = [w \in Streams |-> <<>>] /\ job.put = None
  BY DEF Init, ServerInit, NoJob, Job
<1>2. \A w \in Streams : Pending(w) = None
  BY <1>1, ServerAssumption DEF Pending
<1> QED BY <1>1, <1>2 DEF Init, ServerInit, Feed!Init

\* Steps that change nothing that the feed sees.
LEMMA FeedStutter ==
  ASSUME UNCHANGED <<statusMap, shutdown, sub, offer, lastSent>>
  PROVE  UNCHANGED Feed!feedVars
  BY DEF sub, offer, Feed!feedVars

\* A new process is a new feed.
LEMMA FeedStop ==
  ASSUME AgentStop PROVE Feed!Next
<1>1. updates' = {} /\ chan' = [w \in Streams |-> <<>>] /\ job'.put = None
  BY DEF AgentStop, NoJob, Job
<1>2. \A w \in Streams : Pending(w)' = None
  BY <1>1, ServerAssumption DEF Pending
<1>3. Feed!Restart
  BY <1>1, <1>2 DEF AgentStop, Feed!Restart, Feed!Init
<1> QED BY <1>3 DEF Feed!Next

\* The mutex is taken: the feed may be closed or opened.
LEMMA FeedCall ==
  ASSUME SInv, StatusCall
  PROVE  Feed!OpenOrClose \/ UNCHANGED Feed!feedVars
<1>1. PICK todo, st : Begin(todo, st)
  BY DEF StatusCall, SetServingStatus, Shutdown, Resume
<1>2. shutdown' \in BOOLEAN
  BY DEF StatusCall, SetServingStatus, Shutdown, Resume, SInv, CoreTypes
<1>3. UNCHANGED <<statusMap, updates, chan, service, lastSent>>
  BY <1>1 DEF Begin, watchVars
<1>4. job.put = None /\ job'.put = None
  BY <1>1 DEF Begin, SInv, Locked, NoJob, Job
<1>5. \A w \in Streams : Pending(w)' = Pending(w)
  BY <1>3, <1>4, ServerAssumption DEF Pending
<1> QED BY <1>2, <1>3, <1>5 DEF Feed!OpenOrClose

\* A call sets a service, offers its status to a watcher that it drains, and
\* puts what it has offered.
LEMMA FeedCaller ==
  ASSUME SInv, CallStep
  PROVE  Feed!Next \/ UNCHANGED Feed!feedVars
<1> USE DEF watchVars
<1>1. CASE SetServingStatusLocked
  <2>1. PICK s \in job.todo :
          /\ statusMap' = [statusMap EXCEPT ![s] = job.st]
          /\ job' = Job(job.st, job.todo \ {s}, {w \in updates : service[w] = s}, None)
    BY <1>1 DEF SetServingStatusLocked
  <2>2. mu /\ s \in Services /\ job.st \in Statuses /\ job.put = None /\ job'.put = None
    BY <1>1, <2>1 DEF SInv, Locked, CoreTypes, Jobs, NoJob, Job, SetServingStatusLocked
  <2>3. UNCHANGED <<shutdown, updates, chan, service, lastSent>>
    BY <1>1 DEF SetServingStatusLocked
  <2>4. \A w \in Streams : Pending(w)' = Pending(w)
    BY <2>2, <2>3, ServerAssumption DEF Pending
  <2>5. shutdown => job.st = "NOT_SERVING"
    BY <2>1 DEF SInv, Closing
  <2>6. Feed!Change(s, job.st)
    BY <2>1, <2>3, <2>4, <2>5 DEF Feed!Change
  <2> QED BY <2>2, <2>6 DEF Feed!Next
<1>2. CASE DrainUpdate
  <2>1. PICK w \in job.rest : /\ chan' = [chan EXCEPT ![w] = <<>>]
                              /\ job' = Job(job.st, job.todo, job.rest, w)
    BY <1>2 DEF DrainUpdate
  <2>2. /\ w \in updates /\ w \in Streams /\ job.put = None
        /\ job'.put = w /\ job'.st = job.st
    BY <1>2, <2>1 DEF SInv, Locked, CoreTypes, DrainUpdate, Job
  <2>3. UNCHANGED <<statusMap, shutdown, updates, service, lastSent>>
    BY <1>2 DEF DrainUpdate
  <2>4. job.st \in Statuses /\ service[w] \in Services /\ statusMap[service[w]] = job.st
    BY <2>1, <2>2 DEF SInv, CoreTypes, Locked, CurrentPut, NoJob, Job
  <2>5. Feed!Current(service[w]) = job.st
    BY <2>4, ServerAssumption DEF Feed!Current, Statuses
  <2>6. Pending(w)' = job.st
    BY <2>2 DEF Pending
  <2>7. \A v \in Streams : v # w => Pending(v)' = Pending(v)
    BY <2>1, <2>2, ServerAssumption DEF Pending, SInv, CoreTypes
  <2>8. Feed!Offer(w)
    <3>1. sub[w] = service[w] /\ sub[w] # None
      BY <2>2, <2>4, ServerAssumption DEF sub
    <3>2. offer' = [offer EXCEPT ![w] = Feed!Current(sub[w])]
      BY <2>5, <2>6, <2>7, <3>1 DEF offer
    <3> QED BY <2>3, <3>1, <3>2 DEF sub, offer, Feed!Offer
  <2> QED BY <2>2, <2>8 DEF Feed!Next
<1>3. CASE PutUpdate
  <2>0. PICK w : w = job.put
    OBVIOUS
  <2>1. /\ chan' = [chan EXCEPT ![w] = <<job.st>>] /\ w # None
        /\ job' = Job(job.st, job.todo, job.rest \ {w}, None)
        /\ UNCHANGED <<statusMap, shutdown, updates, service, lastSent>>
    BY <1>3, <2>0 DEF PutUpdate
  <2>2. w \in Streams /\ job'.put = None
    BY <2>0, <2>1 DEF SInv, Locked, CoreTypes, Job
  <2>3. Pending(w)' = job.st /\ Pending(w) = job.st
    BY <2>0, <2>1, <2>2, ServerAssumption DEF Pending, SInv, CoreTypes
  <2>4. \A v \in Streams : v # w => Pending(v)' = Pending(v)
    BY <2>0, <2>1, <2>2, ServerAssumption DEF Pending, SInv, CoreTypes
  <2> QED BY <2>1, <2>3, <2>4 DEF Feed!feedVars
<1>4. CASE Unlock
  <2>1. /\ job.put = None /\ job'.put = None
        /\ UNCHANGED <<statusMap, shutdown, updates, chan, service, lastSent>>
    BY <1>4 DEF Unlock, NoJob, Job, SInv, Locked
  <2>2. \A w \in Streams : Pending(w)' = Pending(w)
    BY <2>1, ServerAssumption DEF Pending
  <2> QED BY <2>1, <2>2 DEF Feed!feedVars
<1> QED BY <1>1, <1>2, <1>3, <1>4 DEF CallStep, Caller

\* A handler registers, takes a status and leaves.
LEMMA FeedWatcher ==
  ASSUME NEW w \in Streams, SInv, Watcher(w)
  PROVE  Feed!Next \/ UNCHANGED Feed!feedVars
<1> USE DEF stateVars
<1>1. CASE Watch(w)
  <2> DEFINE st == IF service[w] \in Known THEN statusMap[service[w]] ELSE "SERVICE_UNKNOWN"
  <2>1. /\ ~mu /\ wpc[w] = "watch"
        /\ updates' = updates \cup {w}
        /\ chan' = [chan EXCEPT ![w] = <<st>>]
        /\ UNCHANGED <<statusMap, shutdown, job, service, lastSent>>
    BY <1>1 DEF Watch
  <2>2. service[w] \in Services /\ w \notin updates /\ job.put = None /\ job'.put = None
    BY <2>1 DEF SInv, CoreTypes, Registered, Locked, NoJob, Job
  <2>3. st = Feed!Current(service[w])
    BY <2>2 DEF Known, Feed!Current
  <2>4. Pending(w)' = st
    BY <2>1, <2>2, ServerAssumption DEF Pending, SInv, CoreTypes
  <2> HIDE DEF st
  <2>5. \A v \in Streams : v # w => Pending(v)' = Pending(v)
    BY <2>1, <2>2, ServerAssumption DEF Pending, SInv, CoreTypes
  <2>6. sub[w] = None /\ sub' = [sub EXCEPT ![w] = service[w]]
    BY <2>1, <2>2 DEF sub
  <2>7. offer' = [offer EXCEPT ![w] = Feed!Current(service[w])]
    BY <2>3, <2>4, <2>5 DEF offer
  <2>8. PICK s \in Services : s = service[w]
    BY <2>2
  <2>9. Feed!Subscribe(w, s)
    BY <2>1, <2>6, <2>7, <2>8 DEF sub, offer, Feed!Subscribe
  <2> QED BY <2>9 DEF Feed!Next
<1>2. CASE Take(w)
  <2>1. /\ chan[w] # <<>> /\ chan' = [chan EXCEPT ![w] = <<>>]
        /\ lastSent' = [lastSent EXCEPT ![w] = Head(chan[w])]
        /\ UNCHANGED <<statusMap, shutdown, updates, job, service>>
    BY <1>2 DEF Take
  <2>2. job.put # w /\ job'.put # w
    BY <2>1, ServerAssumption DEF SInv, PutNeverWaits
  <2>3. Pending(w) = Head(chan[w]) /\ Pending(w) # None /\ Pending(w)' = None
    BY <2>1, <2>2, SlotFacts, ServerAssumption DEF Pending, SInv, CoreTypes, Offers
  <2>4. \A v \in Streams : v # w => Pending(v)' = Pending(v)
    BY <2>1 DEF Pending, SInv, CoreTypes
  <2>5. /\ offer[w] # None /\ offer' = [offer EXCEPT ![w] = None]
        /\ lastSent' = [lastSent EXCEPT ![w] = offer[w]]
    BY <2>1, <2>3, <2>4 DEF offer
  <2>6. Feed!Look(w)
    BY <2>1, <2>5 DEF offer, Feed!Look
  <2> QED BY <2>6 DEF Feed!Next
<1>3. CASE Send(w) \/ ContextDone(w)
  <2>1. UNCHANGED <<statusMap, shutdown, updates, job, chan, service, lastSent>>
    BY <1>3 DEF Send, ContextDone
  <2> QED BY <2>1 DEF Pending, Feed!feedVars
<1>4. CASE Leave(w)
  <2>1. /\ ~mu /\ updates' = updates \ {w}
        /\ chan' = [chan EXCEPT ![w] = <<>>]
        /\ service' = [service EXCEPT ![w] = Overall]
        /\ lastSent' = [lastSent EXCEPT ![w] = None]
        /\ UNCHANGED <<statusMap, shutdown, job>>
    BY <1>4 DEF Leave, Forget
  <2>2. job.put = None /\ job'.put = None
    BY <2>1 DEF SInv, Locked, NoJob, Job
  <2>3. Pending(w)' = None /\ \A v \in Streams : v # w => Pending(v)' = Pending(v)
    BY <2>1, <2>2, ServerAssumption DEF Pending, SInv, CoreTypes
  <2>4. sub' = [sub EXCEPT ![w] = None] /\ offer' = [offer EXCEPT ![w] = None]
    BY <2>1, <2>3 DEF sub, offer, SInv, CoreTypes
  <2>5. Feed!Unsubscribe(w)
    BY <2>1, <2>4 DEF sub, offer, Feed!Unsubscribe
  <2> QED BY <2>5 DEF Feed!Next
<1>5. CASE SendApplicationHealth(w)
  <2>1. w \notin updates /\ chan[w] = <<>> /\ lastSent[w] = None
    BY <1>5 DEF SendApplicationHealth, SInv, Registered
  <2>2. UNCHANGED <<statusMap, shutdown, updates, job, chan, lastSent>>
    BY <1>5, <2>1 DEF SendApplicationHealth, Forget, SInv, CoreTypes
  <2>3. \A v \in updates : service'[v] = service[v]
    BY <1>5, <2>1 DEF SendApplicationHealth, Forget, SInv, CoreTypes
  <2> QED BY <2>2, <2>3, FeedStutter DEF sub, offer, Pending
<1> QED BY <1>1, <1>2, <1>3, <1>4, <1>5 DEF Watcher

\* Every step of the agent and its clients is a step of the feed or none.
LEMMA FeedStep ==
  ASSUME SInv, [Next]_vars
  PROVE  [Feed!Next]_(Feed!feedVars)
<1>1. CASE NewStream
  <2>1. PICK w \in FreeStream, s \in Services, handler \in {"watch", "app"} :
          Accept(w, s, handler)
    BY <1>1 DEF NewStream
  <2>2. w \in Streams /\ w \notin updates
    BY FreeStreamIdle DEF SInv, Registered
  <2>3. /\ service' = [service EXCEPT ![w] = s]
        /\ UNCHANGED <<statusMap, shutdown, updates, job, chan, lastSent>>
    BY <2>1 DEF Accept, stateVars
  <2>4. \A v \in updates : service'[v] = service[v]
    BY <2>2, <2>3 DEF SInv, CoreTypes
  <2>5. UNCHANGED Feed!feedVars
    BY <2>3, <2>4, FeedStutter DEF sub, offer, Pending
  <2> QED BY <2>5
<1>2. CASE UNCHANGED core
  <2>1. UNCHANGED Feed!feedVars
    BY <1>2, FeedStutter DEF core, sub, offer, Pending
  <2> QED BY <2>1
<1>3. CASE StatusCall
  BY <1>3, FeedCall DEF Feed!Next
<1> QED BY <1>1, <1>2, <1>3, NextCases, FeedStop, FeedCaller, FeedWatcher

\* The health service implements the abstract feed, with any number of
\* services and watchers, and with restarts of the agent.
THEOREM FeedImplemented == Spec => FeedSpec
<1>1. SInv /\ [Next]_vars => [Feed!Next]_(Feed!feedVars)
  BY FeedStep
<1> QED BY <1>1, FeedInit, SInvAlways, PTL DEF Spec, FeedSpec, Feed!Spec

-----------------------------------------------------------------------------
(* Types *)

\* What can be under way to a client.
Messages == Offers \cup {None, HappyPodStatus}

\* The part of the type invariant that SInv does not say.
ClientTypes ==
  /\ up \in BOOLEAN
  /\ wire \in [Streams -> Seq(Messages)]
  /\ \A w \in Streams : Len(wire[w]) <= Window
  /\ cpc \in {"connect", "open", "recv", "stopped", "panic"}
  /\ conn \in {"none", "ready", "broken"}
  /\ cpc = "recv" => stream \in Streams
  /\ events \in 0 .. MaxEvents

\* The steps of the health service send within the window of the stream.
LEMMA WatcherTypes ==
  ASSUME SInv, ClientTypes, NEW w \in Streams, StreamStep(w)
  PROVE  ClientTypes'
<1> USE ServerAssumption DEF StreamStep, clientVars, ClientTypes
<1>1. UNCHANGED <<up, cpc, conn, stream, events>>
  BY DEF Watcher, Watch, Take, Send, ContextDone, Leave, SendApplicationHealth
<1>2. \/ UNCHANGED wire
      \/ wire' = [wire EXCEPT ![w] = <<>>]
      \/ \E x \in Messages : Len(wire[w]) < Window /\ wire' = [wire EXCEPT ![w] = Append(@, x)]
  <2>1. lastSent[w] \in Messages /\ HappyPodStatus \in Messages
    BY DEF SInv, CoreTypes, Messages
  <2> QED
    BY <2>1 DEF Watcher, Watch, Take, Send, ContextDone, Leave, SendApplicationHealth, Forget
<1>3. CASE wire' = [wire EXCEPT ![w] = <<>>]
  BY <1>1, <1>3
<1>4. ASSUME NEW x \in Messages, Len(wire[w]) < Window, wire' = [wire EXCEPT ![w] = Append(@, x)]
      PROVE  ClientTypes'
  <2>1. wire[w] \in Seq(Messages) /\ Len(wire[w]) \in Nat
    OBVIOUS
  <2>2. Append(wire[w], x) \in Seq(Messages) /\ Len(Append(wire[w], x)) = Len(wire[w]) + 1
    BY <1>4, <2>1
  <2> QED BY <1>1, <1>4, <2>1, <2>2
<1> QED BY <1>1, <1>2, <1>3, <1>4

\* The watch loop is where its connection and its stream allow it to be.
LEMMA MonitorTypes ==
  ASSUME ClientTypes, MonitorStep
  PROVE  ClientTypes'
<1> USE ServerAssumption DEF ClientTypes
<1>1. ASSUME UNCHANGED <<wire, up>>, events' \in 0 .. MaxEvents,
             cpc' \in {"connect", "open", "stopped", "panic"},
             conn' \in {"none", "ready", "broken"}
      PROVE  ClientTypes'
  BY <1>1
<1>2. CASE Recv
  <2>1. /\ stream \in Streams /\ wire[stream] # <<>>
        /\ wire' = [wire EXCEPT ![stream] = Tail(@)]
        /\ UNCHANGED <<up, cpc, conn, stream, events>>
    BY <1>2 DEF Recv
  <2>2. wire[stream] \in Seq(Messages) /\ Len(wire[stream]) \in Nat
    BY <2>1
  <2>3. Tail(wire[stream]) \in Seq(Messages) /\ Len(Tail(wire[stream])) = Len(wire[stream]) - 1
    BY <2>1, <2>2
  <2> QED BY <2>1, <2>2, <2>3
<1>3. CASE OpenStream /\ cpc' = "recv"
  <2>1. stream' \in Streams /\ UNCHANGED <<wire, up, conn, events>>
    BY <1>3, FreeStreamIdle DEF OpenStream, FailedResult, Gone, Accept
  <2> QED BY <1>3, <2>1
<1>4. CASE OpenStream /\ cpc' # "recv"
  BY <1>1, <1>4 DEF OpenStream, FailedResult, Gone, NewVkvmaPodClient, serverVars, watchVars
<1>5. CASE Connect \/ ConnectLate \/ ConnectError \/ OpenPanic \/ RecvError \/ StopLoop
  BY <1>1, <1>5 DEF Connect, ConnectLate, ConnectError, OpenPanic, RecvError, StopLoop,
     FailedResult, Gone, NewVkvmaPodClient, Fault, serverVars, watchVars
<1> QED BY <1>2, <1>3, <1>4, <1>5 DEF MonitorStep

\* The variables of the agent keep their types: no watcher's channel holds more
\* than one status, no stream more than its window, and the watch loop reads
\* only when it has a stream.
THEOREM TypeCorrect == Spec => []TypeOK
<1> USE ServerAssumption
<1>0. <<>> \in Seq(Messages) /\ Len(<<>>) = 0
  OBVIOUS
<1>1. Init => ClientTypes
  <2> SUFFICES ASSUME Init PROVE ClientTypes
    OBVIOUS
  <2>1. wire = [w \in Streams |-> <<>>] /\ events = 0
    BY DEF Init, ServerInit
  <2>2. wire \in [Streams -> Seq(Messages)] /\ \A w \in Streams : Len(wire[w]) <= Window
    BY <1>0, <2>1
  <2>3. up \in BOOLEAN
    BY DEF Init
  <2>4. events \in 0 .. MaxEvents
    BY <2>1
  <2> QED BY <2>2, <2>3, <2>4 DEF Init, ClientTypes
<1>2. SInv /\ ClientTypes /\ [Next]_vars => ClientTypes'
  <2> SUFFICES ASSUME SInv, ClientTypes, [Next]_vars PROVE ClientTypes'
    OBVIOUS
  <2>1. CASE AgentStart \/ Stop \/ Break
    <3>0. UNCHANGED events \/ (events < MaxEvents /\ events' = events + 1)
      BY <2>1 DEF AgentStart, Stop, Break, Fault
    <3>1. events' \in 0 .. MaxEvents
      BY <3>0 DEF ClientTypes
    <3>2. conn' \in {"none", "ready", "broken"}
      BY <2>1 DEF AgentStart, Stop, Break, clientVars, ClientTypes
    <3>3. UNCHANGED <<wire, cpc, stream>>
      BY <2>1 DEF AgentStart, Stop, Break, serverVars, watchVars, clientVars
    <3>4. up' \in BOOLEAN
      BY <2>1 DEF AgentStart, Stop, Break, ClientTypes
    <3> QED BY <3>1, <3>2, <3>3, <3>4 DEF ClientTypes
  <2>2. CASE AgentStop
    <3>1. wire' \in [Streams -> Seq(Messages)] /\ \A w \in Streams : Len(wire'[w]) <= Window
      BY <1>0, <2>2 DEF AgentStop
    <3>2. events < MaxEvents /\ events' = events + 1
      BY <2>2 DEF AgentStop, Fault
    <3>3. events' \in 0 .. MaxEvents
      BY <3>2 DEF ClientTypes
    <3>4. up' \in BOOLEAN
      BY <2>2 DEF AgentStop
    <3>5. UNCHANGED <<cpc, stream>> /\ conn' \in {"none", "ready", "broken"}
      BY <2>2 DEF AgentStop, ClientTypes
    <3> QED BY <3>1, <3>3, <3>4, <3>5 DEF ClientTypes
  <2>3. CASE StatusCall \/ CallStep
    <3>1. UNCHANGED <<wire, up, cpc, conn, stream>>
      BY <2>3 DEF StatusCall, SetServingStatus, Shutdown, Resume, Begin, CallStep, Caller,
         SetServingStatusLocked, DrainUpdate, PutUpdate, Unlock, watchVars, clientVars
    <3>2. UNCHANGED events \/ (events < MaxEvents /\ events' = events + 1)
      BY <2>3 DEF StatusCall, SetServingStatus, Shutdown, Resume, Begin, CallStep, Caller,
         SetServingStatusLocked, DrainUpdate, PutUpdate, Unlock
    <3> QED BY <3>1, <3>2 DEF ClientTypes
  <2>4. CASE MonitorStep
    BY <2>4, MonitorTypes
  <2>5. ASSUME NEW w \in Streams, StreamStep(w) PROVE ClientTypes'
    BY <2>5, WatcherTypes
  <2>6. ASSUME NEW w \in Streams, Notice(w) PROVE ClientTypes'
    BY <2>6 DEF Notice, clientVars, ClientTypes
  <2>7. ASSUME NEW s \in Services, OtherClient(s) PROVE ClientTypes'
    BY <2>7 DEF OtherClient, Accept, Fault, clientVars, ClientTypes
  <2>8. CASE UNCHANGED vars
    BY <2>8 DEF vars, serverVars, watchVars, clientVars, ClientTypes
  <2> QED
    BY <2>1, <2>2, <2>3, <2>4, <2>5, <2>6, <2>7, <2>8 DEF Next
<1>3. SInv /\ ClientTypes => TypeOK
  BY SlotFacts DEF SInv, CoreTypes, Locked, ClientTypes, TypeOK, Jobs
<1> QED
  BY <1>1, <1>2, <1>3, SInvAlways, PTL DEF Spec
=============================================================================
