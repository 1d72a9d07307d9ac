---------------------------- MODULE HealthServer ----------------------------
(***************************************************************************)
(* The health service of the example agent (examples/vkvmagent/             *)
(* health_svc.go).  Goroutines that change a status hold the mutex while    *)
(* they put the status into the channel of every watcher, a channel with    *)
(* one slot that they empty first.  A Watch goroutine takes statuses from   *)
(* its channel, without the mutex, and sends them to its client.            *)
(***************************************************************************)
EXTENDS Integers, Sequences

CONSTANTS
  Services,
  Overall,    \* the service "", which is there from the start
  Streams,    \* streams of Watch calls; an ended stream's name is used again
  None,
  Window,     \* bound: messages under way to a client that does not read
  MaxEvents   \* bound: calls that change a status, and what befalls the agent

ASSUME ServerAssumption ==
  Overall \in Services /\ None \notin Services /\ None \notin Streams
  /\ None \notin {"SERVING", "NOT_SERVING", "SERVICE_UNKNOWN"}
  /\ Window \in Nat \ {0} /\ MaxEvents \in Nat

VARIABLES
  mu,         \* whether Server.mu is held by a call that changes a status
  shutdown, statusMap,
  updates,    \* the streams whose channel is registered
  chan,       \* the channel of a stream, a sequence of at most one status
  job,        \* what the call that holds mu still has to do
  wpc,        \* where the Watch goroutine of a stream is
  service,    \* the service that a stream watches
  lastSent,   \* lastSentStatus, None before the first
  wire,       \* statuses sent and not yet read by the client
  cancelled,  \* the stream's context is done
  events

stateVars  == <<mu, shutdown, statusMap, updates, job>>
watchVars  == <<chan, wpc, service, lastSent, wire, cancelled>>
serverVars == <<stateVars, watchVars>>

Statuses == {"SERVING", "NOT_SERVING"}
Known    == {s \in Services : statusMap[s] # None}

\* Check: the status of a service, if it is known.
Check(s) == IF s \in Known THEN statusMap[s] ELSE "NotFound"

\* A call that sets the services todo to st, and has the watchers rest of the
\* one that it has just set to tell, put next.
Job(st, todo, rest, put) == [st |-> st, todo |-> todo, rest |-> rest, put |-> put]
NoJob == Job(None, {}, {}, None)

\* NewServer.
InitialStatus == [s \in Services |-> IF s = Overall THEN "SERVING" ELSE None]

ServerInit ==
  /\ mu = FALSE /\ shutdown = FALSE
  /\ statusMap = InitialStatus
  /\ updates = {} /\ job = NoJob /\ events = 0
  /\ chan = [w \in Streams |-> <<>>]
  /\ wpc = [w \in Streams |-> "idle"]
  /\ service = [w \in Streams |-> Overall]
  /\ lastSent = [w \in Streams |-> None]
  /\ wire = [w \in Streams |-> <<>>]
  /\ cancelled = [w \in Streams |-> FALSE]

-----------------------------------------------------------------------------
(* Calls that change a status *)

\* The mutex is taken to set the services todo to st.
Begin(todo, st) ==
  /\ ~mu /\ events < MaxEvents
  /\ events' = events + 1
  /\ mu' = TRUE
  /\ job' = Job(st, todo, {}, None)
  /\ UNCHANGED <<statusMap, updates, watchVars>>

\* Mutant: a status is changed although the service is shut down.
SetServingStatusAnyway(s, st) == Begin({s}, st) /\ UNCHANGED shutdown

\* After Shutdown the call has no effect.
SetServingStatus(s, st) ==
  /\ Begin(IF shutdown THEN {} ELSE {s}, st)
  /\ UNCHANGED shutdown

Shutdown == Begin(Known, "NOT_SERVING") /\ shutdown' = TRUE

Resume == Begin(Known, "SERVING") /\ shutdown' = FALSE

\* setServingStatusLocked for one service: the map ...
SetServingStatusLocked ==
  /\ job.rest = {}
  /\ \E s \in job.todo :
       /\ statusMap' = [statusMap EXCEPT ![s] = job.st]
       /\ job' = Job(job.st, job.todo \ {s}, {w \in updates : service[w] = s}, None)
  /\ UNCHANGED <<mu, shutdown, updates, events, watchVars>>

\* Mutant: a status that the watcher has not taken yet stays.
DrainNothing ==
  /\ job.put = None
  /\ \E w \in job.rest : job' = Job(job.st, job.todo, job.rest, w)
  /\ UNCHANGED <<mu, shutdown, statusMap, updates, events, watchVars>>

\* ... and for every watcher, what it has not taken yet is dropped ...
DrainUpdate ==
  /\ job.put = None
  /\ \E w \in job.rest :
       /\ chan' = [chan EXCEPT ![w] = <<>>]
       /\ job' = Job(job.st, job.todo, job.rest, w)
  /\ UNCHANGED <<mu, shutdown, statusMap, updates, events, wpc, service, lastSent, wire, cancelled>>

\* ... and the status is put, which waits for an empty channel.
PutUpdate ==
  /\ job.put # None /\ chan[job.put] = <<>>
  /\ chan' = [chan EXCEPT ![job.put] = <<job.st>>]
  /\ job' = Job(job.st, job.todo, job.rest \ {job.put}, None)
  /\ UNCHANGED <<mu, shutdown, statusMap, updates, events, wpc, service, lastSent, wire, cancelled>>

Unlock ==
  /\ mu /\ job.todo = {} /\ job.rest = {}
  /\ mu' = FALSE /\ job' = NoJob
  /\ UNCHANGED <<shutdown, statusMap, updates, events, watchVars>>

-----------------------------------------------------------------------------
(* Watch *)

\* gRPC starts the handler of a new stream.
Accept(w, s, handler) ==
  /\ wpc[w] = "idle"
  /\ wpc' = [wpc EXCEPT ![w] = handler]
  /\ service' = [service EXCEPT ![w] = s]
  /\ UNCHANGED <<stateVars, chan, lastSent, wire, cancelled>>

\* Mutant: the initial status is not put into the channel.
WatchSilently(w) ==
  /\ wpc[w] = "watch" /\ ~mu
  /\ wpc' = [wpc EXCEPT ![w] = "loop"]
  /\ updates' = updates \cup {w}
  /\ UNCHANGED <<mu, shutdown, statusMap, job, events, chan, service, lastSent, wire, cancelled>>

\* With the mutex: the initial status is put and the channel registered.
Watch(w) ==
  /\ wpc[w] = "watch" /\ ~mu
  /\ wpc' = [wpc EXCEPT ![w] = "loop"]
  /\ updates' = updates \cup {w}
  /\ chan' = [chan EXCEPT ![w] =
                <<IF service[w] \in Known THEN statusMap[service[w]] ELSE "SERVICE_UNKNOWN">>]
  /\ UNCHANGED <<mu, shutdown, statusMap, job, events, service, lastSent, wire, cancelled>>

\* A status is taken; one that was sent last is skipped.
Take(w) ==
  /\ wpc[w] = "loop" /\ chan[w] # <<>>
  /\ chan' = [chan EXCEPT ![w] = <<>>]
  /\ lastSent' = [lastSent EXCEPT ![w] = Head(chan[w])]
  /\ wpc' = [wpc EXCEPT ![w] = IF lastSent[w] = Head(chan[w]) THEN "loop" ELSE "send"]
  /\ UNCHANGED <<stateVars, events, service, wire, cancelled>>

\* Mutant: an error of Send is ignored.
SendIgnoringErrors(w) ==
  /\ wpc[w] = "send"
  /\ \/ /\ ~cancelled[w] /\ Len(wire[w]) < Window
        /\ wire' = [wire EXCEPT ![w] = Append(@, lastSent[w])]
     \/ cancelled[w] /\ UNCHANGED wire
  /\ wpc' = [wpc EXCEPT ![w] = IF cancelled[w] THEN "send" ELSE "loop"]
  /\ UNCHANGED <<stateVars, events, chan, service, lastSent, cancelled>>

\* stream.Send waits while the client does not read; on a stream that is
\* cancelled it fails.
Send(w) ==
  /\ wpc[w] = "send"
  /\ \/ /\ ~cancelled[w] /\ Len(wire[w]) < Window
        /\ wire' = [wire EXCEPT ![w] = Append(@, lastSent[w])]
        /\ wpc' = [wpc EXCEPT ![w] = "loop"]
     \/ /\ cancelled[w]
        /\ wpc' = [wpc EXCEPT ![w] = "leave"]
        /\ UNCHANGED wire
  /\ UNCHANGED <<stateVars, events, chan, service, lastSent, cancelled>>

ContextDone(w) ==
  /\ wpc[w] = "loop" /\ cancelled[w]
  /\ wpc' = [wpc EXCEPT ![w] = "leave"]
  /\ UNCHANGED <<stateVars, events, chan, service, lastSent, wire, cancelled>>

\* The stream is over.
Forget(w) ==
  /\ wpc' = [wpc EXCEPT ![w] = "idle"]
  /\ chan' = [chan EXCEPT ![w] = <<>>]
  /\ service' = [service EXCEPT ![w] = Overall]
  /\ lastSent' = [lastSent EXCEPT ![w] = None]
  /\ wire' = [wire EXCEPT ![w] = <<>>]
  /\ cancelled' = [cancelled EXCEPT ![w] = FALSE]

\* What the example reports of every application.
HappyPodStatus == "PodRunning"

\* WatchApplicationHealth of the application service: a status again and again
\* until it cannot be sent.
SendApplicationHealth(w) ==
  /\ wpc[w] = "app"
  /\ \/ /\ ~cancelled[w] /\ Len(wire[w]) < Window
        /\ wire' = [wire EXCEPT ![w] = Append(@, HappyPodStatus)]
        /\ UNCHANGED <<chan, wpc, service, lastSent, cancelled>>
     \/ cancelled[w] /\ Forget(w)
  /\ UNCHANGED <<stateVars, events>>

\* Mutant: the deferred function does not take the mutex.
LeaveUnlocked(w) ==
  /\ wpc[w] = "leave"
  /\ updates' = updates \ {w}
  /\ Forget(w)
  /\ UNCHANGED <<mu, shutdown, statusMap, job, events>>

\* The deferred function, which takes the mutex.
Leave(w) ==
  /\ wpc[w] = "leave" /\ ~mu
  /\ updates' = updates \ {w}
  /\ Forget(w)
  /\ UNCHANGED <<mu, shutdown, statusMap, job, events>>

-----------------------------------------------------------------------------
(* The steps of the server, and its promise *)

Caller ==
  SetServingStatusLocked \/ DrainUpdate \/ PutUpdate \/ Unlock

Watcher(w) ==
  Watch(w) \/ Take(w) \/ Send(w) \/ ContextDone(w) \/ Leave(w) \/ SendApplicationHealth(w)

\* The status that a stream has yet to take: the one that is being put, or
\* what is in its channel.
Pending(w) ==
  IF job.put = w THEN job.st
  ELSE IF chan[w] # <<>> THEN Head(chan[w]) ELSE None

Feed == INSTANCE StatusFeed WITH
  Subscribers <- Streams,
  Unknown     <- "SERVICE_UNKNOWN",
  First       <- InitialStatus,
  status      <- statusMap,
  closed      <- shutdown,
  sub         <- [w \in Streams |-> IF w \in updates THEN service[w] ELSE None],
  offer       <- [w \in Streams |-> Pending(w)],
  shown       <- lastSent
=============================================================================
