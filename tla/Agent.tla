-------------------------------- MODULE Agent --------------------------------
(***************************************************************************)
(* The example agent (examples/vkvmagent) and the provider's connections to *)
(* it: the two watching monitors of a pod, each of which makes a new        *)
(* VkvmaClient whenever it needs a stream (internal/health/health.go,       *)
(* internal/vkvmaclient).  Connections break, dials time out, the agent     *)
(* stops and starts again, and the monitors are stopped.                    *)
(***************************************************************************)
EXTENDS HealthServer

CONSTANT Faults   \* what may go wrong

FaultKinds == {"break", "stop", "dial", "late", "other"}

ASSUME AgentAssumption == Faults \subseteq FaultKinds

VARIABLES
  up,         \* the agent listens and serves
  subject,    \* what the monitor watches: "vkvma" or "app"
  cpc,        \* where its watch loop is
  done,       \* its context is done
  conn,       \* VkvmaConnection.connection
  stream,     \* its stream, or None
  report      \* the last result given to the check handler: "failed", or the
              \* status that it was made from

clientVars == <<subject, cpc, done, conn, stream, report>>
vars == <<serverVars, events, up, clientVars>>

Init ==
  /\ ServerInit
  /\ up = FALSE
  /\ subject \in {"vkvma", "app"}
  /\ cpc = "connect" /\ done = FALSE
  /\ conn = "none" /\ stream = None
  /\ report = None

\* A stream that is not in use, if there is one; which makes no difference.
FreeStream ==
  LET free == {w \in Streams : wpc[w] = "idle"} IN
  IF free = {} THEN {} ELSE {CHOOSE w \in free : TRUE}

Fault(kind) ==
  /\ kind \in Faults /\ events < MaxEvents
  /\ events' = events + 1

-----------------------------------------------------------------------------
(* The agent process *)

\* main: listen, register the two services, serve.
AgentStart ==
  /\ ~up /\ up' = TRUE
  /\ UNCHANGED <<events, serverVars, clientVars>>

\* The process ends, or Serve fails: main then sets a status that nobody can
\* read any more, and returns.
AgentStop ==
  /\ up /\ Fault("stop")
  /\ up' = FALSE
  /\ mu' = FALSE /\ shutdown' = FALSE /\ statusMap' = InitialStatus
  /\ updates' = {} /\ job' = NoJob
  /\ chan' = [w \in Streams |-> <<>>]
  /\ wpc' = [w \in Streams |-> "idle"]
  /\ service' = [w \in Streams |-> Overall]
  /\ lastSent' = [w \in Streams |-> None]
  /\ wire' = [w \in Streams |-> <<>>]
  /\ cancelled' = [w \in Streams |-> FALSE]
  /\ conn' = IF conn = "ready" THEN "broken" ELSE conn
  /\ UNCHANGED <<subject, cpc, done, stream, report>>

\* The agent, or what runs on it, changes its status.
StatusCall ==
  /\ up
  /\ \/ \E s \in Services, st \in Statuses : SetServingStatus(s, st)
     \/ Shutdown \/ Resume
  /\ UNCHANGED <<up, clientVars>>

CallStep == Caller /\ UNCHANGED <<up, clientVars>>

StreamStep(w) == Watcher(w) /\ UNCHANGED <<up, clientVars>>

\* Another client of the health service, which does not read its stream.
OtherClient(s) ==
  /\ up /\ Fault("other")
  /\ \E w \in FreeStream : Accept(w, s, "watch")
  /\ UNCHANGED <<up, clientVars>>

\* The server notices that nobody is at the other end of a stream.
Notice(w) ==
  /\ wpc[w] # "idle" /\ ~cancelled[w]
  /\ ~(stream = w /\ conn = "ready")
  /\ cancelled' = [cancelled EXCEPT ![w] = TRUE]
  /\ UNCHANGED <<stateVars, chan, wpc, service, lastSent, wire, up, events, clientVars>>

-----------------------------------------------------------------------------
(* The watch loop of a monitor and its VkvmaClient *)

IsConnected == conn = "ready"

\* A new client has no connection.  An earlier one is forgotten, not closed.
NewVkvmaPodClient == conn' = "none"

\* A failed result for the handler; the stream is nil and is obtained again,
\* by getStream, with a new client.
FailedResult ==
  /\ report' = "failed"
  /\ stream' = None
  /\ cpc' = "connect"
  /\ NewVkvmaPodClient

\* The loop has ended.
Gone(how) == cpc' = how /\ conn' = "none" /\ stream' = None /\ report' = None

\* The client connects when it is not connected: in time ...
Connect ==
  /\ cpc = "connect" /\ ~IsConnected /\ up /\ ~done
  /\ conn' = "ready"
  /\ cpc' = "open"
  /\ UNCHANGED <<events, serverVars, subject, up, done, stream, report>>

\* ... or just when its context expires: the connection is not kept
\* and there is no error ...
ConnectLate ==
  /\ cpc = "connect" /\ ~IsConnected /\ up
  /\ (done /\ UNCHANGED events) \/ Fault("late")
  /\ cpc' = "open"
  /\ UNCHANGED <<serverVars, subject, up, done, conn, stream, report>>

\* ... or not connected.
ConnectError ==
  /\ cpc = "connect" /\ ~IsConnected /\ ~done
  /\ (~up /\ UNCHANGED events) \/ (up /\ Fault("dial"))
  /\ FailedResult
  /\ UNCHANGED <<serverVars, subject, up, done>>

\* The stream is opened, or cannot be.
OpenStream ==
  /\ cpc = "open"
  /\ \/ /\ IsConnected /\ ~done
        /\ \E w \in FreeStream :
             /\ Accept(w, Overall, IF subject = "app" THEN "app" ELSE "watch")
             /\ stream' = w
        /\ cpc' = "recv"
        /\ UNCHANGED <<conn, report>>
     \/ /\ conn = "broken" /\ ~done
        /\ FailedResult
        /\ UNCHANGED serverVars
     \/ /\ conn # "none" /\ done
        /\ Gone("stopped")
        /\ UNCHANGED serverVars
  /\ UNCHANGED <<events, subject, up, done>>

\* Without a connection the call panics, which ends the provider.
OpenPanic ==
  /\ cpc = "open" /\ conn = "none"
  /\ Gone("panic")
  /\ UNCHANGED <<events, serverVars, subject, up, done>>

\* Any message makes a result that has not failed.
Recv ==
  /\ cpc = "recv" /\ conn = "ready" /\ wire[stream] # <<>>
  /\ report' = Head(wire[stream])
  /\ wire' = [wire EXCEPT ![stream] = Tail(@)]
  /\ UNCHANGED <<events, stateVars, chan, wpc, service, lastSent, cancelled,
                 subject, up, cpc, done, conn, stream>>

\* Mutant: after an error the same stream is read again.
RecvErrorAgain ==
  /\ cpc = "recv" /\ conn = "broken" /\ ~done
  /\ report' = "failed"
  /\ UNCHANGED <<events, serverVars, subject, up, cpc, done, conn, stream>>

RecvError ==
  /\ cpc = "recv" /\ conn = "broken" /\ ~done
  /\ FailedResult
  /\ UNCHANGED <<events, serverVars, subject, up, done>>

\* The loop finds its context done.
StopLoop ==
  /\ cpc \in {"connect", "recv"} /\ done
  /\ Gone("stopped")
  /\ UNCHANGED <<events, serverVars, subject, up, done>>

MonitorStep ==
  Connect \/ ConnectLate \/ ConnectError \/ OpenStream \/ OpenPanic
  \/ Recv \/ RecvError \/ StopLoop

\* PodMonitor.Stop cancels the context, which also cancels the streams.
Stop ==
  /\ ~done /\ done' = TRUE
  /\ cancelled' = [w \in Streams |-> cancelled[w] \/ (stream = w /\ conn = "ready")]
  /\ UNCHANGED <<stateVars, chan, wpc, service, lastSent, wire, up, events,
                 subject, cpc, conn, stream, report>>

\* A connection breaks.  The server notices later.
Break ==
  /\ conn = "ready" /\ Fault("break")
  /\ conn' = "broken"
  /\ UNCHANGED <<serverVars, subject, up, cpc, done, stream, report>>

-----------------------------------------------------------------------------
(* Specification *)

Next ==
  \/ AgentStart \/ AgentStop \/ StatusCall \/ CallStep \/ Stop
  \/ MonitorStep \/ Break
  \/ \E w \in Streams : StreamStep(w) \/ Notice(w)
  \/ \E s \in Services : OtherClient(s)

Spec == Init /\ [][Next]_vars

\* The agent is started again, calls and handlers go on, the server notices
\* broken streams and the monitors go on.
Fairness ==
  /\ WF_vars(AgentStart) /\ WF_vars(CallStep) /\ WF_vars(MonitorStep)
  /\ \A w \in Streams : WF_vars(StreamStep(w)) /\ WF_vars(Notice(w))

LiveSpec == Spec /\ Fairness

-----------------------------------------------------------------------------
(* Properties *)

TypeOK ==
  /\ mu \in BOOLEAN /\ shutdown \in BOOLEAN /\ up \in BOOLEAN
  /\ statusMap \in [Services -> Statuses \cup {None}]
  /\ updates \subseteq Streams
  /\ \A w \in Streams : chan[w] = <<>> \/ Len(chan[w]) = 1
  /\ \A w \in Streams : Len(wire[w]) <= Window
  /\ job.todo \subseteq Services /\ job.rest \subseteq updates /\ job.put \in job.rest \cup {None}
  /\ wpc \in [Streams -> {"idle", "watch", "loop", "send", "leave", "app"}]
  /\ cpc \in {"connect", "open", "recv", "stopped", "panic"}
  /\ conn \in {"none", "ready", "broken"}
  /\ cpc = "recv" => stream \in Streams
  /\ events \in 0 .. MaxEvents

\* A call that changes a status never waits for a watcher: the channel that
\* it has emptied is still empty when it puts the status.
PutNeverWaits == job.put # None => chan[job.put] = <<>>

\* After Shutdown has returned, and until Resume, no service is serving.
ShutdownSticks == ~mu /\ shutdown => \A s \in Services : Check(s) # "SERVING"

\* The health service, with its mutex and channels, keeps the promise of an
\* abstract feed.
FeedSpec == Feed!Spec

\* Every call that changes a status returns, however slow the clients are.
CallReturns == mu ~> ~mu

\* The handler of every stream whose client is gone ends.
StreamsEnd == \A w \in Streams : cancelled[w] ~> wpc[w] = "idle"

\* If the agent stays up and its status does not change any more, that status
\* is what the monitor has received in the end: whatever connections broke
\* before, it is connected and nothing stale is left over.
Delivered ==
  <>[](up /\ ~mu) =>
    <>[](\/ done \/ cpc = "panic" \/ subject = "app"
         \/ report = statusMap[Overall])
=============================================================================
