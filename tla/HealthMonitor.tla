--------------------------- MODULE HealthMonitor ---------------------------
(***************************************************************************)
(* Pod health monitoring: package internal/health.                         *)
(*                                                                         *)
(* A PodMonitor owns one goroutine per monitor and starts one receiver     *)
(* goroutine of its CheckHandler.  Monitors turn observations into check   *)
(* results and send them on the handler's unbuffered channel; a receiver   *)
(* takes one result at a time, applies the PodStatus it may carry to the   *)
(* pod and calls the notifier.  CreatePod gives every pod the provider's   *)
(* single default handler, PopulateCache gives each pod a handler of its   *)
(* own: HandlerOf says which pods share a channel.                         *)
(*                                                                         *)
(* A goroutine is a program counter.  The locals of one loop iteration     *)
(* (stream, result) live in mpc and out; a PodStatus is its version, the   *)
(* position in the order in which the agent reported it.                   *)
(***************************************************************************)
EXTENDS Naturals, FiniteSets

CONSTANTS
  Pods,
  Watchers,      \* streaming monitors of a pod (isWatcher = true)
  AppWatchers,   \* the watchers whose subject is the application
  Checkers,      \* polling monitors of a pod (isWatcher = false)
  Handlers,
  HandlerOf,     \* the CheckHandler a pod's PodMonitor was created with
  Threshold,     \* HealthConfig.UnhealthyThresholdCount
  MaxFailures,   \* bound: consecutive failures of one monitor
  MaxStatus,     \* bound: PodStatus messages of each pod's agent
  NotifierReady  \* TRUE iff NotifyPods has run before monitoring starts

Monitors == Watchers \cup Checkers

ASSUME PodsAssumption     == IsFiniteSet(Pods)
ASSUME MonitorsAssumption == /\ IsFiniteSet(Monitors)
                             /\ Watchers \cap Checkers = {}
                             /\ AppWatchers \subseteq Watchers
                             /\ \A a, b \in AppWatchers : a = b
ASSUME HandlerAssumption  == HandlerOf \in [Pods -> Handlers]
ASSUME BoundsAssumption   == /\ Threshold \in Nat \ {0}
                             /\ MaxFailures \in Nat
                             /\ MaxStatus \in [Pods -> Nat]
                             /\ NotifierReady \in BOOLEAN

VARIABLES
  phase,       \* PodMonitor of p: created, running, in Stop, Stop returned
  wg,          \* counter of the PodMonitor's WaitGroup
  rpc,         \* receiver goroutine that p's Start launched
  held,        \* the result that receiver is handling
  IsReceiving, \* CheckHandler.IsReceiving
  mpc,         \* monitor goroutine
  out,         \* the result a monitor is blocked sending
  Failures,    \* Monitor.Failures
  State,       \* Monitor.State
  sent,        \* version of the last PodStatus the agent of p reported
  status,      \* version in pod.Status of the monitored pod object
  notified,    \* version of the last status passed to the notifier
  notifier     \* utils.GetNotifier() # nil

monVars  == <<mpc, out, Failures, State>>
recVars  == <<rpc, held, IsReceiving>>
podVars  == <<status, notified, notifier>>
vars     == <<phase, wg, rpc, held, IsReceiving, mpc, out, Failures, State,
              sent, status, notified, notifier>>

-----------------------------------------------------------------------------
(* Types and derived state *)

Mon      == Pods \X Monitors
NoData   == 0
Versions == Nat

Result   == [mon : Mon, failed : BOOLEAN, data : Versions]
NoResult == [mon |-> <<>>, failed |-> FALSE, data |-> NoData]

Phases        == {"new", "running", "stopping", "stopped"}
ReceiverPCs   == {"none", "select", "handle", "notify", "done"}
MonitorPCs    == {"none", "connect", "check", "nilcheck", "recv", "send",
                  "sleep", "probe", "offer", "pause", "done"}
MonitorStates == {"Unknown", "Healthy", "Unhealthy"}

\* ctx.Done() of the context that Start derived and Stop cancels.
Cancelled(p) == phase[p] \in {"stopping", "stopped"}

\* Monitor.IsMonitoring: set by Run, cleared on the way out of the loop.
IsMonitoring(m) == mpc[m] \notin {"none", "done"}

ReceiverLive(p) == rpc[p] \notin {"none", "done"}

Init ==
  /\ phase       = [p \in Pods |-> "new"]
  /\ wg          = [p \in Pods |-> 0]
  /\ rpc         = [p \in Pods |-> "none"]
  /\ held        = [p \in Pods |-> NoResult]
  /\ IsReceiving = [h \in Handlers |-> FALSE]
  /\ mpc         = [m \in Mon |-> "none"]
  /\ out         = [m \in Mon |-> NoResult]
  /\ Failures    = [m \in Mon |-> 0]
  /\ State       = [m \in Mon |-> "Unknown"]
  /\ sent        = [p \in Pods |-> NoData]
  /\ status      = [p \in Pods |-> NoData]
  /\ notified    = [p \in Pods |-> NoData]
  /\ notifier    = NotifierReady

-----------------------------------------------------------------------------
(* PodMonitor *)

\* Start: a new context and wait group, the receiver, then every monitor.
Start(p) ==
  /\ phase[p] = "new"
  /\ phase' = [phase EXCEPT ![p] = "running"]
  /\ wg'    = [wg EXCEPT ![p] = 1 + Cardinality(Monitors)]
  /\ rpc'   = [rpc EXCEPT ![p] = "select"]
  /\ IsReceiving' = [IsReceiving EXCEPT ![HandlerOf[p]] = TRUE]
  /\ mpc'   = [m \in Mon |-> IF m[1] # p THEN mpc[m]
                             ELSE IF m[2] \in Watchers THEN "connect"
                             ELSE "probe"]
  /\ UNCHANGED <<held, out, Failures, State, sent, podVars>>

\* Stop: cancel the context, then wait.  A retried DeletePod stops an
\* already stopped PodMonitor once more; cancel is idempotent.
Stop(p) ==
  /\ phase[p] \in {"running", "stopped"}
  /\ phase' = [phase EXCEPT ![p] = "stopping"]
  /\ UNCHANGED <<wg, recVars, monVars, sent, podVars>>

\* Mutant: Stop does not wait for the goroutines it cancelled.
StopReturnNoWait(p) ==
  /\ phase[p] = "stopping"
  /\ phase' = [phase EXCEPT ![p] = "stopped"]
  /\ UNCHANGED <<wg, recVars, monVars, sent, podVars>>

\* waitGroup.Wait() returns and so does Stop.
StopReturn(p) ==
  /\ phase[p] = "stopping"
  /\ wg[p] = 0
  /\ phase' = [phase EXCEPT ![p] = "stopped"]
  /\ UNCHANGED <<wg, recVars, monVars, sent, podVars>>

\* The Virtual Kubelet library registers its callback with NotifyPods.
NotifyPods ==
  /\ ~notifier
  /\ notifier' = TRUE
  /\ UNCHANGED <<phase, wg, recVars, monVars, sent, status, notified>>

-----------------------------------------------------------------------------
(* Monitor *)

CheckResult(m, failed, data) == [mon |-> m, failed |-> failed, data |-> data]

\* NewCheckResult of a success: resetFailures, and the result to send.
Succeed(m, data, pc) ==
  /\ Failures' = [Failures EXCEPT ![m] = 0]
  /\ State'    = [State EXCEPT ![m] = "Healthy"]
  /\ out'      = [out EXCEPT ![m] = CheckResult(m, FALSE, data)]
  /\ mpc'      = [mpc EXCEPT ![m] = pc]

\* Mutant: Unhealthy only above the threshold.
FailAbove(m, pc) ==
  /\ Failures[m] < MaxFailures
  /\ Failures' = [Failures EXCEPT ![m] = @ + 1]
  /\ State'    = [State EXCEPT ![m] = IF Failures[m] + 1 > Threshold
                                      THEN "Unhealthy" ELSE @]
  /\ out'      = [out EXCEPT ![m] = CheckResult(m, TRUE, NoData)]
  /\ mpc'      = [mpc EXCEPT ![m] = pc]

\* NewCheckResult of a failure: incrementFailures, and the result to send.
Fail(m, pc) ==
  /\ Failures[m] < MaxFailures
  /\ Failures' = [Failures EXCEPT ![m] = @ + 1]
  /\ State'    = [State EXCEPT ![m] = IF Failures[m] + 1 >= Threshold
                                      THEN "Unhealthy" ELSE @]
  /\ out'      = [out EXCEPT ![m] = CheckResult(m, TRUE, NoData)]
  /\ mpc'      = [mpc EXCEPT ![m] = pc]

\* Mutant: a return path without wg.Done().
ExitNoDone(m) ==
  /\ State' = [State EXCEPT ![m] = "Unknown"]
  /\ mpc'   = [mpc EXCEPT ![m] = "done"]
  /\ UNCHANGED <<phase, wg, recVars, out, Failures, sent, podVars>>

\* Mutant: wg.Done() both deferred and called.
ExitDoneTwice(m) ==
  /\ State' = [State EXCEPT ![m] = "Unknown"]
  /\ mpc'   = [mpc EXCEPT ![m] = "done"]
  /\ wg'    = [wg EXCEPT ![m[1]] = @ - 2]
  /\ UNCHANGED <<phase, recVars, out, Failures, sent, podVars>>

\* "Monitor stopping...": the state is reset and the deferred wg.Done() runs.
Exit(m) ==
  /\ State' = [State EXCEPT ![m] = "Unknown"]
  /\ mpc'   = [mpc EXCEPT ![m] = "done"]
  /\ wg'    = [wg EXCEPT ![m[1]] = @ - 1]
  /\ UNCHANGED <<phase, recVars, out, Failures, sent, podVars>>

\* getStream either yields a stream or nil; it may take as long as a dial.
GetStream(m) ==
  /\ mpc[m] = "connect"
  /\ \/ mpc' = [mpc EXCEPT ![m] = "check"]
     \/ /\ Failures[m] < MaxFailures
        /\ mpc' = [mpc EXCEPT ![m] = "nilcheck"]
  /\ UNCHANGED <<phase, wg, recVars, out, Failures, State, sent, podVars>>

\* The select with a default that precedes Recv.
CheckContext(m) ==
  /\ mpc[m] = "check"
  /\ \/ Cancelled(m[1]) /\ Exit(m)
     \/ /\ ~Cancelled(m[1])
        /\ mpc' = [mpc EXCEPT ![m] = "recv"]
        /\ UNCHANGED <<phase, wg, recVars, out, Failures, State, sent, podVars>>

\* The branch for a nil stream: the same select, then a failed result.
NilStream(m) ==
  /\ mpc[m] = "nilcheck"
  /\ \/ Cancelled(m[1]) /\ Exit(m)
     \/ /\ ~Cancelled(m[1])
        /\ Fail(m, "send")
        /\ UNCHANGED <<phase, wg, recVars, sent, podVars>>

\* Recv returns a message, even one that arrived before a cancellation.
RecvMessage(m) ==
  /\ mpc[m] = "recv"
  /\ \/ /\ m[2] \in AppWatchers
        /\ sent[m[1]] < MaxStatus[m[1]]
        /\ sent' = [sent EXCEPT ![m[1]] = @ + 1]
        /\ Succeed(m, sent'[m[1]], "send")
     \/ /\ m[2] \notin AppWatchers
        /\ Succeed(m, NoData, "send")
        /\ UNCHANGED sent
  /\ UNCHANGED <<phase, wg, recVars, podVars>>

\* Recv returns an error: because of the cancellation, or a broken stream.
RecvError(m) ==
  /\ mpc[m] = "recv"
  /\ \/ Cancelled(m[1]) /\ Exit(m)
     \/ /\ ~Cancelled(m[1])
        /\ Fail(m, "send")
        /\ UNCHANGED <<phase, wg, recVars, sent, podVars>>

\* time.Sleep after a failure is over; the stream is obtained again.
Wake(m) ==
  /\ mpc[m] \in {"sleep", "pause"}
  /\ mpc' = [mpc EXCEPT ![m] = IF mpc[m] = "sleep" THEN "connect" ELSE "probe"]
  /\ UNCHANGED <<phase, wg, recVars, out, Failures, State, sent, podVars>>

\* A polling monitor runs its check function, which always yields a result.
Probe(m) ==
  /\ mpc[m] = "probe"
  /\ Succeed(m, NoData, "offer") \/ Fail(m, "offer")
  /\ UNCHANGED <<phase, wg, recVars, sent, podVars>>

\* The polling loop selects between its send and the cancellation.
OfferCancelled(m) ==
  /\ mpc[m] = "offer"
  /\ Cancelled(m[1])
  /\ Exit(m)

-----------------------------------------------------------------------------
(* CheckHandler *)

\* Where a monitor continues once its result has been taken.
AfterSend(m) ==
  IF mpc[m] = "offer" THEN "pause"
  ELSE IF out[m].failed THEN "sleep" ELSE "check"

\* The rendezvous of a send with some receiver of the same handler.
Deliver(p, m) ==
  /\ rpc[p] = "select"
  /\ mpc[m] \in {"send", "offer"}
  /\ HandlerOf[p] = HandlerOf[m[1]]
  /\ rpc'  = [rpc EXCEPT ![p] = "handle"]
  /\ held' = [held EXCEPT ![p] = out[m]]
  /\ mpc'  = [mpc EXCEPT ![m] = AfterSend(m)]
  /\ out'  = [out EXCEPT ![m] = NoResult]
  /\ UNCHANGED <<phase, wg, IsReceiving, Failures, State, sent, podVars>>

\* Mutant: a result without a PodStatus overwrites the pod's status too.
HandleAnyData(p) ==
  /\ rpc[p] = "handle"
  /\ status' = [status EXCEPT ![held[p].mon[1]] = held[p].data]
  /\ rpc'    = [rpc EXCEPT ![p] = "notify"]
  /\ UNCHANGED <<phase, wg, held, IsReceiving, monVars, sent, notified, notifier>>

\* Mutant: the status is applied and the notifier is not called.
HandleWithoutNotify(p) ==
  /\ rpc[p] = "handle"
  /\ status' = IF held[p].data = NoData THEN status
               ELSE [status EXCEPT ![held[p].mon[1]] = held[p].data]
  /\ rpc'    = [rpc EXCEPT ![p] = "select"]
  /\ held'   = [held EXCEPT ![p] = NoResult]
  /\ UNCHANGED <<phase, wg, IsReceiving, monVars, sent, notified, notifier>>

\* handleCheckResult up to the assignment of pod.Status: a result without a
\* PodStatus is only logged.
HandleResult(p) ==
  /\ rpc[p] = "handle"
  /\ \/ /\ held[p].data = NoData
        /\ rpc'  = [rpc EXCEPT ![p] = "select"]
        /\ held' = [held EXCEPT ![p] = NoResult]
        /\ UNCHANGED status
     \/ /\ held[p].data # NoData
        /\ status' = [status EXCEPT ![held[p].mon[1]] = held[p].data]
        /\ rpc'    = [rpc EXCEPT ![p] = "notify"]
        /\ UNCHANGED held
  /\ UNCHANGED <<phase, wg, IsReceiving, monVars, sent, notified, notifier>>

\* Mutant: the receiver returns, instead of going on, while no notifier is set.
NotifyOrReturn(p) ==
  LET q == held[p].mon[1] IN
  /\ rpc[p] = "notify"
  /\ notified' = IF notifier THEN [notified EXCEPT ![q] = status[q]] ELSE notified
  /\ rpc'      = [rpc EXCEPT ![p] = IF notifier THEN "select" ELSE "done"]
  /\ wg'       = IF notifier THEN wg ELSE [wg EXCEPT ![p] = @ - 1]
  /\ held'     = [held EXCEPT ![p] = NoResult]
  /\ UNCHANGED <<phase, IsReceiving, monVars, sent, status, notifier>>

\* ... and its last step: the notifier copies the pod as it is now.
NotifyStatus(p) ==
  LET q == held[p].mon[1] IN
  /\ rpc[p] = "notify"
  /\ notified' = IF notifier THEN [notified EXCEPT ![q] = status[q]] ELSE notified
  /\ rpc'      = [rpc EXCEPT ![p] = "select"]
  /\ held'     = [held EXCEPT ![p] = NoResult]
  /\ UNCHANGED <<phase, wg, IsReceiving, monVars, sent, status, notifier>>

\* The receiver's select sees the cancellation.
ReceiverStop(p) ==
  /\ rpc[p] = "select"
  /\ Cancelled(p)
  /\ rpc' = [rpc EXCEPT ![p] = "done"]
  /\ IsReceiving' = [IsReceiving EXCEPT ![HandlerOf[p]] = FALSE]
  /\ wg'  = [wg EXCEPT ![p] = @ - 1]
  /\ UNCHANGED <<phase, held, monVars, sent, podVars>>

-----------------------------------------------------------------------------
(* Specification *)

MonitorStep(m) ==
  \/ GetStream(m) \/ CheckContext(m) \/ NilStream(m)
  \/ RecvMessage(m) \/ RecvError(m) \/ Wake(m)
  \/ Probe(m) \/ OfferCancelled(m)

ReceiverStep(p) == HandleResult(p) \/ NotifyStatus(p) \/ ReceiverStop(p)

Next ==
  \/ \E p \in Pods : Start(p) \/ Stop(p) \/ StopReturn(p) \/ ReceiverStep(p)
  \/ \E m \in Mon : MonitorStep(m)
  \/ \E p \in Pods, m \in Mon : Deliver(p, m)
  \/ NotifyPods

Spec == Init /\ [][Next]_vars

\* What the Go runtime guarantees: a goroutine that can run does run, blocked
\* senders are served first-in first-out (so none is passed over for ever),
\* a select that keeps finding the cancellation takes it, Recv returns once
\* its context is cancelled, and dials and sleeps end.  That a stream yields a
\* message, or that anybody calls Start or Stop, is not assumed.
Fairness ==
  /\ \A p \in Pods : /\ WF_vars(HandleResult(p))
                     /\ WF_vars(NotifyStatus(p))
                     /\ WF_vars(StopReturn(p))
                     /\ SF_vars(ReceiverStop(p))
  /\ \A m \in Mon : /\ WF_vars(GetStream(m))
                    /\ WF_vars(CheckContext(m))
                    /\ WF_vars(NilStream(m))
                    /\ WF_vars(Cancelled(m[1]) /\ RecvError(m))
                    /\ WF_vars(Wake(m))
                    /\ WF_vars(Probe(m))
                    /\ SF_vars(OfferCancelled(m))
                    /\ SF_vars(\E p \in Pods : Deliver(p, m))

LiveSpec == Spec /\ Fairness

-----------------------------------------------------------------------------
(* Properties *)

TypeOK ==
  /\ phase       \in [Pods -> Phases]
  /\ wg          \in [Pods -> Nat]
  /\ rpc         \in [Pods -> ReceiverPCs]
  /\ held        \in [Pods -> Result \cup {NoResult}]
  /\ IsReceiving \in [Handlers -> BOOLEAN]
  /\ mpc         \in [Mon -> MonitorPCs]
  /\ out         \in [Mon -> Result \cup {NoResult}]
  /\ Failures    \in [Mon -> 0 .. MaxFailures]
  /\ State       \in [Mon -> MonitorStates]
  /\ sent        \in [Pods -> Versions]
  /\ status      \in [Pods -> Versions]
  /\ notified    \in [Pods -> Versions]
  /\ notifier    \in BOOLEAN

LiveMonitors(p) == {m \in Mon : m[1] = p /\ IsMonitoring(m)}

\* The wait group of a PodMonitor counts exactly the goroutines Start made
\* that have not finished: every early return of the loops runs wg.Done()
\* once, so Stop neither returns early nor drives the counter negative.
WaitGroupExact ==
  \A p \in Pods :
    wg[p] = Cardinality(LiveMonitors(p)) + (IF ReceiverLive(p) THEN 1 ELSE 0)

\* When Stop has returned, nothing touches the pod any more: its goroutines
\* are gone and no receiver is still handling one of its results.
StoppedIsQuiet ==
  \A p \in Pods : phase[p] = "stopped" =>
    /\ ~ReceiverLive(p)
    /\ LiveMonitors(p) = {}
    /\ \A q \in Pods : held[q] # NoResult => held[q].mon[1] # p

\* A running monitor is Unhealthy exactly while its failure counter stands at
\* or above the configured threshold, whatever the two loops interleave.
UnhealthyIffThreshold ==
  \A m \in Mon : IsMonitoring(m) =>
    (State[m] = "Unhealthy" <=> Failures[m] >= Threshold)

\* The pod's status never goes back to an older report of the agent, and
\* neither does what Kubernetes is told.
StatusInOrder ==
  [][\A p \in Pods : status'[p] >= status[p] /\ notified'[p] >= notified[p]]_vars

\* Somebody can still take a result that m is blocked sending.
HasReceiver(m) ==
  \E q \in Pods : HandlerOf[q] = HandlerOf[m[1]] /\ ReceiverLive(q)

\* Once Stop has cancelled the context it returns, unless a watch loop sits in
\* its plain channel send after the last receiver of its handler has gone.
StopReturnsUnlessStuck ==
  \A p \in Pods :
    phase[p] = "stopping" ~>
      \/ phase[p] = "stopped"
      \/ \E m \in LiveMonitors(p) : mpc[m] = "send" /\ ~HasReceiver(m)

\* Once Stop has cancelled the context it returns.
StopReturns == \A p \in Pods : phase[p] = "stopping" ~> phase[p] = "stopped"

\* No result is lost: a monitor's pending result is taken by a receiver, or
\* its PodMonitor is being stopped.
ResultTaken ==
  \A m \in Mon :
    mpc[m] \in {"send", "offer"} ~> (mpc[m] \notin {"send", "offer"} \/ Cancelled(m[1]))

\* Two receivers of one handler both hold a PodStatus of p: nothing says which
\* of the two applies its own first.
Overtaking(p) ==
  \E q, r \in Pods :
    q # r /\ \A x \in {q, r} : held[x].data # NoData /\ held[x].mon[1] = p

\* A status the agent reports once the notifier is registered reaches
\* Kubernetes, which then keeps it or a newer one, unless monitoring is stopped
\* or two receivers of a shared handler held statuses of the same pod at once.
StatusReported ==
  \A p \in Pods : []~Overtaking(p) =>
    \A w \in AppWatchers : \A v \in 1 .. MaxStatus[p] :
      (notifier /\ out[<<p, w>>].data = v) ~> [](notified[p] >= v \/ Cancelled(p))
=============================================================================
