------------------------ MODULE HealthMonitor_proofs ------------------------
(***************************************************************************)
(* Proofs about HealthMonitor, for any pods, monitors, handlers, threshold  *)
(* and bounds.                                                              *)
(*                                                                          *)
(* The wait group and the failure counters are not inductive by themselves: *)
(* that Exit keeps wg a natural number needs the exact count of goroutines, *)
(* that Start may reset wg needs that nothing has run before, and that the  *)
(* receiver names an existing pod needs that every result on its way from a *)
(* monitor to a receiver is a real one.  IInv collects these facts.         *)
(***************************************************************************)
EXTENDS HealthMonitor, Integers, FiniteSetTheorems, TLAPS

\* TypeOK, without the claim that wg stays positive.
Types ==
  /\ phase       \in [Pods -> Phases]
  /\ wg          \in [Pods -> Int]
  /\ rpc         \in [Pods -> ReceiverPCs]
  /\ held        \in [Pods -> Result \cup {NoResult}]
  /\ IsReceiving \in [Handlers -> BOOLEAN]
  /\ mpc         \in [Mon -> MonitorPCs]
  /\ out         \in [Mon -> Result \cup {NoResult}]
  /\ Failures    \in [Mon -> 0 .. MaxFailures]
  /\ State       \in [Mon -> MonitorStates]
  /\ sent        \in [Pods -> Versions]
  /\ status      \in [Pods -> Versions]
  /\ notified    \in [Pods -> Versions]
  /\ notifier    \in BOOLEAN

\* A monitor that sends has its own result in hand, a receiver that handles
\* has one that came over its handler's channel, an idle receiver has none.
Carried ==
  /\ \A m \in Mon : mpc[m] \in {"send", "offer"} => out[m] \in Result /\ out[m].mon = m
  /\ \A p \in Pods : IF rpc[p] \in {"handle", "notify"}
                     THEN /\ held[p] \in Result
                          /\ HandlerOf[held[p].mon[1]] = HandlerOf[p]
                     ELSE held[p] = NoResult

\* Before Start, a pod has no goroutines and its monitors have counted nothing.
Untouched ==
  /\ \A p \in Pods : phase[p] = "new" =>
       rpc[p] = "none" /\ \A m \in Mon : m[1] = p => mpc[m] = "none"
  /\ \A m \in Mon : mpc[m] = "none" => Failures[m] = 0 /\ State[m] = "Unknown"

\* After Stop, all goroutines of the pod have called wg.Done().
Reaped == \A p \in Pods : phase[p] = "stopped" => wg[p] = 0

IInv ==
  /\ Types /\ Carried /\ Untouched
  /\ WaitGroupExact /\ UnhealthyIffThreshold /\ Reaped

-----------------------------------------------------------------------------
(* The initial states *)

\* The set of a pod's running monitors is finite, so its size is a number.
LEMMA LiveFinite ==
  ASSUME NEW p \in Pods
  PROVE  IsFiniteSet(LiveMonitors(p)) /\ Cardinality(LiveMonitors(p)) \in Nat
<1>1. IsFiniteSet(Mon)
  BY FS_Product, PodsAssumption, MonitorsAssumption DEF Mon
<1>2. LiveMonitors(p) \in SUBSET Mon
  BY DEF LiveMonitors
<1>3. IsFiniteSet(LiveMonitors(p))
  BY <1>1, <1>2, FS_Subset
<1> QED
  BY <1>3, FS_CardinalityType

\* Nothing runs before the first Start.
LEMMA InitIInv == Init => IInv
<1> SUFFICES ASSUME Init PROVE IInv
  OBVIOUS
<1>1. Types
  BY BoundsAssumption DEF Init, Types, Phases, ReceiverPCs, MonitorPCs, MonitorStates,
     Versions, NoData
<1>2. Carried /\ Untouched /\ Reaped
  BY DEF Init, Carried, Untouched, Reaped
<1>3. WaitGroupExact
  <2> SUFFICES ASSUME NEW p \in Pods
               PROVE  wg[p] = Cardinality(LiveMonitors(p))
                              + (IF ReceiverLive(p) THEN 1 ELSE 0)
    BY DEF WaitGroupExact
  <2>1. LiveMonitors(p) = {}
    BY DEF LiveMonitors, IsMonitoring, Init
  <2> QED
    BY <2>1, FS_EmptySet DEF ReceiverLive, Init
<1>4. UnhealthyIffThreshold
  BY DEF UnhealthyIffThreshold, IsMonitoring, Init
<1> QED
  BY <1>1, <1>2, <1>3, <1>4 DEF IInv

-----------------------------------------------------------------------------
(* Types and results in transit *)

\* Every action keeps the types and hands results over undamaged.
LEMMA TypesStep ==
  Types /\ Carried /\ Untouched /\ [Next]_vars => Types' /\ Carried'
<1> SUFFICES ASSUME Types, Carried, Untouched, [Next]_vars PROVE Types' /\ Carried'
  OBVIOUS
<1> USE HandlerAssumption, BoundsAssumption
<1>1. ASSUME NEW p \in Pods, Start(p) PROVE Types' /\ Carried'
  <2>1. 1 + Cardinality(Monitors) \in Int
    BY FS_CardinalityType, MonitorsAssumption
  <2>2. /\ phase' \in [Pods -> Phases]
        /\ wg' \in [Pods -> Int]
        /\ rpc' \in [Pods -> ReceiverPCs]
    BY <1>1, <2>1 DEF Start, Types, Phases, ReceiverPCs
  <2>3. IsReceiving' \in [Handlers -> BOOLEAN]
    BY <1>1 DEF Start, Types
  <2>4. mpc' \in [Mon -> MonitorPCs]
    BY <1>1 DEF Start, Types, MonitorPCs
  <2>5. Types'
    BY <1>1, <2>2, <2>3, <2>4 DEF Start, Types, podVars
  <2>6. Carried'
    BY <1>1 DEF Start, Types, Carried, Untouched
  <2> QED BY <2>5, <2>6
<1>2. ASSUME NEW p \in Pods, Stop(p) \/ StopReturn(p) PROVE Types' /\ Carried'
  BY <1>2 DEF Stop, StopReturn, Types, Carried, Phases, recVars, monVars, podVars
<1>3. ASSUME NotifyPods PROVE Types' /\ Carried'
  BY <1>3 DEF NotifyPods, Types, Carried, recVars, monVars, podVars
<1>4. ASSUME NEW m \in Mon, Exit(m), mpc[m] # "done" PROVE Types' /\ Carried'
  BY <1>4 DEF Exit, Types, Carried, MonitorPCs, MonitorStates, recVars, podVars, Mon
<1>5. ASSUME NEW m \in Mon, GetStream(m) \/ Wake(m) PROVE Types' /\ Carried'
  BY <1>5 DEF GetStream, Wake, Types, Carried, MonitorPCs, recVars, podVars
<1>6. ASSUME NEW m \in Mon, NEW pc \in {"send", "offer"}, Fail(m, pc),
             UNCHANGED <<phase, wg, recVars, sent, podVars>>
      PROVE  Types' /\ Carried'
  BY <1>6 DEF Fail, CheckResult, Types, Carried, Result, MonitorPCs, MonitorStates, Versions,
     NoData, recVars, podVars
<1>7. ASSUME NEW m \in Mon, NEW pc \in {"send", "offer"}, NEW v \in Versions,
             Succeed(m, v, pc), UNCHANGED <<phase, wg, recVars, podVars>>,
             sent' \in [Pods -> Versions]
      PROVE  Types' /\ Carried'
  BY <1>7 DEF Succeed, CheckResult, Types, Carried, Result, MonitorPCs, MonitorStates, recVars, podVars
<1>8. ASSUME NEW m \in Mon, MonitorStep(m) PROVE Types' /\ Carried'
  <2>1. CASE CheckContext(m)
    <3>1. CASE Exit(m)
      BY <1>4, <2>1, <3>1 DEF CheckContext
    <3>2. CASE ~Exit(m)
      BY <2>1, <3>2 DEF CheckContext, Types, Carried, MonitorPCs, recVars, podVars
    <3> QED BY <3>1, <3>2
  <2>2. CASE NilStream(m)
    BY <1>4, <1>6, <2>2 DEF NilStream
  <2>3. CASE RecvMessage(m)
    <3>1. CASE sent[m[1]] < MaxStatus[m[1]] /\ sent' = [sent EXCEPT ![m[1]] = @ + 1]
               /\ Succeed(m, sent'[m[1]], "send")
      <4>1. sent' \in [Pods -> Versions] /\ sent'[m[1]] \in Versions
        BY <3>1 DEF Types, Versions, Mon
      <4> QED BY <1>7, <2>3, <3>1, <4>1 DEF RecvMessage
    <3>2. CASE Succeed(m, NoData, "send") /\ UNCHANGED sent
      <4>1. NoData \in Versions
        BY DEF NoData, Versions
      <4> QED BY <1>7, <2>3, <3>2, <4>1 DEF RecvMessage, Types
    <3> QED BY <2>3, <3>1, <3>2 DEF RecvMessage
  <2>4. CASE RecvError(m)
    BY <1>4, <1>6, <2>4 DEF RecvError
  <2>5. CASE Probe(m)
    <3>1. NoData \in Versions
      BY DEF NoData, Versions
    <3> QED BY <1>6, <1>7, <2>5, <3>1 DEF Probe, Types
  <2>6. CASE OfferCancelled(m)
    BY <1>4, <2>6 DEF OfferCancelled
  <2> QED
    BY <1>5, <1>8, <2>1, <2>2, <2>3, <2>4, <2>5, <2>6 DEF MonitorStep
<1>9. ASSUME NEW p \in Pods, NEW m \in Mon, Deliver(p, m) PROVE Types' /\ Carried'
  <2>1. AfterSend(m) \in {"pause", "sleep", "check"}
    BY DEF AfterSend
  <2>2. out[m] \in Result /\ out[m].mon = m
    BY <1>9 DEF Deliver, Carried
  <2>3. Types'
    BY <1>9, <2>1, <2>2 DEF Deliver, Types, ReceiverPCs, MonitorPCs, podVars
  <2>4. Carried'
    BY <1>9, <2>1, <2>2 DEF Deliver, Types, Carried, podVars
  <2> QED BY <2>3, <2>4
<1>10. ASSUME NEW p \in Pods, HandleResult(p) PROVE Types' /\ Carried'
  <2>1. held[p] \in Result
    BY <1>10 DEF HandleResult, Carried
  <2>2. held[p].mon[1] \in Pods /\ held[p].data \in Versions
    BY <2>1 DEF Result, Mon
  <2>3. Types'
    BY <1>10, <2>2 DEF HandleResult, Types, ReceiverPCs, monVars
  <2>4. Carried'
    BY <1>10 DEF HandleResult, Types, Carried, monVars
  <2> QED BY <2>3, <2>4
<1>11. ASSUME NEW p \in Pods, NotifyStatus(p) PROVE Types' /\ Carried'
  <2>1. held[p] \in Result
    BY <1>11 DEF NotifyStatus, Carried
  <2>2. held[p].mon[1] \in Pods
    BY <2>1 DEF Result, Mon
  <2>3. Types'
    BY <1>11, <2>2 DEF NotifyStatus, Types, ReceiverPCs, monVars
  <2>4. Carried'
    BY <1>11 DEF NotifyStatus, Types, Carried, monVars
  <2> QED BY <2>3, <2>4
<1>12. ASSUME NEW p \in Pods, ReceiverStop(p) PROVE Types' /\ Carried'
  BY <1>12 DEF ReceiverStop, Types, Carried, ReceiverPCs, monVars, podVars
<1>13. CASE UNCHANGED vars
  BY <1>13 DEF vars, Types, Carried
<1> QED
  BY <1>1, <1>2, <1>3, <1>8, <1>9, <1>10, <1>11, <1>12, <1>13 DEF Next, ReceiverStep

-----------------------------------------------------------------------------
(* Before Start *)

\* Nobody but Start makes goroutines, and only a goroutine counts failures.
LEMMA UntouchedStep ==
  Types /\ Carried /\ Untouched /\ [Next]_vars => Untouched'
<1> SUFFICES ASSUME Types, Carried, Untouched, [Next]_vars PROVE Untouched'
  OBVIOUS
<1>1. ASSUME NEW p \in Pods, Start(p) PROVE Untouched'
  BY <1>1 DEF Start, Types, Untouched
<1>2. ASSUME NEW p \in Pods, Stop(p) \/ StopReturn(p) PROVE Untouched'
  BY <1>2 DEF Stop, StopReturn, Types, Untouched, recVars, monVars
<1>3. ASSUME NEW m \in Mon, mpc[m] # "none", UNCHANGED <<phase, rpc>>,
             NEW pc \in MonitorPCs \ {"none"}, mpc' = [mpc EXCEPT ![m] = pc],
             \A n \in Mon \ {m} : Failures'[n] = Failures[n] /\ State'[n] = State[n]
      PROVE  Untouched'
  BY <1>3 DEF Types, Untouched
<1>4. ASSUME NEW m \in Mon, MonitorStep(m) PROVE Untouched'
  <2> USE <1>4 DEF MonitorStep, Exit, Fail, Succeed, Types, recVars
  <2>1. mpc[m] # "none" /\ UNCHANGED <<phase, rpc>>
    BY DEF GetStream, CheckContext, NilStream, RecvMessage, RecvError, Wake, Probe,
       OfferCancelled
  <2>2. \E pc \in MonitorPCs \ {"none"} : mpc' = [mpc EXCEPT ![m] = pc]
    BY DEF GetStream, CheckContext, NilStream, RecvMessage, RecvError, Wake, Probe,
       OfferCancelled, MonitorPCs
  <2>3. \A n \in Mon \ {m} : Failures'[n] = Failures[n] /\ State'[n] = State[n]
    BY DEF GetStream, CheckContext, NilStream, RecvMessage, RecvError, Wake, Probe,
       OfferCancelled
  <2> QED BY <1>3, <2>1, <2>2, <2>3
<1>5. ASSUME NEW p \in Pods, NEW m \in Mon, Deliver(p, m) PROVE Untouched'
  BY <1>5 DEF Deliver, AfterSend, Types, Untouched
<1>6. ASSUME NEW p \in Pods, ReceiverStep(p) PROVE Untouched'
  BY <1>6 DEF ReceiverStep, HandleResult, NotifyStatus, ReceiverStop, Types, Untouched, monVars
<1>7. CASE NotifyPods \/ UNCHANGED vars
  BY <1>7 DEF NotifyPods, recVars, monVars, vars, Untouched
<1> QED
  BY <1>1, <1>2, <1>4, <1>5, <1>6, <1>7 DEF Next

-----------------------------------------------------------------------------
(* The failure threshold *)

\* Success and failure move State together with Failures.
LEMMA ThresholdStep ==
  Types /\ Untouched /\ UnhealthyIffThreshold /\ [Next]_vars => UnhealthyIffThreshold'
<1> SUFFICES ASSUME Types, Untouched, UnhealthyIffThreshold, [Next]_vars,
                    NEW m \in Mon, IsMonitoring(m)'
             PROVE  State'[m] = "Unhealthy" <=> Failures'[m] >= Threshold
  BY DEF UnhealthyIffThreshold
<1>1. IsMonitoring(m) => (State[m] = "Unhealthy" <=> Failures[m] >= Threshold)
  BY DEF UnhealthyIffThreshold
<1>2. Failures[m] \in Nat /\ Threshold \in Nat \ {0}
  BY BoundsAssumption DEF Types
<1>3. ASSUME NEW p \in Pods, Start(p)
      PROVE  State'[m] = "Unhealthy" <=> Failures'[m] >= Threshold
  <2>1. CASE m[1] = p
    <3>1. Failures[m] = 0 /\ State[m] = "Unknown"
      BY <1>3, <2>1 DEF Start, Untouched
    <3> QED BY <1>2, <1>3, <3>1 DEF Start
  <2>2. CASE m[1] # p
    <3>1. mpc'[m] = mpc[m] /\ UNCHANGED <<Failures, State>>
      BY <1>3, <2>2 DEF Start, Types
    <3> QED BY <1>1, <3>1 DEF IsMonitoring
  <2> QED BY <2>1, <2>2
<1>4. ASSUME UNCHANGED <<Failures, State>>, IsMonitoring(m)
      PROVE  State'[m] = "Unhealthy" <=> Failures'[m] >= Threshold
  BY <1>1, <1>4
<1>5. ASSUME NEW n \in Mon, NEW pc, NEW v, Fail(n, pc) \/ Succeed(n, v, pc), IsMonitoring(n)
      PROVE  State'[m] = "Unhealthy" <=> Failures'[m] >= Threshold
  BY <1>1, <1>2, <1>5 DEF Fail, Succeed, CheckResult, Types, IsMonitoring
<1>6. ASSUME NEW n \in Mon, Exit(n)
      PROVE  State'[m] = "Unhealthy" <=> Failures'[m] >= Threshold
  BY <1>1, <1>6 DEF Exit, Types, IsMonitoring
<1>7. ASSUME NEW n \in Mon, MonitorStep(n)
      PROVE  State'[m] = "Unhealthy" <=> Failures'[m] >= Threshold
  <2>1. CASE GetStream(n) \/ Wake(n) \/ (CheckContext(n) /\ ~Exit(n))
    <3>1. UNCHANGED <<Failures, State>> /\ IsMonitoring(m)
      BY <2>1 DEF GetStream, Wake, CheckContext, IsMonitoring, Types
    <3> QED BY <1>4, <3>1
  <2>2. CASE NilStream(n) \/ RecvMessage(n) \/ RecvError(n) \/ Probe(n)
    <3>1. IsMonitoring(n)
      BY <2>2 DEF NilStream, RecvMessage, RecvError, Probe, IsMonitoring
    <3> QED BY <1>5, <1>6, <2>2, <3>1 DEF NilStream, RecvMessage, RecvError, Probe
  <2>3. CASE Exit(n)
    BY <1>6, <2>3
  <2> QED
    BY <1>7, <2>1, <2>2, <2>3 DEF MonitorStep, OfferCancelled
<1>8. ASSUME NEW p \in Pods, NEW n \in Mon, Deliver(p, n)
      PROVE  State'[m] = "Unhealthy" <=> Failures'[m] >= Threshold
  <2>1. UNCHANGED <<Failures, State>> /\ IsMonitoring(m)
    BY <1>8 DEF Deliver, Types, IsMonitoring
  <2> QED BY <1>4, <2>1
<1>9. ASSUME UNCHANGED monVars
      PROVE  State'[m] = "Unhealthy" <=> Failures'[m] >= Threshold
  BY <1>4, <1>9 DEF monVars, IsMonitoring
<1>10. ASSUME NEW p \in Pods, Stop(p) \/ StopReturn(p) \/ ReceiverStep(p)
       PROVE  UNCHANGED monVars
  BY <1>10 DEF Stop, StopReturn, ReceiverStep, HandleResult, NotifyStatus,
     ReceiverStop
<1>11. CASE NotifyPods \/ UNCHANGED vars
  BY <1>9, <1>11 DEF NotifyPods, vars, monVars
<1> QED
  BY <1>3, <1>7, <1>8, <1>9, <1>10, <1>11 DEF Next

-----------------------------------------------------------------------------
(* The wait group *)

\* The number of goroutines of p that have not called wg.Done().
Count(p) == Cardinality(LiveMonitors(p)) + (IF ReceiverLive(p) THEN 1 ELSE 0)

\* The count depends on which goroutines run, and on nothing else.
LEMMA SameCount ==
  ASSUME NEW p \in Pods,
         ReceiverLive(p)' <=> ReceiverLive(p),
         \A m \in Mon : m[1] = p => (IsMonitoring(m)' <=> IsMonitoring(m))
  PROVE  Count(p)' = Count(p)
<1>1. LiveMonitors(p)' = LiveMonitors(p)
  BY DEF LiveMonitors
<1> QED
  BY <1>1 DEF Count

\* A monitor that leaves its loop is one goroutine less.
LEMMA ExitCount ==
  ASSUME Types, WaitGroupExact, NEW m \in Mon, IsMonitoring(m), Exit(m), NEW p \in Pods
  PROVE  wg'[p] = Count(p)' /\ (m[1] = p => wg[p] > 0) /\ (m[1] # p => wg'[p] = wg[p])
<1>1. wg[p] = Count(p)
  BY DEF WaitGroupExact, Count
<1>2. ReceiverLive(p)' <=> ReceiverLive(p)
  BY DEF Exit, ReceiverLive, recVars
<1>3. CASE m[1] # p
  <2>1. \A n \in Mon : n[1] = p => (IsMonitoring(n)' <=> IsMonitoring(n))
    BY <1>3 DEF Exit, IsMonitoring, Types
  <2>2. wg'[p] = wg[p]
    BY <1>3 DEF Exit, Types, Mon
  <2> QED BY <1>1, <1>2, <1>3, <2>1, <2>2, SameCount
<1>4. CASE m[1] = p
  <2>1. LiveMonitors(p)' = LiveMonitors(p) \ {m}
    BY <1>4 DEF Exit, LiveMonitors, IsMonitoring, Types
  <2>2. m \in LiveMonitors(p)
    BY <1>4 DEF LiveMonitors
  <2>3. /\ Cardinality(LiveMonitors(p)') = Cardinality(LiveMonitors(p)) - 1
        /\ Cardinality(LiveMonitors(p)') \in Nat
    BY <2>1, <2>2, LiveFinite, FS_RemoveElement, FS_CardinalityType
  <2>4. wg'[p] = wg[p] - 1
    BY <1>4 DEF Exit, Types
  <2> QED BY <1>1, <1>2, <1>4, <2>3, <2>4, LiveFinite DEF Count
<1> QED BY <1>3, <1>4

\* Start makes the receiver and one goroutine per monitor.
LEMMA StartCount ==
  ASSUME Types, WaitGroupExact, NEW q \in Pods, Start(q), NEW p \in Pods
  PROVE  wg'[p] = Count(p)'
<1>1. CASE p = q
  <2>1. LiveMonitors(p)' = {p} \X Monitors
    BY <1>1 DEF Start, LiveMonitors, IsMonitoring, Mon
  <2>2. Cardinality({p} \X Monitors) = Cardinality({p}) * Cardinality(Monitors)
    BY FS_Product, FS_Singleton, MonitorsAssumption
  <2>3. Cardinality({p}) = 1 /\ Cardinality(Monitors) \in Nat
    BY FS_Singleton, FS_CardinalityType, MonitorsAssumption
  <2>4. Cardinality(LiveMonitors(p)') = Cardinality(Monitors)
    BY <2>1, <2>2, <2>3
  <2>5. ReceiverLive(p)' /\ wg'[p] = 1 + Cardinality(Monitors)
    BY <1>1 DEF Start, ReceiverLive, Types
  <2> QED BY <2>3, <2>4, <2>5 DEF Count
<1>2. CASE p # q
  <2>1. \A n \in Mon : n[1] = p => (IsMonitoring(n)' <=> IsMonitoring(n))
    BY <1>2 DEF Start, IsMonitoring, Types
  <2>2. wg'[p] = wg[p] /\ (ReceiverLive(p)' <=> ReceiverLive(p))
    BY <1>2 DEF Start, Types, ReceiverLive
  <2> QED BY <2>1, <2>2, SameCount DEF WaitGroupExact, Count
<1> QED BY <1>1, <1>2

\* Every step keeps wg equal to the number of goroutines, and a counter that
\* has come down to zero stays there until the next Start.
LEMMA CountStep ==
  Types /\ WaitGroupExact /\ Reaped /\ [Next]_vars => WaitGroupExact' /\ Reaped'
<1> SUFFICES ASSUME Types, WaitGroupExact, Reaped, [Next]_vars, NEW p \in Pods
             PROVE  wg'[p] = Count(p)' /\ (phase'[p] = "stopped" => wg'[p] = 0)
  BY DEF WaitGroupExact, Reaped, Count
<1>1. /\ wg[p] = Count(p)
      /\ phase[p] = "stopped" => wg[p] = 0
  BY DEF WaitGroupExact, Reaped, Count
<1>2. ASSUME NEW q \in Pods, Start(q)
      PROVE  wg'[p] = Count(p)' /\ (phase'[p] = "stopped" => wg'[p] = 0)
  <2>1. phase'[p] = "stopped" => wg'[p] = 0
    BY <1>1, <1>2 DEF Start, Types
  <2> QED BY <1>2, <2>1, StartCount
<1>3. ASSUME UNCHANGED wg, ReceiverLive(p)' <=> ReceiverLive(p),
             \A m \in Mon : IsMonitoring(m)' <=> IsMonitoring(m),
             phase'[p] = "stopped" => wg[p] = 0
      PROVE  wg'[p] = Count(p)' /\ (phase'[p] = "stopped" => wg'[p] = 0)
  BY <1>1, <1>3, SameCount
<1>4. ASSUME NEW q \in Pods, Stop(q) \/ StopReturn(q)
      PROVE  wg'[p] = Count(p)' /\ (phase'[p] = "stopped" => wg'[p] = 0)
  <2>1. phase'[p] = "stopped" => wg[p] = 0
    BY <1>1, <1>4 DEF Stop, StopReturn, Types
  <2> QED
    BY <1>3, <1>4, <2>1 DEF Stop, StopReturn, recVars, monVars, ReceiverLive, IsMonitoring
<1>5. ASSUME NEW m \in Mon, IsMonitoring(m), Exit(m)
      PROVE  wg'[p] = Count(p)' /\ (phase'[p] = "stopped" => wg'[p] = 0)
  <2>1. UNCHANGED phase
    BY <1>5 DEF Exit
  <2> QED BY <1>1, <1>5, <2>1, ExitCount
<1>6. ASSUME NEW m \in Mon, MonitorStep(m)
      PROVE  wg'[p] = Count(p)' /\ (phase'[p] = "stopped" => wg'[p] = 0)
  <2>1. IsMonitoring(m)
    BY <1>6 DEF MonitorStep, GetStream, CheckContext, NilStream, RecvMessage, RecvError,
       Wake, Probe, OfferCancelled, IsMonitoring
  <2>2. CASE Exit(m)
    BY <1>5, <2>1, <2>2
  <2>3. CASE ~Exit(m)
    <3>1. UNCHANGED <<phase, wg, rpc>>
      BY <1>6, <2>3 DEF MonitorStep, GetStream, CheckContext, NilStream, RecvMessage,
         RecvError, Wake, Probe, OfferCancelled, recVars
    <3>2. \E pc \in MonitorPCs \ {"none", "done"} : mpc' = [mpc EXCEPT ![m] = pc]
      BY <1>6, <2>3 DEF MonitorStep, GetStream, CheckContext, NilStream, RecvMessage,
         RecvError, Wake, Probe, OfferCancelled, Fail, Succeed, MonitorPCs
    <3>3. \A n \in Mon : IsMonitoring(n)' <=> IsMonitoring(n)
      BY <2>1, <3>2 DEF IsMonitoring, Types
    <3> QED BY <1>1, <1>3, <3>1, <3>3 DEF ReceiverLive
  <2> QED BY <2>2, <2>3
<1>7. ASSUME NEW q \in Pods, NEW m \in Mon, Deliver(q, m)
      PROVE  wg'[p] = Count(p)' /\ (phase'[p] = "stopped" => wg'[p] = 0)
  <2>1. \A n \in Mon : IsMonitoring(n)' <=> IsMonitoring(n)
    BY <1>7 DEF Deliver, AfterSend, IsMonitoring, Types
  <2>2. (ReceiverLive(p)' <=> ReceiverLive(p)) /\ UNCHANGED <<phase, wg>>
    BY <1>7 DEF Deliver, ReceiverLive, Types
  <2> QED BY <1>1, <1>3, <2>1, <2>2
<1>8. ASSUME NEW q \in Pods, HandleResult(q) \/ NotifyStatus(q)
      PROVE  wg'[p] = Count(p)' /\ (phase'[p] = "stopped" => wg'[p] = 0)
  <2>1. (ReceiverLive(p)' <=> ReceiverLive(p)) /\ UNCHANGED <<phase, wg, mpc>>
    BY <1>8 DEF HandleResult, NotifyStatus, ReceiverLive, Types, monVars
  <2> QED BY <1>1, <1>3, <2>1 DEF IsMonitoring
<1>9. ASSUME NEW q \in Pods, ReceiverStop(q)
      PROVE  wg'[p] = Count(p)' /\ (phase'[p] = "stopped" => wg'[p] = 0)
  <2>1. UNCHANGED <<phase, mpc>>
    BY <1>9 DEF ReceiverStop, monVars
  <2>2. LiveMonitors(p)' = LiveMonitors(p)
    BY <2>1 DEF LiveMonitors, IsMonitoring
  <2>3. CASE q = p
    <3>1. ReceiverLive(p) /\ ~ReceiverLive(p)' /\ wg'[p] = wg[p] - 1
      BY <1>9, <2>3 DEF ReceiverStop, ReceiverLive, Types
    <3> QED BY <1>1, <2>1, <2>2, <3>1, LiveFinite DEF Count
  <2>4. CASE q # p
    <3>1. (ReceiverLive(p)' <=> ReceiverLive(p)) /\ wg'[p] = wg[p]
      BY <1>9, <2>4 DEF ReceiverStop, ReceiverLive, Types
    <3> QED BY <1>1, <2>1, <2>2, <3>1 DEF Count
  <2> QED BY <2>3, <2>4
<1>10. CASE NotifyPods \/ UNCHANGED vars
  BY <1>1, <1>3, <1>10 DEF NotifyPods, vars, recVars, monVars, ReceiverLive, IsMonitoring
<1> QED
  BY <1>2, <1>4, <1>6, <1>7, <1>8, <1>9, <1>10 DEF Next, ReceiverStep

-----------------------------------------------------------------------------
(* Theorems *)

\* IInv holds in every reachable state.
THEOREM IInvHolds == Spec => []IInv
<1>1. IInv /\ [Next]_vars => IInv'
  BY TypesStep, UntouchedStep, ThresholdStep, CountStep DEF IInv
<1> QED
  BY <1>1, InitIInv, PTL DEF Spec

\* Every variable keeps its type, and in particular no wg.Done() drives the
\* wait group of a PodMonitor below zero, which would be a panic.
THEOREM TypeCorrect == Spec => []TypeOK
<1>1. IInv => TypeOK
  <2> SUFFICES ASSUME IInv PROVE TypeOK
    OBVIOUS
  <2>1. wg \in [Pods -> Nat]
    <3>1. \A p \in Pods : wg[p] \in Nat
      BY LiveFinite DEF IInv, WaitGroupExact
    <3> QED BY <3>1 DEF IInv, Types
  <2> QED BY <2>1 DEF IInv, Types, TypeOK
<1> QED
  BY <1>1, IInvHolds, PTL

\* The wait group counts exactly the goroutines that Start made and that have
\* not returned, however many pods share a handler.
THEOREM WaitGroupCorrect == Spec => []WaitGroupExact
<1>1. IInv => WaitGroupExact
  BY DEF IInv
<1> QED
  BY <1>1, IInvHolds, PTL

\* A running monitor is Unhealthy exactly from the configured number of
\* consecutive failures on.
THEOREM ThresholdCorrect == Spec => []UnhealthyIffThreshold
<1>1. IInv => UnhealthyIffThreshold
  BY DEF IInv
<1> QED
  BY <1>1, IInvHolds, PTL

\* Every pod has a handler of its own, as PopulateCache arranges it.
OwnHandlers == \A p, q \in Pods : HandlerOf[p] = HandlerOf[q] => p = q

\* With a handler of its own, a pod whose Stop has returned has no goroutine
\* left and no receiver that still holds one of its results.
THEOREM QuietAfterStop ==
  ASSUME OwnHandlers
  PROVE  Spec => []StoppedIsQuiet
<1>1. IInv => StoppedIsQuiet
  <2> SUFFICES ASSUME IInv, NEW p \in Pods, phase[p] = "stopped"
               PROVE  /\ ~ReceiverLive(p)
                      /\ LiveMonitors(p) = {}
                      /\ \A q \in Pods : held[q] # NoResult => held[q].mon[1] # p
    BY DEF StoppedIsQuiet
  <2>1. Cardinality(LiveMonitors(p)) + (IF ReceiverLive(p) THEN 1 ELSE 0) = 0
    BY DEF IInv, Reaped, WaitGroupExact
  <2>2. ~ReceiverLive(p) /\ Cardinality(LiveMonitors(p)) = 0
    BY <2>1, LiveFinite
  <2>3. LiveMonitors(p) = {}
    BY <2>2, LiveFinite, FS_EmptySet
  <2>4. ASSUME NEW q \in Pods, held[q] # NoResult PROVE held[q].mon[1] # p
    <3>1. /\ rpc[q] \in {"handle", "notify"}
          /\ held[q] \in Result
          /\ HandlerOf[held[q].mon[1]] = HandlerOf[q]
      BY <2>4 DEF IInv, Carried
    <3>2. held[q].mon[1] = q
      BY <3>1, OwnHandlers DEF OwnHandlers, Result, Mon
    <3> QED BY <2>2, <3>1, <3>2 DEF ReceiverLive
  <2> QED BY <2>2, <2>3, <2>4
<1> QED
  BY <1>1, IInvHolds, PTL

-----------------------------------------------------------------------------
(* The order of the statuses *)

\* Where a status can be between the agent and Kubernetes: what a monitor has
\* in hand is the newest one, what a receiver handles is not older than what
\* the pod shows, and that is not older than what Kubernetes was told.
InTransit ==
  /\ \A p \in Pods : notified[p] <= status[p] /\ status[p] <= sent[p]
  /\ \A m \in Mon : mpc[m] \in {"send", "offer"} /\ out[m].data # NoData =>
       m[2] \in AppWatchers /\ out[m].data = sent[m[1]]
  /\ \A p \in Pods : rpc[p] \in {"handle", "notify"} /\ held[p].data # NoData =>
       status[p] <= held[p].data /\ held[p].data <= sent[p]

\* What a step does to the statuses that can be seen.
Forward == \A p \in Pods : status'[p] >= status[p] /\ notified'[p] >= notified[p]

\* No step takes a status back, and the order in transit is kept: an agent has
\* one application watcher, which waits for its result to be taken before it
\* receives again, and its handler has one receiver.
LEMMA InTransitStep ==
  ASSUME OwnHandlers, IInv, InTransit, [Next]_vars
  PROVE  InTransit' /\ Forward
<1> USE HandlerAssumption, BoundsAssumption DEF IInv, Types, Versions, NoData
<1>1. ASSUME UNCHANGED <<status, notified, sent>>,
             \A m \in Mon : mpc'[m] \in {"send", "offer"} =>
               \/ mpc[m] \in {"send", "offer"} /\ out'[m] = out[m]
               \/ out'[m].data = NoData,
             \A p \in Pods : rpc'[p] \in {"handle", "notify"} =>
               rpc[p] \in {"handle", "notify"} /\ held'[p] = held[p]
      PROVE  InTransit' /\ Forward
  <2>1. Forward
    BY <1>1 DEF Forward
  <2>2. InTransit'
    BY <1>1 DEF InTransit
  <2> QED BY <2>1, <2>2
<1>2. ASSUME NEW p \in Pods, Start(p) PROVE InTransit' /\ Forward
  BY <1>1, <1>2 DEF Start, podVars
<1>3. ASSUME NEW p \in Pods, Stop(p) \/ StopReturn(p) PROVE InTransit' /\ Forward
  BY <1>1, <1>3 DEF Stop, StopReturn, recVars, monVars, podVars
<1>4. CASE NotifyPods \/ UNCHANGED vars
  BY <1>1, <1>4 DEF NotifyPods, vars, recVars, monVars, podVars
<1>5. ASSUME NEW m \in Mon, RecvMessage(m), m[2] \in AppWatchers PROVE InTransit' /\ Forward
  <2>1. m[1] \in Pods /\ UNCHANGED <<rpc, held, status, notified>>
    BY <1>5 DEF RecvMessage, Mon, recVars, podVars
  <2>2. /\ mpc[m] = "recv"
        /\ sent' = [sent EXCEPT ![m[1]] = @ + 1]
        /\ mpc' = [mpc EXCEPT ![m] = "send"]
        /\ out' = [out EXCEPT ![m] = CheckResult(m, FALSE, sent'[m[1]])]
    BY <1>5 DEF RecvMessage, Succeed
  <2>3. /\ sent'[m[1]] = sent[m[1]] + 1
        /\ \A p \in Pods : p # m[1] => sent'[p] = sent[p]
    BY <2>1, <2>2
  <2>4. Forward
    BY <2>1 DEF Forward
  <2>5. \A p \in Pods : sent[p] <= sent'[p]
    BY <2>1, <2>3
  <2>6. \A p \in Pods : notified'[p] <= status'[p] /\ status'[p] <= sent'[p]
    BY <2>1, <2>3, <2>5 DEF InTransit
  <2>7. \A n \in Mon : n # m /\ n[2] \in AppWatchers => n[1] # m[1]
    BY <1>5, MonitorsAssumption DEF Mon
  <2>8. ASSUME NEW n \in Mon, mpc'[n] \in {"send", "offer"}, out'[n].data # NoData
        PROVE  n[2] \in AppWatchers /\ out'[n].data = sent'[n[1]]
    <3>1. CASE n = m
      BY <1>5, <2>2, <3>1 DEF CheckResult
    <3>2. CASE n # m
      <4>1. mpc'[n] = mpc[n] /\ out'[n] = out[n]
        BY <2>2, <3>2
      <4>2. n[2] \in AppWatchers /\ out[n].data = sent[n[1]]
        BY <2>8, <4>1 DEF InTransit
      <4>3. n[1] \in Pods /\ n[1] # m[1]
        BY <2>7, <3>2, <4>2 DEF Mon
      <4> QED BY <2>3, <4>1, <4>2, <4>3
    <3> QED BY <3>1, <3>2
  <2>9. ASSUME NEW p \in Pods, rpc'[p] \in {"handle", "notify"}, held'[p].data # NoData
        PROVE  status'[p] <= held'[p].data /\ held'[p].data <= sent'[p]
    <3>1. status[p] <= held[p].data /\ held[p].data <= sent[p] /\ held[p] \in Result
      BY <2>1, <2>9 DEF InTransit, Carried
    <3>2. held[p].data \in Nat
      BY <3>1 DEF Result
    <3> QED BY <2>1, <2>3, <2>5, <3>1, <3>2
  <2> QED BY <2>4, <2>6, <2>8, <2>9 DEF InTransit
<1>6. ASSUME NEW m \in Mon, MonitorStep(m), ~(RecvMessage(m) /\ m[2] \in AppWatchers)
      PROVE  InTransit' /\ Forward
  <2>1. UNCHANGED <<status, notified, sent, rpc, held>>
    BY <1>6 DEF MonitorStep, GetStream, CheckContext, NilStream, RecvMessage, RecvError,
       Wake, Probe, OfferCancelled, Exit, recVars, podVars
  <2>2. \A n \in Mon : mpc'[n] \in {"send", "offer"} =>
          \/ mpc[n] \in {"send", "offer"} /\ out'[n] = out[n]
          \/ out'[n].data = NoData
    BY <1>6 DEF MonitorStep, GetStream, CheckContext, NilStream, RecvMessage, RecvError,
       Wake, Probe, OfferCancelled, Exit, Fail, Succeed, CheckResult
  <2> QED BY <1>1, <2>1, <2>2
<1>7. ASSUME NEW p \in Pods, NEW m \in Mon, Deliver(p, m) PROVE InTransit' /\ Forward
  <2>1. /\ p = m[1]
        /\ mpc[m] \in {"send", "offer"}
        /\ rpc' = [rpc EXCEPT ![p] = "handle"]
        /\ held' = [held EXCEPT ![p] = out[m]]
        /\ mpc' = [mpc EXCEPT ![m] = AfterSend(m)]
        /\ out' = [out EXCEPT ![m] = NoResult]
        /\ UNCHANGED <<status, notified, sent>>
    BY <1>7, OwnHandlers DEF OwnHandlers, Deliver, Mon, podVars
  <2>2. Forward
    BY <2>1 DEF Forward
  <2>3. out[m].data # NoData => out[m].data = sent[p]
    BY <2>1 DEF InTransit
  <2>4. InTransit'
    BY <2>1, <2>3 DEF InTransit, AfterSend
  <2> QED BY <2>2, <2>4
<1>8. ASSUME NEW p \in Pods, HandleResult(p) PROVE InTransit' /\ Forward
  <2>1. CASE held[p].data = NoData
    BY <1>1, <1>8, <2>1 DEF HandleResult, monVars
  <2>2. CASE held[p].data # NoData
    <3>1. /\ status' = [status EXCEPT ![held[p].mon[1]] = held[p].data]
          /\ rpc' = [rpc EXCEPT ![p] = "notify"]
          /\ UNCHANGED <<held, sent, notified, mpc, out>>
      BY <1>8, <2>2 DEF HandleResult, monVars
    <3>2. held[p].mon[1] = p /\ held[p].data \in Nat
      BY <1>8, OwnHandlers DEF HandleResult, Carried, OwnHandlers, Result, Mon
    <3>3. status[p] <= held[p].data /\ held[p].data <= sent[p] /\ rpc[p] = "handle"
      BY <1>8, <2>2 DEF HandleResult, InTransit
    <3>4. Forward
      BY <3>1, <3>2, <3>3 DEF Forward
    <3>5. InTransit'
      BY <3>1, <3>2, <3>3 DEF InTransit
    <3> QED BY <3>4, <3>5
  <2> QED BY <2>1, <2>2
<1>9. ASSUME NEW p \in Pods, NotifyStatus(p) PROVE InTransit' /\ Forward
  <2>1. held[p].mon[1] \in Pods
    BY <1>9 DEF NotifyStatus, Carried, Result, Mon
  <2>2. /\ \/ notified' = notified
           \/ notified' = [notified EXCEPT ![held[p].mon[1]] = status[held[p].mon[1]]]
        /\ rpc' = [rpc EXCEPT ![p] = "select"]
        /\ held' = [held EXCEPT ![p] = NoResult]
        /\ UNCHANGED <<status, sent, mpc, out>>
    BY <1>9 DEF NotifyStatus, monVars
  <2>3. Forward
    BY <2>1, <2>2 DEF Forward, InTransit
  <2>4. InTransit'
    BY <2>1, <2>2 DEF InTransit
  <2> QED BY <2>3, <2>4
<1>10. ASSUME NEW p \in Pods, ReceiverStop(p) PROVE InTransit' /\ Forward
  BY <1>1, <1>10 DEF ReceiverStop, monVars, podVars
<1> QED
  BY <1>2, <1>3, <1>4, <1>5, <1>6, <1>7, <1>8, <1>9, <1>10 DEF Next, ReceiverStep

\* With a handler of its own, a pod's status never goes back to an older
\* report of the agent, and neither does what Kubernetes is told.
THEOREM StatusOrdered ==
  ASSUME OwnHandlers
  PROVE  Spec => StatusInOrder
<1>1. Init => InTransit
  BY DEF Init, InTransit, NoData
<1>2. IInv /\ InTransit /\ [Next]_vars => InTransit' /\ [Forward]_vars
  BY InTransitStep, OwnHandlers
<1> QED
  BY <1>1, <1>2, IInvHolds, PTL DEF Spec, StatusInOrder, Forward
=============================================================================
