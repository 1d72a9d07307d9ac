---------------------------- MODULE Ec2Provider ----------------------------
(***************************************************************************)
(* The pod lifecycle of the provider: CreatePod, UpdatePod and DeletePod    *)
(* (internal/ec2provider), the pod cache, the compute manager, the start-up *)
(* in cmd/virtual-kubelet, and what surrounds them: the Kubernetes API, the *)
(* Virtual Kubelet controller that calls the provider, and EC2.             *)
(*                                                                         *)
(* The controller works on one key at a time per pod, so every pod has one  *)
(* worker; its program counter advances at the calls that leave the         *)
(* process, where other pods, users, status reports and crashes interleave. *)
(* A pod object is what the provider reads or writes of it: the instance-id *)
(* annotation, the other metadata (a revision), its status and its IP, an   *)
(* IP being named by the instance that has it.                              *)
(***************************************************************************)
EXTENDS Naturals, FiniteSets

CONSTANTS
  Pods, Instances,
  None,         \* the empty instance id or IP
  WarmPools,    \* whether a Warm Pool is configured: the choices explored
  PoolInstances, \* its instances, Ready before the provider first starts
  OldInstances, \* without one: instances of earlier lives of the pods
  Faults,       \* which external calls may fail
  NeverRestart, \* pods whose restartPolicy may be Never
  BarePods,     \* pods that may have no annotation at all
  MaxRetries,   \* attempts at one key before the controller forgets it
  MaxRev,       \* bound: metadata edits of one pod by its users
  MaxCrashes    \* bound: crashes of the provider process

\* DescribeInstanceStatus, RunInstances, the wait for an IP, a call of the
\* agent, a dial that succeeds as its context expires, TerminateInstances after
\* a failed launch and in DeletePod, CreateTags.
FaultKinds == {"describe", "run", "ip", "agent", "dial", "cleanup", "terminate", "tag"}

ASSUME NoneAssumption   == None \notin Instances /\ None \notin Pods
ASSUME ConfigAssumption == /\ WarmPools \subseteq BOOLEAN
                           /\ PoolInstances \cup OldInstances \subseteq Instances
                           /\ Faults \subseteq FaultKinds
                           /\ NeverRestart \cup BarePods \subseteq Pods
                           /\ MaxRetries \in Nat \ {0}
ASSUME BoundsAssumption == MaxRev \in Nat /\ MaxCrashes \in Nat

VARIABLES
  warm,       \* a Warm Pool is configured
  never,      \* pods whose restartPolicy is Never
  bare,       \* pods whose map of annotations is nil
  up,         \* provider process: down, cache populated, controller running
  crashes,    \* crashes so far
  bound,      \* pods that have been bound to the node
  k8s,        \* the pod in the Kubernetes API
  lister,     \* the pod in the controller's informer cache
  lastUsed,   \* knownPod.lastPodUsed
  lastStatus, \* knownPod.lastPodStatusReceivedFromProvider
  skipped,    \* knownPod.lastPodStatusUpdateSkipped
  workq, statusq, deleteq, \* keys in the controller's three queues
  tries,      \* queueItem.requeues of the key in workq; MaxRetries: it was dropped
  using,      \* the lister's pod that the worker is syncing
  why,        \* which caller entered DeletePod
  pc,         \* worker of the pod
  arg,        \* the pod object given to DeletePod
  cpod,       \* PodCache: metaPod.pod
  mon,        \* PodCache: metaPod.monitor
  mpod,       \* the pod object that the monitor reports on
  inst,       \* EC2 instance state
  tag,        \* EC2 tag WarmpoolStatus
  app         \* the pod whose application the agent of an instance runs

ctlVars  == <<lister, lastUsed, lastStatus, skipped, workq, statusq, deleteq, tries>>
provVars == <<cpod, mon, mpod>>
ec2Vars  == <<inst, tag, app>>
procVars == <<up, crashes>>
given    == <<warm, never, bare>>
vars     == <<given, procVars, bound, k8s, ctlVars, using, why, pc, arg, provVars, ec2Vars>>

-----------------------------------------------------------------------------
(* Types and derived state *)

Ids == Instances \cup {None}

\* Pod status as the controller tells it apart: no container has a state yet,
\* some container runs, or the pod and its containers are finished.
Statuses == {"pending", "running", "terminal"}

Pod    == [exists : BOOLEAN, deleting : BOOLEAN, annot : Ids,
           rev : 0 .. MaxRev, st : Statuses, ip : Ids]
Absent == [exists |-> FALSE, deleting |-> FALSE, annot |-> None,
           rev |-> 0, st |-> "pending", ip |-> None]

\* A pod that has just been bound, annotated with i.
NewPod(i) == [exists |-> TRUE, deleting |-> FALSE, annot |-> i,
              rev |-> 0, st |-> "pending", ip |-> None]

\* podsEqual, and podsEffectivelyEqual, which also sees a deletion.
PodsEqual(a, b) == a.annot = b.annot /\ a.rev = b.rev
PodsEffectivelyEqual(a, b) == PodsEqual(a, b) /\ a.deleting = b.deleting

CreatePCs == {"compute", "annotate", "ip", "tagpod", "launch", "cleanup", "taginuse", "start"}
DeletePCs == {"stop", "hang", "termapp", "term", "forget"}

IsRunning(i) == i \in Instances /\ inst[i] = "running"

Idle(p) == pc[p] = "idle"

\* GetPod finds the pod in the cache.
Known(p) == cpod[p].exists

\* The instances that run before the provider first starts.
PreRunning == IF warm THEN PoolInstances ELSE OldInstances

Init ==
  /\ warm \in WarmPools /\ never \in SUBSET NeverRestart /\ bare \in SUBSET BarePods
  /\ up = "populated" /\ crashes = 0
  /\ bound      = {}
  /\ k8s        = [p \in Pods |-> Absent]
  /\ lister     = [p \in Pods |-> Absent]
  /\ lastUsed   = [p \in Pods |-> Absent]
  /\ lastStatus = [p \in Pods |-> Absent]
  /\ skipped    = [p \in Pods |-> FALSE]
  /\ workq      = [p \in Pods |-> FALSE]
  /\ statusq    = [p \in Pods |-> FALSE]
  /\ deleteq    = [p \in Pods |-> FALSE]
  /\ tries      = [p \in Pods |-> 0]
  /\ using      = [p \in Pods |-> Absent]
  /\ why        = [p \in Pods |-> "none"]
  /\ pc         = [p \in Pods |-> "idle"]
  /\ arg        = [p \in Pods |-> Absent]
  /\ cpod       = [p \in Pods |-> Absent]
  /\ mon        = [p \in Pods |-> "none"]
  /\ mpod       = [p \in Pods |-> Absent]
  /\ inst       = [i \in Instances |-> IF i \in PreRunning THEN "running" ELSE "absent"]
  /\ tag        = [i \in Instances |-> IF warm /\ i \in PreRunning THEN "Ready" ELSE "none"]
  /\ app        = [i \in Instances |-> None]

-----------------------------------------------------------------------------
(* Users and the Kubernetes API *)

\* A pod is bound to the node, once.  Its manifest may carry the annotation
\* of an instance left from an earlier life of the pod.
BindPod(p) ==
  /\ p \notin bound
  /\ bound' = bound \cup {p}
  /\ \E i \in {None} \cup {j \in PreRunning : /\ ~warm /\ p \notin bare /\ inst[j] = "running"
                                            /\ \A q \in Pods : k8s[q].annot # j} :
       k8s' = [k8s EXCEPT ![p] = NewPod(i)]
  /\ UNCHANGED <<given, procVars, ctlVars, using, why, pc, arg, provVars, ec2Vars>>

\* A user edits labels or other annotations.
TouchPod(p) ==
  /\ k8s[p].exists /\ k8s[p].rev < MaxRev
  /\ k8s' = [k8s EXCEPT ![p] = [k8s[p] EXCEPT !.rev = k8s[p].rev + 1]]
  /\ UNCHANGED <<procVars, given, bound, ctlVars, using, why, pc, arg, provVars, ec2Vars>>

\* A user deletes the pod: the API server sets its DeletionTimestamp.
MarkDeleted(p) ==
  /\ k8s[p].exists /\ ~k8s[p].deleting
  /\ k8s' = [k8s EXCEPT ![p] = [k8s[p] EXCEPT !.deleting = TRUE]]
  /\ UNCHANGED <<procVars, given, bound, ctlVars, using, why, pc, arg, provVars, ec2Vars>>

\* UpdateStatus replaces the metadata and the status of a pod that exists.
UpdateStatus(p, o) ==
  LET written == [exists |-> TRUE, deleting |-> k8s[p].deleting, annot |-> o.annot,
                  rev |-> o.rev, st |-> o.st, ip |-> o.ip] IN
  k8s' = IF k8s[p].exists
         THEN [k8s EXCEPT ![p] = written]
         ELSE k8s

-----------------------------------------------------------------------------
(* The Virtual Kubelet pod controller *)

\* The workers start once the dangling pods have been dealt with.
Working == up = "up" /\ \A p \in Pods : why[p] # "dangling"

\* The informer delivers the current pod: AddFunc, UpdateFunc or DeleteFunc.
Inform(p) ==
  LET old == lister[p]
      new == k8s[p]
      Resend == /\ skipped[p]
                /\ \/ ~PodsEqual(new, lastStatus[p])
                   \/ new.st # lastStatus[p].st \/ new.ip # lastStatus[p].ip IN
  /\ up = "up" /\ old # new
  /\ lister' = [lister EXCEPT ![p] = new]
  /\ IF old.exists /\ new.exists
     THEN /\ workq'   = [workq EXCEPT ![p] = @ \/ ~PodsEffectivelyEqual(old, new)]
          /\ statusq' = [statusq EXCEPT ![p] = @ \/ Resend]
          /\ skipped' = [skipped EXCEPT ![p] = @ /\ ~Resend]
          /\ UNCHANGED <<lastUsed, lastStatus, deleteq>>
     ELSE /\ workq'      = [workq EXCEPT ![p] = TRUE]
          /\ lastUsed'   = [lastUsed EXCEPT ![p] = Absent]
          /\ lastStatus' = [lastStatus EXCEPT ![p] = Absent]
          /\ skipped'    = [skipped EXCEPT ![p] = FALSE]
          /\ deleteq'    = [deleteq EXCEPT ![p] = @ /\ new.exists]
          /\ UNCHANGED statusq
  /\ UNCHANGED <<procVars, given, bound, k8s, tries, using, why, pc, arg, provVars, ec2Vars>>

\* enqueuePodStatusUpdate: the notifier the provider is given by NotifyPods.
\* A pod that is not in the lister is dropped, a repeated one is skipped.
Notify(p, o) ==
  IF lister[p].exists /\ lastStatus[p] # o
  THEN /\ lastStatus' = [lastStatus EXCEPT ![p] = o]
       /\ statusq'    = [statusq EXCEPT ![p] = TRUE]
       /\ skipped'    = [skipped EXCEPT ![p] = FALSE]
  ELSE /\ skipped'    = [skipped EXCEPT ![p] = lister[p].exists]
       /\ UNCHANGED <<lastStatus, statusq>>

\* syncPodStatusFromProvider: write the provider's last pod to the API, unless
\* the lister already shows a terminal phase.
UpdatePodStatus(p) ==
  /\ Working /\ statusq[p]
  /\ statusq' = [statusq EXCEPT ![p] = FALSE]
  /\ IF lister[p].exists /\ lister[p].st # "terminal" /\ lastStatus[p].exists
     THEN UpdateStatus(p, lastStatus[p])
     ELSE UNCHANGED k8s
  /\ UNCHANGED <<procVars, given, bound, lister, lastUsed, lastStatus, skipped, workq,
                 deleteq, tries, using, why, pc, arg, provVars, ec2Vars>>

\* deletePodsFromKubernetes: the pod object is removed from the API.
DeleteFromKubernetes(p) ==
  /\ Working /\ deleteq[p]
  /\ deleteq' = [deleteq EXCEPT ![p] = FALSE]
  /\ k8s' = IF lister[p].exists THEN [k8s EXCEPT ![p] = Absent] ELSE k8s
  /\ UNCHANGED <<procVars, given, bound, lister, lastUsed, lastStatus, skipped, workq,
                 statusq, tries, using, why, pc, arg, provVars, ec2Vars>>

\* A worker takes the key of p.
Dequeue(p) ==
  /\ Working /\ Idle(p) /\ workq[p]
  /\ workq' = [workq EXCEPT ![p] = FALSE]

\* The handler succeeded: its next item starts counting afresh.
Handled(p) == tries' = [tries EXCEPT ![p] = 0]

\* Mutant: the attempts are counted and not limited.
RetryForever(p) ==
  /\ workq' = [workq EXCEPT ![p] = TRUE]
  /\ tries' = [tries EXCEPT ![p] = @ + 1]

\* Mutant: a key is forgotten when its handler fails.
RetryNever(p) ==
  /\ tries' = [tries EXCEPT ![p] = 0]
  /\ UNCHANGED workq

\* The handler failed: the key is queued again, up to MaxRetries attempts, and
\* then dropped.  A key that was dropped earlier has been counted afresh since
\* it was queued.
Retry(p) ==
  LET requeues == IF tries[p] = MaxRetries THEN 0 ELSE tries[p]
      again    == requeues + 1 < MaxRetries IN
  /\ workq' = [workq EXCEPT ![p] = @ \/ again]
  /\ tries' = [tries EXCEPT ![p] = IF again THEN requeues + 1 ELSE MaxRetries]

\* A deleted pod whose containers do not run is removed from the API; the
\* provider hears of it when the lister has lost the pod.
ForceDelete(p) == lister[p].exists /\ lister[p].deleting /\ lister[p].st # "running"

\* The worker has to go on, because the pod differs from the one last used.
Changed(p) ==
  /\ lister[p].exists /\ ~ForceDelete(p)
  /\ ~(lastUsed[p].exists /\ PodsEffectivelyEqual(lastUsed[p], lister[p]))

\* The passes of the sync handler that do not call the provider.
SyncWithoutProvider(p) ==
  /\ Dequeue(p)
  /\ \/ /\ ~lister[p].exists /\ ~Known(p)
        /\ UNCHANGED <<lastUsed, deleteq>>
     \/ /\ ForceDelete(p)
        /\ deleteq' = [deleteq EXCEPT ![p] = TRUE]
        /\ UNCHANGED lastUsed
     \/ /\ lister[p].exists /\ ~ForceDelete(p) /\ ~Changed(p)
        /\ UNCHANGED <<lastUsed, deleteq>>
     \/ /\ Changed(p) /\ ~lister[p].deleting
        /\ \/ lister[p].st = "terminal"
           \/ Known(p) /\ PodsEqual(cpod[p], lister[p])
        /\ lastUsed' = [lastUsed EXCEPT ![p] = lister[p]]
        /\ UNCHANGED deleteq
  /\ Handled(p)
  /\ UNCHANGED <<procVars, given, bound, k8s, lister, lastStatus, skipped, statusq,
                 using, why, pc, arg, provVars, ec2Vars>>

-----------------------------------------------------------------------------
(* UpdatePod *)

\* The cached pod object is replaced; the monitor keeps reporting on the old.
UpdatePod(p) ==
  /\ Dequeue(p)
  /\ Changed(p) /\ ~lister[p].deleting /\ lister[p].st # "terminal"
  /\ Known(p) /\ ~PodsEqual(cpod[p], lister[p])
  /\ cpod'     = [cpod EXCEPT ![p] = lister[p]]
  /\ lastUsed' = [lastUsed EXCEPT ![p] = lister[p]]
  /\ Handled(p)
  /\ UNCHANGED <<procVars, given, bound, k8s, lister, lastStatus, skipped, statusq,
                 deleteq, using, why, pc, arg, mon, mpod, ec2Vars>>

-----------------------------------------------------------------------------
(* CreatePod *)

\* CreatePod up to the compute manager: the pod is cached with a monitor that
\* has not been started.
CreatePod(p) ==
  /\ Dequeue(p)
  /\ Changed(p) /\ ~lister[p].deleting /\ lister[p].st # "terminal"
  /\ ~Known(p)
  /\ using' = [using EXCEPT ![p] = lister[p]]
  /\ cpod'  = [cpod EXCEPT ![p] = lister[p]]
  /\ mpod'  = [mpod EXCEPT ![p] = lister[p]]
  /\ mon'   = [mon EXCEPT ![p] = "new"]
  /\ pc'    = [pc EXCEPT ![p] = "compute"]
  /\ UNCHANGED <<procVars, given, bound, k8s, lister, lastUsed, lastStatus, skipped,
                 statusq, deleteq, tries, why, arg, ec2Vars>>

\* The pod object given to CreatePod is both the cached and the monitored one.
SetPod(p, o) == cpod' = [cpod EXCEPT ![p] = o] /\ mpod' = [mpod EXCEPT ![p] = o]

\* pods.Delete
Forget(p) ==
  /\ cpod' = [cpod EXCEPT ![p] = Absent]
  /\ mpod' = [mpod EXCEPT ![p] = Absent]
  /\ mon'  = [mon EXCEPT ![p] = "none"]

\* Mutant: the provider's pod object is written back, with its annotation.
CreateErrorShared(p) ==
  /\ UpdateStatus(p, [cpod[p] EXCEPT !.st = "pending"])
  /\ Retry(p)
  /\ using' = [using EXCEPT ![p] = Absent]
  /\ pc'    = [pc EXCEPT ![p] = "idle"]
  /\ UNCHANGED <<procVars, given, bound, lister, lastUsed, lastStatus, skipped, statusq,
                 deleteq, why, arg>>

\* CreatePod returns an error: handleProviderError writes the controller's own
\* copy of the pod back as Pending, or Failed if it is never to be restarted.
CreateError(p) ==
  /\ UpdateStatus(p, [using[p] EXCEPT !.st = IF p \in never THEN "terminal" ELSE "pending"])
  /\ Retry(p)
  /\ using' = [using EXCEPT ![p] = Absent]
  /\ pc'    = [pc EXCEPT ![p] = "idle"]
  /\ UNCHANGED <<procVars, given, bound, lister, lastUsed, lastStatus, skipped, statusq,
                 deleteq, why, arg>>

\* What is left of the process when it dies: nothing.
LoseProcess ==
  /\ up' = "down"
  /\ lister'     = [q \in Pods |-> Absent]
  /\ lastUsed'   = [q \in Pods |-> Absent]
  /\ lastStatus' = [q \in Pods |-> Absent]
  /\ skipped'    = [q \in Pods |-> FALSE]
  /\ tries'      = [q \in Pods |-> 0]
  /\ workq'      = [q \in Pods |-> FALSE]
  /\ statusq'    = [q \in Pods |-> FALSE]
  /\ deleteq'    = [q \in Pods |-> FALSE]
  /\ using'      = [q \in Pods |-> Absent]
  /\ why'        = [q \in Pods |-> "none"]
  /\ pc'         = [q \in Pods |-> "idle"]
  /\ arg'        = [q \in Pods |-> Absent]
  /\ cpod'       = [q \in Pods |-> Absent]
  /\ mon'        = [q \in Pods |-> "none"]
  /\ mpod'       = [q \in Pods |-> Absent]
  /\ UNCHANGED <<given, bound, k8s, ec2Vars>>

\* A goroutine of the provider dereferences nil: the process ends.
Panic == LoseProcess /\ UNCHANGED crashes

\* CreatePod goes on to its next call.
Continue(p, next) ==
  /\ pc' = [pc EXCEPT ![p] = next]
  /\ UNCHANGED <<procVars, given, bound, k8s, ctlVars, using, why, arg, mon>>

HasInstance(p) == IsRunning(cpod[p].annot)

\* podHasInstance says no: there is none, or it could not be described.
LacksInstance(p) == ~HasInstance(p) \/ "describe" \in Faults

\* GetCompute finds the annotated instance running and reuses it.
ReuseCompute(p) ==
  /\ pc[p] = "compute" /\ HasInstance(p)
  /\ Continue(p, "launch")
  /\ UNCHANGED <<cpod, mpod, ec2Vars>>

\* The pod is annotated with its instance, and the call goes on; the nil map of
\* a pod without annotations cannot be written to.
Annotate(p, o, next) ==
  IF p \in bare
  THEN Continue(p, "annotate") /\ UNCHANGED <<cpod, mpod>>
  ELSE Continue(p, next) /\ SetPod(p, o)

\* CreateEC2: RunInstances, then the annotation.
CreateEC2(p) ==
  /\ pc[p] = "compute" /\ LacksInstance(p) /\ ~warm
  /\ \E i \in Instances :
       /\ inst[i] = "absent"
       /\ inst' = [inst EXCEPT ![i] = "running"]
       /\ Annotate(p, [cpod[p] EXCEPT !.annot = i], "ip")
  /\ UNCHANGED <<tag, app>>

\* The Ready map as a refresh rebuilds it from the tags in EC2.
ReadyInstances == {i \in Instances : IsRunning(i) /\ tag[i] = "Ready"}

\* GetWarmPoolInstanceIfExist refreshes and pops an instance; the tag is
\* changed by a later call.
TakeWarmInstance(p) ==
  /\ pc[p] = "compute" /\ LacksInstance(p) /\ warm
  /\ \E i \in ReadyInstances :
       Annotate(p, [[cpod[p] EXCEPT !.annot = i] EXCEPT !.ip = i], "tagpod")
  /\ UNCHANGED ec2Vars

\* The assignment to a nil map of annotations.
AnnotateNil(p) == pc[p] = "annotate" /\ Panic

\* createCompute fails: RunInstances returned an error, as it may without the
\* annotations that describe an instance, or there is no capacity.
NoCompute(p) ==
  /\ pc[p] = "compute" /\ LacksInstance(p) /\ ~warm
  /\ "run" \in Faults \/ p \in bare \/ \A i \in Instances : inst[i] # "absent"
  /\ Forget(p) /\ CreateError(p)
  /\ UNCHANGED ec2Vars

\* A Warm Pool is configured, and none of its instances is Ready.
NoWarmInstance(p) ==
  /\ pc[p] = "compute" /\ LacksInstance(p) /\ warm
  /\ ReadyInstances = {}
  /\ Forget(p) /\ CreateError(p)
  /\ UNCHANGED ec2Vars

\* GetPrivateIP waits for the instance to run, and gives up after a while.
GetPrivateIP(p) ==
  /\ pc[p] = "ip"
  /\ \/ /\ SetPod(p, [cpod[p] EXCEPT !.ip = cpod[p].annot])
        /\ Continue(p, "launch")
     \/ "ip" \in Faults /\ Forget(p) /\ CreateError(p)
  /\ UNCHANGED ec2Vars

\* updateEC2Tags: the tag WarmpoolStatus of an instance is overwritten.
UpdateEC2Tags(i, value) == tag' = [tag EXCEPT ![i] = value]

\* The end of GetCompute for a warm instance: tag "set_pod".
TagPendingPod(p) ==
  /\ pc[p] = "tagpod"
  /\ \/ /\ UpdateEC2Tags(cpod[p].annot, "PendingPod")
        /\ Continue(p, "launch")
        /\ UNCHANGED <<cpod, mpod>>
     \/ /\ "tag" \in Faults
        /\ Forget(p) /\ CreateError(p)
        /\ UNCHANGED tag
  /\ UNCHANGED <<inst, app>>

\* launchApplication, as far as the agent's answer.  A call that fails may or
\* may not have started the application.  (NilConnection: the call panics.)
LaunchApplication(p) ==
  LET started == [app EXCEPT ![cpod[p].ip] = p] IN
  /\ pc[p] = "launch"
  /\ \/ /\ IsRunning(cpod[p].ip)
        /\ app' = started
        /\ Continue(p, IF warm THEN "taginuse" ELSE "start")
     \/ /\ IsRunning(cpod[p].ip) /\ "agent" \in Faults
        /\ app' \in {app, started}
        /\ Continue(p, "cleanup")
     \/ /\ ~IsRunning(cpod[p].ip)
        /\ Continue(p, "cleanup")
        /\ UNCHANGED app
  /\ UNCHANGED <<cpod, mpod, inst, tag>>

\* launchApplication or terminateApp dials the agent, the dial succeeds as its
\* context expires, and the client is left with a nil connection, which the
\* call dereferences.
NilConnection(p) ==
  /\ pc[p] \in {"launch", "termapp"}
  /\ IsRunning(cpod[p].ip) /\ "dial" \in Faults
  /\ Panic

\* TerminateEC2(i): an empty or unknown id is no error.
TerminateEC2(i) ==
  IF IsRunning(i)
  THEN /\ inst' = [inst EXCEPT ![i] = "terminated"]
       /\ app'  = [app EXCEPT ![i] = None]
  ELSE UNCHANGED <<inst, app>>

\* Mutant: a failed launch does not delete the instance.
CleanUpNothing(p) ==
  /\ pc[p] = "cleanup"
  /\ Forget(p) /\ CreateError(p)
  /\ UNCHANGED ec2Vars

\* Mutant: the pod stays cached after a failed launch.
CleanUpCached(p) ==
  /\ pc[p] = "cleanup"
  /\ TerminateEC2(cpod[p].annot)
  /\ CreateError(p)
  /\ UNCHANGED <<provVars, tag>>

\* launchApplication failed: DeleteCompute, whose error is only logged.
CleanUpLaunch(p) ==
  /\ pc[p] = "cleanup"
  /\ \/ TerminateEC2(cpod[p].annot)
     \/ "cleanup" \in Faults /\ UNCHANGED <<inst, app>>
  /\ Forget(p) /\ CreateError(p)
  /\ UNCHANGED tag

\* Tag "set_in_use"; its error leaves the pod cached.
TagInUse(p) ==
  /\ pc[p] = "taginuse"
  /\ \/ /\ UpdateEC2Tags(cpod[p].annot, "InUse")
        /\ Continue(p, "start")
        /\ UNCHANGED <<cpod, mpod>>
     \/ /\ "tag" \in Faults
        /\ CreateError(p)
        /\ UNCHANGED <<provVars, tag>>
  /\ UNCHANGED <<inst, app>>

\* The monitor is started, Kubernetes is notified, CreatePod returns.
StartMonitor(p) ==
  /\ pc[p] = "start"
  /\ mon' = [mon EXCEPT ![p] = "on"]
  /\ Notify(p, cpod[p])
  /\ lastUsed' = [lastUsed EXCEPT ![p] = IF lister[p].exists THEN using[p] ELSE Absent]
  /\ using' = [using EXCEPT ![p] = Absent]
  /\ pc'    = [pc EXCEPT ![p] = "idle"]
  /\ Handled(p)
  /\ UNCHANGED <<procVars, given, bound, k8s, lister, workq, deleteq, why, arg, cpod,
                 mpod, ec2Vars>>

-----------------------------------------------------------------------------
(* The monitor, as far as the lifecycle sees it (module HealthMonitor) *)

\* A PodStatus from the agent is merged with the IP of the monitored pod
\* object, and that object is passed to the notifier.
ReportStatus(p) ==
  /\ up = "up" /\ mon[p] = "on"
  /\ IsRunning(mpod[p].ip) /\ app[mpod[p].ip] = p
  /\ \E s \in {"running", "terminal"} : Notify(p, [mpod[p] EXCEPT !.st = s])
  /\ UNCHANGED <<procVars, given, bound, k8s, lister, lastUsed, workq, deleteq, tries,
                 using, why, pc, arg, provVars, ec2Vars>>

-----------------------------------------------------------------------------
(* DeletePod *)

\* The sync handler calls DeletePod: with the lister's pod if it is marked for
\* deletion, with the provider's own cached pod if the lister has lost it.
DeletePod(p) ==
  /\ Dequeue(p)
  /\ \/ /\ Changed(p) /\ lister[p].deleting
        /\ arg'   = [arg EXCEPT ![p] = lister[p]]
        /\ using' = [using EXCEPT ![p] = lister[p]]
        /\ why'   = [why EXCEPT ![p] = "deleting"]
     \/ /\ ~lister[p].exists /\ Known(p)
        /\ arg'   = [arg EXCEPT ![p] = cpod[p]]
        /\ why'   = [why EXCEPT ![p] = "gone"]
        /\ UNCHANGED using
  /\ pc' = [pc EXCEPT ![p] = "stop"]
  /\ UNCHANGED <<procVars, given, bound, k8s, lister, lastUsed, lastStatus, skipped,
                 statusq, deleteq, tries, provVars, ec2Vars>>

\* stopPodMonitor.  Without a cached pod its error is logged through the nil
\* metaPod; a monitor that was never started has no cancel function to call:
\* both panic.  Stop waits for the goroutines of a running monitor, in vain if
\* one of them is left sending a result that nobody takes (HealthMonitor,
\* StopReturns); DeletePod then hangs until the process ends.
StopPodMonitor(p) ==
  /\ pc[p] = "stop"
  /\ \/ /\ mon[p] \in {"on", "off"}
        /\ mon' = [mon EXCEPT ![p] = "off"]
        /\ \/ pc' = [pc EXCEPT ![p] = "termapp"]
           \/ mon[p] = "on" /\ pc' = [pc EXCEPT ![p] = "hang"]
        /\ UNCHANGED <<procVars, given, bound, k8s, ctlVars, using, why, arg, cpod,
                       mpod, ec2Vars>>
     \/ mon[p] \notin {"on", "off"} /\ Panic

\* terminateApp asks the agent at the cached pod's IP; errors are ignored.
\* (NilConnection: the call panics.)
TerminateApp(p) ==
  /\ pc[p] = "termapp"
  /\ \/ IsRunning(cpod[p].ip) /\ app' = [app EXCEPT ![cpod[p].ip] = None]
     \/ ("agent" \in Faults \/ ~IsRunning(cpod[p].ip)) /\ UNCHANGED app
  /\ pc' = [pc EXCEPT ![p] = "term"]
  /\ UNCHANGED <<procVars, given, bound, k8s, ctlVars, using, why, arg, provVars, inst, tag>>

\* DeletePod returns.
DeleteReturns(p) ==
  /\ using' = [using EXCEPT ![p] = Absent]
  /\ why'   = [why EXCEPT ![p] = "none"]
  /\ arg'   = [arg EXCEPT ![p] = Absent]
  /\ pc'    = [pc EXCEPT ![p] = "idle"]

\* Mutant: DeletePod leaves the instance to be reused.
DeleteComputeNever(p) ==
  /\ pc[p] = "term"
  /\ pc' = [pc EXCEPT ![p] = "forget"]
  /\ UNCHANGED <<procVars, given, bound, k8s, ctlVars, using, why, arg, provVars, ec2Vars>>

\* DeleteCompute terminates the instance that the argument is annotated with.
\* On an error DeletePod returns with the pod still cached; the controller
\* tries again, except for a dangling pod.
DeleteCompute(p) ==
  /\ pc[p] = "term"
  /\ \/ /\ TerminateEC2(arg[p].annot)
        /\ pc' = [pc EXCEPT ![p] = "forget"]
        /\ UNCHANGED <<workq, tries, using, why, arg>>
     \/ /\ "terminate" \in Faults /\ IsRunning(arg[p].annot)
        /\ DeleteReturns(p)
        /\ IF why[p] = "dangling" THEN UNCHANGED <<workq, tries>> ELSE Retry(p)
        /\ UNCHANGED <<inst, app>>
  /\ UNCHANGED <<procVars, given, bound, k8s, lister, lastUsed, lastStatus, skipped,
                 statusq, deleteq, provVars, tag>>

\* notifyPodDelete: the phase and every container are terminated.
NotifyPodDelete(p) == Notify(p, [arg[p] EXCEPT !.st = "terminal"])

\* The pod leaves the cache, Kubernetes is told that it is finished, DeletePod
\* returns and the controller removes the pod from the API.
FinishDelete(p) ==
  /\ pc[p] = "forget"
  /\ Forget(p)
  /\ NotifyPodDelete(p)
  /\ IF why[p] = "deleting"
     THEN /\ lastUsed' = [lastUsed EXCEPT ![p] = IF lister[p].exists THEN using[p] ELSE Absent]
          /\ deleteq'  = [deleteq EXCEPT ![p] = TRUE]
     ELSE UNCHANGED <<lastUsed, deleteq>>
  /\ DeleteReturns(p)
  /\ Handled(p)
  /\ UNCHANGED <<procVars, given, bound, k8s, lister, workq, ec2Vars>>

-----------------------------------------------------------------------------
(* The process: crash and start-up *)

Crash ==
  /\ up # "down" /\ crashes < MaxCrashes
  /\ crashes' = crashes + 1
  /\ LoseProcess

\* podCache.Populate: a copy of every pod that Kubernetes lists for the node.
Populate == cpod' = k8s /\ mpod' = k8s

\* Mutant: the monitors are made and not started.
PopulateUnstarted == mon' = [p \in Pods |-> IF k8s[p].exists THEN "new" ELSE "none"]

\* PopulateCache: every cached pod gets a monitor, which is started.
PopulateCache == mon' = [p \in Pods |-> IF k8s[p].exists THEN "on" ELSE "none"]

\* Mutant: the cache starts empty.
RehydrateNothing ==
  /\ up = "down"
  /\ up' = "populated"
  /\ UNCHANGED <<crashes, given, bound, k8s, ctlVars, using, why, pc, arg,
                 provVars, ec2Vars>>

\* main, before the controller runs.
Rehydrate ==
  /\ up = "down"
  /\ up' = "populated"
  /\ Populate /\ PopulateCache
  /\ UNCHANGED <<crashes, given, bound, k8s, ctlVars, using, why, pc, arg, ec2Vars>>

\* Mutant: pods that are already there when the controller starts are missed.
RunControllerLate ==
  /\ up = "populated"
  /\ up'     = "up"
  /\ lister' = k8s
  /\ UNCHANGED <<crashes, given, bound, k8s, lastUsed, lastStatus, skipped,
                 workq, statusq, deleteq, tries, using, why, pc, arg, provVars, ec2Vars>>

\* The controller syncs its informer, queues every pod in it and deletes the
\* dangling pods, which the provider knows and the informer does not.
RunController ==
  LET Dangling(p) == Known(p) /\ ~k8s[p].exists IN
  /\ up = "populated"
  /\ up'     = "up"
  /\ lister' = k8s
  /\ workq'  = [p \in Pods |-> k8s[p].exists]
  /\ pc'     = [p \in Pods |-> IF Dangling(p) THEN "stop" ELSE "idle"]
  /\ why'    = [p \in Pods |-> IF Dangling(p) THEN "dangling" ELSE "none"]
  /\ arg'    = [p \in Pods |-> IF Dangling(p) THEN cpod[p] ELSE Absent]
  /\ UNCHANGED <<crashes, given, bound, k8s, lastUsed, lastStatus, skipped,
                 statusq, deleteq, tries, using, provVars, ec2Vars>>

-----------------------------------------------------------------------------
(* Specification *)

User(p) == BindPod(p) \/ TouchPod(p) \/ MarkDeleted(p)

Controller(p) ==
  \/ Inform(p) \/ UpdatePodStatus(p) \/ DeleteFromKubernetes(p)
  \/ SyncWithoutProvider(p)

Provider(p) ==
  \/ UpdatePod(p) \/ CreatePod(p) \/ DeletePod(p)
  \/ ReuseCompute(p) \/ CreateEC2(p) \/ TakeWarmInstance(p) \/ AnnotateNil(p) \/ NoCompute(p)
  \/ NoWarmInstance(p) \/ GetPrivateIP(p) \/ TagPendingPod(p) \/ LaunchApplication(p)
  \/ NilConnection(p) \/ CleanUpLaunch(p) \/ TagInUse(p) \/ StartMonitor(p)
  \/ StopPodMonitor(p) \/ TerminateApp(p) \/ DeleteCompute(p) \/ FinishDelete(p)

Next ==
  \/ \E p \in Pods : User(p) \/ Controller(p) \/ Provider(p) \/ ReportStatus(p)
  \/ Crash \/ Rehydrate \/ RunController

Spec == Init /\ [][Next]_vars

\* Queue workers, the informer and started calls go on, and the process is
\* restarted.  Nothing is assumed of users, of crashes or of the agents, and
\* a call that may fail may fail every time.
Fairness ==
  /\ \A p \in Pods : /\ WF_vars(Inform(p))
                     /\ WF_vars(UpdatePodStatus(p))
                     /\ WF_vars(DeleteFromKubernetes(p))
                     /\ WF_vars(SyncWithoutProvider(p) \/ Provider(p))
  /\ WF_vars(Rehydrate) /\ WF_vars(RunController)

LiveSpec == Spec /\ Fairness

-----------------------------------------------------------------------------
(* Properties *)

TypeOK ==
  /\ warm \in WarmPools /\ never \subseteq NeverRestart /\ bare \subseteq BarePods
  /\ up \in {"down", "populated", "up"}
  /\ crashes \in 0 .. MaxCrashes
  /\ bound \subseteq Pods
  /\ \A v \in {k8s, lister, lastUsed, lastStatus, using, arg, cpod, mpod} : v \in [Pods -> Pod]
  /\ \A v \in {skipped, workq, statusq, deleteq} : v \in [Pods -> BOOLEAN]
  /\ tries \in [Pods -> 0 .. MaxRetries]
  /\ why   \in [Pods -> {"none", "deleting", "gone", "dangling"}]
  /\ pc    \in [Pods -> {"idle"} \cup CreatePCs \cup DeletePCs]
  /\ mon   \in [Pods -> {"none", "new", "on", "off"}]
  /\ inst  \in [Instances -> {"absent", "running", "terminated"}]
  /\ tag   \in [Instances -> {"none", "Ready", "PendingPod", "InUse"}]
  /\ app   \in [Instances -> Pods \cup {None}]

\* Somebody still knows that instance i belongs to p.
Knows(p, i) == \E o \in {k8s[p], cpod[p], mpod[p], arg[p]} : o.annot = i

\* Instances that the provider has launched or taken from the Warm Pool.
Allotted(i) == IF warm THEN tag[i] \in {"PendingPod", "InUse"} ELSE i \notin PreRunning

\* Every instance that was allotted to a pod and still runs is known to the
\* pod object in Kubernetes, to the cache or to a call in progress: failed
\* launches and deletions leave no instance behind.
NoOrphan ==
  \A i \in Instances : IsRunning(i) /\ Allotted(i) => \E p \in Pods : Knows(p, i)

\* The application of a pod runs on at most one instance, however often its
\* launch is repeated.
OneApplication ==
  \A i, j \in Instances : app[i] # None /\ app[i] = app[j] => i = j

\* The instance recorded in Kubernetes for a pod that is not being deleted is
\* running, across failed launches, crashes and restarts.
RecordedInstanceRuns ==
  \A p \in Pods : k8s[p].annot # None /\ ~k8s[p].deleting => IsRunning(k8s[p].annot)

\* While the process is up, its cache has the instance recorded in Kubernetes:
\* a later deletion terminates the right one.
CacheMatchesRecord ==
  \A p \in Pods :
    up # "down" /\ k8s[p].annot # None /\ ~k8s[p].deleting => cpod[p].annot = k8s[p].annot

\* While DeletePod is at work the pod is in the cache, so that the metaPod it
\* dereferences is not nil, and its monitor has been started, so that Stop has a
\* cancel function to call.  (With a Warm Pool, a failed set_in_use tag leaves a
\* pod cached whose monitor was never started.)
DeleteFindsPod ==
  \A p \in Pods : pc[p] \in DeletePCs =>
    Known(p) /\ (mon[p] \in {"on", "off"} \/ (warm /\ mon[p] = "new"))

\* A cached pod that no call is working on has had its monitor started.
CachedIsMonitored ==
  \A p \in Pods : Known(p) /\ Idle(p) => mon[p] \in {"on", "off"}

\* The monitor of p is on and some agent runs its application.
Launched(p) == mon[p] = "on" /\ \E i \in Instances : app[i] = p

\* The controller's queue has dropped the key of p after MaxRetries failures.
Dropped(p) == up = "up" /\ Idle(p) /\ ~workq[p] /\ tries[p] = MaxRetries

\* The attempts to create p are used up: everybody knows of the pod and nobody
\* is going to create it.
GaveUp(p) == Dropped(p) /\ lister[p] = k8s[p] /\ ~Known(p)

\* A pod that is bound to the node is launched, unless it is deleted first or
\* MaxRetries attempts in a row have failed.
PodLaunched ==
  \A p \in Pods :
    k8s[p].exists ~> ~k8s[p].exists \/ k8s[p].deleting \/ Launched(p) \/ GaveUp(p)

\* DeletePod of p does not return, or the controller still waits for that of a
\* dangling pod.
Stuck(p) == \E q \in Pods : pc[q] = "hang" /\ (q = p \/ why[q] = "dangling")

\* A pod that is deleted leaves Kubernetes and the cache, crashes or not, unless
\* its DeletePod hangs in Stop for ever.
PodRemoved ==
  \A p \in Pods :
    k8s[p].deleting ~> (~k8s[p].exists /\ ~Known(p)) \/ []Stuck(p)

\* A pod that is deleted leaves Kubernetes and its application does not keep
\* running, unless its DeletePod hangs in Stop for ever or every attempt at it
\* has failed.
PodTerminated ==
  \A p \in Pods :
    k8s[p].deleting ~> \/ ~k8s[p].exists /\ \A i \in Instances : app[i] # p
                       \/ [](Stuck(p) \/ Dropped(p))
=============================================================================
