---------------------------- MODULE Ec2Provider_proofs ----------------------------
(***************************************************************************)
(* What the pod lifecycle guarantees for every number of pods, instances,    *)
(* attempts, crashes and edits, unless a theorem says otherwise.             *)
(*                                                                         *)
(* Every step works on one pod or on the process, and the invariants are     *)
(* about single pods, so a step is first told by what it does to its pod     *)
(* (StepOf).  Base is what always holds of a pod: what its worker, the       *)
(* cache, the informer and the API can have of it.  Launching adds that      *)
(* nobody outside the provider sees an IP before the first launch succeeds.  *)
(* From the two follow, each with what it needs in addition: one application *)
(* per pod (Apps), deletions of known pods (Deletes), a cache that agrees     *)
(* with Kubernetes (Fresh), recorded instances that run (Records), no orphans *)
(* (Held).                                                                  *)
(***************************************************************************)
EXTENDS Ec2Provider, TLAPS

-----------------------------------------------------------------------------
(* Types *)

\* The type invariant in parts: the process, the pod objects, the queues, the
\* workers, EC2.
TProc ==
  /\ warm \in WarmPools /\ never \subseteq NeverRestart /\ bare \subseteq BarePods
  /\ up \in {"down", "populated", "up"}
  /\ crashes \in 0 .. MaxCrashes
  /\ bound \subseteq Pods

\* The pod objects, wherever they are.
TObj ==
  /\ k8s \in [Pods -> Pod] /\ lister \in [Pods -> Pod]
  /\ lastUsed \in [Pods -> Pod] /\ lastStatus \in [Pods -> Pod]
  /\ using \in [Pods -> Pod] /\ arg \in [Pods -> Pod]
  /\ cpod \in [Pods -> Pod] /\ mpod \in [Pods -> Pod]

\* The queues of the controller.
TQueue ==
  /\ skipped \in [Pods -> BOOLEAN] /\ workq \in [Pods -> BOOLEAN]
  /\ statusq \in [Pods -> BOOLEAN] /\ deleteq \in [Pods -> BOOLEAN]

\* The attempts at a key.
TTries == tries \in [Pods -> 0 .. MaxRetries]

\* The workers and the monitors.
TWork ==
  /\ why \in [Pods -> {"none", "deleting", "gone", "dangling"}]
  /\ pc  \in [Pods -> {"idle"} \cup CreatePCs \cup DeletePCs]
  /\ mon \in [Pods -> {"none", "new", "on", "off"}]

\* Instances, their tags and what runs on them.
TEc2 ==
  /\ inst \in [Instances -> {"absent", "running", "terminated"}]
  /\ tag  \in [Instances -> {"none", "Ready", "PendingPod", "InUse"}]
  /\ app  \in [Instances -> Pods \cup {None}]

\* All of them.
TInv == TProc /\ TObj /\ TQueue /\ TTries /\ TWork /\ TEc2

\* Pod objects that the model makes from others.
LEMMA PodTypes ==
  /\ Absent \in Pod
  /\ \A i \in Ids : NewPod(i) \in Pod
  /\ \A o \in Pod : /\ \A s \in Statuses : [o EXCEPT !.st = s] \in Pod
                    /\ \A i \in Ids : /\ [o EXCEPT !.annot = i] \in Pod
                                      /\ [o EXCEPT !.ip = i] \in Pod
                                      /\ [[o EXCEPT !.annot = i] EXCEPT !.ip = i] \in Pod
                    /\ [o EXCEPT !.deleting = TRUE] \in Pod
<1>1. Absent \in Pod /\ \A i \in Ids : NewPod(i) \in Pod
  BY BoundsAssumption DEF NewPod, Absent, Pod, Statuses, Ids
<1>2. ASSUME NEW o \in Pod, NEW i \in Ids, NEW s \in Statuses
      PROVE  /\ [o EXCEPT !.st = s] \in Pod
             /\ [o EXCEPT !.annot = i] \in Pod
             /\ [o EXCEPT !.ip = i] \in Pod
             /\ [[o EXCEPT !.annot = i] EXCEPT !.ip = i] \in Pod
             /\ [o EXCEPT !.deleting = TRUE] \in Pod
  BY DEF Pod
<1>3. None \in Ids /\ "pending" \in Statuses
  BY DEF Ids, Statuses
<1> QED BY <1>1, <1>2, <1>3

\* At the beginning.
LEMMA TypeInit == Init => TInv
<1> SUFFICES ASSUME Init PROVE TInv
  OBVIOUS
<1> USE DEF Init
<1>1. TProc
  BY BoundsAssumption DEF TProc
<1>2. TObj
  BY PodTypes DEF TObj
<1>3. TQueue
  BY DEF TQueue
<1>4. TTries
  BY ConfigAssumption DEF TTries
<1>5. TWork
  BY DEF TWork
<1>6. TEc2
  BY DEF TEc2
<1> QED BY <1>1, <1>2, <1>3, <1>4, <1>5, <1>6 DEF TInv

\* The users and the API.
LEMMA UserTypes ==
  ASSUME TInv, NEW p \in Pods, User(p)
  PROVE  TInv'
<1> USE DEF given, procVars, ctlVars, provVars, ec2Vars
<1>1. /\ UNCHANGED <<warm, never, bare, up, crashes, lister, lastUsed, lastStatus, skipped,
                     workq, statusq, deleteq, tries, using, why, pc, arg, cpod, mon, mpod,
                     inst, tag, app>>
      /\ bound' \subseteq Pods
  BY DEF User, BindPod, TouchPod, MarkDeleted, TInv, TProc
<1>2. k8s' \in [Pods -> Pod]
  <2>1. CASE BindPod(p)
    <3>1. PreRunning \subseteq Instances
      BY ConfigAssumption DEF PreRunning
    <3>2. PICK i \in Ids : k8s' = [k8s EXCEPT ![p] = NewPod(i)]
      BY <2>1, <3>1 DEF BindPod, Ids
    <3>3. NewPod(i) \in Pod
      BY PodTypes
    <3> QED BY <3>2, <3>3 DEF TInv, TObj
  <2>2. CASE TouchPod(p)
    <3>1. k8s[p] \in Pod /\ k8s[p].rev < MaxRev
      BY <2>2 DEF TouchPod, TInv, TObj
    <3>2. [k8s[p] EXCEPT !.rev = k8s[p].rev + 1] \in Pod
      BY <3>1, BoundsAssumption DEF Pod
    <3> QED BY <2>2, <3>2 DEF TouchPod, TInv, TObj
  <2>3. CASE MarkDeleted(p)
    <3>1. [k8s[p] EXCEPT !.deleting = TRUE] \in Pod
      BY PodTypes DEF TInv, TObj
    <3> QED BY <2>3, <3>1 DEF MarkDeleted, TInv, TObj
  <2> QED BY <2>1, <2>2, <2>3 DEF User
<1>3. TProc' /\ TObj'
  BY <1>1, <1>2 DEF TInv, TProc, TObj
<1>4. TQueue' /\ TTries' /\ TWork' /\ TEc2'
  BY <1>1 DEF TInv, TQueue, TTries, TWork, TEc2
<1> QED BY <1>3, <1>4 DEF TInv

\* UpdateStatus stores a pod.
LEMMA UpdateStatusType ==
  ASSUME TInv, NEW p \in Pods, NEW o \in Pod, UpdateStatus(p, o)
  PROVE  k8s' \in [Pods -> Pod]
<1>1. [exists |-> TRUE, deleting |-> k8s[p].deleting, annot |-> o.annot,
       rev |-> o.rev, st |-> o.st, ip |-> o.ip] \in Pod
  BY DEF TInv, TObj, Pod
<1> QED BY <1>1 DEF UpdateStatus, TInv, TObj

\* A key is queued again or not.
LEMMA RetryType ==
  ASSUME TInv, NEW p \in Pods, Retry(p)
  PROVE  workq' \in [Pods -> BOOLEAN] /\ TTries'
<1>1. workq' \in [Pods -> BOOLEAN]
  <2>1. PICK again \in BOOLEAN : workq' = [workq EXCEPT ![p] = @ \/ again]
    BY DEF Retry
  <2> QED BY <2>1 DEF TInv, TQueue
<1>2. TTries'
  BY ConfigAssumption DEF Retry, TInv, TTries
<1> QED BY <1>1, <1>2

\* The notifier stores a pod.
LEMMA NotifyType ==
  ASSUME TInv, NEW p \in Pods, NEW o \in Pod, Notify(p, o)
  PROVE  /\ lastStatus' \in [Pods -> Pod]
         /\ statusq' \in [Pods -> BOOLEAN] /\ skipped' \in [Pods -> BOOLEAN]
<1>1. lister[p].exists \in BOOLEAN
  BY DEF TInv, TObj, Pod
<1>2. statusq' \in [Pods -> BOOLEAN] /\ skipped' \in [Pods -> BOOLEAN]
  BY <1>1 DEF Notify, TInv, TQueue
<1>3. lastStatus' \in [Pods -> Pod]
  BY DEF Notify, TInv, TObj
<1> QED BY <1>2, <1>3

\* The controller.
LEMMA ControllerTypes ==
  ASSUME TInv, NEW p \in Pods, Controller(p) \/ ReportStatus(p)
  PROVE  TInv'
<1> USE DEF given, procVars, ctlVars, provVars, ec2Vars
<1>1. UNCHANGED <<warm, never, bare, up, crashes, bound, using, why, pc, arg, cpod, mon, mpod,
                  inst, tag, app>>
  BY DEF Controller, Inform, UpdatePodStatus, DeleteFromKubernetes, SyncWithoutProvider,
     ReportStatus
<1>2. TProc' /\ TWork' /\ TEc2'
  BY <1>1 DEF TInv, TProc, TWork, TEc2
<1>3. CASE Inform(p)
  <2>1. TTries' /\ k8s' = k8s
    BY <1>3 DEF Inform, TInv, TTries
  <2>2. TObj'
    BY <1>1, <1>3, <2>1, PodTypes DEF Inform, TInv, TObj
  <2>3. TQueue'
    <3>1. \A a, b : (a \/ b) \in BOOLEAN /\ (a /\ b) \in BOOLEAN
      OBVIOUS
    <3> QED BY <1>3, <3>1, Zenon DEF Inform, TInv, TQueue
  <2> QED BY <1>2, <2>1, <2>2, <2>3 DEF TInv
<1>4. CASE UpdatePodStatus(p)
  <2>1. UNCHANGED <<lister, lastUsed, lastStatus, skipped, workq, deleteq, tries>>
    BY <1>4 DEF UpdatePodStatus
  <2>2. k8s' \in [Pods -> Pod]
    <3>1. lastStatus[p] \in Pod
      BY DEF TInv, TObj
    <3> QED BY <1>4, <3>1, UpdateStatusType DEF UpdatePodStatus, TInv, TObj
  <2>3. statusq' \in [Pods -> BOOLEAN]
    BY <1>4 DEF UpdatePodStatus, TInv, TQueue
  <2>4. TObj'
    BY <1>1, <2>1, <2>2 DEF TInv, TObj
  <2>5. TQueue' /\ TTries'
    BY <2>1, <2>3 DEF TInv, TQueue, TTries
  <2> QED BY <1>2, <2>4, <2>5 DEF TInv
<1>5. CASE DeleteFromKubernetes(p)
  <2>1. TObj'
    BY <1>1, <1>5, PodTypes DEF DeleteFromKubernetes, TInv, TObj
  <2>2. TQueue' /\ TTries'
    BY <1>5 DEF DeleteFromKubernetes, TInv, TQueue, TTries
  <2> QED BY <1>2, <2>1, <2>2 DEF TInv
<1>6. CASE SyncWithoutProvider(p)
  <2>1. TObj'
    BY <1>1, <1>6 DEF SyncWithoutProvider, TInv, TObj
  <2>2. TQueue'
    BY <1>6 DEF SyncWithoutProvider, Dequeue, TInv, TQueue
  <2>3. TTries'
    BY <1>6, ConfigAssumption DEF SyncWithoutProvider, Handled, TInv, TTries
  <2> QED BY <1>2, <2>1, <2>2, <2>3 DEF TInv
<1>7. CASE ReportStatus(p)
  <2>1. UNCHANGED <<k8s, lister, lastUsed, workq, deleteq, tries>>
    BY <1>7 DEF ReportStatus
  <2>2. PICK s \in Statuses : Notify(p, [mpod[p] EXCEPT !.st = s])
    BY <1>7 DEF ReportStatus, Statuses
  <2>3. [mpod[p] EXCEPT !.st = s] \in Pod
    BY PodTypes DEF TInv, TObj
  <2>4. /\ lastStatus' \in [Pods -> Pod]
        /\ statusq' \in [Pods -> BOOLEAN] /\ skipped' \in [Pods -> BOOLEAN]
    BY <2>2, <2>3, NotifyType
  <2>5. TObj'
    BY <1>1, <2>1, <2>4 DEF TInv, TObj
  <2>6. TQueue' /\ TTries'
    BY <2>1, <2>4 DEF TInv, TQueue, TTries
  <2> QED BY <1>2, <2>5, <2>6 DEF TInv
<1> QED BY <1>3, <1>4, <1>5, <1>6, <1>7 DEF Controller

\* CreatePod gives up: with or without the pod in the cache.
LEMMA CreateErrorTypes ==
  ASSUME TInv, NEW p \in Pods, CreateError(p)
  PROVE  TProc' /\ TQueue' /\ TTries'
         /\ k8s' \in [Pods -> Pod] /\ using' \in [Pods -> Pod]
         /\ pc' = [pc EXCEPT ![p] = "idle"]
         /\ UNCHANGED <<warm, never, bare, up, lister, lastUsed, lastStatus, why, arg>>
<1> USE DEF given, procVars
<1>1. /\ UNCHANGED <<warm, never, bare, up, crashes, bound, lister, lastUsed, lastStatus,
                     skipped, statusq, deleteq, why, arg>>
      /\ pc' = [pc EXCEPT ![p] = "idle"] /\ using' = [using EXCEPT ![p] = Absent]
  BY DEF CreateError
<1>2. TProc'
  BY <1>1 DEF TInv, TProc
<1>3. workq' \in [Pods -> BOOLEAN] /\ TTries'
  BY RetryType DEF CreateError
<1>4. TQueue'
  BY <1>1, <1>3 DEF TInv, TQueue
<1>5. using' \in [Pods -> Pod]
  BY <1>1, PodTypes DEF TInv, TObj
<1>6. k8s' \in [Pods -> Pod]
  <2>1. PICK s \in Statuses : UpdateStatus(p, [using[p] EXCEPT !.st = s])
    BY DEF CreateError, Statuses
  <2>2. [using[p] EXCEPT !.st = s] \in Pod
    BY PodTypes DEF TInv, TObj
  <2> QED BY <2>1, <2>2, UpdateStatusType
<1> QED BY <1>1, <1>2, <1>3, <1>4, <1>5, <1>6

\* The cache.
LEMMA CacheTypes ==
  ASSUME TInv, NEW p \in Pods,
         \/ Forget(p)
         \/ UNCHANGED provVars
         \/ UNCHANGED mon /\ \E o \in Pod : SetPod(p, o)
  PROVE  /\ cpod' \in [Pods -> Pod] /\ mpod' \in [Pods -> Pod]
         /\ mon' \in [Pods -> {"none", "new", "on", "off"}]
<1>1. CASE Forget(p)
  BY <1>1, PodTypes DEF Forget, TInv, TObj, TWork
<1>2. CASE UNCHANGED provVars
  BY <1>2 DEF provVars, TInv, TObj, TWork
<1>3. CASE UNCHANGED mon /\ \E o \in Pod : SetPod(p, o)
  BY <1>3 DEF SetPod, TInv, TObj, TWork
<1> QED BY <1>1, <1>2, <1>3

\* The steps of CreatePod that go on to another one or end with an error.
LEMMA CreateStepTypes ==
  ASSUME TInv, NEW p \in Pods,
         CreateError(p) \/ \E l \in CreatePCs : Continue(p, l),
         \/ Forget(p)
         \/ UNCHANGED provVars
         \/ UNCHANGED mon /\ \E o \in Pod : SetPod(p, o),
         TEc2'
  PROVE  TInv'
<1>1. /\ cpod' \in [Pods -> Pod] /\ mpod' \in [Pods -> Pod]
      /\ mon' \in [Pods -> {"none", "new", "on", "off"}]
  BY CacheTypes
<1>2. CASE CreateError(p)
  <2>1. /\ TProc' /\ TQueue' /\ TTries'
        /\ k8s' \in [Pods -> Pod] /\ using' \in [Pods -> Pod]
        /\ pc' = [pc EXCEPT ![p] = "idle"]
        /\ UNCHANGED <<lister, lastUsed, lastStatus, why, arg>>
    BY <1>2, CreateErrorTypes
  <2>2. TObj'
    BY <1>1, <2>1 DEF TInv, TObj
  <2>3. TWork'
    BY <1>1, <2>1 DEF TInv, TWork
  <2> QED BY <2>1, <2>2, <2>3 DEF TInv
<1>3. CASE \E l \in CreatePCs : Continue(p, l)
  <2>1. PICK l \in CreatePCs : Continue(p, l)
    BY <1>3
  <2>2. /\ UNCHANGED <<warm, never, bare, up, crashes, bound, k8s, lister, lastUsed, lastStatus,
                       skipped, workq, statusq, deleteq, tries, using, why, arg, mon>>
        /\ pc' = [pc EXCEPT ![p] = l]
    BY <2>1 DEF Continue, given, procVars, ctlVars
  <2>3. TProc' /\ TObj'
    BY <1>1, <2>2 DEF TInv, TProc, TObj
  <2>4. TQueue' /\ TTries'
    BY <2>2 DEF TInv, TQueue, TTries
  <2>5. TWork'
    BY <2>2 DEF TInv, TWork
  <2> QED BY <2>3, <2>4, <2>5 DEF TInv
<1> QED BY <1>2, <1>3

\* What CreatePod does after it has cached the pod.
Creating(p) ==
  \/ ReuseCompute(p) \/ CreateEC2(p) \/ TakeWarmInstance(p) \/ NoCompute(p)
  \/ NoWarmInstance(p) \/ GetPrivateIP(p) \/ TagPendingPod(p) \/ LaunchApplication(p)
  \/ CleanUpLaunch(p) \/ TagInUse(p)

\* The steps of CreatePod.
LEMMA CreatingTypes ==
  ASSUME TInv, NEW p \in Pods, Creating(p)
  PROVE  TInv'
<1>1. cpod[p] \in Pod /\ \A i \in Ids : /\ [cpod[p] EXCEPT !.annot = i] \in Pod
                                        /\ [cpod[p] EXCEPT !.ip = i] \in Pod
                                        /\ [[cpod[p] EXCEPT !.annot = i] EXCEPT !.ip = i] \in Pod
  BY PodTypes DEF TInv, TObj
<1>2. cpod[p].annot \in Ids /\ cpod[p].ip \in Ids
  BY <1>1 DEF Pod
<1>3. UNCHANGED ec2Vars => TEc2'
  BY DEF ec2Vars, TInv, TEc2
<1>4. \A l \in CreatePCs : Continue(p, l) => UNCHANGED mon
  BY DEF Continue
<1>5. CASE ReuseCompute(p)
  BY <1>3, <1>4, <1>5, CreateStepTypes DEF ReuseCompute, CreatePCs, provVars
<1>6. CASE CreateEC2(p)
  <2>1. PICK i \in Instances : /\ inst' = [inst EXCEPT ![i] = "running"]
                               /\ Annotate(p, [cpod[p] EXCEPT !.annot = i], "ip")
    BY <1>6 DEF CreateEC2
  <2>2. TEc2'
    BY <1>6, <2>1 DEF CreateEC2, TInv, TEc2
  <2> QED BY <1>1, <1>4, <2>1, <2>2, CreateStepTypes DEF Annotate, CreatePCs, provVars, Ids
<1>7. CASE TakeWarmInstance(p)
  <2>1. PICK i \in Instances :
          Annotate(p, [[cpod[p] EXCEPT !.annot = i] EXCEPT !.ip = i], "tagpod")
    BY <1>7 DEF TakeWarmInstance, ReadyInstances
  <2>2. TEc2'
    BY <1>3, <1>7 DEF TakeWarmInstance
  <2> QED BY <1>1, <1>4, <2>1, <2>2, CreateStepTypes DEF Annotate, CreatePCs, provVars, Ids
<1>8. CASE NoCompute(p) \/ NoWarmInstance(p)
  BY <1>3, <1>8, CreateStepTypes DEF NoCompute, NoWarmInstance
<1>9. CASE GetPrivateIP(p)
  BY <1>1, <1>2, <1>3, <1>4, <1>9, CreateStepTypes DEF GetPrivateIP, CreatePCs
<1>10. CASE TagPendingPod(p)
  <2>1. TEc2'
    BY <1>10 DEF TagPendingPod, UpdateEC2Tags, TInv, TEc2
  <2> QED BY <1>4, <1>10, <2>1, CreateStepTypes DEF TagPendingPod, CreatePCs, provVars
<1>11. CASE LaunchApplication(p)
  <2>1. TEc2'
    BY <1>11 DEF LaunchApplication, TInv, TEc2
  <2> QED BY <1>4, <1>11, <2>1, CreateStepTypes DEF LaunchApplication, CreatePCs, provVars
<1>12. CASE CleanUpLaunch(p)
  <2>1. TEc2'
    BY <1>12 DEF CleanUpLaunch, TerminateEC2, TInv, TEc2
  <2> QED BY <1>12, <2>1, CreateStepTypes DEF CleanUpLaunch
<1>13. CASE TagInUse(p)
  <2>1. TEc2'
    BY <1>13 DEF TagInUse, UpdateEC2Tags, TInv, TEc2
  <2> QED BY <1>4, <1>13, <2>1, CreateStepTypes DEF TagInUse, CreatePCs, provVars
<1> QED BY <1>5, <1>6, <1>7, <1>8, <1>9, <1>10, <1>11, <1>12, <1>13 DEF Creating

\* The calls of the provider begin, and CreatePod ends.
LEMMA BeginTypes ==
  ASSUME TInv, NEW p \in Pods, UpdatePod(p) \/ CreatePod(p) \/ DeletePod(p) \/ StartMonitor(p)
  PROVE  TInv'
<1> USE DEF given, procVars, provVars, ec2Vars
<1>1. UNCHANGED <<warm, never, bare, up, crashes, bound, k8s, lister, deleteq, inst, tag, app>>
  BY DEF UpdatePod, CreatePod, DeletePod, StartMonitor
<1>2. TProc' /\ TEc2'
  BY <1>1 DEF TInv, TProc, TEc2
<1>3. TTries'
  BY ConfigAssumption DEF UpdatePod, CreatePod, DeletePod, StartMonitor, Handled, TInv, TTries
<1>4. TWork'
  BY DEF UpdatePod, CreatePod, DeletePod, StartMonitor, TInv, TWork, CreatePCs, DeletePCs
<1>5. CASE ~StartMonitor(p)
  <2>1. TQueue'
    BY <1>1, <1>5 DEF UpdatePod, CreatePod, DeletePod, Dequeue, TInv, TQueue
  <2>2. TObj'
    BY <1>1, <1>5 DEF UpdatePod, CreatePod, DeletePod, TInv, TObj
  <2> QED BY <1>2, <1>3, <1>4, <2>1, <2>2 DEF TInv
<1>6. CASE StartMonitor(p)
  <2>1. cpod[p] \in Pod /\ Notify(p, cpod[p])
    BY <1>6 DEF StartMonitor, TInv, TObj
  <2>2. /\ lastStatus' \in [Pods -> Pod]
        /\ statusq' \in [Pods -> BOOLEAN] /\ skipped' \in [Pods -> BOOLEAN]
    BY <2>1, NotifyType
  <2>3. TQueue'
    BY <1>1, <1>6, <2>2 DEF StartMonitor, TInv, TQueue
  <2>4. TObj'
    BY <1>1, <1>6, <2>2, PodTypes DEF StartMonitor, TInv, TObj
  <2> QED BY <1>2, <1>3, <1>4, <2>3, <2>4 DEF TInv
<1> QED BY <1>5, <1>6

\* The process is gone.
LEMMA LoseTypes ==
  ASSUME TInv, LoseProcess, crashes' \in 0 .. MaxCrashes
  PROVE  TInv'
<1> USE DEF LoseProcess, given, ec2Vars
<1>1. TProc' /\ TEc2'
  BY DEF TInv, TProc, TEc2
<1>2. TObj'
  BY PodTypes DEF TInv, TObj
<1>3. TQueue' /\ TWork'
  BY DEF TQueue, TWork
<1>4. TTries'
  BY ConfigAssumption DEF TTries
<1> QED BY <1>1, <1>2, <1>3, <1>4 DEF TInv

\* A panic ends the process too.
LEMMA PanicTypes ==
  ASSUME TInv, Panic
  PROVE  TInv'
<1>1. crashes' \in 0 .. MaxCrashes
  BY DEF Panic, TInv, TProc
<1> QED BY <1>1, LoseTypes DEF Panic

\* The steps of DeletePod.
LEMMA DeletingTypes ==
  ASSUME TInv, NEW p \in Pods,
         StopPodMonitor(p) \/ TerminateApp(p) \/ DeleteCompute(p) \/ FinishDelete(p)
  PROVE  TInv'
<1> USE DEF given, procVars, ctlVars, provVars, ec2Vars
<1>0. Absent \in Pod
  BY PodTypes
<1>1. CASE StopPodMonitor(p)
  <2>1. CASE mon[p] \in {"on", "off"}
    <3>1. TProc' /\ TObj' /\ TEc2'
      BY <1>1, <2>1 DEF StopPodMonitor, TInv, TProc, TObj, TEc2
    <3>2. TQueue' /\ TTries'
      BY <1>1, <2>1 DEF StopPodMonitor, TInv, TQueue, TTries
    <3>3. TWork'
      BY <1>1, <2>1 DEF StopPodMonitor, TInv, TWork, DeletePCs
    <3> QED BY <3>1, <3>2, <3>3 DEF TInv
  <2>2. CASE mon[p] \notin {"on", "off"}
    BY <1>1, <2>2, PanicTypes DEF StopPodMonitor
  <2> QED BY <2>1, <2>2
<1>2. CASE TerminateApp(p)
  <2>1. TProc' /\ TObj'
    BY <1>2 DEF TerminateApp, TInv, TProc, TObj
  <2>2. TQueue' /\ TTries'
    BY <1>2 DEF TerminateApp, TInv, TQueue, TTries
  <2>3. TWork' /\ TEc2'
    BY <1>2 DEF TerminateApp, TInv, TWork, TEc2, DeletePCs
  <2> QED BY <2>1, <2>2, <2>3 DEF TInv
<1>3. CASE DeleteCompute(p)
  <2>1. TProc' /\ TObj'
    <3>1. using' \in [Pods -> Pod] /\ arg' \in [Pods -> Pod]
      BY <1>0, <1>3 DEF DeleteCompute, DeleteReturns, TInv, TObj
    <3> QED BY <1>3, <3>1 DEF DeleteCompute, TInv, TProc, TObj
  <2>2. workq' \in [Pods -> BOOLEAN] /\ TTries'
    BY <1>3, RetryType DEF DeleteCompute, TInv, TTries, TQueue
  <2>3. TQueue'
    BY <1>3, <2>2 DEF DeleteCompute, TInv, TQueue
  <2>4. TWork'
    BY <1>3 DEF DeleteCompute, DeleteReturns, TInv, TWork, DeletePCs
  <2>5. TEc2'
    BY <1>3 DEF DeleteCompute, TerminateEC2, TInv, TEc2
  <2> QED BY <2>1, <2>2, <2>3, <2>4, <2>5 DEF TInv
<1>4. CASE FinishDelete(p)
  <2>1. [arg[p] EXCEPT !.st = "terminal"] \in Pod
    BY PodTypes DEF TInv, TObj, Statuses
  <2>2. /\ lastStatus' \in [Pods -> Pod]
        /\ statusq' \in [Pods -> BOOLEAN] /\ skipped' \in [Pods -> BOOLEAN]
    BY <1>4, <2>1, NotifyType DEF FinishDelete, NotifyPodDelete
  <2>3. TProc' /\ TEc2'
    BY <1>4 DEF FinishDelete, TInv, TProc, TEc2
  <2>4. TObj'
    <3>1. lastUsed' \in [Pods -> Pod]
      BY <1>0, <1>4 DEF FinishDelete, TInv, TObj
    <3>2. /\ using' \in [Pods -> Pod] /\ arg' \in [Pods -> Pod]
          /\ cpod' \in [Pods -> Pod] /\ mpod' \in [Pods -> Pod]
      BY <1>0, <1>4 DEF FinishDelete, Forget, DeleteReturns, TInv, TObj
    <3> QED BY <1>4, <2>2, <3>1, <3>2 DEF FinishDelete, TInv, TObj
  <2>5. TQueue'
    BY <1>4, <2>2 DEF FinishDelete, TInv, TQueue
  <2>6. TTries'
    BY <1>4, ConfigAssumption DEF FinishDelete, Handled, TInv, TTries
  <2>7. TWork'
    BY <1>4 DEF FinishDelete, Forget, DeleteReturns, TInv, TWork
  <2> QED BY <2>3, <2>4, <2>5, <2>6, <2>7 DEF TInv
<1> QED BY <1>1, <1>2, <1>3, <1>4

\* Crash and start-up.
LEMMA ProcessTypes ==
  ASSUME TInv, Crash \/ Rehydrate \/ RunController
  PROVE  TInv'
<1> USE DEF given, ctlVars, provVars, ec2Vars
<1>1. CASE Crash
  <2>1. crashes' \in 0 .. MaxCrashes
    BY <1>1, BoundsAssumption DEF Crash, TInv, TProc
  <2> QED BY <1>1, <2>1, LoseTypes DEF Crash
<1>2. CASE Rehydrate
  <2>1. TProc' /\ TEc2'
    BY <1>2 DEF Rehydrate, TInv, TProc, TEc2
  <2>2. TObj' /\ TWork'
    BY <1>2 DEF Rehydrate, Populate, PopulateCache, TInv, TObj, TWork
  <2>3. TQueue' /\ TTries'
    BY <1>2 DEF Rehydrate, TInv, TQueue, TTries
  <2> QED BY <2>1, <2>2, <2>3 DEF TInv
<1>3. CASE RunController
  <2>1. TProc' /\ TEc2'
    BY <1>3 DEF RunController, TInv, TProc, TEc2
  <2>2. TObj'
    BY <1>3, PodTypes DEF RunController, TInv, TObj
  <2>3. TWork'
    BY <1>3 DEF RunController, TInv, TWork, DeletePCs
  <2>4. workq' \in [Pods -> BOOLEAN]
    <3>1. \A q \in Pods : k8s[q].exists \in BOOLEAN
      BY DEF TInv, TObj, Pod
    <3> QED BY <1>3, <3>1 DEF RunController
  <2>5. TQueue' /\ TTries'
    BY <1>3, <2>4 DEF RunController, TInv, TQueue, TTries
  <2> QED BY <2>1, <2>2, <2>3, <2>5 DEF TInv
<1> QED BY <1>1, <1>2, <1>3

\* Every step.
LEMMA TypeStep ==
  ASSUME TInv, [Next]_vars
  PROVE  TInv'
<1>1. CASE \E p \in Pods : User(p) \/ Controller(p) \/ ReportStatus(p)
  BY <1>1, UserTypes, ControllerTypes
<1>2. CASE \E p \in Pods : Provider(p)
  BY <1>2, BeginTypes, CreatingTypes, DeletingTypes, PanicTypes
     DEF Provider, Creating, AnnotateNil, NilConnection
<1>3. CASE Crash \/ Rehydrate \/ RunController
  BY <1>3, ProcessTypes
<1>4. CASE UNCHANGED vars
  <2> USE DEF vars, given, procVars, ctlVars, provVars, ec2Vars
  <2>1. TProc' /\ TObj' /\ TWork' /\ TEc2'
    BY <1>4 DEF TInv, TProc, TObj, TWork, TEc2
  <2>2. TQueue' /\ TTries'
    BY <1>4 DEF TInv, TQueue, TTries
  <2> QED BY <2>1, <2>2 DEF TInv
<1> QED BY <1>1, <1>2, <1>3, <1>4 DEF Next

\* Every variable keeps its type.
THEOREM TypesHold == Spec => []TInv
<1>1. TInv /\ [Next]_vars => TInv'
  BY TypeStep
<1> QED BY <1>1, TypeInit, PTL DEF Spec

\* The type invariant holds in every reachable state.
THEOREM TypeCorrect == Spec => []TypeOK
<1>1. TInv => TypeOK
  <2> SUFFICES ASSUME TInv PROVE TypeOK
    OBVIOUS
  <2>1. \A v \in {k8s, lister, lastUsed, lastStatus, using, arg, cpod, mpod} : v \in [Pods -> Pod]
    BY Zenon DEF TInv, TObj
  <2>2. \A v \in {skipped, workq, statusq, deleteq} : v \in [Pods -> BOOLEAN]
    BY Zenon DEF TInv, TQueue
  <2> QED BY <2>1, <2>2 DEF TInv, TProc, TTries, TWork, TEc2, TypeOK
<1> QED BY <1>1, TypesHold, PTL

-----------------------------------------------------------------------------
(* What a step does to the pod it works on.  Queues and attempts decide when a *)
(* step is taken and are left out here: nothing below depends on them.         *)

\* The parts of the state of p that a step leaves alone: in the API, in the
\* controller, in its worker, in the cache.
KeepApi(p)   == k8s'[p] = k8s[p] /\ (p \in bound' <=> p \in bound)
KeepCtl(p)   ==
  lister'[p] = lister[p] /\ lastUsed'[p] = lastUsed[p] /\ lastStatus'[p] = lastStatus[p]
KeepWork(p)  == pc'[p] = pc[p] /\ why'[p] = why[p] /\ using'[p] = using[p] /\ arg'[p] = arg[p]
KeepCache(p) == cpod'[p] = cpod[p] /\ mpod'[p] = mpod[p] /\ mon'[p] = mon[p]

\* Nothing happens to p.
Keep(p) == KeepApi(p) /\ KeepCtl(p) /\ KeepWork(p) /\ KeepCache(p)

\* A step for p leaves all other pods alone.
Frame(p) == UNCHANGED <<up, given>> /\ \A q \in Pods \ {p} : Keep(q)

\* BindPod.
DoBind(p) ==
  /\ p \notin bound /\ p \in bound'
  /\ \E i \in Ids : k8s'[p] = NewPod(i) /\ (i # None => ~warm /\ i \in OldInstances)
  /\ KeepCtl(p) /\ KeepWork(p) /\ KeepCache(p)

\* TouchPod, MarkDeleted.
DoEdit(p) ==
  /\ k8s[p].exists /\ k8s'[p].exists
  /\ k8s'[p].annot = k8s[p].annot /\ k8s'[p].ip = k8s[p].ip /\ k8s'[p].st = k8s[p].st
  /\ k8s[p].deleting => k8s'[p].deleting
  /\ p \in bound' <=> p \in bound
  /\ KeepCtl(p) /\ KeepWork(p) /\ KeepCache(p)

\* The informer delivers the pod.
DoInform(p) ==
  /\ up = "up" /\ lister'[p] = k8s[p]
  /\ IF lister[p].exists /\ k8s[p].exists
     THEN lastUsed'[p] = lastUsed[p] /\ lastStatus'[p] = lastStatus[p]
     ELSE lastUsed'[p] = Absent /\ lastStatus'[p] = Absent
  /\ KeepApi(p) /\ KeepWork(p) /\ KeepCache(p)

\* The pod object o has been written over the one in the API.
Written(p, o) ==
  \/ ~k8s[p].exists /\ k8s'[p] = k8s[p]
  \/ /\ k8s[p].exists /\ k8s'[p].exists
     /\ k8s'[p].deleting = k8s[p].deleting /\ k8s'[p].annot = o.annot
     /\ k8s'[p].st = o.st /\ k8s'[p].ip = o.ip

\* The last status of the provider is written to the API, or dropped.
DoWrite(p) ==
  /\ up = "up"
  /\ \/ k8s'[p] = k8s[p]
     \/ lister[p].exists /\ lastStatus[p].exists /\ Written(p, lastStatus[p])
  /\ p \in bound' <=> p \in bound
  /\ KeepCtl(p) /\ KeepWork(p) /\ KeepCache(p)

\* The pod is removed from the API.
DoRemove(p) ==
  /\ k8s'[p] = k8s[p] \/ k8s'[p] = Absent
  /\ p \in bound' <=> p \in bound
  /\ KeepCtl(p) /\ KeepWork(p) /\ KeepCache(p)

\* The controller needs nothing of the provider.
DoUse(p) ==
  /\ \/ lastUsed'[p] = lastUsed[p]
     \/ lastUsed'[p] = lister[p] /\ lister[p].exists /\ ~lister[p].deleting
  /\ lister'[p] = lister[p] /\ lastStatus'[p] = lastStatus[p]
  /\ KeepApi(p) /\ KeepWork(p) /\ KeepCache(p)

\* UpdatePod.
DoUpdate(p) ==
  /\ up = "up" /\ pc[p] = "idle" /\ Known(p)
  /\ Changed(p) /\ ~lister[p].deleting /\ ~PodsEqual(cpod[p], lister[p])
  /\ cpod'[p] = lister[p] /\ lastUsed'[p] = lister[p]
  /\ lister'[p] = lister[p] /\ lastStatus'[p] = lastStatus[p]
  /\ mpod'[p] = mpod[p] /\ mon'[p] = mon[p]
  /\ KeepApi(p) /\ KeepWork(p)

\* CreatePod begins.
DoCreate(p) ==
  /\ up = "up" /\ pc[p] = "idle" /\ ~Known(p)
  /\ lister[p].exists /\ ~lister[p].deleting
  /\ using'[p] = lister[p] /\ cpod'[p] = lister[p] /\ mpod'[p] = lister[p]
  /\ mon'[p] = "new" /\ pc'[p] = "compute"
  /\ why'[p] = why[p] /\ arg'[p] = arg[p]
  /\ KeepApi(p) /\ KeepCtl(p)

\* CreatePod goes on; the pod object may get an annotation and an IP.
DoGoOn(p) ==
  /\ pc[p] \in CreatePCs \ {"annotate", "cleanup", "start"} /\ pc'[p] \in CreatePCs
  /\ pc'[p] # "compute" /\ (pc[p] = "taginuse" => pc'[p] = "start")
  /\ pc'[p] \in {"tagpod", "taginuse"} => warm
  /\ pc'[p] = "annotate" => p \in bare
  /\ cpod'[p].exists = cpod[p].exists
  /\ \/ /\ cpod'[p] = cpod[p] /\ mpod'[p] = mpod[p]
        /\ pc[p] # "ip" /\ pc'[p] # "ip"
        /\ pc'[p] \in {"taginuse", "start"} => pc[p] = "taginuse" \/ cpod[p].ip # None
     \/ /\ cpod'[p] = mpod'[p] /\ pc'[p] = "ip"
     \/ /\ cpod'[p] = mpod'[p] /\ pc'[p] \in {"launch", "tagpod"}
        /\ cpod'[p].ip = cpod'[p].annot
  /\ mon'[p] = mon[p] /\ why'[p] = why[p] /\ using'[p] = using[p] /\ arg'[p] = arg[p]
  /\ KeepApi(p) /\ KeepCtl(p)

\* The pod leaves the cache.
DoForget(p) == cpod'[p] = Absent /\ mpod'[p] = Absent /\ mon'[p] = "none"

\* CreatePod fails.  Only a failed set_in_use tag leaves the pod in the cache.
DoFail(p) ==
  /\ pc[p] \in CreatePCs /\ pc'[p] = "idle" /\ using'[p] = Absent
  /\ \E s \in {"pending", "terminal"} : Written(p, [using[p] EXCEPT !.st = s])
  /\ p \in bound' <=> p \in bound
  /\ \/ DoForget(p) /\ pc[p] \notin {"taginuse", "start"}
     \/ KeepCache(p) /\ "tag" \in Faults /\ pc[p] = "taginuse"
  /\ why'[p] = why[p] /\ arg'[p] = arg[p]
  /\ KeepCtl(p)

\* CreatePod succeeds.
DoStart(p) ==
  /\ pc[p] = "start" /\ pc'[p] = "idle" /\ using'[p] = Absent
  /\ mon'[p] = "on" /\ cpod'[p] = cpod[p] /\ mpod'[p] = mpod[p]
  /\ IF lister[p].exists
     THEN lastUsed'[p] = using[p] /\ lastStatus'[p] = cpod[p]
     ELSE lastUsed'[p] = Absent /\ lastStatus'[p] = lastStatus[p]
  /\ lister'[p] = lister[p] /\ why'[p] = why[p] /\ arg'[p] = arg[p]
  /\ KeepApi(p)

\* The monitor reports a status.
DoReport(p) ==
  /\ up = "up" /\ mon[p] = "on" /\ mpod[p].ip # None
  /\ \/ lastStatus'[p] = lastStatus[p]
     \/ /\ lister[p].exists
        /\ \E s \in Statuses : lastStatus'[p] = [mpod[p] EXCEPT !.st = s]
  /\ lister'[p] = lister[p] /\ lastUsed'[p] = lastUsed[p]
  /\ KeepApi(p) /\ KeepWork(p) /\ KeepCache(p)

\* DeletePod begins.
DoDelete(p) ==
  /\ up = "up" /\ pc[p] = "idle" /\ pc'[p] = "stop"
  /\ \/ /\ Changed(p) /\ lister[p].exists /\ lister[p].deleting /\ lister[p].st = "running"
        /\ arg'[p] = lister[p] /\ using'[p] = lister[p] /\ why'[p] = "deleting"
     \/ /\ ~lister[p].exists /\ Known(p)
        /\ arg'[p] = cpod[p] /\ using'[p] = using[p] /\ why'[p] = "gone"
  /\ KeepApi(p) /\ KeepCtl(p) /\ KeepCache(p)

\* DeletePod goes on.
DoStep(p) ==
  /\ pc[p] \in DeletePCs /\ pc'[p] \in DeletePCs
  /\ mon'[p] = mon[p] \/ (mon[p] \in {"on", "off"} /\ mon'[p] = "off")
  /\ cpod'[p] = cpod[p] /\ mpod'[p] = mpod[p]
  /\ why'[p] = why[p] /\ using'[p] = using[p] /\ arg'[p] = arg[p]
  /\ KeepApi(p) /\ KeepCtl(p)

\* DeletePod returns.
DoReturn(p) == pc'[p] = "idle" /\ using'[p] = Absent /\ arg'[p] = Absent /\ why'[p] = "none"

\* The instance could not be terminated.
DoGiveUp(p) ==
  /\ pc[p] = "term"
  /\ DoReturn(p) /\ KeepApi(p) /\ KeepCtl(p) /\ KeepCache(p)

\* DeletePod succeeds.
DoFinish(p) ==
  /\ pc[p] = "forget"
  /\ DoReturn(p) /\ DoForget(p)
  /\ lister'[p] = lister[p]
  /\ IF lister[p].exists
     THEN lastStatus'[p] = [arg[p] EXCEPT !.st = "terminal"]
     ELSE lastStatus'[p] = lastStatus[p]
  /\ IF why[p] = "deleting"
     THEN lastUsed'[p] = IF lister[p].exists THEN using[p] ELSE Absent
     ELSE lastUsed'[p] = lastUsed[p]
  /\ KeepApi(p)

\* A step that works on p.
StepOf(p) ==
  /\ Frame(p)
  /\ \/ DoBind(p) \/ DoEdit(p) \/ DoInform(p) \/ DoWrite(p) \/ DoRemove(p) \/ DoUse(p)
     \/ DoUpdate(p) \/ DoCreate(p) \/ DoGoOn(p) \/ DoFail(p) \/ DoStart(p) \/ DoReport(p)
     \/ DoDelete(p) \/ DoStep(p) \/ DoGiveUp(p) \/ DoFinish(p)

\* Tells apart the pod object that a step writes.
LEMMA WrittenType ==
  ASSUME TInv, NEW p \in Pods, NEW o \in Pod, UpdateStatus(p, o)
  PROVE  Written(p, o)
  BY DEF UpdateStatus, Written, TInv, TObj

\* Notify, for the pod it is about.
LEMMA NotifyIs ==
  ASSUME TInv, NEW p \in Pods, NEW o \in Pod, Notify(p, o)
  PROVE  /\ lastStatus'[p] = IF lister[p].exists THEN o ELSE lastStatus[p]
         /\ \A q \in Pods \ {p} : lastStatus'[q] = lastStatus[q]
  BY DEF Notify, TInv, TObj

\* The actions of users.
LEMMA UserIs ==
  ASSUME TInv, NEW p \in Pods, User(p)
  PROVE  StepOf(p)
<1> USE DEF KeepApi, KeepCtl, KeepWork, KeepCache, given, procVars, ctlVars, provVars
<1>1. /\ UNCHANGED <<warm, never, bare, up, lister, lastUsed, lastStatus, using, why, pc, arg,
                     cpod, mon, mpod>>
      /\ \A q \in Pods \ {p} : (q \in bound' <=> q \in bound) /\ k8s'[q] = k8s[q]
  BY DEF User, BindPod, TouchPod, MarkDeleted, TInv, TObj
<1>2. Frame(p)
  BY <1>1 DEF Frame, Keep
<1>3. CASE BindPod(p)
  <2>1. PICK i \in {None} \cup PreRunning :
          k8s' = [k8s EXCEPT ![p] = NewPod(i)] /\ (i # None => ~warm)
    BY <1>3 DEF BindPod
  <2>2. i \in Ids /\ (i # None => ~warm /\ i \in OldInstances)
    BY <2>1, NoneAssumption, ConfigAssumption DEF PreRunning, Ids
  <2>3. DoBind(p)
    BY <1>1, <1>3, <2>1, <2>2 DEF BindPod, DoBind, TInv, TObj
  <2> QED BY <1>2, <2>3 DEF StepOf
<1>4. CASE TouchPod(p) \/ MarkDeleted(p)
  <2>1. DoEdit(p)
    BY <1>1, <1>4 DEF TouchPod, MarkDeleted, DoEdit, TInv, TObj, Pod
  <2> QED BY <1>2, <2>1 DEF StepOf
<1> QED BY <1>3, <1>4 DEF User

\* The actions of the controller and of the monitor.
LEMMA ControllerIs ==
  ASSUME TInv, NEW p \in Pods, Controller(p) \/ ReportStatus(p)
  PROVE  StepOf(p)
<1> USE DEF KeepApi, KeepCtl, KeepWork, KeepCache, given, procVars, provVars
<1>1. UNCHANGED <<warm, never, bare, up, bound, using, why, pc, arg, cpod, mon, mpod>>
  BY DEF Controller, Inform, UpdatePodStatus, DeleteFromKubernetes, SyncWithoutProvider,
     ReportStatus
<1>2. CASE Inform(p)
  <2>1. DoInform(p)
    BY <1>1, <1>2 DEF Inform, DoInform, TInv, TObj
  <2>2. Frame(p)
    BY <1>1, <1>2 DEF Inform, Frame, Keep, TInv, TObj
  <2> QED BY <2>1, <2>2 DEF StepOf
<1>3. CASE UpdatePodStatus(p)
  <2>1. UNCHANGED <<lister, lastUsed, lastStatus>> /\ up = "up"
    BY <1>3 DEF UpdatePodStatus, Working
  <2>2. \/ UNCHANGED k8s
        \/ lister[p].exists /\ lastStatus[p].exists /\ UpdateStatus(p, lastStatus[p])
    BY <1>3 DEF UpdatePodStatus
  <2>3. lastStatus[p] \in Pod
    BY DEF TInv, TObj
  <2>4. DoWrite(p)
    BY <1>1, <2>1, <2>2, <2>3, WrittenType DEF DoWrite
  <2>5. \A q \in Pods \ {p} : k8s'[q] = k8s[q]
    BY <2>2 DEF UpdateStatus, TInv, TObj
  <2>6. Frame(p)
    BY <1>1, <2>1, <2>5 DEF Frame, Keep
  <2> QED BY <2>4, <2>6 DEF StepOf
<1>4. CASE DeleteFromKubernetes(p)
  <2>1. DoRemove(p)
    BY <1>1, <1>4 DEF DeleteFromKubernetes, DoRemove, TInv, TObj
  <2>2. Frame(p)
    BY <1>1, <1>4 DEF DeleteFromKubernetes, Frame, Keep, TInv, TObj
  <2> QED BY <2>1, <2>2 DEF StepOf
<1>5. CASE SyncWithoutProvider(p)
  <2>1. DoUse(p)
    BY <1>1, <1>5 DEF SyncWithoutProvider, Changed, DoUse, TInv, TObj
  <2>2. Frame(p)
    BY <1>1, <1>5 DEF SyncWithoutProvider, Frame, Keep, TInv, TObj
  <2> QED BY <2>1, <2>2 DEF StepOf
<1>6. CASE ReportStatus(p)
  <2>1. PICK s \in Statuses : Notify(p, [mpod[p] EXCEPT !.st = s])
    BY <1>6 DEF ReportStatus, Statuses
  <2>2. [mpod[p] EXCEPT !.st = s] \in Pod
    BY PodTypes DEF TInv, TObj
  <2>3. /\ lastStatus'[p] = IF lister[p].exists THEN [mpod[p] EXCEPT !.st = s] ELSE lastStatus[p]
        /\ \A q \in Pods \ {p} : lastStatus'[q] = lastStatus[q]
    BY <2>1, <2>2, NotifyIs
  <2>4. mpod[p].ip # None
    BY <1>6, NoneAssumption DEF ReportStatus, IsRunning
  <2>5. DoReport(p)
    BY <1>1, <1>6, <2>3, <2>4 DEF ReportStatus, DoReport
  <2>6. Frame(p)
    BY <1>1, <1>6, <2>3 DEF ReportStatus, Frame, Keep
  <2> QED BY <2>5, <2>6 DEF StepOf
<1> QED BY <1>2, <1>3, <1>4, <1>5, <1>6 DEF Controller

\* The beginnings, and the end of CreatePod.
LEMMA BeginIs ==
  ASSUME TInv, NEW p \in Pods, UpdatePod(p) \/ CreatePod(p) \/ DeletePod(p) \/ StartMonitor(p)
  PROVE  StepOf(p)
<1> USE DEF KeepApi, KeepCtl, KeepWork, KeepCache, given, procVars, provVars
<1>1. UNCHANGED <<warm, never, bare, up, bound, k8s, lister>>
  BY DEF UpdatePod, CreatePod, DeletePod, StartMonitor
<1>2. CASE UpdatePod(p)
  <2>1. DoUpdate(p)
    BY <1>1, <1>2 DEF UpdatePod, Dequeue, Working, Idle, DoUpdate, TInv, TObj
  <2>2. Frame(p)
    BY <1>1, <1>2 DEF UpdatePod, Frame, Keep, TInv, TObj
  <2> QED BY <2>1, <2>2 DEF StepOf
<1>3. CASE CreatePod(p)
  <2>1. DoCreate(p)
    BY <1>1, <1>3 DEF CreatePod, Dequeue, Working, Idle, Changed, DoCreate, TInv, TObj, TWork
  <2>2. Frame(p)
    BY <1>1, <1>3 DEF CreatePod, Frame, Keep, TInv, TObj, TWork
  <2> QED BY <2>1, <2>2 DEF StepOf
<1>4. CASE DeletePod(p)
  <2>1. DoDelete(p)
    <3>1. up = "up" /\ pc[p] = "idle" /\ pc'[p] = "stop"
      BY <1>4 DEF DeletePod, Dequeue, Working, Idle, TInv, TWork
    <3>2. UNCHANGED <<lastUsed, lastStatus, cpod, mpod, mon>>
      BY <1>4 DEF DeletePod
    <3>3. \/ /\ Changed(p) /\ lister[p].exists /\ lister[p].deleting /\ lister[p].st = "running"
             /\ arg'[p] = lister[p] /\ using'[p] = lister[p] /\ why'[p] = "deleting"
          \/ /\ ~lister[p].exists /\ Known(p)
             /\ arg'[p] = cpod[p] /\ using'[p] = using[p] /\ why'[p] = "gone"
      BY <1>4 DEF DeletePod, Changed, ForceDelete, TInv, TObj, TWork
    <3> QED BY <1>1, <3>1, <3>2, <3>3 DEF DoDelete
  <2>2. Frame(p)
    BY <1>1, <1>4 DEF DeletePod, Frame, Keep, TInv, TObj, TWork
  <2> QED BY <2>1, <2>2 DEF StepOf
<1>5. CASE StartMonitor(p)
  <2>1. Notify(p, cpod[p]) /\ cpod[p] \in Pod
    BY <1>5 DEF StartMonitor, TInv, TObj
  <2>2. /\ lastStatus'[p] = IF lister[p].exists THEN cpod[p] ELSE lastStatus[p]
        /\ \A q \in Pods \ {p} : lastStatus'[q] = lastStatus[q]
    BY <2>1, NotifyIs
  <2>3. DoStart(p)
    BY <1>1, <1>5, <2>2 DEF StartMonitor, DoStart, TInv, TObj, TWork
  <2>4. Frame(p)
    BY <1>1, <1>5, <2>2 DEF StartMonitor, Frame, Keep, TInv, TObj, TWork
  <2> QED BY <2>3, <2>4 DEF StepOf
<1> QED BY <1>2, <1>3, <1>4, <1>5

\* CreatePod goes on to another step.
LEMMA GoesOn ==
  ASSUME TInv, NEW p \in Pods, NEW l \in CreatePCs \ {"compute"}, Continue(p, l),
         pc[p] \in CreatePCs \ {"annotate", "cleanup", "start"}, pc[p] = "taginuse" => l = "start",
         NEW o \in Pod, SetPod(p, o) \/ (o = cpod[p] /\ UNCHANGED <<cpod, mpod>>),
         o.exists = cpod[p].exists, l \in {"tagpod", "taginuse"} => warm,
         l = "annotate" => p \in bare,
         \/ /\ o = cpod[p] /\ UNCHANGED <<cpod, mpod>> /\ pc[p] # "ip" /\ l # "ip"
            /\ l \in {"taginuse", "start"} => pc[p] = "taginuse" \/ cpod[p].ip # None
         \/ SetPod(p, o) /\ l = "ip"
         \/ SetPod(p, o) /\ l \in {"launch", "tagpod"} /\ o.ip = o.annot
  PROVE  StepOf(p)
<1> USE DEF KeepApi, KeepCtl, KeepWork, KeepCache, given, procVars, ctlVars
<1>1. /\ UNCHANGED <<warm, never, bare, up, bound, k8s, lister, lastUsed, lastStatus,
                     using, why, arg, mon>>
      /\ pc'[p] = l /\ \A q \in Pods \ {p} : pc'[q] = pc[q]
  BY DEF Continue, TInv, TWork
<1>2. /\ cpod'[p] = o
      /\ (UNCHANGED <<cpod, mpod>> \/ mpod'[p] = o)
      /\ (SetPod(p, o) => mpod'[p] = o)
      /\ \A q \in Pods \ {p} : cpod'[q] = cpod[q] /\ mpod'[q] = mpod[q]
  BY DEF SetPod, TInv, TObj
<1>3. DoGoOn(p)
  BY <1>1, <1>2 DEF DoGoOn
<1>4. Frame(p)
  BY <1>1, <1>2 DEF Frame, Keep
<1> QED BY <1>3, <1>4 DEF StepOf

\* CreatePod fails.
LEMMA Fails ==
  ASSUME TInv, NEW p \in Pods, pc[p] \in CreatePCs, CreateError(p),
         \/ Forget(p) /\ pc[p] \notin {"taginuse", "start"}
         \/ UNCHANGED provVars /\ "tag" \in Faults /\ pc[p] = "taginuse"
  PROVE  StepOf(p)
<1> USE DEF KeepApi, KeepCtl, KeepWork, KeepCache, given, procVars, provVars
<1>1. /\ UNCHANGED <<warm, never, bare, up, bound, lister, lastUsed, lastStatus, why, arg>>
      /\ pc' = [pc EXCEPT ![p] = "idle"] /\ using' = [using EXCEPT ![p] = Absent]
  BY DEF CreateError
<1>2. PICK s \in {"pending", "terminal"} : UpdateStatus(p, [using[p] EXCEPT !.st = s])
  BY DEF CreateError
<1>3. [using[p] EXCEPT !.st = s] \in Pod
  BY PodTypes DEF TInv, TObj, Statuses
<1>4. Written(p, [using[p] EXCEPT !.st = s])
  BY <1>2, <1>3, WrittenType
<1>5. \A q \in Pods \ {p} : k8s'[q] = k8s[q]
  BY <1>2 DEF UpdateStatus, TInv, TObj
<1>6. /\ \/ DoForget(p) /\ pc[p] \notin {"taginuse", "start"}
         \/ (KeepCache(p) /\ "tag" \in Faults /\ pc[p] = "taginuse")
      /\ \A q \in Pods \ {p} : KeepCache(q)
  BY DEF Forget, DoForget, TInv, TObj, TWork
<1>7. DoFail(p)
  BY <1>1, <1>4, <1>6 DEF DoFail, TInv, TObj, TWork
<1>8. Frame(p)
  BY <1>1, <1>5, <1>6 DEF Frame, Keep, TInv, TObj, TWork
<1> QED BY <1>7, <1>8 DEF StepOf

\* The steps of CreatePod.
LEMMA CreatingIs ==
  ASSUME TInv, NEW p \in Pods, Creating(p)
  PROVE  StepOf(p)
<1>1. cpod[p] \in Pod
  BY DEF TInv, TObj
<1>2. \A i \in Ids :
        /\ [cpod[p] EXCEPT !.annot = i] \in Pod
        /\ [cpod[p] EXCEPT !.annot = i].exists = cpod[p].exists
        /\ [cpod[p] EXCEPT !.ip = i] \in Pod
        /\ [cpod[p] EXCEPT !.ip = i].exists = cpod[p].exists
        /\ [cpod[p] EXCEPT !.ip = i].annot = cpod[p].annot
        /\ [cpod[p] EXCEPT !.ip = i].ip = i
  BY <1>1 DEF Pod
<1>3. \A i \in Ids :
        /\ [[cpod[p] EXCEPT !.annot = i] EXCEPT !.ip = i] \in Pod
        /\ [[cpod[p] EXCEPT !.annot = i] EXCEPT !.ip = i].exists = cpod[p].exists
        /\ [[cpod[p] EXCEPT !.annot = i] EXCEPT !.ip = i].annot = i
        /\ [[cpod[p] EXCEPT !.annot = i] EXCEPT !.ip = i].ip = i
  BY <1>1 DEF Pod
<1>4. cpod[p].annot \in Ids /\ cpod[p].ip \in Ids
  BY <1>1 DEF Pod
<1>5. CASE ReuseCompute(p)
  BY <1>1, <1>5, GoesOn DEF ReuseCompute, CreatePCs
<1>6. CASE CreateEC2(p)
  <2>1. PICK i \in Ids : Annotate(p, [cpod[p] EXCEPT !.annot = i], "ip")
    BY <1>6 DEF CreateEC2, Ids
  <2>2. pc[p] = "compute"
    BY <1>6 DEF CreateEC2
  <2>3. CASE p \in bare
    BY <1>1, <2>1, <2>2, <2>3, GoesOn DEF Annotate, CreatePCs
  <2>4. CASE p \notin bare
    <3> DEFINE o == [cpod[p] EXCEPT !.annot = i]
    <3>1. o \in Pod /\ o.exists = cpod[p].exists
      BY <1>2
    <3>2. SetPod(p, o) /\ Continue(p, "ip")
      BY <2>1, <2>4 DEF Annotate
    <3> HIDE DEF o
    <3> QED BY <2>2, <3>1, <3>2, GoesOn DEF CreatePCs
  <2> QED BY <2>3, <2>4
<1>7. CASE TakeWarmInstance(p)
  <2>1. PICK i \in Ids : Annotate(p, [[cpod[p] EXCEPT !.annot = i] EXCEPT !.ip = i], "tagpod")
    BY <1>7 DEF TakeWarmInstance, ReadyInstances, Ids
  <2>2. pc[p] = "compute" /\ warm
    BY <1>7 DEF TakeWarmInstance
  <2>3. CASE p \in bare
    BY <1>1, <2>1, <2>2, <2>3, GoesOn DEF Annotate, CreatePCs
  <2>4. CASE p \notin bare
    <3> DEFINE o == [[cpod[p] EXCEPT !.annot = i] EXCEPT !.ip = i]
    <3>1. o \in Pod /\ o.exists = cpod[p].exists /\ o.ip = o.annot
      BY <1>3
    <3>2. SetPod(p, o) /\ Continue(p, "tagpod")
      BY <2>1, <2>4 DEF Annotate
    <3> HIDE DEF o
    <3> QED BY <2>2, <3>1, <3>2, GoesOn DEF CreatePCs
  <2> QED BY <2>3, <2>4
<1>8. CASE NoCompute(p) \/ NoWarmInstance(p)
  BY <1>8, Fails DEF NoCompute, NoWarmInstance, CreatePCs
<1>9. CASE GetPrivateIP(p)
  <2>1. CASE CreateError(p) /\ Forget(p)
    BY <1>9, <2>1, Fails DEF GetPrivateIP, CreatePCs
  <2>2. CASE SetPod(p, [cpod[p] EXCEPT !.ip = cpod[p].annot]) /\ Continue(p, "launch")
    <3> DEFINE o == [cpod[p] EXCEPT !.ip = cpod[p].annot]
    <3>1. o \in Pod /\ o.exists = cpod[p].exists /\ o.ip = o.annot
      BY <1>2, <1>4
    <3>2. pc[p] = "ip" /\ SetPod(p, o)
      BY <1>9, <2>2 DEF GetPrivateIP
    <3> HIDE DEF o
    <3> QED BY <2>2, <3>1, <3>2, GoesOn DEF CreatePCs
  <2> QED BY <1>9, <2>1, <2>2 DEF GetPrivateIP
<1>10. CASE TagPendingPod(p)
  <2>1. CASE CreateError(p) /\ Forget(p)
    BY <1>10, <2>1, Fails DEF TagPendingPod, CreatePCs
  <2>2. CASE Continue(p, "launch") /\ UNCHANGED <<cpod, mpod>>
    BY <1>1, <1>10, <2>2, GoesOn DEF TagPendingPod, CreatePCs
  <2> QED BY <1>10, <2>1, <2>2 DEF TagPendingPod
<1>11. CASE LaunchApplication(p)
  <2>1. pc[p] = "launch" /\ UNCHANGED <<cpod, mpod>>
    BY <1>11 DEF LaunchApplication
  <2>2. PICK l \in {"taginuse", "start", "cleanup"} :
          Continue(p, l) /\ (l # "cleanup" => cpod[p].ip # None) /\ (l = "taginuse" => warm)
    BY <1>11, NoneAssumption DEF LaunchApplication, IsRunning
  <2> QED BY <1>1, <2>1, <2>2, GoesOn DEF CreatePCs
<1>12. CASE CleanUpLaunch(p)
  BY <1>12, Fails DEF CleanUpLaunch, CreatePCs
<1>13. CASE TagInUse(p)
  <2>1. CASE Continue(p, "start") /\ UNCHANGED <<cpod, mpod>>
    BY <1>1, <1>13, <2>1, GoesOn DEF TagInUse, CreatePCs
  <2>2. CASE CreateError(p) /\ UNCHANGED provVars /\ "tag" \in Faults
    BY <1>13, <2>2, Fails DEF TagInUse, CreatePCs
  <2> QED BY <1>13, <2>1, <2>2 DEF TagInUse
<1> QED BY <1>5, <1>6, <1>7, <1>8, <1>9, <1>10, <1>11, <1>12, <1>13 DEF Creating

\* The steps that dereference nil: they end the process.
Panicking(p) ==
  AnnotateNil(p) \/ NilConnection(p) \/ (StopPodMonitor(p) /\ mon[p] \notin {"on", "off"})

LEMMA PanickingIs ==
  ASSUME NEW p, Panicking(p)
  PROVE  LoseProcess
  BY DEF Panicking, AnnotateNil, NilConnection, StopPodMonitor, Panic

\* The other steps of DeletePod.
LEMMA DeletingIs ==
  ASSUME TInv, NEW p \in Pods,
         \/ StopPodMonitor(p) /\ mon[p] \in {"on", "off"}
         \/ TerminateApp(p) \/ DeleteCompute(p) \/ FinishDelete(p)
  PROVE  StepOf(p)
<1> USE DEF KeepApi, KeepCtl, KeepWork, KeepCache, given, procVars, ctlVars, provVars
<1>1. CASE StopPodMonitor(p) /\ mon[p] \in {"on", "off"}
  <2>1. DoStep(p)
    BY <1>1 DEF StopPodMonitor, DoStep, DeletePCs, TInv, TWork
  <2>2. Frame(p)
    BY <1>1 DEF StopPodMonitor, Frame, Keep, TInv, TWork
  <2> QED BY <1>1, <2>1, <2>2 DEF StepOf, StopPodMonitor
<1>3. CASE TerminateApp(p)
  <2>1. DoStep(p)
    BY <1>3 DEF TerminateApp, DoStep, DeletePCs, TInv, TWork
  <2>2. Frame(p)
    BY <1>3 DEF TerminateApp, Frame, Keep, TInv, TWork
  <2> QED BY <1>3, <2>1, <2>2 DEF StepOf, TerminateApp
<1>4. CASE DeleteCompute(p)
  <2>1. UNCHANGED <<warm, never, bare, up, bound, k8s, lister, lastUsed, lastStatus, cpod, mpod, mon>>
    BY <1>4 DEF DeleteCompute
  <2>2. DoStep(p) \/ DoGiveUp(p)
    BY <1>4, <2>1 DEF DeleteCompute, DeleteReturns, DoReturn, DoStep, DoGiveUp, DeletePCs,
       TInv, TWork, TObj
  <2>3. Frame(p)
    BY <1>4, <2>1 DEF DeleteCompute, DeleteReturns, Frame, Keep, TInv, TWork, TObj
  <2> QED BY <1>4, <2>2, <2>3 DEF StepOf, DeleteCompute
<1>5. CASE FinishDelete(p)
  <2>1. UNCHANGED <<warm, never, bare, up, bound, k8s, lister>>
    BY <1>5 DEF FinishDelete
  <2>2. [arg[p] EXCEPT !.st = "terminal"] \in Pod
    BY PodTypes DEF TInv, TObj, Statuses
  <2>3. /\ lastStatus'[p] = IF lister[p].exists
                            THEN [arg[p] EXCEPT !.st = "terminal"] ELSE lastStatus[p]
        /\ \A q \in Pods \ {p} : lastStatus'[q] = lastStatus[q]
    BY <1>5, <2>2, NotifyIs DEF FinishDelete, NotifyPodDelete
  <2>4. DoReturn(p) /\ DoForget(p) /\ \A q \in Pods \ {p} : KeepWork(q) /\ KeepCache(q)
    BY <1>5 DEF FinishDelete, Forget, DeleteReturns, DoReturn, DoForget, TInv, TObj, TWork
  <2>5. /\ lastUsed'[p] = IF why[p] = "deleting"
                          THEN IF lister[p].exists THEN using[p] ELSE Absent
                          ELSE lastUsed[p]
        /\ \A q \in Pods \ {p} : lastUsed'[q] = lastUsed[q]
    BY <1>5 DEF FinishDelete, TInv, TObj
  <2>6. DoFinish(p)
    BY <1>5, <2>1, <2>3, <2>4, <2>5 DEF FinishDelete, DoFinish
  <2>7. Frame(p)
    BY <2>1, <2>3, <2>4, <2>5 DEF Frame, Keep
  <2> QED BY <1>5, <2>6, <2>7 DEF StepOf, FinishDelete
<1> QED BY <1>1, <1>3, <1>4, <1>5

\* Every step works on one pod, or on the process.
LEMMA StepIs ==
  ASSUME TInv, Next
  PROVE  \/ \E p \in Pods : StepOf(p)
         \/ LoseProcess
         \/ Rehydrate \/ RunController
<1>1. CASE \E p \in Pods : User(p) \/ Controller(p) \/ ReportStatus(p)
  BY <1>1, UserIs, ControllerIs
<1>2. CASE \E p \in Pods : Provider(p)
  BY <1>2, BeginIs, CreatingIs, DeletingIs, PanickingIs DEF Provider, Creating, Panicking
<1>3. CASE Crash
  BY <1>3 DEF Crash
<1> QED BY <1>1, <1>2, <1>3 DEF Next

-----------------------------------------------------------------------------
(* What holds of every pod, whatever the faults, the crashes and the edits *)

\* The controller knows that the pod is to go, or that it has gone.
ListerDead(p) == lister[p].deleting \/ (~lister[p].exists /\ ~k8s[p].exists)

\* The IP of a pod object is that of its instance.  Only an annotation from an
\* earlier life of the pod comes without an IP.
Shape(o) == o.ip = o.annot \/ (o.ip = None /\ ~warm /\ o.annot \in OldInstances)

\* The worker: its arguments are there while it uses them, and DeletePod is
\* called only for a pod that is to go.
Work(p) ==
  /\ pc[p] # "idle" => up = "up"
  /\ up # "up" => lister[p] = Absent /\ lastUsed[p] = Absent /\ lastStatus[p] = Absent
  /\ pc[p] = "idle" => using[p] = Absent
  /\ pc[p] \in CreatePCs => using[p].exists /\ ~using[p].deleting
  /\ pc[p] \in {"tagpod", "taginuse"} => warm
  /\ pc[p] = "annotate" => p \in bare
  /\ pc[p] \notin DeletePCs => arg[p] = Absent /\ why[p] = "none"
  /\ pc[p] \in DeletePCs => arg[p].exists /\ why[p] # "none" /\ ListerDead(p)
  /\ why[p] = "deleting" => using[p].exists /\ using[p].deleting

\* The cache: a pod has a monitor, which is new while CreatePod works on the
\* pod, and afterwards only if the tag set_in_use failed.
Cache(p) ==
  /\ Known(p) => mpod[p].exists /\ mon[p] # "none"
  /\ ~Known(p) => cpod[p] = Absent /\ mpod[p] = Absent /\ mon[p] = "none"
  /\ pc[p] \in CreatePCs => Known(p) /\ mon[p] = "new" /\ cpod[p] = mpod[p]
  /\ pc[p] = "compute" => cpod[p] = using[p]
  /\ mon[p] = "new" /\ pc[p] \notin CreatePCs => warm /\ "tag" \in Faults
  /\ mon[p] = "new" => up = "up"
  /\ up = "down" => ~Known(p)

\* A pod that is nowhere leaves nothing behind.
Whole(p) ==
  /\ ~k8s[p].exists => k8s[p] = Absent
  /\ ~lister[p].exists => lister[p] = Absent
  /\ ~lastStatus[p].exists => lastStatus[p] = Absent
  /\ p \notin bound => /\ ~k8s[p].exists /\ ~lister[p].exists /\ ~lastStatus[p].exists
                       /\ lastUsed[p] = Absent /\ ~Known(p) /\ pc[p] = "idle"

\* The informer is behind the API and never ahead of it.
Late(p) ==
  /\ lister[p].deleting => ~k8s[p].exists \/ k8s[p].deleting
  /\ up = "up" /\ Known(p) => lister[p].exists \/ ~k8s[p].exists

\* The IP of every object of p.  GetPrivateIP is about to set that of the cached one.
Shapes(p) ==
  /\ Shape(k8s[p]) /\ Shape(lister[p]) /\ Shape(lastUsed[p]) /\ Shape(lastStatus[p])
  /\ Shape(using[p]) /\ Shape(arg[p])
  /\ pc[p] # "ip" => Shape(cpod[p]) /\ Shape(mpod[p])

\* All of this, for p.
Base(p) == Work(p) /\ Cache(p) /\ Whole(p) /\ Late(p) /\ Shapes(p)

\* The fields of pod objects that the model makes.
LEMMA PodFields ==
  /\ ~Absent.exists /\ ~Absent.deleting /\ Absent.annot = None /\ Absent.ip = None
  /\ Absent.st = "pending" /\ Absent.rev = 0
  /\ \A i \in Ids : /\ NewPod(i).exists /\ ~NewPod(i).deleting
                    /\ NewPod(i).annot = i /\ NewPod(i).ip = None
                    /\ NewPod(i).st = "pending" /\ NewPod(i).rev = 0
  /\ \A o \in Pod, s \in Statuses :
       /\ [o EXCEPT !.st = s].exists = o.exists /\ [o EXCEPT !.st = s].deleting = o.deleting
       /\ [o EXCEPT !.st = s].annot = o.annot /\ [o EXCEPT !.st = s].ip = o.ip
       /\ [o EXCEPT !.st = s].rev = o.rev /\ [o EXCEPT !.st = s].st = s
  BY DEF Absent, NewPod, Pod

\* A pod object of which only the status changes.
LEMMA SetStatus ==
  ASSUME NEW o \in Pod, NEW s \in Statuses, NEW m, m = [o EXCEPT !.st = s]
  PROVE  /\ m.exists = o.exists /\ m.deleting = o.deleting
         /\ m.annot = o.annot /\ m.ip = o.ip /\ m.rev = o.rev /\ m.st = s
  BY DEF Pod

\* A step for another pod.
LEMMA BaseKeep ==
  ASSUME NEW p, Base(p), Keep(p), UNCHANGED <<up, given>>
  PROVE  Base(p)'
  BY DEF Base, Work, Cache, Whole, Late, Shapes, Shape, ListerDead, Known, given,
         Keep, KeepApi, KeepCtl, KeepWork, KeepCache

\* The pod in the API and in the informer.
LEMMA BaseApi ==
  ASSUME TInv, NEW p \in Pods, Base(p), UNCHANGED <<up, given>>,
         DoBind(p) \/ DoEdit(p) \/ DoInform(p) \/ DoWrite(p) \/ DoRemove(p) \/ DoUse(p)
  PROVE  Base(p)'
<1> USE DEF Base, Work, Cache, Whole, Late, Shapes, Shape, ListerDead, Known, given,
            KeepApi, KeepCtl, KeepWork, KeepCache
<1>1. CASE DoBind(p)
  <2>1. PICK i \in Ids : k8s'[p] = NewPod(i) /\ (i # None => ~warm /\ i \in OldInstances)
    BY <1>1 DEF DoBind
  <2>2. /\ k8s'[p].exists /\ ~k8s'[p].deleting
        /\ k8s'[p].annot = i /\ k8s'[p].ip = None
    BY <2>1, PodFields
  <2>3. Absent.ip = None /\ Absent.annot = None /\ ~Absent.exists /\ ~Absent.deleting
    BY PodFields
  <2> QED BY <1>1, <2>1, <2>2, <2>3 DEF DoBind, CreatePCs, DeletePCs
<1>2. CASE DoEdit(p)
  BY <1>2 DEF DoEdit
<1>3. CASE DoInform(p)
  BY <1>3, PodFields DEF DoInform
<1>4. CASE DoWrite(p)
  BY <1>4, PodFields DEF DoWrite, Written
<1>5. CASE DoRemove(p)
  BY <1>5, PodFields DEF DoRemove
<1>6. CASE DoUse(p)
  BY <1>6, PodFields DEF DoUse
<1> QED BY <1>1, <1>2, <1>3, <1>4, <1>5, <1>6

\* CreatePod.
LEMMA BaseCreate ==
  ASSUME TInv, NEW p \in Pods, Base(p), UNCHANGED <<up, given>>,
         DoUpdate(p) \/ DoCreate(p) \/ DoGoOn(p) \/ DoFail(p) \/ DoStart(p) \/ DoReport(p)
  PROVE  Base(p)'
<1> USE DEF Base, Work, Cache, Whole, Late, Shapes, Shape, ListerDead, Known, given,
            KeepApi, KeepCtl, KeepWork, KeepCache, CreatePCs, DeletePCs
<1>1. CASE DoUpdate(p)
  BY <1>1 DEF DoUpdate, Changed
<1>2. CASE DoCreate(p)
  BY <1>2 DEF DoCreate
<1>3. CASE DoGoOn(p)
  BY <1>3 DEF DoGoOn
<1>4. CASE DoFail(p)
  <2>1. PICK s \in Statuses : Written(p, [using[p] EXCEPT !.st = s])
    BY <1>4 DEF DoFail, Statuses
  <2>2. \/ ~k8s[p].exists /\ k8s'[p] = k8s[p]
        \/ /\ k8s[p].exists /\ k8s'[p].exists /\ k8s'[p].deleting = k8s[p].deleting
           /\ k8s'[p].annot = using[p].annot /\ k8s'[p].ip = using[p].ip
    BY <2>1, PodFields DEF Written, TInv, TObj
  <2>3. Absent.ip = None /\ Absent.annot = None /\ ~Absent.exists /\ ~Absent.deleting
    BY PodFields
  <2> QED BY <1>4, <2>2, <2>3 DEF DoFail, DoForget
<1>5. CASE DoStart(p)
  BY <1>5, PodFields DEF DoStart
<1>6. CASE DoReport(p)
  <2>1. \/ lastStatus'[p] = lastStatus[p]
        \/ /\ lister[p].exists /\ lastStatus'[p].exists = mpod[p].exists
           /\ lastStatus'[p].ip = mpod[p].ip /\ lastStatus'[p].annot = mpod[p].annot
    <3>1. mpod[p] \in Pod
      BY DEF TInv, TObj
    <3>2. CASE lastStatus'[p] # lastStatus[p]
      <4>1. PICK s \in Statuses : lastStatus'[p] = [mpod[p] EXCEPT !.st = s]
        BY <1>6, <3>2 DEF DoReport
      <4>2. lister[p].exists
        BY <1>6, <3>2 DEF DoReport
      <4> QED BY <3>1, <4>1, <4>2, SetStatus
    <3> QED BY <3>2
  <2> QED BY <1>6, <2>1 DEF DoReport
<1> QED BY <1>1, <1>2, <1>3, <1>4, <1>5, <1>6

\* DeletePod.
LEMMA BaseDelete ==
  ASSUME TInv, NEW p \in Pods, Base(p), UNCHANGED <<up, given>>,
         DoDelete(p) \/ DoStep(p) \/ DoGiveUp(p) \/ DoFinish(p)
  PROVE  Base(p)'
<1> USE DEF Base, Work, Cache, Whole, Late, Shapes, Shape, ListerDead, Known, given,
            KeepApi, KeepCtl, KeepWork, KeepCache, CreatePCs, DeletePCs, DoReturn, DoForget
<1>1. CASE DoDelete(p)
  BY <1>1 DEF DoDelete
<1>2. CASE DoStep(p)
  BY <1>2 DEF DoStep
<1>3. CASE DoGiveUp(p)
  BY <1>3, PodFields DEF DoGiveUp
<1>4. CASE DoFinish(p)
  <2>1. lister[p].exists => /\ lastStatus'[p].exists = arg[p].exists
                            /\ lastStatus'[p].ip = arg[p].ip
                            /\ lastStatus'[p].annot = arg[p].annot
    <3>1. arg[p] \in Pod /\ "terminal" \in Statuses
      BY DEF TInv, TObj, Statuses
    <3>2. lister[p].exists => lastStatus'[p] = [arg[p] EXCEPT !.st = "terminal"]
      BY <1>4 DEF DoFinish
    <3> QED BY <3>1, <3>2, SetStatus
  <2>2. Absent.ip = None /\ Absent.annot = None /\ ~Absent.exists /\ ~Absent.deleting
    BY PodFields
  <2> QED BY <1>4, <2>1, <2>2 DEF DoFinish
<1> QED BY <1>1, <1>2, <1>3, <1>4

\* The process ends and starts.
LEMMA BaseProcess ==
  ASSUME TInv, NEW p \in Pods, Base(p), LoseProcess \/ Rehydrate \/ RunController
  PROVE  Base(p)'
<1> USE DEF Base, Work, Cache, Whole, Late, Shapes, Shape, ListerDead, Known, given,
            CreatePCs, DeletePCs
<1>1. Absent.ip = None /\ Absent.annot = None /\ ~Absent.exists /\ ~Absent.deleting
  BY PodFields
<1>2. CASE LoseProcess
  BY <1>1, <1>2 DEF LoseProcess
<1>3. CASE Rehydrate
  BY <1>1, <1>3 DEF Rehydrate, Populate, PopulateCache, ctlVars
<1>4. CASE RunController
  BY <1>1, <1>4 DEF RunController, provVars
<1> QED BY <1>2, <1>3, <1>4

\* ... of all pods.
AllBase == \A p \in Pods : Base(p)

\* Nothing is anywhere.
LEMMA BaseInit == Init => AllBase
<1> SUFFICES ASSUME Init, NEW p \in Pods PROVE Base(p)
  BY DEF AllBase
<1>1. Absent.ip = None /\ Absent.annot = None /\ ~Absent.exists /\ ~Absent.deleting
  BY PodFields
<1> QED BY <1>1 DEF Init, Base, Work, Cache, Whole, Late, Shapes, Shape, Known, CreatePCs, DeletePCs

\* A step for one pod.
LEMMA BaseStepOf ==
  ASSUME TInv, NEW p \in Pods, Base(p), NEW q \in Pods, StepOf(q)
  PROVE  Base(p)'
<1>1. UNCHANGED <<up, given>> /\ (p # q => Keep(p))
  BY DEF StepOf, Frame
<1>2. CASE p # q
  BY <1>1, <1>2, BaseKeep
<1>3. CASE p = q
  BY <1>1, <1>3, BaseApi, BaseCreate, BaseDelete DEF StepOf
<1> QED BY <1>2, <1>3

\* Every step.
LEMMA BaseStep ==
  ASSUME TInv, AllBase, [Next]_vars
  PROVE  AllBase'
<1> SUFFICES ASSUME NEW p \in Pods PROVE Base(p)'
  BY DEF AllBase
<1>1. Base(p)
  BY DEF AllBase
<1>2. CASE Next
  BY <1>1, <1>2, StepIs, BaseStepOf, BaseProcess
<1>3. CASE UNCHANGED vars
  <2>1. Keep(p) /\ UNCHANGED <<up, given>>
    BY <1>3 DEF vars, given, procVars, ctlVars, provVars, Keep, KeepApi, KeepCtl, KeepWork,
       KeepCache
  <2> QED BY <1>1, <2>1, BaseKeep
<1> QED BY <1>2, <1>3

\* The invariant of the single pods holds in every reachable state.
THEOREM BaseHolds == Spec => [](TInv /\ AllBase)
<1>1. Init => TInv /\ AllBase
  BY TypeInit, BaseInit
<1>2. TInv /\ AllBase /\ [Next]_vars => (TInv /\ AllBase)'
  BY TypeStep, BaseStep
<1> QED BY <1>1, <1>2, PTL DEF Spec

\* Without the failure of the tag set_in_use, a cached pod that no call works
\* on has had its monitor started, in any interleaving of calls, status
\* reports, edits, crashes and restarts.
THEOREM CachedMonitored ==
  ASSUME ~(TRUE \in WarmPools /\ "tag" \in Faults)
  PROVE  Spec => []CachedIsMonitored
<1>1. TInv /\ AllBase => CachedIsMonitored
  <2> SUFFICES ASSUME TInv, AllBase, NEW p \in Pods, Known(p), Idle(p)
               PROVE  mon[p] \in {"on", "off"}
    BY DEF CachedIsMonitored
  <2>1. Base(p)
    BY DEF AllBase
  <2>2. mon[p] # "none" /\ pc[p] \notin CreatePCs
    BY <2>1 DEF Base, Cache, Idle, CreatePCs
  <2>3. mon[p] # "new"
    <3>1. warm = TRUE => TRUE \in WarmPools
      BY DEF TInv, TProc
    <3>2. warm \in BOOLEAN
      BY ConfigAssumption DEF TInv, TProc
    <3> QED BY <2>1, <2>2, <3>1, <3>2 DEF Base, Cache
  <2> QED BY <2>2, <2>3 DEF TInv, TWork
<1> QED BY <1>1, BaseHolds, PTL

-----------------------------------------------------------------------------
(* One application *)

\* Applications run on running instances.
AppsRun == \A i \in Instances : app[i] # None => inst[i] = "running"

\* The application of p runs on i: p is in the cache or is to go, and CreatePod
\* is past the launch, or cleans up the very instance.
AppOf(p) ==
  \A i \in Instances : app[i] = p =>
    /\ p \in bound
    /\ up = "populated" => Known(p) \/ ~k8s[p].exists
    /\ up = "up" => Known(p) \/ ListerDead(p)
    /\ pc[p] \notin {"compute", "annotate", "ip", "tagpod", "launch"}
    /\ pc[p] = "cleanup" => i = cpod[p].annot

\* The invariant of the applications.
Apps == AppsRun /\ OneApplication /\ \A p \in Pods : AppOf(p)

\* A step for another pod.
LEMMA AppOfKeep ==
  ASSUME NEW p, AppOf(p), Keep(p), UNCHANGED <<up, given>>,
         \A i \in Instances : app'[i] = p => app[i] = p
  PROVE  AppOf(p)'
  BY DEF AppOf, ListerDead, Known, Keep, KeepApi, KeepCtl, KeepWork, KeepCache

\* A step for p that does not start its application.
LEMMA AppOfStep ==
  ASSUME TInv, NEW p \in Pods, Base(p), AppOf(p), StepOf(p),
         \A i \in Instances : app'[i] = p => app[i] = p,
         pc[p] = "cleanup" /\ pc'[p] # "cleanup" => \A i \in Instances : app'[i] # p
  PROVE  AppOf(p)'
<1> SUFFICES ASSUME NEW i \in Instances, app[i] = p, app'[i] = p
             PROVE  /\ p \in bound'
                    /\ up' = "populated" => Known(p)' \/ ~k8s'[p].exists
                    /\ up' = "up" => Known(p)' \/ ListerDead(p)'
                    /\ pc'[p] \notin {"compute", "annotate", "ip", "tagpod", "launch"}
                    /\ pc'[p] = "cleanup" => i = cpod'[p].annot
  BY DEF AppOf
<1>1. /\ p \in bound
      /\ up = "populated" => Known(p) \/ ~k8s[p].exists
      /\ up = "up" => Known(p) \/ ListerDead(p)
      /\ pc[p] \notin {"compute", "annotate", "ip", "tagpod", "launch"}
      /\ pc[p] = "cleanup" => i = cpod[p].annot /\ pc'[p] = "cleanup"
  BY DEF AppOf
<1>2. UNCHANGED <<up, given>>
  BY DEF StepOf, Frame
<1>3. Absent.ip = None /\ Absent.annot = None /\ ~Absent.exists /\ ~Absent.deleting
  BY PodFields
<1> USE DEF Known, ListerDead, KeepApi, KeepCtl, KeepWork, KeepCache, CreatePCs, DeletePCs,
            Base, Work, Cache, Late
<1>4. CASE DoBind(p) \/ DoEdit(p) \/ DoRemove(p) \/ DoUse(p) \/ DoReport(p)
  BY <1>1, <1>2, <1>3, <1>4 DEF DoBind, DoEdit, DoRemove, DoUse, DoReport
<1>5. CASE DoInform(p) \/ DoWrite(p)
  BY <1>1, <1>2, <1>3, <1>5 DEF DoInform, DoWrite, Written
<1>6. CASE DoUpdate(p) \/ DoCreate(p) \/ DoStart(p)
  BY <1>1, <1>2, <1>3, <1>6 DEF DoUpdate, DoCreate, DoStart, Changed
<1>7. CASE DoGoOn(p)
  BY <1>1, <1>2, <1>7 DEF DoGoOn
<1>8. CASE DoFail(p)
  BY <1>1, <1>2, <1>8 DEF DoFail
<1>9. CASE DoDelete(p) \/ DoStep(p) \/ DoGiveUp(p)
  BY <1>1, <1>2, <1>9 DEF DoDelete, DoStep, DoGiveUp, DoReturn
<1>10. CASE DoFinish(p)
  BY <1>1, <1>2, <1>10 DEF DoFinish, DoReturn
<1> QED BY <1>4, <1>5, <1>6, <1>7, <1>8, <1>9, <1>10 DEF StepOf

\* Without a new application, every pod keeps what AppOf says.
LEMMA AppsKept ==
  ASSUME TInv, AllBase, Apps, NEW p \in Pods, StepOf(p), AppsRun',
         \A i \in Instances : app'[i] = app[i] \/ app'[i] = None,
         pc[p] = "cleanup" /\ pc'[p] # "cleanup" => \A i \in Instances : app'[i] # p
  PROVE  Apps'
<1>1. OneApplication'
  BY DEF Apps, OneApplication
<1>2. ASSUME NEW q \in Pods PROVE AppOf(q)'
  <2>1. \A i \in Instances : app'[i] = q => app[i] = q
    BY NoneAssumption
  <2>2. AppOf(q) /\ Base(q) /\ UNCHANGED <<up, given>> /\ (q # p => Keep(q))
    BY DEF Apps, AllBase, StepOf, Frame
  <2>3. CASE q # p
    BY <2>1, <2>2, <2>3, AppOfKeep
  <2>4. CASE q = p
    BY <2>1, <2>2, <2>4, AppOfStep
  <2> QED BY <2>3, <2>4
<1> QED BY <1>1, <1>2 DEF Apps

\* The application of p is started.
LEMMA AppsLaunched ==
  ASSUME TInv, AllBase, Apps, NEW p \in Pods, StepOf(p), UNCHANGED <<inst, cpod>>,
         pc[p] = "launch", pc'[p] \in {"taginuse", "start", "cleanup"},
         IsRunning(cpod[p].ip), app' = [app EXCEPT ![cpod[p].ip] = p]
  PROVE  Apps'
<1> DEFINE n == cpod[p].ip
<1>1. Base(p) /\ AppOf(p) /\ cpod[p] \in Pod
  BY DEF Apps, AllBase, TInv, TObj
<1>2. n \in Instances /\ inst[n] = "running" /\ n = cpod[p].annot
  BY <1>1, NoneAssumption DEF IsRunning, Base, Shapes, Shape
<1>3. \A i \in Instances : app[i] # p
  BY <1>1 DEF AppOf
<1>4. \A i \in Instances : app'[i] = IF i = n THEN p ELSE app[i]
  BY DEF TInv, TEc2
<1>5. /\ p \in bound /\ Known(p) /\ UNCHANGED <<up, given>>
      /\ \A q \in Pods \ {p} : Keep(q)
  BY <1>1 DEF Base, Cache, Whole, CreatePCs, StepOf, Frame
<1> HIDE DEF n
<1>6. AppsRun'
  BY <1>2, <1>4 DEF Apps, AppsRun
<1>7. OneApplication'
  BY <1>3, <1>4 DEF Apps, OneApplication
<1>8. AppOf(p)'
  <2>1. p \in bound'
    <3> USE DEF KeepApi
    <3>1. CASE DoBind(p) \/ DoEdit(p) \/ DoInform(p) \/ DoWrite(p) \/ DoRemove(p) \/ DoUse(p)
      BY <3>1, <1>5 DEF DoBind, DoEdit, DoInform, DoWrite, DoRemove, DoUse
    <3>2. CASE ~(DoBind(p) \/ DoEdit(p) \/ DoInform(p) \/ DoWrite(p) \/ DoRemove(p) \/ DoUse(p))
      BY <3>2, <1>5 DEF StepOf, DoUpdate, DoCreate, DoGoOn, DoFail, DoStart, DoReport,
         DoDelete, DoStep, DoGiveUp, DoFinish
    <3> QED BY <3>1, <3>2
  <2>2. Known(p)'
    BY <1>5 DEF Known
  <2>3. \A i \in Instances : app'[i] = p => i = cpod'[p].annot
    BY <1>2, <1>3, <1>4
  <2> QED BY <2>1, <2>2, <2>3 DEF AppOf
<1>9. ASSUME NEW q \in Pods \ {p} PROVE AppOf(q)'
  <2>1. \A i \in Instances : app'[i] = q => app[i] = q
    BY <1>4
  <2> QED BY <1>5, <2>1, AppOfKeep DEF Apps
<1> QED BY <1>6, <1>7, <1>8, <1>9 DEF Apps

\* The steps for p that leave instances and applications alone.
Quiet(p) ==
  \/ User(p) \/ Controller(p) \/ ReportStatus(p)
  \/ UpdatePod(p) \/ CreatePod(p) \/ DeletePod(p) \/ StartMonitor(p)
  \/ ReuseCompute(p) \/ TakeWarmInstance(p) \/ NoCompute(p) \/ NoWarmInstance(p)
  \/ GetPrivateIP(p) \/ TagPendingPod(p) \/ TagInUse(p)
  \/ (StopPodMonitor(p) /\ mon[p] \in {"on", "off"}) \/ FinishDelete(p)

\* They are steps for p, and none of them ends a clean-up.
LEMMA QuietIs ==
  ASSUME TInv, NEW p \in Pods, Quiet(p)
  PROVE  /\ StepOf(p) /\ UNCHANGED <<inst, app>>
         /\ pc[p] = "cleanup" => pc'[p] = "cleanup"
<1> USE DEF ec2Vars
<1>1. CASE User(p)
  BY <1>1, UserIs DEF User, BindPod, TouchPod, MarkDeleted
<1>2. CASE Controller(p) \/ ReportStatus(p)
  BY <1>2, ControllerIs DEF Controller, Inform, UpdatePodStatus, DeleteFromKubernetes,
     SyncWithoutProvider, ReportStatus
<1>3. CASE UpdatePod(p) \/ CreatePod(p) \/ DeletePod(p) \/ StartMonitor(p)
  BY <1>3, BeginIs DEF UpdatePod, CreatePod, DeletePod, StartMonitor, Dequeue, Idle
<1>4. CASE ReuseCompute(p) \/ TakeWarmInstance(p) \/ NoCompute(p) \/ NoWarmInstance(p)
  BY <1>4, CreatingIs DEF Creating, ReuseCompute, TakeWarmInstance, NoCompute, NoWarmInstance
<1>5. CASE GetPrivateIP(p) \/ TagPendingPod(p) \/ TagInUse(p)
  BY <1>5, CreatingIs DEF Creating, GetPrivateIP, TagPendingPod, TagInUse
<1>6. CASE (StopPodMonitor(p) /\ mon[p] \in {"on", "off"}) \/ FinishDelete(p)
  <2>1. StepOf(p)
    BY <1>6, DeletingIs
  <2> QED BY <1>6, <2>1 DEF StopPodMonitor, FinishDelete
<1> QED BY <1>1, <1>2, <1>3, <1>4, <1>5, <1>6 DEF Quiet

\* Every step, by what it does to instances and applications.
LEMMA NextIs ==
  ASSUME TInv, Next
  PROVE  \/ \E p \in Pods : \/ Quiet(p) \/ CreateEC2(p) \/ LaunchApplication(p)
                            \/ CleanUpLaunch(p) \/ TerminateApp(p) \/ DeleteCompute(p)
         \/ Crash \/ \E p \in Pods : Panicking(p)
         \/ Rehydrate \/ RunController
<1>1. CASE \E p \in Pods : User(p) \/ Controller(p) \/ ReportStatus(p)
  BY <1>1 DEF Quiet
<1>2. ASSUME NEW p \in Pods, Provider(p)
      PROVE  \/ Quiet(p) \/ CreateEC2(p) \/ LaunchApplication(p)
             \/ CleanUpLaunch(p) \/ TerminateApp(p) \/ DeleteCompute(p)
             \/ Panicking(p)
  BY <1>2 DEF Provider, Quiet, Panicking
<1> QED BY <1>1, <1>2 DEF Next

\* No application runs.
LEMMA AppsInit == Init => Apps
  BY NoneAssumption DEF Init, Apps, AppsRun, OneApplication, AppOf

\* The end and the start of the process.
LEMMA AppsProcess ==
  ASSUME TInv, AllBase, Apps, LoseProcess \/ Rehydrate \/ RunController
  PROVE  Apps'
<1>1. UNCHANGED <<inst, app, bound, k8s>>
  BY DEF LoseProcess, Rehydrate, RunController, ec2Vars
<1>2. AppsRun' /\ OneApplication'
  BY <1>1 DEF Apps, AppsRun, OneApplication
<1>3. ASSUME NEW p \in Pods PROVE AppOf(p)'
  <2>1. Base(p) /\ AppOf(p)
    BY DEF AllBase, Apps
  <2>2. CASE LoseProcess
    BY <1>1, <2>1, <2>2 DEF LoseProcess, AppOf
  <2>3. CASE Rehydrate
    BY <1>1, <2>1, <2>3 DEF Rehydrate, Populate, AppOf, Known, Base, Work
  <2>4. CASE RunController
    BY <1>1, <2>1, <2>4 DEF RunController, provVars, AppOf, Known, ListerDead
  <2> QED BY <2>2, <2>3, <2>4
<1> QED BY <1>2, <1>3 DEF Apps

\* Every step: only LaunchApplication starts an application, and only a
\* clean-up could leave one behind.
LEMMA AppsStep ==
  ASSUME "cleanup" \notin Faults, TInv, AllBase, Apps, [Next]_vars
  PROVE  Apps'
<1>1. ASSUME NEW p \in Pods, Quiet(p) PROVE Apps'
  <2>1. StepOf(p) /\ UNCHANGED <<inst, app>> /\ (pc[p] = "cleanup" => pc'[p] = "cleanup")
    BY <1>1, QuietIs
  <2>2. AppsRun'
    BY <2>1 DEF Apps, AppsRun
  <2> QED BY <2>1, <2>2, AppsKept
<1>2. ASSUME NEW p \in Pods, CreateEC2(p) PROVE Apps'
  <2>1. StepOf(p) /\ UNCHANGED app /\ pc[p] = "compute"
    BY <1>2, CreatingIs DEF Creating, CreateEC2
  <2>2. AppsRun'
    BY <1>2, <2>1 DEF CreateEC2, Apps, AppsRun, TInv, TEc2
  <2> QED BY <2>1, <2>2, AppsKept
<1>3. ASSUME NEW p \in Pods, LaunchApplication(p) PROVE Apps'
  <2>1. StepOf(p) /\ UNCHANGED <<inst, cpod>> /\ pc[p] = "launch"
    BY <1>3, CreatingIs DEF Creating, LaunchApplication
  <2>2. pc'[p] \in {"taginuse", "start", "cleanup"}
    BY <1>3 DEF LaunchApplication, Continue, TInv, TWork
  <2>3. CASE UNCHANGED app
    <3>1. AppsRun'
      BY <2>1, <2>3 DEF Apps, AppsRun
    <3> QED BY <2>1, <2>3, <3>1, AppsKept
  <2>4. CASE IsRunning(cpod[p].ip) /\ app' = [app EXCEPT ![cpod[p].ip] = p]
    BY <2>1, <2>2, <2>4, AppsLaunched
  <2> QED BY <1>3, <2>3, <2>4 DEF LaunchApplication
<1>4. ASSUME NEW p \in Pods, NEW n, TerminateEC2(n)
      PROVE  /\ AppsRun'
             /\ \A i \in Instances : app'[i] = app[i] \/ app'[i] = None
             /\ \A i \in Instances : i = n => app'[i] = None
  BY <1>4 DEF TerminateEC2, IsRunning, Apps, AppsRun, TInv, TEc2
<1>5. ASSUME NEW p \in Pods, CleanUpLaunch(p) PROVE Apps'
  <2>1. StepOf(p) /\ TerminateEC2(cpod[p].annot) /\ pc[p] = "cleanup"
    BY <1>5, CreatingIs DEF Creating, CleanUpLaunch
  <2>2. \A i \in Instances : app[i] = p => i = cpod[p].annot
    BY <2>1 DEF Apps, AppOf
  <2>3. \A i \in Instances : app'[i] # p
    BY <1>4, <2>1, <2>2, NoneAssumption
  <2> QED BY <1>4, <2>1, <2>3, AppsKept
<1>6. ASSUME NEW p \in Pods, TerminateApp(p) PROVE Apps'
  <2>1. StepOf(p) /\ UNCHANGED inst /\ pc[p] = "termapp"
    BY <1>6, DeletingIs DEF TerminateApp
  <2>2. \A i \in Instances : app'[i] = app[i] \/ app'[i] = None
    BY <1>6 DEF TerminateApp, TInv, TEc2
  <2>3. AppsRun'
    BY <2>1, <2>2 DEF Apps, AppsRun
  <2> QED BY <2>1, <2>2, <2>3, AppsKept
<1>7. ASSUME NEW p \in Pods, DeleteCompute(p) PROVE Apps'
  <2>1. StepOf(p) /\ pc[p] = "term"
    BY <1>7, DeletingIs DEF DeleteCompute
  <2>2. CASE TerminateEC2(arg[p].annot)
    BY <1>4, <2>1, <2>2, AppsKept
  <2>3. CASE UNCHANGED <<inst, app>>
    <3>1. AppsRun'
      BY <2>3 DEF Apps, AppsRun
    <3> QED BY <2>1, <2>3, <3>1, AppsKept
  <2> QED BY <1>7, <2>2, <2>3 DEF DeleteCompute
<1>8. CASE UNCHANGED vars
  BY <1>8 DEF vars, given, procVars, ctlVars, provVars, ec2Vars, Apps, AppsRun, OneApplication,
     AppOf, Known, ListerDead
<1>9. CASE LoseProcess \/ Rehydrate \/ RunController
  BY <1>9, AppsProcess
<1> QED BY <1>1, <1>2, <1>3, <1>5, <1>6, <1>7, <1>8, <1>9, NextIs, PanickingIs DEF Crash

\* Unless the clean-up of a failed launch fails, the application of a pod never
\* runs twice: CreatePod is not called again while one runs, whatever crashes,
\* restarts, edits and other failures come in between.
THEOREM ApplicationIsSingle ==
  ASSUME "cleanup" \notin Faults
  PROVE  Spec => []OneApplication
<1>1. Init => TInv /\ AllBase /\ Apps
  BY TypeInit, BaseInit, AppsInit
<1>2. TInv /\ AllBase /\ Apps /\ [Next]_vars => (TInv /\ AllBase /\ Apps)'
  BY TypeStep, BaseStep, AppsStep
<1>3. Apps => OneApplication
  BY DEF Apps
<1> QED BY <1>1, <1>2, <1>3, PTL DEF Spec

-----------------------------------------------------------------------------
(* Until its first launch succeeds nobody outside the provider sees the IP of  *)
(* a pod, and all who see one see the same.                                    *)

\* Nobody has an IP or a status of p, and all agree on its annotation.
Unlaunched(p) ==
  /\ k8s[p].ip = None /\ lister[p].ip = None /\ lastUsed[p].ip = None /\ using[p].ip = None
  /\ k8s[p].exists /\ lister[p].exists => k8s[p].annot = lister[p].annot
  /\ k8s[p].exists /\ using[p].exists => k8s[p].annot = using[p].annot
  /\ lister[p].exists /\ using[p].exists => lister[p].annot = using[p].annot
  /\ ~lastStatus[p].exists

\* DeletePod has been called for the pod in the lister.
Finished(p) ==
  /\ lister[p].deleting
  /\ lastUsed[p].exists /\ lastUsed[p].deleting /\ lastUsed[p].ip # None

\* The IPs of all objects of p.
OneIp(p, i) ==
  /\ k8s[p].ip \in {None, i} /\ lister[p].ip \in {None, i} /\ lastUsed[p].ip \in {None, i}
  /\ lastStatus[p].ip \in {None, i} /\ using[p].ip \in {None, i} /\ arg[p].ip \in {None, i}
  /\ cpod[p].ip \in {None, i} /\ mpod[p].ip \in {None, i}

\* A pod that is not in the cache has not been launched or has been deleted.
Unknown(p) ==
  /\ mon[p] = "new" => Unlaunched(p)
  /\ up # "down" /\ ~Known(p) /\ k8s[p].exists /\ ~lister[p].exists => Unlaunched(p)
  /\ up # "down" /\ ~Known(p) /\ lister[p].exists => Unlaunched(p) \/ Finished(p)

\* A pod that has been launched has an IP.
HasIp(p) ==
  /\ pc[p] \in {"taginuse", "start"} => cpod[p].ip # None
  /\ k8s[p].st = "running" => k8s[p].ip # None
  /\ lister[p].st = "running" => lister[p].ip # None
  /\ lastStatus[p].st = "running" => lastStatus[p].ip # None
  /\ why[p] = "deleting" => using[p].ip # None

\* A pod that the controller has lost does not come back.
Gone(p) == why[p] \in {"gone", "dangling"} => ~lister[p].exists /\ ~k8s[p].exists

\* All of this, for p.
Launching(p) == Unknown(p) /\ HasIp(p) /\ Gone(p) /\ \E i \in Ids : OneIp(p, i)

\* A step for another pod.
LEMMA LaunchingKeep ==
  ASSUME NEW p, Launching(p), Keep(p), UNCHANGED <<up, given>>
  PROVE  Launching(p)'
<1>1. PICK i \in Ids : OneIp(p, i)
  BY DEF Launching
<1>2. OneIp(p, i)'
  BY <1>1 DEF OneIp, Keep, KeepApi, KeepCtl, KeepWork, KeepCache
<1>3. Unknown(p)' /\ HasIp(p)' /\ Gone(p)'
  BY DEF Launching, Unknown, HasIp, Gone, Unlaunched, Finished, Known,
         Keep, KeepApi, KeepCtl, KeepWork, KeepCache
<1> QED BY <1>2, <1>3 DEF Launching

\* The pod in the API and in the informer.
LEMMA LaunchingApi ==
  ASSUME TInv, NEW p \in Pods, Base(p), Launching(p), UNCHANGED <<up, given>>,
         DoBind(p) \/ DoEdit(p) \/ DoInform(p) \/ DoWrite(p) \/ DoRemove(p) \/ DoUse(p)
  PROVE  Launching(p)'
<1>1. PICK i \in Ids : OneIp(p, i)
  BY DEF Launching
<1>2. /\ Absent.ip = None /\ Absent.annot = None /\ Absent.st = "pending"
      /\ ~Absent.exists /\ ~Absent.deleting
  BY PodFields
<1>3. Unknown(p) /\ HasIp(p) /\ Gone(p) /\ Work(p) /\ Cache(p) /\ Whole(p) /\ Late(p)
  BY DEF Launching, Base
<1> USE DEF KeepApi, KeepCtl, KeepWork, KeepCache, Known, CreatePCs, DeletePCs
<1>4. CASE DoBind(p)
  <2>1. PICK j \in Ids : k8s'[p] = NewPod(j)
    BY <1>4 DEF DoBind
  <2>2. /\ k8s'[p].exists /\ ~k8s'[p].deleting
        /\ k8s'[p].annot = j /\ k8s'[p].ip = None /\ k8s'[p].st = "pending"
    BY <2>1, PodFields
  <2>3. OneIp(p, i)' /\ HasIp(p)' /\ Gone(p)'
    BY <1>1, <1>2, <1>3, <1>4, <2>2 DEF DoBind, OneIp, HasIp, Gone, Whole, Work
  <2>4. Unknown(p)'
    BY <1>2, <1>3, <1>4, <2>2 DEF DoBind, Unknown, Unlaunched, Whole, Work, Cache
  <2> QED BY <2>3, <2>4 DEF Launching
<1>5. CASE DoEdit(p)
  <2>1. OneIp(p, i)' /\ HasIp(p)' /\ Gone(p)'
    BY <1>1, <1>3, <1>5 DEF DoEdit, OneIp, HasIp, Gone
  <2>2. Unknown(p)'
    BY <1>3, <1>5 DEF DoEdit, Unknown, Unlaunched, Finished
  <2> QED BY <2>1, <2>2 DEF Launching
<1>6. CASE DoInform(p)
  <2>1. OneIp(p, i)' /\ HasIp(p)' /\ Gone(p)'
    BY <1>1, <1>2, <1>3, <1>6 DEF DoInform, OneIp, HasIp, Gone
  <2>2. Unknown(p)'
    BY <1>2, <1>3, <1>6 DEF DoInform, Unknown, Unlaunched, Finished, Late, Whole
  <2> QED BY <2>1, <2>2 DEF Launching
<1>7. CASE DoWrite(p)
  <2>1. OneIp(p, i)' /\ HasIp(p)' /\ Gone(p)'
    BY <1>1, <1>3, <1>7 DEF DoWrite, Written, OneIp, HasIp, Gone
  <2>2. Unknown(p)'
    BY <1>3, <1>7 DEF DoWrite, Written, Unknown, Unlaunched, Finished
  <2> QED BY <2>1, <2>2 DEF Launching
<1>8. CASE DoRemove(p)
  <2>1. OneIp(p, i)' /\ HasIp(p)' /\ Gone(p)'
    BY <1>1, <1>2, <1>3, <1>8 DEF DoRemove, OneIp, HasIp, Gone
  <2>2. Unknown(p)'
    BY <1>2, <1>3, <1>8 DEF DoRemove, Unknown, Unlaunched, Finished
  <2> QED BY <2>1, <2>2 DEF Launching
<1>9. CASE DoUse(p)
  <2>1. OneIp(p, i)' /\ HasIp(p)' /\ Gone(p)'
    BY <1>1, <1>3, <1>9 DEF DoUse, OneIp, HasIp, Gone
  <2>2. Unknown(p)'
    BY <1>3, <1>9 DEF DoUse, Unknown, Unlaunched, Finished
  <2> QED BY <2>1, <2>2 DEF Launching
<1> QED BY <1>4, <1>5, <1>6, <1>7, <1>8, <1>9

\* CreatePod.
LEMMA LaunchingCreate ==
  ASSUME TInv, TInv', NEW p \in Pods, Base(p), Launching(p), UNCHANGED <<up, given>>,
         DoUpdate(p) \/ DoCreate(p) \/ DoGoOn(p) \/ DoFail(p) \/ DoStart(p) \/ DoReport(p)
  PROVE  Launching(p)'
<1>1. PICK i \in Ids : OneIp(p, i)
  BY DEF Launching
<1>2. /\ Absent.ip = None /\ Absent.annot = None /\ Absent.st = "pending"
      /\ ~Absent.exists /\ ~Absent.deleting
  BY PodFields
<1>3. Unknown(p) /\ HasIp(p) /\ Gone(p) /\ Work(p) /\ Cache(p) /\ Whole(p) /\ Late(p)
  BY DEF Launching, Base
<1> USE DEF KeepApi, KeepCtl, KeepWork, KeepCache, Known, CreatePCs, DeletePCs
<1>4. CASE DoUpdate(p)
  <2>1. OneIp(p, i)' /\ HasIp(p)' /\ Gone(p)'
    BY <1>1, <1>3, <1>4 DEF DoUpdate, OneIp, HasIp, Gone
  <2>2. Unknown(p)'
    BY <1>3, <1>4 DEF DoUpdate, Unknown, Unlaunched, Finished, Changed
  <2> QED BY <2>1, <2>2 DEF Launching
<1>5. CASE DoCreate(p)
  <2>1. OneIp(p, i)' /\ HasIp(p)' /\ Gone(p)'
    BY <1>1, <1>3, <1>5 DEF DoCreate, OneIp, HasIp, Gone, Work
  <2>2. Unlaunched(p)
    BY <1>2, <1>3, <1>5 DEF DoCreate, Unknown, Finished
  <2>3. Unknown(p)'
    BY <1>3, <1>5, <2>2 DEF DoCreate, Unknown, Unlaunched
  <2> QED BY <2>1, <2>3 DEF Launching
<1>6. CASE DoGoOn(p)
  <2>1. HasIp(p)' /\ Gone(p)'
    BY <1>1, <1>3, <1>6 DEF DoGoOn, HasIp, Gone
  <2>2. Unlaunched(p) /\ arg[p].ip = None /\ lastStatus[p].ip = None
    BY <1>2, <1>3, <1>6 DEF DoGoOn, Unknown, Unlaunched, Cache, Work, Whole
  <2>3. Unknown(p)'
    BY <1>3, <1>6, <2>2 DEF DoGoOn, Unknown, Unlaunched, Cache
  <2>4. cpod'[p].ip \in Ids /\ mpod'[p] = cpod'[p]
    <3>1. cpod'[p] = mpod'[p]
      BY <1>3, <1>6 DEF DoGoOn, Cache
    <3>2. cpod'[p] \in Pod
      BY DEF TInv, TObj
    <3> QED BY <3>1, <3>2 DEF Pod
  <2>5. PICK j \in Ids : j = cpod'[p].ip
    BY <2>4
  <2>6. OneIp(p, j)'
    BY <1>6, <2>2, <2>4, <2>5 DEF DoGoOn, OneIp, Unlaunched
  <2> QED BY <2>1, <2>3, <2>6 DEF Launching
<1>7. CASE DoFail(p)
  <2>1. PICK s \in {"pending", "terminal"} : Written(p, [using[p] EXCEPT !.st = s])
    BY <1>7 DEF DoFail
  <2>2. using[p] \in Pod /\ s \in Statuses
    BY DEF TInv, TObj, Statuses
  <2>3. \/ ~k8s[p].exists /\ k8s'[p] = k8s[p]
        \/ /\ k8s[p].exists /\ k8s'[p].exists /\ k8s'[p].deleting = k8s[p].deleting
           /\ k8s'[p].annot = using[p].annot /\ k8s'[p].ip = using[p].ip
           /\ k8s'[p].st # "running"
    BY <2>1, <2>2, PodFields DEF Written
  <2>4. OneIp(p, i)' /\ HasIp(p)' /\ Gone(p)'
    BY <1>1, <1>2, <1>3, <1>7, <2>3 DEF DoFail, DoForget, OneIp, HasIp, Gone, Work
  <2>5. Unlaunched(p) /\ using[p].exists
    BY <1>3, <1>7 DEF DoFail, Unknown, Cache, Work
  <2>6. Unlaunched(p)'
    BY <1>2, <1>7, <2>3, <2>5 DEF DoFail, Unlaunched
  <2> QED BY <2>4, <2>6 DEF Launching, Unknown
<1>8. CASE DoStart(p)
  <2>1. OneIp(p, i)' /\ HasIp(p)' /\ Gone(p)'
    BY <1>1, <1>2, <1>3, <1>8 DEF DoStart, OneIp, HasIp, Gone, Work
  <2>2. Unknown(p)'
    BY <1>3, <1>8 DEF DoStart, Unknown, Cache
  <2> QED BY <2>1, <2>2 DEF Launching
<1>9. CASE DoReport(p)
  <2>1. \/ lastStatus'[p] = lastStatus[p]
        \/ lastStatus'[p].ip = mpod[p].ip /\ lister[p].exists
    <3>1. mpod[p] \in Pod
      BY DEF TInv, TObj
    <3>2. CASE lastStatus'[p] # lastStatus[p]
      <4>1. PICK s \in Statuses : lastStatus'[p] = [mpod[p] EXCEPT !.st = s]
        BY <1>9, <3>2 DEF DoReport
      <4>2. lister[p].exists
        BY <1>9, <3>2 DEF DoReport
      <4> QED BY <3>1, <4>1, <4>2, SetStatus
    <3> QED BY <3>2
  <2>2. OneIp(p, i)' /\ HasIp(p)' /\ Gone(p)'
    BY <1>1, <1>3, <1>9, <2>1 DEF DoReport, OneIp, HasIp, Gone
  <2>3. Unknown(p)'
    BY <1>3, <1>9 DEF DoReport, Unknown, Cache
  <2> QED BY <2>2, <2>3 DEF Launching
<1> QED BY <1>4, <1>5, <1>6, <1>7, <1>8, <1>9

\* DeletePod.
LEMMA LaunchingDelete ==
  ASSUME TInv, NEW p \in Pods, Base(p), Launching(p), UNCHANGED <<up, given>>,
         DoDelete(p) \/ DoStep(p) \/ DoGiveUp(p) \/ DoFinish(p)
  PROVE  Launching(p)'
<1>1. PICK i \in Ids : OneIp(p, i)
  BY DEF Launching
<1>2. /\ Absent.ip = None /\ Absent.annot = None /\ Absent.st = "pending"
      /\ ~Absent.exists /\ ~Absent.deleting
  BY PodFields
<1>3. Unknown(p) /\ HasIp(p) /\ Gone(p) /\ Work(p) /\ Cache(p) /\ Whole(p) /\ Late(p)
  BY DEF Launching, Base
<1> USE DEF KeepApi, KeepCtl, KeepWork, KeepCache, Known, CreatePCs, DeletePCs
<1>4. CASE DoDelete(p)
  <2>1. OneIp(p, i)' /\ HasIp(p)' /\ Gone(p)'
    BY <1>1, <1>3, <1>4 DEF DoDelete, OneIp, HasIp, Gone, Late
  <2>2. Unknown(p)'
    BY <1>2, <1>3, <1>4 DEF DoDelete, Unknown, Unlaunched, Finished, HasIp
  <2> QED BY <2>1, <2>2 DEF Launching
<1>5. CASE DoStep(p)
  <2>1. OneIp(p, i)' /\ HasIp(p)' /\ Gone(p)'
    BY <1>1, <1>3, <1>5 DEF DoStep, OneIp, HasIp, Gone
  <2>2. Unknown(p)'
    BY <1>3, <1>5 DEF DoStep, Unknown, Unlaunched, Finished
  <2> QED BY <2>1, <2>2 DEF Launching
<1>6. CASE DoGiveUp(p)
  <2>1. OneIp(p, i)' /\ HasIp(p)' /\ Gone(p)'
    BY <1>1, <1>2, <1>3, <1>6 DEF DoGiveUp, DoReturn, OneIp, HasIp, Gone
  <2>2. Unknown(p)'
    BY <1>2, <1>3, <1>6 DEF DoGiveUp, DoReturn, Unknown, Unlaunched, Finished
  <2> QED BY <2>1, <2>2 DEF Launching
<1>7. CASE DoFinish(p)
  <2>1. lister[p].exists => /\ lastStatus'[p].ip = arg[p].ip
                            /\ lastStatus'[p].st = "terminal"
    <3>1. arg[p] \in Pod /\ "terminal" \in Statuses
      BY DEF TInv, TObj, Statuses
    <3>2. lister[p].exists => lastStatus'[p] = [arg[p] EXCEPT !.st = "terminal"]
      BY <1>7 DEF DoFinish
    <3> QED BY <3>1, <3>2, SetStatus
  <2>2. OneIp(p, i)' /\ HasIp(p)' /\ Gone(p)'
    BY <1>1, <1>2, <1>3, <1>7, <2>1 DEF DoFinish, DoReturn, DoForget, OneIp, HasIp, Gone
  <2>3. Unknown(p)'
    <3>1. CASE why[p] = "deleting"
      BY <1>2, <1>3, <1>7, <3>1 DEF DoFinish, DoReturn, DoForget, Unknown, Finished,
         Work, Whole, ListerDead, HasIp
    <3>2. CASE why[p] \in {"gone", "dangling"}
      BY <1>2, <1>3, <1>7, <3>2 DEF DoFinish, DoReturn, DoForget, Unknown, Gone
    <3> QED BY <1>3, <1>7, <3>1, <3>2 DEF TInv, TWork, Work, DoFinish
  <2> QED BY <2>2, <2>3 DEF Launching
<1> QED BY <1>4, <1>5, <1>6, <1>7

\* The process ends and starts.
LEMMA LaunchingProcess ==
  ASSUME TInv, NEW p \in Pods, Base(p), Launching(p), LoseProcess \/ Rehydrate \/ RunController
  PROVE  Launching(p)'
<1>1. PICK i \in Ids : OneIp(p, i)
  BY DEF Launching
<1>2. /\ Absent.ip = None /\ Absent.annot = None /\ Absent.st = "pending"
      /\ ~Absent.exists /\ ~Absent.deleting
  BY PodFields
<1>3. Unknown(p) /\ HasIp(p) /\ Gone(p) /\ Work(p) /\ Cache(p) /\ Whole(p)
  BY DEF Launching, Base
<1> USE DEF Known, CreatePCs, DeletePCs
<1>4. CASE LoseProcess
  BY <1>1, <1>2, <1>3, <1>4 DEF LoseProcess, Launching, Unknown, HasIp, Gone, OneIp
<1>5. CASE Rehydrate
  <2>1. OneIp(p, i)' /\ HasIp(p)' /\ Gone(p)'
    BY <1>1, <1>2, <1>3, <1>5 DEF Rehydrate, Populate, PopulateCache, ctlVars, OneIp, HasIp,
       Gone, Work
  <2>2. Unknown(p)'
    BY <1>2, <1>3, <1>5 DEF Rehydrate, Populate, PopulateCache, ctlVars, Unknown, Work
  <2> QED BY <2>1, <2>2 DEF Launching
<1>6. CASE RunController
  <2>1. OneIp(p, i)' /\ HasIp(p)' /\ Gone(p)'
    BY <1>1, <1>2, <1>3, <1>6 DEF RunController, provVars, OneIp, HasIp, Gone, Work
  <2>2. Unknown(p)'
    BY <1>2, <1>3, <1>6 DEF RunController, provVars, Unknown, Unlaunched, Work, Cache, Whole
  <2> QED BY <2>1, <2>2 DEF Launching
<1> QED BY <1>4, <1>5, <1>6

\* ... and for all pods.
AllLaunching == \A p \in Pods : Launching(p)

\* Nothing is launched.
LEMMA LaunchingInit == Init => AllLaunching
<1> SUFFICES ASSUME Init, NEW p \in Pods PROVE Launching(p)
  BY DEF AllLaunching
<1>1. Absent.ip = None /\ Absent.st = "pending" /\ ~Absent.exists /\ None \in Ids
  BY PodFields DEF Ids
<1>2. OneIp(p, None)
  BY <1>1 DEF Init, OneIp
<1> QED BY <1>1, <1>2 DEF Init, Launching, Unknown, HasIp, Gone

\* Every step.
LEMMA LaunchingStep ==
  ASSUME TInv, TInv', AllBase, AllLaunching, [Next]_vars
  PROVE  AllLaunching'
<1> SUFFICES ASSUME NEW p \in Pods PROVE Launching(p)'
  BY DEF AllLaunching
<1>1. Base(p) /\ Launching(p)
  BY DEF AllBase, AllLaunching
<1>2. ASSUME NEW q \in Pods, StepOf(q) PROVE Launching(p)'
  <2>1. UNCHANGED <<up, given>> /\ (p # q => Keep(p))
    BY <1>2 DEF StepOf, Frame
  <2>2. CASE p # q
    BY <1>1, <2>1, <2>2, LaunchingKeep
  <2>3. CASE p = q
    BY <1>1, <1>2, <2>1, <2>3, LaunchingApi, LaunchingCreate, LaunchingDelete DEF StepOf
  <2> QED BY <2>2, <2>3
<1>3. CASE UNCHANGED vars
  <2>1. Keep(p) /\ UNCHANGED <<up, given>>
    BY <1>3 DEF vars, given, procVars, ctlVars, provVars, Keep, KeepApi, KeepCtl, KeepWork,
       KeepCache
  <2> QED BY <1>1, <2>1, LaunchingKeep
<1> QED BY <1>1, <1>2, <1>3, StepIs, LaunchingProcess

-----------------------------------------------------------------------------
(* No panic: DeletePod is called only for cached pods *)

\* DeletePod works on a cached pod.
Deletes(p) == pc[p] \in DeletePCs => Known(p)

\* ... for all pods.
AllDeletes == \A p \in Pods : Deletes(p)

\* Without edits, a pod that has been deleted once is not deleted again: the
\* controller sees that it is the one it used last.
LEMMA DeletesStepOf ==
  ASSUME MaxRev = 0, TInv, NEW p \in Pods, Base(p), Launching(p), Deletes(p), StepOf(p)
  PROVE  Deletes(p)'
<1>1. Unknown(p) /\ HasIp(p) /\ Work(p) /\ Cache(p) /\ Whole(p) /\ Shapes(p)
  BY DEF Launching, Base
<1> USE DEF Deletes, Known, KeepApi, KeepCtl, KeepWork, KeepCache, CreatePCs, DeletePCs
<1>2. CASE DoDelete(p)
  <2>1. SUFFICES ASSUME ~Known(p) PROVE FALSE
    BY <1>2 DEF DoDelete
  <2>2. /\ Changed(p) /\ lister[p].exists /\ lister[p].deleting /\ lister[p].st = "running"
        /\ up = "up"
    BY <1>2, <2>1 DEF DoDelete
  <2>3. lister[p].ip # None
    BY <1>1, <2>2 DEF HasIp
  <2>4. Finished(p)
    BY <1>1, <2>1, <2>2, <2>3 DEF Unknown, Unlaunched
  <2>5. lastUsed[p].ip = lister[p].ip
    BY <2>3, <2>4 DEF Launching, OneIp, Finished
  <2>6. lastUsed[p].annot = lister[p].annot
    BY <1>1, <2>3, <2>5 DEF Shapes, Shape
  <2>7. lastUsed[p].rev = lister[p].rev
    <3>1. lastUsed[p] \in Pod /\ lister[p] \in Pod
      BY DEF TInv, TObj
    <3>2. lastUsed[p].rev \in 0 .. 0 /\ lister[p].rev \in 0 .. 0
      BY <3>1 DEF Pod
    <3> QED BY <3>2
  <2>8. lastUsed[p].deleting \in BOOLEAN /\ lister[p].deleting \in BOOLEAN
    BY DEF TInv, TObj, Pod
  <2> QED BY <2>2, <2>4, <2>6, <2>7, <2>8 DEF Changed, Finished, PodsEffectivelyEqual, PodsEqual
<1>3. CASE \/ DoBind(p) \/ DoEdit(p) \/ DoInform(p) \/ DoWrite(p)
          \/ DoRemove(p) \/ DoUse(p) \/ DoReport(p)
  BY <1>3 DEF DoBind, DoEdit, DoInform, DoWrite, DoRemove, DoUse, DoReport
<1>4. CASE DoUpdate(p) \/ DoCreate(p) \/ DoGoOn(p) \/ DoFail(p) \/ DoStart(p)
  BY <1>4 DEF DoUpdate, DoCreate, DoGoOn, DoFail, DoStart, Changed
<1>5. CASE DoStep(p) \/ DoGiveUp(p) \/ DoFinish(p)
  BY <1>5 DEF DoStep, DoGiveUp, DoFinish, DoReturn
<1> QED BY <1>2, <1>3, <1>4, <1>5 DEF StepOf

\* Every step.
LEMMA DeletesStep ==
  ASSUME MaxRev = 0, TInv, AllBase, AllLaunching, AllDeletes, [Next]_vars
  PROVE  AllDeletes'
<1> SUFFICES ASSUME NEW p \in Pods PROVE Deletes(p)'
  BY DEF AllDeletes
<1>1. Base(p) /\ Launching(p) /\ Deletes(p)
  BY DEF AllBase, AllLaunching, AllDeletes
<1>2. ASSUME NEW q \in Pods, StepOf(q) PROVE Deletes(p)'
  <2>1. CASE p # q
    <3>1. Keep(p)
      BY <1>2, <2>1 DEF StepOf, Frame
    <3> QED BY <1>1, <3>1 DEF Deletes, Known, Keep, KeepWork, KeepCache
  <2>2. CASE p = q
    BY <1>1, <1>2, <2>2, DeletesStepOf
  <2> QED BY <2>1, <2>2
<1>3. CASE UNCHANGED vars
  BY <1>1, <1>3 DEF vars, provVars, Deletes, Known
<1>4. CASE LoseProcess
  BY <1>4 DEF LoseProcess, Deletes, DeletePCs
<1>5. CASE Rehydrate
  BY <1>1, <1>5 DEF Rehydrate, Deletes, DeletePCs, Base, Work
<1>6. CASE RunController
  BY <1>6 DEF RunController, provVars, Deletes, DeletePCs, Known
<1> QED BY <1>1, <1>2, <1>3, <1>4, <1>5, <1>6, StepIs

\* What the lifecycle keeps when nobody edits a pod.
Steady == TInv /\ AllBase /\ AllLaunching /\ AllDeletes

\* It holds initially ...
LEMMA SteadyInit == Init => Steady
<1>1. Init => AllDeletes
  BY DEF Init, AllDeletes, Deletes, DeletePCs
<1> QED BY <1>1, TypeInit, BaseInit, LaunchingInit DEF Steady

\* ... and every step keeps it.
LEMMA SteadyStep ==
  ASSUME MaxRev = 0, Steady, [Next]_vars
  PROVE  Steady'
<1>1. TInv'
  BY TypeStep DEF Steady
<1> QED BY <1>1, BaseStep, LaunchingStep, DeletesStep DEF Steady

\* Only a failed tag set_in_use leaves a cached pod without a started monitor.
LEMMA DeletesStarted ==
  ASSUME TInv, NEW p \in Pods, Base(p), Deletes(p), pc[p] \in DeletePCs,
         mon[p] \notin {"on", "off"}
  PROVE  mon[p] = "new" /\ warm /\ "tag" \in Faults
<1>1. mon[p] = "new"
  BY DEF Base, Cache, Deletes, TInv, TWork
<1>2. warm /\ "tag" \in Faults
  BY <1>1 DEF Base, Cache, CreatePCs, DeletePCs
<1> QED BY <1>1, <1>2

\* Without edits of the pods, DeletePod is at work only on pods that are in the
\* cache and, without a Warm Pool, whose monitor has been started: neither of
\* its nil dereferences happens, with all faults, crashes and interleavings.
THEOREM DeletedPodsFound ==
  ASSUME MaxRev = 0
  PROVE  Spec => []DeleteFindsPod
<1>1. Steady /\ [Next]_vars => Steady'
  BY SteadyStep
<1>2. Steady => DeleteFindsPod
  <2> SUFFICES ASSUME Steady, NEW p \in Pods, pc[p] \in DeletePCs
               PROVE  Known(p) /\ (mon[p] \in {"on", "off"} \/ (warm /\ mon[p] = "new"))
    BY DEF DeleteFindsPod
  <2>1. TInv /\ Base(p) /\ Deletes(p)
    BY DEF Steady, AllBase, AllDeletes
  <2> QED BY <2>1, DeletesStarted DEF Deletes
<1> QED BY <1>1, <1>2, SteadyInit, PTL DEF Spec

-----------------------------------------------------------------------------
(* Without edits, UpdatePod never replaces the pod object of a launched pod    *)

\* The pod is cached and its monitor has been started.
Started(p) == Known(p) /\ mon[p] \in {"on", "off"}

\* What the controller would compare with the cached pod is that pod, or the
\* one it used last.
Seen(p, o) ==
  o.exists /\ ~o.deleting =>
    \/ cpod[p].annot = o.annot
    \/ lastUsed[p].exists /\ lastUsed[p].annot = o.annot /\ ~lastUsed[p].deleting

\* Whatever has an IP has that of the cached pod.
SameIp(p) ==
  /\ k8s[p].ip # None => k8s[p].ip = cpod[p].ip
  /\ lister[p].ip # None => lister[p].ip = cpod[p].ip
  /\ mpod[p].ip # None => mpod[p].ip = cpod[p].ip
  /\ mpod[p].annot = cpod[p].annot
  /\ lastStatus[p].exists => lastStatus[p].annot = cpod[p].annot /\ lastStatus[p].ip = cpod[p].ip

\* The API has the pod of the lister, or already that of the provider.
Ahead(p) ==
  k8s[p].exists /\ lister[p].exists =>
    k8s[p].annot = lister[p].annot \/ k8s[p].annot = cpod[p].annot

\* What a launched pod looks like.
Fresh(p) ==
  Started(p) =>
    /\ SameIp(p) /\ Ahead(p)
    /\ up = "up" => Seen(p, lister[p]) /\ Seen(p, k8s[p])
    /\ up = "populated" /\ k8s[p].exists => cpod[p].annot = k8s[p].annot

\* ... for all pods.
AllFresh == \A p \in Pods : Fresh(p)

\* The revisions do not differ.
LEMMA NoRevisions ==
  ASSUME MaxRev = 0, NEW a \in Pod, NEW b \in Pod
  PROVE  a.rev = b.rev
<1>1. a.rev \in 0 .. 0 /\ b.rev \in 0 .. 0
  BY DEF Pod
<1> QED BY <1>1

\* Nothing is left for UpdatePod to do.
LEMMA NoUpdate ==
  ASSUME MaxRev = 0, TInv, NEW p \in Pods, Fresh(p), DoUpdate(p)
  PROVE  ~Started(p)
<1>1. SUFFICES ASSUME Started(p) PROVE FALSE
  OBVIOUS
<1>2. Seen(p, lister[p]) /\ lister[p].exists /\ ~lister[p].deleting
  BY <1>1 DEF DoUpdate, Changed, Fresh
<1>3. cpod[p] \in Pod /\ lister[p] \in Pod /\ lastUsed[p] \in Pod
  BY DEF TInv, TObj
<1>4. cpod[p].rev = lister[p].rev /\ lastUsed[p].rev = lister[p].rev
  BY <1>3, NoRevisions
<1>5. lastUsed[p].deleting \in BOOLEAN /\ lister[p].deleting \in BOOLEAN
  BY <1>3 DEF Pod
<1>6. lastUsed[p].exists /\ lastUsed[p].annot = lister[p].annot /\ ~lastUsed[p].deleting
  BY <1>2, <1>4 DEF DoUpdate, PodsEqual, Seen
<1> QED BY <1>2, <1>4, <1>5, <1>6 DEF DoUpdate, Changed, PodsEqual, PodsEffectivelyEqual

\* A step for p.
LEMMA FreshStepOf ==
  ASSUME MaxRev = 0, TInv, NEW p \in Pods, Base(p), Launching(p), Fresh(p), StepOf(p)
  PROVE  Fresh(p)'
<1>1. Unknown(p) /\ Work(p) /\ Cache(p) /\ Whole(p) /\ Late(p)
  BY DEF Launching, Base
<1>2. /\ Absent.ip = None /\ Absent.annot = None /\ ~Absent.exists /\ ~Absent.deleting
  BY PodFields
<1>3. UNCHANGED <<up, given>>
  BY DEF StepOf, Frame
<1> USE DEF Fresh, Started, Seen, SameIp, Ahead, Known, KeepApi, KeepCtl, KeepWork, KeepCache,
            CreatePCs, DeletePCs
<1>4. CASE DoBind(p)
  BY <1>1, <1>3, <1>4 DEF DoBind, Whole
<1>5. CASE DoEdit(p)
  BY <1>3, <1>5 DEF DoEdit
<1>6. CASE DoInform(p)
  BY <1>1, <1>2, <1>3, <1>6 DEF DoInform, Whole, Late
<1>7. CASE DoWrite(p)
  BY <1>3, <1>7 DEF DoWrite, Written
<1>8. CASE DoRemove(p)
  BY <1>2, <1>3, <1>8 DEF DoRemove
<1>9. CASE DoUse(p)
  BY <1>3, <1>9 DEF DoUse
<1>10. CASE DoUpdate(p)
  <2>1. ~Started(p)
    BY <1>10, NoUpdate
  <2> QED BY <1>10, <2>1 DEF DoUpdate
<1>11. CASE DoCreate(p) \/ DoGoOn(p) \/ DoFail(p)
  BY <1>1, <1>2, <1>11 DEF DoCreate, DoGoOn, DoFail, DoForget, Cache
<1>12. CASE DoStart(p)
  <2>1. Unlaunched(p) /\ cpod[p] = mpod[p] /\ using[p].exists /\ ~using[p].deleting /\ up = "up"
    BY <1>1, <1>12 DEF DoStart, Unknown, Cache, Work
  <2> QED BY <1>1, <1>2, <1>3, <1>12, <2>1 DEF DoStart, Unlaunched, Late, Whole
<1>13. CASE DoReport(p)
  <2>1. \/ lastStatus'[p] = lastStatus[p]
        \/ lastStatus'[p].ip = mpod[p].ip /\ lastStatus'[p].annot = mpod[p].annot
    <3>1. mpod[p] \in Pod
      BY DEF TInv, TObj
    <3>2. CASE lastStatus'[p] # lastStatus[p]
      <4>1. PICK s \in Statuses : lastStatus'[p] = [mpod[p] EXCEPT !.st = s]
        BY <1>13, <3>2 DEF DoReport
      <4> QED BY <3>1, <4>1, SetStatus
    <3> QED BY <3>2
  <2> QED BY <1>3, <1>13, <2>1 DEF DoReport
<1>14. CASE DoDelete(p) \/ DoStep(p) \/ DoGiveUp(p) \/ DoFinish(p)
  BY <1>2, <1>3, <1>14 DEF DoDelete, DoStep, DoGiveUp, DoReturn, DoFinish, DoForget
<1> QED BY <1>4, <1>5, <1>6, <1>7, <1>8, <1>9, <1>10, <1>11, <1>12, <1>13, <1>14 DEF StepOf

\* Every step.
LEMMA FreshStep ==
  ASSUME MaxRev = 0, TInv, AllBase, AllLaunching, AllFresh, [Next]_vars
  PROVE  AllFresh'
<1> SUFFICES ASSUME NEW p \in Pods PROVE Fresh(p)'
  BY DEF AllFresh
<1>1. Base(p) /\ Launching(p) /\ Fresh(p)
  BY DEF AllBase, AllLaunching, AllFresh
<1> USE DEF Fresh, Started, Seen, SameIp, Ahead, Known
<1>2. ASSUME NEW q \in Pods, StepOf(q) PROVE Fresh(p)'
  <2>1. CASE p # q
    <3>1. Keep(p) /\ UNCHANGED up
      BY <1>2, <2>1 DEF StepOf, Frame
    <3> QED BY <1>1, <3>1 DEF Keep, KeepApi, KeepCtl, KeepCache
  <2>2. CASE p = q
    BY <1>1, <1>2, <2>2, FreshStepOf
  <2> QED BY <2>1, <2>2
<1>3. CASE UNCHANGED vars
  BY <1>1, <1>3 DEF vars, procVars, ctlVars, provVars
<1>4. Absent.ip = None /\ ~Absent.exists
  BY PodFields
<1>5. CASE LoseProcess
  BY <1>4, <1>5 DEF LoseProcess
<1>6. CASE Rehydrate
  BY <1>1, <1>4, <1>6 DEF Rehydrate, Populate, PopulateCache, ctlVars, Base, Work
<1>7. CASE RunController
  BY <1>1, <1>4, <1>7 DEF RunController, provVars, Base, Work
<1> QED BY <1>1, <1>2, <1>3, <1>5, <1>6, <1>7, StepIs

\* No pod is launched.
LEMMA FreshInit == Init => AllFresh
<1>1. ~Absent.exists
  BY PodFields
<1> QED BY <1>1 DEF Init, AllFresh, Fresh, Started, Known

\* Without edits and without annotations from earlier lives, the cache has the
\* instance that Kubernetes has for a pod that is not being deleted: across
\* failed launches, crashes and restarts.
THEOREM CacheMatches ==
  ASSUME MaxRev = 0, OldInstances = {}
  PROVE  Spec => []CacheMatchesRecord
<1>1. Init => Steady /\ AllFresh
  BY SteadyInit, FreshInit
<1>2. Steady /\ AllFresh /\ [Next]_vars => (Steady /\ AllFresh)'
  BY SteadyStep, FreshStep DEF Steady
<1>3. Steady /\ AllFresh => CacheMatchesRecord
  <2> SUFFICES ASSUME Steady, AllFresh, NEW p \in Pods,
                      up # "down", k8s[p].annot # None, ~k8s[p].deleting
               PROVE  cpod[p].annot = k8s[p].annot
    BY DEF CacheMatchesRecord
  <2>1. TInv /\ Cache(p) /\ Whole(p) /\ Late(p) /\ Shapes(p) /\ Unknown(p) /\ Fresh(p)
    BY DEF Steady, AllBase, Base, AllLaunching, Launching, AllFresh
  <2>2. k8s[p].ip = k8s[p].annot
    BY <2>1 DEF Shapes, Shape
  <2>3. k8s[p].exists
    BY <2>1, PodFields DEF Whole
  <2>4. Known(p)
    BY <2>1, <2>2, <2>3 DEF Unknown, Unlaunched, Finished, Late
  <2>5. mon[p] # "new" /\ mon[p] # "none"
    BY <2>1, <2>2, <2>4 DEF Unknown, Unlaunched, Cache
  <2>6. Started(p) /\ pc[p] # "ip"
    BY <2>1, <2>4, <2>5 DEF Started, Cache, CreatePCs, TInv, TWork
  <2> QED BY <2>1, <2>2, <2>6 DEF Fresh, SameIp, Shapes, Shape
<1> QED BY <1>1, <1>2, <1>3, PTL DEF Spec

-----------------------------------------------------------------------------
(* The recorded instance runs *)

\* Some object of p names instance i.
Named(p, i) ==
  \/ k8s[p].annot = i \/ lister[p].annot = i \/ lastUsed[p].annot = i \/ lastStatus[p].annot = i
  \/ using[p].annot = i \/ arg[p].annot = i \/ cpod[p].annot = i \/ mpod[p].annot = i

\* The pod is in the API and nobody has deleted it.
Alive(p) == k8s[p].exists /\ ~k8s[p].deleting

\* What is named has been launched, and runs as long as its pod is not deleted.
Records ==
  /\ \A p \in Pods, i \in Instances : Named(p, i) => inst[i] # "absent"
  /\ \A p \in Pods, i \in Instances : Named(p, i) /\ Alive(p) => inst[i] = "running"

\* No two pods name the same instance.
Disjoint == \A p, q \in Pods, i \in Instances : Named(p, i) /\ Named(q, i) => p = q

\* A step for p brings no new name, unless CreatePod takes an instance.
LEMMA NamedStepOf ==
  ASSUME OldInstances = {}, TInv, NEW p \in Pods, Base(p), StepOf(p), NEW n,
         DoGoOn(p) => /\ cpod'[p].annot = cpod[p].annot \/ cpod'[p].annot = n
                      /\ mpod'[p].annot = mpod[p].annot \/ mpod'[p].annot = n
  PROVE  \A i \in Instances : Named(p, i)' => Named(p, i) \/ i = n
<1>1. Absent.annot = None
  BY PodFields
<1> SUFFICES ASSUME NEW i \in Instances, Named(p, i)' PROVE Named(p, i) \/ i = n
  OBVIOUS
<1>2. i # None
  BY NoneAssumption
<1> USE DEF Named, KeepApi, KeepCtl, KeepWork, KeepCache
<1>3. CASE DoBind(p)
  <2>1. k8s'[p].annot = None
    BY <1>3, PodFields DEF DoBind
  <2> QED BY <1>2, <1>3, <2>1 DEF DoBind
<1>4. CASE DoEdit(p) \/ DoInform(p) \/ DoWrite(p) \/ DoRemove(p) \/ DoUse(p)
  BY <1>1, <1>2, <1>4 DEF DoEdit, DoInform, DoWrite, Written, DoRemove, DoUse
<1>5. CASE DoUpdate(p) \/ DoCreate(p) \/ DoStart(p)
  BY <1>1, <1>2, <1>5 DEF DoUpdate, DoCreate, DoStart
<1>6. CASE DoGoOn(p)
  BY <1>6 DEF DoGoOn
<1>7. CASE DoFail(p)
  <2>1. PICK s \in Statuses : Written(p, [using[p] EXCEPT !.st = s])
    BY <1>7 DEF DoFail, Statuses
  <2>2. k8s'[p].annot = k8s[p].annot \/ k8s'[p].annot = using[p].annot
    BY <2>1, PodFields DEF Written, TInv, TObj
  <2> QED BY <1>1, <1>2, <1>7, <2>2 DEF DoFail, DoForget
<1>8. CASE DoReport(p)
  <2>1. lastStatus'[p] = lastStatus[p] \/ lastStatus'[p].annot = mpod[p].annot
    <3>1. mpod[p] \in Pod
      BY DEF TInv, TObj
    <3>2. CASE lastStatus'[p] # lastStatus[p]
      <4>1. PICK s \in Statuses : lastStatus'[p] = [mpod[p] EXCEPT !.st = s]
        BY <1>8, <3>2 DEF DoReport
      <4> QED BY <3>1, <4>1, SetStatus
    <3> QED BY <3>2
  <2> QED BY <1>8, <2>1 DEF DoReport
<1>9. CASE DoDelete(p) \/ DoStep(p) \/ DoGiveUp(p)
  BY <1>1, <1>2, <1>9 DEF DoDelete, DoStep, DoGiveUp, DoReturn
<1>10. CASE DoFinish(p)
  <2>1. lastStatus'[p] = lastStatus[p] \/ lastStatus'[p].annot = arg[p].annot
    <3>1. arg[p] \in Pod /\ "terminal" \in Statuses
      BY DEF TInv, TObj, Statuses
    <3>2. lister[p].exists => lastStatus'[p] = [arg[p] EXCEPT !.st = "terminal"]
      BY <1>10 DEF DoFinish
    <3> QED BY <1>10, <3>1, <3>2, SetStatus DEF DoFinish
  <2> QED BY <1>1, <1>2, <1>10, <2>1 DEF DoFinish, DoReturn, DoForget
<1> QED BY <1>3, <1>4, <1>5, <1>6, <1>7, <1>8, <1>9, <1>10 DEF StepOf

\* A pod comes to life when it is bound, and then nothing is named.
LEMMA AliveStepOf ==
  ASSUME NEW p \in Pods, Base(p), StepOf(p), Alive(p)'
  PROVE  Alive(p) \/ \A i \in Instances : ~Named(p, i)
<1> USE DEF Alive, KeepApi
<1>1. CASE DoBind(p)
  BY <1>1, PodFields, NoneAssumption DEF DoBind, Base, Whole, Work, Cache, Named, CreatePCs,
     DeletePCs
<1>2. CASE DoEdit(p) \/ DoInform(p) \/ DoWrite(p) \/ DoRemove(p) \/ DoUse(p)
  BY <1>2, PodFields DEF DoEdit, DoInform, DoWrite, Written, DoRemove, DoUse
<1>3. CASE DoUpdate(p) \/ DoCreate(p) \/ DoGoOn(p) \/ DoFail(p) \/ DoStart(p) \/ DoReport(p)
  BY <1>3 DEF DoUpdate, DoCreate, DoGoOn, DoFail, Written, DoStart, DoReport
<1>4. CASE DoDelete(p) \/ DoStep(p) \/ DoGiveUp(p) \/ DoFinish(p)
  BY <1>4 DEF DoDelete, DoStep, DoGiveUp, DoFinish
<1> QED BY <1>1, <1>2, <1>3, <1>4 DEF StepOf

\* Another pod.
LEMMA NamedKeep ==
  ASSUME NEW p, Keep(p), NEW i
  PROVE  (Named(p, i)' <=> Named(p, i)) /\ (Alive(p)' <=> Alive(p))
  BY DEF Keep, KeepApi, KeepCtl, KeepWork, KeepCache, Named, Alive

\* A step that names nothing new and does not terminate what is used.
LEMMA RecordsKept ==
  ASSUME TInv, AllBase, Records, Disjoint, NEW p \in Pods, StepOf(p),
         \A i \in Instances : Named(p, i)' => Named(p, i),
         \A i \in Instances : inst[i] # "absent" => inst'[i] # "absent",
         \A q \in Pods, i \in Instances :
           Named(q, i) /\ Named(q, i)' /\ Alive(q) /\ Alive(q)' /\ inst[i] = "running"
             => inst'[i] = "running"
  PROVE  Records' /\ Disjoint'
<1>1. ASSUME NEW q \in Pods, NEW i \in Instances, Named(q, i)'
      PROVE  Named(q, i) /\ (Alive(q)' => Alive(q))
  <2>1. CASE q = p
    BY <1>1, <2>1, AliveStepOf DEF AllBase
  <2>2. CASE q # p
    <3>1. Keep(q)
      BY <2>2 DEF StepOf, Frame
    <3> QED BY <1>1, <3>1, NamedKeep
  <2> QED BY <2>1, <2>2
<1>2. Records'
  BY <1>1 DEF Records
<1>3. Disjoint'
  BY <1>1 DEF Disjoint
<1> QED BY <1>2, <1>3

\* CreatePod takes an instance that nobody else names.
LEMMA RecordsTaken ==
  ASSUME TInv, AllBase, Records, Disjoint, NEW p \in Pods, StepOf(p), NEW n \in Instances,
         \A i \in Instances : Named(p, i)' => Named(p, i) \/ i = n,
         inst'[n] = "running", \A i \in Instances \ {n} : inst'[i] = inst[i],
         (\A q \in Pods : ~Named(q, n)) \/ (\A q \in Pods : q = p)
  PROVE  Records' /\ Disjoint'
<1>1. ASSUME NEW q \in Pods, NEW i \in Instances, Named(q, i)'
      PROVE  \/ Named(q, i) /\ (Alive(q)' => Alive(q))
             \/ i = n /\ q = p
  <2>1. CASE q = p
    BY <1>1, <2>1, AliveStepOf DEF AllBase
  <2>2. CASE q # p
    <3>1. Keep(q)
      BY <2>2 DEF StepOf, Frame
    <3> QED BY <1>1, <3>1, NamedKeep
  <2> QED BY <2>1, <2>2
<1>2. Records'
  BY <1>1 DEF Records
<1>3. Disjoint'
  BY <1>1 DEF Disjoint
<1> QED BY <1>2, <1>3

\* The end and the start of the process copy names and make none.
LEMMA RecordsProcess ==
  ASSUME TInv, Records, Disjoint, LoseProcess \/ Rehydrate \/ RunController
  PROVE  Records' /\ Disjoint'
<1>1. UNCHANGED <<inst, k8s>>
  BY DEF LoseProcess, Rehydrate, RunController, ec2Vars
<1>2. ASSUME NEW p \in Pods, NEW i \in Instances, Named(p, i)'
      PROVE  Named(p, i)
  <2>1. Absent.annot = None /\ i # None
    BY PodFields, NoneAssumption
  <2> USE DEF Named
  <2>2. CASE LoseProcess
    BY <1>2, <2>1, <2>2 DEF LoseProcess
  <2>3. CASE Rehydrate
    BY <1>2, <2>3 DEF Rehydrate, Populate, ctlVars
  <2>4. CASE RunController
    BY <1>2, <2>1, <2>4 DEF RunController, provVars
  <2> QED BY <2>2, <2>3, <2>4
<1>3. Records'
  BY <1>1, <1>2 DEF Records, Alive
<1>4. Disjoint'
  BY <1>2 DEF Disjoint
<1> QED BY <1>3, <1>4

\* The steps that leave instances alone, except for TakeWarmInstance.
LEMMA QuietNames ==
  ASSUME OldInstances = {}, TInv, NEW p \in Pods, Base(p),
         \/ Quiet(p) /\ ~TakeWarmInstance(p)
         \/ LaunchApplication(p) \/ CleanUpLaunch(p) \/ TerminateApp(p) \/ DeleteCompute(p)
  PROVE  /\ StepOf(p)
         /\ \A i \in Instances : Named(p, i)' => Named(p, i)
<1>1. StepOf(p)
  <2>1. CASE Quiet(p)
    BY <2>1, QuietIs
  <2>2. CASE LaunchApplication(p) \/ CleanUpLaunch(p)
    BY <2>2, CreatingIs DEF Creating
  <2>3. CASE TerminateApp(p) \/ DeleteCompute(p)
    BY <2>3, DeletingIs DEF StopPodMonitor, TerminateApp, DeleteCompute
  <2> QED BY <2>1, <2>2, <2>3
<1>2. DoGoOn(p) => /\ cpod'[p].annot = cpod[p].annot \/ cpod'[p].annot = None
                   /\ mpod'[p].annot = mpod[p].annot \/ mpod'[p].annot = None
  <2> SUFFICES ASSUME DoGoOn(p)
               PROVE  /\ cpod'[p].annot = cpod[p].annot \/ cpod'[p].annot = None
                      /\ mpod'[p].annot = mpod[p].annot \/ mpod'[p].annot = None
    OBVIOUS
  <2>1. pc[p] \in CreatePCs \ {"annotate", "cleanup", "start"} /\ pc'[p] \in CreatePCs
    BY DEF DoGoOn
  <2>2. CASE UNCHANGED <<cpod, mpod>>
    BY <2>2
  <2>3. CASE Forget(p)
    BY <2>3, PodFields DEF Forget, TInv, TObj
  <2>4. CASE SetPod(p, [cpod[p] EXCEPT !.ip = cpod[p].annot])
    <3>1. cpod[p] \in Pod /\ cpod[p] = mpod[p]
      BY <2>1 DEF TInv, TObj, Base, Cache
    <3>2. [cpod[p] EXCEPT !.ip = cpod[p].annot].annot = cpod[p].annot
      BY <3>1 DEF Pod
    <3> QED BY <2>4, <3>1, <3>2 DEF SetPod, TInv, TObj
  <2>5. CASE User(p) \/ Controller(p) \/ ReportStatus(p)
    <3>1. User(p) => UNCHANGED <<cpod, mpod>>
      BY DEF User, BindPod, TouchPod, MarkDeleted, provVars
    <3>2. Controller(p) \/ ReportStatus(p) => UNCHANGED <<cpod, mpod>>
      BY DEF Controller, Inform, UpdatePodStatus, DeleteFromKubernetes, SyncWithoutProvider,
         ReportStatus, provVars
    <3> QED BY <2>2, <2>5, <3>1, <3>2
  <2>6. CASE UpdatePod(p) \/ CreatePod(p) \/ DeletePod(p) \/ StartMonitor(p)
    BY <2>1, <2>6 DEF UpdatePod, CreatePod, DeletePod, StartMonitor, Dequeue, Idle, CreatePCs
  <2>7. CASE \/ ReuseCompute(p) \/ NoCompute(p) \/ NoWarmInstance(p) \/ GetPrivateIP(p)
             \/ TagPendingPod(p) \/ LaunchApplication(p) \/ CleanUpLaunch(p) \/ TagInUse(p)
    BY <2>2, <2>3, <2>4, <2>7 DEF ReuseCompute, NoCompute, NoWarmInstance, GetPrivateIP,
       TagPendingPod, LaunchApplication, CleanUpLaunch, TagInUse, provVars
  <2>8. CASE StopPodMonitor(p) \/ TerminateApp(p) \/ DeleteCompute(p) \/ FinishDelete(p)
    BY <2>1, <2>8 DEF StopPodMonitor, TerminateApp, DeleteCompute, FinishDelete, CreatePCs
  <2> QED BY <2>5, <2>6, <2>7, <2>8 DEF Quiet
<1>3. \A i \in Instances : Named(p, i)' => Named(p, i) \/ i = None
  BY <1>1, <1>2, NamedStepOf
<1> QED BY <1>1, <1>3, NoneAssumption

\* Every step: CreatePod takes an instance that no pod names, and what is
\* terminated is named by a pod that is to go, or by nobody any more.
LEMMA RecordsStep ==
  ASSUME OldInstances = {}, TRUE \notin WarmPools \/ (\A p, q \in Pods : p = q),
         TInv, AllBase, AllLaunching, Records, Disjoint, [Next]_vars
  PROVE  Records' /\ Disjoint'
<1>1. ASSUME NEW p \in Pods, Quiet(p) /\ ~TakeWarmInstance(p) PROVE Records' /\ Disjoint'
  <2>1. UNCHANGED inst
    BY <1>1, QuietIs
  <2>2. StepOf(p) /\ \A i \in Instances : Named(p, i)' => Named(p, i)
    BY <1>1, QuietNames DEF AllBase
  <2> QED BY <2>1, <2>2, RecordsKept
<1>2. ASSUME NEW p \in Pods, LaunchApplication(p) \/ TerminateApp(p) PROVE Records' /\ Disjoint'
  <2>1. UNCHANGED inst
    BY <1>2 DEF LaunchApplication, TerminateApp
  <2>2. StepOf(p) /\ \A i \in Instances : Named(p, i)' => Named(p, i)
    BY <1>2, QuietNames DEF AllBase
  <2> QED BY <2>1, <2>2, RecordsKept
<1>3. ASSUME NEW p \in Pods, TakeWarmInstance(p) PROVE Records' /\ Disjoint'
  <2>1. StepOf(p) /\ UNCHANGED inst
    BY <1>3, CreatingIs DEF Creating, TakeWarmInstance, ec2Vars
  <2>2. PICK n \in Instances :
          /\ inst[n] = "running"
          /\ Annotate(p, [[cpod[p] EXCEPT !.annot = n] EXCEPT !.ip = n], "tagpod")
    BY <1>3 DEF TakeWarmInstance, ReadyInstances, IsRunning
  <2>3. UNCHANGED <<cpod, mpod>> \/ (cpod'[p].annot = n /\ mpod'[p].annot = n)
    <3>1. cpod[p] \in Pod
      BY DEF TInv, TObj
    <3>2. [[cpod[p] EXCEPT !.annot = n] EXCEPT !.ip = n].annot = n
      BY <3>1 DEF Pod
    <3> QED BY <2>2, <3>2 DEF Annotate, SetPod, TInv, TObj
  <2>4. \A i \in Instances : Named(p, i)' => Named(p, i) \/ i = n
    BY <2>1, <2>3, NamedStepOf DEF AllBase
  <2>5. \A q \in Pods : q = p
    <3>1. warm
      BY <1>3 DEF TakeWarmInstance
    <3>2. warm \in WarmPools /\ warm \in BOOLEAN
      BY ConfigAssumption DEF TInv, TProc
    <3> QED BY <3>1, <3>2
  <2> QED BY <2>1, <2>2, <2>4, <2>5, RecordsTaken
<1>4. ASSUME NEW p \in Pods, CreateEC2(p) PROVE Records' /\ Disjoint'
  <2>1. StepOf(p)
    BY <1>4, CreatingIs DEF Creating
  <2>2. PICK n \in Instances :
          /\ inst[n] = "absent" /\ inst' = [inst EXCEPT ![n] = "running"]
          /\ Annotate(p, [cpod[p] EXCEPT !.annot = n], "ip")
    BY <1>4 DEF CreateEC2
  <2>3. UNCHANGED <<cpod, mpod>> \/ (cpod'[p].annot = n /\ mpod'[p].annot = n)
    <3>1. cpod[p] \in Pod
      BY DEF TInv, TObj
    <3>2. [cpod[p] EXCEPT !.annot = n].annot = n
      BY <3>1 DEF Pod
    <3> QED BY <2>2, <3>2 DEF Annotate, SetPod, TInv, TObj
  <2>4. \A i \in Instances : Named(p, i)' => Named(p, i) \/ i = n
    BY <2>1, <2>3, NamedStepOf DEF AllBase
  <2>5. inst'[n] = "running" /\ \A i \in Instances \ {n} : inst'[i] = inst[i]
    BY <2>2 DEF TInv, TEc2
  <2>6. \A q \in Pods : ~Named(q, n)
    BY <2>2 DEF Records
  <2> QED BY <2>1, <2>4, <2>5, <2>6, RecordsTaken
<1>5. ASSUME NEW n, TerminateEC2(n)
      PROVE  /\ \A i \in Instances : inst[i] # "absent" => inst'[i] # "absent"
             /\ \A i \in Instances : i # n => inst'[i] = inst[i]
  BY <1>5 DEF TerminateEC2, TInv, TEc2
<1>6. ASSUME NEW p \in Pods, CleanUpLaunch(p) PROVE Records' /\ Disjoint'
  <2>1. StepOf(p) /\ \A i \in Instances : Named(p, i)' => Named(p, i)
    BY <1>6, QuietNames DEF AllBase
  <2>2. pc[p] = "cleanup" /\ Base(p) /\ Launching(p)
    BY <1>6 DEF CleanUpLaunch, AllBase, AllLaunching
  <2>3. CASE UNCHANGED <<inst, app>>
    BY <2>1, <2>3, RecordsKept
  <2>4. CASE TerminateEC2(cpod[p].annot)
    <3>1. \A i \in Instances : ~Named(p, i)'
      <4>1. Absent.annot = None
        BY PodFields
      <4>2. Unlaunched(p) /\ arg[p] = Absent
        BY <2>2 DEF Base, Cache, Work, Launching, Unknown, CreatePCs, DeletePCs
      <4>3. /\ k8s[p].annot = None /\ lister[p].annot = None /\ lastUsed[p].annot = None
            /\ using[p].annot = None /\ lastStatus[p].annot = None
        BY <2>2, <4>1, <4>2 DEF Base, Shapes, Shape, Whole, Unlaunched
      <4>4. CreateError(p) /\ Forget(p)
        BY <1>6 DEF CleanUpLaunch
      <4>5. PICK s \in Statuses : UpdateStatus(p, [using[p] EXCEPT !.st = s])
        BY <4>4 DEF CreateError, Statuses
      <4>6. using[p] \in Pod /\ [using[p] EXCEPT !.st = s] \in Pod
        BY PodTypes DEF TInv, TObj
      <4>7. [using[p] EXCEPT !.st = s].annot = using[p].annot
        BY <4>6, PodFields
      <4>8. Written(p, [using[p] EXCEPT !.st = s])
        BY <4>5, <4>6, WrittenType
      <4>9. k8s'[p].annot = None
        BY <4>3, <4>7, <4>8 DEF Written
      <4>10. /\ cpod'[p] = Absent /\ mpod'[p] = Absent /\ using'[p] = Absent
             /\ UNCHANGED <<lister, lastUsed, lastStatus, arg>>
        BY <4>4 DEF CreateError, Forget, TInv, TObj
      <4> QED BY <4>1, <4>2, <4>3, <4>9, <4>10, NoneAssumption DEF Named
    <3>2. \A q \in Pods \ {p} : ~Named(q, cpod[p].annot) \/ cpod[p].annot \notin Instances
      BY DEF Disjoint, Named
    <3> QED BY <1>5, <2>1, <2>4, <3>1, <3>2, RecordsKept
  <2> QED BY <1>6, <2>3, <2>4 DEF CleanUpLaunch
<1>7. ASSUME NEW p \in Pods, DeleteCompute(p) PROVE Records' /\ Disjoint'
  <2>1. StepOf(p) /\ \A i \in Instances : Named(p, i)' => Named(p, i)
    BY <1>7, QuietNames DEF AllBase
  <2>2. CASE UNCHANGED <<inst, app>>
    BY <2>1, <2>2, RecordsKept
  <2>3. CASE TerminateEC2(arg[p].annot)
    <3>1. ~Alive(p)
      <4>1. pc[p] = "term" /\ Base(p)
        BY <1>7 DEF DeleteCompute, AllBase
      <4> QED BY <4>1 DEF Base, Work, Late, ListerDead, Alive, DeletePCs
    <3>2. \A q \in Pods \ {p} : ~Named(q, arg[p].annot) \/ arg[p].annot \notin Instances
      BY DEF Disjoint, Named
    <3> QED BY <1>5, <2>1, <2>3, <3>1, <3>2, RecordsKept
  <2> QED BY <1>7, <2>2, <2>3 DEF DeleteCompute
<1>8. CASE UNCHANGED vars
  <2>1. UNCHANGED <<inst, k8s, lister, lastUsed, lastStatus, using, arg, cpod, mpod>>
    BY <1>8 DEF vars, ctlVars, provVars, ec2Vars
  <2>2. \A p \in Pods, i \in Instances : (Named(p, i)' <=> Named(p, i)) /\ (Alive(p)' <=> Alive(p))
    BY <2>1 DEF Named, Alive
  <2> QED BY <2>1, <2>2 DEF Records, Disjoint
<1>9. CASE LoseProcess \/ Rehydrate \/ RunController
  BY <1>9, RecordsProcess
<1> QED BY <1>1, <1>2, <1>3, <1>4, <1>6, <1>7, <1>8, <1>9, NextIs, PanickingIs DEF Crash

\* Nothing is named.
LEMMA RecordsInit == Init => Records /\ Disjoint
<1> SUFFICES ASSUME Init PROVE \A p \in Pods, i \in Instances : ~Named(p, i)
  BY DEF Records, Disjoint
<1>1. Absent.annot = None
  BY PodFields
<1> QED BY <1>1, NoneAssumption DEF Init, Named

\* Without annotations from earlier lives, the instance that Kubernetes has for
\* a pod that is not being deleted runs: with edits, all faults, crashes and
\* restarts.  In a Warm Pool two pods can be given the same instance, so with
\* one this is shown for a single pod.
THEOREM RecordedRuns ==
  ASSUME OldInstances = {}, TRUE \notin WarmPools \/ (\A p, q \in Pods : p = q)
  PROVE  Spec => []RecordedInstanceRuns
<1> DEFINE I == TInv /\ AllBase /\ AllLaunching /\ Records /\ Disjoint
<1>1. Init => I
  BY TypeInit, BaseInit, LaunchingInit, RecordsInit
<1>2. I /\ [Next]_vars => I'
  <2> SUFFICES ASSUME I, [Next]_vars PROVE I'
    OBVIOUS
  <2>1. TInv'
    BY TypeStep
  <2>2. Records' /\ Disjoint'
    BY RecordsStep
  <2> QED BY <2>1, <2>2, BaseStep, LaunchingStep
<1>3. I => RecordedInstanceRuns
  <2> SUFFICES ASSUME I, NEW p \in Pods, k8s[p].annot # None, ~k8s[p].deleting
               PROVE  IsRunning(k8s[p].annot)
    BY DEF RecordedInstanceRuns
  <2>1. k8s[p].exists
    BY PodFields DEF AllBase, Base, Whole
  <2>2. k8s[p].annot \in Instances
    BY DEF TInv, TObj, Pod, Ids
  <2> QED BY <2>1, <2>2 DEF Records, Alive, Named, IsRunning
<1> QED BY <1>1, <1>2, <1>3, PTL DEF Spec

-----------------------------------------------------------------------------
(* No orphans *)

\* DeletePod is given the instance that is in the cache.
RightArg(p) == pc[p] \in DeletePCs => arg[p].annot = cpod[p].annot

\* ... for all pods.
AllRightArg == \A p \in Pods : RightArg(p)

\* The cache has i for p, and DeletePod has not terminated it.
Holds(p, i) == cpod[p].annot = i /\ pc[p] # "forget"

\* Every instance that was allotted and runs is in the cache.
Held == \A i \in Instances : IsRunning(i) /\ Allotted(i) => \E p \in Pods : Holds(p, i)

\* Tags do not fail, or are not used.
NoHole == ~(warm /\ "tag" \in Faults)

\* DeletePod begins.
LEMMA RightArgStepOf ==
  ASSUME NoHole, TInv, NEW p \in Pods, Base(p), Launching(p), Fresh(p), Deletes(p)', RightArg(p),
         StepOf(p)
  PROVE  RightArg(p)'
<1> USE DEF RightArg, KeepApi, KeepCtl, KeepWork, KeepCache, CreatePCs, DeletePCs
<1>1. CASE DoDelete(p)
  <2>1. CASE arg'[p] = cpod[p]
    BY <1>1, <2>1 DEF DoDelete
  <2>2. CASE arg'[p] = lister[p] /\ lister[p].st = "running"
    <3>1. Known(p)
      BY <1>1 DEF DoDelete, Deletes, Known
    <3>2. mon[p] # "new" /\ mon[p] # "none"
      BY <1>1, <3>1 DEF DoDelete, Base, Cache, NoHole
    <3>3. Started(p)
      BY <3>1, <3>2 DEF Started, TInv, TWork
    <3>4. lister[p].ip # None /\ lister[p].ip = cpod[p].ip
      BY <2>2, <3>3 DEF Launching, HasIp, Fresh, SameIp
    <3>5. lister[p].ip = lister[p].annot /\ cpod[p].ip = cpod[p].annot
      BY <1>1, <3>4 DEF DoDelete, Base, Shapes, Shape
    <3> QED BY <1>1, <2>2, <3>4, <3>5 DEF DoDelete
  <2> QED BY <1>1, <2>1, <2>2 DEF DoDelete
<1>2. CASE \/ DoBind(p) \/ DoEdit(p) \/ DoInform(p) \/ DoWrite(p)
          \/ DoRemove(p) \/ DoUse(p) \/ DoReport(p)
  BY <1>2 DEF DoBind, DoEdit, DoInform, DoWrite, DoRemove, DoUse, DoReport
<1>3. CASE DoUpdate(p) \/ DoCreate(p) \/ DoGoOn(p) \/ DoFail(p) \/ DoStart(p)
  BY <1>3 DEF DoUpdate, DoCreate, DoGoOn, DoFail, DoStart
<1>4. CASE DoStep(p) \/ DoGiveUp(p) \/ DoFinish(p)
  BY <1>4 DEF DoStep, DoGiveUp, DoFinish, DoReturn
<1> QED BY <1>1, <1>2, <1>3, <1>4 DEF StepOf

\* Every step.
LEMMA RightArgStep ==
  ASSUME NoHole, TInv, AllBase, AllLaunching, AllFresh, AllDeletes', AllRightArg, [Next]_vars
  PROVE  AllRightArg'
<1> SUFFICES ASSUME NEW p \in Pods PROVE RightArg(p)'
  BY DEF AllRightArg
<1>1. Base(p) /\ Launching(p) /\ Fresh(p) /\ RightArg(p) /\ Deletes(p)'
  BY DEF AllBase, AllLaunching, AllFresh, AllRightArg, AllDeletes
<1>2. ASSUME NEW q \in Pods, StepOf(q) PROVE RightArg(p)'
  <2>1. CASE p # q
    <3>1. Keep(p)
      BY <1>2, <2>1 DEF StepOf, Frame
    <3> QED BY <1>1, <3>1 DEF RightArg, Keep, KeepWork, KeepCache
  <2>2. CASE p = q
    BY <1>1, <1>2, <2>2, RightArgStepOf
  <2> QED BY <2>1, <2>2
<1> USE DEF RightArg, DeletePCs
<1>3. CASE UNCHANGED vars
  BY <1>1, <1>3 DEF vars, provVars
<1>4. CASE LoseProcess
  BY <1>4 DEF LoseProcess
<1>5. CASE Rehydrate
  BY <1>1, <1>5 DEF Rehydrate, Base, Work
<1>6. CASE RunController
  BY <1>6 DEF RunController, provVars
<1> QED BY <1>2, <1>3, <1>4, <1>5, <1>6, StepIs

\* A pod that is about to get an instance is annotated with one from an earlier
\* life, if with any.
LEMMA AllottedLater ==
  ASSUME TInv, NEW p \in Pods, Base(p), Unknown(p), pc[p] = "compute",
         NEW i \in Instances, Allotted(i)
  PROVE  cpod[p].annot # i
<1>1. mon[p] = "new" /\ cpod[p] = using[p]
  BY DEF Base, Cache, CreatePCs
<1>2. cpod[p].ip = None
  BY <1>1 DEF Unknown, Unlaunched
<1>3. Shape(cpod[p])
  BY DEF Base, Shapes
<1> SUFFICES ASSUME cpod[p].annot = i PROVE FALSE
  OBVIOUS
<1>4. ~warm /\ i \in OldInstances
  BY <1>2, <1>3, NoneAssumption DEF Shape
<1> QED BY <1>4 DEF Allotted, PreRunning

\* A pod keeps the running instance that was allotted to it.
LEMMA HoldsQuiet ==
  ASSUME MaxRev = 0, "ip" \notin Faults, NoHole, TInv,
         NEW p \in Pods, Base(p), Unknown(p), Fresh(p), Quiet(p),
         NEW i \in Instances, IsRunning(i), Allotted(i), Holds(p, i)
  PROVE  Holds(p, i)'
<1> USE DEF Holds
<1>1. i # None /\ Absent.annot = None
  BY NoneAssumption, PodFields
<1>0. pc[p] # "compute"
  BY AllottedLater DEF Holds
<1>2. CASE User(p)
  BY <1>2 DEF User, BindPod, TouchPod, MarkDeleted, provVars
<1>3. CASE Controller(p) \/ ReportStatus(p)
  BY <1>3 DEF Controller, Inform, UpdatePodStatus, DeleteFromKubernetes, SyncWithoutProvider,
     ReportStatus, provVars
<1>4. CASE UpdatePod(p)
  <2>1. DoUpdate(p)
    <3>1. UNCHANGED <<warm, never, bare, up, bound, k8s, lister>>
      BY <1>4 DEF UpdatePod, given, procVars
    <3> QED BY <1>4, <3>1 DEF UpdatePod, Dequeue, Working, Idle, DoUpdate, TInv, TObj,
            KeepApi, KeepWork
  <2>2. Known(p) /\ pc[p] = "idle" /\ ~Started(p)
    BY <2>1, NoUpdate DEF DoUpdate
  <2>3. mon[p] = "new"
    BY <2>2 DEF Base, Cache, Started, TInv, TWork
  <2> QED BY <2>2, <2>3 DEF Base, Cache, CreatePCs, NoHole
<1>5. CASE CreatePod(p)
  BY <1>1, <1>5 DEF CreatePod, Base, Cache
<1>6. CASE DeletePod(p) \/ StartMonitor(p)
  BY <1>6 DEF DeletePod, StartMonitor, provVars, TInv, TWork
<1>7. CASE ReuseCompute(p)
  BY <1>7 DEF ReuseCompute, Continue, TInv, TWork
<1>8. CASE TakeWarmInstance(p) \/ NoWarmInstance(p)
  BY <1>0, <1>8 DEF TakeWarmInstance, NoWarmInstance
<1>9. CASE NoCompute(p)
  BY <1>0, <1>9 DEF NoCompute
<1>10. CASE GetPrivateIP(p)
  <2>1. SetPod(p, [cpod[p] EXCEPT !.ip = cpod[p].annot]) /\ Continue(p, "launch")
    BY <1>10 DEF GetPrivateIP
  <2>2. cpod[p] \in Pod
    BY DEF TInv, TObj
  <2>3. [cpod[p] EXCEPT !.ip = cpod[p].annot].annot = cpod[p].annot
    BY <2>2 DEF Pod
  <2> QED BY <2>1, <2>3 DEF SetPod, Continue, TInv, TObj, TWork
<1>11. CASE TagPendingPod(p) \/ TagInUse(p)
  BY <1>11 DEF TagPendingPod, TagInUse, Continue, Base, Work, NoHole, provVars, TInv, TWork
<1>12. CASE StopPodMonitor(p) /\ mon[p] \in {"on", "off"}
  BY <1>12 DEF StopPodMonitor, TInv, TWork
<1>13. CASE FinishDelete(p)
  BY <1>13 DEF FinishDelete
<1> QED BY <1>2, <1>3, <1>4, <1>5, <1>6, <1>7, <1>8, <1>9, <1>10, <1>11, <1>12, <1>13 DEF Quiet

\* A step for p that lets go of no running instance.
LEMMA HeldKept ==
  ASSUME Held, NEW p \in Pods, StepOf(p),
         \A i \in Instances : IsRunning(i)' /\ Allotted(i) =>
           Holds(p, i)' \/ (IsRunning(i) /\ ~Holds(p, i)),
         \A i \in Instances : tag'[i] = tag[i] \/ Holds(p, i)'
  PROVE  Held'
<1> SUFFICES ASSUME NEW i \in Instances, IsRunning(i)', Allotted(i)', ~Holds(p, i)'
             PROVE  \E q \in Pods : Holds(q, i)'
  BY DEF Held
<1>1. Allotted(i)
  BY DEF StepOf, Frame, given, Allotted, PreRunning
<1>2. PICK q \in Pods : Holds(q, i)
  BY <1>1 DEF Held
<1>3. Keep(q)
  BY <1>1, <1>2 DEF StepOf, Frame
<1> QED BY <1>2, <1>3 DEF Holds, Keep, KeepWork, KeepCache

\* The tags that a quiet step sets are those of the instance it holds.
LEMMA TagsQuiet ==
  ASSUME NoHole, TInv, NEW p \in Pods, Base(p), Quiet(p), NEW i \in Instances
  PROVE  tag'[i] = tag[i] \/ Holds(p, i)'
<1> USE DEF ec2Vars
<1>1. CASE User(p)
  BY <1>1 DEF User, BindPod, TouchPod, MarkDeleted
<1>2. CASE Controller(p) \/ ReportStatus(p)
  BY <1>2 DEF Controller, Inform, UpdatePodStatus, DeleteFromKubernetes, SyncWithoutProvider,
     ReportStatus
<1>3. CASE UpdatePod(p) \/ CreatePod(p) \/ DeletePod(p) \/ StartMonitor(p)
  BY <1>3 DEF UpdatePod, CreatePod, DeletePod, StartMonitor
<1>4. CASE \/ ReuseCompute(p) \/ TakeWarmInstance(p) \/ NoCompute(p)
          \/ NoWarmInstance(p) \/ GetPrivateIP(p)
  BY <1>4 DEF ReuseCompute, TakeWarmInstance, NoCompute, NoWarmInstance, GetPrivateIP
<1>5. CASE TagPendingPod(p) \/ TagInUse(p)
  BY <1>5 DEF TagPendingPod, TagInUse, UpdateEC2Tags, Continue, Holds, TInv, TWork, TEc2
<1>6. CASE (StopPodMonitor(p) /\ mon[p] \in {"on", "off"}) \/ FinishDelete(p)
  BY <1>6 DEF StopPodMonitor, FinishDelete
<1> QED BY <1>1, <1>2, <1>3, <1>4, <1>5, <1>6 DEF Quiet

\* Every step.
LEMMA HeldStep ==
  ASSUME MaxRev = 0, MaxCrashes = 0, BarePods = {}, NoHole, up # "down",
         {"dial", "ip", "cleanup"} \cap Faults = {},
         Steady, Steady', AllFresh, AllRightArg, Held, [Next]_vars
  PROVE  Held' /\ up' # "down"
<1>1. /\ TInv /\ AllBase /\ bare = {}
      /\ "dial" \notin Faults
      /\ "ip" \notin Faults /\ "cleanup" \notin Faults
  BY DEF Steady, TInv, TProc
<1>2. ASSUME NEW p \in Pods, StepOf(p) PROVE up' # "down"
  BY <1>2 DEF StepOf, Frame
<1>3. ASSUME NEW p \in Pods, Quiet(p) PROVE Held' /\ up' # "down"
  <2>1. StepOf(p) /\ UNCHANGED inst
    BY <1>1, <1>3, QuietIs
  <2>2. \A i \in Instances : IsRunning(i) /\ Allotted(i) /\ Holds(p, i) => Holds(p, i)'
    BY <1>1, <1>3, HoldsQuiet DEF AllBase, AllFresh, Steady, AllLaunching, Launching
  <2>3. \A i \in Instances : IsRunning(i)' => IsRunning(i)
    BY <2>1 DEF IsRunning
  <2>4. \A i \in Instances : tag'[i] = tag[i] \/ Holds(p, i)'
    BY <1>1, <1>3, TagsQuiet DEF AllBase
  <2> QED BY <1>2, <2>1, <2>2, <2>3, <2>4, HeldKept
<1>4. ASSUME NEW p \in Pods, CreateEC2(p) PROVE Held' /\ up' # "down"
  <2>1. StepOf(p) /\ UNCHANGED tag
    BY <1>1, <1>4, CreatingIs DEF Creating, CreateEC2
  <2>2. PICK n \in Instances :
          /\ inst' = [inst EXCEPT ![n] = "running"]
          /\ SetPod(p, [cpod[p] EXCEPT !.annot = n]) /\ Continue(p, "ip")
    BY <1>1, <1>4 DEF CreateEC2, Annotate
  <2>3. Holds(p, n)'
    <3>1. cpod[p] \in Pod
      BY <1>1 DEF TInv, TObj
    <3>2. [cpod[p] EXCEPT !.annot = n].annot = n
      BY <3>1 DEF Pod
    <3>3. pc'[p] = "ip"
      BY <1>1, <2>2 DEF Continue, TInv, TWork
    <3> QED BY <1>1, <2>2, <3>2, <3>3 DEF SetPod, Holds, TInv, TObj
  <2>4. \A i \in Instances : Allotted(i) => ~Holds(p, i)
    BY <1>1, <1>4, AllottedLater DEF CreateEC2, Holds, AllBase, Steady, AllLaunching, Launching
  <2>5. \A i \in Instances :
          IsRunning(i)' /\ Allotted(i) => i = n \/ (IsRunning(i) /\ ~Holds(p, i))
    BY <1>1, <2>2, <2>4 DEF IsRunning, TInv, TEc2
  <2> QED BY <1>2, <2>1, <2>3, <2>5, HeldKept
<1>5. ASSUME NEW p \in Pods, LaunchApplication(p) \/ TerminateApp(p) PROVE Held' /\ up' # "down"
  <2>1. StepOf(p)
    BY <1>1, <1>5, CreatingIs, DeletingIs DEF Creating
  <2>2. UNCHANGED <<inst, tag, cpod>> /\ pc'[p] # "forget"
    BY <1>1, <1>5 DEF LaunchApplication, TerminateApp, Continue, provVars, TInv, TWork
  <2>3. \A i \in Instances : IsRunning(i)' => Holds(p, i)' \/ (IsRunning(i) /\ ~Holds(p, i))
    BY <2>2 DEF IsRunning, Holds
  <2> QED BY <1>2, <2>1, <2>2, <2>3, HeldKept
<1>6. ASSUME NEW n, TerminateEC2(n)
      PROVE  \A i \in Instances : IsRunning(i)' => IsRunning(i) /\ i # n
  BY <1>1, <1>6 DEF TerminateEC2, IsRunning, TInv, TEc2
<1>7. ASSUME NEW p \in Pods, CleanUpLaunch(p) PROVE Held' /\ up' # "down"
  <2>1. StepOf(p) /\ TerminateEC2(cpod[p].annot) /\ UNCHANGED tag
    BY <1>1, <1>7, CreatingIs DEF Creating, CleanUpLaunch
  <2>2. \A i \in Instances : IsRunning(i)' => IsRunning(i) /\ ~Holds(p, i)
    BY <1>6, <2>1 DEF Holds
  <2> QED BY <1>2, <2>1, <2>2, HeldKept
<1>8. ASSUME NEW p \in Pods, DeleteCompute(p) PROVE Held' /\ up' # "down"
  <2>1. StepOf(p) /\ UNCHANGED <<cpod, tag>> /\ pc[p] = "term"
    BY <1>1, <1>8, DeletingIs DEF DeleteCompute, provVars
  <2>2. CASE TerminateEC2(arg[p].annot)
    <3>1. arg[p].annot = cpod[p].annot
      BY <2>1 DEF AllRightArg, RightArg, DeletePCs
    <3>2. \A i \in Instances : IsRunning(i)' => IsRunning(i) /\ ~Holds(p, i)
      BY <1>6, <2>2, <3>1 DEF Holds
    <3> QED BY <1>2, <2>1, <3>2, HeldKept
  <2>3. CASE UNCHANGED inst /\ DeleteReturns(p)
    <3>1. pc'[p] = "idle"
      BY <1>1, <2>3 DEF DeleteReturns, TInv, TWork
    <3>2. \A i \in Instances : IsRunning(i)' => Holds(p, i)' \/ (IsRunning(i) /\ ~Holds(p, i))
      BY <2>1, <2>3, <3>1 DEF IsRunning, Holds
    <3> QED BY <1>2, <2>1, <3>2, HeldKept
  <2> QED BY <1>8, <2>2, <2>3 DEF DeleteCompute
<1>9. ~Crash /\ \A p \in Pods : ~Panicking(p)
  <2>1. ~Crash
    BY <1>1 DEF Crash, TInv, TProc
  <2>2. ASSUME NEW p \in Pods, Panicking(p) PROVE FALSE
    <3>1. Base(p) /\ Deletes(p)
      BY DEF Steady, AllBase, AllDeletes
    <3>2. ~AnnotateNil(p)
      BY <1>1, <3>1 DEF AnnotateNil, Base, Work
    <3>3. ~NilConnection(p)
      BY <1>1 DEF NilConnection
    <3>4. StopPodMonitor(p) => mon[p] \in {"on", "off"}
      BY <1>1, <3>1, DeletesStarted DEF StopPodMonitor, DeletePCs, NoHole
    <3> QED BY <2>2, <3>2, <3>3, <3>4 DEF Panicking
  <2> QED BY <2>1, <2>2
<1>10. CASE RunController
  <2>1. UNCHANGED <<inst, tag, cpod, warm>> /\ \A p \in Pods : pc'[p] # "forget"
    BY <1>10 DEF RunController, provVars, ec2Vars, given
  <2>2. up' # "down"
    BY <1>10 DEF RunController
  <2> QED BY <2>1, <2>2 DEF Held, Holds, IsRunning, Allotted, PreRunning
<1>11. CASE UNCHANGED vars
  BY <1>11 DEF vars, given, procVars, provVars, ec2Vars, Held, Holds, IsRunning, Allotted,
     PreRunning
<1>12. ~Rehydrate
  BY DEF Rehydrate
<1> QED BY <1>1, <1>3, <1>4, <1>5, <1>7, <1>8, <1>9, <1>10, <1>11, <1>12, NextIs

\* Without edits, crashes, nil connections and pods without annotations, and
\* unless the wait for an IP, a clean-up or a tag fails, no instance is left
\* behind: every instance that was launched or taken from the Warm Pool and runs
\* is in the cache for some pod.
THEOREM NothingOrphaned ==
  ASSUME ~(TRUE \in WarmPools /\ "tag" \in Faults),
         {"dial", "ip", "cleanup"} \cap Faults = {}, BarePods = {},
         MaxRev = 0, MaxCrashes = 0
  PROVE  Spec => []NoOrphan
<1> DEFINE I == Steady /\ AllFresh /\ AllRightArg /\ Held /\ up # "down"
<1>1. TInv => NoHole
  <2> SUFFICES ASSUME TInv PROVE NoHole
    OBVIOUS
  <2>1. warm \in WarmPools /\ warm \in BOOLEAN
    BY ConfigAssumption DEF TInv, TProc
  <2> QED BY <2>1 DEF NoHole
<1>2. Init => I
  <2> SUFFICES ASSUME Init PROVE I
    OBVIOUS
  <2>1. Steady /\ AllFresh /\ up # "down"
    BY SteadyInit, FreshInit DEF Init
  <2>3. AllRightArg
    BY DEF Init, AllRightArg, RightArg, DeletePCs
  <2>4. Held
    BY DEF Init, Held, IsRunning, Allotted, PreRunning
  <2> QED BY <2>1, <2>3, <2>4
<1>3. I /\ [Next]_vars => I'
  <2> SUFFICES ASSUME I, [Next]_vars PROVE I'
    OBVIOUS
  <2>1. TInv /\ AllBase /\ AllLaunching /\ AllFresh /\ NoHole
    BY <1>1 DEF Steady
  <2>2. Steady'
    BY SteadyStep
  <2>3. AllFresh'
    BY <2>1, FreshStep
  <2>4. AllRightArg'
    BY <2>1, <2>2, RightArgStep DEF Steady
  <2>5. Held' /\ up' # "down"
    BY <2>1, <2>2, HeldStep
  <2> QED BY <2>2, <2>3, <2>4, <2>5
<1>4. I => NoOrphan
  <2> SUFFICES ASSUME I, NEW i \in Instances, IsRunning(i), Allotted(i)
               PROVE  \E p \in Pods : Knows(p, i)
    BY DEF NoOrphan
  <2>1. PICK p \in Pods : Holds(p, i)
    BY DEF Held
  <2>2. Knows(p, i)
    BY <2>1 DEF Knows, Holds
  <2> QED BY <2>2
<1> QED BY <1>2, <1>3, <1>4, PTL DEF Spec
================================================================================
