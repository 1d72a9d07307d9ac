------------------------------ MODULE WarmPool ------------------------------
(***************************************************************************)
(* The Warm Pool manager (internal/ec2provider/warmpool.go): instances are  *)
(* launched ahead of need, tagged in EC2, and handed to CreatePod.          *)
(*                                                                         *)
(* Goroutines: main (the start-up), depth (checks the size of the pool on a *)
(* ticker), refresh (rebuilds the maps from EC2 tags on another ticker) and *)
(* the workers of the controller, each of which calls CreatePod and         *)
(* DeletePod for one pod.  All share VKState, a struct of maps and a mutex. *)
(* A program counter advances at the calls that leave the process and at    *)
(* the operations on the mutex.  The maps of unhealthy and of allocated     *)
(* instances are never read and are left out.                               *)
(***************************************************************************)
EXTENDS Integers, Sequences, FiniteSets

CONSTANTS
  Instances,
  None,       \* the empty instance id
  Configs,    \* the WarmPoolConfig lists explored, each a sequence of PoolConfig
  Workers,    \* pods, each with the controller's worker for it
  Faults,     \* which calls and instances may fail
  MaxFaults,  \* bound: failures
  MaxPods,    \* bound: pods created
  MaxCrashes, \* bound: crashes of the provider process
  MaxOverlaps \* bound: operations on the pool that begin during another

PoolConfig == [desired : Nat, subnets : BOOLEAN]
FaultKinds == {"describe", "ready", "run", "userdata", "terminate", "pod", "inuse", "launch"}

ASSUME NoneAssumption   == None \notin Instances /\ IsFiniteSet(Instances)
ASSUME ConfigAssumption == /\ Configs # {} /\ \A c \in Configs : c \in Seq(PoolConfig) /\ c # <<>>
                           /\ Faults \subseteq FaultKinds
ASSUME BoundsAssumption == MaxFaults \in Nat /\ MaxPods \in Nat /\ MaxCrashes \in Nat
                           /\ MaxOverlaps \in Nat
ASSUME WorkerAssumption == {"main", "depth", "refresh"} \cap Workers = {}

VARIABLES
  wpm,      \* WarmPoolManager.config
  up,       \* the process runs
  crashes, failures, pods, overlaps, \* how many so far
  locked,   \* VKState.Mutex
  ready,    \* VKState.ReadyEC2
  prov,     \* VKState.ProvisioningEC2
  pc,       \* of every goroutine
  calm,     \* history: no operations have overlapped since a refresh that ran alone
  faulty,   \* history: a call has failed since the last refresh began
  seen,     \* instances that a refresh still has to tag Ready
  cfg,      \* position in wpm of main and of depth
  todo,     \* instances that main or depth still has to create
  batch,    \* instances popped to be terminated
  got,      \* the instance that CreatePod took from the pool
  has,      \* the instance that the pod of a worker runs on
  inst,     \* EC2 instance state
  tag       \* EC2 tag WarmpoolStatus

poolVars == <<locked, ready, prov>>
goVars   == <<pc, calm, seen, cfg, todo, batch, got>>
ec2Vars  == <<inst, tag>>
failVars == <<failures, faulty>>
cntVars  == <<crashes, failVars, pods, overlaps>>
vars     == <<wpm, up, cntVars, poolVars, goVars, has, ec2Vars>>

-----------------------------------------------------------------------------
(* Types and derived state *)

Ids        == Instances \cup {None}
Goroutines == {"main", "depth", "refresh"} \cup Workers

\* The values of the tag, and the ones that belong to a pod.
TagValues == {"none", "PendingWarmpool", "Ready", "PendingPod", "InUse"}
PodTags   == {"PendingPod", "InUse"}

Alive(i) == inst[i] \in {"pending", "running"}

\* Instances of the pool that no pod has been given.
Warm == {i \in Instances : Alive(i) /\ tag[i] \in {"PendingWarmpool", "Ready"}}

\* len(VKState.ReadyEC2) + len(VKState.ProvisioningEC2)
Depth == Cardinality(ready) + Cardinality(prov)

Quiet == \A g \in Goroutines : pc[g] = "idle"

\* No other goroutine is at work on the pool.
Alone(g) == \A h \in Goroutines \ {g} : pc[h] = "idle"

Goto(g, l) ==
  /\ pc'   = [pc EXCEPT ![g] = l]
  /\ calm' = (calm /\ Alone(g))

\* A goroutine begins an operation on the pool: the tickers and the controller
\* start when the pool has been filled, and nothing keeps their operations
\* apart.
Begin(g, l) ==
  /\ up /\ pc[g] = "idle" /\ pc["main"] = "idle"
  /\ \/ Alone(g) /\ UNCHANGED overlaps
     \/ ~Alone(g) /\ overlaps < MaxOverlaps /\ overlaps' = overlaps + 1
  /\ Goto(g, l)

Fault(kind) ==
  /\ kind \in Faults /\ failures < MaxFaults
  /\ failures' = failures + 1
  /\ faulty'   = TRUE

Init ==
  /\ wpm \in Configs
  /\ up = FALSE
  /\ crashes = 0 /\ failures = 0 /\ pods = 0 /\ overlaps = 0
  /\ locked = FALSE /\ ready = {} /\ prov = {}
  /\ pc    = [g \in Goroutines |-> "idle"]
  /\ calm = TRUE /\ faulty = FALSE
  /\ seen  = [g \in Goroutines |-> {}]
  /\ cfg   = [g \in Goroutines |-> 1]
  /\ todo  = [g \in Goroutines |-> 0]
  /\ batch = {}
  /\ got   = [w \in Workers |-> None]
  /\ has   = [w \in Workers |-> None]
  /\ inst  = [i \in Instances |-> "absent"]
  /\ tag   = [i \in Instances |-> "none"]

-----------------------------------------------------------------------------
(* EC2 *)

\* populateEC2Tags: the status that a reason stands for.
PopulateEC2Tags(reason) ==
  CASE reason = "initial_setup" -> "PendingWarmpool"
    [] reason = "set_ready"     -> "Ready"
    [] reason = "set_pod"       -> "PendingPod"
    [] reason = "set_in_use"    -> "InUse"

\* updateEC2Tags, when CreateTags succeeds: whatever was there is overwritten.
UpdateEC2Tags(i, reason) == tag' = [tag EXCEPT ![i] = PopulateEC2Tags(reason)]

\* A pending instance is up.
Boot(i) ==
  /\ inst[i] = "pending"
  /\ inst' = [inst EXCEPT ![i] = "running"]
  /\ UNCHANGED <<wpm, up, cntVars, poolVars, goVars, has, tag>>

\* What is left of the process when it dies: nothing.
Die ==
  /\ up' = FALSE
  /\ locked' = FALSE /\ ready' = {} /\ prov' = {}
  /\ pc'    = [g \in Goroutines |-> "idle"]
  /\ seen'  = [g \in Goroutines |-> {}]
  /\ cfg'   = [g \in Goroutines |-> 1]
  /\ todo'  = [g \in Goroutines |-> 0]
  /\ batch' = {}
  /\ got'   = [w \in Workers |-> None]
  /\ UNCHANGED <<wpm, pods, overlaps, has, calm>>

Crash ==
  /\ up /\ crashes < MaxCrashes
  /\ crashes' = crashes + 1
  /\ Die
  /\ UNCHANGED <<failVars, ec2Vars>>

-----------------------------------------------------------------------------
(* The mutex *)

Lock == ~locked /\ locked' = TRUE

\* A deferred Unlock of goroutine g, which goes on at l.  Unlocking a mutex
\* that is not locked ends the process.
UnlockAndGoto(g, l) ==
  IF locked
  THEN /\ locked' = FALSE
       /\ Goto(g, l)
       /\ UNCHANGED <<wpm, up, crashes, pods, overlaps, ready, prov, seen, cfg, todo, batch, got, has>>
  ELSE Die /\ UNCHANGED crashes

-----------------------------------------------------------------------------
(* checkEC2TagsForState, called by main, by refresh and by every worker *)

\* Where the caller goes on.
AfterRefresh(g) ==
  CASE g = "main"    -> "fill"
    [] g = "refresh" -> "idle"
    [] OTHER         -> "take"

\* VKState is replaced: empty maps, and a mutex that nobody holds.
ResetState(g) ==
  /\ pc[g] = "reset"
  /\ locked' = FALSE /\ ready' = {} /\ prov' = {}
  /\ pc' = [pc EXCEPT ![g] = "lock"]
  /\ calm' = Alone(g) /\ faulty' = FALSE
  /\ UNCHANGED <<wpm, up, crashes, failures, pods, overlaps, seen, cfg, todo, batch, got, has, ec2Vars>>

LockState(g) ==
  /\ pc[g] = "lock"
  /\ Lock
  /\ Goto(g, "describe")
  /\ UNCHANGED <<wpm, up, cntVars, ready, prov, seen, cfg, todo, batch, got, has, ec2Vars>>

\* Mutant: instances that wait for their pod count as ready.
DescribeAlsoPending(g) ==
  /\ pc[g] = "describe"
  /\ ready' = ready \cup {i \in Instances : Alive(i) /\ tag[i] \in {"Ready", "PendingPod"}}
  /\ prov'  = prov \cup {i \in Instances : inst[i] = "pending" /\ tag[i] = "PendingWarmpool"}
  /\ seen'  = [seen EXCEPT ![g] = {i \in Instances : inst[i] = "running" /\ tag[i] = "PendingWarmpool"}]
  /\ Goto(g, "tagready")
  /\ UNCHANGED <<wpm, up, cntVars, locked, cfg, todo, batch, got, has, ec2Vars>>

\* DescribeInstances: what is alive goes to the map its tag names.  Instances
\* that have come up are still to be tagged Ready.
DescribeInstances(g) ==
  /\ pc[g] = "describe"
  /\ ready' = ready \cup {i \in Instances : Alive(i) /\ tag[i] = "Ready"}
  /\ prov'  = prov \cup {i \in Instances : inst[i] = "pending" /\ tag[i] = "PendingWarmpool"}
  /\ seen'  = [seen EXCEPT ![g] = {i \in Instances : inst[i] = "running" /\ tag[i] = "PendingWarmpool"}]
  /\ Goto(g, "tagready")
  /\ UNCHANGED <<wpm, up, cntVars, locked, cfg, todo, batch, got, has, ec2Vars>>

\* Mutant: the error returns without unlocking.
DescribeErrorLocked(g) ==
  /\ pc[g] = "describe"
  /\ Fault("describe")
  /\ Goto(g, AfterRefresh(g))
  /\ UNCHANGED <<wpm, up, crashes, pods, overlaps, poolVars, seen, cfg, todo, batch, got, has, ec2Vars>>

\* ... and its error: the maps stay empty.
DescribeError(g) ==
  /\ pc[g] = "describe"
  /\ Fault("describe")
  /\ UnlockAndGoto(g, AfterRefresh(g))
  /\ UNCHANGED ec2Vars

\* Tag set_ready.  An instance that cannot be tagged is skipped.
TagReady(g) ==
  /\ pc[g] = "tagready"
  /\ \E i \in seen[g] :
       /\ seen' = [seen EXCEPT ![g] = @ \ {i}]
       /\ \/ /\ UpdateEC2Tags(i, "set_ready")
             /\ ready' = ready \cup {i}
             /\ UNCHANGED failVars
          \/ Fault("ready") /\ UNCHANGED <<tag, ready>>
  /\ UNCHANGED <<wpm, up, crashes, pods, overlaps, locked, prov, pc, calm, cfg, todo, batch, got, has, inst>>

EndRefresh(g) ==
  /\ pc[g] = "tagready" /\ seen[g] = {}
  /\ UnlockAndGoto(g, AfterRefresh(g))
  /\ UNCHANGED <<failVars, ec2Vars>>

\* RefreshWarmPoolFromEC2 on its ticker.
RefreshTick ==
  /\ Begin("refresh", "reset")
  /\ UNCHANGED <<wpm, up, crashes, failVars, pods, poolVars, seen, cfg, todo, batch, got, has, ec2Vars>>

-----------------------------------------------------------------------------
(* createWarmEC2 *)

\* EC2RunInstancesUtil: one instance with a new id, tagged for the pool.
RunInstance(i) ==
  /\ inst[i] = "absent" /\ i = CHOOSE j \in Instances : inst[j] = "absent"
  /\ inst' = [inst EXCEPT ![i] = "pending"]
  /\ UpdateEC2Tags(i, "initial_setup")

\* It fails when EC2 does, or when there is no capacity left.
RunError ==
  \/ Fault("run")
  \/ (\A i \in Instances : inst[i] # "absent") /\ UNCHANGED failVars

\* GenerateVKVMUserData fails.  With a subnet the instance is run all the same,
\* and an application cannot be launched on it; the fault "launch" is that.
UserDataError == Fault("userdata")

\* The errors of createWarmEC2.
CreateWarmError(g) == IF wpm[cfg[g]].subnets THEN RunError ELSE UserDataError

\* One createWarmEC2 that succeeds.  A pool without subnets gets an entry
\* with an empty id and no instance.
CreateWarmEC2(g) ==
  \/ /\ wpm[cfg[g]].subnets
     /\ \E i \in Instances : RunInstance(i) /\ prov' = prov \cup {i}
  \/ /\ ~wpm[cfg[g]].subnets
     /\ prov' = prov \cup {None}
     /\ UNCHANGED ec2Vars

-----------------------------------------------------------------------------
(* Start-up: fillAndMaintain and InitialWarmPoolCreation *)

Start ==
  /\ ~up
  /\ up' = TRUE
  /\ Goto("main", "reset")
  /\ UNCHANGED <<wpm, cntVars, poolVars, seen, cfg, todo, batch, got, has, ec2Vars>>

\* Mutant: the instances found in EC2 are not counted.
InitialCountBlind ==
  /\ pc["main"] = "fill"
  /\ IF cfg["main"] > Len(wpm)
     THEN Goto("main", "idle") /\ UNCHANGED todo
     ELSE /\ todo' = [todo EXCEPT !["main"] = wpm[cfg["main"]].desired]
          /\ Goto("main", "create")
  /\ UNCHANGED <<wpm, up, cntVars, poolVars, seen, cfg, batch, got, has, ec2Vars>>

\* The next configuration: how many instances are missing.  After the last
\* one the tickers run.
InitialCount ==
  /\ pc["main"] = "fill"
  /\ IF cfg["main"] > Len(wpm)
     THEN Goto("main", "idle") /\ UNCHANGED todo
     ELSE /\ todo' = [todo EXCEPT !["main"] = wpm[cfg["main"]].desired - Depth]
          /\ Goto("main", "create")
  /\ UNCHANGED <<wpm, up, cntVars, poolVars, seen, cfg, batch, got, has, ec2Vars>>

\* The missing instances are created without the mutex; an error panics.
InitialCreate ==
  /\ pc["main"] = "create"
  /\ \/ /\ todo["main"] > 0
        /\ CreateWarmEC2("main")
        /\ todo' = [todo EXCEPT !["main"] = @ - 1]
        /\ UNCHANGED <<wpm, up, cntVars, locked, ready, pc, calm, seen, cfg, batch, got, has>>
     \/ /\ todo["main"] > 0
        /\ CreateWarmError("main")
        /\ Die
        /\ UNCHANGED <<crashes, ec2Vars>>
     \/ /\ todo["main"] <= 0
        /\ cfg' = [cfg EXCEPT !["main"] = @ + 1]
        /\ Goto("main", "fill")
        /\ UNCHANGED <<wpm, up, cntVars, poolVars, seen, todo, batch, got, has, ec2Vars>>

-----------------------------------------------------------------------------
(* CheckWarmPoolDepth for every configuration, on its ticker *)

DepthTick ==
  /\ Begin("depth", "check")
  /\ cfg' = [cfg EXCEPT !["depth"] = 1]
  /\ UNCHANGED <<wpm, up, crashes, failVars, pods, poolVars, seen, todo, batch, got, has, ec2Vars>>

\* The instances that are popped when n are too many: ready ones first.
Excess(n) ==
  {s \in SUBSET (ready \cup prov) :
     /\ Cardinality(s \cap ready) + Cardinality(s \cap prov) = n
     /\ s \subseteq ready \/ ready \subseteq s}

\* Mutant: the instances to terminate stay in the maps.
CheckDepthKeeping ==
  LET desired == wpm[cfg["depth"]].desired IN
  /\ pc["depth"] = "check"
  /\ Lock
  /\ todo' = [todo EXCEPT !["depth"] = desired - Depth]
  /\ \E s \in Excess(IF Depth > desired THEN Depth - desired ELSE 0) : batch' = s
  /\ Goto("depth", IF Depth > desired THEN "terminate" ELSE "create")
  /\ UNCHANGED <<wpm, up, cntVars, ready, prov, seen, cfg, got, has, ec2Vars>>

\* Mutant: a pool is filled up only when it is empty.
CheckDepthEmptyOnly ==
  LET desired == wpm[cfg["depth"]].desired IN
  /\ pc["depth"] = "check"
  /\ Lock
  /\ todo' = [todo EXCEPT !["depth"] = IF Depth = 0 THEN desired ELSE 0]
  /\ \E s \in Excess(IF Depth > desired THEN Depth - desired ELSE 0) :
       /\ batch' = s
       /\ ready' = ready \ s
       /\ prov'  = prov \ s
  /\ Goto("depth", IF Depth > desired THEN "terminate" ELSE "create")
  /\ UNCHANGED <<wpm, up, cntVars, seen, cfg, got, has, ec2Vars>>

\* Lock, count, and pop what is too much.
CheckWarmPoolDepth ==
  LET desired == wpm[cfg["depth"]].desired IN
  /\ pc["depth"] = "check"
  /\ Lock
  /\ todo' = [todo EXCEPT !["depth"] = desired - Depth]
  /\ \E s \in Excess(IF Depth > desired THEN Depth - desired ELSE 0) :
       /\ batch' = s
       /\ ready' = ready \ s
       /\ prov'  = prov \ s
  /\ Goto("depth", IF Depth > desired THEN "terminate" ELSE "create")
  /\ UNCHANGED <<wpm, up, cntVars, seen, cfg, got, has, ec2Vars>>

\* One missing instance; an error is ignored.
CreateMissing ==
  /\ pc["depth"] = "create" /\ todo["depth"] > 0
  /\ todo' = [todo EXCEPT !["depth"] = @ - 1]
  /\ \/ CreateWarmEC2("depth") /\ UNCHANGED failVars
     \/ CreateWarmError("depth") /\ UNCHANGED <<prov, ec2Vars>>
  /\ UNCHANGED <<wpm, up, crashes, pods, overlaps, locked, ready, pc, calm, seen, cfg, batch, got, has>>

\* TerminateInstances for all that were popped; an error, which an empty id
\* among them always is, is only logged.
TerminateExcess ==
  /\ pc["depth"] = "terminate"
  /\ \/ /\ None \notin batch
        /\ inst' = [i \in Instances |-> IF i \in batch THEN "terminated" ELSE inst[i]]
        /\ UNCHANGED failVars
     \/ /\ None \in batch
        /\ faulty' = TRUE
        /\ UNCHANGED <<inst, failures>>
     \/ Fault("terminate") /\ UNCHANGED inst
  /\ batch' = {}
  /\ todo'  = [todo EXCEPT !["depth"] = 0]
  /\ Goto("depth", "create")
  /\ UNCHANGED <<wpm, up, crashes, pods, overlaps, poolVars, seen, cfg, got, has, tag>>

\* Unlock; the next configuration is checked.
DepthNext ==
  /\ pc["depth"] = "create" /\ todo["depth"] = 0
  /\ UnlockAndGoto("depth", "next")
  /\ UNCHANGED <<failVars, ec2Vars>>

DepthLoop ==
  /\ pc["depth"] = "next"
  /\ cfg' = [cfg EXCEPT !["depth"] = @ + 1]
  /\ Goto("depth", IF cfg["depth"] < Len(wpm) THEN "check" ELSE "idle")
  /\ UNCHANGED <<wpm, up, cntVars, poolVars, seen, todo, batch, got, has, ec2Vars>>

-----------------------------------------------------------------------------
(* CreatePod and DeletePod, as far as the pool sees them *)

\* GetWarmPoolInstanceIfExist begins with a refresh.
CreatePod(w) ==
  /\ Begin(w, "reset")
  /\ has[w] = None /\ pods < MaxPods
  /\ pods' = pods + 1
  /\ UNCHANGED <<wpm, up, crashes, failVars, poolVars, seen, cfg, todo, batch, got, has, ec2Vars>>

\* Mutant: the instance stays in the map.
TakeInstanceKept(w) ==
  /\ pc[w] = "take" /\ ~locked
  /\ \/ \E i \in ready : got' = [got EXCEPT ![w] = i] /\ Goto(w, "tagpod")
     \/ ready = {} /\ UNCHANGED got /\ Goto(w, "idle")
  /\ UNCHANGED <<wpm, up, cntVars, poolVars, seen, cfg, todo, batch, has, ec2Vars>>

\* Lock, pop a ready instance if there is one, unlock.
TakeInstance(w) ==
  /\ pc[w] = "take" /\ ~locked
  /\ \/ \E i \in ready :
          /\ ready' = ready \ {i}
          /\ got'   = [got EXCEPT ![w] = i]
          /\ Goto(w, "tagpod")
     \/ ready = {} /\ UNCHANGED <<ready, got>> /\ Goto(w, "idle")
  /\ UNCHANGED <<wpm, up, cntVars, locked, prov, seen, cfg, todo, batch, has, ec2Vars>>

\* Mutant: the worker keeps the instance that it gives up.
AbandonKeeping(w) == Goto(w, "idle") /\ UNCHANGED got

\* CreatePod is done or gives up.
Abandon(w) == got' = [got EXCEPT ![w] = None] /\ Goto(w, "idle")

\* Tag set_pod.
TagPod(w) ==
  /\ pc[w] = "tagpod"
  /\ \/ /\ UpdateEC2Tags(got[w], "set_pod")
        /\ Goto(w, "launch")
        /\ UNCHANGED <<failVars, got>>
     \/ Fault("pod") /\ Abandon(w) /\ UNCHANGED tag
  /\ UNCHANGED <<wpm, up, crashes, pods, overlaps, poolVars, seen, cfg, todo, batch, has, inst>>

\* The application is launched and the instance tagged in use, or the launch
\* fails and the instance is terminated.
LaunchPod(w) ==
  /\ pc[w] = "launch"
  /\ \/ /\ inst[got[w]] = "running"
        /\ has' = [has EXCEPT ![w] = got[w]]
        /\ \/ UpdateEC2Tags(got[w], "set_in_use") /\ UNCHANGED failVars
           \/ Fault("inuse") /\ UNCHANGED tag
        /\ UNCHANGED inst
     \/ /\ \/ Fault("launch")
           \/ inst[got[w]] # "running" /\ UNCHANGED failVars
        /\ inst' = [inst EXCEPT ![got[w]] = "terminated"]
        /\ UNCHANGED <<has, tag>>
  /\ Abandon(w)
  /\ UNCHANGED <<wpm, up, crashes, pods, overlaps, poolVars, seen, cfg, todo, batch>>

\* DeletePod terminates the pod's instance.  (History: one that an overlap has
\* left with a tag of the pool may be in the maps.)
DeletePod(w) ==
  /\ up /\ pc[w] = "idle" /\ has[w] # None
  /\ inst' = [inst EXCEPT ![has[w]] = "terminated"]
  /\ has'  = [has EXCEPT ![w] = None]
  /\ calm' = (calm /\ tag[has[w]] \in PodTags)
  /\ UNCHANGED <<wpm, up, cntVars, poolVars, pc, seen, cfg, todo, batch, got, tag>>

-----------------------------------------------------------------------------
(* Specification *)

Refresh(g) ==
  ResetState(g) \/ LockState(g) \/ DescribeInstances(g) \/ DescribeError(g)
  \/ TagReady(g) \/ EndRefresh(g)

Main == Start \/ Refresh("main") \/ InitialCount \/ InitialCreate

DepthStep ==
  CheckWarmPoolDepth \/ CreateMissing \/ TerminateExcess \/ DepthNext \/ DepthLoop

Worker(w) == Refresh(w) \/ TakeInstance(w) \/ TagPod(w) \/ LaunchPod(w)

Next ==
  \/ Main \/ DepthTick \/ DepthStep \/ RefreshTick \/ Refresh("refresh")
  \/ \E w \in Workers : CreatePod(w) \/ Worker(w) \/ DeletePod(w)
  \/ \E i \in Instances : Boot(i)
  \/ Crash

Spec == Init /\ [][Next]_vars

\* Started operations go on, the tickers tick again and again, a dead process
\* is restarted.  Nothing is assumed of pods, crashes and failures.
Fairness ==
  /\ WF_vars(Main) /\ WF_vars(DepthStep) /\ WF_vars(Refresh("refresh"))
  /\ \A w \in Workers : WF_vars(Worker(w))
  /\ SF_vars(DepthTick) /\ SF_vars(RefreshTick)

LiveSpec == Spec /\ Fairness

-----------------------------------------------------------------------------
(* Properties *)

TypeOK ==
  /\ wpm \in Configs
  /\ up \in BOOLEAN /\ locked \in BOOLEAN /\ calm \in BOOLEAN /\ faulty \in BOOLEAN
  /\ crashes \in 0 .. MaxCrashes /\ failures \in 0 .. MaxFaults
  /\ pods \in 0 .. MaxPods /\ overlaps \in 0 .. MaxOverlaps
  /\ ready \subseteq Instances /\ prov \subseteq Ids /\ batch \subseteq Ids
  /\ seen \in [Goroutines -> SUBSET Instances]
  /\ cfg  \in [Goroutines -> 1 .. Len(wpm) + 1]
  /\ todo \in [Goroutines -> Int]
  /\ got \in [Workers -> Ids] /\ has \in [Workers -> Ids]
  /\ \A w \in Workers : got[w] # None <=> pc[w] \in {"tagpod", "launch"}
  /\ inst \in [Instances -> {"absent", "pending", "running", "terminated"}]
  /\ tag  \in [Instances -> TagValues]

\* When no operation is under way nobody holds the mutex, however many refreshes
\* have replaced it while others held it: nobody waits for it for ever.
MutexFree == Quiet => ~locked

\* The instance of w is tagged for a pod, and no other pod has been given it.
OnlyFor(w) ==
  /\ tag[has[w]] \in PodTags
  /\ \A v \in Workers \ {w} : has[w] \notin {has[v], got[v]}

\* As long as operations do not overlap, a pod keeps its instance until it is
\* deleted: the depth check and other pods leave it alone.  Earlier overlaps
\* may have spoilt its tag or given it to two pods.
PodKeepsInstance ==
  [][\A w \in Workers :
       calm /\ has[w] # None /\ OnlyFor(w) => has'[w] = None \/ inst'[has[w]] = inst[has[w]]]_vars

\* An instance that has been tagged for a pod is not in the pool's maps.
AssignedLeavesPool == \A i \in Instances : tag[i] \in PodTags => i \notin ready \cup prov

\* A refresh that runs alone takes assigned instances out of the maps, and they
\* stay out until operations overlap again.
AssignedStaysOut == calm => AssignedLeavesPool

\* Whatever failed and whatever overlapped before: after a refresh that ran
\* alone, and until operations overlap or a call fails, the maps hold exactly
\* the instances of the pool that no pod has been given, whenever no operation
\* is under way.  (A call that terminates a batch with an empty id fails.)
MapsExact ==
  up /\ Quiet /\ calm /\ ~faulty => ready \cup (prov \ {None}) = Warm /\ ready \cap prov = {}

\* The largest pool that is configured.
MaxDesired == CHOOSE n \in {wpm[k].desired : k \in DOMAIN wpm} :
                \A k \in DOMAIN wpm : wpm[k].desired <= n

\* Restarts and depth checks do not launch instances beyond the configured
\* size, unless operations overlap or a call has failed since the last refresh.
PoolBounded ==
  [][calm /\ ~faulty /\ Cardinality(Warm') > Cardinality(Warm)
       => Cardinality(Warm') <= MaxDesired]_vars

\* Once operations no longer overlap, the pool reaches the configured depth
\* again and again, whatever crashed, failed, was allocated or overlapped
\* before, unless EC2 has no capacity left or a pool has no subnets.
PoolRefilled ==
  <>[]calm =>
    []<>(\/ Cardinality(Warm) >= MaxDesired
         \/ \A i \in Instances : inst[i] # "absent"
         \/ \E k \in DOMAIN wpm : ~wpm[k].subnets)
=============================================================================
