# Verification of aws-virtual-kubelet

aws-virtual-kubelet is a Virtual Kubelet provider: it runs Kubernetes pods on EC2
instances, one pod per instance, by asking an agent on the instance (VKVMAgent) over gRPC
to launch the pod's application. This directory holds TLA+ models of the code under `src/`,
the TLC runs that check them and TLAPS proofs. `PROJECT.json` maps every definition to the
lines it models.

## 1. Inventory

| Component | State | Operations | Talks to |
|---|---|---|---|
| **Provider** `internal/ec2provider/ec2provider.go`, `metapod.go` | the pod cache, one default `CheckHandler`, the notifier | `CreatePod`, `UpdatePod`, `DeletePod`, `GetPod(s)`, `NotifyPods`, `PopulateCache` | called by the Virtual Kubelet controller; calls compute manager, agent, pod monitor |
| **Pod cache** `podcache.go` | map key -> `MetaPod` (pod object, monitor), `RWMutex` | `Set`, `Get`, `UpdatePod`, `Delete`, `Populate` | provider |
| **Compute manager** `compute.go`, `awsutils/ec2_utils.go` | none; the instance id lives in an annotation of the pod object | `GetCompute`, `createCompute`, `deleteCompute`; `CreateEC2`, `TerminateEC2`, `GetPrivateIP` | EC2 API, Warm Pool |
| **Warm Pool manager** `warmpool.go` | `VKState`: maps of instances and a mutex; truth is in EC2 tags | initial filling, depth check, `RefreshWarmPoolFromEC2`, `GetWarmPoolInstanceIfExist`, `updateEC2Tags` | EC2 API; called from `CreatePod`, from start-up and from two tickers |
| **Health** `internal/health` | `PodMonitor` (context, wait group), `Monitor` (State, Failures), `CheckHandler` (channel, IsReceiving) | `Start`, `Stop`, watch loop, check loop, `receive`, `handleCheckResult` | agent streams; writes `pod.Status`, calls the notifier |
| **Start-up** `cmd/virtual-kubelet/main.go`, `k8sutils` | none | make the provider, list the node's pods, `PopulateCache`, hand on the node name, run the controller | Kubernetes API, all of the above |
| **Virtual Kubelet controller** (vendored) | informer cache, three retry queues, `knownPods` | informer handlers, pod sync, status sync, deletion, dangling pods | Kubernetes API; the only caller of the provider |
| **ENI node** `eninode.go` | a tagged network interface names the node | `GetOrCreateEniNode`, `Configure` | EC2 API |
| **VKVMAgent client** `vkvmaclient.go` | one gRPC connection | `Connect`, `IsConnected`, client getters | agent |
| **Configuration** `internal/config` | one JSON document, loaded once | load, default, validate | everything |
| **Example agent** `examples/vkvmagent` | health service: status per service, shutdown flag, a channel per watcher, a mutex | `Check`, `Watch`, `SetServingStatus`, `Shutdown`, `Resume`; `WatchApplicationHealth` | monitors of the provider |
| **AWS wrappers, metrics, mocks, generated code, bootstrap example** | no state the program reads back | | |

### How they interact

The controller keeps one worker busy per pod key. `CreatePod` caches the pod with an
unstarted monitor, obtains an instance (the annotated one if it runs, a warm one, or a new
one), writes the instance id into the annotations of **its** pod object, launches the
application, starts the monitor and passes the pod object to the notifier. Only then does the
instance id reach Kubernetes, through the controller's status queue. Meanwhile users edit and
delete the pod, the informer queues the key again, the monitor writes `pod.Status` from its
own goroutines, and the process may die. `DeletePod` stops the monitor (and waits for its
goroutines), asks the agent to terminate the application, terminates the instance that the
object it was **given** names, and drops the pod from the cache. After a restart the cache is
rebuilt from what Kubernetes lists.

### What is hard

* the wait group of `PodMonitor`: seven return paths in two loops and a receiver that all
  answer to one cancellation, with unbuffered sends between them;
* one default handler for all created pods: several receivers on one channel;
* three copies of a pod (Kubernetes, informer, cache), of which any two may disagree about
  the instance id, and a fourth (the monitor's object) that writes statuses;
* failures after an instance was obtained; retries of half-done deletions; retries that end;
* crash at any point: the only durable record is the annotation in Kubernetes;
* the Warm Pool's state, which is rebuilt from EC2 tags while others use it, under a mutex that
  the rebuilding replaces;
* start-up: errors that are logged and passed over, and a node name that has to survive crashes;
* streams between agent and monitors: broken connections noticed late and on one side only,
  a channel filled under a mutex, clients that do not read.

`PROJECT.json` lists these as hazards, each at its line, with the properties that cover it.

### What makes each component correct

* Health: `Stop` returns when, and only when, every goroutine is gone; nothing touches the
  pod afterwards; a monitor is unhealthy exactly from the threshold on; statuses are applied
  in the order in which the agent reported them and each reaches Kubernetes. With the default
  handler that created pods share, the second and the fourth are not promises of the code; section 3
  says what remains.
* Provider, cache, compute: no running instance without somebody who knows whose it is; one
  instance per pod and one pod per instance; Kubernetes' record names a running instance; the
  cache agrees with the record; a bound pod is launched, a deleted one ends; no panic.
* Warm Pool: the maps hold exactly the instances that EC2 has and no pod was given; a pod keeps
  its instance; the pool is refilled and does not grow without bound.
* Start-up: a process keeps its node name and shares it with nobody; every pod of the node is
  owned by a running process and launched once; a valid configuration starts.
* Agent and client: a watcher sees its service's current status in the end and never a change
  undone; no client can block the service; no handler outlives its client.

## 2. Modules

### HealthMonitor (package `internal/health`)

A goroutine is a program counter: `mpc[<<p, m>>]` for monitor `m` of pod `p`, `rpc[p]` for
the receiver that `Start(p)` launched. `wg[p]` is the wait group, `phase[p]` the life of the
`PodMonitor`, `out`/`held` the result a monitor is sending and a receiver is handling. The
channel is unbuffered, so a send and a receive are one action, `Deliver`. `HandlerOf` says
which pods share a channel: `CreatePod` passes the provider's default handler to every pod,
`PopulateCache` makes one handler per pod. A `PodStatus` is its version, its place in the
order in which the agent reported it. `Failures` is bounded by `MaxFailures`, reports by
`MaxStatus`.

| Program counter | Code |
|---|---|
| `connect` | `getStream` at the top of the watch loop |
| `check`, `nilcheck` | the two non-blocking selects on `ctx.Done()` |
| `recv` | inside `stream.Recv` |
| `send` | the plain send `CheckResults <- result` of the watch loop |
| `sleep` | `time.Sleep` after a failure |
| `probe`, `offer`, `pause` | the check loop: check function, select of send and cancellation, interval |
| receiver `select`, `handle`, `notify` | `receive`'s select; `handleCheckResult` up to the status; the notifier |

### Ec2Provider (provider, cache, compute manager, start-up, and their surroundings)

A pod object is a record of what the provider reads or writes of it: whether it exists and is
being deleted, the instance-id annotation, a revision for the other metadata, a three-valued
status, the IP (named by the instance that has it). There is one such record per place that
holds a copy: `k8s`, `lister`, `lastUsed`, `lastStatus`, `using`, `arg`, `cpod`, `mpod`.
`cpod` and `mpod` are the same Go object after `CreatePod` and differ once `UpdatePod` has
replaced the cached one. The worker of a pod (`pc`) advances at the calls that leave the
process. `inst`, `tag` and `app` are EC2 and the agents. The actions of the controller are
translated from the vendored Virtual Kubelet library, the caller that defines which sequences
of calls the provider sees. `Rehydrate` is the start-up in `main` (list the node's pods, `Populate`,
`PopulateCache`), `RunController` what follows; `Crash` and a panic lose all but Kubernetes and EC2.

`Faults` says which external calls may fail: `run` (RunInstances), `ip` (the wait for a
private IP), `agent` (launching and terminating the application), `cleanup` (TerminateInstances
after a failed launch), `terminate` (the same in `DeletePod`), `tag` (CreateTags). A failing
agent call may or may not have had its effect. `describe` is a DescribeInstanceStatus that fails,
which counts as having no instance (`LacksInstance`), and `dial` a dial that succeeds just as its context
expires, after which `launchApplication` or `terminateApp` calls the agent over a nil connection and
the process dies (`NilConnection`). `BarePods` may have no annotation at all: writing the instance id
into their nil map ends the process after the instance was launched (`AnnotateNil`). `Stop` of a
running monitor may wait for ever (`hang` in `StopPodMonitor`), as HealthStopHang shows it can; only
the death of the process ends such a DeletePod.

Left out on purpose: failures of the Kubernetes API; re-creation of a pod under the same
name (a pod is bound once); metadata of the request to EC2; rate limiting of the queues;
`managedFields` in `podsEffectivelyEqual`. `rev` stands for the rest of the metadata, the
deletion grace period included, and a status written by the monitor's old object reverts it,
as in the code. Whether a Warm Pool is configured (`warm`) and which pods are never restarted
(`never`) is chosen in `Init`, and so is which pods are without annotations (`bare`). `tries` counts the
failures of a key in the work queue up to `MaxRetries`, after which the key is dropped (`Dropped`).
Choosing a warm instance reads the tags in one step (WarmPool looks into that).

### WarmPool (`warmpool.go`)

Goroutines `main` (start-up), `depth` and `refresh` (the two tickers) and one worker per pod,
each with a program counter that advances at calls to EC2 and at operations on the mutex. The
refresh (`checkEC2TagsForState`) is one set of actions that all but `depth` go through:
`ResetState` replaces the maps **and** the mutex, as `VKState = State{}` does, so that whoever
held the old mutex unlocks the new one, or a mutex that is not locked, which ends the process
(`UnlockAndGoto`). `Excess` is `pop` repeated, ready instances first. A configuration without
subnets yields the empty id `None`. Any operation may begin while others are under way (`Begin`), as
the two tickers and the controller's workers do in the code; `MaxOverlaps` bounds for TLC how often it
happens. CreatePod and DeletePod appear as far as they touch the pool and the tags.

Two history variables say of which periods more can be expected. `calm` is set by a refresh that
begins with no other goroutine at work and cleared when one operation meets another; it survives a
crash. `faulty` is cleared by every refresh and set by a failing call. No action reads either of them.

### Startup (`main.go`, `internal/config`, `eninode.go`, `NewEc2Provider`, `k8s_client.go`)

Several processes of one cluster, each a program counter: `down`, `eni` (find the interface by
its tag), `create`, `pool` (Warm Pool and compute manager), `pods` (list and cache the node's
pods), `run`, `running`. An error or a panic on the way leads back to `down`. The configuration is modelled by what a file can do to it: `Load` of a
missing file leaves a nil pointer, of a file that is no JSON an empty struct, of a wrong type a
partial one; `SetDefaults` happens only after a load without error; `Validate`'s verdict is
logged. An interface stands for the address in the node's name; `Nameless` is the name
`fargate-` that an ignored error of CreateNetworkInterface leads to. `StatusLoop` is the ticker
that panics on an interval of zero. Kubernetes binds pods to registered nodes, and the
controller of a running process calls CreatePod for the pods of the name it was given. A CreatePod
that fails takes the pod out of the cache again and is repeated until `MaxRetries` attempts are used up.

### HealthServer, StatusFeed and Agent (`examples/vkvmagent`, `vkvmaclient.go`, watch loop)

HealthServer is the agent's health service. A call that changes a status holds `mu` and works
through `job`: the map, then for each watcher `DrainUpdate` and `PutUpdate` as separate steps,
between which the Watch goroutine may take from its channel without the mutex. `Send` waits while
`Window` messages are unread and fails on a cancelled stream.

StatusFeed is the abstract promise of such a service: subscribers are offered the current
status when they subscribe and after a change, an unseen offer is replaced by a newer one, and
nothing but NOT_SERVING is set while the service is shut down. `Feed` in HealthServer is the
refinement mapping: a subscriber is a registered channel, its offer what is being put or is in
the channel. Draining a channel is the offer; putting what was offered, unlocking and sending are
stuttering steps.

Agent composes the service with the agent's process, which stops and starts again, another
client that does not read, and one monitor: its watch loop with a new VkvmaClient per stream.
`ConnectLate` is the dial whose context expires as it succeeds, after which `OpenPanic` is the
call over a nil connection. `Notice` is the server learning that the peer is gone.

### Proofs and instances

HealthMonitor_proofs, Ec2Provider_proofs, WarmPool_proofs, Agent_proofs and Startup_proofs hold the
theorems, see section 5. The modules `MC...` hold the constants for TLC. Operators introduced by a comment "Mutant:" are plausible bugs; a run in
which one replaces the operator it varies must fail, which shows that the property notices.

## 3. Runs

| Run | Instance | Checks |
|---|---|---|
| `HealthOwn` | one pod, its own handler, two watchers, one poller, threshold 2, three failures, two statuses, notifier registered late | `TypeOK`, `WaitGroupExact`, `StoppedIsQuiet`, `UnhealthyIffThreshold`, `StatusInOrder` |
| `HealthShared` | two pods on the default handler, one application watcher each, two statuses of one pod and one of the other, notifier registered late, with fairness | `StopReturnsUnlessStuck`, `ResultTaken`, `StatusReported` |
| `HealthStopHang` | one pod, its own handler, with fairness | violated: `StopReturns` |
| `Ec2Fresh` | one pod, four instances of which one is left from an earlier life, three attempts, `run`, `agent`, `terminate` and `describe` fail, Stop may hang, with fairness | `TypeOK`, `NoOrphan`, `OneApplication`, `CachedIsMonitored`, `PodLaunched`, `PodTerminated` |
| `Ec2Crash` | one pod of either restart policy, with or without annotations, three instances, new or from a Warm Pool, all eight faults, four attempts (so that a pool runs out), two crashes | `RecordedInstanceRuns`, `CacheMatchesRecord`, `DeleteFindsPod` |
| `Ec2Edit` | one pod, two instances, one edit, one crash, two attempts, `run` and `agent` fail, Stop may hang, with fairness | `OneApplication`, `RecordedInstanceRuns`, `PodRemoved` |
| `Ec2StaleUpdate` | one pod, edits | violated: `NoOrphan` |
| `Ec2RestartLost` | one pod, one crash, with fairness | violated: `PodLaunched` |
| `WarmPool` | three instances, one pod, two pools / a pool next to one without subnets, one operation that begins during others, any one failing call, one crash, with fairness | `TypeOK`, `MutexFree`, `AssignedStaysOut`, `MapsExact`, `PodKeepsInstance`, `PoolBounded`, `PoolRefilled` |
| `WarmPoolOverlap` | two instances, one pod, one pool of one, one overlap | violated: `AssignedLeavesPool` |
| `Startup` | two processes, one without POD_NAME, three interfaces, one pod with two attempts, eight configuration files, two failures, two crashes, with fairness | `TypeOK`, `StableName`, `NamesDistinct`, `LaunchedOnce`, `ValidStarts`, `PodsOwned` |
| `Agent` | two services, two streams, one unread message, two events (status calls or faults), either subject, with fairness | `TypeOK`, `PutNeverWaits`, `ShutdownSticks`, `FeedSpec`, `CallReturns`, `StreamsEnd`, `Delivered` |

**Bounds.** The wait group, threshold and channel logic distinguishes one pod from two on a
channel, failures below, at and above the threshold, and one status overtaking another: two
statuses, three failures. HealthShared has the overtaking (two receivers, two statuses of one pod) and
leaves out failing streams, which HealthOwn has. In Ec2Provider a second instance is what a retry needs, a third or
fourth what retries with crashes need; two crashes allow one during the recovery from another;
`MaxRetries` (20 in the library) is 2 to 4, so that both a retry and giving up happen. WarmPool
needs a pool to overfill and one to underfill next to each other (depths 1 and 2); one overlap is
enough for two goroutines to share a replaced mutex, for a refresh to read what another is changing, and
for the quiet time afterwards, and the safety properties of the run are proved for any number of
overlaps, workers and pods. Startup needs a crash after a failed recovery, hence two of each,
and an interface more than processes, to see a second one created. In Agent two events allow a
status change racing another, a fault, or a second watcher; a window of one lets a client block
`Send`. All
runs set `CHECK_DEADLOCK FALSE`: the system may rest when every pod is stopped or deleted.

**Fairness.** HealthMonitor: a goroutine that can run does; `Recv` returns once its context is
cancelled; sleeps and dials end; strong fairness for a select that finds the cancellation
again and again and for a sender, since Go serves blocked senders in order and picks
uniformly among ready cases. Nothing is assumed about messages arriving. Ec2Provider: the
informer, the queue workers and started calls go on and a dead process is restarted; nothing
about users, crashes, agents or the success of calls. WarmPool: started operations go on and a
dead process is restarted; strong fairness of the two tickers, which tick for ever, since an
operation of another goroutine only delays them. Startup: processes are started again and get
on, and controllers work off their pods. Agent: the agent is started again, goroutines that can
run do, and the server notices a dead peer (keepalive or the operating system sees to it).

### Findings

* `HealthStopHang`: the watch loop's send is not in a select with the cancellation. If the
  receiver leaves first, the sender, `Stop` and `DeletePod` wait for ever. `HealthShared` shows
  that this is the only way for `Stop` to hang.
* `Ec2StaleUpdate`: `UpdatePod` with an informer object older than the launch removes the
  instance id from the cache; a deletion then terminates nothing.
* `Ec2RestartLost`: after a restart a pod that was never launched counts as known and is never
  created.
* `WarmPoolOverlap`: a refresh that described an instance before CreatePod took and tagged it
  puts it back into the Ready map afterwards: the refresh inside CreatePod has replaced the
  mutex that would have kept the two apart. Another CreatePod or the depth check can then pop it. The
  mutex alone would not help: the instance is popped and tagged in two steps, and a refresh on the ticker
  may fall between them.

Seen while modelling: `DeletePod` for a pod that is no longer cached dereferences a nil
`MetaPod` when it logs the error (`ec2provider.go:217`); an edit during the deletion is enough,
as `Ec2StaleUpdate` with `DeleteFindsPod` instead of `NoOrphan` shows. The document on the Warm Pool
says that the process "will terminate while loading configurations" if they are invalid; it logs
the error and goes on (`ec2provider.go:82`), and Startup has the consequences. A process that
cannot create its interface registers as `fargate-` (`eninode.go:90`), so the properties of
names except it. A message NOT_SERVING counts as a good result and its status is not kept (`monitor.go:247`).
`docs/rfcs/UnrecoverableFailures.md:4` has a pod whose launch fails retried "indefinitely", and its next
paragraph a deletion that fails; the queue drops a key after `MaxRetries` failures (`queue.go:497`), and the
clean-up of a failed launch is attempted once (`ec2provider.go:343`). `PodLaunched` therefore ends in
`GaveUp` and `PodTerminated` in `Dropped`: without these exceptions Ec2Fresh finds them violated, and
`PodTerminated` and `PodRemoved` without `Stuck`, a DeletePod that hangs in Stop.

Also seen, and excluded from the passing runs by their bounds: an instance whose IP
does not come in time is abandoned (`ip` fault, `compute.go:160`), so `NoOrphan` is checked
without it; after a failing `set_in_use` tag the pod stays cached with an unstarted monitor
(`ec2provider.go:174`), so `CachedIsMonitored` is checked without `tag`; a failed clean-up leaks
the instance (`cleanup`); so does a process that dies over a nil
connection or a nil map of annotations; on a shared handler two results of a
pod may be applied in either order, so `StatusInOrder` and
`StoppedIsQuiet` are checked for own handlers and `StatusReported` excepts pods of which two
receivers held statuses at once (`Overtaking`). `IsReceiving` is cleared by the first receiver to stop;
nothing reads it. The deletion of a dangling pod whose TerminateInstances fails is not repeated, so
`PodRemoved` is checked without `terminate`. A pod that was force-deleted just before a crash
leaves its instance running, so `PodTerminated` is checked without crashes.

## 4. What the passing runs show

For these instances and every interleaving: the goroutine accounting of the monitors is exact
and `Stop` waits for all of them, except that it may wait for ever for a sender that nobody receives
from; results are never lost while a pod is monitored; those of a pod with a handler of its own are
applied in order and never after `Stop`. Failed launches and deletions leave no instance behind and no
second copy of the application, as long as the clean-up itself and the wait for the IP succeed and the
process lives; across crashes, panics and all failures the record in Kubernetes names a running
instance and the rebuilt cache agrees with it. A bound pod is launched unless its attempts are used up
or a restart takes it for launched (`Ec2RestartLost`); a deleted pod leaves Kubernetes and the
cache if its `Stop` returns, or if the process is restarted while it hangs.

However the operations of the Warm Pool overlap, the mutex that a refresh replaces comes free in the
end. While they overlap the maps promise nothing (`WarmPoolOverlap`); after the next refresh that runs alone
they are equal to what EC2 has, through restarts, and the pool comes back to its depth even when several
configurations work against each other. Processes come back under their own name and own the
pods of their node whatever call failed or crash happened on the way, except a pod whose CreatePod
has failed as often as the queue repeats it. The agent's health service implements the abstract feed, no client
can block it, and a monitor in the end receives the agent's current status after any sequence of broken
connections and restarts; the provider itself does not keep that status (`monitor.go:247` only counts the
message as a success), the variable of the model that does is there to state the property.

## 5. Proofs

`HealthMonitor_proofs` proves, for any finite set of pods and monitors, any handlers, any
threshold of at least one and any bounds:

* `TypeCorrect`: `Spec => []TypeOK`, with the wait group a natural number;
* `WaitGroupCorrect`: `Spec => []WaitGroupExact`;
* `ThresholdCorrect`: `Spec => []UnhealthyIffThreshold`;
* `QuietAfterStop`: `Spec => []StoppedIsQuiet`, if every pod has its own handler (`OwnHandlers`);
* `StatusOrdered`: `Spec => StatusInOrder`, under the same hypothesis, which is what
  `PopulateCache` sets up; with the shared default handler of `CreatePod` both fail.

The argument is the inductive invariant `IInv`. The type of `wg` needs the exact count
(otherwise `Exit` could decrement zero), the count needs that `Start` finds no goroutine
(`Untouched`), the receiver's writes need that results in transit are real and stay on their
handler (`Carried`), and quiet after `Stop` needs that a wait group once at zero stays there
(`Reaped`). `TypesStep`, `UntouchedStep`, `ThresholdStep` and `CountStep` show that each part is
preserved, action by action; `SameCount`, `ExitCount` and `StartCount` are the cardinality facts.
Statuses stay in order because
what is on its way from the stream to the pod is no older than what the pod has, of which a handler
of one's own leaves one at a time in each place (`InTransit`). The assumptions are those of
HealthMonitor: finite pods and monitors, disjoint kinds of monitors, at most one application
watcher per pod, `HandlerOf` a function, numeric bounds.

`Agent_proofs` proves, for any services, streams, faults and bounds:

* `CallsNeverWait`: `Spec => []PutNeverWaits`;
* `ShutdownHolds`: `Spec => []ShutdownSticks`;
* `FeedImplemented`: `Spec => FeedSpec`, the refinement of StatusFeed;
* `TypeCorrect`: `Spec => []TypeOK`, with at most one status in a channel and a window of
  messages on a stream.

The inductive invariant is `SInv`: only the holder of the mutex has something left to do, for
registered watchers (`Locked`); a stream is registered while its handler is between `Watch` and
`Leave`, and otherwise has an empty channel (`Registered`); the watchers that a call still has to
tell watch the service that it has just set (`CurrentPut`), without which a put could offer a
stale status; after Shutdown only NOT_SERVING is left to be set (`Closing`). `NextCases` reduces a
step of the whole agent and its clients to the few that touch the service; `FeedCall`,
`FeedCaller`, `FeedWatcher` and `FeedStop` give for each the step of the feed that it is. The
assumption beyond those of the model is that `None` is not one of the statuses.

`Startup_proofs` proves, for any number of processes with different `POD_NAME`s (at most one
without), any interfaces, pods and configuration files and any number of failures and crashes:

* `TypeCorrect`: `Spec => []TypeOK`;
* `NamesStable`: `Spec => []StableName`, and `NamesNeverShared`: `Spec => []NamesDistinct`;
* `PodsLaunchedOnce`: `Spec => []LaunchedOnce`.

In the inductive invariant `IInv` a process that is not down has the configuration of the file
(`Configured`), hence always computes the same tag; every name that it has or had is an interface
with that tag, and it is about to create one only if there is none (`Tagged`); no tag is on two
interfaces (`TagsUnique`), which is preserved because no other process computes the tag
(`TagFacts`). `Cached` says that a process with an address has, from `run` on, every launched pod
of its node; `NamesDiffer` keeps the launches of others apart.

`WarmPool_proofs` proves, for any instances, pods and lists of configurations, with or without
subnets, for any number of crashes and failed calls, and however many operations overlap:

* `TypeCorrect`: `Spec => []TypeOK`;
* `MutexReleased`: `Spec => []MutexFree`;
* `AssignedOut`: `Spec => []AssignedStaysOut`, and `MapsAreExact`: `Spec => []MapsExact`;
* `PoolIsBounded`: `Spec => PoolBounded`, and `PodsKeepInstances`: `Spec => PodKeepsInstance`.

The first two need the invariant `TInv` of all interleavings: a locked mutex is held by somebody who is
between its Lock and its Unlock (`MutexHeld`), which survives the replacement of the mutex
because an Unlock of a mutex that is not locked ends the process. That several goroutines are then in the
critical section is allowed for; that one of them is, is enough. The others follow from `CInv`, which is `calm => Ordered`:
from a refresh that ran alone until operations overlap, one goroutine is at work
(`Solo`); what is in a map, in a batch to be terminated or in a refresh has the tag of the pool (`InPool`); what CreatePod
holds is in no map and has no pod (`Taken`); and, as long as no call has failed, everything of the pool in EC2
is known to the process (`AllKnown`) and whoever is about to create counts only what is missing (`Filling`). The lemmas
on `ResetState` re-establish all of it from EC2 alone, which is why one refresh that runs alone is
enough after any past. The maximum in `PoolBounded` exists by the well-foundedness of the naturals
(`LargestExists`); it is the one place that needs induction over data.

`Ec2Provider_proofs` proves, for any pods and instances and any number of attempts, and unless
said otherwise for all faults and any number of crashes and edits:

| Theorem | Property | Hypotheses: there is | TLC's counterexample without |
|---|---|---|---|
| `TypeCorrect` | `TypeOK` | | |
| `CachedMonitored` | `CachedIsMonitored` | no Warm Pool or no `tag` fault | a failed `set_in_use` leaves a cached pod with a new monitor |
| `ApplicationIsSingle` | `OneApplication` | no `cleanup` fault | a launch that failed after its effect, and whose instance stays, is repeated elsewhere |
| `DeletedPodsFound` | `DeleteFindsPod` | no edit | the pod is edited while DeletePod works, and deleted again when it is no longer cached |
| `CacheMatches` | `CacheMatchesRecord` | no edit, no instance of an earlier life | `UpdatePod` with a stale object, or a launch that replaces the annotated instance |
| `RecordedRuns` | `RecordedInstanceRuns` | no instance of an earlier life; no Warm Pool, or one pod | a failed launch terminates the annotated instance; two pods take the same warm instance |
| `NothingOrphaned` | `NoOrphan` | no edit, crash, pod without annotations, `ip`, `dial` or `cleanup` fault; no Warm Pool or no `tag` fault | each of these loses an instance, see the findings |

The hypotheses are the conditions under which the code keeps the promise and not artefacts of the
proof: TLC finds the counterexample when any one is dropped and the others kept. They are conditions on
the environment (what may fail, whether users edit), and all other nondeterminism remains.

Every step of the system concerns one pod or the whole process. `StepOf(p)` says what the step does
to the copies of pod `p`, in some fifteen forms, leaving out queues and attempts; the invariants of
single pods are proved against these forms. `Base` says what the worker's program counter, the cache and
the monitor tell of each other, that a pod whose deletion is under way is deleted for the informer or gone,
and that an object names an instance and its IP together. `Launching` says that until the
first launch is over nobody outside the provider has seen an IP (`Unlaunched`), and that all copies
that have one agree (`OneIp`). From these:

* `Apps`: while a pod's application runs, the pod is cached or is to go, and CreatePod is past its
  launch or cleaning up that very instance; a repeated launch therefore finds none;
* `Deletes`: a worker that deletes has a cached pod; without edits the informer's object does not change after
  its deletion was acted upon, so there is no second call;
* `Fresh`: of a launched pod, an object in the informer or in Kubernetes names the cached instance or is
  the one the controller used last, so that `UpdatePod` never replaces the cached pod by an
  older one;
* `Records`: an instance that any copy of a live pod names runs, and no two pods name the same
  instance (`Disjoint`), so that no deletion takes another pod's;
* `Held`: an allotted running instance is in the annotation of a cached object until `DeleteCompute`
  has terminated it, since a CreatePod that starts has no allotted instance yet (`AllottedLater`), and given that DeletePod works on an object with that annotation (`RightArg`).

Only model-checked: the liveness properties (`StopReturnsUnlessStuck`, `ResultTaken`, `StatusReported`,
`PodLaunched`, `PodTerminated`, `PodRemoved`, `PoolRefilled`, `ValidStarts`, `PodsOwned`, `CallReturns`,
`StreamsEnd`, `Delivered`), which are outside the prover's reach because of fairness. Every
invariant and every safety action property of the passing runs is stated by a theorem.

## 6. Plan

1. **PodLifecycle**: the abstract promise (a pod is pending, running on one instance, or gone)
   and Ec2Provider shown to implement it under the hypotheses of section 5, with TLC and TLAPS.
2. Weaker hypotheses where the code allows: `RecordedRuns` with a Warm Pool for several pods once
   the choice of an instance is the one of WarmPool; `NothingOrphaned` with crashes for pods whose
   annotation has reached Kubernetes.
3. Extensions of Ec2Provider: re-creation under the same name, failures of the Kubernetes API.

## 7. Not modelled

Metrics, logging, tracing and flag parsing (nothing reads them back); generated protobuf code,
mocks and the deployment stack; the AWS wrappers that forward calls; the bootstrap example, a
sequential program that keeps no state; functions that nothing calls (in `warmpool.go`
`TerminateInstance`, `RemoveFrom...` and `SetNodeName`; `DeleteNetworkInterface`). Paging of
DescribeInstances (`warmpool.go:351` reads the first page only). Several processes sharing one
Warm Pool, which the empty node name in the tags leads to. Time is not modelled: timeouts are
nondeterministic failures, so that the poll interval, a `time.Duration` without a unit, is not
visible. Go's memory model is not modelled: map operations are atomic, although
`PodCache.UpdatePod` writes without the lock.
