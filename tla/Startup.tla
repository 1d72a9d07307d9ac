------------------------------ MODULE Startup ------------------------------
(***************************************************************************)
(* How provider processes start: the configuration, the network interface   *)
(* that names the node, the Warm Pool, the pods that Kubernetes already has *)
(* for the node, and the registration of the node (cmd/virtual-kubelet,     *)
(* internal/config, eninode.go, NewEc2Provider).  Several processes of one  *)
(* cluster start, crash and start again; an error or a panic on the way     *)
(* ends a process, and it is started anew.                                  *)
(***************************************************************************)
EXTENDS Naturals, FiniteSets

CONSTANTS
  Procs,
  PodName,     \* the POD_NAME variable of every process, None if not set
  Enis,        \* network interfaces that can be created
  Pods,
  None,
  Nameless,    \* the node name "fargate-", without an address
  Files,       \* the configuration files explored
  Faults,      \* which calls may fail
  MaxRetries,  \* attempts of the controller's work queue for one pod
  MaxFaults,   \* bound: failures
  MaxCrashes   \* bound: crashes

\* What the start-up tells apart in a configuration file: whether it can be
\* read and parsed, and which settings it has.
ConfigFile == [read : {"missing", "syntax", "type", "ok"}, cluster : BOOLEAN,
               subnet : BOOLEAN, interval : BOOLEAN, pool : {"none", "valid", "invalid"}]

\* NewEc2Client, DescribeNetworkInterfaces, CreateNetworkInterface, the first
\* filling of the Warm Pool, NewK8sClient, the list of the pods, a CreatePod.
FaultKinds == {"client", "describe", "create", "pool", "kube", "pods", "launch"}

\* The cluster names of configurations: none, the file's and the default.
Clusters == {"", "named", "aws-virtual-kubelet"}

ASSUME StartupAssumption ==
  /\ PodName \in [Procs -> Procs \cup {None}]
  /\ \A p, q \in Procs : p # q => PodName[p] # PodName[q]
  /\ None \notin Procs \cup Enis /\ Nameless \notin Enis \cup {None}
  /\ None \notin Clusters \X (Procs \cup {None})
  /\ Files \subseteq ConfigFile /\ Faults \subseteq FaultKinds
  /\ MaxRetries \in Nat /\ MaxFaults \in Nat /\ MaxCrashes \in Nat

VARIABLES
  file,      \* the file that all processes read
  failures, crashes,
  pc,        \* where the start-up of a process is
  config,    \* the package variable config
  name,      \* EniNode.name, None before it is known
  watching,  \* the node name that the controller's informer filters by
  cache,     \* Ec2Provider.pods
  tries,     \* failed attempts of the controller of a process to create a pod
  eniTag,    \* the Name tag of an interface, None if it does not exist
  nodes,     \* nodes registered in Kubernetes
  nodeOf,    \* the node that a pod is bound to, or None
  launches,  \* how often CreatePod succeeded for a pod
  used       \* the names under which a process has registered

procVars == <<pc, config, name, watching, cache, tries>>
k8sVars  == <<nodes, nodeOf, launches, used>>
vars     == <<file, failures, crashes, procVars, eniTag, k8sVars>>

-----------------------------------------------------------------------------
(* Configuration *)

\* The settings of the package variable config that decide how a start goes.
ProviderConfig == [nil : BOOLEAN, cluster : Clusters,
                   subnet : BOOLEAN, interval : BOOLEAN, pool : {"none", "valid", "invalid"}]

\* The pointer before a file has been read, and an empty ProviderConfig.
NilConfig   == [nil |-> TRUE, cluster |-> "", subnet |-> FALSE, interval |-> FALSE, pool |-> "none"]
ZeroConfig  == [NilConfig EXCEPT !.nil = FALSE]

\* FileLoader.load: a file that cannot be read leaves the pointer nil, one
\* that is no JSON an empty struct; a value of the wrong type is skipped.
Load(f) ==
  CASE f.read = "missing" -> NilConfig
    [] f.read = "syntax"  -> ZeroConfig
    [] OTHER -> [nil |-> FALSE, cluster |-> IF f.cluster THEN "named" ELSE "",
                 subnet |-> f.subnet, interval |-> f.interval, pool |-> f.pool]

\* Mutant: no default for the status interval.
SetClusterOnly(c) ==
  [c EXCEPT !.cluster = IF @ = "" THEN "aws-virtual-kubelet" ELSE @]

\* defaults.Set fills in what is missing.
SetDefaults(c) ==
  [nil |-> c.nil, cluster |-> IF c.cluster = "" THEN "aws-virtual-kubelet" ELSE c.cluster,
   subnet |-> c.subnet, interval |-> TRUE, pool |-> c.pool]

\* InitConfig: defaults are set only if the file was loaded without an error.
InitConfig(f) == IF f.read = "ok" THEN SetDefaults(Load(f)) ELSE Load(f)

\* validateWarmPoolConfig: every pool has an image, an instance type, subnets.
ValidWarmPool(c) == c.pool # "invalid"

\* validate, whose error InitConfig returns and its caller only logs.
Validate(c) == c # ZeroConfig /\ c.subnet /\ ValidWarmPool(c)

-----------------------------------------------------------------------------
(* Steps *)

Goto(p, l) == pc' = [pc EXCEPT ![p] = l]

\* A process ends: by Fatal, a panic or a crash.
Die(p) ==
  /\ Goto(p, "down")
  /\ config' = [config EXCEPT ![p] = NilConfig]
  /\ name' = [name EXCEPT ![p] = None]
  /\ watching' = [watching EXCEPT ![p] = None]
  /\ cache' = [cache EXCEPT ![p] = {}]
  /\ tries' = [tries EXCEPT ![p] = [x \in Pods |-> 0]]
  /\ UNCHANGED <<file, eniTag, k8sVars>>

\* A call fails.
Fault(kind) ==
  /\ kind \in Faults /\ failures < MaxFaults
  /\ failures' = failures + 1
  /\ UNCHANGED crashes

NoFault == UNCHANGED <<failures, crashes>>

\* NewEc2Client cannot load the AWS settings: Fatalf.
NoEc2Client == Fault("client")

\* Mutant: the tag is the cluster's for every process.
EniTagOfCluster(p) == <<config[p].cluster, None>>

\* The value of an interface's tag: the cluster, with POD_NAME if it is set.
EniTag(p) == <<config[p].cluster, PodName[p]>>

TagMissing(p) == EniTag(p) = <<"", None>>

\* The interfaces that EC2 describes for the tag of p.
GetNetworkInterfaceByTagName(p) == {e \in Enis : eniTag[e] = EniTag(p)}

\* An interface is created with the tag of p.
CreateNetworkInterface(p, e) ==
  /\ eniTag[e] = None
  /\ eniTag' = [eniTag EXCEPT ![e] = EniTag(p)]

Init ==
  /\ file \in Files
  /\ failures = 0 /\ crashes = 0
  /\ pc = [p \in Procs |-> "down"]
  /\ config = [p \in Procs |-> NilConfig]
  /\ name = [p \in Procs |-> None]
  /\ watching = [p \in Procs |-> None]
  /\ cache = [p \in Procs |-> {}]
  /\ tries = [p \in Procs |-> [x \in Pods |-> 0]]
  /\ eniTag = [e \in Enis |-> None]
  /\ nodes = {}
  /\ nodeOf = [x \in Pods |-> None]
  /\ launches = [x \in Pods |-> 0]
  /\ used = [p \in Procs |-> {}]

\* NewEc2Provider begins with the configuration; its errors are only logged.
NewEc2Provider(p) == config' = [config EXCEPT ![p] = InitConfig(file)]

\* main, up to the callback that makes the provider.
Start(p) ==
  /\ pc[p] = "down"
  /\ NewEc2Provider(p)
  /\ Goto(p, "eni")
  /\ NoFault
  /\ UNCHANGED <<file, name, watching, cache, tries, eniTag, k8sVars>>

\* GetOrCreateEniNode on a configuration that it cannot use, which is a nil
\* pointer or a missing subnet or tag.
NoEniNode(p) ==
  /\ pc[p] = "eni"
  /\ config[p].nil \/ ~config[p].subnet \/ TagMissing(p)
  /\ Die(p) /\ NoFault

\* Mutant: an interface is created although there is one.
GetEniNodeNever(p) ==
  /\ pc[p] = "eni" /\ config[p].subnet /\ ~TagMissing(p)
  /\ Goto(p, "create") /\ NoFault
  /\ UNCHANGED <<file, config, name, watching, cache, tries, eniTag, k8sVars>>

\* The interface is looked up by its tag; any of several is taken.
GetEniNode(p) ==
  /\ pc[p] = "eni" /\ config[p].subnet /\ ~TagMissing(p)
  /\ \/ /\ \E e \in GetNetworkInterfaceByTagName(p) : name' = [name EXCEPT ![p] = e]
        /\ Goto(p, "pool") /\ NoFault
        /\ UNCHANGED <<file, config, watching, cache, tries, eniTag, k8sVars>>
     \/ /\ GetNetworkInterfaceByTagName(p) = {}
        /\ Goto(p, "create") /\ NoFault
        /\ UNCHANGED <<file, config, name, watching, cache, tries, eniTag, k8sVars>>
     \/ /\ NoEc2Client \/ Fault("describe")
        /\ Die(p)

\* Mutant: the error of the creation is passed over before the name is set.
CreateEniNodeUnset(p) ==
  /\ pc[p] = "create"
  /\ \/ /\ \E e \in Enis : CreateNetworkInterface(p, e) /\ name' = [name EXCEPT ![p] = e]
        /\ NoFault
     \/ /\ Fault("create") \/ (NoFault /\ \A e \in Enis : eniTag[e] # None)
        /\ UNCHANGED <<name, eniTag>>
  /\ Goto(p, "pool")
  /\ UNCHANGED <<file, config, watching, cache, tries, k8sVars>>

\* There is none: it is created.  An error is ignored, and leaves the name
\* without an address.
CreateEniNode(p) ==
  /\ pc[p] = "create"
  /\ \/ /\ \E e \in Enis : CreateNetworkInterface(p, e) /\ name' = [name EXCEPT ![p] = e]
        /\ NoFault
     \/ /\ Fault("create") \/ (NoFault /\ \A e \in Enis : eniTag[e] # None)
        /\ name' = [name EXCEPT ![p] = Nameless]
        /\ UNCHANGED eniTag
  /\ Goto(p, "pool")
  /\ UNCHANGED <<file, config, watching, cache, tries, k8sVars>>

\* The Warm Pool is filled and the compute manager made; both panic on an
\* error.
NewManagers(p) ==
  /\ pc[p] = "pool"
  /\ \/ /\ Goto(p, "pods") /\ NoFault
        /\ UNCHANGED <<file, config, name, watching, cache, tries, eniTag, k8sVars>>
     \/ /\ (config[p].pool # "none" /\ Fault("pool")) \/ NoEc2Client
        /\ Die(p)

\* The goroutine of statusLoop: a ticker without an interval panics.
StatusLoop(p) ==
  /\ pc[p] \in {"pods", "run", "running"}
  /\ ~config[p].interval
  /\ Die(p) /\ NoFault

\* NewK8sClient fails; the error is overwritten and a nil client used.
NoK8sClient == Fault("kube")

\* GetPods of the client: the pods bound to the node.
PodList(p) == {x \in Pods : nodeOf[x] = name[p]}

\* Populate and PopulateCache.
Populate(p, pods) == cache' = [cache EXCEPT ![p] = pods]

\* Mutant: an error of GetPods is ignored.
GetPodsIgnoringErrors(p) ==
  /\ pc[p] = "pods"
  /\ \/ NoFault /\ Populate(p, PodList(p))
     \/ Fault("pods") /\ Populate(p, {})
  /\ Goto(p, "run")
  /\ UNCHANGED <<file, config, name, watching, tries, eniTag, k8sVars>>

\* The pods of the node are fetched and cached; an error ends the process.
GetPods(p) ==
  /\ pc[p] = "pods"
  /\ \/ /\ Populate(p, PodList(p))
        /\ Goto(p, "run") /\ NoFault
        /\ UNCHANGED <<file, config, name, watching, tries, eniTag, k8sVars>>
     \/ /\ NoK8sClient \/ Fault("pods")
        /\ Die(p)

\* The node object gets its name, and reports that it is ready.
Configure(p) ==
  /\ nodes' = nodes \cup {name[p]}
  /\ used' = [used EXCEPT ![p] = @ \cup {name[p]}]

\* Mutant: the name is not given to the informer.
RunUnnamed(p) ==
  /\ pc[p] = "run"
  /\ Configure(p)
  /\ Goto(p, "running") /\ NoFault
  /\ UNCHANGED <<file, config, name, watching, cache, tries, eniTag, nodeOf, launches>>

\* The name is handed on, the command runs and the node is registered.
Run(p) ==
  /\ pc[p] = "run"
  /\ watching' = [watching EXCEPT ![p] = name[p]]
  /\ Configure(p)
  /\ Goto(p, "running") /\ NoFault
  /\ UNCHANGED <<file, config, name, cache, tries, eniTag, nodeOf, launches>>

-----------------------------------------------------------------------------
(* Kubernetes and crashes *)

\* A pod is bound to a node.
Schedule(x) ==
  /\ nodeOf[x] = None
  /\ \E n \in nodes : nodeOf' = [nodeOf EXCEPT ![x] = n]
  /\ UNCHANGED <<file, failures, crashes, procVars, eniTag, nodes, launches, used>>

\* The controller sees a pod of its node that the provider does not have.  A
\* CreatePod that fails forgets the pod again; the controller's queue repeats
\* it until its attempts are used up.
CreatePod(p, x) ==
  /\ pc[p] = "running" /\ nodeOf[x] # None /\ nodeOf[x] = watching[p] /\ x \notin cache[p]
  /\ tries[p][x] < MaxRetries
  /\ \/ /\ cache' = [cache EXCEPT ![p] = @ \cup {x}]
        /\ launches' = [launches EXCEPT ![x] = @ + 1]
        /\ tries' = [tries EXCEPT ![p][x] = 0]
        /\ NoFault
     \/ /\ Fault("launch")
        /\ tries' = [tries EXCEPT ![p][x] = @ + 1]
        /\ UNCHANGED <<cache, launches>>
  /\ UNCHANGED <<file, pc, config, name, watching, eniTag, nodes, nodeOf, used>>

Crash(p) ==
  /\ pc[p] # "down" /\ crashes < MaxCrashes
  /\ crashes' = crashes + 1 /\ UNCHANGED failures
  /\ Die(p)

-----------------------------------------------------------------------------
(* Specification *)

Step(p) ==
  Start(p) \/ NoEniNode(p) \/ GetEniNode(p) \/ CreateEniNode(p) \/ NewManagers(p)
  \/ GetPods(p) \/ Run(p)

Next ==
  \/ \E p \in Procs : Step(p) \/ StatusLoop(p) \/ Crash(p) \/ \E x \in Pods : CreatePod(p, x)
  \/ \E x \in Pods : Schedule(x)

Spec == Init /\ [][Next]_vars

\* Processes are started again and get on, and controllers work off their pods.
Fairness ==
  \A p \in Procs :
    /\ WF_vars(Step(p)) /\ WF_vars(StatusLoop(p))
    /\ WF_vars(\E x \in Pods : CreatePod(p, x))

LiveSpec == Spec /\ Fairness

-----------------------------------------------------------------------------
(* Properties *)

NodeNames == Enis \cup {Nameless}

TypeOK ==
  /\ file \in Files /\ failures \in 0 .. MaxFaults /\ crashes \in 0 .. MaxCrashes
  /\ pc \in [Procs -> {"down", "eni", "create", "pool", "pods", "run", "running"}]
  /\ config \in [Procs -> ProviderConfig]
  /\ name \in [Procs -> NodeNames \cup {None}]
  /\ \A p \in Procs : name[p] = None <=> pc[p] \in {"down", "eni", "create"}
  /\ watching \in [Procs -> NodeNames \cup {None}]
  /\ cache \in [Procs -> SUBSET Pods]
  /\ tries \in [Procs -> [Pods -> 0 .. MaxRetries]]
  /\ nodes \subseteq NodeNames /\ nodeOf \in [Pods -> nodes \cup {None}]
  /\ used \in [Procs -> SUBSET nodes]

\* A process has the same node name after every restart, wherever it crashed
\* before, except while it could not create its interface.
StableName == \A p \in Procs : Cardinality(used[p] \ {Nameless}) <= 1

\* No two processes run under the same name, except when neither could create
\* its interface.
NamesDistinct == \A p, q \in Procs : p # q => used[p] \cap used[q] \subseteq {Nameless}

\* CreatePod succeeds once for a pod, however often its process restarts and
\* its controller repeats it: a restarted process knows the pods of its node
\* before its controller asks.
LaunchedOnce ==
  \A x \in Pods : nodeOf[x] # Nameless => launches[x] <= 1

\* With a configuration that can be read and is valid every process runs in
\* the end, after any failures and crashes.
ValidStarts ==
  (file.read = "ok" /\ Validate(InitConfig(file)))
    => \A p \in Procs : <>[](pc[p] = "running")

\* The controller of p has used up its attempts to create its pod x.
GaveUp(p, x) == nodeOf[x] = watching[p] /\ tries[p][x] = MaxRetries

\* A pod bound to a node with an address is in the end, and stays, in the cache
\* of a running process, unless every attempt that its controller has failed.
PodsOwned ==
  \A x \in Pods :
    <>(nodeOf[x] \in Enis /\ file.read = "ok")
      => <>[](\E p \in Procs : pc[p] = "running" /\ (x \in cache[p] \/ GaveUp(p, x)))
=============================================================================
