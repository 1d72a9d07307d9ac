--------------------------- MODULE Startup_proofs ---------------------------
(***************************************************************************)
(* Proofs about Startup, for any number of processes, interfaces and pods,  *)
(* any configuration files, and any number of failures and crashes: types,  *)
(* node names that are stable and distinct, pods that are launched once.    *)
(*                                                                          *)
(* The names are right because of the tags of the interfaces: a process     *)
(* always computes the same tag, no other process computes it, and an       *)
(* interface is created only by a process that has found none with its tag. *)
(* Pods are launched once because a process that has a name has cached,     *)
(* when it begins to run, whatever an earlier life of it has launched, and  *)
(* nobody else has had that name.  IInv collects these facts.               *)
(***************************************************************************)
EXTENDS Startup, FiniteSetTheorems, TLAPS

Tags == Clusters \X (Procs \cup {None})

\* The tag that a process computes whenever it starts.
Tag(p) == <<InitConfig(file).cluster, PodName[p]>>

Types ==
  /\ TypeOK
  /\ eniTag \in [Enis -> Tags \cup {None}]
  /\ launches \in [Pods -> Nat]

Configured == \A p \in Procs : pc[p] # "down" => config[p] = InitConfig(file)

\* A process has named itself by interfaces with its tag, and creates one only
\* if there is none.
Tagged ==
  \A p \in Procs :
    /\ name[p] \in Enis => eniTag[name[p]] = Tag(p)
    /\ \A n \in used[p] : n # Nameless => eniTag[n] = Tag(p)
    /\ pc[p] = "create" => \A e \in Enis : eniTag[e] # Tag(p)

\* No tag is used twice.
TagsUnique == \A e, f \in Enis : eniTag[e] = eniTag[f] /\ eniTag[e] # None => e = f

\* The informer filters by the node's name, and what has been launched on the
\* node is cached.
Cached ==
  \A p \in Procs :
    /\ pc[p] = "running" => watching[p] = name[p]
    /\ pc[p] \in {"run", "running"} /\ name[p] \in Enis =>
         \A x \in Pods : nodeOf[x] = name[p] /\ launches[x] # 0 => x \in cache[p]

\* A pod that is not bound has not been launched.
Bound == \A x \in Pods : nodeOf[x] = None => launches[x] = 0

IInv == Types /\ Configured /\ Tagged /\ TagsUnique /\ Cached /\ Bound /\ LaunchedOnce

-----------------------------------------------------------------------------
(* Configurations and tags *)

\* Whatever the file, there is a configuration.
LEMMA ConfigType ==
  ASSUME NEW f \in ConfigFile PROVE InitConfig(f) \in ProviderConfig
<1>1. NilConfig \in ProviderConfig
  BY DEF NilConfig, ProviderConfig, Clusters
<1>2. ZeroConfig \in ProviderConfig
  BY DEF NilConfig, ZeroConfig, ProviderConfig, Clusters
<1>3. Load(f) \in ProviderConfig
  BY <1>1, <1>2 DEF Load, ConfigFile, ProviderConfig, Clusters
<1>4. \A c \in ProviderConfig : SetDefaults(c) \in ProviderConfig
  BY DEF SetDefaults, ProviderConfig, Clusters
<1> QED BY <1>3, <1>4 DEF InitConfig

\* No two processes have the same tag.
LEMMA TagFacts ==
  ASSUME Types, NEW p \in Procs
  PROVE  Tag(p) \in Tags /\ Tag(p) # None /\ \A q \in Procs : p # q => Tag(p) # Tag(q)
<1>1. InitConfig(file).cluster \in Clusters
  BY ConfigType, StartupAssumption DEF Types, TypeOK, ProviderConfig
<1>2. Tag(p) \in Tags
  BY <1>1, StartupAssumption DEF Tag, Tags
<1>3. \A q \in Procs : p # q => Tag(p) # Tag(q)
  BY StartupAssumption DEF Tag
<1> QED BY <1>2, <1>3, StartupAssumption DEF Tags

\* The tag that a process computes in a later step is still the same.
LEMMA EniTagIsTag ==
  ASSUME Configured, NEW p \in Procs, pc[p] # "down" PROVE EniTag(p) = Tag(p)
  BY DEF Configured, EniTag, Tag

\* Two processes have no name in common, now or earlier.
LEMMA NamesDiffer ==
  ASSUME IInv, NEW p \in Procs, NEW q \in Procs, p # q
  PROVE  /\ name[p] \in Enis => name[p] # name[q]
         /\ used[p] \cap used[q] \subseteq {Nameless}
  BY TagFacts DEF IInv, Tagged

-----------------------------------------------------------------------------
(* The invariant *)

\* Nothing has a name, a tag or a pod in the beginning.
LEMMA IInvInit == Init => IInv
<1> SUFFICES ASSUME Init PROVE IInv
  OBVIOUS
<1>1. NilConfig \in ProviderConfig
  BY DEF NilConfig, ProviderConfig, Clusters
<1>2. Types
  BY <1>1, StartupAssumption DEF Init, Types, TypeOK
<1>3. Configured /\ Tagged /\ TagsUnique /\ Cached /\ Bound /\ LaunchedOnce
  BY StartupAssumption DEF Init, Configured, Tagged, TagsUnique, Cached, Bound, LaunchedOnce
<1> QED BY <1>2, <1>3 DEF IInv

\* A process that ends leaves nothing but its interface and its pods.
LEMMA DieStep ==
  ASSUME IInv, NEW p \in Procs, Die(p),
         failures' \in 0 .. MaxFaults, crashes' \in 0 .. MaxCrashes
  PROVE  IInv'
<1> USE DEF Die, Goto, k8sVars
<1>1. Types'
  <2>1. NilConfig \in ProviderConfig
    BY DEF NilConfig, ProviderConfig, Clusters
  <2> QED BY <2>1, StartupAssumption DEF IInv, Types, TypeOK
<1>2. Configured'
  BY DEF IInv, Types, TypeOK, Configured
<1>3. Tagged' /\ TagsUnique'
  BY StartupAssumption DEF IInv, Types, TypeOK, Tagged, TagsUnique, Tag
<1>4. Cached' /\ Bound' /\ LaunchedOnce'
  BY DEF IInv, Types, TypeOK, Cached, Bound, LaunchedOnce
<1> QED BY <1>1, <1>2, <1>3, <1>4 DEF IInv

\* A failure is counted.
LEMMA FaultCount ==
  ASSUME IInv, NEW kind, Fault(kind)
  PROVE  failures' \in 0 .. MaxFaults /\ crashes' \in 0 .. MaxCrashes
  BY StartupAssumption DEF Fault, IInv, Types, TypeOK

\* A step in which nothing fails counts nothing.
LEMMA NoFaultCount ==
  ASSUME IInv, NoFault
  PROVE  failures' \in 0 .. MaxFaults /\ crashes' \in 0 .. MaxCrashes
  BY DEF NoFault, IInv, Types, TypeOK

\* The configuration is loaded anew, and is the same.
LEMMA StartStep ==
  ASSUME IInv, NEW p \in Procs, Start(p) PROVE IInv'
<1> USE DEF Start, Goto, NewEc2Provider, k8sVars
<1>1. Types'
  <2>1. InitConfig(file) \in ProviderConfig
    BY ConfigType, StartupAssumption DEF IInv, Types, TypeOK
  <2> QED BY <2>1, NoFaultCount DEF IInv, Types, TypeOK
<1>2. Configured'
  BY DEF IInv, Types, TypeOK, Configured
<1>3. Tagged' /\ TagsUnique'
  BY DEF IInv, Types, TypeOK, Tagged, TagsUnique, Tag
<1>4. Cached' /\ Bound' /\ LaunchedOnce'
  BY DEF IInv, Types, TypeOK, Cached, Bound, LaunchedOnce
<1> QED BY <1>1, <1>2, <1>3, <1>4 DEF IInv

\* An interface is found, or there is none.
LEMMA GetEniNodeStep ==
  ASSUME IInv, NEW p \in Procs, GetEniNode(p) PROVE IInv'
<1> USE DEF Goto, k8sVars
<1>0. pc[p] = "eni" /\ EniTag(p) = Tag(p)
  BY EniTagIsTag DEF GetEniNode, IInv
<1>1. ASSUME NEW e \in GetNetworkInterfaceByTagName(p), name' = [name EXCEPT ![p] = e],
             Goto(p, "pool"), NoFault,
             UNCHANGED <<file, config, watching, cache, tries, eniTag, k8sVars>>
      PROVE  IInv'
  <2>0. e \in Enis /\ eniTag[e] = Tag(p)
    BY <1>0, <1>1 DEF GetNetworkInterfaceByTagName
  <2>1. Types'
    BY <1>0, <1>1, <2>0, NoFaultCount, StartupAssumption DEF IInv, Types, TypeOK, NodeNames
  <2>2. Configured'
    BY <1>0, <1>1 DEF IInv, Types, TypeOK, Configured
  <2>3. Tagged' /\ TagsUnique'
    BY <1>0, <1>1, <2>0 DEF IInv, Types, TypeOK, Tagged, TagsUnique, Tag
  <2>4. Cached' /\ Bound' /\ LaunchedOnce'
    BY <1>0, <1>1 DEF IInv, Types, TypeOK, Cached, Bound, LaunchedOnce
  <2> QED BY <2>1, <2>2, <2>3, <2>4 DEF IInv
<1>2. ASSUME GetNetworkInterfaceByTagName(p) = {}, Goto(p, "create"), NoFault,
             UNCHANGED <<file, config, name, watching, cache, tries, eniTag, k8sVars>>
      PROVE  IInv'
  <2>0. \A e \in Enis : eniTag[e] # Tag(p)
    BY <1>0, <1>2 DEF GetNetworkInterfaceByTagName
  <2>1. Types'
    BY <1>0, <1>2, NoFaultCount DEF IInv, Types, TypeOK
  <2>2. Configured'
    BY <1>0, <1>2 DEF IInv, Types, TypeOK, Configured
  <2>3. Tagged' /\ TagsUnique'
    BY <1>0, <1>2, <2>0 DEF IInv, Types, TypeOK, Tagged, TagsUnique, Tag
  <2>4. Cached' /\ Bound' /\ LaunchedOnce'
    BY <1>0, <1>2 DEF IInv, Types, TypeOK, Cached, Bound, LaunchedOnce
  <2> QED BY <2>1, <2>2, <2>3, <2>4 DEF IInv
<1>3. ASSUME NoEc2Client \/ Fault("describe"), Die(p) PROVE IInv'
  BY <1>3, FaultCount, DieStep DEF NoEc2Client
<1> QED BY <1>1, <1>2, <1>3 DEF GetEniNode

\* An interface is created by the only process that uses its tag, once.
LEMMA CreateEniNodeStep ==
  ASSUME IInv, NEW p \in Procs, CreateEniNode(p) PROVE IInv'
<1> USE DEF Goto, k8sVars
<1>0. /\ pc[p] = "create" /\ EniTag(p) = Tag(p) /\ Goto(p, "pool")
      /\ UNCHANGED <<file, config, watching, cache, tries, k8sVars>>
  BY EniTagIsTag DEF CreateEniNode, IInv
<1>a. Tag(p) \in Tags /\ Tag(p) # None /\ \A q \in Procs : p # q => Tag(p) # Tag(q)
  BY TagFacts DEF IInv
<1>1. ASSUME NEW e \in Enis, CreateNetworkInterface(p, e), name' = [name EXCEPT ![p] = e],
             NoFault
      PROVE  IInv'
  <2>0. eniTag[e] = None /\ eniTag' = [eniTag EXCEPT ![e] = Tag(p)]
    BY <1>0, <1>1 DEF CreateNetworkInterface
  <2>1. Types'
    BY <1>0, <1>a, <1>1, <2>0, NoFaultCount, StartupAssumption
       DEF IInv, Types, TypeOK, NodeNames
  <2>2. Configured'
    BY <1>0, <1>1 DEF IInv, Types, TypeOK, Configured
  <2>3. Tagged'
    <3> SUFFICES ASSUME NEW q \in Procs
                 PROVE  /\ name'[q] \in Enis => eniTag'[name'[q]] = Tag(q)
                        /\ \A n \in used[q] : n # Nameless => eniTag'[n] = Tag(q)
                        /\ pc'[q] = "create" => \A f \in Enis : eniTag'[f] # Tag(q)
      BY <1>0 DEF Tagged, Tag
    <3>1. name'[q] \in Enis => eniTag'[name'[q]] = Tag(q)
      BY <1>0, <1>1, <1>a, <2>0, TagFacts DEF IInv, Types, TypeOK, Tagged
    <3>2. \A n \in used[q] : n # Nameless => eniTag'[n] = Tag(q)
      <4>1. \A n \in used[q] : n # Nameless => n \in Enis
        BY DEF IInv, Types, TypeOK, NodeNames
      <4> QED BY <2>0, <4>1, TagFacts DEF IInv, Types, Tagged
    <3>3. pc'[q] = "create" => \A f \in Enis : eniTag'[f] # Tag(q)
      BY <1>0, <1>a, <2>0 DEF IInv, Types, TypeOK, Tagged
    <3> QED BY <3>1, <3>2, <3>3
  <2>4. TagsUnique'
    BY <1>0, <2>0 DEF IInv, Types, Tagged, TagsUnique
  <2>5. Cached' /\ Bound' /\ LaunchedOnce'
    BY <1>0, <1>1 DEF IInv, Types, TypeOK, Cached, Bound, LaunchedOnce
  <2> QED BY <2>1, <2>2, <2>3, <2>4, <2>5 DEF IInv
<1>2. ASSUME Fault("create") \/ NoFault, name' = [name EXCEPT ![p] = Nameless],
             UNCHANGED eniTag
      PROVE  IInv'
  <2>1. Types'
    BY <1>0, <1>2, FaultCount, NoFaultCount, StartupAssumption DEF IInv, Types, TypeOK, NodeNames
  <2>2. Configured'
    BY <1>0, <1>2 DEF IInv, Types, TypeOK, Configured
  <2>3. Tagged' /\ TagsUnique'
    BY <1>0, <1>2, StartupAssumption DEF IInv, Types, TypeOK, Tagged, TagsUnique, Tag
  <2>4. Cached' /\ Bound' /\ LaunchedOnce'
    BY <1>0, <1>2 DEF IInv, Types, TypeOK, Cached, Bound, LaunchedOnce
  <2> QED BY <2>1, <2>2, <2>3, <2>4 DEF IInv
<1> QED BY <1>1, <1>2 DEF CreateEniNode

\* The managers are made; names, tags and pods stay.
LEMMA NewManagersStep ==
  ASSUME IInv, NEW p \in Procs, NewManagers(p) PROVE IInv'
<1> USE DEF Goto, k8sVars
<1>1. ASSUME pc[p] = "pool", Goto(p, "pods"), NoFault,
             UNCHANGED <<file, config, name, watching, cache, tries, eniTag, k8sVars>>
      PROVE  IInv'
  <2>1. Types'
    BY <1>1, NoFaultCount DEF IInv, Types, TypeOK
  <2>2. Configured' /\ Tagged' /\ TagsUnique'
    BY <1>1 DEF IInv, Types, TypeOK, Configured, Tagged, TagsUnique, Tag
  <2>3. Cached' /\ Bound' /\ LaunchedOnce'
    BY <1>1 DEF IInv, Types, TypeOK, Cached, Bound, LaunchedOnce
  <2> QED BY <2>1, <2>2, <2>3 DEF IInv
<1>2. ASSUME Fault("pool") \/ NoEc2Client, Die(p) PROVE IInv'
  BY <1>2, FaultCount, DieStep DEF NoEc2Client
<1> QED BY <1>1, <1>2 DEF NewManagers

\* The cache gets every pod of the node, so those that were launched.
LEMMA GetPodsStep ==
  ASSUME IInv, NEW p \in Procs, GetPods(p) PROVE IInv'
<1> USE DEF Goto, k8sVars
<1>1. ASSUME pc[p] = "pods", Populate(p, PodList(p)), Goto(p, "run"), NoFault,
             UNCHANGED <<file, config, name, watching, tries, eniTag, k8sVars>>
      PROVE  IInv'
  <2>1. Types'
    BY <1>1, NoFaultCount DEF IInv, Types, TypeOK, Populate, PodList
  <2>2. Configured' /\ Tagged' /\ TagsUnique'
    BY <1>1 DEF IInv, Types, TypeOK, Configured, Tagged, TagsUnique, Tag
  <2>3. Cached' /\ Bound' /\ LaunchedOnce'
    BY <1>1 DEF IInv, Types, TypeOK, Cached, Bound, LaunchedOnce, Populate, PodList
  <2> QED BY <2>1, <2>2, <2>3 DEF IInv
<1>2. ASSUME NoK8sClient \/ Fault("pods"), Die(p) PROVE IInv'
  BY <1>2, FaultCount, DieStep DEF NoK8sClient
<1> QED BY <1>1, <1>2 DEF GetPods

\* The node is registered under the name of the process.
LEMMA RunStep ==
  ASSUME IInv, NEW p \in Procs, Run(p) PROVE IInv'
<1> USE DEF Run, Goto, Configure
<1>0. name[p] \in NodeNames
  BY DEF IInv, Types, TypeOK
<1>1. Types'
  BY <1>0, NoFaultCount DEF IInv, Types, TypeOK
<1>2. Configured' /\ TagsUnique'
  BY DEF IInv, Types, TypeOK, Configured, TagsUnique
<1>3. Tagged'
  BY <1>0 DEF IInv, Types, TypeOK, Tagged, Tag, NodeNames
<1>4. Cached' /\ Bound' /\ LaunchedOnce'
  BY DEF IInv, Types, TypeOK, Cached, Bound, LaunchedOnce
<1> QED BY <1>1, <1>2, <1>3, <1>4 DEF IInv

\* A pod that is bound has not been launched before.
LEMMA ScheduleStep ==
  ASSUME IInv, NEW x \in Pods, Schedule(x) PROVE IInv'
<1>0. PICK n \in nodes : nodeOf' = [nodeOf EXCEPT ![x] = n]
  BY DEF Schedule
<1>1. /\ nodeOf[x] = None /\ n \in NodeNames /\ launches[x] = 0
      /\ UNCHANGED <<file, failures, crashes, pc, config, name, watching, cache,
                     tries, eniTag, nodes, launches, used>>
  BY DEF Schedule, procVars, IInv, Types, TypeOK, Bound
<1>2. Types'
  BY <1>0, <1>1 DEF IInv, Types, TypeOK
<1>3. Configured' /\ Tagged' /\ TagsUnique'
  BY <1>1 DEF IInv, Configured, Tagged, TagsUnique, Tag
<1>4. Cached' /\ Bound' /\ LaunchedOnce'
  BY <1>0, <1>1, StartupAssumption DEF IInv, Types, TypeOK, Cached, Bound, LaunchedOnce
<1> QED BY <1>2, <1>3, <1>4 DEF IInv

\* Only the process with the name of the node launches its pods, and only
\* those that no earlier life of it has launched; a launch that fails leaves
\* the cache as it was.
LEMMA CreatePodStep ==
  ASSUME IInv, NEW p \in Procs, NEW x \in Pods, CreatePod(p, x) PROVE IInv'
<1>1. /\ pc[p] = "running" /\ nodeOf[x] = name[p] /\ nodeOf[x] # None /\ x \notin cache[p]
      /\ tries[p][x] < MaxRetries
      /\ UNCHANGED <<file, pc, config, name, watching, eniTag, nodes, nodeOf, used>>
  BY DEF CreatePod, IInv, Cached
<1>2. name[p] \in Enis \cup {Nameless}
  BY <1>1 DEF IInv, Types, TypeOK, NodeNames
<1>3. Configured' /\ Tagged' /\ TagsUnique'
  BY <1>1 DEF IInv, Configured, Tagged, TagsUnique, Tag
<1>4. CASE /\ cache' = [cache EXCEPT ![p] = @ \cup {x}]
           /\ launches' = [launches EXCEPT ![x] = @ + 1]
           /\ tries' = [tries EXCEPT ![p][x] = 0]
           /\ NoFault
  <2>1. tries' \in [Procs -> [Pods -> 0 .. MaxRetries]]
    BY <1>4, StartupAssumption DEF IInv, Types, TypeOK
  <2>2. Types'
    BY <1>1, <1>4, <2>1, NoFaultCount DEF IInv, Types, TypeOK
  <2>3. Bound'
    BY <1>1, <1>4 DEF IInv, Types, Bound
  <2>4. LaunchedOnce'
    BY <1>1, <1>2, <1>4 DEF IInv, Types, LaunchedOnce, Cached
  <2>5. Cached'
    <3>1. \A q \in Procs : q # p => name[q] # name[p] \/ name[q] \notin Enis
      BY NamesDiffer
    <3> QED BY <1>1, <1>4, <3>1 DEF IInv, Types, TypeOK, Cached
  <2> QED BY <1>3, <2>2, <2>3, <2>4, <2>5 DEF IInv
<1>5. CASE /\ Fault("launch")
           /\ tries' = [tries EXCEPT ![p][x] = @ + 1]
           /\ UNCHANGED <<cache, launches>>
  <2>1. tries' \in [Procs -> [Pods -> 0 .. MaxRetries]]
    <3>1. tries[p] \in [Pods -> 0 .. MaxRetries] /\ tries[p][x] + 1 \in 0 .. MaxRetries
      BY <1>1, StartupAssumption DEF IInv, Types, TypeOK
    <3> QED BY <1>5, <3>1 DEF IInv, Types, TypeOK
  <2>2. Types'
    BY <1>1, <1>5, <2>1, FaultCount DEF IInv, Types, TypeOK
  <2>3. Bound' /\ LaunchedOnce' /\ Cached'
    BY <1>1, <1>5 DEF IInv, Bound, LaunchedOnce, Cached
  <2> QED BY <1>3, <2>2, <2>3 DEF IInv
<1> QED BY <1>4, <1>5 DEF CreatePod

\* A crash is a death that is counted.
LEMMA CrashStep ==
  ASSUME IInv, NEW p \in Procs, Crash(p) PROVE IInv'
<1>1. failures' \in 0 .. MaxFaults /\ crashes' \in 0 .. MaxCrashes
  BY StartupAssumption DEF Crash, IInv, Types, TypeOK
<1> QED BY <1>1, DieStep DEF Crash

\* Every step preserves the invariant.
LEMMA IInvStep == IInv /\ [Next]_vars => IInv'
<1> SUFFICES ASSUME IInv, [Next]_vars PROVE IInv'
  OBVIOUS
<1>1. ASSUME NEW p \in Procs, NoEniNode(p) \/ StatusLoop(p) PROVE IInv'
  BY <1>1, NoFaultCount, DieStep DEF NoEniNode, StatusLoop
<1>2. CASE UNCHANGED vars
  BY <1>2 DEF vars, procVars, k8sVars, IInv, Types, TypeOK, Configured, Tagged, TagsUnique,
     Cached, Bound, LaunchedOnce, Tag
<1> QED BY <1>1, <1>2, StartStep, GetEniNodeStep, CreateEniNodeStep, NewManagersStep,
           GetPodsStep, RunStep, ScheduleStep, CreatePodStep, CrashStep DEF Next, Step

\* The invariant holds in every reachable state.
LEMMA IInvAlways == Spec => []IInv
  BY IInvInit, IInvStep, PTL DEF Spec

-----------------------------------------------------------------------------
(* The properties *)

\* Variables keep their types; in particular a process has a name exactly from
\* the interface on.
THEOREM TypeCorrect == Spec => []TypeOK
<1>1. IInv => TypeOK
  BY DEF IInv, Types
<1> QED BY <1>1, IInvAlways, PTL

\* A process comes back under the name that it had, whatever failed before.
THEOREM NamesStable == Spec => []StableName
<1>1. IInv => StableName
  <2> SUFFICES ASSUME IInv, NEW p \in Procs
               PROVE  Cardinality(used[p] \ {Nameless}) <= 1
    BY DEF StableName
  <2> DEFINE U == used[p] \ {Nameless}
  <2>1. \A m, n \in U : m = n
    <3>1. \A n \in U : n \in Enis /\ eniTag[n] = Tag(p)
      BY DEF IInv, Types, TypeOK, NodeNames, Tagged
    <3> QED BY <3>1, TagFacts DEF IInv, TagsUnique
  <2> HIDE DEF U
  <2>2. CASE U = {}
    BY <2>2, FS_EmptySet DEF U
  <2>3. CASE U # {}
    <3>1. PICK n : U = {n}
      BY <2>1, <2>3
    <3>2. Cardinality({n}) = 1
      BY FS_Singleton
    <3> QED BY <3>1, <3>2 DEF U
  <2> QED BY <2>2, <2>3
<1> QED BY <1>1, IInvAlways, PTL

\* No two processes of a cluster register under one name.
THEOREM NamesNeverShared == Spec => []NamesDistinct
<1>1. IInv => NamesDistinct
  BY NamesDiffer DEF NamesDistinct
<1> QED BY <1>1, IInvAlways, PTL

\* CreatePod succeeds once for a pod, across all restarts of all processes and
\* all attempts that failed.
THEOREM PodsLaunchedOnce == Spec => []LaunchedOnce
<1>1. IInv => LaunchedOnce
  BY DEF IInv
<1> QED BY <1>1, IInvAlways, PTL
=============================================================================
