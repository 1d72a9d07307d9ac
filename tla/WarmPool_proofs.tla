---------------------------- MODULE WarmPool_proofs ----------------------------
(***************************************************************************)
(* What the Warm Pool manager guarantees for every number of instances,     *)
(* pods, crashes, failed calls and overlapping operations, and for every    *)
(* configuration.                                                          *)
(*                                                                         *)
(* None of the properties is inductive.  TInv holds under any interleaving:  *)
(* where every goroutine can be, and that somebody who will unlock it is     *)
(* there whenever the mutex is locked, however often it was replaced.  CInv  *)
(* says what one refresh that runs alone restores and what holds until       *)
(* operations overlap again: one goroutine is at work, which tags an         *)
(* instance has in a map, in a refresh or in the hands of CreatePod, nothing *)
(* is created beyond what is missing and, until a call fails, somebody knows *)
(* of every instance of the pool.                                            *)
(***************************************************************************)
EXTENDS WarmPool, FiniteSetTheorems, WellFoundedInduction, TLAPS

-----------------------------------------------------------------------------
(* What holds however operations overlap *)

\* The steps of checkEC2TagsForState, and all places.
RefreshPCs == {"reset", "lock", "describe", "tagready"}

AllPCs == RefreshPCs \cup {"idle", "fill", "create", "check", "terminate", "next",
                           "take", "tagpod", "launch"}

\* Goroutine g can be at l.
Fits(g, l) ==
  /\ l \in AllPCs
  /\ g = "main" => l \in RefreshPCs \cup {"idle", "fill", "create"}
  /\ g = "depth" => l \in {"idle", "check", "create", "terminate", "next"}
  /\ g = "refresh" => l \in RefreshPCs \cup {"idle"}
  /\ g \in Workers => l \in RefreshPCs \cup {"idle", "take", "tagpod", "launch"}

\* Where every goroutine can be, and the position in the configuration that
\* goes with it.
Places ==
  /\ pc \in [Goroutines -> AllPCs]
  /\ \A g \in Goroutines : Fits(g, pc[g])
  /\ pc["main"] = "create" => cfg["main"] <= Len(wpm)
  /\ pc["depth"] # "idle" => cfg["depth"] <= Len(wpm)
  /\ ~up => Quiet

\* Goroutine g is between Lock and Unlock.
Holds(g) == pc[g] \in {"describe", "tagready", "terminate"} \/ (g = "depth" /\ pc[g] = "create")

\* Somebody is there when the mutex is locked.
MutexHeld == locked => \E g \in Goroutines : Holds(g)

\* When a goroutine has found, popped or been given something.
Traces ==
  /\ \A g \in Goroutines : seen[g] # {} => pc[g] = "tagready"
  /\ batch # {} => pc["depth"] = "terminate"
  /\ \A w \in Workers : pc[w] # "idle" => has[w] = None
  /\ \A w \in Workers : has[w] # None => inst[has[w]] \in {"running", "terminated"}

\* The type invariant in parts: flags and counters, the maps, what the
\* goroutines keep, EC2.
Flags ==
  /\ wpm \in Configs /\ up \in BOOLEAN /\ locked \in BOOLEAN /\ calm \in BOOLEAN /\ faulty \in BOOLEAN
  /\ crashes \in 0 .. MaxCrashes /\ failures \in 0 .. MaxFaults
  /\ pods \in 0 .. MaxPods /\ overlaps \in 0 .. MaxOverlaps

Maps ==
  /\ ready \subseteq Instances /\ prov \subseteq Ids /\ batch \subseteq Ids
  /\ seen \in [Goroutines -> SUBSET Instances]

Locals ==
  /\ cfg  \in [Goroutines -> 1 .. Len(wpm) + 1]
  /\ todo \in [Goroutines -> Int]
  /\ got \in [Workers -> Ids]
  /\ \A w \in Workers : got[w] # None <=> pc[w] \in {"tagpod", "launch"}

Ec2 ==
  /\ has \in [Workers -> Ids]
  /\ inst \in [Instances -> {"absent", "pending", "running", "terminated"}]
  /\ tag  \in [Instances -> TagValues]

TInv == Flags /\ Maps /\ Locals /\ Ec2 /\ Places /\ Traces /\ MutexHeld

\* The goroutines are different from each other.
LEMMA Names ==
  /\ "main" \in Goroutines /\ "depth" \in Goroutines /\ "refresh" \in Goroutines
  /\ Workers \subseteq Goroutines
  /\ \A w \in Workers : w # "main" /\ w # "depth" /\ w # "refresh"
  BY WorkerAssumption DEF Goroutines

\* The configuration has at least one pool.
LEMMA ConfigType ==
  ASSUME TInv
  PROVE  /\ Len(wpm) \in Nat \ {0} /\ DOMAIN wpm = 1 .. Len(wpm)
         /\ 1 \in 1 .. Len(wpm) + 1
         /\ \A k \in 1 .. Len(wpm) : wpm[k].desired \in Nat
<1>1. wpm \in Seq(PoolConfig) /\ wpm # <<>>
  BY ConfigAssumption DEF TInv, Flags
<1>2. Len(wpm) \in Nat \ {0} /\ \A k \in 1 .. Len(wpm) : wpm[k] \in PoolConfig
  BY <1>1
<1>3. \A k \in 1 .. Len(wpm) : wpm[k].desired \in Nat
  BY <1>2 DEF PoolConfig
<1> QED BY <1>1, <1>2, <1>3

\* The maps are finite, and the desired depths are numbers.
LEMMA DepthType ==
  ASSUME TInv
  PROVE  /\ IsFiniteSet(ready) /\ IsFiniteSet(prov)
         /\ Cardinality(ready) \in Nat /\ Cardinality(prov) \in Nat /\ Depth \in Nat
<1>1. IsFiniteSet(ready) /\ IsFiniteSet(prov)
  <2>1. IsFiniteSet(Instances) /\ IsFiniteSet(Ids)
    BY NoneAssumption, FS_AddElement DEF Ids
  <2> QED BY <2>1, FS_Subset DEF TInv, Maps
<1>2. Cardinality(ready) \in Nat /\ Cardinality(prov) \in Nat
  BY <1>1, FS_CardinalityType
<1> QED BY <1>1, <1>2 DEF Depth

\* A goroutine moves: the others stay where they are, and the mutex is held by
\* somebody if it is still locked.
LEMMA Moved ==
  ASSUME TInv, NEW g \in Goroutines, NEW l \in AllPCs, Fits(g, l), pc' = [pc EXCEPT ![g] = l],
         UNCHANGED wpm, up', cfg' \in [Goroutines -> 1 .. Len(wpm) + 1],
         \A h \in Goroutines : h # g => cfg'[h] = cfg[h],
         g = "main" /\ l = "create" => cfg'[g] <= Len(wpm),
         g = "depth" /\ l # "idle" => cfg'[g] <= Len(wpm),
         locked' => Holds(g)' \/ (locked /\ ~Holds(g))
  PROVE  /\ Places' /\ MutexHeld' /\ pc'[g] = l
         /\ \A h \in Goroutines : h # g => pc'[h] = pc[h]
<1>1. pc'[g] = l /\ \A h \in Goroutines : h # g => pc'[h] = pc[h]
  BY DEF TInv, Places
<1>2. Places'
  <2>1. pc' \in [Goroutines -> AllPCs]
    BY DEF TInv, Places
  <2>2. \A h \in Goroutines : Fits(h, pc'[h])
    BY <1>1 DEF TInv, Places
  <2>3. (pc'["main"] = "create" => cfg'["main"] <= Len(wpm)) /\ (pc'["depth"] # "idle" => cfg'["depth"] <= Len(wpm))
    BY <1>1, Names DEF TInv, Places
  <2> QED BY <2>1, <2>2, <2>3 DEF Places, Fits
<1>3. MutexHeld'
  <2> SUFFICES ASSUME locked' PROVE \E h \in Goroutines : Holds(h)'
    BY DEF MutexHeld
  <2>1. CASE Holds(g)'
    BY <2>1
  <2>2. CASE locked /\ ~Holds(g)
    <3>1. PICK h \in Goroutines : Holds(h)
      BY <2>2 DEF TInv, MutexHeld
    <3>2. h # g
      BY <2>2, <3>1
    <3>3. Holds(h)'
      BY <1>1, <3>1, <3>2 DEF Holds
    <3> QED BY <3>3
  <2> QED BY <2>1, <2>2
<1> QED BY <1>1, <1>2, <1>3

\* A goroutine that is at work keeps the process up.
LEMMA Running == ASSUME TInv, NEW g \in Goroutines, pc[g] # "idle" PROVE up
  BY DEF TInv, Places, Quiet

\* The bits that a move or a failed call leaves Boolean.
LEMMA Bits ==
  ASSUME TInv
  PROVE  /\ \A g \in Goroutines, l \in AllPCs : Goto(g, l) => calm' \in BOOLEAN
         /\ \A k \in FaultKinds : Fault(k) => faulty' \in BOOLEAN /\ failures' \in 0 .. MaxFaults
         /\ UNCHANGED failVars => faulty' \in BOOLEAN /\ failures' \in 0 .. MaxFaults
<1>1. ASSUME NEW g \in Goroutines, NEW l \in AllPCs, Goto(g, l) PROVE calm' \in BOOLEAN
  BY <1>1 DEF Goto
<1>2. ASSUME NEW k \in FaultKinds, Fault(k) PROVE faulty' \in BOOLEAN /\ failures' \in 0 .. MaxFaults
  BY <1>2, BoundsAssumption DEF Fault, TInv, Flags
<1>3. UNCHANGED failVars => faulty' \in BOOLEAN /\ failures' \in 0 .. MaxFaults
  BY DEF TInv, Flags, failVars
<1> QED BY <1>1, <1>2, <1>3

\* What dies with the process cannot contradict what is in EC2.
LEMMA DieType ==
  ASSUME TInv, Die, UNCHANGED ec2Vars,
         crashes' \in 0 .. MaxCrashes, failures' \in 0 .. MaxFaults, faulty' \in BOOLEAN
  PROVE  TInv'
<1> USE DEF Die, ec2Vars
<1>1. Flags'
  BY DEF TInv, Flags
<1>2. Maps' /\ Ec2'
  BY DEF TInv, Maps, Ec2
<1>3. Locals'
  BY ConfigType, Names DEF Locals, Ids
<1>4. Places'
  BY Names DEF Places, Quiet, Fits, AllPCs
<1>5. Traces' /\ MutexHeld'
  BY Names DEF TInv, Traces, MutexHeld
<1> QED BY <1>1, <1>2, <1>3, <1>4, <1>5 DEF TInv

\* Before the process starts there is nothing.
LEMMA TInvInit == Init => TInv
<1> SUFFICES ASSUME Init PROVE TInv
  OBVIOUS
<1> USE DEF Init
<1>1. Flags
  <2>1. up \in BOOLEAN /\ locked \in BOOLEAN /\ calm \in BOOLEAN /\ faulty \in BOOLEAN
    OBVIOUS
  <2> QED BY <2>1, BoundsAssumption DEF Flags
<1>2. Maps /\ Ec2
  BY DEF Maps, Ec2, Ids, TagValues
<1>3. Locals
  <2>1. 1 \in 1 .. Len(wpm) + 1
    BY ConfigAssumption
  <2> QED BY <2>1, Names DEF Locals, Ids
<1>4. Places /\ Traces /\ MutexHeld
  BY Names DEF Places, Traces, MutexHeld, Quiet, Fits, AllPCs
<1> QED BY <1>1, <1>2, <1>3, <1>4 DEF TInv

-----------------------------------------------------------------------------
(* checkEC2TagsForState *)

\* A goroutine that moves without touching what only it keeps.
LEMMA MoveType ==
  ASSUME TInv, NEW g \in Goroutines, NEW l \in AllPCs, Fits(g, l), pc' = [pc EXCEPT ![g] = l],
         UNCHANGED <<wpm, seen, batch, got, has, ec2Vars>>,
         up', up' \in BOOLEAN, locked' \in BOOLEAN, calm' \in BOOLEAN, faulty' \in BOOLEAN,
         crashes' \in 0 .. MaxCrashes, failures' \in 0 .. MaxFaults,
         pods' \in 0 .. MaxPods, overlaps' \in 0 .. MaxOverlaps,
         ready' \subseteq Instances, prov' \subseteq Ids,
         cfg' \in [Goroutines -> 1 .. Len(wpm) + 1], todo' \in [Goroutines -> Int],
         \A h \in Goroutines : h # g => cfg'[h] = cfg[h],
         g = "main" /\ l = "create" => cfg'[g] <= Len(wpm),
         g = "depth" /\ l # "idle" => cfg'[g] <= Len(wpm),
         locked' => Holds(g)' \/ (locked /\ ~Holds(g)),
         seen[g] = {}, g = "depth" => batch = {},
         g \in Workers => pc[g] \notin {"tagpod", "launch"} /\ l \notin {"tagpod", "launch"},
         g \in Workers => l = "idle" \/ has[g] = None
  PROVE  TInv'
<1> USE DEF ec2Vars
<1>1. /\ Places' /\ MutexHeld' /\ pc'[g] = l
      /\ \A h \in Goroutines : h # g => pc'[h] = pc[h]
  BY Moved
<1>2. Flags' /\ Maps' /\ Ec2'
  BY DEF TInv, Flags, Maps, Ec2
<1>3. Locals'
  BY <1>1, Names DEF TInv, Locals
<1>4. Traces'
  BY <1>1, Names DEF TInv, Traces
<1> QED BY <1>1, <1>2, <1>3, <1>4 DEF TInv

\* VKState is replaced and its new mutex is locked.
LEMMA ResetType ==
  ASSUME TInv, NEW g \in Goroutines, ResetState(g) \/ LockState(g)
  PROVE  TInv'
<1>1. PICK l \in {"lock", "describe"} : pc' = [pc EXCEPT ![g] = l] /\ (l = "lock" <=> ResetState(g))
  BY DEF ResetState, LockState, Goto, TInv, Places
<1>2. /\ pc[g] \in {"reset", "lock"} /\ g # "depth"
      /\ UNCHANGED <<wpm, up, crashes, failures, pods, overlaps, seen, cfg, todo, batch, got, has, ec2Vars>>
  BY Names DEF ResetState, LockState, TInv, Places, Fits, cntVars, failVars
<1>3. ready' \subseteq ready /\ prov' \subseteq prov
  BY DEF ResetState, LockState
<1>4. locked' \in BOOLEAN /\ (locked' => l = "describe")
  BY <1>1 DEF ResetState, LockState, Lock
<1>5. calm' \in BOOLEAN /\ faulty' \in BOOLEAN
  <2>1. CASE ResetState(g)
    BY <2>1 DEF ResetState, Alone
  <2>2. CASE LockState(g)
    BY <2>2 DEF LockState, Goto, cntVars, failVars, TInv, Flags
  <2> QED BY <2>1, <2>2
<1>6. pc'[g] = l /\ up
  BY <1>1, <1>2, Running DEF TInv, Places
<1>7. Fits(g, l) /\ l \in AllPCs /\ seen[g] = {} /\ (locked' => Holds(g)')
  BY <1>2, <1>4, <1>6, Names DEF Fits, AllPCs, RefreshPCs, TInv, Traces, Holds
<1>8. g \in Workers => has[g] = None
  BY <1>2 DEF TInv, Traces
<1>9. /\ up' /\ up' \in BOOLEAN /\ crashes' \in 0 .. MaxCrashes /\ failures' \in 0 .. MaxFaults
      /\ pods' \in 0 .. MaxPods /\ overlaps' \in 0 .. MaxOverlaps
      /\ ready' \subseteq Instances /\ prov' \subseteq Ids
      /\ cfg' \in [Goroutines -> 1 .. Len(wpm) + 1] /\ todo' \in [Goroutines -> Int]
  BY <1>2, <1>3, <1>6 DEF TInv, Flags, Maps, Locals
<1> QED BY <1>1, <1>2, <1>4, <1>5, <1>7, <1>8, <1>9, Names, MoveType DEF Fits

\* What EC2 says goes into the maps.
LEMMA DescribeType ==
  ASSUME TInv, NEW g \in Goroutines, DescribeInstances(g)
  PROVE  TInv'
<1>1. /\ pc[g] = "describe" /\ pc' = [pc EXCEPT ![g] = "tagready"]
      /\ ready' \subseteq ready \cup Instances /\ prov' \subseteq prov \cup Instances
      /\ seen' = [seen EXCEPT ![g] = {i \in Instances : inst[i] = "running" /\ tag[i] = "PendingWarmpool"}]
      /\ UNCHANGED <<wpm, up, cntVars, locked, cfg, todo, batch, got, has, ec2Vars>>
  BY DEF DescribeInstances, Goto
<1>2. calm' \in BOOLEAN
  BY DEF DescribeInstances, Goto
<1>3. g # "depth" /\ up /\ pc'[g] = "tagready" /\ Fits(g, "tagready") /\ "tagready" \in AllPCs
  BY <1>1, Running, Names DEF TInv, Places, Fits, AllPCs, RefreshPCs
<1>4. /\ Places' /\ MutexHeld' /\ \A h \in Goroutines : h # g => pc'[h] = pc[h]
  <2>1. cfg' \in [Goroutines -> 1 .. Len(wpm) + 1] /\ up' /\ Holds(g)'
    BY <1>1, <1>3 DEF TInv, Locals, Holds
  <2> QED BY <1>1, <1>3, <2>1, Moved
<1> USE DEF cntVars, failVars, ec2Vars
<1>5. Flags' /\ Ec2'
  BY <1>1, <1>2 DEF TInv, Flags, Ec2
<1>6. Maps'
  BY <1>1 DEF TInv, Maps, Ids
<1>7. Locals'
  BY <1>1, <1>3, <1>4, Names DEF TInv, Locals
<1>8. Traces'
  <2>1. \A h \in Goroutines : h # g => seen'[h] = seen[h]
    BY <1>1 DEF TInv, Maps
  <2> QED BY <1>1, <1>3, <1>4, <2>1, Names DEF TInv, Traces
<1> QED BY <1>4, <1>5, <1>6, <1>7, <1>8 DEF TInv

\* Where a refresh leads to.
LEMMA AfterRefreshType ==
  ASSUME NEW g \in Goroutines
  PROVE  /\ AfterRefresh(g) \in {"fill", "idle", "take"}
         /\ g = "main" => AfterRefresh(g) = "fill"
         /\ g = "refresh" => AfterRefresh(g) = "idle"
         /\ g \in Workers => AfterRefresh(g) = "take"
  BY Names DEF AfterRefresh

\* Unlocking: the process goes on, or it dies because the mutex was replaced
\* by one that nobody has locked.
LEMMA UnlockType ==
  ASSUME TInv, NEW g \in Goroutines, NEW l \in AllPCs, Fits(g, l), UnlockAndGoto(g, l),
         pc[g] # "idle", seen[g] = {}, g = "depth" => batch = {} /\ cfg[g] <= Len(wpm),
         ~(g = "main" /\ l = "create"),
         g \in Workers => pc[g] \notin {"tagpod", "launch"} /\ l \notin {"tagpod", "launch"},
         failures' \in 0 .. MaxFaults, faulty' \in BOOLEAN, UNCHANGED ec2Vars
  PROVE  TInv'
<1>1. CASE locked
  <2>1. /\ locked' = FALSE /\ Goto(g, l)
        /\ UNCHANGED <<wpm, up, crashes, pods, overlaps, ready, prov, seen, cfg, todo, batch, got, has>>
    BY <1>1 DEF UnlockAndGoto
  <2>2. calm' \in BOOLEAN /\ pc' = [pc EXCEPT ![g] = l] /\ up
    BY <2>1, Running DEF Goto
  <2>3. /\ up' /\ up' \in BOOLEAN /\ crashes' \in 0 .. MaxCrashes
        /\ pods' \in 0 .. MaxPods /\ overlaps' \in 0 .. MaxOverlaps
        /\ ready' \subseteq Instances /\ prov' \subseteq Ids
        /\ cfg' \in [Goroutines -> 1 .. Len(wpm) + 1] /\ todo' \in [Goroutines -> Int]
    BY <2>1, <2>2 DEF TInv, Flags, Maps, Locals
  <2>4. g \in Workers => has[g] = None
    BY DEF TInv, Traces
  <2> QED BY <2>1, <2>2, <2>3, <2>4, MoveType
<1>2. CASE ~locked
  <2>1. Die /\ UNCHANGED crashes
    BY <1>2 DEF UnlockAndGoto
  <2>2. crashes' \in 0 .. MaxCrashes
    BY <2>1 DEF TInv, Flags
  <2> QED BY <2>1, <2>2, DieType
<1> QED BY <1>1, <1>2

\* The refresh ends, with or without what EC2 said.
LEMMA EndType ==
  ASSUME TInv, NEW g \in Goroutines, DescribeError(g) \/ EndRefresh(g)
  PROVE  TInv'
<1>1. /\ pc[g] \in {"describe", "tagready"} /\ seen[g] = {} /\ g # "depth"
      /\ UnlockAndGoto(g, AfterRefresh(g)) /\ UNCHANGED ec2Vars
  BY Names DEF DescribeError, EndRefresh, TInv, Traces, Places, Fits
<1>2. failures' \in 0 .. MaxFaults /\ faulty' \in BOOLEAN
  BY Bits DEF DescribeError, EndRefresh, FaultKinds
<1>3. PICK l \in AllPCs : l = AfterRefresh(g) /\ Fits(g, l) /\ l \notin {"create", "tagpod", "launch"}
  BY AfterRefreshType, <1>1, Names DEF AllPCs, Fits
<1> QED BY <1>1, <1>2, <1>3, UnlockType

\* An instance that has come up moves into the map of the ready ones.
LEMMA TagReadyType ==
  ASSUME TInv, NEW g \in Goroutines, TagReady(g)
  PROVE  TInv'
<1>1. PICK i \in seen[g] :
        /\ seen' = [seen EXCEPT ![g] = @ \ {i}]
        /\ \/ tag' = [tag EXCEPT ![i] = "Ready"] /\ ready' = ready \cup {i} /\ UNCHANGED failVars
           \/ Fault("ready") /\ UNCHANGED <<tag, ready>>
  BY DEF TagReady, UpdateEC2Tags, PopulateEC2Tags
<1>2. /\ pc[g] = "tagready"
      /\ UNCHANGED <<wpm, up, crashes, pods, overlaps, locked, prov, pc, calm, cfg, todo, batch, got, has, inst>>
  BY DEF TagReady
<1>3. i \in Instances
  BY DEF TInv, Maps
<1>4. failures' \in 0 .. MaxFaults /\ faulty' \in BOOLEAN
  BY <1>1, Bits DEF FaultKinds
<1>5. Flags' /\ Maps' /\ Ec2'
  BY <1>1, <1>2, <1>3, <1>4 DEF TInv, Flags, Maps, Ec2, TagValues
<1>6. Locals' /\ Places' /\ MutexHeld'
  BY <1>2 DEF TInv, Locals, Places, MutexHeld, Holds, Quiet
<1>7. Traces'
  <2>1. \A h \in Goroutines : h # g => seen'[h] = seen[h]
    BY <1>1 DEF TInv, Maps
  <2> QED BY <1>2, <2>1 DEF TInv, Traces
<1> QED BY <1>5, <1>6, <1>7 DEF TInv

-----------------------------------------------------------------------------
(* Beginning an operation *)

\* The tickers, the controller and the start of the process begin operations.
LEMMA BeginType ==
  ASSUME TInv, RefreshTick \/ DepthTick \/ Start \/ \E w \in Workers : CreatePod(w)
  PROVE  TInv'
<1> USE DEF cntVars, failVars
<1>1. PICK g \in Goroutines, l \in {"reset", "check"} :
        /\ Goto(g, l) /\ (l = "check" <=> g = "depth")
        /\ pc[g] = "idle" /\ up' = TRUE
        /\ g \in Workers => has[g] = None
        /\ overlaps' \in 0 .. MaxOverlaps /\ pods' \in 0 .. MaxPods
        /\ g = "depth" => cfg' = [cfg EXCEPT !["depth"] = 1]
        /\ g # "depth" => UNCHANGED cfg
        /\ UNCHANGED <<wpm, crashes, failures, faulty, poolVars, seen, todo, batch, got, has, ec2Vars>>
  <2>1. ASSUME NEW g \in Goroutines, NEW l, Begin(g, l)
        PROVE  up = TRUE /\ pc[g] = "idle" /\ Goto(g, l) /\ overlaps' \in 0 .. MaxOverlaps
    BY <2>1, BoundsAssumption DEF Begin, TInv, Flags
  <2>2. CASE RefreshTick
    BY <2>1, <2>2, Names DEF RefreshTick, TInv, Flags
  <2>3. CASE DepthTick
    BY <2>1, <2>3, Names DEF DepthTick, TInv, Flags
  <2>4. CASE Start
    BY <2>4, Names DEF Start, TInv, Flags, Places, Quiet
  <2>5. ASSUME NEW w \in Workers, CreatePod(w)
        PROVE  /\ Goto(w, "reset") /\ w \in Goroutines /\ w # "depth" /\ pc[w] = "idle" /\ up' = TRUE
               /\ has[w] = None /\ overlaps' \in 0 .. MaxOverlaps /\ pods' \in 0 .. MaxPods
               /\ UNCHANGED <<cfg, wpm, crashes, failures, faulty, poolVars, seen, todo, batch, got, has, ec2Vars>>
    <3>1. w \in Goroutines /\ w # "depth"
      BY Names
    <3>2. up = TRUE /\ pc[w] = "idle" /\ Goto(w, "reset") /\ overlaps' \in 0 .. MaxOverlaps
      BY <2>1, <2>5, <3>1 DEF CreatePod
    <3>3. pods' \in 0 .. MaxPods
      BY <2>5, BoundsAssumption DEF CreatePod, TInv, Flags
    <3> QED BY <2>5, <3>1, <3>2, <3>3 DEF CreatePod
  <2> QED BY <2>2, <2>3, <2>4, <2>5
<1>2. l \in AllPCs /\ Fits(g, l) /\ pc' = [pc EXCEPT ![g] = l] /\ calm' \in BOOLEAN
  BY <1>1, Names DEF AllPCs, RefreshPCs, Fits, Goto
<1>3. seen[g] = {} /\ (g = "depth" => batch = {}) /\ ~Holds(g)
  BY <1>1 DEF TInv, Traces, Holds
<1>4. /\ up' \in BOOLEAN /\ locked' \in BOOLEAN /\ faulty' \in BOOLEAN
      /\ crashes' \in 0 .. MaxCrashes /\ failures' \in 0 .. MaxFaults
      /\ ready' \subseteq Instances /\ prov' \subseteq Ids /\ todo' \in [Goroutines -> Int]
      /\ locked' => locked
  BY <1>1 DEF TInv, Flags, Maps, Locals, poolVars
<1>5. /\ cfg' \in [Goroutines -> 1 .. Len(wpm) + 1]
      /\ \A h \in Goroutines : h # g => cfg'[h] = cfg[h]
      /\ g = "depth" => cfg'[g] <= Len(wpm)
  BY <1>1, ConfigType DEF TInv, Locals
<1> QED BY <1>1, <1>2, <1>3, <1>4, <1>5, MoveType

-----------------------------------------------------------------------------
(* Filling the pool *)

\* A new instance changes the types of nothing.
LEMMA CreateType ==
  ASSUME TInv, NEW g \in {"main", "depth"}, pc[g] = "create", CreateWarmEC2(g),
         todo' \in [Goroutines -> Int],
         UNCHANGED <<wpm, up, cntVars, locked, ready, pc, calm, seen, cfg, batch, got, has>>
  PROVE  TInv'
<1> USE DEF cntVars, failVars
<1>1. CASE prov' = prov \cup {None} /\ UNCHANGED ec2Vars
  <2> USE <1>1 DEF ec2Vars
  <2>1. Flags' /\ Maps' /\ Locals' /\ Ec2'
    BY DEF TInv, Flags, Maps, Locals, Ec2, Ids
  <2>2. Places' /\ Traces' /\ MutexHeld'
    BY DEF TInv, Places, Quiet, Traces, MutexHeld, Holds
  <2> QED BY <2>1, <2>2 DEF TInv
<1>2. ASSUME NEW i \in Instances, RunInstance(i), prov' = prov \cup {i} PROVE TInv'
  <2>1. /\ inst[i] = "absent" /\ inst' = [inst EXCEPT ![i] = "pending"]
        /\ tag' = [tag EXCEPT ![i] = "PendingWarmpool"]
    BY <1>2 DEF RunInstance, UpdateEC2Tags, PopulateEC2Tags
  <2>2. Flags' /\ Maps' /\ Locals'
    BY <1>2 DEF TInv, Flags, Maps, Locals, Ids
  <2>3. Ec2'
    BY <2>1 DEF TInv, Ec2, TagValues
  <2>4. Places' /\ MutexHeld'
    BY DEF TInv, Places, Quiet, MutexHeld, Holds
  <2>5. Traces'
    <3>1. \A w \in Workers : has[w] # None => has[w] \in Instances /\ has[w] # i
      BY <2>1 DEF TInv, Ec2, Ids, Traces
    <3>2. \A j \in Instances : j # i => inst'[j] = inst[j]
      BY <2>1 DEF TInv, Ec2
    <3> QED BY <3>1, <3>2 DEF TInv, Traces
  <2> QED BY <2>2, <2>3, <2>4, <2>5 DEF TInv
<1> QED BY <1>1, <1>2 DEF CreateWarmEC2

\* The errors of createWarmEC2 are failures, or there is no capacity.
LEMMA ErrorType ==
  ASSUME TInv, NEW g, CreateWarmError(g)
  PROVE  failures' \in 0 .. MaxFaults /\ faulty' \in BOOLEAN
  BY Bits DEF CreateWarmError, RunError, UserDataError, FaultKinds

\* The start-up.
LEMMA InitialType ==
  ASSUME TInv, InitialCount \/ InitialCreate
  PROVE  TInv'
<1> USE Names
<1>1. ASSUME NEW l \in {"idle", "create", "fill"}, pc["main"] \in {"fill", "create"},
             Goto("main", l), todo' \in [Goroutines -> Int],
             cfg' \in [Goroutines -> 1 .. Len(wpm) + 1],
             \A h \in Goroutines : h # "main" => cfg'[h] = cfg[h],
             l = "create" => cfg'["main"] <= Len(wpm),
             UNCHANGED <<wpm, up, cntVars, poolVars, seen, batch, got, has, ec2Vars>>
      PROVE  TInv'
  <2>1. /\ l \in AllPCs /\ Fits("main", l) /\ pc' = [pc EXCEPT !["main"] = l]
        /\ calm' \in BOOLEAN /\ up
    BY <1>1, Running DEF AllPCs, RefreshPCs, Fits, Goto
  <2>2. /\ up' /\ up' \in BOOLEAN /\ locked' \in BOOLEAN /\ faulty' \in BOOLEAN
        /\ crashes' \in 0 .. MaxCrashes /\ failures' \in 0 .. MaxFaults
        /\ pods' \in 0 .. MaxPods /\ overlaps' \in 0 .. MaxOverlaps
        /\ ready' \subseteq Instances /\ prov' \subseteq Ids
    BY <1>1, <2>1 DEF TInv, Flags, Maps, cntVars, failVars, poolVars
  <2>3. seen["main"] = {} /\ ~Holds("main") /\ (locked' => locked)
    BY <1>1 DEF TInv, Traces, Holds, poolVars
  <2> QED BY <1>1, <2>1, <2>2, <2>3, MoveType
<1>2. Depth \in Int /\ \A k \in 1 .. Len(wpm) : wpm[k].desired \in Int
  BY DepthType, ConfigType
<1>3. cfg \in [Goroutines -> 1 .. Len(wpm) + 1] /\ todo \in [Goroutines -> Int] /\ Len(wpm) \in Nat
  BY ConfigType DEF TInv, Locals
<1>4. CASE InitialCount
  <2>1. CASE cfg["main"] > Len(wpm)
    <3>1. /\ pc["main"] = "fill" /\ Goto("main", "idle")
          /\ UNCHANGED <<wpm, up, cntVars, poolVars, seen, todo, cfg, batch, got, has, ec2Vars>>
      BY <1>4, <2>1 DEF InitialCount
    <3> QED BY <1>1, <1>3, <3>1
  <2>2. CASE ~(cfg["main"] > Len(wpm))
    <3>1. /\ pc["main"] = "fill" /\ Goto("main", "create")
          /\ todo' = [todo EXCEPT !["main"] = wpm[cfg["main"]].desired - Depth]
          /\ UNCHANGED <<wpm, up, cntVars, poolVars, seen, cfg, batch, got, has, ec2Vars>>
      BY <1>4, <2>2 DEF InitialCount
    <3>2. cfg["main"] \in 1 .. Len(wpm) /\ cfg["main"] <= Len(wpm)
      BY <1>3, <2>2
    <3>3. wpm[cfg["main"]].desired - Depth \in Int
      BY <1>2, <3>2
    <3> QED BY <1>1, <1>3, <3>1, <3>2, <3>3
  <2> QED BY <2>1, <2>2
<1>5. CASE InitialCreate
  <2>1. CASE /\ CreateWarmEC2("main") /\ todo' = [todo EXCEPT !["main"] = @ - 1]
             /\ UNCHANGED <<wpm, up, cntVars, locked, ready, pc, calm, seen, cfg, batch, got, has>>
    <3>1. todo' \in [Goroutines -> Int]
      BY <1>3, <2>1
    <3> QED BY <1>5, <2>1, <3>1, CreateType DEF InitialCreate
  <2>2. CASE CreateWarmError("main") /\ Die /\ UNCHANGED <<crashes, ec2Vars>>
    <3>1. crashes' \in 0 .. MaxCrashes
      BY <2>2 DEF TInv, Flags
    <3> QED BY <2>2, <3>1, ErrorType, DieType
  <2>3. CASE /\ cfg' = [cfg EXCEPT !["main"] = @ + 1] /\ Goto("main", "fill")
             /\ UNCHANGED <<wpm, up, cntVars, poolVars, seen, todo, batch, got, has, ec2Vars>>
    <3>1. cfg["main"] <= Len(wpm) /\ pc["main"] = "create"
      BY <1>5 DEF InitialCreate, TInv, Places
    <3>2. cfg' \in [Goroutines -> 1 .. Len(wpm) + 1] /\ \A h \in Goroutines : h # "main" => cfg'[h] = cfg[h]
      BY <1>3, <2>3, <3>1
    <3> QED BY <1>1, <1>3, <2>3, <3>1, <3>2
  <2> QED BY <1>5, <2>1, <2>2, <2>3 DEF InitialCreate
<1> QED BY <1>4, <1>5

-----------------------------------------------------------------------------
(* CheckWarmPoolDepth *)

\* What is popped comes from the maps, and nothing is popped when there is
\* nothing in excess.
LEMMA ExcessFacts ==
  ASSUME TInv, NEW n \in Nat, NEW s \in Excess(n)
  PROVE  s \subseteq ready \cup prov /\ (n = 0 => s = {})
<1>1. /\ s \subseteq ready \cup prov
      /\ Cardinality(s \cap ready) + Cardinality(s \cap prov) = n
  BY DEF Excess
<1>2. IsFiniteSet(s \cap ready) /\ IsFiniteSet(s \cap prov)
  BY DepthType, FS_Intersection
<1>3. Cardinality(s \cap ready) \in Nat /\ Cardinality(s \cap prov) \in Nat
  BY <1>2, FS_CardinalityType
<1>4. n = 0 => Cardinality(s \cap ready) = 0 /\ Cardinality(s \cap prov) = 0
  BY <1>1, <1>3
<1>5. n = 0 => s \cap ready = {} /\ s \cap prov = {}
  BY <1>2, <1>4, FS_EmptySet
<1> QED BY <1>1, <1>5

\* What the depth check decides.
LEMMA CheckFacts ==
  ASSUME TInv, CheckWarmPoolDepth
  PROVE  /\ cfg["depth"] \in 1 .. Len(wpm) /\ pc["depth"] = "check" /\ locked' = TRUE
         /\ \E desired \in Nat, s \in SUBSET (ready \cup prov), l \in {"terminate", "create"} :
              /\ desired = wpm[cfg["depth"]].desired
              /\ batch' = s /\ ready' = ready \ s /\ prov' = prov \ s
              /\ l = "create" => s = {}
              /\ todo' = [todo EXCEPT !["depth"] = desired - Depth]
              /\ Goto("depth", l)
         /\ UNCHANGED <<wpm, up, cntVars, seen, cfg, got, has, ec2Vars>>
<1> USE Names
<1>1. cfg["depth"] \in 1 .. Len(wpm)
  BY ConfigType DEF CheckWarmPoolDepth, TInv, Places, Locals
<1>2. PICK desired : desired = wpm[cfg["depth"]].desired
  OBVIOUS
<1>3. desired \in Nat /\ Depth \in Nat
  BY <1>1, <1>2, DepthType, ConfigType
<1>4. PICK n : n = IF Depth > desired THEN Depth - desired ELSE 0
  OBVIOUS
<1>5. n \in Nat /\ (~(Depth > desired) => n = 0)
  BY <1>3, <1>4
<1>6. PICK s \in Excess(n) : batch' = s /\ ready' = ready \ s /\ prov' = prov \ s
  BY <1>2, <1>4 DEF CheckWarmPoolDepth
<1>7. s \in SUBSET (ready \cup prov) /\ (~(Depth > desired) => s = {})
  BY <1>5, <1>6, ExcessFacts
<1>8. PICK l \in {"terminate", "create"} :
        Goto("depth", l) /\ l = IF Depth > desired THEN "terminate" ELSE "create"
  BY <1>2 DEF CheckWarmPoolDepth
<1>9. l = "create" => s = {}
  BY <1>7, <1>8
<1>10. /\ pc["depth"] = "check" /\ locked' = TRUE
       /\ todo' = [todo EXCEPT !["depth"] = desired - Depth]
       /\ UNCHANGED <<wpm, up, cntVars, seen, cfg, got, has, ec2Vars>>
  BY <1>2 DEF CheckWarmPoolDepth, Lock
<1> QED BY <1>1, <1>2, <1>3, <1>6, <1>7, <1>8, <1>9, <1>10

\* The depth check pops what is too much while it holds the mutex.
LEMMA CheckType ==
  ASSUME TInv, CheckWarmPoolDepth
  PROVE  TInv'
<1> USE Names DEF cntVars, failVars, ec2Vars
<1>1. PICK desired \in Nat, s \in SUBSET (ready \cup prov), l \in {"terminate", "create"} :
        /\ batch' = s /\ ready' = ready \ s /\ prov' = prov \ s
        /\ l = "create" => s = {}
        /\ todo' = [todo EXCEPT !["depth"] = desired - Depth]
        /\ Goto("depth", l)
  BY CheckFacts
<1>2. /\ cfg["depth"] \in 1 .. Len(wpm) /\ pc["depth"] = "check" /\ locked' = TRUE
      /\ UNCHANGED <<wpm, up, crashes, failures, faulty, pods, overlaps, seen, cfg, got, has, inst, tag>>
  BY CheckFacts
<1>3. /\ pc' = [pc EXCEPT !["depth"] = l] /\ calm' \in BOOLEAN /\ up
      /\ l \in AllPCs /\ Fits("depth", l)
  BY <1>1, <1>2, Running DEF Goto, AllPCs, Fits
<1>4. pc'["depth"] = l
  BY <1>3 DEF TInv, Places
<1>5. /\ Places' /\ MutexHeld' /\ \A h \in Goroutines : h # "depth" => pc'[h] = pc[h]
  <2>1. cfg' \in [Goroutines -> 1 .. Len(wpm) + 1] /\ cfg'["depth"] <= Len(wpm) /\ up' /\ Holds("depth")'
    BY <1>2, <1>3, <1>4, ConfigType DEF TInv, Locals, Holds
  <2> QED BY <1>2, <1>3, <2>1, Moved
<1>6. Flags' /\ Ec2'
  BY <1>2, <1>3 DEF TInv, Flags, Ec2
<1>7. Maps'
  BY <1>1, <1>2 DEF TInv, Maps, Ids
<1>8. Locals'
  <2>1. todo' \in [Goroutines -> Int]
    BY <1>1, DepthType DEF TInv, Locals
  <2> QED BY <1>2, <1>4, <1>5, <2>1 DEF TInv, Locals
<1>9. Traces'
  BY <1>1, <1>2, <1>4, <1>5 DEF TInv, Traces
<1> QED BY <1>5, <1>6, <1>7, <1>8, <1>9 DEF TInv

\* A missing instance is created, or not.
LEMMA MissingType ==
  ASSUME TInv, CreateMissing
  PROVE  TInv'
<1> USE Names DEF CreateMissing
<1>1. todo' \in [Goroutines -> Int]
  BY DEF TInv, Locals
<1>2. CASE CreateWarmEC2("depth") /\ UNCHANGED failVars
  BY <1>1, <1>2, CreateType DEF cntVars
<1>3. CASE CreateWarmError("depth") /\ UNCHANGED <<prov, ec2Vars>>
  <2>1. failures' \in 0 .. MaxFaults /\ faulty' \in BOOLEAN
    BY <1>3, ErrorType
  <2>2. Flags' /\ Maps' /\ Locals' /\ Ec2'
    BY <1>1, <1>3, <2>1 DEF TInv, Flags, Maps, Locals, Ec2, ec2Vars
  <2>3. Places' /\ MutexHeld' /\ Traces'
    BY <1>3 DEF TInv, Places, Quiet, MutexHeld, Holds, Traces, ec2Vars
  <2> QED BY <2>2, <2>3 DEF TInv
<1> QED BY <1>2, <1>3

\* What was popped is terminated, or forgotten.
LEMMA TerminateType ==
  ASSUME TInv, TerminateExcess
  PROVE  TInv'
<1> USE Names
<1>1. /\ pc["depth"] = "terminate" /\ Goto("depth", "create")
      /\ batch' = {} /\ todo' = [todo EXCEPT !["depth"] = 0]
      /\ \/ UNCHANGED inst
         \/ inst' = [i \in Instances |-> IF i \in batch THEN "terminated" ELSE inst[i]]
      /\ UNCHANGED <<wpm, up, crashes, pods, overlaps, locked, ready, prov, seen, cfg, got, has, tag>>
  BY DEF TerminateExcess, poolVars
<1>2. failures' \in 0 .. MaxFaults /\ faulty' \in BOOLEAN
  <2>1. CASE faulty' = TRUE /\ UNCHANGED failures
    BY <2>1 DEF TInv, Flags
  <2> QED BY <2>1, Bits DEF TerminateExcess, FaultKinds
<1>3. /\ pc' = [pc EXCEPT !["depth"] = "create"] /\ calm' \in BOOLEAN /\ up
      /\ "create" \in AllPCs /\ Fits("depth", "create")
  BY <1>1, Running DEF Goto, AllPCs, Fits
<1>4. pc'["depth"] = "create"
  BY <1>3 DEF TInv, Places
<1>5. /\ Places' /\ MutexHeld' /\ \A h \in Goroutines : h # "depth" => pc'[h] = pc[h]
  <2>1. cfg' \in [Goroutines -> 1 .. Len(wpm) + 1] /\ cfg'["depth"] <= Len(wpm) /\ up' /\ Holds("depth")'
    BY <1>1, <1>3, <1>4 DEF TInv, Locals, Places, Holds
  <2> QED BY <1>1, <1>3, <2>1, Moved
<1>6. Flags' /\ Maps' /\ Ec2'
  BY <1>1, <1>2, <1>3 DEF TInv, Flags, Maps, Ec2
<1>7. Locals'
  <2>1. todo' \in [Goroutines -> Int]
    BY <1>1 DEF TInv, Locals
  <2>2. \A w \in Workers : pc'[w] = pc[w]
    BY <1>5
  <2> QED BY <1>1, <2>1, <2>2 DEF TInv, Locals
<1>8. Traces'
  <2>1. \A w \in Workers : has[w] # None => has[w] \in Instances
    BY DEF TInv, Ec2, Ids
  <2>2. \A i \in Instances : inst'[i] = inst[i] \/ inst'[i] = "terminated"
    BY <1>1
  <2> QED BY <1>1, <1>4, <1>5, <2>1, <2>2 DEF TInv, Traces
<1> QED BY <1>5, <1>6, <1>7, <1>8 DEF TInv

\* The check of one configuration ends and the next one begins.
LEMMA DepthLoopType ==
  ASSUME TInv, DepthNext \/ DepthLoop
  PROVE  TInv'
<1> USE Names
<1>1. CASE DepthNext
  <2>1. /\ pc["depth"] = "create" /\ UnlockAndGoto("depth", "next") /\ UNCHANGED <<failVars, ec2Vars>>
        /\ seen["depth"] = {} /\ batch = {} /\ cfg["depth"] <= Len(wpm)
    BY <1>1 DEF DepthNext, TInv, Traces, Places
  <2>2. "next" \in AllPCs /\ Fits("depth", "next")
    BY DEF AllPCs, Fits
  <2> QED BY <2>1, <2>2, Bits, UnlockType
<1>2. CASE DepthLoop
  <2>1. PICK l \in {"check", "idle"} :
          Goto("depth", l) /\ l = IF cfg["depth"] < Len(wpm) THEN "check" ELSE "idle"
    BY <1>2 DEF DepthLoop
  <2>2. /\ pc["depth"] = "next" /\ cfg' = [cfg EXCEPT !["depth"] = @ + 1]
        /\ UNCHANGED <<wpm, up, crashes, failures, faulty, pods, overlaps, locked, ready, prov,
                       seen, todo, batch, got, has, ec2Vars>>
    BY <1>2 DEF DepthLoop, cntVars, failVars, poolVars
  <2>3. cfg["depth"] \in 1 .. Len(wpm) /\ Len(wpm) \in Nat /\ cfg \in [Goroutines -> 1 .. Len(wpm) + 1]
    BY <2>2, ConfigType DEF TInv, Places, Locals
  <2>4. /\ cfg' \in [Goroutines -> 1 .. Len(wpm) + 1]
        /\ \A h \in Goroutines : h # "depth" => cfg'[h] = cfg[h]
        /\ l # "idle" => cfg'["depth"] <= Len(wpm)
    <3>1. cfg["depth"] + 1 \in 1 .. Len(wpm) + 1
      BY <2>3
    <3>2. l # "idle" => cfg["depth"] + 1 <= Len(wpm)
      BY <2>1, <2>3
    <3> QED BY <2>2, <2>3, <3>1, <3>2
  <2>5. /\ l \in AllPCs /\ Fits("depth", l) /\ pc' = [pc EXCEPT !["depth"] = l]
        /\ calm' \in BOOLEAN /\ up
    BY <2>1, <2>2, Running DEF AllPCs, RefreshPCs, Fits, Goto
  <2>6. seen["depth"] = {} /\ batch = {} /\ ~Holds("depth")
    BY <2>2 DEF TInv, Traces, Holds
  <2>7. /\ up' /\ up' \in BOOLEAN /\ locked' \in BOOLEAN /\ faulty' \in BOOLEAN
        /\ crashes' \in 0 .. MaxCrashes /\ failures' \in 0 .. MaxFaults
        /\ pods' \in 0 .. MaxPods /\ overlaps' \in 0 .. MaxOverlaps
        /\ ready' \subseteq Instances /\ prov' \subseteq Ids /\ todo' \in [Goroutines -> Int]
        /\ locked' => locked
    BY <2>2, <2>5 DEF TInv, Flags, Maps, Locals
  <2> QED BY <2>2, <2>4, <2>5, <2>6, <2>7, MoveType
<1> QED BY <1>1, <1>2

-----------------------------------------------------------------------------
(* Pods *)

\* An instance leaves the map before its pod gets it.
LEMMA TakeType ==
  ASSUME TInv, NEW w \in Workers, TakeInstance(w)
  PROVE  TInv'
<1> USE Names
<1>1. PICK l \in {"tagpod", "idle"} :
        /\ pc[w] = "take" /\ Goto(w, l)
        /\ \/ /\ l = "tagpod"
              /\ \E i \in ready : ready' = ready \ {i} /\ got' = [got EXCEPT ![w] = i]
           \/ l = "idle" /\ UNCHANGED <<ready, got>>
        /\ UNCHANGED <<wpm, up, crashes, failures, faulty, pods, overlaps, locked, prov, seen, cfg, todo,
                       batch, has, inst, tag>>
  BY DEF TakeInstance, cntVars, failVars, ec2Vars
<1>2. /\ pc' = [pc EXCEPT ![w] = l] /\ calm' \in BOOLEAN /\ up /\ l \in AllPCs /\ Fits(w, l)
  BY <1>1, Running DEF Goto, AllPCs, Fits
<1>3. /\ Places' /\ MutexHeld' /\ pc'[w] = l /\ \A h \in Goroutines : h # w => pc'[h] = pc[h]
  <2>1. cfg' \in [Goroutines -> 1 .. Len(wpm) + 1] /\ up' /\ ~Holds(w)
    BY <1>1, <1>2 DEF TInv, Locals, Holds
  <2> QED BY <1>1, <1>2, <2>1, Moved
<1>4. /\ got' \in [Workers -> Ids] /\ ready' \subseteq ready
      /\ \A v \in Workers : v # w => got'[v] = got[v]
      /\ l = "tagpod" => got'[w] \in Instances
      /\ l = "idle" => got'[w] = None
  BY <1>1 DEF TInv, Locals, Maps, Ids
<1>5. Flags' /\ Maps' /\ Ec2'
  BY <1>1, <1>2, <1>4 DEF TInv, Flags, Maps, Ec2
<1>6. Locals'
  <2>1. \A v \in Workers : got'[v] # None <=> pc'[v] \in {"tagpod", "launch"}
    BY <1>1, <1>3, <1>4, NoneAssumption DEF TInv, Locals
  <2> QED BY <1>1, <1>4, <2>1 DEF TInv, Locals
<1>7. Traces'
  BY <1>1, <1>3 DEF TInv, Traces
<1> QED BY <1>3, <1>5, <1>6, <1>7 DEF TInv

\* What a worker that ends its operation, or goes on to launch its
\* application, leaves as it is.
LEMMA WorkerMoves ==
  ASSUME TInv, NEW w \in Workers, pc[w] \in {"tagpod", "launch"},
         NEW l \in {"launch", "idle"}, Goto(w, l),
         l = "launch" => UNCHANGED got,
         l = "idle" => got' = [got EXCEPT ![w] = None],
         UNCHANGED <<wpm, up, crashes, pods, overlaps, poolVars, seen, cfg, todo, batch>>,
         failures' \in 0 .. MaxFaults, faulty' \in BOOLEAN
  PROVE  /\ Flags' /\ Maps' /\ Locals' /\ Places' /\ MutexHeld'
         /\ pc'[w] = l /\ got[w] \in Instances /\ has[w] = None
         /\ \A h \in Goroutines : h # w => pc'[h] = pc[h]
<1> USE Names DEF poolVars
<1>1. /\ pc' = [pc EXCEPT ![w] = l] /\ calm' \in BOOLEAN /\ up /\ l \in AllPCs /\ Fits(w, l)
  BY Running DEF Goto, AllPCs, Fits
<1>2. /\ Places' /\ MutexHeld' /\ pc'[w] = l /\ \A h \in Goroutines : h # w => pc'[h] = pc[h]
  <2>1. cfg' \in [Goroutines -> 1 .. Len(wpm) + 1] /\ up' /\ ~Holds(w) /\ w # "main" /\ w # "depth"
    BY <1>1 DEF TInv, Locals, Holds
  <2> QED BY <1>1, <2>1, Moved
<1>3. Flags' /\ Maps'
  BY <1>1 DEF TInv, Flags, Maps
<1>4. got[w] \in Instances /\ has[w] = None
  BY DEF TInv, Locals, Ids, Traces
<1>5. Locals'
  <2>1. got' \in [Workers -> Ids] /\ \A v \in Workers : got'[v] # None <=> pc'[v] \in {"tagpod", "launch"}
    BY <1>2 DEF TInv, Locals, Ids
  <2> QED BY <2>1 DEF TInv, Locals
<1> QED BY <1>2, <1>3, <1>4, <1>5

\* The instance of a pod that is being created is tagged.
LEMMA TagPodType ==
  ASSUME TInv, NEW w \in Workers, TagPod(w)
  PROVE  TInv'
<1> USE Names
<1>1. failures' \in 0 .. MaxFaults /\ faulty' \in BOOLEAN
  BY Bits DEF TagPod, FaultKinds
<1>2. PICK l \in {"launch", "idle"} :
        /\ pc[w] = "tagpod" /\ Goto(w, l)
        /\ l = "launch" => UNCHANGED got /\ tag' = [tag EXCEPT ![got[w]] = "PendingPod"]
        /\ l = "idle" => got' = [got EXCEPT ![w] = None] /\ UNCHANGED tag
        /\ UNCHANGED <<wpm, up, crashes, pods, overlaps, poolVars, seen, cfg, todo, batch, has, inst>>
  BY DEF TagPod, UpdateEC2Tags, PopulateEC2Tags, Abandon
<1>3. /\ Flags' /\ Maps' /\ Locals' /\ Places' /\ MutexHeld'
      /\ pc'[w] = l /\ got[w] \in Instances
      /\ \A h \in Goroutines : h # w => pc'[h] = pc[h]
  BY <1>1, <1>2, WorkerMoves
<1>4. Ec2'
  BY <1>2, <1>3 DEF TInv, Ec2, TagValues
<1>5. Traces'
  BY <1>2, <1>3 DEF TInv, Traces
<1> QED BY <1>3, <1>4, <1>5 DEF TInv

\* The pod runs on an instance, or the instance is gone.
LEMMA LaunchType ==
  ASSUME TInv, NEW w \in Workers, LaunchPod(w)
  PROVE  TInv'
<1> USE Names
<1>1. failures' \in 0 .. MaxFaults /\ faulty' \in BOOLEAN
  BY Bits DEF LaunchPod, FaultKinds
<1>2. /\ pc[w] = "launch" /\ Goto(w, "idle") /\ got' = [got EXCEPT ![w] = None]
      /\ UNCHANGED <<wpm, up, crashes, pods, overlaps, poolVars, seen, cfg, todo, batch>>
  BY DEF LaunchPod, Abandon
<1>3. /\ Flags' /\ Maps' /\ Locals' /\ Places' /\ MutexHeld'
      /\ pc'[w] = "idle" /\ got[w] \in Instances
      /\ \A h \in Goroutines : h # w => pc'[h] = pc[h]
  BY <1>1, <1>2, WorkerMoves
<1>4. \/ /\ inst[got[w]] = "running" /\ has' = [has EXCEPT ![w] = got[w]] /\ UNCHANGED inst
         /\ tag' = [tag EXCEPT ![got[w]] = "InUse"] \/ UNCHANGED tag
      \/ inst' = [inst EXCEPT ![got[w]] = "terminated"] /\ UNCHANGED <<has, tag>>
  BY DEF LaunchPod, UpdateEC2Tags, PopulateEC2Tags
<1>5. Ec2'
  BY <1>3, <1>4 DEF TInv, Ec2, TagValues, Ids
<1>6. Traces'
  <2>1. \A v \in Workers : has[v] # None => has[v] \in Instances
    BY DEF TInv, Ec2, Ids
  <2>2. \A v \in Workers : has'[v] = has[v] \/ (v = w /\ has'[v] = got[w] /\ inst'[got[w]] = "running")
    BY <1>4 DEF TInv, Ec2
  <2>3. \A i \in Instances : inst'[i] = inst[i] \/ inst'[i] = "terminated"
    BY <1>4 DEF TInv, Ec2
  <2> QED BY <1>2, <1>3, <2>1, <2>2, <2>3 DEF TInv, Traces
<1> QED BY <1>3, <1>5, <1>6 DEF TInv

\* The pod's instance is terminated with it.
LEMMA DeleteType ==
  ASSUME TInv, NEW w \in Workers, DeletePod(w)
  PROVE  TInv'
<1> USE Names DEF cntVars, failVars, poolVars
<1>1. /\ has[w] # None /\ inst' = [inst EXCEPT ![has[w]] = "terminated"]
      /\ has' = [has EXCEPT ![w] = None] /\ calm' \in BOOLEAN
      /\ UNCHANGED <<wpm, up, cntVars, poolVars, pc, seen, cfg, todo, batch, got, tag>>
  BY DEF DeletePod
<1>2. has[w] \in Instances /\ has' \in [Workers -> Ids]
  BY <1>1 DEF TInv, Ec2, Ids
<1>3. Flags' /\ Maps' /\ Locals'
  BY <1>1 DEF TInv, Flags, Maps, Locals
<1>4. Ec2'
  BY <1>1, <1>2 DEF TInv, Ec2
<1>5. Places' /\ MutexHeld'
  BY <1>1 DEF TInv, Places, Quiet, MutexHeld, Holds
<1>6. Traces'
  <2>1. \A v \in Workers : has'[v] = has[v] \/ has'[v] = None
    BY <1>1 DEF TInv, Ec2
  <2>2. \A v \in Workers : has[v] # None => has[v] \in Instances
    BY DEF TInv, Ec2, Ids
  <2>3. \A i \in Instances : inst'[i] = inst[i] \/ inst'[i] = "terminated"
    BY <1>1, <1>2 DEF TInv, Ec2
  <2> QED BY <1>1, <2>1, <2>2, <2>3 DEF TInv, Traces
<1> QED BY <1>3, <1>4, <1>5, <1>6 DEF TInv

\* An instance that comes up stays what it is.
LEMMA BootType ==
  ASSUME TInv, NEW i \in Instances, Boot(i)
  PROVE  TInv'
<1> USE DEF cntVars, failVars, poolVars, goVars
<1>1. /\ inst[i] = "pending" /\ inst' = [inst EXCEPT ![i] = "running"]
      /\ UNCHANGED <<wpm, up, cntVars, poolVars, goVars, has, tag>>
  BY DEF Boot
<1>2. Flags' /\ Maps' /\ Locals'
  BY <1>1 DEF TInv, Flags, Maps, Locals
<1>3. Ec2'
  BY <1>1 DEF TInv, Ec2
<1>4. Places' /\ MutexHeld'
  BY <1>1 DEF TInv, Places, Quiet, MutexHeld, Holds
<1>5. Traces'
  BY <1>1 DEF TInv, Traces, Ec2, Ids
<1> QED BY <1>2, <1>3, <1>4, <1>5 DEF TInv

\* TInv is inductive.
LEMMA TInvStep ==
  ASSUME TInv, [Next]_vars
  PROVE  TInv'
<1> USE Names
<1>1. ASSUME NEW g \in Goroutines, Refresh(g) PROVE TInv'
  BY <1>1, ResetType, DescribeType, EndType, TagReadyType DEF Refresh
<1>2. CASE Main
  BY <1>1, <1>2, BeginType, InitialType DEF Main
<1>3. CASE DepthStep
  BY <1>3, CheckType, MissingType, TerminateType, DepthLoopType DEF DepthStep
<1>4. ASSUME NEW w \in Workers, Worker(w) PROVE TInv'
  BY <1>1, <1>4, TakeType, TagPodType, LaunchType DEF Worker
<1>5. CASE Crash
  <2>1. crashes' \in 0 .. MaxCrashes /\ failures' \in 0 .. MaxFaults /\ faulty' \in BOOLEAN
    BY <1>5, BoundsAssumption DEF Crash, TInv, Flags, failVars
  <2> QED BY <1>5, <2>1, DieType DEF Crash
<1>6. CASE UNCHANGED vars
  <2> USE <1>6 DEF vars, cntVars, failVars, poolVars, goVars, ec2Vars
  <2>1. Flags' /\ Maps' /\ Locals' /\ Ec2'
    BY DEF TInv, Flags, Maps, Locals, Ec2
  <2>2. Places' /\ MutexHeld' /\ Traces'
    BY DEF TInv, Places, Quiet, MutexHeld, Holds, Traces
  <2> QED BY <2>1, <2>2 DEF TInv
<1> QED
  BY <1>1, <1>2, <1>3, <1>4, <1>5, <1>6, BeginType, DeleteType, BootType DEF Next

-----------------------------------------------------------------------------
(* Theorems for every interleaving *)

\* TInv holds in every reachable state.
THEOREM TInvHolds == Spec => []TInv
<1>1. TInv /\ [Next]_vars => TInv'
  BY TInvStep
<1> QED BY <1>1, TInvInit, PTL DEF Spec

\* Types, for any number of goroutines, crashes, failures and overlaps.
THEOREM TypeCorrect == Spec => []TypeOK
<1>1. TInv => TypeOK
  BY DEF TInv, Flags, Maps, Locals, Ec2, TypeOK
<1> QED BY <1>1, TInvHolds, PTL

\* However many refreshes have replaced the mutex while others held it, it is
\* free when nobody is at work.
THEOREM MutexReleased == Spec => []MutexFree
<1>1. TInv => MutexFree
  BY DEF TInv, MutexHeld, Holds, Quiet, MutexFree
<1> QED BY <1>1, TInvHolds, PTL

-----------------------------------------------------------------------------
(* What a refresh that runs alone restores *)

\* One goroutine is at work at a time.
Solo == \A g, h \in Goroutines : pc[g] # "idle" /\ pc[h] # "idle" => g = h

\* The tags of the instances in the maps, among those to be terminated, among
\* those that a refresh has seen, and of those that CreatePod has taken.
InPool ==
  /\ \A i \in ready : Alive(i) /\ tag[i] = "Ready"
  /\ \A i \in prov \ {None} : Alive(i) /\ tag[i] = "PendingWarmpool"
  /\ \A i \in batch \ {None} : tag[i] \notin PodTags
  /\ batch \cap (ready \cup prov) = {}
  /\ \A g \in Goroutines : \A i \in seen[g] :
       inst[i] = "running" /\ tag[i] = "PendingWarmpool" /\ i \notin prov
  /\ \A g \in Goroutines : pc[g] \in {"lock", "describe"} => ready = {} /\ prov = {}

Taken ==
  /\ \A w \in Workers : pc[w] = "tagpod" => tag[got[w]] = "Ready" /\ got[w] \notin ready
  /\ \A w \in Workers : pc[w] = "launch" => tag[got[w]] = "PendingPod"

\* What is being created fills up to a desired depth, not beyond.
Filling ==
  \A g \in {"main", "depth"} : pc[g] = "create" /\ todo[g] > 0 => Depth + todo[g] <= MaxDesired

Ordered == Solo /\ InPool /\ Taken /\ Filling

\* The instances that some map or goroutine knows of.
Known ==
  {i \in Instances : \/ i \in ready \cup prov \cup batch
                     \/ \E g \in Goroutines : i \in seen[g]
                     \/ \E w \in Workers : i = got[w]}

\* No refresh is at the point where the maps are empty.
Settled == up /\ \A g \in Goroutines : pc[g] \notin {"reset", "lock", "describe"}

\* Somebody knows of every instance of the pool.
AllKnown == Settled => Warm \subseteq Known

\* The second invariant.
CInv == calm => Ordered /\ (~faulty => AllKnown)

\* A list of numbers has a largest one: the shortest list without one would
\* have one.
LEMMA LargestExists ==
  ASSUME NEW n \in Nat \ {0}, NEW d \in [1 .. n -> Nat]
  PROVE  \E k \in 1 .. n : \A j \in 1 .. n : d[j] <= d[k]
<1> DEFINE Best(m) == \E k \in 1 .. m : \A j \in 1 .. m : d[j] <= d[k]
           T == {m \in 1 .. n : ~Best(m)}
<1>0. SUFFICES ASSUME T # {} PROVE FALSE
  <2>1. n \in 1 .. n
    OBVIOUS
  <2>2. n \notin T => Best(n)
    BY <2>1
  <2> HIDE DEF T
  <2> QED BY <2>2
<1>1. PICK x \in T : \A y \in T : ~(<<y, x>> \in OpToRel(<, Nat))
  <2>1. T \subseteq Nat
    OBVIOUS
  <2> HIDE DEF T
  <2> QED BY <1>0, <2>1, NatLessThanWellFounded, WFMin
<1>2. x \in 1 .. n /\ ~Best(x) /\ \A y \in T : ~(y < x)
  <2>1. x \in 1 .. n /\ ~Best(x) /\ \A y \in T : y \in Nat
    OBVIOUS
  <2>2. ASSUME NEW y \in T PROVE ~(y < x)
    <3>1. x \in Nat /\ y \in Nat
      BY <2>1
    <3> HIDE DEF T
    <3> QED BY <1>1, <3>1 DEF OpToRel
  <2> QED BY <2>1, <2>2
<1> HIDE DEF T
<1>3. x # 1
  <2>1. Best(1)
    OBVIOUS
  <2> QED BY <1>2, <2>1
<1>4. PICK m \in 1 .. n : x = m + 1
  BY <1>2, <1>3
<1>5. Best(m)
  <2>1. m < x
    BY <1>4
  <2> QED BY <1>2, <2>1 DEF T
<1>6. PICK k \in 1 .. m : \A j \in 1 .. m : d[j] <= d[k]
  BY <1>5
<1>7. \A j \in 1 .. m + 1 : j \in 1 .. m \/ j = m + 1
  OBVIOUS
<1>8. k \in 1 .. m + 1 /\ m + 1 \in 1 .. m + 1 /\ m + 1 \in 1 .. n /\ 1 .. m \subseteq 1 .. n
  BY <1>2, <1>4
<1>9. CASE d[m + 1] <= d[k]
  BY <1>2, <1>4, <1>6, <1>7, <1>8, <1>9
<1>10. CASE ~(d[m + 1] <= d[k])
  <2>1. \A j \in 1 .. m + 1 : d[j] <= d[m + 1]
    BY <1>6, <1>7, <1>8, <1>10
  <2> QED BY <1>2, <1>4, <1>8, <2>1
<1> QED BY <1>9, <1>10

\* The largest desired depth is one of them, and no other is larger.
LEMMA MaxDesiredType ==
  ASSUME TInv
  PROVE  /\ MaxDesired \in Nat
         /\ \A k \in 1 .. Len(wpm) : wpm[k].desired <= MaxDesired
<1>1. /\ Len(wpm) \in Nat \ {0} /\ DOMAIN wpm = 1 .. Len(wpm)
      /\ \A k \in 1 .. Len(wpm) : wpm[k].desired \in Nat
  BY ConfigType
<1>2. \E k \in 1 .. Len(wpm) : \A j \in 1 .. Len(wpm) : wpm[j].desired <= wpm[k].desired
  <2>1. PICK d \in [1 .. Len(wpm) -> Nat] : d = [k \in 1 .. Len(wpm) |-> wpm[k].desired]
    BY <1>1
  <2>2. \E k \in 1 .. Len(wpm) : \A j \in 1 .. Len(wpm) : d[j] <= d[k]
    BY <1>1, LargestExists
  <2> QED BY <2>1, <2>2
<1>3. \E n \in {wpm[j].desired : j \in DOMAIN wpm} : \A j \in DOMAIN wpm : wpm[j].desired <= n
  BY <1>1, <1>2
<1>4. /\ MaxDesired \in {wpm[j].desired : j \in DOMAIN wpm}
      /\ \A j \in DOMAIN wpm : wpm[j].desired <= MaxDesired
  BY <1>3 DEF MaxDesired
<1> QED BY <1>1, <1>4

\* A goroutine that moves while operations do not overlap is the only one at
\* work.
LEMMA CalmMove ==
  ASSUME TInv, CInv, calm', NEW g \in Goroutines, NEW l \in AllPCs, Goto(g, l)
  PROVE  /\ calm /\ Ordered /\ Solo' /\ (~faulty => AllKnown)
         /\ pc'[g] = l /\ \A h \in Goroutines : h # g => pc[h] = "idle" /\ pc'[h] = "idle"
<1>1. calm /\ Alone(g) /\ pc' = [pc EXCEPT ![g] = l]
  BY DEF Goto
<1>2. pc'[g] = l /\ \A h \in Goroutines : h # g => pc[h] = "idle" /\ pc'[h] = "idle"
  BY <1>1 DEF Alone, TInv, Places
<1>3. Solo'
  BY <1>2 DEF Solo
<1> QED BY <1>1, <1>2, <1>3 DEF CInv

\* Nobody else has seen, popped or taken anything.
LEMMA OthersEmpty ==
  ASSUME TInv, NEW g \in Goroutines, \A h \in Goroutines : h # g => pc[h] = "idle"
  PROVE  /\ \A h \in Goroutines : h # g => seen[h] = {}
         /\ g # "depth" => batch = {}
         /\ \A w \in Workers : w # g => got[w] = None
  BY Names DEF TInv, Traces, Locals

\* What it is to be known, before and after a step.
LEMMA KnownIff ==
  /\ \A i \in Instances :
       i \in Known <=> \/ i \in ready \cup prov \cup batch
                       \/ \E g \in Goroutines : i \in seen[g]
                       \/ \E w \in Workers : i = got[w]
  /\ \A i \in Instances :
       i \in Known' <=> \/ i \in ready' \cup prov' \cup batch'
                        \/ \E g \in Goroutines : i \in seen'[g]
                        \/ \E w \in Workers : i = got'[w]
  BY DEF Known

\* A step that makes no instance of the pool and forgets none that stays in it.
LEMMA NoneForgotten ==
  ASSUME AllKnown, Settled' => Settled, Warm' \subseteq Warm,
         \A i \in Warm' : i \in Known => i \in Known'
  PROVE  AllKnown'
  BY DEF AllKnown

\* The second invariant is kept when main and depth create nothing.
LEMMA Idle ==
  ASSUME pc'["main"] # "create", pc'["depth"] # "create"
  PROVE  Filling'
  BY DEF Filling

\* A process that has just died knows nothing.
LEMMA DieCalm ==
  ASSUME TInv, Die
  PROVE  CInv'
<1> USE DEF Die
<1>1. Solo' /\ InPool' /\ Taken' /\ Filling'
  BY Names DEF Solo, InPool, Taken, Filling
<1>2. AllKnown'
  BY DEF AllKnown, Settled
<1> QED BY <1>1, <1>2 DEF CInv, Ordered

\* At the beginning there is no instance.
LEMMA CInvInit == Init => CInv
  BY Names DEF Init, CInv, Ordered, Solo, InPool, Taken, Filling, AllKnown, Settled

\* Whatever the maps held, a refresh that is alone starts with empty ones.
LEMMA ResetCalm ==
  ASSUME TInv, NEW g \in Goroutines, ResetState(g)
  PROVE  CInv'
<1> SUFFICES ASSUME calm' PROVE Ordered' /\ AllKnown'
  BY DEF CInv
<1> USE Names
<1>1. /\ \A h \in Goroutines : h # g => pc[h] = "idle" /\ pc'[h] = "idle"
      /\ pc[g] = "reset" /\ pc'[g] = "lock" /\ g # "depth"
  BY DEF ResetState, Alone, TInv, Places, Fits
<1>2. Solo'
  BY <1>1 DEF Solo
<1>3. batch = {} /\ \A h \in Goroutines : seen[h] = {}
  BY <1>1 DEF TInv, Traces
<1>4. ready' = {} /\ prov' = {} /\ UNCHANGED <<seen, batch, got, inst, tag>>
  BY DEF ResetState, ec2Vars
<1>5. InPool'
  BY <1>3, <1>4 DEF InPool
<1>6. Taken' /\ Filling'
  BY <1>1, Idle DEF Taken
<1>7. AllKnown'
  BY <1>1 DEF AllKnown, Settled
<1> QED BY <1>2, <1>5, <1>6, <1>7 DEF Ordered

\* The mutex is locked; the maps are still empty.
LEMMA LockCalm ==
  ASSUME TInv, CInv, NEW g \in Goroutines, LockState(g)
  PROVE  CInv'
<1> SUFFICES ASSUME calm' PROVE Ordered' /\ AllKnown'
  BY DEF CInv
<1> USE Names
<1>1. Goto(g, "describe") /\ pc[g] = "lock" /\ "describe" \in AllPCs
      /\ UNCHANGED <<ready, prov, seen, batch, got, inst, tag>>
  BY DEF LockState, ec2Vars, AllPCs, RefreshPCs
<1>2. /\ Ordered /\ Solo' /\ pc'[g] = "describe"
      /\ \A h \in Goroutines : h # g => pc[h] = "idle" /\ pc'[h] = "idle"
  BY <1>1, CalmMove
<1>3. g # "depth"
  BY <1>1 DEF TInv, Places, Fits
<1>4. InPool'
  BY <1>1, <1>2 DEF Ordered, InPool, Alive
<1>5. Taken' /\ Filling'
  BY <1>2, <1>3, Idle DEF Taken
<1>6. AllKnown'
  BY <1>2 DEF AllKnown, Settled
<1> QED BY <1>2, <1>4, <1>5, <1>6 DEF Ordered

\* DescribeInstances sorts the instances into the maps by their tags: all of
\* the pool's are found.
LEMMA DescribeCalm ==
  ASSUME TInv, CInv, NEW g \in Goroutines, DescribeInstances(g)
  PROVE  CInv'
<1> SUFFICES ASSUME calm' PROVE Ordered' /\ AllKnown'
  BY DEF CInv
<1> USE Names
<1>1. /\ pc[g] = "describe" /\ Goto(g, "tagready") /\ "tagready" \in AllPCs
      /\ ready' = ready \cup {i \in Instances : Alive(i) /\ tag[i] = "Ready"}
      /\ prov'  = prov \cup {i \in Instances : inst[i] = "pending" /\ tag[i] = "PendingWarmpool"}
      /\ seen'  = [seen EXCEPT ![g] =
                     {i \in Instances : inst[i] = "running" /\ tag[i] = "PendingWarmpool"}]
      /\ UNCHANGED <<batch, got, inst, tag>>
  BY DEF DescribeInstances, ec2Vars, AllPCs, RefreshPCs
<1>2. /\ Ordered /\ Solo' /\ pc'[g] = "tagready"
      /\ \A h \in Goroutines : h # g => pc[h] = "idle" /\ pc'[h] = "idle"
  BY <1>1, CalmMove
<1>3. g # "depth" /\ ready = {} /\ prov = {}
  BY <1>1, <1>2 DEF TInv, Places, Fits, Ordered, InPool
<1>4. batch' = {} /\ \A h \in Goroutines : h # g => seen'[h] = {}
  BY <1>1, <1>2, <1>3, OthersEmpty DEF TInv, Maps
<1>5. seen'[g] = {i \in Instances : inst[i] = "running" /\ tag[i] = "PendingWarmpool"}
  BY <1>1 DEF TInv, Maps
<1>6. InPool'
  BY <1>1, <1>2, <1>3, <1>4, <1>5 DEF InPool, Alive
<1>7. Taken' /\ Filling'
  BY <1>2, <1>3, Idle DEF Taken
<1>8. AllKnown'
  <2> SUFFICES ASSUME NEW i \in Warm' PROVE i \in ready' \cup prov' \cup seen'[g]
    BY KnownIff DEF AllKnown, Warm
  <2> QED BY <1>1, <1>5 DEF Warm, Alive
<1> QED BY <1>2, <1>6, <1>7, <1>8 DEF Ordered

\* The refresh ends, with or without what EC2 said.
LEMMA EndCalm ==
  ASSUME TInv, CInv, NEW g \in Goroutines, DescribeError(g) \/ EndRefresh(g)
  PROVE  CInv'
<1> SUFFICES ASSUME ~Die PROVE CInv'
  BY DieCalm
<1> SUFFICES ASSUME calm' PROVE Ordered' /\ (~faulty' => AllKnown')
  BY DEF CInv
<1> USE Names
<1>1. PICK l \in {"fill", "idle", "take"} : l = AfterRefresh(g)
  BY AfterRefreshType
<1>2. /\ pc[g] \in {"describe", "tagready"} /\ Goto(g, l) /\ l \in AllPCs
      /\ UNCHANGED <<up, ready, prov, seen, batch, got, inst, tag>>
  BY <1>1 DEF DescribeError, EndRefresh, UnlockAndGoto, ec2Vars, AllPCs
<1>3. /\ Ordered /\ Solo' /\ pc'[g] = l /\ (~faulty => AllKnown)
      /\ \A h \in Goroutines : h # g => pc[h] = "idle" /\ pc'[h] = "idle"
  BY <1>2, CalmMove
<1>4. g # "depth"
  BY <1>2 DEF TInv, Places, Fits
<1>5. InPool' /\ Taken' /\ Filling'
  BY <1>2, <1>3, <1>4, Idle DEF Ordered, InPool, Taken, Alive
<1>6. ASSUME ~faulty' PROVE AllKnown'
  <2>1. EndRefresh(g) /\ ~faulty
    BY <1>6 DEF DescribeError, EndRefresh, Fault, failVars
  <2>2. Settled' => Settled
    BY <1>3, <2>1, <1>2 DEF Settled, EndRefresh
  <2>3. Warm' = Warm /\ Known' = Known
    BY <1>2 DEF Warm, Alive, Known
  <2> QED BY <1>3, <2>1, <2>2, <2>3, NoneForgotten
<1> QED BY <1>3, <1>5, <1>6 DEF Ordered

\* An instance that has come up moves into the map of the ready ones.
LEMMA TagReadyCalm ==
  ASSUME TInv, CInv, NEW g \in Goroutines, TagReady(g)
  PROVE  CInv'
<1> SUFFICES ASSUME calm' PROVE Ordered' /\ (~faulty' => AllKnown')
  BY DEF CInv
<1> USE Names
<1>1. PICK i \in seen[g] :
        /\ seen' = [seen EXCEPT ![g] = @ \ {i}]
        /\ \/ tag' = [tag EXCEPT ![i] = "Ready"] /\ ready' = ready \cup {i} /\ UNCHANGED failVars
           \/ Fault("ready") /\ UNCHANGED <<tag, ready>>
  BY DEF TagReady, UpdateEC2Tags, PopulateEC2Tags
<1>2. pc[g] = "tagready" /\ UNCHANGED <<wpm, up, prov, pc, calm, todo, batch, got, inst>>
  BY DEF TagReady
<1>3. Ordered /\ (~faulty => AllKnown)
  BY <1>2 DEF CInv
<1>4. i \in Instances /\ inst[i] = "running" /\ tag[i] = "PendingWarmpool" /\ i \notin prov
  BY <1>3 DEF TInv, Maps, Ordered, InPool
<1>5. g # "depth" /\ \A h \in Goroutines : h # g => pc[h] = "idle"
  BY <1>2, <1>3 DEF TInv, Places, Fits, Ordered, Solo
<1>6. batch = {} /\ \A h \in Goroutines : h # g => seen[h] = {}
  BY <1>5, OthersEmpty
<1>7. Solo'
  BY <1>2, <1>3 DEF Ordered, Solo
<1>8. seen'[g] = seen[g] \ {i} /\ \A h \in Goroutines : h # g => seen'[h] = {}
  BY <1>1, <1>6 DEF TInv, Maps
<1>9. /\ tag'[i] \in {"Ready", "PendingWarmpool"} /\ (i \in ready' => tag'[i] = "Ready")
      /\ \A j \in Instances : j # i => tag'[j] = tag[j] /\ (j \in ready' <=> j \in ready)
      /\ ready' \subseteq Instances
  <2>1. i \notin ready
    BY <1>3, <1>4 DEF Ordered, InPool
  <2> QED BY <1>1, <1>4, <2>1 DEF TInv, Ec2, Maps
<1>10. InPool'
  <2>1. \A j \in ready' : Alive(j)' /\ tag'[j] = "Ready"
    BY <1>2, <1>3, <1>4, <1>9 DEF Ordered, InPool, Alive
  <2>2. \A j \in prov' \ {None} : Alive(j)' /\ tag'[j] = "PendingWarmpool"
    BY <1>2, <1>3, <1>4, <1>9 DEF Ordered, InPool, Alive, TInv, Maps, Ids
  <2>3. \A h \in Goroutines : \A j \in seen'[h] :
          inst'[j] = "running" /\ tag'[j] = "PendingWarmpool" /\ j \notin prov'
    BY <1>2, <1>3, <1>8, <1>9 DEF Ordered, InPool, TInv, Maps
  <2>4. \A h \in Goroutines : pc'[h] \notin {"lock", "describe"}
    BY <1>2, <1>5
  <2> QED BY <1>2, <1>6, <2>1, <2>2, <2>3, <2>4 DEF InPool
<1>11. Taken' /\ Filling'
  <2>1. \A w \in Workers : pc'[w] \notin {"tagpod", "launch"}
    BY <1>2, <1>5
  <2>2. pc'["main"] # "create" /\ pc'["depth"] # "create"
    BY <1>2, <1>5
  <2> QED BY <2>1, <2>2, Idle DEF Taken
<1>12. ASSUME ~faulty' PROVE AllKnown'
  <2>1. UNCHANGED failVars /\ ready' = ready \cup {i}
    BY <1>1, <1>12 DEF Fault
  <2>2. ~faulty /\ (Settled' => Settled)
    BY <1>2, <1>12, <2>1 DEF failVars, Settled
  <2>3. Warm' \subseteq Warm
    BY <1>2, <1>4, <1>9 DEF Warm, Alive
  <2>4. Known \subseteq Known'
    <3> SUFFICES ASSUME NEW j \in Known PROVE j \in Known'
      OBVIOUS
    <3>1. j \in Instances
      BY DEF Known
    <3>2. \A h \in Goroutines : j \in seen[h] => j = i \/ j \in seen'[h]
      BY <1>6, <1>8
    <3> QED BY <1>2, <2>1, <3>1, <3>2, KnownIff
  <2> QED BY <1>3, <2>2, <2>3, <2>4, NoneForgotten
<1> QED BY <1>7, <1>10, <1>11, <1>12 DEF Ordered

\* Beginning an operation: nothing is created yet.
LEMMA BeginCalm ==
  ASSUME TInv, CInv, RefreshTick \/ DepthTick \/ Start \/ \E w \in Workers : CreatePod(w)
  PROVE  CInv'
<1> SUFFICES ASSUME calm' PROVE Ordered' /\ (~faulty' => AllKnown')
  BY DEF CInv
<1> USE Names
<1>1. PICK g \in Goroutines, l \in {"reset", "check"} :
        Goto(g, l) /\ (l = "check" => pc[g] = "idle" /\ up)
  <2>1. ASSUME NEW g \in Goroutines, NEW l, Begin(g, l) PROVE Goto(g, l) /\ pc[g] = "idle" /\ up
    BY <2>1 DEF Begin
  <2> QED BY <2>1 DEF RefreshTick, DepthTick, Start, CreatePod
<1>2. UNCHANGED <<ready, prov, batch, seen, got, inst, tag, todo, faulty>>
  BY DEF RefreshTick, DepthTick, Start, CreatePod, cntVars, failVars, poolVars, ec2Vars
<1>3. l \in AllPCs
  BY DEF AllPCs, RefreshPCs
<1>4. /\ calm /\ Ordered /\ Solo' /\ (~faulty => AllKnown) /\ pc'[g] = l
      /\ \A h \in Goroutines : h # g => pc[h] = "idle" /\ pc'[h] = "idle"
  BY <1>1, <1>3, CalmMove
<1>5. InPool'
  BY <1>2, <1>4 DEF Ordered, InPool, Alive
<1>6. Taken' /\ Filling'
  BY <1>4, Idle DEF Taken
<1>7. ASSUME ~faulty' PROVE AllKnown'
  <2>1. CASE l = "reset"
    BY <1>4, <2>1 DEF AllKnown, Settled
  <2>2. CASE l = "check"
    <3>1. Settled
      BY <1>1, <1>4, <2>2 DEF Settled
    <3>2. Warm' = Warm /\ Known' = Known
      BY <1>2 DEF Warm, Alive, Known
    <3> QED BY <1>2, <1>4, <1>7, <3>1, <3>2, NoneForgotten
  <2> QED BY <2>1, <2>2
<1> QED BY <1>4, <1>5, <1>6, <1>7 DEF Ordered

\* A number to create that has come from the depth fills the pool up to what
\* is desired.
LEMMA FillUp ==
  ASSUME TInv, UNCHANGED wpm, NEW k \in 1 .. Len(wpm), NEW g \in {"main", "depth"},
         todo'[g] = wpm[k].desired - Depth, Depth' = Depth,
         \A h \in {"main", "depth"} : pc'[h] = "create" => h = g
  PROVE  Filling'
<1>1. /\ MaxDesired' = MaxDesired /\ MaxDesired \in Nat /\ Depth \in Nat
      /\ wpm[k].desired \in Nat /\ wpm[k].desired <= MaxDesired
  BY MaxDesiredType, DepthType, ConfigType DEF MaxDesired
<1> QED BY <1>1 DEF Filling

\* A goroutine at work that is not at one of the first steps of a refresh.
LEMMA AtWork ==
  ASSUME TInv, Solo, NEW g \in Goroutines, pc[g] # "idle",
         pc[g] \notin {"reset", "lock", "describe"}
  PROVE  Settled /\ \A h \in Goroutines : h # g => pc[h] = "idle"
<1>1. up
  BY Running
<1>2. \A h \in Goroutines : h # g => pc[h] = "idle"
  BY DEF Solo
<1> QED BY <1>1, <1>2 DEF Settled

\* A goroutine goes on without touching the maps or EC2.
LEMMA MoveCalm ==
  ASSUME TInv, CInv, NEW g \in Goroutines, NEW l \in AllPCs, Goto(g, l), calm',
         pc[g] \notin {"idle", "reset", "lock", "describe"},
         l \notin {"lock", "describe", "tagpod", "launch"},
         UNCHANGED <<up, ready, prov, batch, seen, got, inst, tag>>
  PROVE  /\ Solo' /\ InPool' /\ Taken' /\ (~faulty => AllKnown')
         /\ pc'[g] = l /\ \A h \in Goroutines : h # g => pc[h] = "idle" /\ pc'[h] = "idle"
<1> USE Names
<1>1. /\ Ordered /\ Solo' /\ (~faulty => AllKnown) /\ pc'[g] = l
      /\ \A h \in Goroutines : h # g => pc[h] = "idle" /\ pc'[h] = "idle"
  BY CalmMove
<1>2. InPool'
  BY <1>1 DEF Ordered, InPool, Alive
<1>3. Taken'
  BY <1>1 DEF Taken
<1>4. ASSUME ~faulty PROVE AllKnown'
  <2>1. Settled
    BY <1>1, AtWork DEF Ordered
  <2>2. Warm' = Warm /\ Known' = Known
    BY DEF Warm, Alive, Known
  <2> QED BY <1>1, <1>4, <2>1, <2>2, NoneForgotten
<1> QED BY <1>1, <1>2, <1>3, <1>4

\* The start-up counts and goes on to the next configuration.
LEMMA InitialCalm ==
  ASSUME TInv, CInv, InitialCount \/ (InitialCreate /\ Goto("main", "fill"))
  PROVE  CInv'
<1> SUFFICES ASSUME ~Die, calm' PROVE Ordered' /\ (~faulty' => AllKnown')
  BY DieCalm DEF CInv
<1> USE Names
<1>1. PICK l \in {"idle", "create", "fill"} :
        /\ pc["main"] \in {"fill", "create"} /\ Goto("main", l)
        /\ l = "create" => ~(cfg["main"] > Len(wpm)) /\ InitialCount
  BY DEF InitialCount, InitialCreate
<1>2. l \in AllPCs /\ pc'["main"] = l
  BY <1>1 DEF AllPCs, Goto, TInv, Places
<1>3. UNCHANGED <<wpm, up, faulty, ready, prov, batch, seen, got, inst, tag>>
  <2>1. CASE InitialCount
    BY <2>1 DEF InitialCount, cntVars, failVars, poolVars, ec2Vars
  <2>2. CASE InitialCreate /\ Goto("main", "fill")
    <3>1. pc["main"] = "create" /\ pc' # pc
      BY <2>2, <1>2 DEF InitialCreate, Goto, TInv, Places
    <3> QED BY <2>2, <3>1 DEF InitialCreate, cntVars, failVars, poolVars, ec2Vars
  <2> QED BY <2>1, <2>2
<1>4. /\ Solo' /\ InPool' /\ Taken' /\ (~faulty => AllKnown')
      /\ \A h \in Goroutines : h # "main" => pc'[h] = "idle"
  BY <1>1, <1>2, <1>3, MoveCalm
<1>5. Filling'
  <2>1. CASE l # "create"
    BY <1>2, <1>4, <2>1, Idle
  <2>2. CASE l = "create"
    <3>1. cfg["main"] \in 1 .. Len(wpm)
      BY <1>1, <2>2, ConfigType DEF TInv, Locals
    <3>2. todo'["main"] = wpm[cfg["main"]].desired - Depth
      BY <1>1, <2>2 DEF InitialCount, TInv, Locals
    <3>3. Depth' = Depth
      BY <1>3 DEF Depth
    <3> QED BY <1>3, <1>4, <3>1, <3>2, <3>3, FillUp
  <2> QED BY <2>1, <2>2
<1> QED BY <1>3, <1>4, <1>5 DEF Ordered

\* An instance more in a map, and one less to create.
LEMMA FillLess ==
  ASSUME TInv, Filling, Solo, UNCHANGED <<wpm, ready, pc>>, NEW g \in {"main", "depth"},
         pc[g] = "create", todo[g] > 0, todo' = [todo EXCEPT ![g] = @ - 1],
         NEW i, prov' = prov \cup {i} \/ prov' = prov
  PROVE  Filling'
<1> USE Names
<1>1. /\ MaxDesired' = MaxDesired /\ MaxDesired \in Nat
      /\ todo[g] \in Int /\ todo'[g] = todo[g] - 1
  BY MaxDesiredType DEF MaxDesired, TInv, Locals
<1>2. Depth \in Nat /\ Depth' \in Nat /\ Depth' <= Depth + 1
  <2>1. IsFiniteSet(prov) /\ Cardinality(prov) \in Nat /\ Cardinality(ready) \in Nat
    BY DepthType
  <2>2. Cardinality(prov \cup {i}) = IF i \in prov THEN Cardinality(prov) ELSE Cardinality(prov) + 1
    BY <2>1, FS_AddElement
  <2>3. Cardinality(prov') \in Nat /\ Cardinality(prov') <= Cardinality(prov) + 1
    <3>1. CASE prov' = prov \cup {i}
      <4>1. Cardinality(prov') = IF i \in prov THEN Cardinality(prov) ELSE Cardinality(prov) + 1
        BY <2>2, <3>1
      <4> QED BY <2>1, <4>1
    <3>2. CASE prov' = prov
      BY <2>1, <3>2
    <3> QED BY <3>1, <3>2
  <2>4. Depth = Cardinality(ready) + Cardinality(prov) /\ Depth' = Cardinality(ready) + Cardinality(prov')
    BY DEF Depth
  <2> QED BY <2>1, <2>3, <2>4
<1>3. Depth + todo[g] <= MaxDesired
  BY DEF Filling
<1>4. \A h \in {"main", "depth"} : pc'[h] = "create" => h = g
  BY DEF Solo
<1> QED BY <1>1, <1>2, <1>3, <1>4 DEF Filling

\* Creating one of the missing instances.
LEMMA CreateCalm ==
  ASSUME TInv, CInv, NEW g \in {"main", "depth"},
         pc[g] = "create", todo[g] > 0, CreateWarmEC2(g),
         todo' = [todo EXCEPT ![g] = @ - 1],
         UNCHANGED <<wpm, up, faulty, calm, ready, pc, seen, batch, got>>
  PROVE  CInv'
<1> SUFFICES ASSUME calm PROVE Ordered' /\ (~faulty => AllKnown')
  BY DEF CInv
<1> USE Names
<1>1. Ordered /\ (~faulty => AllKnown) /\ Settled /\ \A h \in Goroutines : h # g => pc[h] = "idle"
  BY AtWork DEF CInv, Ordered
<1>2. /\ batch = {} /\ \A h \in Goroutines : seen[h] = {}
      /\ \A w \in Workers : got[w] = None /\ pc[w] \notin {"tagpod", "launch"}
      /\ \A h \in Goroutines : pc[h] \notin {"lock", "describe"}
  BY <1>1 DEF TInv, Traces, Locals
<1>3. Solo' /\ Taken'
  BY <1>1, <1>2 DEF Ordered, Solo, Taken
<1>4. CASE prov' = prov \cup {None} /\ UNCHANGED ec2Vars
  <2> USE <1>4 DEF ec2Vars
  <2>1. InPool'
    BY <1>1, <1>2 DEF Ordered, InPool, Alive
  <2>2. Filling'
    BY <1>1, FillLess DEF Ordered
  <2>3. Warm' = Warm /\ \A i \in Instances : i \in Known => i \in Known'
    BY KnownIff DEF Warm, Alive
  <2>4. ~faulty => AllKnown'
    BY <1>1, <2>3, NoneForgotten DEF Warm
  <2> QED BY <1>3, <2>1, <2>2, <2>4 DEF Ordered
<1>5. ASSUME NEW i \in Instances, RunInstance(i), prov' = prov \cup {i}
      PROVE  Ordered' /\ (~faulty => AllKnown')
  <2>1. /\ inst[i] = "absent" /\ inst' = [inst EXCEPT ![i] = "pending"]
        /\ tag' = [tag EXCEPT ![i] = "PendingWarmpool"]
    BY <1>5 DEF RunInstance, UpdateEC2Tags, PopulateEC2Tags
  <2>2. /\ \A j \in Instances : j # i => inst'[j] = inst[j] /\ tag'[j] = tag[j]
        /\ inst'[i] = "pending" /\ tag'[i] = "PendingWarmpool"
    BY <2>1 DEF TInv, Ec2
  <2>3. InPool'
    <3>1. i \notin ready
      BY <1>1, <2>1 DEF Ordered, InPool, Alive
    <3> QED BY <1>1, <1>2, <1>5, <2>2, <3>1 DEF Ordered, InPool, Alive, TInv, Maps, Ids
  <2>4. Filling'
    BY <1>1, <1>5, FillLess DEF Ordered
  <2>5. ASSUME ~faulty PROVE AllKnown'
    <3>1. Warm' = Warm \cup {i}
      BY <2>2 DEF Warm, Alive
    <3>2. \A j \in Warm : j \in Known'
      BY <1>1, <1>5, <2>5, KnownIff DEF AllKnown, Warm
    <3>3. i \in Known'
      BY <1>5, KnownIff
    <3> QED BY <3>1, <3>2, <3>3 DEF AllKnown
  <2> QED BY <1>3, <2>3, <2>4, <2>5 DEF Ordered
<1> QED BY <1>4, <1>5 DEF CreateWarmEC2

\* The depth check moves what is too much from the maps into the batch.
LEMMA CheckCalm ==
  ASSUME TInv, CInv, CheckWarmPoolDepth
  PROVE  CInv'
<1> SUFFICES ASSUME calm' PROVE Ordered' /\ (~faulty' => AllKnown')
  BY DEF CInv
<1> USE Names
<1>1. PICK desired \in Nat, s \in SUBSET (ready \cup prov), l \in {"terminate", "create"} :
        /\ desired = wpm[cfg["depth"]].desired
        /\ batch' = s /\ ready' = ready \ s /\ prov' = prov \ s
        /\ l = "create" => s = {}
        /\ todo' = [todo EXCEPT !["depth"] = desired - Depth]
        /\ Goto("depth", l)
  BY CheckFacts
<1>2. /\ cfg["depth"] \in 1 .. Len(wpm) /\ pc["depth"] = "check"
      /\ UNCHANGED <<wpm, up, faulty, seen, got, inst, tag>>
  BY CheckFacts DEF cntVars, failVars, ec2Vars
<1>3. l \in AllPCs
  BY DEF AllPCs
<1>4. /\ Ordered /\ Solo' /\ (~faulty => AllKnown) /\ pc'["depth"] = l
      /\ \A h \in Goroutines : h # "depth" => pc[h] = "idle" /\ pc'[h] = "idle"
  BY <1>1, <1>3, CalmMove
<1>5. batch = {} /\ \A h \in Goroutines : seen[h] = {}
  BY <1>2, <1>4 DEF TInv, Traces
<1>6. InPool'
  <2>1. \A i \in s \ {None} : tag[i] \notin PodTags
    BY <1>1, <1>4 DEF Ordered, InPool, PodTags
  <2>2. \A h \in Goroutines : pc'[h] \notin {"lock", "describe"}
    BY <1>4
  <2> QED BY <1>1, <1>2, <1>4, <1>5, <2>1, <2>2 DEF Ordered, InPool, Alive
<1>7. Taken'
  BY <1>4 DEF Taken
<1>8. Filling'
  <2>1. CASE l = "terminate"
    BY <1>4, <2>1, Idle
  <2>2. CASE l = "create"
    <3>1. Depth' = Depth
      BY <1>1, <2>2 DEF Depth
    <3>2. todo'["depth"] = wpm[cfg["depth"]].desired - Depth
      BY <1>1 DEF TInv, Locals
    <3> QED BY <1>2, <1>4, <3>1, <3>2, FillUp
  <2> QED BY <2>1, <2>2
<1>9. ASSUME ~faulty' PROVE AllKnown'
  <2>1. Settled
    BY <1>2, <1>4, AtWork DEF Ordered
  <2>2. Warm' = Warm
    BY <1>2 DEF Warm, Alive
  <2>3. ready' \cup prov' \cup batch' = ready \cup prov \cup batch
    BY <1>1, <1>5
  <2>4. Known' = Known
    BY <1>2, <2>3 DEF Known
  <2> QED BY <1>2, <1>4, <1>9, <2>1, <2>2, <2>4, NoneForgotten
<1> QED BY <1>4, <1>6, <1>7, <1>8, <1>9 DEF Ordered

\* A missing instance is created, or a call fails, or there is no capacity.
LEMMA MissingCalm ==
  ASSUME TInv, CInv, CreateMissing
  PROVE  CInv'
<1> USE Names
<1>1. CASE CreateWarmEC2("depth") /\ UNCHANGED failVars
  BY <1>1, CreateCalm DEF CreateMissing, failVars
<1>2. CASE CreateWarmError("depth") /\ UNCHANGED <<prov, ec2Vars>>
  <2>1. /\ UNCHANGED <<wpm, up, calm, ready, prov, pc, seen, batch, got, inst, tag>>
        /\ pc["depth"] = "create" /\ todo["depth"] > 0
        /\ todo' = [todo EXCEPT !["depth"] = @ - 1]
    BY <1>2 DEF CreateMissing, ec2Vars
  <2>2. faulty' \/ faulty' = faulty
    BY <1>2 DEF CreateWarmError, RunError, UserDataError, Fault, failVars
  <2>3. SUFFICES ASSUME calm PROVE Ordered' /\ (~faulty' => AllKnown')
    BY <2>1 DEF CInv
  <2>4. Ordered /\ (~faulty => AllKnown)
    BY <2>3 DEF CInv
  <2>5. Solo' /\ InPool' /\ Taken'
    BY <2>1, <2>4 DEF Ordered, Solo, InPool, Taken, Alive
  <2>6. Filling'
    BY <2>1, <2>4, FillLess DEF Ordered
  <2>7. Warm' = Warm /\ Known' = Known /\ (Settled' => Settled)
    BY <2>1 DEF Warm, Alive, Known, Settled
  <2> QED BY <2>2, <2>4, <2>5, <2>6, <2>7, NoneForgotten DEF Ordered
<1> QED BY <1>1, <1>2 DEF CreateMissing

\* What is terminated leaves the pool; when the call fails, what was popped is
\* forgotten.
LEMMA TerminateCalm ==
  ASSUME TInv, CInv, TerminateExcess
  PROVE  CInv'
<1> SUFFICES ASSUME calm' PROVE Ordered' /\ (~faulty' => AllKnown')
  BY DEF CInv
<1> USE Names
<1>1. /\ pc["depth"] = "terminate" /\ Goto("depth", "create") /\ "create" \in AllPCs
      /\ batch' = {} /\ todo' = [todo EXCEPT !["depth"] = 0]
      /\ UNCHANGED <<wpm, up, ready, prov, seen, got, tag>>
  BY DEF TerminateExcess, poolVars, AllPCs
<1>2. \/ /\ inst' = [i \in Instances |-> IF i \in batch THEN "terminated" ELSE inst[i]]
         /\ faulty' = faulty
      \/ inst' = inst /\ faulty'
  BY DEF TerminateExcess, Fault, failVars
<1>3. /\ Ordered /\ Solo' /\ (~faulty => AllKnown) /\ pc'["depth"] = "create"
      /\ \A h \in Goroutines : h # "depth" => pc[h] = "idle" /\ pc'[h] = "idle"
  BY <1>1, CalmMove
<1>4. \A i \in Instances : i \notin batch => inst'[i] = inst[i]
  BY <1>2
<1>5. InPool'
  <2>1. \A i \in ready \cup (prov \ {None}) : i \in Instances /\ i \notin batch
    BY <1>3 DEF Ordered, InPool, TInv, Maps, Ids
  <2>2. \A h \in Goroutines : seen[h] = {} /\ pc'[h] \notin {"lock", "describe"}
    BY <1>1, <1>3 DEF TInv, Traces
  <2> QED BY <1>1, <1>3, <1>4, <2>1, <2>2 DEF Ordered, InPool, Alive
<1>6. Taken'
  BY <1>3 DEF Taken
<1>7. Filling'
  <2>1. todo'["depth"] = 0 /\ pc'["main"] = "idle"
    BY <1>1, <1>3 DEF TInv, Locals
  <2> QED BY <2>1 DEF Filling
<1>8. ASSUME ~faulty' PROVE AllKnown'
  <2>1. ~faulty /\ inst' = [i \in Instances |-> IF i \in batch THEN "terminated" ELSE inst[i]]
    BY <1>2, <1>8
  <2>2. Settled
    BY <1>1, <1>3, AtWork DEF Ordered
  <2>3. Warm' \subseteq Warm /\ \A i \in Warm' : i \notin batch
    BY <1>1, <2>1 DEF Warm, Alive
  <2>4. \A i \in Warm' : i \in Known => i \in Known'
    BY <1>1, <2>3, KnownIff DEF Warm
  <2> QED BY <1>3, <2>1, <2>2, <2>3, <2>4, NoneForgotten
<1> QED BY <1>3, <1>5, <1>6, <1>7, <1>8 DEF Ordered

\* The depth check goes on to the next configuration.
LEMMA DepthLoopCalm ==
  ASSUME TInv, CInv, DepthNext \/ DepthLoop
  PROVE  CInv'
<1> SUFFICES ASSUME ~Die, calm' PROVE Ordered' /\ (~faulty' => AllKnown')
  BY DieCalm DEF CInv
<1> USE Names
<1>1. PICK l \in {"next", "check", "idle"} : pc["depth"] \in {"create", "next"} /\ Goto("depth", l)
  BY DEF DepthNext, DepthLoop, UnlockAndGoto
<1>2. UNCHANGED <<up, faulty, ready, prov, seen, batch, got, inst, tag>>
  BY DEF DepthNext, DepthLoop, UnlockAndGoto, cntVars, failVars, poolVars, ec2Vars
<1>3. l \in AllPCs
  BY DEF AllPCs
<1>4. /\ Solo' /\ InPool' /\ Taken' /\ (~faulty => AllKnown') /\ pc'["depth"] = l
      /\ \A h \in Goroutines : h # "depth" => pc'[h] = "idle"
  BY <1>1, <1>2, <1>3, MoveCalm
<1> QED BY <1>2, <1>4, Idle DEF Ordered

\* An instance leaves the map before its pod gets it.
LEMMA TakeCalm ==
  ASSUME TInv, CInv, NEW w \in Workers, TakeInstance(w)
  PROVE  CInv'
<1> SUFFICES ASSUME calm' PROVE Ordered' /\ (~faulty' => AllKnown')
  BY DEF CInv
<1> USE Names
<1>1. PICK l \in {"tagpod", "idle"} :
        /\ pc[w] = "take" /\ Goto(w, l)
        /\ \/ /\ l = "tagpod"
              /\ \E i \in ready : ready' = ready \ {i} /\ got' = [got EXCEPT ![w] = i]
           \/ l = "idle" /\ UNCHANGED <<ready, got>>
        /\ UNCHANGED <<up, faulty, prov, seen, batch, inst, tag>>
  BY DEF TakeInstance, cntVars, failVars, ec2Vars
<1>2. l \in AllPCs
  BY DEF AllPCs
<1>3. /\ Ordered /\ Solo' /\ (~faulty => AllKnown) /\ pc'[w] = l
      /\ \A h \in Goroutines : h # w => pc[h] = "idle" /\ pc'[h] = "idle"
  BY <1>1, <1>2, CalmMove
<1>4. /\ ready' \subseteq ready /\ got[w] = None
      /\ \A v \in Workers : v # w => got'[v] = got[v]
      /\ l = "tagpod" => got'[w] \in ready /\ got'[w] \notin ready'
      /\ \A i \in ready : i \in ready' \/ i = got'[w]
  BY <1>1 DEF TInv, Locals
<1>5. InPool'
  BY <1>1, <1>3, <1>4 DEF Ordered, InPool, Alive
<1>6. Taken'
  BY <1>1, <1>3, <1>4 DEF Ordered, InPool, Taken
<1>7. Filling'
  BY <1>3, Idle
<1>8. ASSUME ~faulty' PROVE AllKnown'
  <2>1. Settled
    BY <1>1, <1>3, AtWork DEF Ordered
  <2>2. Warm' = Warm /\ None \notin Warm
    BY <1>1, NoneAssumption DEF Warm, Alive
  <2>3. ASSUME NEW i \in Warm, i \in Known PROVE i \in Known'
    <3>1. CASE \E v \in Workers : i = got[v]
      <4>1. PICK v \in Workers : i = got[v] /\ v # w
        BY <1>4, <2>2, <3>1
      <4> QED BY <1>4, <4>1, KnownIff DEF Warm
    <3>2. CASE i \in ready
      BY <1>4, <3>2, KnownIff DEF Warm
    <3>3. CASE i \in prov \cup batch \/ \E g \in Goroutines : i \in seen[g]
      BY <1>1, <3>3, KnownIff DEF Warm
    <3> QED BY <2>3, <3>1, <3>2, <3>3, KnownIff DEF Warm
  <2> QED BY <1>1, <1>3, <1>8, <2>1, <2>2, <2>3, NoneForgotten
<1> QED BY <1>3, <1>5, <1>6, <1>7, <1>8 DEF Ordered

\* The instance of a pod is tagged, and no longer one of the pool.
LEMMA TagPodCalm ==
  ASSUME TInv, CInv, NEW w \in Workers, TagPod(w)
  PROVE  CInv'
<1> SUFFICES ASSUME calm' PROVE Ordered' /\ (~faulty' => AllKnown')
  BY DEF CInv
<1> USE Names
<1>1. PICK l \in {"launch", "idle"} :
        /\ pc[w] = "tagpod" /\ Goto(w, l)
        /\ l = "launch" => UNCHANGED <<got, faulty>> /\ tag' = [tag EXCEPT ![got[w]] = "PendingPod"]
        /\ l = "idle" => got' = [got EXCEPT ![w] = None] /\ UNCHANGED tag /\ faulty'
        /\ UNCHANGED <<up, ready, prov, seen, batch, inst>>
  BY DEF TagPod, UpdateEC2Tags, PopulateEC2Tags, Abandon, Fault, poolVars, failVars
<1>2. l \in AllPCs
  BY DEF AllPCs
<1>3. /\ Ordered /\ Solo' /\ (~faulty => AllKnown) /\ pc'[w] = l
      /\ \A h \in Goroutines : h # w => pc[h] = "idle" /\ pc'[h] = "idle"
  BY <1>1, <1>2, CalmMove
<1>4. got[w] \in Instances /\ tag[got[w]] = "Ready" /\ got[w] \notin ready /\ got[w] \notin prov
  <2>1. got[w] \in Instances /\ tag[got[w]] = "Ready" /\ got[w] \notin ready
    BY <1>1, <1>3 DEF TInv, Locals, Ids, Ordered, Taken
  <2> QED BY <1>3, <2>1, NoneAssumption DEF Ordered, InPool
<1>5. batch = {} /\ \A h \in Goroutines : seen[h] = {}
  BY <1>1, <1>3 DEF TInv, Traces
<1>6. /\ \A i \in Instances : i # got[w] => tag'[i] = tag[i]
      /\ l = "launch" => tag'[got[w]] = "PendingPod"
  BY <1>1, <1>4 DEF TInv, Ec2
<1>7. InPool'
  BY <1>1, <1>3, <1>4, <1>5, <1>6 DEF Ordered, InPool, Alive, TInv, Maps, Ids
<1>8. Taken'
  BY <1>1, <1>3, <1>6 DEF Taken
<1>9. Filling'
  BY <1>3, Idle
<1>10. ASSUME ~faulty' PROVE AllKnown'
  <2>1. l = "launch" /\ ~faulty /\ UNCHANGED got
    BY <1>1, <1>10
  <2>2. Settled
    BY <1>1, <1>3, AtWork DEF Ordered
  <2>3. Warm' \subseteq Warm /\ Known' = Known
    BY <1>1, <1>4, <1>6, <2>1 DEF Warm, Alive, Known
  <2> QED BY <1>3, <2>1, <2>2, <2>3, NoneForgotten
<1> QED BY <1>3, <1>7, <1>8, <1>9, <1>10 DEF Ordered

\* The pod's instance is tagged in use, or gone.
LEMMA LaunchFacts ==
  ASSUME TInv, NEW w \in Workers, LaunchPod(w)
  PROVE  /\ pc[w] = "launch" /\ Goto(w, "idle") /\ got' = [got EXCEPT ![w] = None]
         /\ got[w] \in Instances
         /\ UNCHANGED <<up, ready, prov, seen, batch>>
         /\ \A i \in Instances : i # got[w] => tag'[i] = tag[i] /\ inst'[i] = inst[i]
         /\ tag'[got[w]] \in {tag[got[w]], "InUse"}
         /\ inst'[got[w]] \in {inst[got[w]], "terminated"}
         /\ faulty' \/ faulty' = faulty
<1>1. /\ pc[w] = "launch" /\ Goto(w, "idle") /\ got' = [got EXCEPT ![w] = None]
      /\ UNCHANGED <<up, ready, prov, seen, batch>>
  BY DEF LaunchPod, Abandon, poolVars
<1>2. got[w] \in Instances
  BY <1>1 DEF TInv, Locals, Ids
<1>3. inst' = [inst EXCEPT ![got[w]] = "terminated"] \/ UNCHANGED inst
  BY DEF LaunchPod
<1>4. tag' = [tag EXCEPT ![got[w]] = "InUse"] \/ UNCHANGED tag
  BY DEF LaunchPod, UpdateEC2Tags, PopulateEC2Tags
<1>5. faulty' \/ faulty' = faulty
  BY DEF LaunchPod, Fault, failVars
<1> QED BY <1>1, <1>2, <1>3, <1>4, <1>5 DEF TInv, Ec2

LEMMA LaunchCalm ==
  ASSUME TInv, CInv, NEW w \in Workers, LaunchPod(w)
  PROVE  CInv'
<1> SUFFICES ASSUME calm' PROVE Ordered' /\ (~faulty' => AllKnown')
  BY DEF CInv
<1> USE Names
<1>1. /\ pc[w] = "launch" /\ Goto(w, "idle") /\ got' = [got EXCEPT ![w] = None]
      /\ got[w] \in Instances
      /\ UNCHANGED <<up, ready, prov, seen, batch>>
      /\ \A i \in Instances : i # got[w] => tag'[i] = tag[i] /\ inst'[i] = inst[i]
      /\ tag'[got[w]] \in {tag[got[w]], "InUse"}
      /\ faulty' \/ faulty' = faulty
  BY LaunchFacts
<1>2. "idle" \in AllPCs
  BY DEF AllPCs
<1>3. /\ Ordered /\ Solo' /\ (~faulty => AllKnown) /\ pc'[w] = "idle"
      /\ \A h \in Goroutines : h # w => pc[h] = "idle" /\ pc'[h] = "idle"
  BY <1>1, <1>2, CalmMove
<1>4. /\ tag[got[w]] = "PendingPod" /\ tag'[got[w]] \in PodTags
      /\ got[w] \notin ready /\ got[w] \notin prov
  <2>1. tag[got[w]] = "PendingPod"
    BY <1>1, <1>3 DEF Ordered, Taken
  <2> QED BY <1>1, <1>3, <2>1, NoneAssumption DEF Ordered, InPool, PodTags
<1>5. batch = {} /\ \A h \in Goroutines : seen[h] = {}
  BY <1>1, <1>3 DEF TInv, Traces
<1>6. InPool'
  BY <1>1, <1>3, <1>4, <1>5 DEF Ordered, InPool, Alive, TInv, Maps, Ids
<1>7. Taken' /\ Filling'
  BY <1>3, Idle DEF Taken
<1>8. ASSUME ~faulty' PROVE AllKnown'
  <2>1. Settled
    BY <1>1, <1>3, AtWork DEF Ordered
  <2>2. Warm' \subseteq Warm /\ got[w] \notin Warm'
    BY <1>1, <1>4 DEF Warm, Alive, PodTags
  <2>3. ASSUME NEW i \in Warm', i \in Known PROVE i \in Known'
    <3>1. i # got[w] /\ i \in Instances
      BY <2>2 DEF Warm
    <3>2. \A v \in Workers : i = got[v] => i = got'[v]
      BY <1>1, <3>1 DEF TInv, Locals
    <3> QED BY <1>1, <2>3, <3>1, <3>2, KnownIff
  <2> QED BY <1>1, <1>3, <1>8, <2>1, <2>2, <2>3, NoneForgotten
<1> QED BY <1>3, <1>6, <1>7, <1>8 DEF Ordered

\* Instances that come up, and those of pods that are deleted, are in no map.
LEMMA OutsideCalm ==
  ASSUME TInv, CInv, (\E w \in Workers : DeletePod(w)) \/ \E i \in Instances : Boot(i)
  PROVE  CInv'
<1> SUFFICES ASSUME calm' PROVE Ordered' /\ (~faulty' => AllKnown')
  BY DEF CInv
<1>1. UNCHANGED <<wpm, up, faulty, ready, prov, pc, seen, todo, batch, got, tag>>
  BY DEF DeletePod, Boot, cntVars, failVars, poolVars, goVars
<1>2. calm /\ Ordered /\ (~faulty => AllKnown)
  BY DEF DeletePod, Boot, goVars, CInv
<1>3. Solo' /\ Taken' /\ Filling'
  BY <1>1, <1>2 DEF Ordered, Solo, Taken, Filling, Depth, MaxDesired
<1>4. Known' = Known /\ (Settled' => Settled)
  BY <1>1 DEF Known, Settled
<1>5. CASE \E w \in Workers : DeletePod(w)
  <2>1. PICK w \in Workers : /\ has[w] # None /\ inst' = [inst EXCEPT ![has[w]] = "terminated"]
                             /\ tag[has[w]] \in PodTags
    BY <1>5 DEF DeletePod
  <2>2. has[w] \in Instances /\ \A i \in Instances : i # has[w] => inst'[i] = inst[i]
    BY <2>1 DEF TInv, Ec2, Ids
  <2>3. InPool'
    BY <1>1, <1>2, <2>1, <2>2 DEF Ordered, InPool, Alive, TInv, Maps, Ids, PodTags
  <2>4. Warm' \subseteq Warm
    BY <1>1, <2>1, <2>2 DEF Warm, Alive, PodTags
  <2> QED BY <1>1, <1>2, <1>3, <1>4, <2>3, <2>4, NoneForgotten DEF Ordered
<1>6. CASE \E i \in Instances : Boot(i)
  <2>1. PICK i \in Instances : inst[i] = "pending" /\ inst' = [inst EXCEPT ![i] = "running"]
    BY <1>6 DEF Boot
  <2>2. inst'[i] = "running" /\ \A j \in Instances : j # i => inst'[j] = inst[j]
    BY <2>1 DEF TInv, Ec2
  <2>3. InPool'
    BY <1>1, <1>2, <2>1, <2>2 DEF Ordered, InPool, Alive, TInv, Maps, Ids
  <2>4. Warm' \subseteq Warm
    BY <1>1, <2>1, <2>2 DEF Warm, Alive
  <2> QED BY <1>1, <1>2, <1>3, <1>4, <2>3, <2>4, NoneForgotten DEF Ordered
<1> QED BY <1>5, <1>6

\* CInv is inductive: operations may overlap and calls may fail, and a refresh
\* that runs alone restores it.
LEMMA CInvStep ==
  ASSUME TInv, CInv, [Next]_vars
  PROVE  CInv'
<1> USE Names
<1>1. ASSUME NEW g \in Goroutines, Refresh(g) PROVE CInv'
  BY <1>1, ResetCalm, LockCalm, DescribeCalm, EndCalm, TagReadyCalm DEF Refresh
<1>2. CASE InitialCreate
  <2>1. CASE /\ todo["main"] > 0 /\ CreateWarmEC2("main")
             /\ todo' = [todo EXCEPT !["main"] = @ - 1]
             /\ UNCHANGED <<wpm, up, cntVars, locked, ready, pc, calm, seen, cfg, batch, got, has>>
    <3>1. pc["main"] = "create"
      BY <1>2 DEF InitialCreate
    <3> QED BY <2>1, <3>1, CreateCalm DEF cntVars, failVars
  <2> QED BY <1>2, <2>1, DieCalm, InitialCalm DEF InitialCreate
<1>3. CASE Main
  BY <1>1, <1>2, <1>3, BeginCalm, InitialCalm DEF Main
<1>4. CASE DepthStep
  BY <1>4, CheckCalm, MissingCalm, TerminateCalm, DepthLoopCalm DEF DepthStep
<1>5. ASSUME NEW w \in Workers, Worker(w) PROVE CInv'
  BY <1>1, <1>5, TakeCalm, TagPodCalm, LaunchCalm DEF Worker
<1>6. CASE Crash
  BY <1>6, DieCalm DEF Crash
<1>7. CASE UNCHANGED vars
  <2>1. UNCHANGED <<wpm, up, calm, faulty, ready, prov, pc, seen, todo, batch, got, inst, tag>>
    BY <1>7 DEF vars, cntVars, failVars, poolVars, goVars, ec2Vars
  <2>2. Ordered' = Ordered
    BY <2>1 DEF Ordered, Solo, InPool, Taken, Filling, Alive, Depth, MaxDesired
  <2>3. AllKnown' = AllKnown
    BY <2>1 DEF AllKnown, Settled, Known, Warm, Alive
  <2> QED BY <2>1, <2>2, <2>3 DEF CInv
<1> QED
  BY <1>1, <1>3, <1>4, <1>5, <1>6, <1>7, BeginCalm, OutsideCalm DEF Next

-----------------------------------------------------------------------------
(* Theorems about operations that do not overlap *)

\* Both invariants hold in every reachable state.
THEOREM CInvHolds == Spec => [](TInv /\ CInv)
<1>1. TInv /\ CInv /\ [Next]_vars => (TInv /\ CInv)'
  BY TInvStep, CInvStep
<1> QED BY <1>1, TInvInit, CInvInit, PTL DEF Spec

\* Once a refresh has run alone, instances that have been tagged for a pod are
\* in none of the pool's maps until operations overlap again.
THEOREM AssignedOut == Spec => []AssignedStaysOut
<1>1. TInv /\ CInv => AssignedStaysOut
  <2> SUFFICES ASSUME TInv, CInv, calm PROVE AssignedLeavesPool
    BY DEF AssignedStaysOut
  <2> QED BY NoneAssumption DEF CInv, Ordered, InPool, PodTags, AssignedLeavesPool
<1> QED BY <1>1, CInvHolds, PTL

\* The maps hold exactly the instances of the pool that no pod has been given,
\* when no operation is under way, none has overlapped with another and no call
\* has failed since a refresh that ran alone.
THEOREM MapsAreExact == Spec => []MapsExact
<1>1. TInv /\ CInv => MapsExact
  <2> SUFFICES ASSUME TInv, CInv, up, Quiet, calm, ~faulty
               PROVE  ready \cup (prov \ {None}) = Warm /\ ready \cap prov = {}
    BY DEF MapsExact
  <2>1. Ordered /\ AllKnown /\ Settled
    BY DEF CInv, Settled, Quiet
  <2>2. /\ batch = {} /\ \A g \in Goroutines : seen[g] = {}
        /\ \A w \in Workers : got[w] = None
    BY Names DEF Quiet, TInv, Traces, Locals
  <2>3. Warm \subseteq ready \cup prov /\ None \notin Warm
    <3> SUFFICES ASSUME NEW i \in Warm PROVE i \in ready \cup prov /\ i # None
      OBVIOUS
    <3>1. i \in Known /\ i # None
      BY <2>1, NoneAssumption DEF AllKnown, Warm
    <3> QED BY <2>2, <3>1, KnownIff DEF Warm
  <2>4. ready \cup (prov \ {None}) \subseteq Warm
    BY <2>1 DEF TInv, Maps, Ordered, InPool, Warm, Alive, Ids
  <2>5. ready \cap prov = {}
    BY <2>1, NoneAssumption DEF TInv, Maps, Ordered, InPool
  <2> QED BY <2>3, <2>4, <2>5
<1> QED BY <1>1, CInvHolds, PTL

\* A step that adds an instance to the pool is one that creates it.
LEMMA ShrinksOrCreates ==
  ASSUME TInv, CInv, calm, [Next]_vars
  PROVE  \/ Warm' \subseteq Warm
         \/ \E g \in {"main", "depth"}, i \in Instances :
              pc[g] = "create" /\ todo[g] > 0 /\ RunInstance(i)
<1> USE Names
<1>1. ASSUME UNCHANGED <<inst, tag>> PROVE Warm' \subseteq Warm
  BY <1>1 DEF Warm, Alive
<1>2. ASSUME NEW g \in Goroutines, Refresh(g) PROVE Warm' \subseteq Warm
  <2>1. CASE TagReady(g)
    <3>1. PICK i \in seen[g] : tag' = [tag EXCEPT ![i] = "Ready"] \/ UNCHANGED tag
      BY <2>1 DEF TagReady, UpdateEC2Tags, PopulateEC2Tags
    <3>2. i \in Instances /\ i \in Warm /\ UNCHANGED inst
      BY <2>1 DEF TagReady, CInv, Ordered, InPool, TInv, Maps, Warm, Alive
    <3>3. \A j \in Instances : j # i => tag'[j] = tag[j]
      BY <3>1 DEF TInv, Ec2
    <3> QED BY <3>2, <3>3 DEF Warm, Alive
  <2> QED BY <1>1, <1>2, <2>1
        DEF Refresh, ResetState, LockState, DescribeInstances, DescribeError, EndRefresh, ec2Vars
<1>3. ASSUME RefreshTick \/ DepthTick \/ Start \/ \E w \in Workers : CreatePod(w)
      PROVE  Warm' \subseteq Warm
  BY <1>1, <1>3 DEF RefreshTick, DepthTick, Start, CreatePod, ec2Vars
<1>4. ASSUME NEW g \in {"main", "depth"}, CreateWarmEC2(g)
      PROVE  Warm' \subseteq Warm \/ \E i \in Instances : RunInstance(i)
  BY <1>1, <1>4 DEF CreateWarmEC2, ec2Vars
<1>5. CASE InitialCount \/ InitialCreate
  BY <1>1, <1>4, <1>5 DEF InitialCount, InitialCreate, ec2Vars
<1>6. CASE DepthStep
  <2>1. CASE TerminateExcess
    BY <2>1 DEF TerminateExcess, Warm, Alive
  <2> QED BY <1>1, <1>4, <1>6, <2>1
        DEF DepthStep, CheckWarmPoolDepth, CreateMissing, DepthNext, DepthLoop, ec2Vars
<1>7. ASSUME NEW w \in Workers, TakeInstance(w) \/ TagPod(w) \/ LaunchPod(w)
      PROVE  Warm' \subseteq Warm
  <2>1. CASE TakeInstance(w)
    BY <1>1, <2>1 DEF TakeInstance, ec2Vars
  <2>2. CASE TagPod(w)
    <3>1. got[w] \in Instances /\ UNCHANGED inst
      BY <2>2 DEF TagPod, TInv, Locals, Ids
    <3>2. tag' = [tag EXCEPT ![got[w]] = "PendingPod"] \/ UNCHANGED tag
      BY <2>2 DEF TagPod, UpdateEC2Tags, PopulateEC2Tags
    <3> QED BY <3>1, <3>2 DEF TInv, Ec2, Warm, Alive
  <2>3. CASE LaunchPod(w)
    BY <2>3, LaunchFacts DEF Warm, Alive
  <2> QED BY <1>7, <2>1, <2>2, <2>3
<1>8. ASSUME NEW w \in Workers, DeletePod(w) PROVE Warm' \subseteq Warm
  BY <1>8 DEF DeletePod, TInv, Ec2, Warm, Alive
<1>9. ASSUME NEW i \in Instances, Boot(i) PROVE Warm' \subseteq Warm
  BY <1>9 DEF Boot, TInv, Ec2, Warm, Alive
<1>10. CASE Crash \/ UNCHANGED vars
  BY <1>1, <1>10 DEF Crash, vars, ec2Vars
<1>11. CASE Main
  BY <1>2, <1>3, <1>5, <1>11 DEF Main
<1> QED
  BY <1>2, <1>3, <1>6, <1>7, <1>8, <1>9, <1>10, <1>11 DEF Next, Worker

\* What is created is missing.
LEMMA CreateBounded ==
  ASSUME TInv, CInv, calm, ~faulty, NEW g \in {"main", "depth"}, NEW i \in Instances,
         pc[g] = "create", todo[g] > 0, RunInstance(i)
  PROVE  Cardinality(Warm') <= MaxDesired
<1> USE Names
<1>1. Ordered /\ AllKnown /\ Settled /\ \A h \in Goroutines : h # g => pc[h] = "idle"
  BY AtWork DEF CInv, Ordered
<1>2. /\ batch = {} /\ \A h \in Goroutines : seen[h] = {}
      /\ \A w \in Workers : got[w] = None
  BY <1>1 DEF TInv, Traces, Locals
<1>3. Warm \subseteq ready \cup prov
  <2> SUFFICES ASSUME NEW j \in Warm PROVE j \in ready \cup prov
    OBVIOUS
  <2>1. j \in Known /\ j # None
    BY <1>1, NoneAssumption DEF AllKnown, Warm
  <2> QED BY <1>2, <2>1, KnownIff DEF Warm
<1>4. Warm' = Warm \cup {i} /\ i \notin Warm
  BY DEF RunInstance, UpdateEC2Tags, PopulateEC2Tags, TInv, Ec2, Warm, Alive
<1>5. /\ IsFiniteSet(ready) /\ IsFiniteSet(prov) /\ Depth \in Nat
      /\ Cardinality(ready) \in Nat /\ Cardinality(prov) \in Nat
      /\ Depth = Cardinality(ready) + Cardinality(prov)
  BY DepthType DEF Depth
<1>6. /\ IsFiniteSet(ready \cup prov) /\ IsFiniteSet(ready \cap prov)
      /\ Cardinality(ready \cup prov)
           = Cardinality(ready) + Cardinality(prov) - Cardinality(ready \cap prov)
  BY <1>5, FS_Union, FS_Intersection
<1>7. Cardinality(ready \cap prov) \in Nat /\ Cardinality(ready \cup prov) \in Nat
  BY <1>6, FS_CardinalityType
<1>8. IsFiniteSet(Warm) /\ Cardinality(Warm) <= Cardinality(ready \cup prov)
  BY <1>3, <1>6, FS_Subset
<1>9. Cardinality(Warm) \in Nat /\ Cardinality(Warm') = Cardinality(Warm) + 1
  BY <1>4, <1>8, FS_CardinalityType, FS_AddElement
<1>10. /\ Depth + todo[g] <= MaxDesired /\ MaxDesired \in Nat
       /\ todo[g] \in Int
  BY <1>1, MaxDesiredType DEF Ordered, Filling, TInv, Locals
<1> QED BY <1>5, <1>6, <1>7, <1>8, <1>9, <1>10

\* However often the process dies and restarts, the pool does not grow beyond
\* the largest configured depth, unless operations overlap or a call fails.
THEOREM PoolIsBounded == Spec => PoolBounded
<1>1. TInv /\ CInv /\ [Next]_vars =>
        [calm /\ ~faulty /\ Cardinality(Warm') > Cardinality(Warm)
           => Cardinality(Warm') <= MaxDesired]_vars
  <2> SUFFICES ASSUME TInv, CInv, [Next]_vars, calm, ~faulty,
                      Cardinality(Warm') > Cardinality(Warm)
               PROVE  Cardinality(Warm') <= MaxDesired
    OBVIOUS
  <2>1. CASE Warm' \subseteq Warm
    <3>1. IsFiniteSet(Warm)
      BY NoneAssumption, FS_Subset DEF Warm
    <3>2. Cardinality(Warm') <= Cardinality(Warm) /\ IsFiniteSet(Warm')
      BY <2>1, <3>1, FS_Subset
    <3>3. Cardinality(Warm) \in Nat /\ Cardinality(Warm') \in Nat
      BY <3>1, <3>2, FS_CardinalityType
    <3> QED BY <3>2, <3>3
  <2> QED BY <2>1, ShrinksOrCreates, CreateBounded
<1> QED BY <1>1, CInvHolds, PTL DEF Spec, PoolBounded

\* As long as operations do not overlap, nobody but its own deletion touches
\* the instance of a pod whose tag and ownership earlier overlaps have not
\* spoilt: not the depth check, not the creation or deletion of another pod.
THEOREM PodsKeepInstances == Spec => PodKeepsInstance
<1> DEFINE Kept(w) == calm /\ has[w] # None /\ OnlyFor(w) => has'[w] = None \/ inst'[has[w]] = inst[has[w]]
<1>1. TInv /\ CInv /\ [Next]_vars => [\A w \in Workers : Kept(w)]_vars
  <2> SUFFICES ASSUME TInv, CInv, [Next]_vars, NEW w \in Workers,
                      calm, has[w] # None, OnlyFor(w)
               PROVE  has'[w] = None \/ inst'[has[w]] = inst[has[w]]
    OBVIOUS
  <2> USE Names
  <2>1. /\ has[w] \in Instances /\ inst[has[w]] \in {"running", "terminated"}
        /\ pc[w] = "idle" /\ tag[has[w]] \in PodTags
        /\ \A v \in Workers \ {w} : has[w] \notin {has[v], got[v]}
    BY DEF TInv, Ec2, Ids, Traces, OnlyFor
  <2>2. ASSUME UNCHANGED inst PROVE inst'[has[w]] = inst[has[w]]
    BY <2>2
  <2>3. ASSUME NEW i \in Instances, RunInstance(i) PROVE inst'[has[w]] = inst[has[w]]
    BY <2>1, <2>3 DEF RunInstance, TInv, Ec2
  <2>4. ASSUME NEW g, CreateWarmEC2(g) PROVE inst'[has[w]] = inst[has[w]]
    BY <2>3, <2>4 DEF CreateWarmEC2, ec2Vars
  <2>5. CASE TerminateExcess
    <3>1. has[w] \notin batch
      BY <2>1, NoneAssumption DEF CInv, Ordered, InPool
    <3> QED BY <2>1, <2>5, <3>1 DEF TerminateExcess
  <2>6. ASSUME NEW v \in Workers, LaunchPod(v) PROVE inst'[has[w]] = inst[has[w]]
    <3>1. v # w
      BY <2>1, <2>6 DEF LaunchPod
    <3> QED BY <2>1, <2>6, <3>1, LaunchFacts
  <2>7. ASSUME NEW v \in Workers, DeletePod(v) PROVE has'[w] = None \/ inst'[has[w]] = inst[has[w]]
    <3>1. has' = [has EXCEPT ![v] = None] /\ inst' = [inst EXCEPT ![has[v]] = "terminated"]
      BY <2>7 DEF DeletePod
    <3>2. CASE v = w
      BY <3>1, <3>2 DEF TInv, Ec2
    <3>3. CASE v # w
      <4>1. has[v] # has[w]
        BY <2>1, <3>3
      <4> QED BY <2>1, <3>1, <4>1 DEF TInv, Ec2
    <3> QED BY <3>2, <3>3
  <2>8. ASSUME NEW i \in Instances, Boot(i) PROVE inst'[has[w]] = inst[has[w]]
    BY <2>1, <2>8 DEF Boot, TInv, Ec2
  <2>9. ASSUME NEW g \in Goroutines, Refresh(g) PROVE inst'[has[w]] = inst[has[w]]
    BY <2>2, <2>9 DEF Refresh, ResetState, LockState, DescribeInstances, DescribeError,
                      TagReady, EndRefresh, ec2Vars
  <2>10. ASSUME NEW v \in Workers, CreatePod(v) \/ TakeInstance(v) \/ TagPod(v)
         PROVE  inst'[has[w]] = inst[has[w]]
    BY <2>2, <2>10 DEF CreatePod, TakeInstance, TagPod, ec2Vars
  <2>11. CASE Main
    BY <2>2, <2>4, <2>9, <2>11 DEF Main, Start, InitialCount, InitialCreate, ec2Vars
  <2>12. CASE DepthStep
    BY <2>2, <2>4, <2>5, <2>12
       DEF DepthStep, CheckWarmPoolDepth, CreateMissing, DepthNext, DepthLoop, ec2Vars
  <2>13. CASE RefreshTick \/ DepthTick \/ Crash \/ UNCHANGED vars
    BY <2>2, <2>13 DEF RefreshTick, DepthTick, Crash, vars, ec2Vars
  <2> QED
    BY <2>6, <2>7, <2>8, <2>9, <2>10, <2>11, <2>12, <2>13 DEF Next, Worker
<1> QED BY <1>1, CInvHolds, PTL DEF Spec, PodKeepsInstance
================================================================================
