SPECIFICATION LiveSpec
CONSTANTS
  Pods = {p1}
  Instances = {i1, i2, i3, i4}
  None = None
  WarmPools = {FALSE}
  PoolInstances = {}
  OldInstances = {i1}
  Faults = {"run", "agent", "terminate", "describe"}
  NeverRestart = {}
  BarePods = {}
  MaxRetries = 3
  MaxRev = 0
  MaxCrashes = 0
INVARIANTS TypeOK NoOrphan OneApplication CachedIsMonitored
PROPERTIES PodLaunched PodTerminated
CHECK_DEADLOCK FALSE
