SPECIFICATION Spec
CONSTANTS
  Pods = {p1}
  Instances = {i1, i2, i3}
  None = None
  WarmPools = {TRUE, FALSE}
  PoolInstances = {i1, i2, i3}
  OldInstances = {}
  Faults = {"run", "agent", "terminate", "ip", "cleanup", "tag", "dial", "describe"}
  NeverRestart = {p1}
  BarePods = {p1}
  MaxRetries = 4
  MaxRev = 0
  MaxCrashes = 2
SYMMETRY InstanceSymmetry
INVARIANTS RecordedInstanceRuns CacheMatchesRecord DeleteFindsPod
CHECK_DEADLOCK FALSE
