SPECIFICATION LiveSpec
CONSTANTS
  Pods = {p1}
  Instances = {i1, i2}
  None = None
  WarmPools = {FALSE}
  PoolInstances = {}
  OldInstances = {}
  Faults = {"run", "agent"}
  NeverRestart = {}
  BarePods = {}
  MaxRetries = 2
  MaxRev = 1
  MaxCrashes = 1
INVARIANTS OneApplication RecordedInstanceRuns
PROPERTIES PodRemoved
CHECK_DEADLOCK FALSE
