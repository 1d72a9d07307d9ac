SPECIFICATION LiveSpec
CONSTANTS
  Pods = {p1}
  Instances = {i1, i2}
  None = None
  WarmPools = {FALSE}
  PoolInstances = {}
  OldInstances = {}
  Faults = {}
  NeverRestart = {}
  BarePods = {}
  MaxRetries = 2
  MaxRev = 0
  MaxCrashes = 1
PROPERTY PodLaunched
CHECK_DEADLOCK FALSE
