SPECIFICATION Spec
CONSTANTS
  Pods = {p1}
  Instances = {i1, i2}
  None = None
  WarmPools = {FALSE}
  PoolInstances = {}
  OldInstances = {}
  Faults = {}
  NeverRestart = {}
  BarePods = {}
  MaxRetries = 2
  MaxRev = 1
  MaxCrashes = 0
INVARIANT NoOrphan
CHECK_DEADLOCK FALSE
