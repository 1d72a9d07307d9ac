SPECIFICATION LiveSpec
CONSTANTS
  Instances = {i1, i2, i3}
  None = None
  Configs <- MCConfigs
  Workers = {w1}
  Faults = {"describe", "ready", "run", "userdata", "terminate", "pod", "inuse", "launch"}
  MaxFaults = 1
  MaxPods = 1
  MaxCrashes = 1
  MaxOverlaps = 1
INVARIANTS TypeOK MutexFree AssignedStaysOut MapsExact
PROPERTIES PodKeepsInstance PoolBounded PoolRefilled
CHECK_DEADLOCK FALSE
