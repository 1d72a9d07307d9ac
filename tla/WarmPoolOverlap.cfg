SPECIFICATION Spec
CONSTANTS
  Instances = {i1, i2}
  None = None
  Configs <- OneConfig
  Workers = {w1}
  Faults = {}
  MaxFaults = 0
  MaxPods = 1
  MaxCrashes = 0
  MaxOverlaps = 1
INVARIANTS AssignedLeavesPool
CHECK_DEADLOCK FALSE
