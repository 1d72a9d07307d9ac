SPECIFICATION LiveSpec
CONSTANTS
  Procs = {a, b}
  PodName <- MCPodName
  Enis = {e1, e2, e3}
  Pods = {x}
  None = None
  Nameless = Nameless
  Files <- MCFiles
  Faults = {"client", "describe", "create", "pool", "kube", "pods", "launch"}
  MaxRetries = 2
  MaxFaults = 2
  MaxCrashes = 2
INVARIANTS TypeOK StableName NamesDistinct LaunchedOnce
PROPERTIES ValidStarts PodsOwned
CHECK_DEADLOCK FALSE
