SPECIFICATION Spec
CONSTANTS
  p1 = p1
  Pods = {p1}
  Watchers = {"vkvma.watch", "app.watch"}
  AppWatchers = {"app.watch"}
  Checkers = {"poll"}
  Handlers = {p1}
  HandlerOf <- OwnHandler
  Threshold = 2
  MaxFailures = 3
  MaxStatus <- TwoStatuses
  NotifierReady = FALSE
INVARIANTS TypeOK WaitGroupExact StoppedIsQuiet UnhealthyIffThreshold
PROPERTY StatusInOrder
CHECK_DEADLOCK FALSE
