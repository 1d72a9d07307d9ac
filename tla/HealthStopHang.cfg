SPECIFICATION LiveSpec
CONSTANTS
  p1 = p1
  Pods = {p1}
  Watchers = {"app.watch"}
  AppWatchers = {"app.watch"}
  Checkers = {}
  Handlers = {p1}
  HandlerOf <- OwnHandler
  Threshold = 1
  MaxFailures = 1
  MaxStatus <- TwoStatuses
  NotifierReady = TRUE
PROPERTY StopReturns
CHECK_DEADLOCK FALSE
