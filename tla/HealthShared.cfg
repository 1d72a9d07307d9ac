SPECIFICATION LiveSpec
CONSTANTS
  p1 = p1
  Pods = {p1, p2}
  Watchers = {"app.watch"}
  AppWatchers = {"app.watch"}
  Checkers = {}
  Handlers = {"default"}
  HandlerOf <- SharedHandler
  Threshold = 1
  MaxFailures = 0
  MaxStatus <- UnevenStatus
  NotifierReady = FALSE
PROPERTIES StopReturnsUnlessStuck ResultTaken StatusReported
CHECK_DEADLOCK FALSE
