SPECIFICATION LiveSpec
CONSTANTS
  Services = {overall, svc}
  Overall = overall
  Streams = {s1, s2}
  None = None
  Window = 1
  MaxEvents = 2
  Faults <- AllFaults
INVARIANTS TypeOK PutNeverWaits ShutdownSticks
PROPERTIES FeedSpec CallReturns StreamsEnd Delivered
CHECK_DEADLOCK FALSE
