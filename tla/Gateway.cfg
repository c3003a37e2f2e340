SPECIFICATION Spec
CONSTANTS
  Client = client
  Dispatch = dispatch
  MainThread = main
  NULL = NULL
  PUBLISH_QUEUE_SIZE = 2
  MaxPackets = 2
  MaxRequests = 1
  MaxStatus = 1
  MaxFaults = 1
  MaxLosses = 1
INVARIANT NothingLeaks
INVARIANT StatusIsTrue
INVARIANT CallbacksFindModules
PROPERTY QueueIsFifo
CHECK_DEADLOCK FALSE
