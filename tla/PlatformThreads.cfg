SPECIFICATION Spec
CONSTANTS
  Closers = {"app", "poll", "dispatch"}
  Packets = {p}
  Capacity = 3
  MaxInd = 2
INVARIANT DrainedWhenPollingEnds
PROPERTY CloseTerminates
PROPERTY QueueMoves
