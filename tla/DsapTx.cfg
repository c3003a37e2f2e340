SPECIFICATION Spec
CONSTANTS
  Senders = {a, b}
  TableSize = 2
  IdSpan = 2
  MaxFrags = 2
  MaxCalls = 3
SYMMETRY Symmetry
INVARIANT OkMeansComplete
INVARIANT NoMixedPackets
 
INVARIANT CalledAfterSent
 
CHECK_DEADLOCK FALSE
