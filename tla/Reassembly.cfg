SPECIFICATION ReassemblySpec
CONSTANTS
  Keys = {j, k}
  Lengths = {3, 4}
  BufferSize = 3
  Collecting = TRUE
  MaxSent = 2
  MaxReceived = 4
  MaxFailures = 1
INVARIANT EmptyFlagIsTrue
INVARIANT WholeMessages
INVARIANT NothingWithheld
PROPERTY FlagComesBack
