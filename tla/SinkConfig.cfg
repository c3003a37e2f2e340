SPECIFICATION Spec
CONSTANTS
  Params = {"address"}
  Values = {v1, v2}
  Targets = {t1, t2}
  Others = {"none", "keys"}
  MaxPending = 1
  MaxFaults = 1
SYMMETRY Symmetry
INVARIANT CacheIsTrue
INVARIANT OkMeansApplied
INVARIANT StackRunsAsAsked
INVARIANT ChangeIsTold
