SPECIFICATION MCSpec
CONSTANTS
  Threads = {t1, t2}
  Dispatch = dispatch
  Images <- MCImages
  BlockMax = 2
  MAXIMUM_SCRATCHPAD_BLOCK_SIZE = 2
  Durations = {2, 5}
  DurationSpan = 4
  StartWait = 2
  ScratchpadStartTimeout = 3
  ScratchpadBlockTimeout = 2
  Missing = {6}
  MaxDown = 3
  MaxLost = 1
  MaxBoots = 1
INVARIANT OkMeansTransferred
INVARIANT StopToleratesReboot
INVARIANT MtuIsCurrent
CHECK_DEADLOCK FALSE
