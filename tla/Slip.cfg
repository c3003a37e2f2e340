SPECIFICATION Spec
CONSTANTS
  Requests <- MCRequests
  NodeFrames <- MCNodeFrames
  IndexSpan = 256
  FrameSize = 4
  SerialBuffer = 2
  Damage <- MCDamage
  Noise <- MCNoise
  MaxRun = 2
  MaxFaults = 2
INVARIANT RequestsAreReadable
INVARIANT OnlySentFrames
INVARIANT FaultCostsOneFrame
