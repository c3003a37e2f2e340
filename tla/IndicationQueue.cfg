SPECIFICATION Spec
CONSTANTS
  MaxInd = 3
  Ind = {x, y}
  NoInd = NoInd
  UIntSpan = 256
INVARIANT NoOverrun
PROPERTY ImplementsFifo
PROPERTY PollResumes
