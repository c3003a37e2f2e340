SPECIFICATION Spec
CONSTANTS
  Closers = {"dispatch"}
  Packets = {p, q}
  Capacity = 4
  MaxInd = 2
PROPERTY FatalExits
