\* A message ends once it is received.
SPECIFICATION Spec
CONSTANTS
  Messages <- MCMessages
  Options = {0, 4}
  MinFrame = 60
  MaxCut = 70
INVARIANTS MessageArrives NoShortDatagram ChecksumVerifies
CHECK_DEADLOCK FALSE
