\* REQBUFS of a reader while the producer is inside write().
CONSTANTS
  Readers = {r1}
  MAX_BUFFERS = 3
  Producers = {"write"}
  Timers = {}
  Calls = {"read"}
  QuietSetup = FALSE
  MaxFrames = 4
  MaxTicks = 0
SPECIFICATION Spec
INVARIANTS RemapHolds
CHECK_DEADLOCK FALSE
