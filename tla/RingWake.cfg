\* Waiting readers: read, O_NONBLOCK and poll, with both timers and signals.
CONSTANTS
  Readers = {r1}
  MAX_BUFFERS = 2
  Producers = {"write", "stream"}
  Timers = {"sustain", "timeout"}
  Calls = {"read", "nonblock", "poll"}
  QuietSetup = TRUE
  MaxFrames = 3
  MaxTicks = 1
SPECIFICATION Spec
INVARIANTS NonblockReturns
PROPERTIES FrameReaches
CHECK_DEADLOCK FALSE
