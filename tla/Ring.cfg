\* A producer using write() or queued buffers, two readers of which
\* one at a time takes frames out.
CONSTANTS
  Readers = {r1, r2}
  MAX_BUFFERS = 3
  Producers = {"write", "stream"}
  Timers = {}
  Calls = {"read"}
  QuietSetup = TRUE
  MaxFrames = 3
  MaxTicks = 0
SPECIFICATION Spec
INVARIANTS ListExact DeliversPicked 
CONSTRAINT OneReads
SYMMETRY ReaderSymmetry
CHECK_DEADLOCK FALSE
