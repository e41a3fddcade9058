\* Under-runs, the machine is suspended once, and reads of any length.
CONSTANTS
  frame_size = 1
  Pieces = 2
  STREAM_CHUNKS = 3
  period_size = 1
  buffer_size = 2
  ResumeLimit = 2
  MaxPieces = 8
  MaxSuspends = 1
SPECIFICATION Spec
INVARIANTS PlayedInOrder
PROPERTIES StopSeen UnderrunRestarts
CHECK_DEADLOCK FALSE
