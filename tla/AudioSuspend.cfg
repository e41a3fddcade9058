\* The machine is suspended once.
CONSTANTS
  frame_size = 2
  Pieces = 2
  STREAM_CHUNKS = 3
  period_size = 2
  buffer_size = 4
  ResumeLimit = 2
  MaxPieces = 4
  MaxSuspends = 1
SPECIFICATION Spec
PROPERTIES PlaybackStarts
CHECK_DEADLOCK FALSE
