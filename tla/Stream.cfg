\* The GUI and the command line client, with and without receive timeouts.
CONSTANTS
  Clients = {"gui", "cli"}
  Modes = {"wifi", "ios", "server"}
  Controls = {"zoom", "led"}
  Values = {"auto", "cloudy"}
  MaxIssued = 3
  MaxSessions = 2
  HeaderSize = 2
  LengthSize = 2
  FrameLengths <- MCFrameLengths
  Garbage = {0, 1, 4}
SPECIFICATION Spec
INVARIANTS SentAsIssued NoneLost FramesAsSent DamagedIsLast
PROPERTIES CloseEndsLoop CommandTaken
CHECK_DEADLOCK FALSE
