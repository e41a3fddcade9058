\* Both programs, all modes, clicks and quits during a session.
CONSTANTS
  Programs = {"gui", "cli"}
  Modes = {"wifi", "adb", "ios", "server"}
  MaxSessions = 2
  MaxClicks = 1
SPECIFICATION Spec
INVARIANTS NothingLeft SameConnection
PROPERTIES StopHangsOnlyInRecv
CHECK_DEADLOCK FALSE
