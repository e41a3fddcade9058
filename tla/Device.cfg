\* Opens and closes, calm and under stress.
CONSTANTS
  Openers = {a, b}
  small = small
  large = large
  Formats = {small, large}
  FormatSize <- MCFormatSize
  ModuleFormat = small
  MAX_OPENERS = 2
  Loads = {"calm", "stress"}
  Controls <- MCControls
  Limits <- MCLimits
SPECIFICATION Spec
INVARIANTS ReadyHasBuffers FreedWhenUnused
PROPERTIES FormatFixed KeepFormatKeeps
SYMMETRY OpenerSymmetry
CHECK_DEADLOCK FALSE
