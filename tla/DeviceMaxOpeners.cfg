\* Overlapping opens against max_openers.
CONSTANTS
  Openers = {a, b}
  small = small
  large = large
  Formats = {small, large}
  FormatSize <- MCFormatSize
  ModuleFormat = small
  MAX_OPENERS = 1
  Loads = {"stress"}
  Controls <- MCNone
  Limits <- MCNone
SPECIFICATION Spec
INVARIANTS OpenersBounded
CHECK_DEADLOCK FALSE
