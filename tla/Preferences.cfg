\* Two runs of either client, over the devices and files of MCPreferences.
CONSTANTS
  Programs = {"gui", "cli"}
  Files <- MCFiles
  Machines <- MCMachines
  Adjusted <- MCAdjusted
  SizeOptions <- MCSizeOptions
  DevOptions = {0, 1}
  MaxRuns = 2
  MaxChanges = 3
SPECIFICATION Spec
INVARIANTS SettingsKept FlipsKept RotatedUntilFlipped DeviceMatches
CHECK_DEADLOCK FALSE
