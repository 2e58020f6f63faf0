SPECIFICATION DenseSpec
CONSTANTS
  LastStep = 2
  SaveIntervals = {1, 2, 3}
  MaxLaunches = 3
  MaxCrashes = 2
CHECK_DEADLOCK FALSE
INVARIANTS
  LoadedIsWhole
  CrashKeepsCheckpoint
