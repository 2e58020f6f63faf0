\* One fault is enough to tear a publication; the doc says such a run refuses to resume.
CONSTANTS
  NumShards = 3
  MaxSteps = 2
  MaxReplays = 0
  MaxPending = 2
  MaxFaults = 1
  Modes <- MCSingle
  NoFile = NoFile
SPECIFICATION Spec
INVARIANT ResumeRefusesDisagreement
