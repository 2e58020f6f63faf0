\* Four shards (a model of one block), two steps, one replay, two faults.
CONSTANTS
  NumShards = 4
  MaxSteps = 2
  MaxReplays = 1
  MaxPending = 2
  MaxFaults = 2
  Modes <- MCAnyMode
  NoFile = NoFile
SPECIFICATION FairSpec
INVARIANTS
  OnlyWholeUpdates
  RollForwardPossible
  ResumeIsExact
  RecordFollowsShards
  NoStepLost
PROPERTIES
  ImplementsAtomicSteps
  EventuallyTrained
