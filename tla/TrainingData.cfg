SPECIFICATION Spec
CONSTANTS
  Rows <- MCRows
  SeqLen = 2
  BlocksPerShard = 2
  Limits = {3, 4, 9}
  Unlimited = 9
  MaxCrashes = 2
  MicroBatches = 2
  StateEvery = 2
  SaveEvery = 3
  StreamSteps = 6
  StreamCrashes = 2
  BatchSize = 2
  PackedSteps = 5
  Shuffles <- MCShuffles
CHECK_DEADLOCK FALSE
INVARIANTS
  TokenizedOnce
  ResumeReplays
  StreamSkipsNothing
  RepeatedStepsBounded
PROPERTY
  EventuallyFed
