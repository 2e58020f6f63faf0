SPECIFICATION Spec
CONSTANTS
  Blocks = 1
  MicroBatches = 2
  Tokens = 3
  Chunks = {0, 2, 3}
  Periods = {0, 2}
  MaxResident = 1
  MaxSteps = 3
  MaxLaunches = 2
INVARIANTS
  MatchesResidentStep
  OptimizerInStep
CHECK_DEADLOCK FALSE
PROPERTY
  EventuallyTrained
