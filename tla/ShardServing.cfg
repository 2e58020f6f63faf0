SPECIFICATION Spec
CONSTANTS
  Requests = {r1, r2}
  NumShards = 3
  Settings <- MCSettings
  Positions = 2
  Prompts = {0, 2}
  MaxNew = 3
SYMMETRY Symmetry
INVARIANTS
  ResidencyHeld
  SampledFromContext
  ErrorsNeedCompany
