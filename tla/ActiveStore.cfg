\* Two shards, three steps of which the second and the last are flushed, four faults.
CONSTANTS
  NumShards = 2
  MaxSteps = 3
  FlushEvery = 2
  MaxFaults = 4
  NoFile = NoFile
SPECIFICATION FairSpec
INVARIANTS
  ArchiveKept
  TrainsOnAWholeStore
  BoundedLoss
PROPERTY EventuallyDone
