\* Four shards (a model of one block), three transactions, every setting of MCConfigs.
CONSTANTS
  NumShards = 4
  Configs <- MCConfigs
  MaxTxns = 3
  None = None
  Unread = Unread
SPECIFICATION Spec
INVARIANTS
  CachesCoherent
  NoLostUpdate
  TrainsOnPublished
  GuardSeesHeldCandidate
  CacheBudget
