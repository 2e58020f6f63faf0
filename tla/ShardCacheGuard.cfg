\* Prefetch off and no module cache, as the defaults have it: the replay reads the live files.
CONSTANTS
  NumShards = 4
  Configs <- MCGuardNoCache
  MaxTxns = 2
  None = None
  Unread = Unread
SPECIFICATION Spec
INVARIANT GuardEvaluatesCandidate
