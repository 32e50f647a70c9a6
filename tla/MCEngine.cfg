CONSTANTS
  NoKey = NoKey
  Workers = {w1}
  Actions = {1}
  ConflictKey <- MCConflictKey
  RetryMax = 2
  MaxCrashes = 1
  Types <- MCTypes
  LocalChain = FALSE
  RevealDelay = 2
  RevealWindow = 3
  MaxBlocks = 7
  MaxChanges = 1

SPECIFICATION FairSpec
INVARIANT ReturnedMeansDone
PROPERTY ImplementsQueue
PROPERTY CallsEnd
