CONSTANTS
  k1 = k1
  Keys <- MCKeys
  Events <- MCEvents
  Confirmations = 1
  BlockChunk = 2
  MaxBlocksPerTick = 2
  RateLimitRetryMax = 1
  MaxBlocks = 3
  MaxReorg = 1
  MaxUpsets = 2

SPECIFICATION FairSpec
INVARIANT SkippedOnlyIfInterrupted
INVARIANT MirrorsChain
PROPERTY ImplementsFeed
PROPERTY CatchesUp
CHECK_DEADLOCK FALSE
