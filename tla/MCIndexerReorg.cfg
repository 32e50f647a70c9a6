CONSTANTS
  k1 = k1
  Keys <- MCKeys
  Events <- MCEvents
  Confirmations = 0
  BlockChunk = 2
  MaxBlocksPerTick = 3
  RateLimitRetryMax = 1
  MaxBlocks = 2
  MaxReorg = 1
  MaxUpsets = 1

SPECIFICATION Spec
INVARIANT ReorgSafe
CHECK_DEADLOCK FALSE
