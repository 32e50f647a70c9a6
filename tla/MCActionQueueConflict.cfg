CONSTANTS
  character = character
  NoKey = NoKey
  Workers = {w1, w2}
  Actions = {1, 2}
  ConflictKey <- MCConflictKey
  RetryMax = 2
  MaxCrashes = 0

SPECIFICATION QueueSpec
INVARIANT OneRunningPerKey
