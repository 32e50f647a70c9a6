CONSTANTS
  character = character
  NoKey = NoKey
  Workers = {w1, w2}
  Actions = {1, 2}
  ConflictKey <- MCConflictKey
  RetryMax = 2
  MaxCrashes = 1
  Prompts = {1, 2}
  NoRun = 0
  Sessions = {1, 2}
  Streams = {t1}
  Hashes = {h1}
  MaxEvents = 2
  MaxChunks = 2
  MaxDrops = 1

SPECIFICATION DaemonsSpec
INVARIANT WorkIsAccounted
INVARIANT StreamsTellTheRun
INVARIANT AnswersItsPrompt
PROPERTY EveryActionEnds
PROPERTY StreamsEnd
CHECK_DEADLOCK FALSE
