CONSTANTS
  wallet = wallet
  other = other
  Types <- AllTypes
  AllowDeployerClaims = TRUE
  RevealDelay = 2
  RevealWindow = 4
  DefaultTtl = 1
  MaxTtl = 2
  OfferExpiry = 2
  MaxCount = 2
  MaxBlock = 6
  Requests = {r1, r2, r3}
  Wallets = {a1}
  Keys = {k1}
  NoKey = NoKey
  PerAddress = 1
  PerHour = 2
  MinTarget = 1
  MinFaucet = 1
  Treasury = 2
  MaxFaults = 1
  MaxCrashes = 1
  MaxAge = 1
  Holders = {w1, w2}
  XAccounts = {u1, u2}
  NoXAccount = NoXAccount
  Calls = {c1, c2}
  MaxTokens = 2
  Ranked = {1, 2, 3}
  TopLevel = 3
  PageSize = 1
  ToolCalls = {1, 2, 3}
  IdemKeys = {k1, k2}
  Costs = {1, 2}
  SpendCeiling = 3
  MaxFailedTx = 1
  AtOnce = 2
  Polls = {p1, p2}
  LookbackBlocks = 1
  Limit = 2
  Capacity = 3
  LastBlock = 2
  LastIndex = 1
  MaxRows = 3
  MaxRestarts = 1
  Bootstraps = {b1, b2}
  Posts = {q1, q2, q3}
  MaxSessions = 3
  Accounts = {wallet, other}
  Nobody = Nobody
  MaxItems = 3
  Wallet = wallet
  SlotOf <- MCSlotOf
  Score <- MCScore
  InReach = {1, 2, 3}

SPECIFICATION PartsSpec
INVARIANTS
  RefusedAtSomeMoment
  RefusedForGood
  AdviceSuffices
  PaidOnce
  WithinLimit
  LinksConsented
  ListReadsAsOne
  SpendWithinCeiling
  FeedHasNoGap
  SendingMeansStreaming
  WearsTheBest
CHECK_DEADLOCK FALSE
