CONSTANTS
  Players = {p1}
  NoOwner = NoOwner
  CharactersPerWallet = 1
  LevelCap = 3
  MaxCharacters = 1
  MaxEpoch = 0
  CommitIds = {k1, k2}
  NoCommit = NoCommit
  LootIntents <- MCLootIntents
  RunIntents <- MCRunIntents
  CommitModes <- MCCommitModes
  PremiumAmounts = {1}
  RoomCounts = {1}
  RevealDelay = 1
  RevealWindow = 1
  CreditCap = 3
  StoneCap = 0
  SlotCount = 0
  RequiredClears <- MCRequiredClears
  RequiredSlots <- MCRequiredSlots
  FailureDecay <- MCFailureDecay
  RepairFee <- MCRepairFee
  EntryFee <- MCEntryFee
  PremiumMmoCost <- MCPremiumMmoCost
  StoneLevel = 3
  ForgeCosts = {}
  InitialMmo = 0
  MaxGranted = 3

SPECIFICATION Spec
SYMMETRY MCSymmetry
INVARIANT BoundCreditsCovered
INVARIANT OneItemPerCredit
PROPERTY CommitsHonoured
