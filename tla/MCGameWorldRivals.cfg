CONSTANTS
  Players = {p1, p2}
  NoOwner = NoOwner
  CharactersPerWallet = 1
  LevelCap = 3
  MaxCharacters = 2
  MaxEpoch = 0
  CommitIds = {k1}
  NoCommit = NoCommit
  LootIntents <- MCLootIntents
  RunIntents <- MCRunIntents
  CommitModes <- MCCommitModes
  PremiumAmounts = {}
  RoomCounts = {2}
  RevealDelay = 1
  RevealWindow = 1
  CreditCap = 9
  StoneCap = 0
  SlotCount = 0
  RequiredClears <- MCRequiredClears
  RequiredSlots <- MCRequiredSlots
  FailureDecay <- MCFailureDecay
  RepairFee <- MCRepairFee
  EntryFee <- MCEntryFee
  PremiumMmoCost <- MCPremiumMmoCost
  StoneLevel = 3
  ForgeCosts = {}
  InitialMmo = 4
  MaxGranted = 9

SPECIFICATION Spec
INVARIANT MmoAccounted
PROPERTY CharactersSpec
