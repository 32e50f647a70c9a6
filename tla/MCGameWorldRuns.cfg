CONSTANTS
  Players = {p1}
  NoOwner = NoOwner
  CharactersPerWallet = 2
  LevelCap = 3
  MaxCharacters = 1
  MaxEpoch = 0
  CommitIds = {k1}
  NoCommit = NoCommit
  LootIntents <- MCLootIntents
  RunIntents <- MCRunIntents
  CommitModes <- MCCommitModes
  PremiumAmounts = {1}
  RoomCounts = {1, 2}
  RevealDelay = 2
  RevealWindow = 3
  CreditCap = 9
  StoneCap = 2
  SlotCount = 1
  RequiredClears <- MCRequiredClears
  RequiredSlots <- MCRequiredSlots
  FailureDecay <- MCFailureDecay
  RepairFee <- MCRepairFee
  EntryFee <- MCEntryFee
  PremiumMmoCost <- MCPremiumMmoCost
  StoneLevel = 3
  ForgeCosts <- MCForgeCosts
  InitialMmo = 7
  MaxGranted = 1

SPECIFICATION FairSpec
INVARIANT FrontierProgress
PROPERTY LevelEarnedByRun
PROPERTY RunEnds
