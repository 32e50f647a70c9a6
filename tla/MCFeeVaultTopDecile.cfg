CONSTANTS
  Players = {p1}
  NoOwner = NoOwner
  CharactersPerWallet = 3
  LevelCap = 3
  MaxCharacters = 3
  MaxEpoch = 2
  BuyAmounts = {2}
  DailyCost <- MCDailyCost
  EpochsPerDay = 2
  PlayersBps = 9
  Bps = 10
  DecileDivisor = 2
  Weight <- MCWeight
  MaxSoldPerDay = 2

SPECIFICATION FeeVaultSpec
PROPERTY TopDecileEarns
