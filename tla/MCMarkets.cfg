CONSTANTS
  p1 = p1
  p2 = p2
  c1 = c1
  c2 = c2
  c3 = c3
  s1 = s1
  s2 = s2
  head = head
  feet = feet
  Escrow = Escrow
  Rfq = Rfq
  Nobody = Nobody
  NoSet = NoSet
  NoItem = NoItem
  NoPlace = NoPlace
  Players = {p1, p2}
  Contracts = {Escrow, Rfq}
  Characters = {c1, c2, c3}
  OwnerOfCharacter <- MCOwner
  ItemIds = {1, 2, 3}
  Slots = {head, feet}
  SlotOf <- MCSlot
  TierOf <- MCTier
  SetIds = {s1, s2}
  TopLevel = 2
  MaxRerolls = 1
  MaxOffers = 2
  MaxRfqs = 2
  Prices = {1}
  StartMmo = 2
  OfferTtl = 1
  RfqMaxTtl = 1
  MaxItemsPerSide = 2
  MaxTime = 2

SPECIFICATION PartsSpec
INVARIANT GearSound
INVARIANT PromisesBacked
PROPERTY RunGearOnlyShrinks
PROPERTY PromisesKept
CHECK_DEADLOCK FALSE
