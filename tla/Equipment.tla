----------------------------- MODULE Equipment -----------------------------
(***************************************************************************)
(* Who owns each item and where it is equipped: GameWorld's two mappings   *)
(* equippedItemBySlot and equippedLocationByItemId, and the hook by which  *)
(* Items.sol takes a transferred item off its character. Transfers are     *)
(* not stopped by an active run; equipping, forging and rerolling are.     *)
(*                                                                         *)
(* The stones and the MMO of forging and rerolling are GameWorld's. The    *)
(* enumeration of an owner's items is module Items'.                       *)
(***************************************************************************)
EXTENDS Integers, FiniteSets

CONSTANTS
  Players,         \* wallets
  Contracts,       \* market contracts, which own items but no character
  Nobody,          \* address(0)
  Characters,      \* character ids
  OwnerOfCharacter,
  ItemIds,
  Slots,
  SlotOf, TierOf,  \* immutable part of each item's data
  SetIds, NoSet,   \* sets an item can be forged into
  NoItem, NoPlace,
  TopLevel,        \* bound: best level of a character
  MaxRerolls       \* bound: rerolls of an item

ASSUME EquipmentAssumption ==
  /\ Players \cap Contracts = {} /\ Nobody \notin Players \cup Contracts
  /\ OwnerOfCharacter \in [Characters -> Players]
  /\ NoItem \notin ItemIds /\ NoSet \notin SetIds /\ NoPlace \notin Characters \X Slots
  /\ SlotOf \in [ItemIds -> Slots] /\ TierOf \in [ItemIds -> Nat]
  /\ TopLevel \in Nat \ {0} /\ MaxRerolls \in Nat

Accounts == Players \cup Contracts

Places   == Characters \X Slots

VARIABLES
  ownerOf,                   \* by item; Nobody before it is minted
  setOf,                     \* by item: the set its seed derives
  itemNonce,                 \* by item
  equippedItemBySlot,        \* by place
  equippedLocationByItemId,  \* by item: its place, NoPlace if none
  bestLevel,                 \* by character
  runActive                  \* by character

equipmentVars == << ownerOf, setOf, itemNonce, equippedItemBySlot,
                    equippedLocationByItemId, bestLevel, runActive >>

EquipmentInit ==
  /\ ownerOf   = [i \in ItemIds |-> Nobody]
  /\ setOf     = [i \in ItemIds |-> NoSet]
  /\ itemNonce = [i \in ItemIds |-> 0]
  /\ equippedItemBySlot       = [p \in Places |-> NoItem]
  /\ equippedLocationByItemId = [i \in ItemIds |-> NoPlace]
  /\ bestLevel = [c \in Characters |-> 1]
  /\ runActive = [c \in Characters |-> FALSE]

-----------------------------------------------------------------------------

\* The hook looks at the item only when it changes hands.
Moving(S, to) == {i \in S : ownerOf[i] # to}

\* onItemTransfer for every item of S, which commute: the slot is emptied only
\* if it still holds the item; the location is deleted in every case.
SlotsWithout(S) ==
  [p \in Places |-> IF equippedItemBySlot[p] \in S
                        /\ equippedLocationByItemId[equippedItemBySlot[p]] = p
                    THEN NoItem ELSE equippedItemBySlot[p]]
PlacesWithout(S) == [i \in ItemIds |-> IF i \in S THEN NoPlace ELSE equippedLocationByItemId[i]]

Unequipped(S) ==
  /\ equippedItemBySlot'       = SlotsWithout(S)
  /\ equippedLocationByItemId' = PlacesWithout(S)

OwnersAfter(S, to) == [i \in ItemIds |-> IF i \in S THEN to ELSE ownerOf[i]]

\* One transaction that moves the items of S to one account.
Transferred(S, to) ==
  /\ ownerOf' = OwnersAfter(S, to)
  /\ Unequipped(Moving(S, to))
  /\ UNCHANGED << setOf, itemNonce, bestLevel, runActive >>

-----------------------------------------------------------------------------

\* An opened lootbox mints an item to the character's owner.
Mint(a, i, set) ==
  /\ ownerOf[i] = Nobody
  /\ \A j \in ItemIds : j < i => ownerOf[j] # Nobody
  /\ ownerOf' = [ownerOf EXCEPT ![i] = a]
  /\ setOf'   = [setOf EXCEPT ![i] = set]
  /\ UNCHANGED << itemNonce, equippedItemBySlot, equippedLocationByItemId, bestLevel, runActive >>

\* A plain ERC-721 transfer by the owner, to anyone and even to itself.
Transfer(from, to, i) == ownerOf[i] = from /\ Transferred({i}, to)

\* _equipItem. There is no unequip: another item of the slot displaces the old
\* one, whose location is deleted if it is this place. Seeded fault: the
\* displaced item's location is forgotten.
FreeToEquip(c, i) == equippedLocationByItemId[i] \in {NoPlace, << c, SlotOf[i] >>}

LocationsKeepingDisplaced(place, i) == [equippedLocationByItemId EXCEPT ![i] = place]
LocationsAfterEquip(place, i) ==
  [j \in ItemIds |->
     IF j = i THEN place
     ELSE IF j = equippedItemBySlot[place] /\ equippedLocationByItemId[j] = place THEN NoPlace
     ELSE equippedLocationByItemId[j]]

NextLevelCap(c) == bestLevel[c] + 1

EquipItem(p, c, i) ==
  LET place == << c, SlotOf[i] >> IN
  /\ OwnerOfCharacter[c] = p
  /\ ~runActive[c]
  /\ ownerOf[i] = p
  /\ TierOf[i] <= NextLevelCap(c)
  /\ FreeToEquip(c, i)
  /\ equippedLocationByItemId' = LocationsAfterEquip(place, i)
  /\ equippedItemBySlot'       = [equippedItemBySlot EXCEPT ![place] = i]
  /\ UNCHANGED << ownerOf, setOf, itemNonce, bestLevel, runActive >>

\* The common guards of forgeSetPiece and rerollItemStats. Seeded fault: gear
\* is not locked during a run.
WorkableInRun(p, c, i) ==
  /\ OwnerOfCharacter[c] = p
  /\ ownerOf[i] = p
  /\ equippedItemBySlot[<< c, SlotOf[i] >>] = i
Workable(p, c, i) ==
  /\ OwnerOfCharacter[c] = p
  /\ ~runActive[c]
  /\ ownerOf[i] = p
  /\ equippedItemBySlot[<< c, SlotOf[i] >>] = i

\* forgeSetPiece rewrites the seed and resets the nonce. SetIds are the sets
\* of the items' tier band, the only ones it accepts.
ForgeSetPiece(p, c, i, set) ==
  /\ Workable(p, c, i)
  /\ setOf'     = [setOf EXCEPT ![i] = set]
  /\ itemNonce' = [itemNonce EXCEPT ![i] = 0]
  /\ UNCHANGED << ownerOf, equippedItemBySlot, equippedLocationByItemId, bestLevel, runActive >>

RerollItemStats(p, c, i) ==
  /\ Workable(p, c, i)
  /\ itemNonce[i] < MaxRerolls
  /\ itemNonce' = [itemNonce EXCEPT ![i] = @ + 1]
  /\ UNCHANGED << ownerOf, setOf, equippedItemBySlot, equippedLocationByItemId, bestLevel, runActive >>

\* Of GameWorld's runs, what matters to the gear: when one is active, and that
\* a cleared one may raise the best level.
StartRun(c) ==
  /\ ~runActive[c]
  /\ runActive' = [runActive EXCEPT ![c] = TRUE]
  /\ UNCHANGED << ownerOf, setOf, itemNonce, equippedItemBySlot, equippedLocationByItemId, bestLevel >>

EndRun(c, level) ==
  /\ runActive[c]
  /\ level \in bestLevel[c]..(bestLevel[c] + 1) /\ level <= TopLevel
  /\ runActive' = [runActive EXCEPT ![c] = FALSE]
  /\ bestLevel' = [bestLevel EXCEPT ![c] = level]
  /\ UNCHANGED << ownerOf, setOf, itemNonce, equippedItemBySlot, equippedLocationByItemId >>

EquipmentNext ==
  \/ \E p \in Players, i \in ItemIds, set \in SetIds \cup {NoSet} : Mint(p, i, set)
  \/ \E p \in Players, to \in Accounts, i \in ItemIds : Transfer(p, to, i)
  \/ \E p \in Players, c \in Characters, i \in ItemIds :
       \/ EquipItem(p, c, i)
       \/ RerollItemStats(p, c, i)
       \/ \E set \in SetIds : ForgeSetPiece(p, c, i, set)
  \/ \E c \in Characters : StartRun(c) \/ \E level \in 1..TopLevel : EndRun(c, level)

EquipmentSpec == EquipmentInit /\ [][EquipmentNext]_equipmentVars

-----------------------------------------------------------------------------

\* The variables have their types.
EquipmentTypeOK ==
  /\ ownerOf \in [ItemIds -> Accounts \cup {Nobody}]
  /\ setOf \in [ItemIds -> SetIds \cup {NoSet}]
  /\ itemNonce \in [ItemIds -> 0..MaxRerolls]
  /\ equippedItemBySlot \in [Places -> ItemIds \cup {NoItem}]
  /\ equippedLocationByItemId \in [ItemIds -> Places \cup {NoPlace}]
  /\ bestLevel \in [Characters -> 1..TopLevel]
  /\ runActive \in [Characters -> BOOLEAN]

\* The two mappings are inverse of each other after any sequence of equips,
\* displacements and transfers: no item is worn in two places, and none that
\* is worn is free to be equipped elsewhere (equippedLocationByItemId is all
\* _equipItem and onItemTransfer look at).
MappingsInverse ==
  \A i \in ItemIds, p \in Places : equippedItemBySlot[p] = i <=> equippedLocationByItemId[i] = p

\* What a character wears belongs to the character's owner, whatever market
\* or transfer the item went through. The stats functions skip a slot whose
\* item has another owner, off-chain readers do not: the hook must leave no
\* such slot behind.
WornIsOwned ==
  \A p \in Places : equippedItemBySlot[p] # NoItem =>
    ownerOf[equippedItemBySlot[p]] = OwnerOfCharacter[p[1]]

\* Both, after any sequence of mints, equips, displacements, transfers, trades and runs.
GearSound == MappingsInverse /\ WornIsOwned

\* While a run is active nothing can be put on, changed or improved: the gear
\* of a run can only get less, by items that leave the wallet.
RunGearOnlyShrinks ==
  [][\A p \in Places : runActive[p[1]] /\ runActive'[p[1]] =>
       \/ equippedItemBySlot'[p] = NoItem
       \/ /\ equippedItemBySlot'[p] = equippedItemBySlot[p]
          /\ LET i == equippedItemBySlot[p] IN setOf'[i] = setOf[i] /\ itemNonce'[i] = itemNonce[i]
    ]_equipmentVars
=============================================================================
