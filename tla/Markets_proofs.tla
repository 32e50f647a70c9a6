--------------------------- MODULE Markets_proofs ---------------------------
(***************************************************************************)
(* The two markets can keep every promise they have taken on, and keep it, *)
(* for any number of players, items, offers and requests. What is escrowed *)
(* leaves the escrow only when its offer ends, because no player can move  *)
(* an item of a contract and no offer can name an item it does not own;    *)
(* the MMO of the requests changes only together with their records.       *)
(***************************************************************************)
EXTENDS Markets, Sums

(***************************************************************************)
(* The gear: the two equipment mappings are inverse of each other and what *)
(* is worn belongs to the wearer, for any number of players, characters,   *)
(* slots and items. The three invariants are inductive together: a         *)
(* transfer empties the right slot because the mappings agree, and         *)
(* equipping keeps them agreeing because what is worn has its owner's      *)
(* wallet only.                                                            *)
(***************************************************************************)
EquipmentInv == EquipmentTypeOK /\ MappingsInverse /\ WornIsOwned

\* The part of the state the invariants relate.
gearVars == << ownerOf, equippedItemBySlot, equippedLocationByItemId >>

-----------------------------------------------------------------------------

\* With nothing worn the mappings are inverse.
LEMMA EquipmentInitInv == EquipmentInit => EquipmentInv
  <1> SUFFICES ASSUME EquipmentInit PROVE EquipmentInv
    OBVIOUS
  <1> USE EquipmentAssumption DEF EquipmentInit
  <1>1. EquipmentTypeOK
    BY DEF EquipmentTypeOK
  <1>2. MappingsInverse /\ WornIsOwned
    BY DEF MappingsInverse, WornIsOwned, Places
  <1> QED BY <1>1, <1>2 DEF EquipmentInv

\* Steps that touch neither the owners nor the mappings keep them related.
LEMMA GearUntouched ==
  ASSUME MappingsInverse, WornIsOwned, UNCHANGED gearVars
  PROVE  MappingsInverse' /\ WornIsOwned'
  BY DEF gearVars, MappingsInverse, WornIsOwned

\* An item nobody owns is not worn, so minting it disturbs nothing.
LEMMA MintInv ==
  ASSUME EquipmentInv, NEW a \in Players, NEW i \in ItemIds, NEW set \in SetIds \cup {NoSet},
         Mint(a, i, set)
  PROVE  EquipmentInv'
  <1> USE EquipmentAssumption
  <1>0. EquipmentTypeOK /\ MappingsInverse /\ WornIsOwned
    BY DEF EquipmentInv
  <1>1. EquipmentTypeOK'
    BY <1>0 DEF EquipmentTypeOK, Mint, Accounts
  <1>2. MappingsInverse'
    BY <1>0 DEF MappingsInverse, Mint
  <1>3. ASSUME NEW p \in Places, equippedItemBySlot[p] # NoItem
        PROVE  ownerOf'[equippedItemBySlot[p]] = OwnerOfCharacter[p[1]]
    <2>1. /\ ownerOf[equippedItemBySlot[p]] = OwnerOfCharacter[p[1]]
          /\ OwnerOfCharacter[p[1]] \in Players
      BY <1>0, <1>3 DEF WornIsOwned, Places
    <2>2. equippedItemBySlot[p] # i
      BY <2>1 DEF Mint
    <2> QED BY <1>0, <1>3, <2>1, <2>2 DEF Mint, EquipmentTypeOK
  <1>4. WornIsOwned'
    BY <1>3 DEF WornIsOwned, Mint
  <1> QED BY <1>1, <1>2, <1>4 DEF EquipmentInv

\* The hook takes off what changes hands, whoever the items go to: what is still
\* worn has kept its owner.
LEMMA TakenOffInv ==
  ASSUME EquipmentInv, NEW moving \in SUBSET ItemIds, Unequipped(moving),
         ownerOf' \in [ItemIds -> Accounts \cup {Nobody}],
         \A i \in ItemIds \ moving : ownerOf'[i] = ownerOf[i],
         UNCHANGED << setOf, itemNonce, bestLevel, runActive >>
  PROVE  EquipmentInv'
  <1> USE EquipmentAssumption
  <1>0. EquipmentTypeOK /\ MappingsInverse /\ WornIsOwned
    BY DEF EquipmentInv
  <1>1. \A p \in Places : equippedItemBySlot'[p] =
          IF equippedItemBySlot[p] \in moving THEN NoItem ELSE equippedItemBySlot[p]
    BY <1>0 DEF Unequipped, SlotsWithout, MappingsInverse
  <1>2. \A i \in ItemIds : equippedLocationByItemId'[i] =
          IF i \in moving THEN NoPlace ELSE equippedLocationByItemId[i]
    BY DEF Unequipped, PlacesWithout
  <1>3. EquipmentTypeOK'
    <2>1. equippedItemBySlot' \in [Places -> ItemIds \cup {NoItem}]
      BY <1>0 DEF Unequipped, SlotsWithout, EquipmentTypeOK
    <2>2. equippedLocationByItemId' \in [ItemIds -> Places \cup {NoPlace}]
      BY <1>0 DEF Unequipped, PlacesWithout, EquipmentTypeOK
    <2> QED BY <1>0, <2>1, <2>2 DEF EquipmentTypeOK
  <1>4. MappingsInverse'
    <2> SUFFICES ASSUME NEW i \in ItemIds, NEW p \in Places
                 PROVE  equippedItemBySlot'[p] = i <=> equippedLocationByItemId'[i] = p
      BY DEF MappingsInverse
    <2> QED BY <1>0, <1>1, <1>2 DEF MappingsInverse, Places
  <1>5. WornIsOwned'
    <2> SUFFICES ASSUME NEW p \in Places, equippedItemBySlot'[p] # NoItem
                 PROVE  ownerOf'[equippedItemBySlot'[p]] = OwnerOfCharacter[p[1]]
      BY DEF WornIsOwned
    <2> QED BY <1>0, <1>1 DEF WornIsOwned, EquipmentTypeOK
  <1> QED BY <1>3, <1>4, <1>5 DEF EquipmentInv

\* A transfer to one account moves, and takes off, what the account does not own.
LEMMA TransferredInv ==
  ASSUME EquipmentInv, NEW S \in SUBSET ItemIds, NEW to \in Accounts, Transferred(S, to)
  PROVE  EquipmentInv'
  <1> DEFINE moving == Moving(S, to)
  <1>1. EquipmentTypeOK /\ moving \in SUBSET ItemIds
    BY DEF EquipmentInv, Moving
  <1>2. \A i \in ItemIds \ moving : ownerOf'[i] = ownerOf[i]
    BY DEF Transferred, OwnersAfter, Moving
  <1>3. ownerOf' \in [ItemIds -> Accounts \cup {Nobody}]
    BY <1>1 DEF Transferred, OwnersAfter, EquipmentTypeOK
  <1>4. /\ Unequipped(moving)
        /\ UNCHANGED << setOf, itemNonce, bestLevel, runActive >>
    BY DEF Transferred
  <1> HIDE DEF moving
  <1> QED BY <1>1, <1>2, <1>3, <1>4, TakenOffInv

\* Equipping displaces at most the item of the place, and an item worn at
\* another place is refused.
LEMMA EquipItemInv ==
  ASSUME EquipmentInv, NEW a \in Players, NEW c \in Characters, NEW i \in ItemIds,
         EquipItem(a, c, i)
  PROVE  EquipmentInv'
  <1> USE EquipmentAssumption
  <1> DEFINE place == << c, SlotOf[i] >>
  <1>0. /\ EquipmentTypeOK /\ MappingsInverse /\ WornIsOwned
        /\ place \in Places /\ place # NoPlace /\ place[1] = c
    BY DEF EquipmentInv, Places
  <1>1. \A p \in Places : equippedItemBySlot'[p] = IF p = place THEN i ELSE equippedItemBySlot[p]
    BY <1>0 DEF EquipItem, EquipmentTypeOK
  <1>2. \A j \in ItemIds : equippedLocationByItemId'[j] =
          IF j = i THEN place
          ELSE IF equippedLocationByItemId[j] = place THEN NoPlace
          ELSE equippedLocationByItemId[j]
    BY <1>0 DEF EquipItem, LocationsAfterEquip, MappingsInverse
  <1>3. /\ equippedLocationByItemId[i] \in {NoPlace, place}
        /\ ownerOf[i] = OwnerOfCharacter[c]
        /\ UNCHANGED << ownerOf, setOf, itemNonce, bestLevel, runActive >>
    BY DEF EquipItem, FreeToEquip
  <1>4. EquipmentTypeOK'
    <2>1. equippedItemBySlot' \in [Places -> ItemIds \cup {NoItem}]
      BY <1>0 DEF EquipItem, EquipmentTypeOK
    <2>2. equippedLocationByItemId' \in [ItemIds -> Places \cup {NoPlace}]
      BY <1>0 DEF EquipItem, LocationsAfterEquip, EquipmentTypeOK
    <2> QED BY <1>0, <1>3, <2>1, <2>2 DEF EquipmentTypeOK
  <1> HIDE DEF place
  <1>5. MappingsInverse'
    <2> SUFFICES ASSUME NEW j \in ItemIds, NEW p \in Places
                 PROVE  equippedItemBySlot'[p] = j <=> equippedLocationByItemId'[j] = p
      BY DEF MappingsInverse
    <2>1. equippedItemBySlot[p] = j <=> equippedLocationByItemId[j] = p
      BY <1>0 DEF MappingsInverse
    <2>2. NoPlace \notin Places
      BY DEF Places
    <2>3. CASE j = i
      BY <1>0, <1>1, <1>2, <1>3, <2>1, <2>2, <2>3
    <2>4. CASE j # i /\ p = place
      BY <1>0, <1>1, <1>2, <2>1, <2>2, <2>4
    <2>5. CASE j # i /\ p # place
      BY <1>0, <1>1, <1>2, <2>1, <2>2, <2>5
    <2> QED BY <2>3, <2>4, <2>5
  <1>6. WornIsOwned'
    BY <1>0, <1>1, <1>3 DEF WornIsOwned
  <1> QED BY <1>4, <1>5, <1>6 DEF EquipmentInv

\* Every transaction keeps the three invariants together.
LEMMA EquipmentNextInv ==
  ASSUME EquipmentInv, [EquipmentNext]_equipmentVars
  PROVE  EquipmentInv'
  <1> USE EquipmentAssumption
  <1>0. EquipmentTypeOK /\ MappingsInverse /\ WornIsOwned
    BY DEF EquipmentInv
  <1>1. ASSUME NEW p \in Players, NEW i \in ItemIds, NEW set \in SetIds \cup {NoSet},
               Mint(p, i, set)
        PROVE  EquipmentInv'
    BY <1>1, MintInv
  <1>2. ASSUME NEW p \in Players, NEW to \in Accounts, NEW i \in ItemIds, Transfer(p, to, i)
        PROVE  EquipmentInv'
    BY <1>2, TransferredInv, {i} \in SUBSET ItemIds DEF Transfer
  <1>3. ASSUME NEW p \in Players, NEW c \in Characters, NEW i \in ItemIds, EquipItem(p, c, i)
        PROVE  EquipmentInv'
    BY <1>3, EquipItemInv
  <1>4. ASSUME NEW p \in Players, NEW c \in Characters, NEW i \in ItemIds, RerollItemStats(p, c, i)
        PROVE  EquipmentInv'
    <2>1. EquipmentTypeOK'
      BY <1>0, <1>4 DEF RerollItemStats, EquipmentTypeOK
    <2> QED BY <1>0, <1>4, <2>1, GearUntouched DEF RerollItemStats, gearVars, EquipmentInv
  <1>5. ASSUME NEW p \in Players, NEW c \in Characters, NEW i \in ItemIds, NEW set \in SetIds,
               ForgeSetPiece(p, c, i, set)
        PROVE  EquipmentInv'
    <2>1. EquipmentTypeOK'
      BY <1>0, <1>5 DEF ForgeSetPiece, EquipmentTypeOK
    <2> QED BY <1>0, <1>5, <2>1, GearUntouched DEF ForgeSetPiece, gearVars, EquipmentInv
  <1>6. ASSUME NEW c \in Characters, StartRun(c)
        PROVE  EquipmentInv'
    <2>1. EquipmentTypeOK'
      BY <1>0, <1>6 DEF StartRun, EquipmentTypeOK
    <2> QED BY <1>0, <1>6, <2>1, GearUntouched DEF StartRun, gearVars, EquipmentInv
  <1>7. ASSUME NEW c \in Characters, NEW level \in 1..TopLevel, EndRun(c, level)
        PROVE  EquipmentInv'
    <2>1. EquipmentTypeOK'
      BY <1>0, <1>7 DEF EndRun, EquipmentTypeOK
    <2> QED BY <1>0, <1>7, <2>1, GearUntouched DEF EndRun, gearVars, EquipmentInv
  <1>8. CASE UNCHANGED equipmentVars
    <2>1. EquipmentTypeOK'
      BY <1>0, <1>8 DEF equipmentVars, EquipmentTypeOK
    <2> QED BY <1>0, <1>8, <2>1, GearUntouched DEF equipmentVars, gearVars, EquipmentInv
  <1> QED BY <1>1, <1>2, <1>3, <1>4, <1>5, <1>6, <1>7, <1>8 DEF EquipmentNext

\* Every variable keeps its type, the mappings stay inverse of each other and
\* whatever is worn belongs to the wearer.
THEOREM EquipmentAlwaysConsistent == EquipmentSpec => []EquipmentInv
  <1> QED BY EquipmentInitInv, EquipmentNextInv, PTL DEF EquipmentSpec

\* equippedItemBySlot and equippedLocationByItemId agree after any sequence of
\* equips, displacements and transfers.
THEOREM MappingsAlwaysInverse == EquipmentSpec => []MappingsInverse
  <1>1. EquipmentInv => MappingsInverse
    BY DEF EquipmentInv
  <1> QED BY <1>1, EquipmentAlwaysConsistent, PTL

\* No slot keeps an item that has left the wallet of its character's owner.
THEOREM WornAlwaysOwned == EquipmentSpec => []WornIsOwned
  <1>1. EquipmentInv => WornIsOwned
    BY DEF EquipmentInv
  <1> QED BY <1>1, EquipmentAlwaysConsistent, PTL

\* The two together: the mappings agree, and nothing worn is somebody else's.
THEOREM GearAlwaysSound == EquipmentSpec => []GearSound
  BY MappingsAlwaysInverse, WornAlwaysOwned, PTL DEF GearSound

-----------------------------------------------------------------------------

\* RunGearOnlyShrinks for one place: what it wears is taken off or stays as it is.
OnlyShrinks(p) ==
  \/ equippedItemBySlot'[p] = NoItem
  \/ /\ equippedItemBySlot'[p] = equippedItemBySlot[p]
     /\ setOf'[equippedItemBySlot[p]] = setOf[equippedItemBySlot[p]]
     /\ itemNonce'[equippedItemBySlot[p]] = itemNonce[equippedItemBySlot[p]]

\* An item that is worked on is worn by a character without a run, and by no
\* other.
LEMMA WorkedItemIsNotInRun ==
  ASSUME EquipmentInv, NEW a \in Players, NEW c \in Characters, NEW i \in ItemIds,
         Workable(a, c, i), NEW p \in Places, runActive[p[1]]
  PROVE  equippedItemBySlot[p] # i
  <1>1. << c, SlotOf[i] >> \in Places
    BY EquipmentAssumption DEF Places
  <1>2. SUFFICES ASSUME equippedItemBySlot[p] = i PROVE FALSE
    OBVIOUS
  <1>3. p = << c, SlotOf[i] >>
    BY <1>1, <1>2 DEF EquipmentInv, MappingsInverse, Workable
  <1> QED BY <1>3 DEF Workable

\* What RunGearOnlyShrinks says of one step and one place, action by action.
LEMMA StepOnlyShrinks ==
  ASSUME EquipmentInv, [EquipmentNext]_equipmentVars, NEW p \in Places,
         runActive[p[1]], runActive'[p[1]]
  PROVE  OnlyShrinks(p)
  <1> USE EquipmentAssumption
  <1>0. /\ EquipmentTypeOK /\ MappingsInverse /\ WornIsOwned
        /\ p[1] \in Characters /\ OwnerOfCharacter[p[1]] \in Players
        /\ equippedItemBySlot[p] \in ItemIds \cup {NoItem}
    BY DEF EquipmentInv, Places, EquipmentTypeOK
  <1>1. ASSUME NEW a \in Players, NEW i \in ItemIds, NEW set \in SetIds \cup {NoSet}, Mint(a, i, set)
        PROVE  OnlyShrinks(p)
    <2>1. equippedItemBySlot[p] # NoItem => equippedItemBySlot[p] # i
      BY <1>0, <1>1 DEF WornIsOwned, Mint
    <2> QED BY <1>0, <1>1, <2>1 DEF Mint, OnlyShrinks, EquipmentTypeOK
  <1>2. ASSUME NEW a \in Players, NEW to \in Accounts, NEW i \in ItemIds, Transfer(a, to, i)
        PROVE  OnlyShrinks(p)
    BY <1>2 DEF Transfer, Transferred, Unequipped, SlotsWithout, OnlyShrinks
  <1>3. ASSUME NEW a \in Players, NEW c \in Characters, NEW i \in ItemIds, EquipItem(a, c, i)
        PROVE  OnlyShrinks(p)
    <2>1. p # << c, SlotOf[i] >>
      BY <1>3 DEF EquipItem
    <2> QED BY <1>0, <1>3, <2>1 DEF EquipItem, OnlyShrinks, EquipmentTypeOK
  <1>4. ASSUME NEW a \in Players, NEW c \in Characters, NEW i \in ItemIds, RerollItemStats(a, c, i)
        PROVE  OnlyShrinks(p)
    <2>1. equippedItemBySlot[p] # i
      BY <1>4, WorkedItemIsNotInRun DEF RerollItemStats
    <2> QED BY <1>0, <1>4, <2>1 DEF RerollItemStats, OnlyShrinks, EquipmentTypeOK
  <1>5. ASSUME NEW a \in Players, NEW c \in Characters, NEW i \in ItemIds, NEW set \in SetIds,
               ForgeSetPiece(a, c, i, set)
        PROVE  OnlyShrinks(p)
    <2>1. equippedItemBySlot[p] # i
      BY <1>5, WorkedItemIsNotInRun DEF ForgeSetPiece
    <2> QED BY <1>0, <1>5, <2>1 DEF ForgeSetPiece, OnlyShrinks, EquipmentTypeOK
  <1>6. ASSUME NEW c \in Characters, StartRun(c) \/ \E level \in 1..TopLevel : EndRun(c, level)
        PROVE  OnlyShrinks(p)
    BY <1>6 DEF StartRun, EndRun, OnlyShrinks
  <1>7. CASE UNCHANGED equipmentVars
    BY <1>7 DEF equipmentVars, OnlyShrinks
  <1> QED BY <1>1, <1>2, <1>3, <1>4, <1>5, <1>6, <1>7 DEF EquipmentNext

\* Nothing is put on, changed or improved on a character whose run is active.
THEOREM RunGearAlwaysShrinks == EquipmentSpec => RunGearOnlyShrinks
  <1>1. ASSUME EquipmentInv, [EquipmentNext]_equipmentVars
        PROVE  [\A p \in Places : runActive[p[1]] /\ runActive'[p[1]] =>
                  \/ equippedItemBySlot'[p] = NoItem
                  \/ /\ equippedItemBySlot'[p] = equippedItemBySlot[p]
                     /\ LET i == equippedItemBySlot[p]
                        IN  setOf'[i] = setOf[i] /\ itemNonce'[i] = itemNonce[i]
               ]_equipmentVars
    BY <1>1, StepOnlyShrinks DEF OnlyShrinks
  <1> QED BY <1>1, EquipmentAlwaysConsistent, PTL DEF EquipmentSpec, RunGearOnlyShrinks

-----------------------------------------------------------------------------
(* The records of the markets *)

\* Records not written yet are inactive, an active one is some player's.
OfferRecords ==
  \A o \in OfferIds :
    /\ o >= nextOfferId => ~offers[o].active
    /\ offers[o].active => offers[o].maker \in Players

RfqRecords ==
  \A r \in RfqIds :
    /\ r >= nextRfqId => ~rfqs[r].active
    /\ rfqs[r].active => rfqs[r].maker \in Players /\ ~rfqs[r].filled

\* The MMO one request holds, and all of them.
HeldIn(q, r) == IF q[r].active THEN q[r].mmoOffered ELSE 0
HeldBy(q)    == SumFunctionOnSet([r \in RfqIds |-> HeldIn(q, r)], RfqIds)

RfqBooks == mmo[Rfq] = HeldBy(rfqs)

MarketsInv ==
  /\ EquipmentInv /\ MarketsTypeOK
  /\ OfferRecords /\ OffersBacked
  /\ RfqRecords /\ RfqBooks

-----------------------------------------------------------------------------
(* The accounts                                                            *)

\* The contracts are accounts, and no players.
LEMMA AccountFacts ==
  /\ Escrow \in Accounts /\ Rfq \in Accounts /\ Players \subseteq Accounts
  /\ Escrow \notin Players /\ Rfq \notin Players /\ Escrow # Nobody /\ Nobody \notin Players
  BY EquipmentAssumption, MarketsAssumption DEF Accounts

\* A price, asked or not, is an amount.
LEMMA PricesNat == \A n \in Prices \cup {0} : n \in Nat
<1>1. Prices \subseteq Nat
  BY MarketsAssumption
<1> QED BY <1>1

\* What a payment does to each balance, whoever pays whom.
LEMMA PaidBalances ==
  ASSUME MarketsTypeOK, NEW from \in Accounts, NEW to \in Accounts, NEW n \in Nat, mmo[from] >= n
  PROVE  /\ Paid(from, to, n) \in [Accounts -> Nat]
         /\ from # to => /\ Paid(from, to, n)[from] = mmo[from] - n
                         /\ Paid(from, to, n)[to] = mmo[to] + n
         /\ \A a \in Accounts \ {from, to} : Paid(from, to, n)[a] = mmo[a]
  BY DEF MarketsTypeOK, Paid

-----------------------------------------------------------------------------
(* The sum of the requests                                                 *)

LEMMA HeldNat ==
  ASSUME NEW q \in [RfqIds -> RFQ], NEW r \in RfqIds
  PROVE  HeldIn(q, r) \in Nat
<1>1. q[r] \in RFQ
  OBVIOUS
<1>2. q[r].mmoOffered \in Prices \cup {0}
  BY <1>1 DEF RFQ
<1>3. q[r].mmoOffered \in Nat
  BY <1>2, PricesNat
<1> QED BY <1>3 DEF HeldIn

LEMMA RfqIdsFinite == IsFiniteSet(RfqIds)
  BY FS_Interval, MarketsAssumption DEF RfqIds

\* A request is part of what is held.
LEMMA HeldWithin ==
  ASSUME NEW q \in [RfqIds -> RFQ], NEW a \in RfqIds
  PROVE  HeldBy(q) \in Nat /\ HeldIn(q, a) <= HeldBy(q)
<1> DEFINE f == [r \in RfqIds |-> HeldIn(q, r)]
<1>1. \A r \in RfqIds : f[r] \in Nat
  BY HeldNat
<1>2. HeldBy(q) = SumFunctionOnSet(f, RfqIds) /\ f[a] = HeldIn(q, a)
  BY DEF HeldBy
<1> HIDE DEF f
<1>3. /\ SumFunctionOnSet(f, RfqIds \ {a}) \in Nat
      /\ SumFunctionOnSet(f, RfqIds) = f[a] + SumFunctionOnSet(f, RfqIds \ {a})
  BY <1>1, RfqIdsFinite, SumStep
<1>4. f[a] \in Nat
  BY <1>1
<1> QED BY <1>2, <1>3, <1>4

\* A change of one record changes the sum by as much.
LEMMA HeldChange ==
  ASSUME NEW q \in [RfqIds -> RFQ], NEW q2 \in [RfqIds -> RFQ], NEW a \in RfqIds,
         \A r \in RfqIds \ {a} : q2[r] = q[r]
  PROVE  HeldBy(q2) = HeldBy(q) - HeldIn(q, a) + HeldIn(q2, a)
<1> DEFINE f == [r \in RfqIds |-> HeldIn(q, r)]
           g == [r \in RfqIds |-> HeldIn(q2, r)]
<1>1. \A r \in RfqIds : f[r] \in Nat /\ g[r] \in Nat
  BY HeldNat
<1>2. \A r \in RfqIds \ {a} : g[r] = f[r]
  BY DEF HeldIn
<1>3. HeldBy(q) = SumFunctionOnSet(f, RfqIds) /\ f[a] = HeldIn(q, a)
  BY DEF HeldBy
<1>4. HeldBy(q2) = SumFunctionOnSet(g, RfqIds) /\ g[a] = HeldIn(q2, a)
  BY DEF HeldBy
<1> HIDE DEF f, g
<1>5. SumFunctionOnSet(g, RfqIds) = SumFunctionOnSet(f, RfqIds) - f[a] + g[a]
  BY <1>1, <1>2, RfqIdsFinite, SumChange
<1> QED BY <1>3, <1>4, <1>5

\* Requests no longer active add nothing: the sum over all records is the sum over
\* those that are.
LEMMA HeldIsOfActive ==
  ASSUME NEW q \in [RfqIds -> RFQ]
  PROVE  SumFunction([r \in {x \in RfqIds : q[x].active} |-> q[r].mmoOffered]) = HeldBy(q)
<1> DEFINE T == {x \in RfqIds : q[x].active}
           f == [r \in RfqIds |-> HeldIn(q, r)]
           g == [r \in T |-> q[r].mmoOffered]
<1>1. \A r \in RfqIds : f[r] \in Nat
  BY HeldNat
<1>2. \A r \in RfqIds \ T : f[r] = 0
  BY DEF HeldIn
<1>3. \A r \in T : f[r] \in Nat /\ g[r] = f[r]
  BY <1>1 DEF HeldIn
<1>4. SumFunction(g) = SumFunctionOnSet(g, T) /\ HeldBy(q) = SumFunctionOnSet(f, RfqIds)
  BY DEF SumFunction, HeldBy
<1>5. T \in SUBSET RfqIds
  OBVIOUS
<1> HIDE DEF f, g, T
<1>6. IsFiniteSet(T) /\ SumFunctionOnSet(f, T) = SumFunctionOnSet(f, RfqIds)
  BY <1>1, <1>2, <1>5, RfqIdsFinite, SumSubset
<1>7. SumFunctionOnSet(g, T) = SumFunctionOnSet(f, T)
  BY <1>3, <1>6, SumAgree
<1> QED BY <1>4, <1>6, <1>7 DEF g, T

-----------------------------------------------------------------------------

\* Nothing is promised yet.
LEMMA MarketsInitInv == MarketsInit => MarketsInv
<1> SUFFICES ASSUME MarketsInit PROVE MarketsInv
  OBVIOUS
<1> USE DEF MarketsInit
<1>1. EquipmentInv
  BY EquipmentInitInv
<1>2. MarketsTypeOK
  <2>1. NoOffer \in Offer /\ NoRFQ \in RFQ
    BY MarketsAssumption DEF NoOffer, Offer, NoRFQ, RFQ
  <2> QED BY <1>1, <2>1, MarketsAssumption DEF MarketsTypeOK, EquipmentInv
<1>3. OfferRecords /\ OffersBacked /\ RfqRecords
  BY DEF OfferRecords, OffersBacked, RfqRecords, NoOffer, NoRFQ
<1>4. RfqBooks
  <2> DEFINE f == [r \in RfqIds |-> HeldIn(rfqs, r)]
  <2>1. \A r \in RfqIds : f[r] = 0
    BY DEF NoRFQ, HeldIn
  <2>2. HeldBy(rfqs) = SumFunctionOnSet(f, RfqIds)
    BY DEF HeldBy
  <2> HIDE DEF f
  <2>3. SumFunctionOnSet(f, RfqIds) = Cardinality(RfqIds) * 0 /\ Cardinality(RfqIds) \in Nat
    BY <2>1, RfqIdsFinite, SumConstant, FS_CardinalityType
  <2>4. mmo[Rfq] = 0
    BY AccountFacts
  <2> QED BY <2>2, <2>3, <2>4 DEF RfqBooks
<1> QED BY <1>1, <1>2, <1>3, <1>4 DEF MarketsInv

\* Offers nobody touches stay backed as long as the escrow keeps its items.
LEMMA OffersFrame ==
  ASSUME MarketsInv, UNCHANGED << nextOfferId, offers >>,
         \A i \in ItemIds : ownerOf[i] = Escrow => ownerOf'[i] = Escrow
  PROVE  OfferRecords' /\ OffersBacked'
<1>1. MarketsTypeOK /\ OfferRecords /\ OffersBacked
  BY DEF MarketsInv
<1>2. \A o \in OfferIds : offers[o].offered \subseteq ItemIds
  BY <1>1 DEF MarketsTypeOK, Offer
<1>3. OfferRecords'
  BY <1>1 DEF OfferRecords
<1>4. OffersBacked'
  BY <1>1, <1>2 DEF OffersBacked
<1> QED BY <1>3, <1>4

\* Requests nobody touches stay backed as long as the contract keeps its MMO.
LEMMA RfqFrame ==
  ASSUME MarketsInv, UNCHANGED << nextRfqId, rfqs >>, mmo'[Rfq] = mmo[Rfq]
  PROVE  RfqRecords' /\ RfqBooks'
  BY DEF MarketsInv, RfqRecords, RfqBooks

\* No player moves what a contract owns.
LEMMA ContractsKeep ==
  ASSUME EquipmentInv, [EquipmentNext]_equipmentVars, NEW i \in ItemIds, ownerOf[i] = Escrow
  PROVE  ownerOf'[i] = Escrow
<1>1. ownerOf \in [ItemIds -> Accounts \cup {Nobody}] /\ ownerOf[i] \notin Players
      /\ ownerOf[i] # Nobody
  BY AccountFacts DEF EquipmentInv, EquipmentTypeOK
<1>2. ASSUME NEW p \in Players, NEW j \in ItemIds, NEW set \in SetIds \cup {NoSet}, Mint(p, j, set)
      PROVE  ownerOf'[i] = Escrow
  BY <1>1, <1>2 DEF Mint
<1>3. ASSUME NEW p \in Players, NEW to \in Accounts, NEW j \in ItemIds, Transfer(p, to, j)
      PROVE  ownerOf'[i] = Escrow
  BY <1>1, <1>3 DEF Transfer, Transferred, OwnersAfter
<1> QED BY <1>1, <1>2, <1>3
        DEF EquipmentNext, equipmentVars, EquipItem, RerollItemStats, ForgeSetPiece, StartRun, EndRun

\* What happens to the gear alone.
LEMMA EquipmentStepInv ==
  ASSUME MarketsInv, [EquipmentNext]_equipmentVars, UNCHANGED marketVars
  PROVE  MarketsInv'
<1>1. EquipmentInv'
  BY EquipmentNextInv DEF MarketsInv
<1>2. \A i \in ItemIds : ownerOf[i] = Escrow => ownerOf'[i] = Escrow
  BY ContractsKeep DEF MarketsInv
<1>3. UNCHANGED << now, mmo, nextOfferId, offers, nextRfqId, rfqs >>
  BY DEF marketVars
<1>4. MarketsTypeOK'
  BY <1>1, <1>3 DEF MarketsInv, MarketsTypeOK, EquipmentInv
<1> QED BY <1>1, <1>2, <1>3, <1>4, OffersFrame, RfqFrame DEF MarketsInv

\* The clock.
LEMMA TickInv ==
  ASSUME MarketsInv, Tick
  PROVE  MarketsInv'
<1>1. /\ UNCHANGED equipmentVars
      /\ UNCHANGED << mmo, nextOfferId, offers, nextRfqId, rfqs >>
  BY DEF Tick
<1>2. EquipmentInv'
  BY <1>1, EquipmentNextInv DEF MarketsInv
<1>3. MarketsTypeOK'
  <2>1. now' \in 0..MaxTime
    BY MarketsAssumption DEF Tick, MarketsInv, MarketsTypeOK
  <2> QED BY <1>1, <1>2, <2>1 DEF MarketsInv, MarketsTypeOK, EquipmentInv
<1>4. \A i \in ItemIds : ownerOf[i] = Escrow => ownerOf'[i] = Escrow
  BY <1>1 DEF equipmentVars
<1> QED BY <1>1, <1>2, <1>3, <1>4, OffersFrame, RfqFrame DEF MarketsInv

-----------------------------------------------------------------------------
(* TradeEscrow                                                             *)

\* What the maker gives is his: it is in no other offer, and moves into the escrow.
LEMMA CreateOfferInv ==
  ASSUME MarketsInv, NEW p \in Players, NEW offered \in Side, NEW requested \in Side,
         NEW price \in Prices \cup {0}, CreateOffer(p, offered, requested, price)
  PROVE  MarketsInv'
<1> DEFINE new == [maker |-> p, offered |-> offered, requested |-> requested,
                   requestedMmo |-> price, expiry |-> now + OfferTtl, active |-> TRUE]
<1>0. /\ EquipmentInv /\ EquipmentTypeOK /\ MarketsTypeOK /\ OfferRecords /\ OffersBacked
      /\ offered \in SUBSET ItemIds /\ offered # {} /\ requested \in SUBSET ItemIds
  BY DEF MarketsInv, EquipmentInv, Side
<1>1. EquipmentInv'
  BY <1>0, AccountFacts, TransferredInv DEF CreateOffer
<1>2. PICK a \in OfferIds : a = nextOfferId
  BY <1>0, MarketsAssumption DEF CreateOffer, MarketsTypeOK, OfferIds
<1>3. /\ offers' = [offers EXCEPT ![a] = new]
      /\ nextOfferId' = a + 1
      /\ UNCHANGED << now, mmo, nextRfqId, rfqs >>
  BY <1>2 DEF CreateOffer
<1>4. new \in Offer
  <2>1. now + OfferTtl \in 0..(MaxTime + OfferTtl)
    BY <1>0, MarketsAssumption DEF MarketsTypeOK
  <2> QED BY <1>0, <2>1 DEF Offer
<1>5. MarketsTypeOK'
  <2>1. offers' \in [OfferIds -> Offer]
    BY <1>0, <1>3, <1>4 DEF MarketsTypeOK
  <2>2. nextOfferId' \in 1..(MaxOffers + 1)
    BY <1>3, MarketsAssumption DEF OfferIds
  <2> QED BY <1>0, <1>1, <1>3, <2>1, <2>2 DEF MarketsTypeOK, EquipmentInv
<1>6. /\ offers'[a] = new
      /\ \A o \in OfferIds \ {a} : offers'[o] = offers[o]
  BY <1>0, <1>3 DEF MarketsTypeOK
<1>61. new.offered = offered /\ new.active = TRUE /\ new.maker = p
  OBVIOUS
<1> HIDE DEF new
<1>7. OfferRecords'
  BY <1>0, <1>2, <1>3, <1>6, <1>61, MarketsAssumption DEF OfferRecords, OfferIds
<1>8. \A i \in ItemIds : ownerOf'[i] = IF i \in offered THEN Escrow ELSE ownerOf[i]
  BY DEF CreateOffer, Transferred, OwnersAfter
<1>9. \A i \in offered : ownerOf[i] = p
  BY DEF CreateOffer, OwnsAll
<1>10. \A o \in OfferIds \ {a} : offers[o].offered \cap offered = {}
  BY <1>0, <1>9, AccountFacts DEF OffersBacked
<1>11. OffersBacked'
  <2>1. \A o \in OfferIds : \A i \in offers'[o].offered : ownerOf'[i] = Escrow
    <3>1. \A o \in OfferIds : offers[o].offered \subseteq ItemIds
      BY <1>0 DEF MarketsTypeOK, Offer
    <3> QED BY <1>0, <1>6, <1>61, <1>8, <3>1 DEF OffersBacked
  <2>2. \A o1, o2 \in OfferIds : o1 # o2 => offers'[o1].offered \cap offers'[o2].offered = {}
    <3> SUFFICES ASSUME NEW o1 \in OfferIds, NEW o2 \in OfferIds, o1 # o2
                 PROVE  offers'[o1].offered \cap offers'[o2].offered = {}
      OBVIOUS
    <3>1. CASE o1 = a
      BY <1>6, <1>61, <1>10, <3>1
    <3>2. CASE o2 = a
      BY <1>6, <1>61, <1>10, <3>2
    <3>3. CASE o1 # a /\ o2 # a
      BY <1>0, <1>6, <3>3 DEF OffersBacked
    <3> QED BY <3>1, <3>2, <3>3
  <2>3. \A o \in OfferIds : offers'[o].active <=> offers'[o].offered # {}
    BY <1>0, <1>6, <1>61 DEF OffersBacked
  <2> QED BY <2>1, <2>2, <2>3 DEF OffersBacked
<1>12. RfqRecords' /\ RfqBooks'
  BY <1>3, RfqFrame
<1> QED BY <1>1, <1>5, <1>7, <1>11, <1>12 DEF MarketsInv

\* An offer that ends takes its items out of the books, and nobody else's out of
\* the escrow.
LEMMA CloseOffer ==
  ASSUME MarketsInv, NEW a \in OfferIds, offers' = Closed(a), UNCHANGED nextOfferId,
         \A i \in ItemIds : ownerOf[i] = Escrow /\ i \notin offers[a].offered => ownerOf'[i] = Escrow
  PROVE  /\ OfferRecords' /\ OffersBacked' /\ offers' \in [OfferIds -> Offer]
         /\ \A o \in OfferIds : offers'[o].active => offers[o].active /\ o # a
<1>0. MarketsTypeOK /\ OfferRecords /\ OffersBacked
  BY DEF MarketsInv
<1>1. /\ offers'[a].active = FALSE /\ offers'[a].offered = {}
      /\ offers'[a] \in Offer
      /\ \A o \in OfferIds \ {a} : offers'[o] = offers[o]
  <2>1. offers \in [OfferIds -> Offer]
    BY <1>0 DEF MarketsTypeOK
  <2> DEFINE closed == [offers[a] EXCEPT !.active = FALSE, !.offered = {}, !.requested = {}]
  <2>2. offers' = [offers EXCEPT ![a] = closed]
    BY <2>1 DEF Closed
  <2>3. closed \in Offer /\ closed.active = FALSE /\ closed.offered = {}
    <3>1. offers[a] \in Offer
      BY <2>1
    <3> QED BY <3>1 DEF Offer
  <2> HIDE DEF closed
  <2> QED BY <2>1, <2>2, <2>3
<1>2. offers' \in [OfferIds -> Offer]
  <2>1. \A o \in OfferIds : offers'[o] \in Offer
    BY <1>0, <1>1 DEF MarketsTypeOK
  <2> QED BY <1>0, <2>1 DEF Closed, MarketsTypeOK
<1>3. OfferRecords'
  BY <1>0, <1>1 DEF OfferRecords
<1>4. \A o \in OfferIds \ {a} : /\ offers[o].offered \subseteq ItemIds
                                /\ offers[o].offered \cap offers[a].offered = {}
  BY <1>0 DEF OffersBacked, MarketsTypeOK, Offer
<1>5. OffersBacked'
  BY <1>0, <1>1, <1>4 DEF OffersBacked
<1> QED BY <1>1, <1>2, <1>3, <1>5

\* Whoever ends it without filling it, the maker gets the items back.
LEMMA ReturnOfferInv ==
  ASSUME MarketsInv, NEW a \in OfferIds, offers[a].active, ReturnOffer(a)
  PROVE  MarketsInv'
<1>0. /\ EquipmentInv /\ MarketsTypeOK /\ OfferRecords
      /\ offers[a].offered \in SUBSET ItemIds
      /\ offers[a].maker \in Accounts
  BY AccountFacts DEF MarketsInv, OfferRecords, MarketsTypeOK, Offer
<1>1. EquipmentInv'
  BY <1>0, TransferredInv DEF ReturnOffer
<1>2. /\ offers' = Closed(a)
      /\ UNCHANGED << now, mmo, nextOfferId, nextRfqId, rfqs >>
  BY DEF ReturnOffer
<1>3. \A i \in ItemIds : ownerOf[i] = Escrow /\ i \notin offers[a].offered => ownerOf'[i] = Escrow
  BY DEF ReturnOffer, Transferred, OwnersAfter
<1>4. OfferRecords' /\ OffersBacked' /\ offers' \in [OfferIds -> Offer]
  BY <1>2, <1>3, CloseOffer
<1>5. MarketsTypeOK'
  BY <1>0, <1>1, <1>2, <1>4 DEF MarketsTypeOK, EquipmentInv
<1>6. RfqRecords' /\ RfqBooks'
  BY <1>2, RfqFrame
<1> QED BY <1>1, <1>4, <1>5, <1>6 DEF MarketsInv

\* The two sides of a fulfilled offer have no item in common, and each item goes to
\* the other side.
LEMMA FulfilledOwners ==
  ASSUME MarketsInv, NEW p \in Players, NEW a \in OfferIds, FulfillOffer(p, a)
  PROVE  /\ offers[a].requested \subseteq ItemIds /\ offers[a].offered \subseteq ItemIds
         /\ offers[a].requested \cap offers[a].offered = {}
         /\ offers[a].maker \in Players
         /\ \A i \in ItemIds : ownerOf'[i] =
              IF i \in offers[a].offered THEN p
              ELSE IF i \in offers[a].requested THEN offers[a].maker ELSE ownerOf[i]
<1>1. MarketsTypeOK /\ OfferRecords /\ OffersBacked /\ offers[a].active
  BY DEF MarketsInv, FulfillOffer
<1>2. offers[a].requested \subseteq ItemIds /\ offers[a].offered \subseteq ItemIds
  BY <1>1 DEF MarketsTypeOK, Offer
<1>3. \A i \in offers[a].requested : ownerOf[i] = p
  BY DEF FulfillOffer, OwnsAll
<1>4. \A i \in offers[a].offered : ownerOf[i] = Escrow
  BY <1>1 DEF OffersBacked
<1>5. offers[a].requested \cap offers[a].offered = {}
  BY <1>3, <1>4, AccountFacts
<1>6. offers[a].maker \in Players
  BY <1>1 DEF OfferRecords
<1>7. \A i \in ItemIds : ownerOf'[i] =
              IF i \in offers[a].offered THEN p
              ELSE IF i \in offers[a].requested THEN offers[a].maker ELSE ownerOf[i]
  BY DEF FulfillOffer, DeliveredBoth
<1> QED BY <1>2, <1>5, <1>6, <1>7

LEMMA FulfillOfferInv ==
  ASSUME MarketsInv, NEW p \in Players, NEW a \in OfferIds, FulfillOffer(p, a)
  PROVE  MarketsInv'
<1> DEFINE m == offers[a].maker
           price == offers[a].requestedMmo
           moving == Moving(offers[a].requested, m) \cup Moving(offers[a].offered, p)
<1>0. EquipmentInv /\ EquipmentTypeOK /\ MarketsTypeOK /\ p \in Accounts /\ m \in Accounts
  BY FulfilledOwners, AccountFacts DEF MarketsInv, EquipmentInv
<1>1. \A i \in ItemIds : ownerOf'[i] =
        IF i \in offers[a].offered THEN p
        ELSE IF i \in offers[a].requested THEN m ELSE ownerOf[i]
  BY FulfilledOwners
<1>2. /\ offers' = Closed(a) /\ Unequipped(moving) /\ mmo' = Paid(p, m, price)
      /\ mmo[p] >= price
      /\ UNCHANGED << setOf, itemNonce, bestLevel, runActive >>
      /\ UNCHANGED << now, nextOfferId, nextRfqId, rfqs >>
  BY DEF FulfillOffer
<1>3. moving \in SUBSET ItemIds
  BY FulfilledOwners DEF Moving
<1>4. \A i \in ItemIds \ moving : ownerOf'[i] = ownerOf[i]
  BY <1>1 DEF Moving
<1>5. ownerOf' \in [ItemIds -> Accounts \cup {Nobody}]
  <2>1. \A i \in ItemIds : ownerOf[i] \in Accounts \cup {Nobody}
    BY <1>0 DEF EquipmentTypeOK
  <2> HIDE DEF m
  <2>2. ownerOf' = [i \in ItemIds |-> ownerOf'[i]]
    BY DEF FulfillOffer, DeliveredBoth
  <2> QED BY <1>0, <1>1, <2>1, <2>2
<1>6. price \in Nat
  <2>1. price \in Prices \cup {0}
    BY <1>0 DEF MarketsTypeOK, Offer
  <2> QED BY <2>1, PricesNat
<1> HIDE DEF moving, m, price
<1>7. EquipmentInv'
  BY <1>0, <1>2, <1>3, <1>4, <1>5, TakenOffInv
<1>8. mmo' \in [Accounts -> Nat] /\ mmo'[Rfq] = mmo[Rfq]
  <2>1. Rfq \in Accounts \ {p, m}
    BY FulfilledOwners, AccountFacts DEF m
  <2> QED BY <1>0, <1>2, <1>6, <2>1, PaidBalances
<1>9. \A i \in ItemIds : ownerOf[i] = Escrow /\ i \notin offers[a].offered => ownerOf'[i] = Escrow
  <2>1. \A i \in offers[a].requested : ownerOf[i] = p
    BY DEF FulfillOffer, OwnsAll
  <2> QED BY <1>1, <2>1, AccountFacts
<1>10. OfferRecords' /\ OffersBacked' /\ offers' \in [OfferIds -> Offer]
  BY <1>2, <1>9, CloseOffer
<1>11. MarketsTypeOK'
  BY <1>0, <1>2, <1>7, <1>8, <1>10 DEF MarketsTypeOK, EquipmentInv
<1>12. RfqRecords' /\ RfqBooks'
  BY <1>2, <1>8, RfqFrame
<1> QED BY <1>7, <1>10, <1>11, <1>12 DEF MarketsInv

-----------------------------------------------------------------------------
(* RFQMarket                                                               *)

\* A new request adds to the contract's balance what it adds to the books.
LEMMA CreateRFQInv ==
  ASSUME MarketsInv, NEW p \in Players, NEW slot \in Slots, NEW tier \in Nat,
         NEW mask \in SUBSET SetIds, NEW amount \in Prices,
         NEW expiry \in 1..(MaxTime + RfqMaxTtl),
         CreateRFQ(p, slot, tier, mask, amount, expiry)
  PROVE  MarketsInv'
<1> DEFINE new == [maker |-> p, mmoOffered |-> amount, minTier |-> tier, slot |-> slot,
                   setMask |-> mask, expiry |-> expiry, active |-> TRUE, filled |-> FALSE]
<1>0. /\ MarketsTypeOK /\ RfqRecords /\ RfqBooks
      /\ p \in Accounts /\ Rfq \in Accounts /\ p # Rfq /\ amount \in Nat
  BY AccountFacts, PricesNat DEF MarketsInv
<1>1. UNCHANGED << equipmentVars, now, nextOfferId, offers >>
  BY DEF CreateRFQ
<1>2. PICK a \in RfqIds : a = nextRfqId
  BY <1>0, MarketsAssumption DEF CreateRFQ, MarketsTypeOK, RfqIds
<1>3. /\ rfqs' = [rfqs EXCEPT ![a] = new]
      /\ nextRfqId' = a + 1
      /\ mmo' = Paid(p, Rfq, amount) /\ mmo[p] >= amount
  BY <1>2 DEF CreateRFQ
<1>4. new \in RFQ
  <2>1. expiry \in 0..(MaxTime + RfqMaxTtl)
    BY MarketsAssumption
  <2> QED BY <2>1 DEF RFQ
<1>5. new.mmoOffered = amount /\ new.active = TRUE /\ new.filled = FALSE /\ new.maker = p
  OBVIOUS
<1> HIDE DEF new
<1>6. /\ rfqs' \in [RfqIds -> RFQ] /\ rfqs'[a] = new
      /\ \A r \in RfqIds \ {a} : rfqs'[r] = rfqs[r]
  BY <1>0, <1>3, <1>4 DEF MarketsTypeOK
<1>7. mmo' \in [Accounts -> Nat] /\ mmo'[Rfq] = mmo[Rfq] + amount
  BY <1>0, <1>3, PaidBalances
<1>8. EquipmentInv'
  BY <1>1, EquipmentNextInv DEF MarketsInv
<1>9. MarketsTypeOK'
  <2>1. nextRfqId' \in 1..(MaxRfqs + 1)
    BY <1>3, MarketsAssumption DEF RfqIds
  <2> QED BY <1>0, <1>1, <1>6, <1>7, <1>8, <2>1 DEF MarketsTypeOK, EquipmentInv
<1>10. RfqRecords'
  BY <1>0, <1>2, <1>3, <1>5, <1>6, MarketsAssumption DEF RfqRecords, RfqIds
<1>11. RfqBooks'
  <2>1. rfqs \in [RfqIds -> RFQ] /\ HeldIn(rfqs, a) = 0
    BY <1>0, <1>2, MarketsAssumption DEF MarketsTypeOK, RfqRecords, HeldIn, RfqIds
  <2>2. HeldIn(rfqs', a) = amount
    BY <1>5, <1>6 DEF HeldIn
  <2>3. HeldBy(rfqs') = HeldBy(rfqs) - HeldIn(rfqs, a) + HeldIn(rfqs', a)
    BY <1>6, <2>1, HeldChange
  <2>4. HeldBy(rfqs) \in Nat
    BY <2>1, HeldWithin
  <2> QED BY <1>0, <1>7, <2>1, <2>2, <2>3, <2>4 DEF RfqBooks
<1>12. OfferRecords' /\ OffersBacked'
  <2>1. \A i \in ItemIds : ownerOf[i] = Escrow => ownerOf'[i] = Escrow
    BY <1>1 DEF equipmentVars
  <2> QED BY <1>1, <2>1, OffersFrame
<1> QED BY <1>8, <1>9, <1>10, <1>11, <1>12 DEF MarketsInv

\* A request that ends takes out of the contract exactly what it held there: the
\* contract could pay it, and the balance covers the others.
LEMMA CloseRfq ==
  ASSUME MarketsInv, NEW a \in RfqIds, rfqs[a].active, NEW p \in Players,
         rfqs' \in [RfqIds -> RFQ], ~rfqs'[a].active,
         \A r \in RfqIds \ {a} : rfqs'[r] = rfqs[r],
         mmo' = Paid(Rfq, p, rfqs[a].mmoOffered), UNCHANGED nextRfqId
  PROVE  /\ mmo' \in [Accounts -> Nat]
         /\ mmo'[p] = mmo[p] + rfqs[a].mmoOffered
         /\ RfqRecords' /\ RfqBooks'
<1>0. /\ MarketsTypeOK /\ RfqRecords /\ RfqBooks /\ rfqs \in [RfqIds -> RFQ]
      /\ p \in Accounts /\ Rfq \in Accounts /\ p # Rfq
  BY AccountFacts DEF MarketsInv, MarketsTypeOK
<1>1. HeldIn(rfqs, a) = rfqs[a].mmoOffered /\ HeldIn(rfqs', a) = 0
  BY DEF HeldIn
<1>2. HeldIn(rfqs, a) \in Nat /\ HeldBy(rfqs) \in Nat /\ HeldIn(rfqs, a) <= HeldBy(rfqs)
  BY <1>0, HeldNat, HeldWithin
<1>3. rfqs[a].mmoOffered \in Nat /\ mmo[Rfq] >= rfqs[a].mmoOffered
  BY <1>0, <1>1, <1>2 DEF RfqBooks
<1>4. /\ mmo' \in [Accounts -> Nat]
      /\ mmo'[Rfq] = mmo[Rfq] - rfqs[a].mmoOffered
      /\ mmo'[p] = mmo[p] + rfqs[a].mmoOffered
  BY <1>0, <1>3, PaidBalances
<1>5. HeldBy(rfqs') = HeldBy(rfqs) - HeldIn(rfqs, a) + HeldIn(rfqs', a)
  BY <1>0, HeldChange
<1>6. RfqBooks'
  BY <1>0, <1>1, <1>2, <1>4, <1>5 DEF RfqBooks
<1>7. RfqRecords'
  BY <1>0 DEF RfqRecords
<1> QED BY <1>4, <1>6, <1>7

\* The item goes to the maker, the held MMO to who brought it.
LEMMA FillRFQInv ==
  ASSUME MarketsInv, NEW p \in Players, NEW a \in RfqIds, NEW i \in ItemIds, FillRFQ(p, a, i)
  PROVE  MarketsInv'
<1>0. /\ EquipmentInv /\ MarketsTypeOK /\ rfqs[a].active /\ rfqs[a] \in RFQ
      /\ rfqs[a].maker \in Accounts /\ {i} \in SUBSET ItemIds
      /\ ownerOf[i] # Escrow
  BY AccountFacts DEF MarketsInv, MarketsTypeOK, RfqRecords, FillRFQ
<1>1. EquipmentInv'
  BY <1>0, TransferredInv DEF FillRFQ
<1>2. /\ rfqs' = [rfqs EXCEPT ![a].active = FALSE, ![a].filled = TRUE]
      /\ mmo' = Paid(Rfq, p, rfqs[a].mmoOffered)
      /\ UNCHANGED << now, nextOfferId, offers, nextRfqId >>
  BY DEF FillRFQ
<1>3. /\ rfqs' \in [RfqIds -> RFQ] /\ ~rfqs'[a].active
      /\ \A r \in RfqIds \ {a} : rfqs'[r] = rfqs[r]
  <2> DEFINE closed == [rfqs[a] EXCEPT !.active = FALSE, !.filled = TRUE]
  <2>1. rfqs \in [RfqIds -> RFQ]
    BY <1>0 DEF MarketsTypeOK
  <2>2. closed \in RFQ /\ closed.active = FALSE
    BY <1>0 DEF RFQ
  <2>3. rfqs' = [rfqs EXCEPT ![a] = closed]
    BY <1>2, <2>1
  <2> HIDE DEF closed
  <2> QED BY <2>1, <2>2, <2>3
<1>4. mmo' \in [Accounts -> Nat] /\ RfqRecords' /\ RfqBooks'
  BY <1>0, <1>2, <1>3, CloseRfq
<1>5. \A j \in ItemIds : ownerOf[j] = Escrow => ownerOf'[j] = Escrow
  BY <1>0 DEF FillRFQ, Transferred, OwnersAfter
<1>6. MarketsTypeOK'
  BY <1>0, <1>1, <1>2, <1>3, <1>4 DEF MarketsTypeOK, EquipmentInv
<1> QED BY <1>1, <1>2, <1>4, <1>5, <1>6, OffersFrame DEF MarketsInv

\* The held MMO goes back to the maker.
LEMMA CancelRFQInv ==
  ASSUME MarketsInv, NEW p \in Players, NEW a \in RfqIds, CancelRFQ(p, a)
  PROVE  MarketsInv'
<1>0. MarketsTypeOK /\ rfqs[a].active /\ rfqs[a] \in RFQ
  BY DEF MarketsInv, MarketsTypeOK, CancelRFQ
<1>1. /\ rfqs' = [rfqs EXCEPT ![a].active = FALSE]
      /\ mmo' = Paid(Rfq, p, rfqs[a].mmoOffered)
      /\ UNCHANGED equipmentVars
      /\ UNCHANGED << now, nextOfferId, offers, nextRfqId >>
  BY DEF CancelRFQ
<1>2. EquipmentInv'
  BY <1>1, EquipmentNextInv DEF MarketsInv
<1>3. /\ rfqs' \in [RfqIds -> RFQ] /\ ~rfqs'[a].active
      /\ \A r \in RfqIds \ {a} : rfqs'[r] = rfqs[r]
  <2> DEFINE closed == [rfqs[a] EXCEPT !.active = FALSE]
  <2>1. rfqs \in [RfqIds -> RFQ]
    BY <1>0 DEF MarketsTypeOK
  <2>2. closed \in RFQ /\ closed.active = FALSE
    BY <1>0 DEF RFQ
  <2>3. rfqs' = [rfqs EXCEPT ![a] = closed]
    BY <1>1, <2>1
  <2> HIDE DEF closed
  <2> QED BY <2>1, <2>2, <2>3
<1>4. mmo' \in [Accounts -> Nat] /\ RfqRecords' /\ RfqBooks'
  BY <1>0, <1>1, <1>3, CloseRfq
<1>5. \A j \in ItemIds : ownerOf[j] = Escrow => ownerOf'[j] = Escrow
  BY <1>1 DEF equipmentVars
<1>6. MarketsTypeOK'
  BY <1>0, <1>1, <1>2, <1>3, <1>4 DEF MarketsTypeOK, EquipmentInv
<1> QED BY <1>1, <1>2, <1>4, <1>5, <1>6, OffersFrame DEF MarketsInv

-----------------------------------------------------------------------------

LEMMA MarketsNextInv ==
  ASSUME MarketsInv, [MarketsNext]_marketsVars
  PROVE  MarketsInv'
<1>1. CASE EquipmentNext /\ UNCHANGED marketVars
  BY <1>1, EquipmentStepInv
<1>2. CASE TradeNext
  <2>1. ASSUME NEW p \in Players, NEW offered \in Side, NEW requested \in Side,
               NEW price \in Prices \cup {0}, CreateOffer(p, offered, requested, price)
        PROVE  MarketsInv'
    BY <2>1, CreateOfferInv
  <2>2. ASSUME NEW p \in Players, NEW o \in OfferIds, CancelOffer(p, o)
        PROVE  MarketsInv'
    BY <2>2, ReturnOfferInv DEF CancelOffer
  <2>3. ASSUME NEW p \in Players, NEW o \in OfferIds, FulfillOffer(p, o)
        PROVE  MarketsInv'
    BY <2>3, FulfillOfferInv
  <2>4. ASSUME NEW o \in OfferIds, CancelExpiredOffer(o)
        PROVE  MarketsInv'
    BY <2>4, ReturnOfferInv DEF CancelExpiredOffer
  <2> QED BY <1>2, <2>1, <2>2, <2>3, <2>4 DEF TradeNext
<1>3. CASE RfqNext
  <2>1. ASSUME NEW p \in Players, NEW slot \in Slots, NEW tier \in {TierOf[i] : i \in ItemIds},
               NEW mask \in SUBSET SetIds, NEW amount \in Prices,
               NEW expiry \in 1..(MaxTime + RfqMaxTtl),
               CreateRFQ(p, slot, tier, mask, amount, expiry)
        PROVE  MarketsInv'
    <3>1. tier \in Nat
      BY EquipmentAssumption
    <3> QED BY <2>1, <3>1, CreateRFQInv
  <2>2. ASSUME NEW p \in Players, NEW r \in RfqIds, CancelRFQ(p, r)
        PROVE  MarketsInv'
    BY <2>2, CancelRFQInv
  <2>3. ASSUME NEW p \in Players, NEW r \in RfqIds, NEW i \in ItemIds, FillRFQ(p, r, i)
        PROVE  MarketsInv'
    BY <2>3, FillRFQInv
  <2> QED BY <1>3, <2>1, <2>2, <2>3 DEF RfqNext
<1>4. CASE Tick
  BY <1>4, TickInv
<1>5. CASE UNCHANGED marketsVars
  <2>1. UNCHANGED equipmentVars /\ UNCHANGED marketVars
    BY <1>5 DEF marketsVars
  <2> QED BY <2>1, EquipmentStepInv
<1> QED BY <1>1, <1>2, <1>3, <1>4, <1>5 DEF MarketsNext

\* Every record of the markets is well formed and covered, after any sequence of
\* offers, requests, fills, cancellations, transfers and equips.
THEOREM MarketsAlwaysConsistent == MarketsSpec => []MarketsInv
<1> QED BY MarketsInitInv, MarketsNextInv, PTL DEF MarketsSpec

-----------------------------------------------------------------------------

\* TradeEscrow owns every item of every active offer, each in one offer only, and
\* RFQMarket holds exactly the MMO of the active requests.
THEOREM PromisesAlwaysBacked == MarketsSpec => []PromisesBacked
<1>1. MarketsInv => PromisesBacked
  <2> SUFFICES ASSUME MarketsInv PROVE PromisesBacked
    OBVIOUS
  <2>1. rfqs \in [RfqIds -> RFQ]
    BY DEF MarketsInv, MarketsTypeOK
  <2>2. RfqsBacked
    BY <2>1, HeldIsOfActive DEF MarketsInv, RfqBooks, RfqsBacked
  <2> QED BY <2>2 DEF MarketsInv, PromisesBacked
<1> QED BY <1>1, MarketsAlwaysConsistent, PTL

\* The markets leave the gear consistent: a trade takes an item off the character
\* of the wallet it leaves, whichever way it leaves it.
THEOREM GearSoundOnMarkets == MarketsSpec => []GearSound
<1>1. MarketsInv => GearSound
  BY DEF MarketsInv, EquipmentInv, GearSound
<1> QED BY <1>1, MarketsAlwaysConsistent, PTL

\* Trading during a run takes gear off, and does nothing else to it.
LEMMA TradeOnlyTakesOff ==
  ASSUME MarketsInv, TradeNext \/ RfqNext \/ Tick, NEW p \in Places
  PROVE  OnlyShrinks(p)
<1>0. MappingsInverse
  BY DEF MarketsInv, EquipmentInv
<1>1. ASSUME NEW S, Unequipped(S), UNCHANGED << setOf, itemNonce >>
      PROVE  OnlyShrinks(p)
  BY <1>0, <1>1 DEF Unequipped, SlotsWithout, OnlyShrinks
<1>2. ASSUME NEW S, NEW to, Transferred(S, to)
      PROVE  OnlyShrinks(p)
  BY <1>1, <1>2 DEF Transferred
<1>3. ASSUME UNCHANGED equipmentVars
      PROVE  OnlyShrinks(p)
  BY <1>3 DEF equipmentVars, OnlyShrinks
<1>4. CASE TradeNext
  <2>1. ASSUME NEW a, NEW o, FulfillOffer(a, o)
        PROVE  OnlyShrinks(p)
    BY <1>1, <2>1 DEF FulfillOffer
  <2> QED BY <1>2, <1>4, <2>1
          DEF TradeNext, CreateOffer, CancelOffer, CancelExpiredOffer, ReturnOffer
<1>5. CASE RfqNext
  BY <1>2, <1>3, <1>5 DEF RfqNext, CreateRFQ, CancelRFQ, FillRFQ
<1>6. CASE Tick
  BY <1>3, <1>6 DEF Tick
<1> QED BY <1>4, <1>5, <1>6

\* While a run is active the markets can make its gear less, never better.
THEOREM RunGearShrinksOnMarkets == MarketsSpec => RunGearOnlyShrinks
<1>1. ASSUME MarketsInv, [MarketsNext]_marketsVars
      PROVE  [\A p \in Places : runActive[p[1]] /\ runActive'[p[1]] =>
                \/ equippedItemBySlot'[p] = NoItem
                \/ /\ equippedItemBySlot'[p] = equippedItemBySlot[p]
                   /\ LET i == equippedItemBySlot[p]
                      IN  setOf'[i] = setOf[i] /\ itemNonce'[i] = itemNonce[i]
             ]_equipmentVars
  <2> SUFFICES ASSUME NEW p \in Places, runActive[p[1]], runActive'[p[1]]
               PROVE  OnlyShrinks(p)
    BY DEF OnlyShrinks
  <2>1. CASE [EquipmentNext]_equipmentVars
    BY <1>1, <2>1, StepOnlyShrinks DEF MarketsInv
  <2>2. CASE TradeNext \/ RfqNext \/ Tick
    BY <1>1, <2>2, TradeOnlyTakesOff
  <2>3. CASE UNCHANGED marketsVars
    BY <1>1, <2>3, StepOnlyShrinks DEF MarketsInv, marketsVars
  <2> QED BY <1>1, <2>1, <2>2, <2>3 DEF MarketsNext
<1> QED BY <1>1, MarketsAlwaysConsistent, PTL DEF MarketsSpec, RunGearOnlyShrinks

-----------------------------------------------------------------------------

\* How an offer may end: with every item back at its maker, or with everything he
\* asked for, in time.
OfferEndsWell(o) ==
  LET m == offers[o].maker IN
  \/ \A i \in offers[o].offered : ownerOf'[i] = m
  \/ /\ \A i \in offers[o].requested : ownerOf'[i] = m
     /\ mmo'[m] = mmo[m] + offers[o].requestedMmo
     /\ now <= offers[o].expiry

\* How a request may end: with the MMO back, or with an item that matches it, in time.
RequestEndsWell(r) ==
  LET m == rfqs[r].maker IN
  \/ ~rfqs'[r].filled /\ mmo'[m] = mmo[m] + rfqs[r].mmoOffered
  \/ /\ rfqs'[r].filled
     /\ now <= rfqs[r].expiry
     /\ \E i \in ItemIds :
          /\ ownerOf'[i] = m
          /\ SlotOf[i] = rfqs[r].slot /\ TierOf[i] >= rfqs[r].minTier
          /\ rfqs[r].setMask = {} \/ setOf'[i] \in rfqs[r].setMask

\* Cancelled or reclaimed, an offer gives its items back.
LEMMA ReturnEndsWell ==
  ASSUME MarketsInv, NEW o \in OfferIds, ReturnOffer(o)
  PROVE  OfferEndsWell(o)
<1>1. offers[o].offered \subseteq ItemIds
  BY DEF MarketsInv, MarketsTypeOK, Offer
<1>2. \A i \in offers[o].offered : ownerOf'[i] = offers[o].maker
  BY <1>1 DEF ReturnOffer, Transferred, OwnersAfter
<1> QED BY <1>2 DEF OfferEndsWell

\* Fulfilled by another wallet it brings what was asked for; a maker who fulfils his
\* own offer has his own items back.
LEMMA FulfillEndsWell ==
  ASSUME MarketsInv, NEW p \in Players, NEW o \in OfferIds, FulfillOffer(p, o)
  PROVE  OfferEndsWell(o)
<1> DEFINE m == offers[o].maker
           price == offers[o].requestedMmo
<1>1. /\ offers[o].requested \subseteq ItemIds /\ offers[o].offered \subseteq ItemIds
      /\ offers[o].requested \cap offers[o].offered = {}
      /\ m \in Players
      /\ \A i \in ItemIds : ownerOf'[i] =
           IF i \in offers[o].offered THEN p
           ELSE IF i \in offers[o].requested THEN m ELSE ownerOf[i]
  BY FulfilledOwners
<1>2. CASE p = m
  <2>1. \A i \in offers[o].offered : ownerOf'[i] = m
    BY <1>1, <1>2
  <2> QED BY <2>1 DEF OfferEndsWell
<1>3. CASE p # m
  <2>1. MarketsTypeOK /\ p \in Accounts /\ m \in Accounts
    BY <1>1, AccountFacts DEF MarketsInv
  <2>2. mmo[p] >= price /\ mmo' = Paid(p, m, price) /\ now <= offers[o].expiry
    BY DEF FulfillOffer, InTime
  <2>3. price \in Nat
    <3>1. price \in Prices \cup {0}
      BY <2>1 DEF MarketsTypeOK, Offer
    <3> QED BY <3>1, PricesNat
  <2>4. mmo'[m] = mmo[m] + price
    <3> HIDE DEF m, price
    <3> QED BY <1>3, <2>1, <2>2, <2>3, PaidBalances
  <2>5. \A i \in offers[o].requested : ownerOf'[i] = m
    BY <1>1
  <2> QED BY <2>2, <2>4, <2>5 DEF OfferEndsWell
<1> QED BY <1>2, <1>3

\* An offer is closed by these three steps and by no other.
LEMMA OfferEnds ==
  ASSUME MarketsInv, [MarketsNext]_marketsVars, NEW o \in OfferIds,
         offers[o].active, ~offers'[o].active
  PROVE  OfferEndsWell(o)
<1>0. offers \in [OfferIds -> Offer] /\ OfferRecords
  BY DEF MarketsInv, MarketsTypeOK
<1>1. offers' # offers
  OBVIOUS
<1>2. TradeNext
  BY <1>1 DEF MarketsNext, marketsVars, marketVars, RfqNext, CreateRFQ, FillRFQ, CancelRFQ, Tick
<1>3. ASSUME NEW p \in Players, NEW offered \in Side, NEW requested \in Side,
             NEW price \in Prices \cup {0}, CreateOffer(p, offered, requested, price)
      PROVE  FALSE
  BY <1>0, <1>3 DEF CreateOffer
<1>4. ASSUME NEW x \in OfferIds, ReturnOffer(x)
      PROVE  OfferEndsWell(o)
  <2>1. x = o
    BY <1>0, <1>4 DEF ReturnOffer, Closed
  <2> QED BY <1>4, <2>1, ReturnEndsWell
<1>5. ASSUME NEW p \in Players, NEW x \in OfferIds, FulfillOffer(p, x)
      PROVE  OfferEndsWell(o)
  <2>1. x = o
    BY <1>0, <1>5 DEF FulfillOffer, Closed
  <2> QED BY <1>5, <2>1, FulfillEndsWell
<1> QED BY <1>2, <1>3, <1>4, <1>5 DEF TradeNext, CancelOffer, CancelExpiredOffer

\* A request ends when it is filled or cancelled.
LEMMA RequestEnds ==
  ASSUME MarketsInv, [MarketsNext]_marketsVars, NEW r \in RfqIds,
         rfqs[r].active, ~rfqs'[r].active
  PROVE  RequestEndsWell(r)
<1>0. rfqs \in [RfqIds -> RFQ] /\ RfqRecords /\ rfqs' # rfqs
  BY DEF MarketsInv, MarketsTypeOK
<1>1. RfqNext
  BY <1>0 DEF MarketsNext, marketsVars, marketVars, TradeNext, CreateOffer, CancelOffer,
              CancelExpiredOffer, ReturnOffer, FulfillOffer, Tick
<1>2. ASSUME NEW p, NEW slot, NEW tier, NEW mask, NEW amount, NEW expiry,
             CreateRFQ(p, slot, tier, mask, amount, expiry)
      PROVE  FALSE
  BY <1>0, <1>2 DEF CreateRFQ
<1>3. ASSUME NEW p \in Players, NEW x \in RfqIds, CancelRFQ(p, x)
      PROVE  RequestEndsWell(r)
  <2>1. x = r
    BY <1>0, <1>3 DEF CancelRFQ
  <2>2. /\ rfqs[r].maker = p
        /\ rfqs' = [rfqs EXCEPT ![r].active = FALSE]
        /\ mmo' = Paid(Rfq, p, rfqs[r].mmoOffered)
        /\ UNCHANGED nextRfqId
    BY <1>3, <2>1 DEF CancelRFQ
  <2>3. /\ rfqs'[r].filled = rfqs[r].filled
        /\ rfqs' \in [RfqIds -> RFQ]
        /\ \A y \in RfqIds \ {r} : rfqs'[y] = rfqs[y]
    <3>1. rfqs[r] \in RFQ
      BY <1>0
    <3>2. [rfqs[r] EXCEPT !.active = FALSE] \in RFQ
      BY <3>1 DEF RFQ
    <3>3. [rfqs[r] EXCEPT !.active = FALSE].filled = rfqs[r].filled
      BY <3>1 DEF RFQ
    <3> QED BY <1>0, <2>2, <3>2, <3>3
  <2>4. mmo'[p] = mmo[p] + rfqs[r].mmoOffered
    BY <2>2, <2>3, CloseRfq
  <2>5. ~rfqs'[r].filled
    BY <1>0, <2>3 DEF RfqRecords
  <2> QED BY <2>2, <2>4, <2>5 DEF RequestEndsWell
<1>4. ASSUME NEW p \in Players, NEW x \in RfqIds, NEW i \in ItemIds, FillRFQ(p, x, i)
      PROVE  RequestEndsWell(r)
  <2>1. x = r
    BY <1>0, <1>4 DEF FillRFQ
  <2>2. rfqs' = [rfqs EXCEPT ![r].active = FALSE, ![r].filled = TRUE]
        /\ now <= rfqs[r].expiry /\ Matches(i, r)
        /\ Transferred({i}, rfqs[r].maker)
    BY <1>4, <2>1 DEF FillRFQ, InTime
  <2>3. rfqs'[r].filled
    <3>1. rfqs[r] \in RFQ
      BY <1>0
    <3> QED BY <1>0, <2>2, <3>1 DEF RFQ
  <2>4. ownerOf'[i] = rfqs[r].maker /\ setOf' = setOf
    BY <2>2 DEF Transferred, OwnersAfter
  <2> QED BY <2>2, <2>3, <2>4 DEF RequestEndsWell, Matches
<1> QED BY <1>1, <1>2, <1>3, <1>4 DEF RfqNext

\* No maker loses by an offer or a request: when it ends he has back what he gave, or
\* has all he asked for, and it had not expired.
THEOREM PromisesAlwaysKept == MarketsSpec => PromisesKept
<1>1. ASSUME MarketsInv, [MarketsNext]_marketsVars
      PROVE  [\A o \in OfferIds : offers[o].active /\ ~offers'[o].active =>
                LET m == offers[o].maker IN
                \/ \A i \in offers[o].offered : ownerOf'[i] = m
                \/ /\ \A i \in offers[o].requested : ownerOf'[i] = m
                   /\ mmo'[m] = mmo[m] + offers[o].requestedMmo
                   /\ now <= offers[o].expiry
             ]_marketsVars
  BY <1>1, OfferEnds DEF OfferEndsWell
<1>2. ASSUME MarketsInv, [MarketsNext]_marketsVars
      PROVE  [\A r \in RfqIds : rfqs[r].active /\ ~rfqs'[r].active =>
                LET m == rfqs[r].maker IN
                \/ ~rfqs'[r].filled /\ mmo'[m] = mmo[m] + rfqs[r].mmoOffered
                \/ /\ rfqs'[r].filled
                   /\ now <= rfqs[r].expiry
                   /\ \E i \in ItemIds :
                        /\ ownerOf'[i] = m
                        /\ SlotOf[i] = rfqs[r].slot /\ TierOf[i] >= rfqs[r].minTier
                        /\ rfqs[r].setMask = {} \/ setOf'[i] \in rfqs[r].setMask
             ]_marketsVars
  BY <1>2, RequestEnds DEF RequestEndsWell
<1> QED BY <1>1, <1>2, MarketsAlwaysConsistent, PTL
        DEF MarketsSpec, PromisesKept, OfferKeepsItsPromise, RfqKeepsItsPromise

=============================================================================
