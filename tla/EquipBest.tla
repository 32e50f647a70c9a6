----------------------------- MODULE EquipBest -----------------------------
(***************************************************************************)
(* The equip_best action of the engine (and the equip intent, which reads  *)
(* the same way): it walks the wallet's items with one tokenOfOwnerByIndex *)
(* per index, up to the balance it read first, keeps the best scored item  *)
(* of each slot, and puts them all on in one equipItems. Every read is of  *)
(* the chain's latest block; items are minted, transferred and worn by the *)
(* wallet's other characters between them. Index 1 here is 0 there.        *)
(***************************************************************************)
EXTENDS Items

CONSTANTS
  Wallet,     \* the signer, an account
  SlotOf,     \* slot of each item
  Score,      \* scoreItem of each item, for the action's objective
  InReach     \* items whose tier the character's level allows

ASSUME EquipBestAssumption ==
  /\ Wallet \in Accounts
  /\ DOMAIN SlotOf = ItemIds /\ Score \in [ItemIds -> Nat] /\ InReach \subseteq ItemIds

Slots  == {SlotOf[i] : i \in ItemIds}
NoPick == 0

VARIABLES
  worn,        \* by item: "not", "here" (by the action's character) or "elsewhere"
  step,        \* of the action: "start", "token", "location", "send", "done", "failed"
  count,       \* inventoryCount
  index,
  token,       \* the item under consideration
  pick,        \* bestBySlot
  steady,      \* history: items in hand, in reach and free to wear since the count was read
  anySent      \* history: the wallet sent an item, to itself included, since then

readVars   == << step, count, index, token, pick >>
wearVars   == << itemsVars, worn, readVars, steady, anySent >>

InHand   == {i \in ItemIds : ownerOf[i] = Wallet}
Free(i)  == worn[i] # "elsewhere"

EquipBestInit ==
  /\ ItemsInit
  /\ worn   = [i \in ItemIds |-> "not"]
  /\ step   = "start" /\ count = 0 /\ index = 0 /\ token = NoPick
  /\ pick   = [s \in Slots |-> NoPick]
  /\ steady = {} /\ anySent = FALSE

-----------------------------------------------------------------------------
(* The chain under the action's feet *)

Looted(a) ==
  /\ Mint(a)
  /\ UNCHANGED << worn, readVars, steady, anySent >>

\* A transfer takes the item off whoever wears it, unless it is to its owner: the
\* hook is left out then, but the enumeration is rewritten all the same.
ItemTransferred(from, to, i) ==
  /\ TransferFrom(from, to, i)
  /\ worn'    = IF from = to THEN worn ELSE [worn EXCEPT ![i] = "not"]
  /\ steady'  = IF from = to THEN steady ELSE steady \ {i}
  /\ anySent' = (anySent \/ from = Wallet)
  /\ UNCHANGED readVars

\* An item put on displaces the one its wearer had in the slot.
PutOn(S, place) ==
  [i \in ItemIds |->
     IF i \in S THEN place
     ELSE IF worn[i] = place /\ \E j \in S : SlotOf[j] = SlotOf[i] THEN "not"
     ELSE worn[i]]

\* Another character of the wallet puts the item on.
WornElsewhere(i) ==
  /\ i \in InHand
  /\ worn[i] = "not"
  /\ worn'   = PutOn({i}, "elsewhere")
  /\ steady' = steady \ {i}
  /\ UNCHANGED << itemsVars, readVars, anySent >>

-----------------------------------------------------------------------------
(* The action *)

ReadCount ==
  /\ step = "start"
  /\ count' = Len(ownedTokens[Wallet])
  /\ index' = 1
  /\ step'  = IF count' = 0 THEN "send" ELSE "token"
  /\ steady' = {i \in InHand \cap InReach : Free(i)}
  /\ anySent' = FALSE
  /\ UNCHANGED << itemsVars, worn, token, pick >>

Skipped(next) ==
  /\ index' = next
  /\ step'  = IF next > count THEN "send" ELSE "token"

\* tokenOfOwnerByIndex and decode. An index the wallet no longer has reverts,
\* and the action fails with it.
ReadToken ==
  /\ step = "token"
  /\ IF index > Len(ownedTokens[Wallet])
     THEN step' = "failed" /\ UNCHANGED << index, token >>
     ELSE /\ token' = ownedTokens[Wallet][index]
          /\ IF token' \in InReach
             THEN step' = "location" /\ UNCHANGED index
             ELSE Skipped(index + 1)
  /\ UNCHANGED << itemsVars, worn, count, pick, steady, anySent >>

\* Seeded fault: the first item found of a slot is kept.
BetterOnlyIfFirst(i) == pick[SlotOf[i]] = NoPick
Better(i) == pick[SlotOf[i]] = NoPick \/ Score[i] > Score[pick[SlotOf[i]]]

\* equippedLocationByItemId and deriveBonuses
ReadLocation ==
  /\ step = "location"
  /\ pick' = IF Free(token) /\ Better(token)
             THEN [pick EXCEPT ![SlotOf[token]] = token] ELSE pick
  /\ Skipped(index + 1)
  /\ UNCHANGED << itemsVars, worn, count, token, steady, anySent >>

Picked == {pick[s] : s \in Slots} \ {NoPick}

\* equipItems reverts as a whole if an item was sent away or worn elsewhere
\* meanwhile; without an item the call is not made.
SendEquip ==
  /\ step = "send"
  /\ IF \A i \in Picked : i \in InHand /\ Free(i)
     THEN worn' = PutOn(Picked, "here") /\ step' = "done"
     ELSE UNCHANGED worn /\ step' = "failed"
  /\ UNCHANGED << itemsVars, count, index, token, pick, steady, anySent >>

\* The next equip_best of the same character.
Again ==
  /\ step \in {"done", "failed"}
  /\ step' = "start"
  /\ count' = 0 /\ index' = 0 /\ token' = NoPick
  /\ pick' = [s \in Slots |-> NoPick]
  /\ steady' = {} /\ anySent' = FALSE
  /\ UNCHANGED << itemsVars, worn >>

EquipBestNext ==
  \/ \E a \in Accounts : Looted(a)
  \/ \E from, to \in Accounts, i \in ItemIds : ItemTransferred(from, to, i)
  \/ \E i \in ItemIds : WornElsewhere(i)
  \/ ReadCount \/ ReadToken \/ ReadLocation \/ SendEquip \/ Again

EquipBestSpec == EquipBestInit /\ [][EquipBestNext]_wearVars

-----------------------------------------------------------------------------

\* If the wallet sent no item while it was read, not even to itself, the character
\* ends up wearing, in each slot, an item at least as good as every item that was
\* in hand and free all along, whatever was looted, bought or worn by others
\* meanwhile: the walk by index meets each of them, because arrivals go to the end
\* of the array Items keeps. Any transfer of the wallet's moves the last item to
\* the place of the one sent, which the walk may have passed already.
WearsTheBest ==
  step = "done" /\ ~anySent =>
    \A i \in steady : \E j \in Picked : SlotOf[j] = SlotOf[i] /\ Score[j] >= Score[i]
=============================================================================
