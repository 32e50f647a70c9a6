------------------------------- MODULE Items -------------------------------
(***************************************************************************)
(* Items.sol: ownership of the equipment tokens and the per-owner          *)
(* enumeration kept beside it. tokenOfOwnerByIndex answers from            *)
(* _ownedTokens; a transfer removes the token from its owner's array by    *)
(* moving the last one into its place. Arrays start at 1 here, at 0 there. *)
(***************************************************************************)
EXTENDS Integers, Sequences, FiniteSets

CONSTANTS
  Accounts,   \* addresses that own items: players and market contracts
  Nobody,     \* address(0)
  MaxItems    \* bound: items minted

ASSUME ItemsAssumption == Nobody \notin Accounts /\ MaxItems \in Nat

ItemIds == 1..MaxItems

VARIABLES
  nextTokenId,       \* the next item to be minted
  ownerOf,           \* account of each item, Nobody before it is minted
  ownedTokens,       \* by account: sequence of its items
  ownedTokensIndex   \* by item: its place in its owner's sequence, 0 if none

itemsVars == << nextTokenId, ownerOf, ownedTokens, ownedTokensIndex >>

ItemsInit ==
  /\ nextTokenId      = 1
  /\ ownerOf          = [i \in ItemIds |-> Nobody]
  /\ ownedTokens      = [a \in Accounts |-> << >>]
  /\ ownedTokensIndex = [i \in ItemIds |-> 0]

-----------------------------------------------------------------------------

LastToken(s)    == s[Len(s)]
Without(s) == SubSeq(s, 1, Len(s) - 1)

\* _removeTokenFromOwnerEnumeration: the last token takes the removed one's
\* place, in the array and in the index.
RemovedArray(s, place)  == Without([s EXCEPT ![place] = LastToken(s)])
RemovedIndexes(s, i)    ==
  [ownedTokensIndex EXCEPT ![LastToken(s)] = ownedTokensIndex[i], ![i] = 0]

\* _mint, called by GameWorld for each item of an opened lootbox
Mint(a) ==
  /\ nextTokenId <= MaxItems
  /\ nextTokenId'      = nextTokenId + 1
  /\ ownerOf'          = [ownerOf EXCEPT ![nextTokenId] = a]
  /\ ownedTokens'      = [ownedTokens EXCEPT ![a] = Append(@, nextTokenId)]
  /\ ownedTokensIndex' = [ownedTokensIndex EXCEPT ![nextTokenId] = Len(ownedTokens[a]) + 1]

\* A transfer, to oneself included. The removal is complete before the token
\* is appended to the receiver's array.
TransferFrom(from, to, i) ==
  LET removed == [ownedTokens EXCEPT ![from] = RemovedArray(@, ownedTokensIndex[i])]
  IN
  /\ ownerOf[i] = from
  /\ ownerOf'          = [ownerOf EXCEPT ![i] = to]
  /\ ownedTokens'      = [removed EXCEPT ![to] = Append(@, i)]
  /\ ownedTokensIndex' = [RemovedIndexes(ownedTokens[from], i) EXCEPT ![i] = Len(removed[to]) + 1]
  /\ UNCHANGED nextTokenId

ItemsNext ==
  \/ \E a \in Accounts : Mint(a)
  \/ \E from, to \in Accounts, i \in ItemIds : TransferFrom(from, to, i)

ItemsSpec == ItemsInit /\ [][ItemsNext]_itemsVars

-----------------------------------------------------------------------------

\* The variables have their types.
ItemsTypeOK ==
  /\ nextTokenId \in Nat \ {0}
  /\ ownerOf \in [ItemIds -> Accounts \cup {Nobody}]
  /\ ownedTokens \in [Accounts -> Seq(ItemIds)]
  /\ ownedTokensIndex \in [ItemIds -> Nat]

\* Whatever the order of mints and transfers, the array of an account lists
\* exactly the items ownerOf gives it, each at the place its index says:
\* Items.tokenOfOwnerByIndex never shows a token twice, nor a token of
\* another owner, and never misses one.
EnumerationExact ==
  /\ \A i \in ItemIds : ownerOf[i] # Nobody =>
       /\ ownedTokensIndex[i] \in DOMAIN ownedTokens[ownerOf[i]]
       /\ ownedTokens[ownerOf[i]][ownedTokensIndex[i]] = i
  /\ \A a \in Accounts : \A n \in DOMAIN ownedTokens[a] :
       /\ ownerOf[ownedTokens[a][n]] = a
       /\ ownedTokensIndex[ownedTokens[a][n]] = n
=============================================================================
