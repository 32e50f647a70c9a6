----------------------------- MODULE Characters -----------------------------
(***************************************************************************)
(* The character registry of GameWorld.sol: ownership, best level, the     *)
(* epoch of the last level-up, and the level histogram the fee vault reads *)
(* when it finalizes an epoch.                                             *)
(*                                                                         *)
(* The module is used three ways: on its own, as the state other contracts *)
(* read (FeeVault EXTENDS it), and as the abstract specification that the  *)
(* whole of GameWorld implements.                                          *)
(***************************************************************************)
EXTENDS Integers, FiniteSets

CONSTANTS
  Players,              \* accounts that may own characters
  NoOwner,              \* address(0): the owner of a character not created yet
  CharactersPerWallet,  \* MAX_CHARACTERS_PER_WALLET
  LevelCap,             \* the largest level the level type holds
  MaxCharacters,        \* bound: characters ever created
  MaxEpoch              \* bound: hours of block time explored

ASSUME CharactersAssumption ==
  /\ IsFiniteSet(Players) /\ NoOwner \notin Players
  /\ CharactersPerWallet \in Nat
  /\ LevelCap \in Nat \ {0}
  /\ MaxCharacters \in Nat \ {0}
  /\ MaxEpoch \in Nat

CharacterIds == 1..MaxCharacters
Levels       == 1..LevelCap
Epochs       == 0..MaxEpoch

VARIABLES
  epoch,                \* block.timestamp / EPOCH_IN_SECONDS
  nextCharacterId,
  owner,                \* Character.owner
  bestLevel,            \* Character.bestLevel
  lastLevelUpEpoch,     \* Character.lastLevelUpEpoch
  ownerCharacterCount,
  totalCharacters,
  countAtLevel,         \* histogram: characters whose best level is exactly l
  maxLevel

registryVars == << nextCharacterId, owner, ownerCharacterCount, totalCharacters >>
levelVars    == << bestLevel, lastLevelUpEpoch, countAtLevel, maxLevel >>
characterVars == << epoch, registryVars, levelVars >>

Exists(c)     == owner[c] # NoOwner
Created       == {c \in CharacterIds : Exists(c)}
AtLevel(l)    == {c \in Created : bestLevel[c] = l}
OwnedBy(p)    == {c \in CharacterIds : owner[c] = p}

-----------------------------------------------------------------------------

CharactersInit ==
  /\ epoch = 0
  /\ nextCharacterId = 1
  /\ owner               = [c \in CharacterIds |-> NoOwner]
  /\ bestLevel           = [c \in CharacterIds |-> 0]
  /\ lastLevelUpEpoch    = [c \in CharacterIds |-> 0]
  /\ ownerCharacterCount = [p \in Players |-> 0]
  /\ totalCharacters     = 0
  /\ countAtLevel        = [l \in Levels |-> 0]
  /\ maxLevel            = 0


\* createCharacter. The name and the race and class statistics are left out:
\* no property depends on them.
CreateCharacter(p) ==
  LET c == nextCharacterId IN
  /\ nextCharacterId <= MaxCharacters
  /\ ownerCharacterCount[p] < CharactersPerWallet
  /\ nextCharacterId'     = nextCharacterId + 1
  /\ ownerCharacterCount' = [ownerCharacterCount EXCEPT ![p] = @ + 1]
  /\ owner'               = [owner EXCEPT ![c] = p]
  /\ bestLevel'           = [bestLevel EXCEPT ![c] = 1]
  /\ lastLevelUpEpoch'    = [lastLevelUpEpoch EXCEPT ![c] = epoch]
  /\ totalCharacters'     = totalCharacters + 1
  /\ countAtLevel'        = [countAtLevel EXCEPT ![1] = @ + 1]
  /\ maxLevel'            = IF maxLevel < 1 THEN 1 ELSE maxLevel
  /\ UNCHANGED epoch

\* seeded fault: the old bucket is not reduced
CopiedInHistogram(from, to)  == [countAtLevel EXCEPT ![to] = @ + 1]

MovedInHistogram(from, to) == [countAtLevel EXCEPT ![from] = @ - 1, ![to] = @ + 1]
RaisedMaxLevel(newLevel)   == IF newLevel > maxLevel THEN newLevel ELSE maxLevel

\* _setBestLevel: moves the character from its old histogram bucket to the new.
SetBestLevel(c, newLevel) ==
  /\ newLevel > bestLevel[c]
  /\ countAtLevel'     = MovedInHistogram(bestLevel[c], newLevel)
  /\ bestLevel'        = [bestLevel EXCEPT ![c] = newLevel]
  /\ lastLevelUpEpoch' = [lastLevelUpEpoch EXCEPT ![c] = epoch]
  /\ maxLevel'         = RaisedMaxLevel(newLevel)
  /\ UNCHANGED << epoch, registryVars >>

\* The only level change a dungeon can produce: the frontier level is cleared.
LevelUp(c) ==
  /\ Exists(c)
  /\ bestLevel[c] < LevelCap
  /\ SetBestLevel(c, bestLevel[c] + 1)

\* Block time crosses an hour boundary (_currentEpoch).
AdvanceEpoch ==
  /\ epoch < MaxEpoch
  /\ epoch' = epoch + 1
  /\ UNCHANGED << registryVars, levelVars >>

CharactersNext ==
  \/ \E p \in Players : CreateCharacter(p)
  \/ \E c \in CharacterIds : LevelUp(c)
  \/ AdvanceEpoch

CharactersSpec == CharactersInit /\ [][CharactersNext]_characterVars

-----------------------------------------------------------------------------

\* Every variable stays within its Solidity type.
CharactersTypeOK ==
  /\ epoch \in Epochs
  /\ nextCharacterId \in 1..(MaxCharacters + 1)
  /\ owner \in [CharacterIds -> Players \cup {NoOwner}]
  /\ bestLevel \in [CharacterIds -> 0..LevelCap]
  /\ lastLevelUpEpoch \in [CharacterIds -> Epochs]
  /\ ownerCharacterCount \in [Players -> Nat]
  /\ totalCharacters \in Nat
  /\ countAtLevel \in [Levels -> Nat]
  /\ maxLevel \in 0..LevelCap

\* The histogram that _setBestLevel and createCharacter maintain by deltas is
\* the exact count of characters at each level: the reward cutoff of an epoch
\* is computed from it and from nothing else.
HistogramExact ==
  \A l \in Levels : countAtLevel[l] = Cardinality(AtLevel(l))

\* maxLevel is attained and never exceeded, so a scan from maxLevel down (as
\* FeeVault does) starts at an occupied bucket and misses no character.
MaxLevelIsTop ==
  /\ \A c \in Created : bestLevel[c] <= maxLevel
  /\ maxLevel > 0 => \E c \in Created : bestLevel[c] = maxLevel

\* The counters agree with the records they count: ids are issued without
\* gaps, the total is their number, and no wallet escapes its quota.
CountersExact ==
  /\ Created = 1..(nextCharacterId - 1)
  /\ totalCharacters = Cardinality(Created)
  /\ \A p \in Players : ownerCharacterCount[p] = Cardinality(OwnedBy(p))

\* The registry is in order: histogram, highest level and counters all agree with
\* the characters' records, after any sequence of creations and level-ups.
RegistryExact == HistogramExact /\ MaxLevelIsTop /\ CountersExact

=============================================================================
