--------------------------- MODULE GameWorld_proofs ---------------------------
(***************************************************************************)
(* Invariants and action properties of the game contract, for any number   *)
(* of players, characters, commits, levels and rooms, and the proof that   *)
(* it implements the character registry.                                   *)
(***************************************************************************)
EXTENDS GameWorld, Characters_proofs, Sums

\* A commit belongs to the owner of its character.
CommitsOwned ==
  \A id \in CommitIds : commits[id] # NoCommit =>
    /\ Exists(commits[id].character)
    /\ owner[commits[id].character] = commits[id].actor

\* Nothing is stored under the id of a character not created yet.
BlankUntilCreated ==
  \A c \in CharacterIds : ~Exists(c) => \A l \in Levels : progress[c][l] = 0

\* The types of the variables the game adds to the registry.
WorldTypeOK ==
  /\ commits \in [CommitIds -> Commit \cup {NoCommit}]
  /\ runs \in [CharacterIds -> Run]
  /\ progress \in [CharacterIds -> [Levels -> Nat]]
  /\ credits \in [CharacterIds -> [Tiers -> 0..CreditCap]]
  /\ bound \in [CharacterIds -> [Tiers -> [VarianceMode -> Nat]]]
  /\ freeClaimed \in [CharacterIds -> BOOLEAN]
  /\ stones \in [CharacterIds -> 0..StoneCap]
  /\ equipped \in [CharacterIds -> 0..SlotCount]
  /\ mmo \in [Accounts -> Nat]
  /\ minted \in Nat
  /\ granted \in Nat

\* The inductive invariant. A level-up refines the registry's only because a
\* run is in reach (RunInReach); progress stays on the frontier for the same
\* reason; a run is in reach because the commit it came from was its owner's.
GameInv ==
  /\ CharactersInv
  /\ WorldTypeOK
  /\ CommitsOwned
  /\ BlankUntilCreated
  /\ FrontierProgress
  /\ RunInReach
  /\ BoundCreditsCovered

-----------------------------------------------------------------------------
(* Which steps change what                                                 *)

\* Runs, progress, owners and levels change only in these transactions.
RunStep ==
  \/ \E p \in Players : Create(p)
  \/ \E p \in Players, id \in CommitIds, i \in RunIntents, rooms \in RoomCounts :
       RevealStartDungeon(p, id, i, rooms)
  \/ \E p \in Players, c \in CharacterIds :
       LoseRoom(p, c) \/ WinRoom(p, c) \/ \E roll \in {0, 1} : WinLastRoom(p, c, roll)

LEMMA OnlyRunSteps ==
  ASSUME [Next]_vars, ~RunStep
  PROVE  UNCHANGED << runs, progress, owner, bestLevel >> /\ [AdvanceEpoch]_characterVars
  <1> DEFINE Q == UNCHANGED << runs, progress, characterVars >>
  <1>1. CASE UNCHANGED vars
    BY <1>1 DEF vars, worldVars, runVars, characterVars, registryVars, levelVars
  <1>2. ASSUME NEW p \in Players, Looting(p) PROVE Q
    BY <1>2 DEF Looting, ClaimFreeLootbox, CreditPremiumLootboxes, runVars
  <1>3. ASSUME NEW p \in Players, Committing(p) PROVE Q
    BY <1>3 DEF Committing, CommitAction, CancelExpired, runVars
  <1>4. ASSUME NEW p \in Players, Revealing(p) PROVE Q
    BY <1>4 DEF Revealing, RevealOpenLootboxes, RevealOpenLootboxesMax, RunStep, runVars
  <1>5. ASSUME NEW p \in Players, NEW c \in CharacterIds, Gearing(p, c) PROVE Q
    BY <1>5 DEF Gearing, EquipItem, ForgeSetPiece, RerollItemStats, runVars
  <1>6. ASSUME NEW c \in CharacterIds, TransferEquipped(c) PROVE Q
    BY <1>6 DEF TransferEquipped, runVars
  <1>7. CASE NewBlock
    BY <1>7 DEF NewBlock, AdvanceEpoch, runVars, characterVars, registryVars, levelVars
  <1>8. ASSUME NEW p \in Players, Registering(p) PROVE RunStep
    BY <1>8 DEF Registering, RunStep
  <1>9. ASSUME NEW p \in Players, NEW c \in CharacterIds, Resolving(p, c) PROVE RunStep
    BY <1>9 DEF Resolving, RunStep
  <1>10. Q => UNCHANGED << owner, bestLevel >>
    BY DEF characterVars, registryVars, levelVars
  <1> QED BY <1>1, <1>2, <1>3, <1>4, <1>5, <1>6, <1>7, <1>8, <1>9, <1>10 DEF Next

-----------------------------------------------------------------------------
(* What a reveal and a room transaction know of the commit and the run     *)

LEMMA RunIntentFields ==
  ASSUME NEW i \in RunIntents
  PROVE  /\ i.level \in Nat /\ i.difficulty \in Difficulty /\ i.mode \in VarianceMode
         /\ i.form = "start" /\ i \in Intents
  BY GameWorldAssumption DEF RunIntent, Intents

LEMMA LootIntentFields ==
  ASSUME NEW i \in LootIntents
  PROVE  /\ i.tier \in Tiers /\ i.amount \in Nat \ {0} /\ i.mode \in VarianceMode
         /\ i.form \in {"exact", "max"} /\ i \in Intents
  BY GameWorldAssumption DEF LootIntent, Intents

\* A valid reveal is made by the owner of the character of the commit.
LEMMA RevealedCommit ==
  ASSUME WorldTypeOK, CommitsOwned, NEW p \in Players, NEW id \in CommitIds,
         NEW a, NEW i, ValidReveal(p, id, a, i)
  PROVE  /\ commits[id] \in Commit
         /\ commits[id].character \in CharacterIds
         /\ Exists(commits[id].character)
         /\ owner[commits[id].character] = p
  <1>1. commits[id] \in Commit
    BY DEF ValidReveal, WorldTypeOK
  <1>2. commits[id].character \in CharacterIds
    BY <1>1 DEF Commit
  <1> QED BY <1>1, <1>2 DEF ValidReveal, CommitsOwned

\* The run of a room transaction is its owner's and at most one level up.
LEMMA ResolvedRun ==
  ASSUME CharactersTypeOK, WorldTypeOK, RunInReach,
         NEW p \in Players, NEW c \in CharacterIds, CanResolve(p, c)
  PROVE  /\ Exists(c) /\ owner[c] = p
         /\ runs[c] \in Run
         /\ runs[c].level \in Levels
         /\ runs[c].level <= bestLevel[c] + 1
         /\ bestLevel[c] \in Nat
  <1>1. runs[c] \in Run /\ bestLevel[c] \in Nat
    BY DEF WorldTypeOK, CharactersTypeOK
  <1>2. Exists(c) /\ owner[c] = p /\ runs[c].level \in 1..(bestLevel[c] + 1)
    BY DEF CanResolve, RunInReach
  <1>3. runs[c].level \in 0..LevelCap
    BY <1>1 DEF Run
  <1> QED BY <1>1, <1>2, <1>3 DEF Levels

-----------------------------------------------------------------------------
(* The contract implements the registry                                    *)

LEMMA WinLastRoomRefines ==
  ASSUME GameInv, NEW p \in Players, NEW c \in CharacterIds, NEW roll \in {0, 1},
         WinLastRoom(p, c, roll)
  PROVE  LevelUp(c) \/ UNCHANGED characterVars
  <1>1. CASE Replayed(c) \/ Progressed(c)
    BY <1>1 DEF Replayed, Progressed
  <1>2. CASE LeveledUp(c, roll)
    <2>1. Exists(c) /\ runs[c].level \in Levels /\ runs[c].level <= bestLevel[c] + 1
          /\ bestLevel[c] \in Nat
      BY ResolvedRun DEF GameInv, CharactersInv, WinLastRoom
    <2>2. runs[c].level = bestLevel[c] + 1 /\ bestLevel[c] < LevelCap
      <3>1. runs[c].level > bestLevel[c]
        BY <1>2 DEF LeveledUp
      <3> QED BY <2>1, <3>1, CharactersAssumption DEF Levels
    <2>3. SetBestLevel(c, bestLevel[c] + 1)
      BY <1>2, <2>2 DEF LeveledUp
    <2> QED BY <2>1, <2>2, <2>3 DEF LevelUp
  <1> QED BY <1>1, <1>2 DEF WinLastRoom

LEMMA StepRefines ==
  ASSUME GameInv, [Next]_vars
  PROVE  [CharactersNext]_characterVars
  <1>1. CASE ~RunStep
    BY <1>1, OnlyRunSteps DEF CharactersNext
  <1>2. ASSUME NEW p \in Players, Create(p) PROVE CharactersNext
    BY <1>2 DEF Create, CharactersNext
  <1>3. ASSUME NEW p \in Players, NEW id \in CommitIds, NEW i \in RunIntents,
               NEW rooms \in RoomCounts, RevealStartDungeon(p, id, i, rooms)
        PROVE  UNCHANGED characterVars
    BY <1>3 DEF RevealStartDungeon
  <1>4. ASSUME NEW p \in Players, NEW c \in CharacterIds, LoseRoom(p, c) \/ WinRoom(p, c)
        PROVE  UNCHANGED characterVars
    BY <1>4 DEF LoseRoom, WinRoom
  <1>5. ASSUME NEW p \in Players, NEW c \in CharacterIds, NEW roll \in {0, 1},
               WinLastRoom(p, c, roll)
        PROVE  [CharactersNext]_characterVars
    BY <1>5, WinLastRoomRefines DEF CharactersNext
  <1> QED BY <1>1, <1>2, <1>3, <1>4, <1>5 DEF RunStep

-----------------------------------------------------------------------------
(* Each part of the invariant is preserved                                 *)

\* Owners are written once.
LEMMA OwnersStay ==
  ASSUME GameInv, [Next]_vars, NEW c \in CharacterIds, Exists(c)
  PROVE  Exists(c)' /\ owner'[c] = owner[c]
  <1>1. [CharactersNext]_characterVars
    BY StepRefines
  <1>2. ASSUME NEW p \in Players, CreateCharacter(p) PROVE owner'[c] = owner[c]
    <2>1. nextCharacterId \in Int /\ c \in 1..(nextCharacterId - 1)
      BY DEF GameInv, CharactersInv, CountersExact, CharactersTypeOK, Created
    <2> QED BY <1>2, <2>1 DEF CreateCharacter, GameInv, CharactersInv, CharactersTypeOK
  <1>3. ASSUME NEW d \in CharacterIds, LevelUp(d) PROVE owner'[c] = owner[c]
    BY <1>3 DEF LevelUp, SetBestLevel, registryVars
  <1>4. ASSUME AdvanceEpoch \/ UNCHANGED characterVars PROVE owner'[c] = owner[c]
    BY <1>4 DEF AdvanceEpoch, characterVars, registryVars
  <1>5. owner'[c] = owner[c]
    BY <1>1, <1>2, <1>3, <1>4 DEF CharactersNext
  <1> QED BY <1>5 DEF Exists

\* Levels only rise.
LEMMA LevelsRise ==
  ASSUME GameInv, [Next]_vars, NEW c \in CharacterIds, Exists(c)
  PROVE  bestLevel[c] \in Nat /\ bestLevel'[c] \in Nat /\ bestLevel'[c] >= bestLevel[c]
  <1>0. [CharactersNext]_characterVars
    BY StepRefines
  <1>1. bestLevel \in [CharacterIds -> 0..LevelCap] /\ LevelCap \in Nat
    BY CharactersAssumption DEF GameInv, CharactersInv, CharactersTypeOK
  <1>2. ASSUME NEW p \in Players, CreateCharacter(p) PROVE bestLevel'[c] = bestLevel[c]
    <2>1. nextCharacterId \in Int /\ c \in 1..(nextCharacterId - 1)
      BY DEF GameInv, CharactersInv, CountersExact, CharactersTypeOK, Created
    <2> QED BY <1>1, <1>2, <2>1 DEF CreateCharacter
  <1>3. ASSUME NEW d \in CharacterIds, LevelUp(d)
        PROVE  bestLevel'[c] \in {bestLevel[c], bestLevel[c] + 1}
    BY <1>1, <1>3 DEF LevelUp, SetBestLevel
  <1>4. ASSUME AdvanceEpoch \/ UNCHANGED characterVars PROVE bestLevel'[c] = bestLevel[c]
    BY <1>4 DEF AdvanceEpoch, characterVars, levelVars
  <1>5. bestLevel'[c] \in {bestLevel[c], bestLevel[c] + 1}
    BY <1>0, <1>2, <1>3, <1>4 DEF CharactersNext
  <1> QED BY <1>1, <1>5

\* A commit stays as it is but for its age, is used up, or is new and its
\* owner's.
CommitKept(id) ==
  /\ commits[id] # NoCommit
  /\ commits'[id].actor = commits[id].actor
  /\ commits'[id].character = commits[id].character

CommitNew(id) ==
  /\ commits'[id].character \in CharacterIds
  /\ commits'[id].actor \in Players
  /\ owner[commits'[id].character] = commits'[id].actor

LEMMA CommitChange ==
  ASSUME WorldTypeOK, [Next]_vars, NEW id \in CommitIds, commits'[id] # NoCommit
  PROVE  CommitKept(id) \/ CommitNew(id)
  <1> DEFINE Q == CommitKept(id) \/ CommitNew(id)
  <1>0. commits \in [CommitIds -> Commit \cup {NoCommit}]
    BY DEF WorldTypeOK
  <1>1. CASE UNCHANGED commits
    BY <1>1 DEF CommitKept
  <1>2. ASSUME NEW k \in CommitIds, commits' = [commits EXCEPT ![k] = NoCommit] PROVE Q
    BY <1>0, <1>2 DEF CommitKept
  <1>3. ASSUME NEW p \in Players, Registering(p) \/ Looting(p) PROVE UNCHANGED commits
    BY <1>3 DEF Registering, Create, worldVars, Looting, ClaimFreeLootbox, CreditPremiumLootboxes
  <1>4. ASSUME NEW p \in Players, Committing(p) PROVE Q
    <2>1. ASSUME NEW k \in CommitIds, CancelExpired(p, k) PROVE Q
      BY <1>2, <2>1 DEF CancelExpired
    <2>2. ASSUME NEW k \in CommitIds, NEW c \in CharacterIds, NEW a \in ActionType,
                 NEW i \in Intents, NEW m \in CommitModes, CommitAction(p, c, k, a, i, m)
          PROVE  Q
      <3>1. CASE k = id
        BY <1>0, <2>2, <3>1 DEF CommitAction, CommitNew
      <3>2. CASE k # id
        BY <1>0, <2>2, <3>2 DEF CommitAction, CommitKept
      <3> QED BY <3>1, <3>2
    <2> QED BY <1>4, <2>1, <2>2 DEF Committing
  <1>5. ASSUME NEW p \in Players, Revealing(p) PROVE Q
    BY <1>2, <1>5 DEF Revealing, RevealOpenLootboxes, RevealOpenLootboxesMax, RevealStartDungeon
  <1>6. ASSUME NEW p \in Players, NEW c \in CharacterIds, Resolving(p, c) \/ Gearing(p, c)
        PROVE  UNCHANGED commits
    BY <1>6 DEF Resolving, LoseRoom, WinRoom, WinLastRoom,
                Gearing, EquipItem, ForgeSetPiece, RerollItemStats
  <1>7. ASSUME NEW c \in CharacterIds, TransferEquipped(c) PROVE UNCHANGED commits
    BY <1>7 DEF TransferEquipped
  <1>8. CASE NewBlock
    <2>1. commits[id] # NoCommit /\ commits'[id] = Aged(commits[id]) /\ commits[id] \in Commit
      BY <1>0, <1>8 DEF NewBlock, Aged
    <2> QED BY <2>1 DEF Aged, CommitKept, Commit
  <1>9. CASE UNCHANGED vars
    BY <1>1, <1>9 DEF vars, worldVars
  <1> QED BY <1>1, <1>3, <1>4, <1>5, <1>6, <1>7, <1>8, <1>9 DEF Next

LEMMA CommitsOwnedStep ==
  ASSUME GameInv, [Next]_vars
  PROVE  CommitsOwned'
  <1> SUFFICES ASSUME NEW id \in CommitIds, commits'[id] # NoCommit
               PROVE  /\ owner'[commits'[id].character] # NoOwner
                      /\ owner'[commits'[id].character] = commits'[id].actor
    BY DEF CommitsOwned, Exists
  <1>1. CASE CommitKept(id)
    <2> DEFINE c == commits[id].character
    <2>1. c \in CharacterIds /\ Exists(c) /\ owner[c] = commits[id].actor
      <3>1. commits[id] \in Commit
        BY <1>1 DEF CommitKept, GameInv, WorldTypeOK
      <3> QED BY <1>1, <3>1 DEF CommitKept, GameInv, CommitsOwned, Commit
    <2>2. owner'[c] = owner[c] /\ owner'[c] # NoOwner
      BY <2>1, OwnersStay DEF Exists
    <2> QED BY <1>1, <2>1, <2>2 DEF CommitKept
  <1>2. CASE CommitNew(id)
    <2> DEFINE d == commits'[id].character
    <2>1. d \in CharacterIds /\ Exists(d) /\ owner[d] = commits'[id].actor
      BY <1>2, CharactersAssumption DEF CommitNew, Exists
    <2>2. owner'[d] = owner[d] /\ owner'[d] # NoOwner
      BY <2>1, OwnersStay DEF Exists
    <2> QED BY <2>1, <2>2
  <1> QED BY <1>1, <1>2, CommitChange DEF GameInv

\* Fees, escrows and refunds keep every balance a natural number: what leaves an
\* account is checked to be there.
LEMMA PayEscrowTyped ==
  ASSUME WorldTypeOK, NEW c \in CharacterIds, NEW to \in Accounts \ {World}, CanPayEscrow(c)
  PROVE  PayEscrow(c, to) \in [Accounts -> Nat]
  <1>1. runs[c].escrow \in Nat /\ mmo \in [Accounts -> Nat] /\ World \in Accounts
    BY DEF WorldTypeOK, Run, Accounts
  <1>2. mmo[World] - runs[c].escrow \in Nat /\ mmo[to] + runs[c].escrow \in Nat
    BY <1>1 DEF CanPayEscrow
  <1> QED BY <1>1, <1>2 DEF PayEscrow

LEMMA NoRunTyped == NoRun \in Run
  BY CharactersAssumption DEF NoRun, Run, Difficulty, VarianceMode

LEMMA StonesTyped ==
  ASSUME WorldTypeOK, NEW c \in CharacterIds, NEW roll \in {0, 1}
  PROVE  StonesAfter(c, roll) \in [CharacterIds -> 0..StoneCap]
  <1>1. stones \in [CharacterIds -> 0..StoneCap] /\ StoneCap \in Nat
    BY GameWorldAssumption DEF WorldTypeOK
  <1>2. \A k \in Nat : Least(StoneCap, stones[c] + k) \in 0..StoneCap
    BY <1>1 DEF Least
  <1>3. \A sure \in {0, 1} : Least(StoneCap, stones[c] + sure + roll) \in 0..StoneCap
    BY <1>1 DEF Least
  <1> QED BY <1>1, <1>3 DEF StonesAfter

\* Consuming lootbox credits keeps totals and bound credits natural numbers.
LEMMA ConsumedTyped ==
  ASSUME WorldTypeOK, NEW c \in CharacterIds, NEW t \in Tiers, NEW m \in VarianceMode,
         NEW n \in Nat
  PROVE  ConsumedBound(c, t, m, n) \in [CharacterIds -> [Tiers -> [VarianceMode -> Nat]]]
  <1>1. bound \in [CharacterIds -> [Tiers -> [VarianceMode -> Nat]]]
    BY DEF WorldTypeOK
  <1>2. bound[c][t][m] - Least(bound[c][t][m], n) \in Nat
    BY <1>1 DEF Least
  <1> QED BY <1>1, <1>2 DEF ConsumedBound

LEMMA OpenedTyped ==
  ASSUME WorldTypeOK, NEW c \in CharacterIds, NEW t \in Tiers, NEW m \in VarianceMode,
         NEW n \in Nat, OpenLootboxes(c, t, m, n)
  PROVE  /\ credits' \in [CharacterIds -> [Tiers -> 0..CreditCap]]
         /\ bound' \in [CharacterIds -> [Tiers -> [VarianceMode -> Nat]]]
         /\ minted' \in Nat
         /\ UNCHANGED << freeClaimed, granted >>
  <1>1. credits \in [CharacterIds -> [Tiers -> 0..CreditCap]] /\ CreditCap \in Nat
    BY GameWorldAssumption DEF WorldTypeOK
  <1>2. credits[c][t] - n \in 0..CreditCap
    BY <1>1 DEF OpenLootboxes, CanConsume
  <1>3. credits' \in [CharacterIds -> [Tiers -> 0..CreditCap]]
    BY <1>1, <1>2 DEF OpenLootboxes
  <1> QED BY <1>3, ConsumedTyped DEF OpenLootboxes, WorldTypeOK

LEMMA OpenableTyped ==
  ASSUME WorldTypeOK, NEW c \in CharacterIds, NEW t \in Tiers, NEW m \in VarianceMode,
         NEW n \in Nat
  PROVE  Openable(c, t, m, n) \in 0..n
  <1>1. credits[c][t] \in Nat /\ \A k \in VarianceMode : bound[c][t][k] \in Nat
    BY DEF WorldTypeOK
  <1>2. BoundTotal(c, t) \in Nat
    BY <1>1 DEF BoundTotal, VarianceMode
  <1>3. Generic(c, t) \in Nat
    BY <1>1, <1>2 DEF Generic
  <1> QED BY <1>1, <1>3 DEF Openable, Least

\* The tier of a lootbox is a level, whatever bonus the difficulty adds.
LEMMA LootTierTyped ==
  ASSUME NEW level \in 0..LevelCap, NEW d \in Difficulty
  PROVE  LootTierFor(level, d) \in Tiers
  <1>1. LootTierBonus[d] \in Nat
    BY DEF LootTierBonus, Difficulty
  <1>2. NextLevelCap(level) \in Nat \ {0}
    BY CharactersAssumption DEF NextLevelCap
  <1> QED BY <1>1, <1>2, CharactersAssumption DEF LootTierFor, Least, Tiers, Levels

LEMMA ReducedProgressTyped ==
  ASSUME NEW n \in Nat, NEW d \in Nat
  PROVE  ReducedProgress(n, d) \in Nat /\ ReducedProgress(n, d) <= n
  BY DEF ReducedProgress

-----------------------------------------------------------------------------

LEMMA WorldTypeOKStep ==
  ASSUME GameInv, [Next]_vars
  PROVE  WorldTypeOK'
  <1> USE GameWorldAssumption, CharactersAssumption
  <1>0. CharactersTypeOK /\ WorldTypeOK /\ CommitsOwned /\ RunInReach
    BY DEF GameInv, CharactersInv
  <1>1. ASSUME NEW p \in Players, Create(p) PROVE WorldTypeOK'
    BY <1>0, <1>1 DEF Create, worldVars, runVars, lootVars, WorldTypeOK
  <1>2. ASSUME NEW p \in Players, NEW c \in CharacterIds, ClaimFreeLootbox(p, c)
        PROVE  WorldTypeOK'
    <2>1. FreeTier \in Tiers
      BY DEF FreeTier, Tiers, Levels
    <2>2. credits[c][FreeTier] \in 0..CreditCap
      BY <1>0, <2>1 DEF WorldTypeOK
    <2>3. credits[c][FreeTier] + 1 \in 0..CreditCap
      BY <1>2, <2>2 DEF ClaimFreeLootbox
    <2> QED BY <1>0, <1>2, <2>1, <2>3 DEF ClaimFreeLootbox, runVars, WorldTypeOK
  <1>3. ASSUME NEW p \in Players, NEW c \in CharacterIds, NEW d \in Difficulty,
               NEW n \in PremiumAmounts, CreditPremiumLootboxes(p, c, d, n)
        PROVE  WorldTypeOK'
    <2> DEFINE t == LootTierFor(bestLevel[c], d)
    <2>1. t \in Tiers /\ n \in Nat
      BY <1>0, LootTierTyped DEF CharactersTypeOK
    <2>2. /\ credits' = [credits EXCEPT ![c][t] = @ + n]
          /\ credits[c][t] + n <= CreditCap
          /\ granted' = granted + n
          /\ UNCHANGED << commits, runVars, bound, freeClaimed, minted, equipped >>
      BY <1>3 DEF CreditPremiumLootboxes
    <2> HIDE DEF t
    <2>3. credits[c][t] + n \in 0..CreditCap
      BY <1>0, <2>1, <2>2 DEF WorldTypeOK
    <2>4. credits' \in [CharacterIds -> [Tiers -> 0..CreditCap]]
      BY <1>0, <2>1, <2>2, <2>3 DEF WorldTypeOK
    <2>5. mmo' \in [Accounts -> Nat]
      <3> DEFINE cost == PremiumMmoCost[bestLevel[c]] * n
      <3>1. bestLevel[c] \in Levels
        BY <1>3 DEF CreditPremiumLootboxes, GameInv, CharactersInv, LevelledFromBirth,
                    CharactersTypeOK, Exists, Levels
      <3>2. cost \in Nat
        <4>1. PremiumMmoCost[bestLevel[c]] \in Nat
          BY <3>1
        <4> QED BY <2>1, <4>1
      <3>3. mmo' = [mmo EXCEPT ![p] = @ - cost, ![Sink] = @ + cost] /\ mmo[p] >= cost
        BY <1>3 DEF CreditPremiumLootboxes
      <3>4. mmo \in [Accounts -> Nat] /\ p \in Accounts /\ Sink \in Accounts
        BY <1>0 DEF WorldTypeOK, Accounts
      <3> HIDE DEF cost, Sink
      <3> QED BY <3>2, <3>3, <3>4
    <2> QED BY <1>0, <2>1, <2>2, <2>4, <2>5 DEF runVars, WorldTypeOK
  <1>4. ASSUME NEW p \in Players, NEW id \in CommitIds, CancelExpired(p, id)
        PROVE  WorldTypeOK'
    BY <1>0, <1>4 DEF CancelExpired, runVars, lootVars, WorldTypeOK
  <1>5. ASSUME NEW p \in Players, NEW id \in CommitIds, NEW c \in CharacterIds,
               NEW a \in ActionType, NEW i \in Intents, NEW m \in CommitModes,
               CommitAction(p, c, id, a, i, m)
        PROVE  WorldTypeOK'
    <2>1. [actor |-> p, character |-> c, action |-> a, hash |-> Hash(i), mode |-> m, age |-> 0]
            \in Commit
      BY DEF Commit, ExpiredAge
    <2> QED BY <1>0, <1>5, <2>1 DEF CommitAction, runVars, lootVars, WorldTypeOK
  <1>6. ASSUME NEW p \in Players, NEW id \in CommitIds, NEW i \in LootIntents,
               RevealOpenLootboxes(p, id, i) \/ RevealOpenLootboxesMax(p, id, i)
        PROVE  WorldTypeOK'
    <2> DEFINE c == commits[id].character
    <2>1. c \in CharacterIds /\ i.tier \in Tiers /\ i.mode \in VarianceMode /\ i.amount \in Nat
      BY <1>0, <1>6, RevealedCommit, LootIntentFields
      DEF RevealOpenLootboxes, RevealOpenLootboxesMax
    <2>2. Openable(c, i.tier, i.mode, i.amount) \in Nat
      BY <1>0, <2>1, OpenableTyped
    <2>3. \/ \E n \in Nat : OpenLootboxes(c, i.tier, i.mode, n)
          \/ UNCHANGED lootVars
      BY <1>6, <2>1, <2>2 DEF RevealOpenLootboxes, RevealOpenLootboxesMax
    <2>4. /\ credits' \in [CharacterIds -> [Tiers -> 0..CreditCap]]
          /\ bound' \in [CharacterIds -> [Tiers -> [VarianceMode -> Nat]]]
          /\ minted' \in Nat
          /\ UNCHANGED << freeClaimed, granted >>
      BY <1>0, <2>1, <2>3, OpenedTyped DEF lootVars, WorldTypeOK
    <2>5. commits' \in [CommitIds -> Commit \cup {NoCommit}]
      BY <1>0, <1>6 DEF RevealOpenLootboxes, RevealOpenLootboxesMax, WorldTypeOK
    <2>6. UNCHANGED << runVars, equipped, mmo >>
      BY <1>6 DEF RevealOpenLootboxes, RevealOpenLootboxesMax
    <2> QED BY <1>0, <2>4, <2>5, <2>6 DEF WorldTypeOK, runVars
  <1>7. ASSUME NEW p \in Players, NEW id \in CommitIds, NEW i \in RunIntents,
               NEW rooms \in RoomCounts, RevealStartDungeon(p, id, i, rooms)
        PROVE  WorldTypeOK'
    <2> DEFINE c   == commits[id].character
               fee == EntryFee[i.level] + RepairFee[i.level]
    <2>1. c \in CharacterIds /\ Exists(c)
      BY <1>0, <1>7, RevealedCommit DEF RevealStartDungeon
    <2>2. i.level \in Levels /\ i.difficulty \in Difficulty /\ i.mode \in VarianceMode
      <3>1. 1 <= i.level /\ i.level <= NextLevelCap(bestLevel[c])
        BY <1>7 DEF RevealStartDungeon, StartableLevel
      <3>2. bestLevel[c] \in 0..LevelCap
        BY <1>0, <2>1 DEF CharactersTypeOK
      <3> QED BY <3>1, <3>2, RunIntentFields DEF NextLevelCap, Levels
    <2>3. runs' \in [CharacterIds -> Run]
      <3> DEFINE r == [active |-> TRUE, owner |-> owner[c], difficulty |-> i.difficulty,
                       mode |-> i.mode, level |-> i.level, roomCount |-> rooms,
                       roomsCleared |-> 0, escrow |-> RepairFee[i.level]]
      <3>1. owner[c] \in Players \cup {NoOwner}
        BY <1>0, <2>1 DEF CharactersTypeOK
      <3>2. rooms \in Nat /\ i.level \in 0..LevelCap /\ RepairFee[i.level] \in Nat
        BY <2>2 DEF Levels
      <3>3. r \in Run
        BY <2>2, <3>1, <3>2 DEF Run
      <3>4. runs' = [runs EXCEPT ![c] = r]
        BY <1>7 DEF RevealStartDungeon
      <3> HIDE DEF r
      <3> QED BY <1>0, <3>3, <3>4 DEF WorldTypeOK
    <2>4. mmo' \in [Accounts -> Nat]
      <3>1. EntryFee[i.level] \in Nat /\ RepairFee[i.level] \in Nat /\ mmo \in [Accounts -> Nat]
            /\ p \in Accounts /\ mmo[p] >= fee
        BY <1>0, <1>7, <2>2 DEF RevealStartDungeon, WorldTypeOK, Accounts
      <3> QED BY <1>7, <3>1 DEF RevealStartDungeon, Accounts
    <2>5. commits' \in [CommitIds -> Commit \cup {NoCommit}]
      BY <1>0, <1>7 DEF RevealStartDungeon, WorldTypeOK
    <2>6. UNCHANGED << progress, stones, lootVars, equipped >>
      BY <1>7 DEF RevealStartDungeon
    <2> QED BY <1>0, <2>3, <2>4, <2>5, <2>6 DEF WorldTypeOK, lootVars
  <1>8. ASSUME NEW p \in Players, NEW c \in CharacterIds, LoseRoom(p, c)
        PROVE  WorldTypeOK'
    <2>1. runs[c] \in Run /\ runs[c].level \in Levels
      BY <1>0, <1>8, ResolvedRun DEF LoseRoom
    <2>2. runs' \in [CharacterIds -> Run]
      BY <1>0, <1>8, NoRunTyped DEF LoseRoom, EndRun, WorldTypeOK
    <2>3. progress' \in [CharacterIds -> [Levels -> Nat]]
      <3>1. progress \in [CharacterIds -> [Levels -> Nat]]
        BY <1>0 DEF WorldTypeOK
      <3>2. ReducedProgress(progress[c][runs[c].level], FailureDecay[runs[c].level]) \in Nat
        <4>1. progress[c][runs[c].level] \in Nat /\ FailureDecay[runs[c].level] \in Nat
          BY <2>1, <3>1
        <4> QED BY <4>1, ReducedProgressTyped
      <3> QED BY <1>8, <3>1, <3>2 DEF LoseRoom, ProgressAfterFailure
    <2>4. mmo' \in [Accounts -> Nat]
      BY <1>0, <1>8, PayEscrowTyped DEF LoseRoom, Accounts, Sink, World
    <2>5. UNCHANGED << commits, stones, lootVars, equipped >>
      BY <1>8 DEF LoseRoom
    <2> QED BY <1>0, <2>2, <2>3, <2>4, <2>5 DEF WorldTypeOK, lootVars
  <1>9. ASSUME NEW p \in Players, NEW c \in CharacterIds, WinRoom(p, c)
        PROVE  WorldTypeOK'
    <2>1. runs' \in [CharacterIds -> Run]
      <3> DEFINE r == [runs[c] EXCEPT !.roomsCleared = @ + 1]
      <3>1. runs \in [CharacterIds -> Run] /\ runs[c] \in Run
        BY <1>0 DEF WorldTypeOK
      <3>2. r \in Run
        BY <3>1 DEF Run
      <3>3. runs' = [runs EXCEPT ![c] = r]
        BY <1>9 DEF WinRoom
      <3> HIDE DEF r
      <3> QED BY <3>1, <3>2, <3>3
    <2> QED BY <1>0, <1>9, <2>1 DEF WinRoom, WorldTypeOK, lootVars
  <1>10. ASSUME NEW p \in Players, NEW c \in CharacterIds, NEW roll \in {0, 1},
                WinLastRoom(p, c, roll)
         PROVE  WorldTypeOK'
    <2>1. /\ runs[c] \in Run /\ runs[c].level \in Levels /\ runs[c].owner = p
          /\ progress \in [CharacterIds -> [Levels -> Nat]]
      BY <1>0, <1>10, ResolvedRun DEF WinLastRoom, CanResolve, WorldTypeOK
    <2>2. runs' \in [CharacterIds -> Run]
      BY <1>0, <1>10, NoRunTyped DEF WinLastRoom, EndRun, WorldTypeOK
    <2>3. mmo' \in [Accounts -> Nat]
      <3>1. p \in Accounts \ {World}
        BY DEF Accounts
      <3> QED BY <1>0, <1>10, <2>1, <3>1, PayEscrowTyped DEF WinLastRoom
    <2>4. UNCHANGED << commits, equipped >>
      BY <1>10 DEF WinLastRoom
    <2>5. CASE Replayed(c)
      BY <1>0, <2>2, <2>3, <2>4, <2>5 DEF Replayed, WorldTypeOK, lootVars
    <2>6. CASE Progressed(c)
      <3>1. ClearedUnits(c) \in Nat
        BY <2>1 DEF ClearedUnits, Run, ProgressionUnits, Difficulty
      <3>2. progress' \in [CharacterIds -> [Levels -> Nat]]
        BY <2>1, <2>6, <3>1 DEF Progressed
      <3> QED BY <1>0, <2>2, <2>3, <2>4, <2>6, <3>2 DEF Progressed, WorldTypeOK, lootVars
    <2>7. CASE LeveledUp(c, roll)
      <3> DEFINE t == LootTierFor(runs[c].level, runs[c].difficulty)
                 n == LootCount[runs[c].difficulty]
      <3>1. t \in Tiers /\ n \in Nat /\ runs[c].mode \in VarianceMode
        BY <2>1, LootTierTyped DEF Run, LootCount, Difficulty
      <3>2. /\ credits' = [credits EXCEPT ![c][t] = @ + n]
            /\ bound' = [bound EXCEPT ![c][t][runs[c].mode] = @ + n]
            /\ credits[c][t] + n <= CreditCap
            /\ granted' = granted + n
            /\ progress' = ProgressAfterClear(c)
            /\ stones' = StonesAfter(c, roll)
            /\ UNCHANGED << freeClaimed, minted >>
        BY <2>7 DEF LeveledUp
      <3> HIDE DEF t, n
      <3>3. credits' \in [CharacterIds -> [Tiers -> 0..CreditCap]]
        <4>1. credits[c][t] + n \in 0..CreditCap
          BY <1>0, <3>1, <3>2 DEF WorldTypeOK
        <4> QED BY <1>0, <3>1, <3>2, <4>1 DEF WorldTypeOK
      <3>4. bound' \in [CharacterIds -> [Tiers -> [VarianceMode -> Nat]]]
        BY <1>0, <3>1, <3>2 DEF WorldTypeOK
      <3>5. progress' \in [CharacterIds -> [Levels -> Nat]]
        BY <2>1, <3>2 DEF ProgressAfterClear
      <3>6. stones' \in [CharacterIds -> 0..StoneCap]
        BY <1>0, <3>2, StonesTyped
      <3> QED BY <1>0, <2>2, <2>3, <2>4, <3>1, <3>2, <3>3, <3>4, <3>5, <3>6 DEF WorldTypeOK
    <2> QED BY <1>10, <2>5, <2>6, <2>7 DEF WinLastRoom
  <1>11. ASSUME NEW p \in Players, NEW c \in CharacterIds, EquipItem(p, c)
         PROVE  WorldTypeOK'
    <2>1. equipped' \in [CharacterIds -> 0..SlotCount]
      BY <1>0, <1>11 DEF EquipItem, WorldTypeOK
    <2> QED BY <1>0, <1>11, <2>1 DEF EquipItem, WorldTypeOK, lootVars, runVars
  <1>12. ASSUME NEW p \in Players, NEW c \in CharacterIds, NEW cost \in ForgeCosts,
                ForgeSetPiece(p, c, cost)
         PROVE  WorldTypeOK'
    <2>1. cost[1] \in Nat /\ cost[2] \in Nat
      OBVIOUS
    <2>2. stones' \in [CharacterIds -> 0..StoneCap]
      BY <1>0, <1>12, <2>1 DEF ForgeSetPiece, WorldTypeOK
    <2>3. mmo' \in [Accounts -> Nat]
      <3>1. mmo \in [Accounts -> Nat] /\ p \in Accounts /\ Sink \in Accounts /\ mmo[p] >= cost[2]
        BY <1>0, <1>12 DEF ForgeSetPiece, WorldTypeOK, Accounts
      <3> HIDE DEF Sink
      <3> QED BY <1>12, <2>1, <3>1 DEF ForgeSetPiece
    <2> QED BY <1>0, <1>12, <2>2, <2>3 DEF ForgeSetPiece, WorldTypeOK, lootVars
  <1>13. ASSUME NEW p \in Players, NEW c \in CharacterIds, RerollItemStats(p, c)
         PROVE  WorldTypeOK'
    <2>1. stones' \in [CharacterIds -> 0..StoneCap]
      BY <1>0, <1>13 DEF RerollItemStats, WorldTypeOK
    <2> QED BY <1>0, <1>13, <2>1 DEF RerollItemStats, WorldTypeOK, lootVars
  <1>14. ASSUME NEW c \in CharacterIds, TransferEquipped(c)
         PROVE  WorldTypeOK'
    <2>1. equipped' \in [CharacterIds -> 0..SlotCount]
      BY <1>0, <1>14 DEF TransferEquipped, WorldTypeOK
    <2> QED BY <1>0, <1>14, <2>1 DEF TransferEquipped, WorldTypeOK, lootVars, runVars
  <1>15. CASE NewBlock
    <2>1. ASSUME NEW id \in CommitIds PROVE Aged(commits[id]) \in Commit \cup {NoCommit}
      <3>1. CASE commits[id] = NoCommit
        BY <3>1 DEF Aged
      <3>2. CASE commits[id] # NoCommit
        <4>1. commits[id] \in Commit
          BY <1>0, <3>2 DEF WorldTypeOK
        <4>2. Least(ExpiredAge, commits[id].age + 1) \in 0..ExpiredAge
          BY <4>1 DEF Least, Commit, ExpiredAge
        <4> QED BY <3>2, <4>1, <4>2 DEF Aged, Commit
      <3> QED BY <3>1, <3>2
    <2>2. commits' \in [CommitIds -> Commit \cup {NoCommit}]
      BY <1>15, <2>1 DEF NewBlock
    <2> QED BY <1>0, <1>15, <2>2 DEF NewBlock, WorldTypeOK, lootVars, runVars
  <1>16. CASE UNCHANGED vars
    BY <1>0, <1>16 DEF vars, worldVars, lootVars, runVars, WorldTypeOK
  <1> QED
    BY <1>1, <1>2, <1>3, <1>4, <1>5, <1>6, <1>7, <1>8, <1>9, <1>10, <1>11, <1>12, <1>13,
       <1>14, <1>15, <1>16
    DEF Next, Registering, Looting, Committing, Revealing, Resolving, Gearing

-----------------------------------------------------------------------------

\* A creation writes only the records of the new character.
LEMMA CreateWrites ==
  ASSUME GameInv, NEW p \in Players, Create(p), NEW c \in CharacterIds
  PROVE  /\ Exists(c) => c # nextCharacterId
         /\ c # nextCharacterId => owner'[c] = owner[c] /\ bestLevel'[c] = bestLevel[c]
         /\ c = nextCharacterId => owner'[c] = p /\ bestLevel'[c] = 1 /\ ~Exists(c)
         /\ UNCHANGED << runs, progress >>
  <1>1. UNCHANGED << runs, progress >>
    BY DEF Create, worldVars, runVars
  <1>2. Created = 1..(nextCharacterId - 1) /\ nextCharacterId \in Int
    BY DEF GameInv, CharactersInv, CountersExact, CharactersTypeOK
  <1>3. Exists(c) => c # nextCharacterId
    BY <1>2 DEF Created
  <1>4. /\ c # nextCharacterId => owner'[c] = owner[c] /\ bestLevel'[c] = bestLevel[c]
        /\ c = nextCharacterId => owner'[c] = p /\ bestLevel'[c] = 1
    BY DEF Create, CreateCharacter, GameInv, CharactersInv, CharactersTypeOK
  <1> QED BY <1>1, <1>3, <1>4

LEMMA BlankStep ==
  ASSUME GameInv, [Next]_vars
  PROVE  BlankUntilCreated'
  <1> USE DEF BlankUntilCreated
  <1>0. CharactersTypeOK /\ WorldTypeOK /\ RunInReach /\ BlankUntilCreated
    BY DEF GameInv, CharactersInv
  <1>1. CASE ~RunStep
    BY <1>0, <1>1, OnlyRunSteps DEF Exists
  <1>2. ASSUME NEW p \in Players, Create(p) PROVE BlankUntilCreated'
    BY <1>0, <1>2, CreateWrites, CharactersAssumption DEF Exists
  <1>3. ASSUME NEW p \in Players, NEW id \in CommitIds, NEW i \in RunIntents,
               NEW rooms \in RoomCounts, RevealStartDungeon(p, id, i, rooms)
        PROVE  BlankUntilCreated'
    BY <1>0, <1>3 DEF RevealStartDungeon, characterVars, registryVars, Exists
  <1>4. ASSUME NEW p \in Players, NEW c \in CharacterIds,
               LoseRoom(p, c) \/ WinRoom(p, c) \/ \E roll \in {0, 1} : WinLastRoom(p, c, roll)
        PROVE  BlankUntilCreated'
    <2>1. Exists(c)
      BY <1>0, <1>4, ResolvedRun DEF LoseRoom, WinRoom, WinLastRoom
    <2>2. \A d \in CharacterIds : d # c => progress'[d] = progress[d]
      BY <1>0, <1>4 DEF LoseRoom, ProgressAfterFailure, WinRoom, WinLastRoom, Replayed,
                        Progressed, LeveledUp, ProgressAfterClear, WorldTypeOK
    <2>3. owner' = owner
      BY <1>4 DEF LoseRoom, WinRoom, WinLastRoom, Replayed, Progressed, LeveledUp,
                  SetBestLevel, characterVars, registryVars
    <2> QED BY <1>0, <2>1, <2>2, <2>3 DEF Exists
  <1> QED BY <1>1, <1>2, <1>3, <1>4 DEF RunStep

LEMMA FrontierProgressStep ==
  ASSUME GameInv, [Next]_vars
  PROVE  FrontierProgress'
  <1> USE DEF FrontierProgress
  <1>0. CharactersTypeOK /\ WorldTypeOK /\ RunInReach /\ BlankUntilCreated /\ FrontierProgress
    BY DEF GameInv, CharactersInv
  <1>1. CASE ~RunStep
    BY <1>0, <1>1, OnlyRunSteps
  <1>2. ASSUME NEW p \in Players, Create(p) PROVE FrontierProgress'
    BY <1>0, <1>2, CreateWrites DEF BlankUntilCreated
  <1>3. ASSUME NEW p \in Players, NEW id \in CommitIds, NEW i \in RunIntents,
               NEW rooms \in RoomCounts, RevealStartDungeon(p, id, i, rooms)
        PROVE  FrontierProgress'
    BY <1>0, <1>3 DEF RevealStartDungeon, characterVars, levelVars
  <1>4. ASSUME NEW p \in Players, NEW c \in CharacterIds, WinRoom(p, c)
        PROVE  FrontierProgress'
    BY <1>0, <1>4 DEF WinRoom, characterVars, levelVars
  <1>5. ASSUME NEW p \in Players, NEW c \in CharacterIds, LoseRoom(p, c)
        PROVE  FrontierProgress'
    <2>1. runs[c].level \in Levels /\ UNCHANGED bestLevel
      BY <1>0, <1>5, ResolvedRun DEF LoseRoom, characterVars, levelVars
    <2>2. /\ progress \in [CharacterIds -> [Levels -> Nat]]
          /\ FailureDecay[runs[c].level] \in Nat
      BY <1>0, <2>1, GameWorldAssumption DEF WorldTypeOK
    <2>3. \A d \in CharacterIds, l \in Levels :
            progress'[d][l] \in Nat /\ progress'[d][l] <= progress[d][l]
      <3> DEFINE l == runs[c].level
                 r == ReducedProgress(progress[c][l], FailureDecay[l])
      <3>1. r \in Nat /\ r <= progress[c][l] /\ progress[c][l] \in Nat
        <4>1. progress[c][l] \in Nat
          BY <2>1, <2>2
        <4> QED BY <2>2, <4>1, ReducedProgressTyped
      <3>2. progress' \in {progress, [progress EXCEPT ![c][l] = r]}
        BY <1>5 DEF LoseRoom, ProgressAfterFailure
      <3> HIDE DEF l, r
      <3> QED BY <2>2, <3>1, <3>2
    <2>4. RequiredClears \in [Levels -> Nat]
      BY GameWorldAssumption
    <2> QED BY <1>0, <2>1, <2>2, <2>3, <2>4
  <1>6. ASSUME NEW p \in Players, NEW c \in CharacterIds, NEW roll \in {0, 1},
               WinLastRoom(p, c, roll)
        PROVE  FrontierProgress'
    <2> DEFINE l == runs[c].level
    <2>1. /\ l \in Levels /\ l <= bestLevel[c] + 1 /\ bestLevel[c] \in Nat
          /\ progress \in [CharacterIds -> [Levels -> Nat]]
      BY <1>0, <1>6, ResolvedRun DEF WinLastRoom, WorldTypeOK
    <2>2. CASE Replayed(c)
      BY <1>0, <2>2 DEF Replayed, characterVars, levelVars
    <2>3. CASE Progressed(c)
      <3>1. l = bestLevel[c] + 1
        BY <2>1, <2>3 DEF Progressed, Levels
      <3>2. /\ progress' = [progress EXCEPT ![c][l] = ClearedUnits(c)]
            /\ ClearedUnits(c) < RequiredClears[l]
            /\ UNCHANGED bestLevel
        BY <2>3 DEF Progressed, characterVars, levelVars
      <3> HIDE DEF l
      <3> QED BY <1>0, <2>1, <3>1, <3>2
    <2>4. CASE LeveledUp(c, roll)
      <3>1. l = bestLevel[c] + 1
        BY <2>1, <2>4 DEF LeveledUp, Levels
      <3>2. /\ progress' = [progress EXCEPT ![c][l] = 0]
            /\ bestLevel' = [bestLevel EXCEPT ![c] = l]
        BY <2>4 DEF LeveledUp, ProgressAfterClear, SetBestLevel
      <3>3. bestLevel \in [CharacterIds -> 0..LevelCap]
        BY <1>0 DEF CharactersTypeOK
      <3> HIDE DEF l
      <3>4. \A k \in Levels : progress'[c][k] = 0
        BY <1>0, <2>1, <3>1, <3>2
      <3>5. \A d \in CharacterIds : d # c => /\ progress'[d] = progress[d]
                                             /\ bestLevel'[d] = bestLevel[d]
        BY <2>1, <3>2, <3>3
      <3> QED BY <1>0, <3>4, <3>5
    <2> QED BY <1>6, <2>2, <2>3, <2>4 DEF WinLastRoom
  <1> QED BY <1>1, <1>2, <1>3, <1>4, <1>5, <1>6 DEF RunStep

LEMMA RunInReachStep ==
  ASSUME GameInv, [Next]_vars
  PROVE  RunInReach'
  <1>0. CharactersTypeOK /\ WorldTypeOK /\ CommitsOwned /\ RunInReach
    BY DEF GameInv, CharactersInv
  <1> SUFFICES ASSUME NEW d \in CharacterIds, runs'[d].active
               PROVE  /\ owner'[d] # NoOwner /\ runs'[d].owner = owner'[d]
                      /\ runs'[d].level \in 1..(bestLevel'[d] + 1)
                      /\ runs'[d].roomsCleared < runs'[d].roomCount
    BY DEF RunInReach, Exists
  <1> DEFINE Q == /\ owner'[d] # NoOwner /\ runs'[d].owner = owner'[d]
                  /\ runs'[d].level \in 1..(bestLevel'[d] + 1)
                  /\ runs'[d].roomsCleared < runs'[d].roomCount
  \* a run that stays as it is stays in reach
  <1>1. ASSUME runs'[d] = runs[d] PROVE Q
    <2>1. /\ Exists(d) /\ runs[d].owner = owner[d]
          /\ runs[d].level \in 1..(bestLevel[d] + 1)
          /\ runs[d].roomsCleared < runs[d].roomCount
      BY <1>0, <1>1 DEF RunInReach
    <2>2. owner'[d] = owner[d] /\ owner'[d] # NoOwner
      BY <2>1, OwnersStay DEF Exists
    <2>3. bestLevel[d] \in Nat /\ bestLevel'[d] \in Nat /\ bestLevel'[d] >= bestLevel[d]
      BY <2>1, LevelsRise
    <2> QED BY <1>1, <2>1, <2>2, <2>3
  <1>2. CASE ~RunStep
    BY <1>1, <1>2, OnlyRunSteps
  <1>3. ASSUME NEW p \in Players, Create(p) PROVE Q
    BY <1>1, <1>3, CreateWrites
  <1>4. ASSUME NEW p \in Players, NEW id \in CommitIds, NEW i \in RunIntents,
               NEW rooms \in RoomCounts, RevealStartDungeon(p, id, i, rooms)
        PROVE  Q
    <2> DEFINE c == commits[id].character
    <2>1. c \in CharacterIds /\ Exists(c)
      BY <1>0, <1>4, RevealedCommit DEF RevealStartDungeon
    <2>2. CASE d # c
      BY <1>0, <1>1, <1>4, <2>1, <2>2 DEF RevealStartDungeon, WorldTypeOK
    <2>3. CASE d = c
      <3>1. /\ runs'[d].owner = owner[d] /\ runs'[d].level = i.level
            /\ runs'[d].roomCount = rooms /\ runs'[d].roomsCleared = 0
            /\ UNCHANGED << owner, bestLevel >>
        BY <1>0, <1>4, <2>1, <2>3
        DEF RevealStartDungeon, WorldTypeOK, characterVars, registryVars, levelVars
      <3>2. rooms > 0
        BY GameWorldAssumption
      <3>3. i.level \in 1..(bestLevel[d] + 1)
        <4>1. 1 <= i.level /\ i.level <= NextLevelCap(bestLevel[d]) /\ i.level \in Nat
          BY <1>4, <2>3, RunIntentFields DEF RevealStartDungeon, StartableLevel
        <4>2. bestLevel[d] \in 0..LevelCap /\ LevelCap \in Nat
          BY <1>0, CharactersAssumption DEF CharactersTypeOK
        <4> QED BY <4>1, <4>2 DEF NextLevelCap
      <3> QED BY <2>1, <2>3, <3>1, <3>2, <3>3 DEF Exists
    <2> QED BY <2>2, <2>3
  <1>5. ASSUME NEW p \in Players, NEW c \in CharacterIds, WinRoom(p, c) PROVE Q
    <2>1. CASE d # c
      BY <1>0, <1>1, <1>5, <2>1 DEF WinRoom, WorldTypeOK
    <2>2. CASE d = c
      <3>1. /\ runs[c] \in Run /\ Exists(c) /\ runs[c].owner = owner[c]
            /\ runs[c].level \in 1..(bestLevel[c] + 1)
            /\ runs[c].roomsCleared < runs[c].roomCount
        BY <1>0, <1>5 DEF WinRoom, CanResolve, WorldTypeOK, RunInReach
      <3>2. /\ runs'[c] = [runs[c] EXCEPT !.roomsCleared = @ + 1]
            /\ runs[c].roomsCleared + 1 # runs[c].roomCount
            /\ UNCHANGED << owner, bestLevel >>
        BY <1>0, <1>5 DEF WinRoom, WorldTypeOK, LastRoom, characterVars, registryVars, levelVars
      <3> QED BY <2>2, <3>1, <3>2 DEF Run, Exists
    <2> QED BY <2>1, <2>2
  \* a run that ends is not in progress any more
  <1>6. ASSUME NEW c \in CharacterIds, runs' = EndRun(c) PROVE Q
    BY <1>0, <1>1, <1>6 DEF EndRun, NoRun, WorldTypeOK
  <1>7. ASSUME NEW p \in Players, NEW c \in CharacterIds,
               LoseRoom(p, c) \/ \E roll \in {0, 1} : WinLastRoom(p, c, roll)
        PROVE  Q
    BY <1>6, <1>7 DEF LoseRoom, WinLastRoom
  <1> QED BY <1>2, <1>3, <1>4, <1>5, <1>7 DEF RunStep

-----------------------------------------------------------------------------
(* Lootbox credits                                                         *)

\* The words of the commit allow n boxes of tier t to be opened.
OnTerms(commit, t, n) ==
  /\ commit.hash.action = "LOOTBOX_OPEN" /\ commit.hash.first = t
  /\ commit.age \in RevealDelay..RevealWindow
  /\ n <= commit.hash.second
  /\ ExactOnly(commit.hash) => n = commit.hash.second

\* Credits change only in these transactions; the commit an opening uses up was
\* announced with the mode it opens, and its words allow it.
Opening(id, c, t, m, n) ==
  /\ commits[id] # NoCommit /\ commits'[id] = NoCommit
  /\ commits[id].character = c
  /\ commits[id].mode = m
  /\ OnTerms(commits[id], t, n)
  /\ OpenLootboxes(c, t, m, n)

LootStep ==
  \/ \E p \in Players, c \in CharacterIds : ClaimFreeLootbox(p, c)
  \/ \E p \in Players, c \in CharacterIds, d \in Difficulty, n \in PremiumAmounts :
       CreditPremiumLootboxes(p, c, d, n)
  \/ \E id \in CommitIds, c \in CharacterIds, t \in Tiers, m \in VarianceMode, n \in Nat :
       Opening(id, c, t, m, n)
  \/ \E p \in Players, c \in CharacterIds, roll \in {0, 1} :
       WinLastRoom(p, c, roll) /\ LeveledUp(c, roll)

\* An exact reveal opens the amount of its words. A max reveal opens at most that,
\* and its words are those of a max form.
LEMMA RevealOnTerms ==
  ASSUME WorldTypeOK, CommitsOwned, NEW p \in Players, NEW id \in CommitIds,
         NEW i \in LootIntents, ValidReveal(p, id, "LOOTBOX_OPEN", i),
         NEW n \in Nat,
         \/ i.form = "exact" /\ n = i.amount
         \/ i.form = "max" /\ n <= i.amount
  PROVE  OnTerms(commits[id], i.tier, n)
  <1>1. commits[id] \in Commit /\ commits[id].hash = Hash(i)
    BY RevealedCommit DEF ValidReveal
  <1>2. /\ Hash(i).action = "LOOTBOX_OPEN" /\ Hash(i).first = i.tier
        /\ Hash(i).second = i.amount
    BY LootIntentFields DEF Hash
  <1>3. commits[id].age \in RevealDelay..RevealWindow
    <2>1. commits[id].age \in Nat
      BY <1>1, GameWorldAssumption DEF Commit, ExpiredAge
    <2> QED BY <2>1, GameWorldAssumption DEF ValidReveal, InRevealWindow
  <1>4. i.amount \in Nat /\ n <= i.amount
    BY LootIntentFields
  <1>5. ExactOnly(Hash(i)) => i.form = "exact"
    BY DEF ExactOnly
  <1>6. ExactOnly(Hash(i)) => n = i.amount
    BY <1>5
  <1> QED BY <1>1, <1>2, <1>3, <1>4, <1>6 DEF OnTerms

\* SameMode is the code's comparison of the announced mode with the one revealed.
LEMMA RevealOpens ==
  ASSUME WorldTypeOK, CommitsOwned, NEW p \in Players, NEW id \in CommitIds,
         NEW i \in LootIntents,
         RevealOpenLootboxes(p, id, i) \/ RevealOpenLootboxesMax(p, id, i)
  PROVE  LootStep \/ UNCHANGED lootVars
  <1> DEFINE c == commits[id].character
  <1>1. ValidReveal(p, id, "LOOTBOX_OPEN", i) /\ commits' = [commits EXCEPT ![id] = NoCommit]
    BY DEF RevealOpenLootboxes, RevealOpenLootboxesMax
  <1>2. /\ commits[id] # NoCommit /\ commits'[id] = NoCommit
        /\ c \in CharacterIds /\ commits[id].mode = i.mode
    BY <1>1, RevealedCommit DEF ValidReveal, SameMode, WorldTypeOK
  <1>3. i.tier \in Tiers /\ i.mode \in VarianceMode /\ i.amount \in Nat
    BY LootIntentFields
  <1>4. /\ Openable(c, i.tier, i.mode, i.amount) \in Nat
        /\ Openable(c, i.tier, i.mode, i.amount) <= i.amount
    <2>1. Openable(c, i.tier, i.mode, i.amount) \in Nat
      BY <1>2, <1>3, OpenableTyped
    <2>2. \A x : Least(i.amount, x) \in Nat => Least(i.amount, x) <= i.amount
      BY <1>3 DEF Least
    <2> QED BY <2>1, <2>2 DEF Openable
  <1>5. ASSUME NEW n \in Nat, OpenLootboxes(c, i.tier, i.mode, n), OnTerms(commits[id], i.tier, n)
        PROVE  LootStep
    BY <1>2, <1>3, <1>5 DEF LootStep, Opening
  <1>6. CASE RevealOpenLootboxes(p, id, i)
    <2>1. i.form = "exact" /\ OpenLootboxes(c, i.tier, i.mode, i.amount)
      BY <1>6 DEF RevealOpenLootboxes
    <2>2. OnTerms(commits[id], i.tier, i.amount)
      BY <1>1, <1>3, <2>1, RevealOnTerms
    <2> QED BY <1>3, <1>5, <2>1, <2>2
  <1>7. CASE RevealOpenLootboxesMax(p, id, i)
    <2> DEFINE n == Openable(c, i.tier, i.mode, i.amount)
    <2>1. i.form = "max" /\ (OpenLootboxes(c, i.tier, i.mode, n) \/ UNCHANGED lootVars)
      BY <1>7 DEF RevealOpenLootboxesMax
    <2>2. OnTerms(commits[id], i.tier, n)
      BY <1>1, <1>4, <2>1, RevealOnTerms
    <2> QED BY <1>4, <1>5, <2>1, <2>2
  <1> QED BY <1>6, <1>7

LEMMA OnlyLootSteps ==
  ASSUME WorldTypeOK, CommitsOwned, [Next]_vars, ~LootStep
  PROVE  UNCHANGED << credits, bound, minted, granted >>
  <1> DEFINE Q == UNCHANGED << credits, bound, minted, granted >>
  <1> USE DEF lootVars
  <1>1. CASE UNCHANGED vars
    BY <1>1 DEF vars, worldVars
  <1>2. ASSUME NEW p \in Players, Registering(p) PROVE Q
    BY <1>2 DEF Registering, Create, worldVars
  <1>3. ASSUME NEW p \in Players, Looting(p) PROVE LootStep
    BY <1>3 DEF Looting, LootStep
  <1>4. ASSUME NEW p \in Players, Committing(p) PROVE Q
    BY <1>4 DEF Committing, CommitAction, CancelExpired
  <1>5. ASSUME NEW p \in Players, Revealing(p) PROVE Q
    BY <1>5, RevealOpens DEF Revealing, RevealStartDungeon
  <1>6. ASSUME NEW p \in Players, NEW c \in CharacterIds, Resolving(p, c) PROVE Q
    <2>1. ASSUME NEW roll \in {0, 1}, WinLastRoom(p, c, roll) PROVE Q
      BY <2>1 DEF WinLastRoom, Replayed, Progressed, LootStep
    <2> QED BY <1>6, <2>1 DEF Resolving, LoseRoom, WinRoom
  <1>7. ASSUME NEW p \in Players, NEW c \in CharacterIds, Gearing(p, c) PROVE Q
    BY <1>7 DEF Gearing, EquipItem, ForgeSetPiece, RerollItemStats
  <1>8. ASSUME NEW c \in CharacterIds, TransferEquipped(c) PROVE Q
    BY <1>8 DEF TransferEquipped
  <1>9. CASE NewBlock
    BY <1>9 DEF NewBlock
  <1> QED BY <1>1, <1>2, <1>3, <1>4, <1>5, <1>6, <1>7, <1>8, <1>9 DEF Next

\* Consuming n credits of mode m takes at most the generic ones beyond its own.
LEMMA OpeningCovered ==
  ASSUME WorldTypeOK, NEW c \in CharacterIds, NEW t \in Tiers, NEW m \in VarianceMode,
         NEW n \in Nat, OpenLootboxes(c, t, m, n), BoundCreditsCovered
  PROVE  BoundCreditsCovered'
  <1>0. /\ credits \in [CharacterIds -> [Tiers -> Nat]]
        /\ bound \in [CharacterIds -> [Tiers -> [VarianceMode -> Nat]]]
    BY GameWorldAssumption DEF WorldTypeOK
  <1> DEFINE k == Least(bound[c][t][m], n)
  <1>1. k \in Nat /\ k <= bound[c][t][m]
    BY <1>0 DEF Least
  <1>2. /\ credits' = [credits EXCEPT ![c][t] = @ - n]
        /\ bound' = [bound EXCEPT ![c][t][m] = @ - k]
        /\ n - k <= credits[c][t] - BoundTotal(c, t)
    BY DEF OpenLootboxes, ConsumedBound, CanConsume
  <1> HIDE DEF k
  <1>3. credits'[c][t] = credits[c][t] - n
    BY <1>0, <1>2
  <1>4. bound'[c][t] = [bound[c][t] EXCEPT ![m] = @ - k]
    BY <1>0, <1>2
  <1>5. bound[c][t] \in [VarianceMode -> Nat] /\ credits[c][t] \in Nat
    BY <1>0
  <1>6. BoundTotal(c, t)' = BoundTotal(c, t) - k
    BY <1>1, <1>4, <1>5 DEF BoundTotal, VarianceMode
  <1>7. BoundTotal(c, t) \in Nat
    BY <1>5 DEF BoundTotal, VarianceMode
  <1>8. BoundTotal(c, t)' <= credits'[c][t]
    BY <1>1, <1>2, <1>3, <1>5, <1>6, <1>7
  <1>9. \A d \in CharacterIds, u \in Tiers : d # c \/ u # t =>
          credits'[d][u] = credits[d][u] /\ bound'[d][u] = bound[d][u]
    BY <1>0, <1>2
  <1> QED BY <1>8, <1>9 DEF BoundCreditsCovered, BoundTotal

\* Adding credits keeps the bound ones covered, if as many are added to the total.
LEMMA GrantCovered ==
  ASSUME WorldTypeOK, BoundCreditsCovered,
         NEW c \in CharacterIds, NEW t \in Tiers, NEW n \in Nat,
         credits' = [credits EXCEPT ![c][t] = @ + n],
         \/ UNCHANGED bound
         \/ \E m \in VarianceMode : bound' = [bound EXCEPT ![c][t][m] = @ + n]
  PROVE  BoundCreditsCovered'
  <1>0. /\ credits \in [CharacterIds -> [Tiers -> Nat]]
        /\ bound \in [CharacterIds -> [Tiers -> [VarianceMode -> Nat]]]
    BY GameWorldAssumption DEF WorldTypeOK
  <1>1. credits'[c][t] = credits[c][t] + n /\ credits[c][t] \in Nat
    BY <1>0
  <1>2. \A d \in CharacterIds, u \in Tiers : d # c \/ u # t =>
          credits'[d][u] = credits[d][u] /\ bound'[d][u] = bound[d][u]
    BY <1>0
  <1>3. BoundTotal(c, t)' <= BoundTotal(c, t) + n /\ BoundTotal(c, t) \in Nat
        /\ BoundTotal(c, t)' \in Nat
    <2>1. bound[c][t] \in [VarianceMode -> Nat]
      BY <1>0
    <2>2. CASE UNCHANGED bound
      BY <2>1, <2>2 DEF BoundTotal, VarianceMode
    <2>3. ASSUME NEW m \in VarianceMode, bound' = [bound EXCEPT ![c][t][m] = @ + n]
          PROVE  BoundTotal(c, t)' = BoundTotal(c, t) + n /\ BoundTotal(c, t) \in Nat
      <3>1. bound'[c][t] = [bound[c][t] EXCEPT ![m] = @ + n]
        BY <1>0, <2>3
      <3> QED BY <2>1, <3>1 DEF BoundTotal, VarianceMode
    <2> QED BY <2>2, <2>3
  <1>4. BoundTotal(c, t)' <= credits'[c][t]
    BY <1>1, <1>3 DEF BoundCreditsCovered
  <1> QED BY <1>2, <1>4 DEF BoundCreditsCovered, BoundTotal

LEMMA BoundCreditsCoveredStep ==
  ASSUME GameInv, [Next]_vars
  PROVE  BoundCreditsCovered'
  <1>0. CharactersTypeOK /\ WorldTypeOK /\ CommitsOwned /\ BoundCreditsCovered
    BY DEF GameInv, CharactersInv
  <1>1. CASE ~LootStep
    BY <1>0, <1>1, OnlyLootSteps DEF BoundCreditsCovered, BoundTotal
  <1>2. ASSUME NEW p \in Players, NEW c \in CharacterIds, ClaimFreeLootbox(p, c)
        PROVE  BoundCreditsCovered'
    <2>1. FreeTier \in Tiers
      BY GameWorldAssumption, CharactersAssumption DEF FreeTier, Tiers, Levels
    <2> QED BY <1>0, <1>2, <2>1, GrantCovered DEF ClaimFreeLootbox
  <1>3. ASSUME NEW p \in Players, NEW c \in CharacterIds, NEW d \in Difficulty,
               NEW n \in PremiumAmounts, CreditPremiumLootboxes(p, c, d, n)
        PROVE  BoundCreditsCovered'
    <2>1. LootTierFor(bestLevel[c], d) \in Tiers /\ n \in Nat
      BY <1>0, LootTierTyped, GameWorldAssumption DEF CharactersTypeOK
    <2> QED BY <1>0, <1>3, <2>1, GrantCovered DEF CreditPremiumLootboxes
  <1>4. ASSUME NEW id \in CommitIds, NEW c \in CharacterIds, NEW t \in Tiers,
               NEW m \in VarianceMode, NEW n \in Nat, Opening(id, c, t, m, n)
        PROVE  BoundCreditsCovered'
    BY <1>0, <1>4, OpeningCovered DEF Opening
  <1>5. ASSUME NEW p \in Players, NEW c \in CharacterIds, NEW roll \in {0, 1},
               WinLastRoom(p, c, roll), LeveledUp(c, roll)
        PROVE  BoundCreditsCovered'
    <2> DEFINE t == LootTierFor(runs[c].level, runs[c].difficulty)
               n == LootCount[runs[c].difficulty]
    <2>1. runs[c] \in Run
      BY <1>0 DEF WorldTypeOK
    <2>2. t \in Tiers /\ n \in Nat /\ runs[c].mode \in VarianceMode
      BY <2>1, LootTierTyped DEF Run, LootCount, Difficulty
    <2>3. /\ credits' = [credits EXCEPT ![c][t] = @ + n]
          /\ bound' = [bound EXCEPT ![c][t][runs[c].mode] = @ + n]
      BY <1>5 DEF LeveledUp
    <2> HIDE DEF t, n
    <2> QED BY <1>0, <2>2, <2>3, GrantCovered
  <1> QED BY <1>1, <1>2, <1>3, <1>4, <1>5 DEF LootStep

\* All credits of a table of counters.
AllCredits(f) == SumFunction([c \in CharacterIds |-> SumFunction(f[c])])

LEMMA CountersFinite == IsFiniteSet(CharacterIds) /\ IsFiniteSet(Tiers)
<1>1. IsFiniteSet(CharacterIds)
  BY RegistryFinite
<1>2. IsFiniteSet(1..LevelCap)
  BY CharactersAssumption, FS_Interval
<1> QED BY <1>1, <1>2 DEF Tiers, Levels

\* One counter changed changes the sum of all by as much.
LEMMA AllCreditsChange ==
  ASSUME NEW f, NEW g, NEW a \in CharacterIds, NEW b \in Tiers
  PROVE  /\ f \in [CharacterIds -> [Tiers -> Nat]] /\ g \in [CharacterIds -> [Tiers -> Nat]]
         /\ \A x \in CharacterIds \ {a} : g[x] = f[x]
         /\ \A y \in Tiers \ {b} : g[a][y] = f[a][y]
         => AllCredits(f) \in Nat /\ AllCredits(g) = AllCredits(f) - f[a][b] + g[a][b]
<1>0. SUFFICES ASSUME /\ f \in [CharacterIds -> [Tiers -> Nat]]
                      /\ g \in [CharacterIds -> [Tiers -> Nat]]
                      /\ \A x \in CharacterIds \ {a} : g[x] = f[x]
                      /\ \A y \in Tiers \ {b} : g[a][y] = f[a][y]
               PROVE  AllCredits(f) \in Nat /\ AllCredits(g) = AllCredits(f) - f[a][b] + g[a][b]
  OBVIOUS
<1> DEFINE F == [x \in CharacterIds |-> SumFunction(f[x])]
           G == [x \in CharacterIds |-> SumFunction(g[x])]
<1>1. \A x \in CharacterIds : /\ F[x] = SumFunctionOnSet(f[x], Tiers)
                             /\ G[x] = SumFunctionOnSet(g[x], Tiers)
  BY <1>0 DEF SumFunction
<1>2. \A x \in CharacterIds : F[x] \in Nat /\ G[x] \in Nat
  <2>1. ASSUME NEW x \in CharacterIds PROVE SumFunctionOnSet(f[x], Tiers) \in Nat
    <3>1. \A y \in Tiers : f[x][y] \in Nat
      BY <1>0
    <3> QED BY <3>1, CountersFinite, SumNat
  <2>2. ASSUME NEW x \in CharacterIds PROVE SumFunctionOnSet(g[x], Tiers) \in Nat
    <3>1. \A y \in Tiers : g[x][y] \in Nat
      BY <1>0
    <3> QED BY <3>1, CountersFinite, SumNat
  <2> QED BY <1>1, <2>1, <2>2
<1>3. \A x \in CharacterIds \ {a} : G[x] = F[x]
  BY <1>0
<1>4. G[a] = F[a] - f[a][b] + g[a][b]
  <2>1. \A y \in Tiers : f[a][y] \in Nat /\ g[a][y] \in Nat
    BY <1>0
  <2>2. SumFunctionOnSet(g[a], Tiers) = SumFunctionOnSet(f[a], Tiers) - f[a][b] + g[a][b]
    BY <1>0, <2>1, CountersFinite, SumChange
  <2> QED BY <1>1, <2>2
<1>5. /\ SumFunction(F) = SumFunctionOnSet(F, CharacterIds)
      /\ SumFunction(G) = SumFunctionOnSet(G, CharacterIds)
  BY DEF SumFunction
<1>6. f[a][b] \in Nat /\ g[a][b] \in Nat
  BY <1>0
<1>7. AllCredits(f) = SumFunction(F) /\ AllCredits(g) = SumFunction(G)
  BY DEF AllCredits
<1> HIDE DEF F, G
<1>8. SumFunctionOnSet(F, CharacterIds) \in Nat
  BY <1>2, CountersFinite, SumNat
<1>9. SumFunctionOnSet(G, CharacterIds) = SumFunctionOnSet(F, CharacterIds) - F[a] + G[a]
  <2>1. IsFiniteSet(CharacterIds)
    BY CountersFinite
  <2> QED BY <1>2, <1>3, <2>1, SumChange
<1>10. F[a] \in Nat
  BY <1>2
<1> QED BY <1>4, <1>5, <1>6, <1>7, <1>8, <1>9, <1>10

LEMMA CreditsChange ==
  ASSUME WorldTypeOK, WorldTypeOK', NEW c \in CharacterIds, NEW t \in Tiers, NEW n \in Int
  PROVE  credits' = [credits EXCEPT ![c][t] = @ + n] =>
           AllCredits(credits) \in Nat /\ AllCredits(credits') = AllCredits(credits) + n
<1>1. SUFFICES ASSUME credits' = [credits EXCEPT ![c][t] = @ + n]
               PROVE  /\ AllCredits(credits) \in Nat
                      /\ AllCredits(credits') = AllCredits(credits) + n
  OBVIOUS
<1>2. /\ credits \in [CharacterIds -> [Tiers -> Nat]]
      /\ credits' \in [CharacterIds -> [Tiers -> Nat]]
  BY GameWorldAssumption DEF WorldTypeOK
<1>3. credits'[c][t] = credits[c][t] + n /\ credits[c][t] \in Nat
  BY <1>1, <1>2
<1>4. /\ \A x \in CharacterIds \ {c} : credits'[x] = credits[x]
      /\ \A y \in Tiers \ {t} : credits'[c][y] = credits[c][y]
  BY <1>1, <1>2
<1>5. /\ AllCredits(credits) \in Nat
      /\ AllCredits(credits') = AllCredits(credits) - credits[c][t] + credits'[c][t]
  BY <1>2, <1>4, AllCreditsChange
<1> QED BY <1>3, <1>5

\* Whatever grants n credits counts them, whatever opens n mints n items.
LEMMA OneItemPerCreditStep ==
  ASSUME GameInv, OneItemPerCredit, [Next]_vars
  PROVE  OneItemPerCredit'
<1> USE DEF OneItemPerCredit
<1>0. /\ CharactersTypeOK /\ WorldTypeOK /\ WorldTypeOK' /\ CommitsOwned
      /\ granted \in Nat /\ minted \in Nat
  BY WorldTypeOKStep DEF GameInv, CharactersInv, WorldTypeOK
<1>1. CASE ~LootStep
  BY <1>0, <1>1, OnlyLootSteps
<1>2. ASSUME NEW c \in CharacterIds, NEW t \in Tiers, NEW n \in Nat,
             credits' = [credits EXCEPT ![c][t] = @ + n],
             granted' = granted + n, UNCHANGED minted
      PROVE  OneItemPerCredit'
  <2>1. AllCredits(credits) \in Nat /\ AllCredits(credits') = AllCredits(credits) + n
    <3>1. n \in Int
      OBVIOUS
    <3> QED BY <1>0, <1>2, <3>1, CreditsChange
  <2> QED BY <1>0, <1>2, <2>1 DEF AllCredits
<1>3. ASSUME NEW p \in Players, NEW c \in CharacterIds, ClaimFreeLootbox(p, c)
      PROVE  OneItemPerCredit'
  <2>1. FreeTier \in Tiers
    BY GameWorldAssumption, CharactersAssumption DEF FreeTier, Tiers, Levels
  <2> QED BY <1>2, <1>3, <2>1 DEF ClaimFreeLootbox
<1>4. ASSUME NEW p \in Players, NEW c \in CharacterIds, NEW d \in Difficulty,
             NEW n \in PremiumAmounts, CreditPremiumLootboxes(p, c, d, n)
      PROVE  OneItemPerCredit'
  <2>1. LootTierFor(bestLevel[c], d) \in Tiers /\ n \in Nat
    BY <1>0, LootTierTyped, GameWorldAssumption DEF CharactersTypeOK
  <2> QED BY <1>2, <1>4, <2>1 DEF CreditPremiumLootboxes
<1>5. ASSUME NEW id \in CommitIds, NEW c \in CharacterIds, NEW t \in Tiers,
             NEW m \in VarianceMode, NEW n \in Nat, Opening(id, c, t, m, n)
      PROVE  OneItemPerCredit'
  <2>1. /\ credits' = [credits EXCEPT ![c][t] = @ - n]
        /\ minted' = minted + n /\ UNCHANGED granted
    BY <1>5 DEF Opening, OpenLootboxes
  <2>2. credits[c][t] \in Nat
    BY <1>0, GameWorldAssumption DEF WorldTypeOK
  <2>3. credits' = [credits EXCEPT ![c][t] = @ + (0 - n)]
    <3>1. credits[c][t] + (0 - n) = credits[c][t] - n
      BY <2>2
    <3> QED BY <2>1, <3>1
  <2>4. AllCredits(credits) \in Nat /\ AllCredits(credits') = AllCredits(credits) + (0 - n)
    <3>1. 0 - n \in Int
      OBVIOUS
    <3> QED BY <1>0, <2>3, <3>1, CreditsChange
  <2> QED BY <1>0, <2>1, <2>4 DEF AllCredits
<1>6. ASSUME NEW p \in Players, NEW c \in CharacterIds, NEW roll \in {0, 1},
             WinLastRoom(p, c, roll), LeveledUp(c, roll)
      PROVE  OneItemPerCredit'
  <2> DEFINE t == LootTierFor(runs[c].level, runs[c].difficulty)
             n == LootCount[runs[c].difficulty]
  <2>1. runs[c] \in Run
    BY <1>0 DEF WorldTypeOK
  <2>2. t \in Tiers /\ n \in Nat
    BY <2>1, LootTierTyped DEF Run, LootCount, Difficulty
  <2>3. /\ credits' = [credits EXCEPT ![c][t] = @ + n]
        /\ granted' = granted + n /\ UNCHANGED minted
    BY <1>6 DEF LeveledUp
  <2> HIDE DEF t, n
  <2> QED BY <1>2, <2>2, <2>3
<1> QED BY <1>1, <1>3, <1>4, <1>5, <1>6 DEF LootStep

LEMMA OneItemPerCreditInit == Init => OneItemPerCredit
<1> SUFFICES ASSUME Init PROVE OneItemPerCredit
  OBVIOUS
<1> DEFINE total == [c \in CharacterIds |-> SumFunction(credits[c])]
<1>1. IsFiniteSet(CharacterIds) /\ IsFiniteSet(Tiers)
  BY CountersFinite
<1>2. \A c \in CharacterIds : total[c] = 0
  <2> SUFFICES ASSUME NEW c \in CharacterIds PROVE SumFunction(credits[c]) = 0
    OBVIOUS
  <2>1. credits[c] = [t \in Tiers |-> 0]
    BY DEF Init
  <2>2. \A t \in Tiers : credits[c][t] = 0
    BY <2>1
  <2>3. SumFunctionOnSet(credits[c], Tiers) = Cardinality(Tiers) * 0
    BY <1>1, <2>2, SumConstant
  <2>4. SumFunction(credits[c]) = SumFunctionOnSet(credits[c], Tiers)
    BY <2>1 DEF SumFunction
  <2>5. Cardinality(Tiers) \in Nat
    BY <1>1, FS_CardinalityType
  <2> QED BY <2>3, <2>4, <2>5
<1>3. DOMAIN total = CharacterIds
  OBVIOUS
<1> HIDE DEF total
<1>4. SumFunctionOnSet(total, CharacterIds) = Cardinality(CharacterIds) * 0
  BY <1>1, <1>2, SumConstant
<1>5. SumFunction(total) = 0
  BY <1>1, <1>3, <1>4, FS_CardinalityType DEF SumFunction
<1> QED BY <1>5 DEF total, OneItemPerCredit, Init

-----------------------------------------------------------------------------
(* MMO                                                                     *)

\* The escrow of every character, and all of it together.
Escrows  == [c \in CharacterIds |-> runs[c].escrow]
Escrowed == SumFunctionOnSet(Escrows, CharacterIds)

\* The inductive invariant of the token: a character without a run holds no
\* escrow, so that the contract's balance may be compared with all escrows and
\* a run that starts or ends moves exactly its own.
MmoInv ==
  /\ \A c \in CharacterIds : ~runs[c].active => runs[c].escrow = 0
  /\ mmo[World] = Escrowed
  /\ MmoConserved

LEMMA AccountsFinite ==
  /\ IsFiniteSet(Accounts) /\ IsFiniteSet(CharacterIds)
  /\ World \in Accounts /\ Sink \in Accounts /\ World # Sink
  /\ \A p \in Players : p \in Accounts /\ p # World /\ p # Sink
<1>1. IsFiniteSet(Players \cup {World})
  BY CharactersAssumption, FS_AddElement
<1>2. IsFiniteSet((Players \cup {World}) \cup {Sink})
  BY <1>1, FS_AddElement
<1>3. Accounts = (Players \cup {World}) \cup {Sink}
  BY DEF Accounts
<1>4. IsFiniteSet(CharacterIds)
  BY RegistryFinite
<1>5. World # Sink
  BY DEF World, Sink
<1> QED BY <1>2, <1>3, <1>4, <1>5, GameWorldAssumption DEF Accounts

LEMMA EscrowsTyped ==
  ASSUME WorldTypeOK
  PROVE  Escrows \in [CharacterIds -> Nat] /\ Escrowed \in Nat
<1>1. Escrows \in [CharacterIds -> Nat]
  BY DEF Escrows, WorldTypeOK, Run
<1> QED BY <1>1, AccountsFinite, SumNat DEF Escrowed

\* With idle characters out of the sum, it is the one of the property.
LEMMA MmoInvAccounts ==
  ASSUME WorldTypeOK, MmoInv
  PROVE  MmoAccounted
<1> DEFINE Active == {c \in CharacterIds : runs[c].active}
<1>1. Active \in SUBSET CharacterIds /\ \A c \in CharacterIds \ Active : Escrows[c] = 0
  BY DEF MmoInv, Escrows
<1>2. \A c \in CharacterIds : Escrows[c] \in Nat
  BY EscrowsTyped
<1> HIDE DEF Active
<1>3. SumFunctionOnSet(Escrows, Active) = SumFunctionOnSet(Escrows, CharacterIds)
  BY <1>1, <1>2, AccountsFinite, SumSubset
<1> QED BY <1>3 DEF Active, MmoAccounted, EscrowSolvent, MmoInv, Escrows, Escrowed

\* MMO moves, and escrows change, only in these transactions.
MmoStep ==
  \/ \E p \in Players, c \in CharacterIds, d \in Difficulty, n \in PremiumAmounts :
       CreditPremiumLootboxes(p, c, d, n)
  \/ \E p \in Players, id \in CommitIds, i \in RunIntents, rooms \in RoomCounts :
       RevealStartDungeon(p, id, i, rooms)
  \/ \E p \in Players, c \in CharacterIds :
       LoseRoom(p, c) \/ \E roll \in {0, 1} : WinLastRoom(p, c, roll)
  \/ \E p \in Players, c \in CharacterIds, cost \in ForgeCosts : ForgeSetPiece(p, c, cost)

LEMMA OnlyMmoSteps ==
  ASSUME WorldTypeOK, [Next]_vars, ~MmoStep
  PROVE  /\ UNCHANGED mmo
         /\ \A c \in CharacterIds : /\ runs'[c].active = runs[c].active
                                    /\ runs'[c].escrow = runs[c].escrow
<1> DEFINE Q == UNCHANGED << mmo, runs >>
<1> USE DEF runVars
<1>1. CASE UNCHANGED vars
  BY <1>1 DEF vars, worldVars
<1>2. ASSUME NEW p \in Players, Registering(p) PROVE Q
  BY <1>2 DEF Registering, Create, worldVars
<1>3. ASSUME NEW p \in Players, Looting(p) PROVE Q
  BY <1>3 DEF Looting, ClaimFreeLootbox, MmoStep
<1>4. ASSUME NEW p \in Players, Committing(p) PROVE Q
  BY <1>4 DEF Committing, CommitAction, CancelExpired
<1>5. ASSUME NEW p \in Players, Revealing(p) PROVE Q
  BY <1>5 DEF Revealing, RevealOpenLootboxes, RevealOpenLootboxesMax, MmoStep
<1>6. ASSUME NEW p \in Players, NEW c \in CharacterIds, Resolving(p, c)
      PROVE  /\ UNCHANGED mmo
             /\ \A d \in CharacterIds : /\ runs'[d].active = runs[d].active
                                        /\ runs'[d].escrow = runs[d].escrow
  <2>1. WinRoom(p, c)
    BY <1>6 DEF Resolving, MmoStep
  <2>2. runs \in [CharacterIds -> Run] /\ runs[c] \in Run
    BY DEF WorldTypeOK
  <2>3. UNCHANGED mmo /\ runs' = [runs EXCEPT ![c] = [runs[c] EXCEPT !.roomsCleared = @ + 1]]
    BY <2>1 DEF WinRoom
  <2>4. \A d \in CharacterIds : d # c => runs'[d] = runs[d]
    BY <2>2, <2>3
  <2>5. runs'[c].active = runs[c].active /\ runs'[c].escrow = runs[c].escrow
    BY <2>2, <2>3 DEF Run
  <2> QED BY <2>3, <2>4, <2>5
<1>7. ASSUME NEW p \in Players, NEW c \in CharacterIds, Gearing(p, c) PROVE Q
  BY <1>7 DEF Gearing, EquipItem, RerollItemStats, MmoStep
<1>8. ASSUME NEW c \in CharacterIds, TransferEquipped(c) PROVE Q
  BY <1>8 DEF TransferEquipped
<1>9. CASE NewBlock
  BY <1>9 DEF NewBlock
<1> QED BY <1>1, <1>2, <1>3, <1>4, <1>5, <1>6, <1>7, <1>8, <1>9 DEF Next

\* Burning MMO (entry fees, forging, premium lootboxes) touches no escrow.
LEMMA BurnKeepsMmo ==
  ASSUME WorldTypeOK, MmoInv, NEW p \in Players, NEW k \in Nat, k <= mmo[p],
         mmo' = [mmo EXCEPT ![p] = @ - k, ![Sink] = @ + k], UNCHANGED runs
  PROVE  MmoInv'
<1>1. mmo \in [Accounts -> Nat] /\ p \in Accounts /\ Sink \in Accounts /\ p # Sink
  BY AccountsFinite DEF WorldTypeOK
<1>2. SumFunctionOnSet(mmo', Accounts) = SumFunctionOnSet(mmo, Accounts)
  <2>1. /\ mmo' \in [Accounts -> Nat] /\ mmo'[p] = mmo[p] - k /\ mmo'[Sink] = mmo[Sink] + k
        /\ \A x \in Accounts \ {p, Sink} : mmo'[x] = mmo[x]
    BY <1>1
  <2>2. IsFiniteSet(Accounts)
    BY AccountsFinite
  <2> QED BY <1>1, <2>1, <2>2, SumTransfer
<1>3. mmo'[World] = mmo[World]
  BY <1>1, AccountsFinite
<1> QED BY <1>2, <1>3 DEF MmoInv, MmoConserved, Escrowed, Escrows

\* A run that starts moves its repair fee from its owner to the contract.
LEMMA StartKeepsMmo ==
  ASSUME GameInv, MmoInv, NEW p \in Players, NEW id \in CommitIds, NEW i \in RunIntents,
         NEW rooms \in RoomCounts, RevealStartDungeon(p, id, i, rooms)
  PROVE  MmoInv'
<1> DEFINE c == commits[id].character
           e == EntryFee[i.level]
           r == RepairFee[i.level]
           burnt == [mmo EXCEPT ![p] = @ - (e + r), ![Sink] = @ + (e + r)]
<1>0. WorldTypeOK /\ CommitsOwned /\ CharactersTypeOK /\ mmo \in [Accounts -> Nat]
      /\ runs \in [CharacterIds -> Run]
  BY DEF GameInv, CharactersInv, WorldTypeOK
<1>1. c \in CharacterIds
  BY <1>0, RevealedCommit DEF RevealStartDungeon
<1>2. e \in Nat /\ r \in Nat
  <2>1. 1 <= i.level /\ i.level <= NextLevelCap(bestLevel[c]) /\ i.level \in Nat
    BY RunIntentFields DEF RevealStartDungeon, StartableLevel
  <2>2. bestLevel[c] \in 0..LevelCap /\ LevelCap \in Nat
    BY <1>0, <1>1, CharactersAssumption DEF CharactersTypeOK
  <2>3. i.level \in Levels
    BY <2>1, <2>2 DEF NextLevelCap, Levels
  <2> QED BY <2>3, GameWorldAssumption
<1>3. /\ ~runs[c].active /\ mmo[p] >= e + r
      /\ mmo' = [mmo EXCEPT ![p] = @ - (e + r), ![Sink] = @ + e, ![World] = @ + r]
      /\ runs' = [runs EXCEPT ![c] = [active |-> TRUE, owner |-> owner[c],
           difficulty |-> i.difficulty, mode |-> i.mode, level |-> i.level,
           roomCount |-> rooms, roomsCleared |-> 0, escrow |-> r]]
  BY DEF RevealStartDungeon
<1> HIDE DEF c, e, r
<1>4. burnt \in [Accounts -> Nat]
      /\ SumFunctionOnSet(burnt, Accounts) = SumFunctionOnSet(mmo, Accounts)
  <2>1. e + r \in Nat /\ e + r <= mmo[p] /\ p \in Accounts /\ p # Sink
    BY <1>0, <1>2, <1>3, AccountsFinite
  <2>2. mmo \in [Accounts -> Nat] /\ Sink \in Accounts /\ IsFiniteSet(Accounts)
    BY <1>0, AccountsFinite
  <2>3. /\ burnt \in [Accounts -> Nat]
        /\ burnt[p] = mmo[p] - (e + r) /\ burnt[Sink] = mmo[Sink] + (e + r)
        /\ \A x \in Accounts \ {p, Sink} : burnt[x] = mmo[x]
    BY <2>1, <2>2
  <2> HIDE DEF burnt
  <2> QED BY <2>1, <2>2, <2>3, SumTransfer
<1>5. /\ mmo' \in [Accounts -> Nat]
      /\ mmo'[Sink] = burnt[Sink] - r /\ mmo'[World] = burnt[World] + r
      /\ \A x \in Accounts \ {Sink, World} : mmo'[x] = burnt[x]
  <2>1. mmo[p] \in Nat /\ mmo[Sink] \in Nat /\ mmo[World] \in Nat
    BY <1>0, AccountsFinite
  <2>2. p # Sink /\ p # World /\ Sink # World
        /\ p \in Accounts /\ Sink \in Accounts /\ World \in Accounts
    BY AccountsFinite
  <2>3. burnt[p] = mmo[p] - (e + r) /\ burnt[Sink] = mmo[Sink] + (e + r)
        /\ burnt[World] = mmo[World]
    BY <1>0, <2>2
  <2>4. mmo'[p] = mmo[p] - (e + r) /\ mmo'[Sink] = mmo[Sink] + e
        /\ mmo'[World] = mmo[World] + r
    BY <1>0, <1>3, <2>2
  <2>5. \A x \in Accounts \ {p, Sink, World} : mmo'[x] = mmo[x] /\ burnt[x] = mmo[x]
    BY <1>0, <1>3
  <2>6. mmo' \in [Accounts -> Nat]
    BY <1>0, <1>2, <1>3, <2>1, <2>2
  <2> HIDE DEF burnt
  <2> QED BY <1>2, <2>1, <2>2, <2>3, <2>4, <2>5, <2>6
<1>6. SumFunctionOnSet(mmo', Accounts) = SumFunctionOnSet(mmo, Accounts)
  <2>1. Sink \in Accounts /\ World \in Accounts /\ Sink # World /\ IsFiniteSet(Accounts)
    BY AccountsFinite
  <2> HIDE DEF burnt
  <2>2. SumFunctionOnSet(mmo', Accounts) = SumFunctionOnSet(burnt, Accounts)
    BY <1>2, <1>4, <1>5, <2>1, SumTransfer
  <2> QED BY <1>4, <2>2
<1>7. mmo'[World] = mmo[World] + r
  BY <1>0, <1>3, AccountsFinite
<1>8. /\ \A d \in CharacterIds : Escrows'[d] = IF d = c THEN r ELSE Escrows[d]
      /\ Escrows[c] = 0
      /\ \A d \in CharacterIds : runs'[d].active \/ runs'[d] = runs[d]
  <2>1. runs'[c].escrow = r /\ runs'[c].active
    BY <1>0, <1>1, <1>3
  <2>2. \A d \in CharacterIds : d # c => runs'[d] = runs[d]
    BY <1>0, <1>1, <1>3
  <2> QED BY <1>1, <1>3, <2>1, <2>2 DEF Escrows, MmoInv
<1>9. Escrowed' = Escrowed + r
  <2>1. Escrows \in [CharacterIds -> Nat] /\ Escrowed \in Nat
    BY <1>0, EscrowsTyped
  <2>2. \A d \in CharacterIds : Escrows[d] \in Nat /\ Escrows'[d] \in Nat
    BY <1>2, <1>8, <2>1
  <2>3. Escrowed' = Escrowed - Escrows[c] + Escrows'[c]
    <3>1. SumFunctionOnSet(Escrows', CharacterIds)
            = SumFunctionOnSet(Escrows, CharacterIds) - Escrows[c] + Escrows'[c]
      <4>1. \A d \in CharacterIds \ {c} : Escrows'[d] = Escrows[d]
        BY <1>8
      <4> QED BY <1>1, <2>2, <4>1, AccountsFinite, SumChange
    <3> QED BY <3>1 DEF Escrowed
  <2> QED BY <1>1, <1>2, <1>8, <2>1, <2>3
<1>10. \A d \in CharacterIds : ~runs'[d].active => runs'[d].escrow = 0
  BY <1>8 DEF MmoInv
<1> QED BY <1>6, <1>7, <1>9, <1>10 DEF MmoInv, MmoConserved

\* A run that ends pays its escrow out of the contract, whoever receives it.
LEMMA EndKeepsMmo ==
  ASSUME WorldTypeOK, MmoInv, NEW c \in CharacterIds, NEW to \in Accounts, to # World,
         CanPayEscrow(c), mmo' = PayEscrow(c, to), runs' = EndRun(c)
  PROVE  MmoInv'
<1> DEFINE e == runs[c].escrow
<1>0. mmo \in [Accounts -> Nat] /\ runs \in [CharacterIds -> Run] /\ e \in Nat
  BY DEF WorldTypeOK, Run
<1>1. mmo' = [mmo EXCEPT ![World] = @ - e, ![to] = @ + e] /\ e <= mmo[World]
  BY <1>0, AccountsFinite DEF PayEscrow, CanPayEscrow
<1> HIDE DEF e
<1>2. SumFunctionOnSet(mmo', Accounts) = SumFunctionOnSet(mmo, Accounts)
  <2>1. World \in Accounts /\ World # to /\ IsFiniteSet(Accounts)
    BY AccountsFinite
  <2>2. mmo[World] - e \in Nat
    BY <1>0, <1>1, <2>1
  <2>3. /\ mmo' \in [Accounts -> Nat] /\ mmo'[World] = mmo[World] - e /\ mmo'[to] = mmo[to] + e
        /\ \A x \in Accounts \ {World, to} : mmo'[x] = mmo[x]
    BY <1>0, <1>1, <2>1, <2>2
  <2> QED BY <1>0, <2>1, <2>3, SumTransfer
<1>3. mmo'[World] = mmo[World] - e
  BY <1>0, <1>1, AccountsFinite
<1>4. \A d \in CharacterIds : Escrows'[d] = IF d = c THEN 0 ELSE Escrows[d]
  BY <1>0 DEF Escrows, EndRun, NoRun
<1>5. Escrowed' = Escrowed - e
  <2>1. Escrows \in [CharacterIds -> Nat] /\ Escrowed \in Nat /\ Escrows[c] = e
    BY EscrowsTyped DEF Escrows, e
  <2>2. \A d \in CharacterIds : Escrows[d] \in Nat /\ Escrows'[d] \in Nat
    BY <1>4, <2>1
  <2>3. SumFunctionOnSet(Escrows', CharacterIds)
          = SumFunctionOnSet(Escrows, CharacterIds) - Escrows[c] + Escrows'[c]
    BY <1>4, <2>2, AccountsFinite, SumChange
  <2>4. Escrowed' = Escrowed - Escrows[c] + Escrows'[c]
    BY <2>3 DEF Escrowed
  <2> QED BY <1>0, <1>4, <2>1, <2>4
<1>6. \A d \in CharacterIds : ~runs'[d].active => runs'[d].escrow = 0
  BY <1>0 DEF MmoInv, EndRun, NoRun
<1> QED BY <1>2, <1>3, <1>5, <1>6 DEF MmoInv, MmoConserved

LEMMA MmoInvStep ==
  ASSUME GameInv, MmoInv, [Next]_vars
  PROVE  MmoInv'
<1>0. WorldTypeOK /\ CharactersTypeOK /\ RunInReach /\ mmo \in [Accounts -> Nat]
  BY DEF GameInv, CharactersInv, WorldTypeOK
<1>1. CASE ~MmoStep
  <2>1. /\ UNCHANGED mmo
        /\ \A c \in CharacterIds : /\ runs'[c].active = runs[c].active
                                   /\ runs'[c].escrow = runs[c].escrow
    BY <1>0, <1>1, OnlyMmoSteps
  <2>2. Escrows' = Escrows
    BY <2>1 DEF Escrows
  <2> QED BY <2>1, <2>2 DEF MmoInv, MmoConserved, Escrowed
<1>2. ASSUME NEW p \in Players, NEW c \in CharacterIds, NEW d \in Difficulty,
             NEW n \in PremiumAmounts, CreditPremiumLootboxes(p, c, d, n)
      PROVE  MmoInv'
  <2> DEFINE cost == PremiumMmoCost[bestLevel[c]] * n
  <2>1. bestLevel[c] \in Levels
    BY <1>2, CharactersAssumption
    DEF CreditPremiumLootboxes, GameInv, CharactersInv, LevelledFromBirth, CharactersTypeOK,
        Exists, Levels
  <2>2. PremiumMmoCost[bestLevel[c]] \in Nat /\ n \in Nat
    BY <2>1, GameWorldAssumption
  <2>3. cost \in Nat
    BY <2>2
  <2>4. /\ mmo' = [mmo EXCEPT ![p] = @ - cost, ![Sink] = @ + cost] /\ mmo[p] >= cost
        /\ UNCHANGED runs
    BY <1>2 DEF CreditPremiumLootboxes, runVars
  <2> HIDE DEF cost
  <2>5. cost <= mmo[p]
    BY <1>0, <2>3, <2>4, AccountsFinite
  <2> QED BY <1>0, <2>3, <2>4, <2>5, BurnKeepsMmo
<1>3. ASSUME NEW p \in Players, NEW id \in CommitIds, NEW i \in RunIntents,
             NEW rooms \in RoomCounts, RevealStartDungeon(p, id, i, rooms)
      PROVE  MmoInv'
  BY <1>3, StartKeepsMmo
<1>4. ASSUME NEW p \in Players, NEW c \in CharacterIds, LoseRoom(p, c)
      PROVE  MmoInv'
  BY <1>0, <1>4, EndKeepsMmo, AccountsFinite DEF LoseRoom
<1>5. ASSUME NEW p \in Players, NEW c \in CharacterIds, NEW roll \in {0, 1},
             WinLastRoom(p, c, roll)
      PROVE  MmoInv'
  <2>1. runs[c].owner = p /\ p \in Accounts /\ p # World
    BY <1>5, AccountsFinite DEF WinLastRoom, CanResolve
  <2> QED BY <1>0, <1>5, <2>1, EndKeepsMmo DEF WinLastRoom
<1>6. ASSUME NEW p \in Players, NEW c \in CharacterIds, NEW cost \in ForgeCosts,
             ForgeSetPiece(p, c, cost)
      PROVE  MmoInv'
  <2>1. cost[2] \in Nat
    BY GameWorldAssumption
  <2>2. cost[2] <= mmo[p]
    BY <1>0, <1>6, <2>1, AccountsFinite DEF ForgeSetPiece
  <2> QED BY <1>0, <1>6, <2>1, <2>2, BurnKeepsMmo DEF ForgeSetPiece
<1> QED BY <1>1, <1>2, <1>3, <1>4, <1>5, <1>6 DEF MmoStep

LEMMA MmoInitInv == Init => MmoInv
<1> SUFFICES ASSUME Init PROVE MmoInv
  OBVIOUS
<1>1. \A c \in CharacterIds : runs[c].escrow = 0
  BY DEF Init, NoRun
<1>2. mmo[World] = 0 /\ mmo[Sink] = 0
  BY AccountsFinite, GameWorldAssumption DEF Init
<1>3. Escrowed = 0
  <2>1. \A c \in CharacterIds : Escrows[c] = 0
    BY <1>1 DEF Escrows
  <2>2. IsFiniteSet(CharacterIds) /\ Cardinality(CharacterIds) \in Nat
    BY AccountsFinite, FS_CardinalityType
  <2>3. SumFunctionOnSet(Escrows, CharacterIds) = Cardinality(CharacterIds) * 0
    BY <2>1, <2>2, SumConstant
  <2> QED BY <2>2, <2>3 DEF Escrowed
<1>4. MmoConserved
  <2>1. \A p \in Players : mmo[p] = InitialMmo
    BY DEF Init, Accounts
  <2>2. \A a \in Accounts : mmo[a] \in Nat
    BY GameWorldAssumption DEF Init
  <2>3. \A a \in Accounts \ Players : mmo[a] = 0
    BY <1>2 DEF Accounts
  <2>4. Players \in SUBSET Accounts
    BY DEF Accounts
  <2>5. SumFunctionOnSet(mmo, Players) = SumFunctionOnSet(mmo, Accounts)
    BY <2>2, <2>3, <2>4, AccountsFinite, SumSubset
  <2>6. SumFunctionOnSet(mmo, Players) = Cardinality(Players) * InitialMmo
    BY <2>1, CharactersAssumption, GameWorldAssumption, SumConstant
  <2> QED BY <2>5, <2>6 DEF MmoConserved
<1> QED BY <1>1, <1>2, <1>3, <1>4 DEF MmoInv

-----------------------------------------------------------------------------
(* Theorems                                                                *)

LEMMA InitInv == Init => GameInv
  <1> SUFFICES ASSUME Init PROVE GameInv
    OBVIOUS
  <1> USE GameWorldAssumption, CharactersAssumption DEF Init
  <1>1. CharactersInv
    BY CharactersInitInv
  <1>2. WorldTypeOK
    <2>1. mmo \in [Accounts -> Nat]
      OBVIOUS
    <2>2. runs \in [CharacterIds -> Run]
      BY NoRunTyped
    <2> QED BY <2>1, <2>2 DEF WorldTypeOK
  <1>3. CommitsOwned
    BY DEF CommitsOwned
  <1>4. BlankUntilCreated /\ FrontierProgress
    BY DEF BlankUntilCreated, FrontierProgress
  <1>5. RunInReach
    BY DEF RunInReach, NoRun
  <1>6. BoundCreditsCovered
    BY DEF BoundCreditsCovered, BoundTotal, VarianceMode
  <1> QED BY <1>1, <1>2, <1>3, <1>4, <1>5, <1>6 DEF GameInv

LEMMA NextInv == GameInv /\ [Next]_vars => GameInv'
  <1> SUFFICES ASSUME GameInv, [Next]_vars PROVE GameInv'
    OBVIOUS
  <1>1. CharactersInv'
    BY StepRefines, CharactersNextInv DEF GameInv
  <1> QED
    BY <1>1, WorldTypeOKStep, CommitsOwnedStep, BlankStep, FrontierProgressStep,
       RunInReachStep, BoundCreditsCoveredStep
    DEF GameInv

\* The inductive invariant holds throughout.
THEOREM GameInvariant == Spec => []GameInv
  BY InitInv, NextInv, PTL DEF Spec

\* GameWorld.sol is, for whoever reads only the registry, the registry: whatever
\* happens in commits, runs and loot, characters are only created and levelled
\* up one level at a time.
THEOREM ImplementsCharacters == Spec => CharactersSpec
  <1>1. Init => CharactersInit
    BY DEF Init
  <1>2. GameInv /\ [Next]_vars => [CharactersNext]_characterVars
    BY StepRefines
  <1> QED BY <1>1, <1>2, GameInvariant, PTL DEF Spec, CharactersSpec

\* The registry agrees with the characters' records throughout the game; the fee
\* vault divides its pools by its histogram.
THEOREM GameRegistryExact == Spec => []RegistryExact
  BY ImplementsCharacters, RegistryAlwaysExact, PTL

\* No counter leaves its type: in particular no unsigned subtraction of the
\* contract underflows, no credit or stone counter exceeds its cap, and no
\* balance is overdrawn.
THEOREM GameTyped == Spec => []TypeOK
  <1>1. GameInv => TypeOK
    BY DEF GameInv, CharactersInv, WorldTypeOK, TypeOK
  <1> QED BY <1>1, GameInvariant, PTL

\* Partial progress exists only at the frontier (_onDungeonSuccess,
\* _endRunAsFailure).
THEOREM ProgressAtFrontier == Spec => []FrontierProgress
  BY GameInvariant, PTL DEF GameInv

\* A run in progress can always be resolved further by its character's owner.
THEOREM RunsInReach == Spec => []RunInReach
  BY GameInvariant, PTL DEF GameInv

\* The credits bound to modes are always part of the tier's total.
THEOREM BoundAlwaysCovered == Spec => []BoundCreditsCovered
  BY GameInvariant, PTL DEF GameInv

\* What the quote promises is what _consumeLootboxCredits accepts.
LEMMA QuoteFromCovered ==
  ASSUME WorldTypeOK, BoundCreditsCovered
  PROVE  QuoteExact
  <1> SUFFICES ASSUME NEW c \in CharacterIds, NEW t \in Tiers, NEW m \in VarianceMode,
                      NEW n \in 1..(CreditCap + 1)
               PROVE  CanConsume(c, t, m, n) <=> Openable(c, t, m, n) = n
    BY DEF QuoteExact
  <1>1. credits[c][t] \in Nat /\ bound[c][t] \in [VarianceMode -> Nat] /\ n \in Nat
    BY GameWorldAssumption DEF WorldTypeOK
  <1>2. /\ BoundTotal(c, t) \in Nat /\ BoundTotal(c, t) <= credits[c][t]
        /\ bound[c][t][m] <= BoundTotal(c, t) /\ bound[c][t][m] \in Nat
    BY <1>1 DEF BoundCreditsCovered, BoundTotal, VarianceMode
  <1>3. Generic(c, t) = credits[c][t] - BoundTotal(c, t)
    BY <1>1, <1>2 DEF Generic
  <1> QED BY <1>1, <1>2, <1>3 DEF CanConsume, Openable, Least

\* quoteOpenLootboxes is exact in every reachable state.
THEOREM QuoteAlwaysExact == Spec => []QuoteExact
  <1>1. GameInv => QuoteExact
    BY QuoteFromCovered DEF GameInv
  <1> QED BY <1>1, GameInvariant, PTL

\* Commit id was used up for what tier t of character c spent, on its terms.
SpentBy(id, c, t) ==
  /\ commits[id] # NoCommit /\ commits'[id] = NoCommit
  /\ commits[id].character = c
  /\ commits[id].hash.action = "LOOTBOX_OPEN"
  /\ commits[id].hash.first = t
  /\ commits[id].age \in RevealDelay..RevealWindow
  /\ credits'[c][t] = credits[c][t] - (minted' - minted)
  /\ minted' - minted <= commits[id].hash.second
  /\ ExactOnly(commits[id].hash) => minted' - minted = commits[id].hash.second
  /\ \A m \in VarianceMode : bound'[c][t][m] < bound[c][t][m] => commits[id].mode = m

\* Adding credits spends none.
LEMMA GrantSpendsNothing ==
  ASSUME WorldTypeOK, NEW d \in CharacterIds, NEW u \in Tiers, NEW n \in Nat,
         credits' = [credits EXCEPT ![d][u] = @ + n],
         \/ UNCHANGED bound
         \/ \E k \in VarianceMode : bound' = [bound EXCEPT ![d][u][k] = @ + n],
         NEW c \in CharacterIds, NEW t \in Tiers
  PROVE  ~Spent(c, t)
  <1>0. /\ credits \in [CharacterIds -> [Tiers -> Nat]]
        /\ bound \in [CharacterIds -> [Tiers -> [VarianceMode -> Nat]]]
    BY GameWorldAssumption DEF WorldTypeOK
  <1>1. credits'[c][t] = IF c = d /\ t = u THEN credits[c][t] + n ELSE credits[c][t]
    BY <1>0
  <1>2. credits[c][t] \in Nat /\ ~(credits'[c][t] < credits[c][t])
    BY <1>0, <1>1
  <1>3. ASSUME NEW m \in VarianceMode PROVE ~(bound'[c][t][m] < bound[c][t][m])
    <2>1. bound[c][t][m] \in Nat
      BY <1>0
    <2>2. ASSUME NEW k \in VarianceMode, bound' = [bound EXCEPT ![d][u][k] = @ + n]
          PROVE  bound'[c][t][m] = IF c = d /\ t = u /\ m = k THEN bound[c][t][m] + n
                                   ELSE bound[c][t][m]
      BY <1>0, <2>2
    <2> QED BY <2>1, <2>2
  <1> QED BY <1>2, <1>3 DEF Spent

\* Opening spends from one tier of one character, on the terms of the commit.
LEMMA OpeningSpends ==
  ASSUME WorldTypeOK, NEW id \in CommitIds, NEW d \in CharacterIds, NEW u \in Tiers,
         NEW k \in VarianceMode, NEW n \in Nat, Opening(id, d, u, k, n),
         NEW c \in CharacterIds, NEW t \in Tiers, Spent(c, t)
  PROVE  SpentBy(id, c, t)
  <1>0. /\ credits \in [CharacterIds -> [Tiers -> Nat]]
        /\ bound \in [CharacterIds -> [Tiers -> [VarianceMode -> Nat]]] /\ minted \in Nat
    BY GameWorldAssumption DEF WorldTypeOK
  <1>1. /\ credits' = [credits EXCEPT ![d][u] = @ - n]
        /\ bound' = [bound EXCEPT ![d][u][k] = @ - Least(@, n)]
        /\ minted' = minted + n
    BY DEF Opening, OpenLootboxes, ConsumedBound
  <1>2. c = d /\ t = u
    <2>1. CASE c # d \/ t # u
      <3>1. credits'[c][t] = credits[c][t] /\ bound'[c][t] = bound[c][t]
        BY <1>0, <1>1, <2>1
      <3>2. credits[c][t] \in Nat /\ \A m \in VarianceMode : bound[c][t][m] \in Nat
        BY <1>0
      <3>3. ~Spent(c, t)
        BY <3>1, <3>2 DEF Spent
      <3> QED BY <3>3
    <2> QED BY <2>1
  <1>3. credits'[c][t] = credits[c][t] - n /\ minted' - minted = n
    BY <1>0, <1>1, <1>2
  <1>4. ASSUME NEW m \in VarianceMode, bound'[c][t][m] < bound[c][t][m] PROVE m = k
    <2>1. CASE m # k
      <3>1. bound'[c][t][m] = bound[c][t][m] /\ bound[c][t][m] \in Nat
        BY <1>0, <1>1, <2>1
      <3> QED BY <1>4, <3>1
    <2> QED BY <2>1
  <1>5. /\ commits[id] # NoCommit /\ commits'[id] = NoCommit
        /\ commits[id].character = c /\ commits[id].mode = k /\ OnTerms(commits[id], t, n)
    BY <1>2 DEF Opening
  <1> QED BY <1>3, <1>4, <1>5 DEF OnTerms, SpentBy

\* Credits are spent only through a commit used up in its window, on the tier and
\* amount of its words and, the bound ones, in the mode announced with it.
THEOREM LootAlwaysHonoursCommit == Spec => LootHonoursCommit
  <1> DEFINE A == \A c \in CharacterIds, t \in Tiers : Spent(c, t) =>
       \E id \in CommitIds :
         /\ commits[id] # NoCommit /\ commits'[id] = NoCommit
         /\ commits[id].character = c
         /\ commits[id].hash.action = "LOOTBOX_OPEN"
         /\ commits[id].hash.first = t
         /\ commits[id].age \in RevealDelay..RevealWindow
         /\ credits'[c][t] = credits[c][t] - (minted' - minted)
         /\ minted' - minted <= commits[id].hash.second
         /\ ExactOnly(commits[id].hash) => minted' - minted = commits[id].hash.second
         /\ \A m \in VarianceMode : bound'[c][t][m] < bound[c][t][m] => commits[id].mode = m
  <1>1. ASSUME GameInv, [Next]_vars PROVE A
    <2> SUFFICES ASSUME NEW c \in CharacterIds, NEW t \in Tiers, Spent(c, t)
                 PROVE  \E id \in CommitIds : SpentBy(id, c, t)
      BY DEF SpentBy
    <2>0. WorldTypeOK /\ CommitsOwned
      BY <1>1 DEF GameInv
    <2>1. CASE ~LootStep
      <3>1. UNCHANGED << credits, bound >>
        BY <1>1, <2>0, <2>1, OnlyLootSteps
      <3>2. /\ credits[c][t] \in Nat /\ \A m \in VarianceMode : bound[c][t][m] \in Nat
        BY <2>0, GameWorldAssumption DEF WorldTypeOK
      <3>3. ~Spent(c, t)
        BY <3>1, <3>2 DEF Spent
      <3> QED BY <3>3
    <2>3. ASSUME NEW p \in Players, NEW d \in CharacterIds, ClaimFreeLootbox(p, d) PROVE FALSE
      <3>1. FreeTier \in Tiers
        BY GameWorldAssumption, CharactersAssumption DEF FreeTier, Tiers, Levels
      <3>2. credits' = [credits EXCEPT ![d][FreeTier] = @ + 1] /\ UNCHANGED bound
        BY <2>3 DEF ClaimFreeLootbox
      <3> QED BY <2>0, <3>1, <3>2, GrantSpendsNothing
    <2>4. ASSUME NEW p \in Players, NEW d \in CharacterIds, NEW f \in Difficulty,
                 NEW n \in PremiumAmounts, CreditPremiumLootboxes(p, d, f, n)
          PROVE  FALSE
      <3> DEFINE u == LootTierFor(bestLevel[d], f)
      <3>1. u \in Tiers /\ n \in Nat
        BY <1>1, LootTierTyped, GameWorldAssumption DEF GameInv, CharactersInv, CharactersTypeOK
      <3>2. credits' = [credits EXCEPT ![d][u] = @ + n] /\ UNCHANGED bound
        BY <2>4 DEF CreditPremiumLootboxes
      <3> HIDE DEF u
      <3> QED BY <2>0, <3>1, <3>2, GrantSpendsNothing
    <2>5. ASSUME NEW p \in Players, NEW d \in CharacterIds, NEW roll \in {0, 1},
                 WinLastRoom(p, d, roll), LeveledUp(d, roll)
          PROVE  FALSE
      <3> DEFINE u == LootTierFor(runs[d].level, runs[d].difficulty)
                 n == LootCount[runs[d].difficulty]
      <3>1. runs[d] \in Run
        BY <2>0 DEF WorldTypeOK
      <3>2. u \in Tiers /\ n \in Nat /\ runs[d].mode \in VarianceMode
        BY <3>1, LootTierTyped DEF Run, LootCount, Difficulty
      <3>3. /\ credits' = [credits EXCEPT ![d][u] = @ + n]
            /\ bound' = [bound EXCEPT ![d][u][runs[d].mode] = @ + n]
        BY <2>5 DEF LeveledUp
      <3> HIDE DEF u, n
      <3> QED BY <2>0, <3>2, <3>3, GrantSpendsNothing
    <2>6. ASSUME NEW id \in CommitIds, NEW d \in CharacterIds, NEW u \in Tiers,
                 NEW k \in VarianceMode, NEW n \in Nat, Opening(id, d, u, k, n)
          PROVE  SpentBy(id, c, t)
      BY <2>0, <2>6, OpeningSpends
    <2> QED BY <2>1, <2>3, <2>4, <2>5, <2>6 DEF LootStep
  <1> QED BY <1>1, GameInvariant, PTL DEF Spec, LootHonoursCommit

\* A run starts only from a commit in its reveal window, on its terms.
THEOREM RunAlwaysHonoursCommit == Spec => RunHonoursCommit
  <1> DEFINE A == \A c \in CharacterIds : ~runs[c].active /\ runs'[c].active =>
       \E id \in CommitIds :
         /\ commits[id] # NoCommit /\ commits'[id] = NoCommit
         /\ commits[id].character = c
         /\ commits[id].mode = runs'[c].mode
         /\ commits[id].hash.action = "DUNGEON_RUN"
         /\ commits[id].hash.first = DifficultyWord[runs'[c].difficulty]
         /\ commits[id].hash.second = runs'[c].level
         /\ commits[id].age \in RevealDelay..RevealWindow
  <1>1. ASSUME GameInv, [Next]_vars PROVE A
    <2> SUFFICES ASSUME NEW c \in CharacterIds, ~runs[c].active, runs'[c].active
                 PROVE  \E id \in CommitIds :
                          /\ commits[id] # NoCommit /\ commits'[id] = NoCommit
                          /\ commits[id].character = c
                          /\ commits[id].mode = runs'[c].mode
                          /\ commits[id].hash.action = "DUNGEON_RUN"
                          /\ commits[id].hash.first = DifficultyWord[runs'[c].difficulty]
                          /\ commits[id].hash.second = runs'[c].level
                          /\ commits[id].age \in RevealDelay..RevealWindow
      OBVIOUS
    <2>0. /\ WorldTypeOK /\ CommitsOwned
          /\ runs \in [CharacterIds -> Run] /\ commits \in [CommitIds -> Commit \cup {NoCommit}]
      BY <1>1 DEF GameInv, WorldTypeOK
    <2>1. CASE ~RunStep
      BY <1>1, <2>1, OnlyRunSteps
    <2>2. ASSUME NEW p \in Players, Create(p) PROVE FALSE
      BY <2>2 DEF Create, worldVars, runVars
    <2>3. ASSUME NEW p \in Players, NEW d \in CharacterIds,
                 LoseRoom(p, d) \/ WinRoom(p, d) \/ \E roll \in {0, 1} : WinLastRoom(p, d, roll)
          PROVE  FALSE
      <3>1. CASE WinRoom(p, d)
        BY <2>0, <3>1 DEF WinRoom, CanResolve, Run
      <3>2. CASE runs' = EndRun(d)
        BY <2>0, <3>2 DEF EndRun, NoRun
      <3> QED BY <2>3, <3>1, <3>2 DEF LoseRoom, WinLastRoom
    <2>4. ASSUME NEW p \in Players, NEW id \in CommitIds, NEW i \in RunIntents,
                 NEW rooms \in RoomCounts, RevealStartDungeon(p, id, i, rooms)
          PROVE  /\ commits[id] # NoCommit /\ commits'[id] = NoCommit
                 /\ commits[id].character = c
                 /\ commits[id].mode = runs'[c].mode
                 /\ commits[id].hash.action = "DUNGEON_RUN"
                 /\ commits[id].hash.first = DifficultyWord[runs'[c].difficulty]
                 /\ commits[id].hash.second = runs'[c].level
                 /\ commits[id].age \in RevealDelay..RevealWindow
      <3>1. commits[id] \in Commit /\ commits[id].character \in CharacterIds
        BY <2>0, <2>4, RevealedCommit DEF RevealStartDungeon
      <3>2. /\ commits[id] # NoCommit /\ commits[id].hash = Hash(i) /\ commits[id].mode = i.mode
            /\ RevealDelay <= commits[id].age /\ commits[id].age <= RevealWindow
        BY <2>4 DEF RevealStartDungeon, ValidReveal, SameMode, InRevealWindow
      <3>3. commits'[id] = NoCommit
        BY <2>0, <2>4 DEF RevealStartDungeon
      <3>4. commits[id].character = c
        BY <2>0, <2>4, <3>1 DEF RevealStartDungeon
      <3>5. runs'[c].mode = i.mode /\ runs'[c].level = i.level /\ runs'[c].difficulty = i.difficulty
        BY <2>0, <2>4, <3>4 DEF RevealStartDungeon
      <3>6. commits[id].age \in RevealDelay..RevealWindow
        BY <3>1, <3>2, GameWorldAssumption DEF Commit, ExpiredAge
      <3>7. /\ Hash(i).action = "DUNGEON_RUN" /\ Hash(i).first = DifficultyWord[i.difficulty]
            /\ Hash(i).second = i.level
        BY RunIntentFields DEF Hash
      <3> QED BY <3>2, <3>3, <3>4, <3>5, <3>6, <3>7
    <2> QED BY <2>1, <2>2, <2>3, <2>4 DEF RunStep
  <1> QED BY <1>1, GameInvariant, PTL DEF Spec, RunHonoursCommit

\* Every run started and every credit spent uses up a commit that announced it.
THEOREM CommitsAlwaysHonoured == Spec => CommitsHonoured
  BY RunAlwaysHonoursCommit, LootAlwaysHonoursCommit DEF CommitsHonoured

\* A level is earned only by finishing a run at the level just above.
THEOREM LevelAlwaysEarned == Spec => LevelEarnedByRun
  <1> DEFINE A == \A c \in CharacterIds : Exists(c) /\ bestLevel'[c] # bestLevel[c] =>
       /\ bestLevel'[c] = bestLevel[c] + 1
       /\ runs[c].active /\ ~runs'[c].active /\ runs[c].level = bestLevel'[c]
       /\ mmo'[owner[c]] = mmo[owner[c]] + runs[c].escrow
  <1>1. ASSUME GameInv, [Next]_vars PROVE A
    <2> SUFFICES ASSUME NEW c \in CharacterIds, Exists(c), bestLevel'[c] # bestLevel[c]
                 PROVE  /\ bestLevel'[c] = bestLevel[c] + 1
                        /\ runs[c].active /\ ~runs'[c].active /\ runs[c].level = bestLevel'[c]
                        /\ mmo'[owner[c]] = mmo[owner[c]] + runs[c].escrow
      OBVIOUS
    <2>0. CharactersTypeOK /\ WorldTypeOK /\ RunInReach
      BY <1>1 DEF GameInv, CharactersInv
    <2>1. RunStep
      BY <1>1, OnlyRunSteps
    <2>2. ASSUME NEW p \in Players, Create(p) PROVE FALSE
      BY <1>1, <2>2, CreateWrites
    <2>3. ASSUME NEW p \in Players, NEW id \in CommitIds, NEW i \in RunIntents,
                 NEW rooms \in RoomCounts, RevealStartDungeon(p, id, i, rooms)
          PROVE  FALSE
      BY <2>3 DEF RevealStartDungeon, characterVars, levelVars
    <2>4. ASSUME NEW p \in Players, NEW d \in CharacterIds, LoseRoom(p, d) \/ WinRoom(p, d)
          PROVE  FALSE
      BY <2>4 DEF LoseRoom, WinRoom, characterVars, levelVars
    <2>5. ASSUME NEW p \in Players, NEW d \in CharacterIds, NEW roll \in {0, 1},
                 WinLastRoom(p, d, roll)
          PROVE  /\ d = c /\ bestLevel'[c] = bestLevel[c] + 1
                 /\ runs[c].active /\ ~runs'[c].active /\ runs[c].level = bestLevel'[c]
                 /\ mmo'[owner[c]] = mmo[owner[c]] + runs[c].escrow
      <3>1. LeveledUp(d, roll)
        BY <2>5 DEF WinLastRoom, Replayed, Progressed, characterVars, levelVars
      <3>2. d = c
        BY <2>0, <3>1 DEF LeveledUp, SetBestLevel, CharactersTypeOK
      <3>3. /\ owner[c] = p /\ runs[c] \in Run /\ runs[c].level \in Levels
            /\ runs[c].level <= bestLevel[c] + 1 /\ bestLevel[c] \in Nat
        BY <2>0, <2>5, <3>2, ResolvedRun DEF WinLastRoom
      <3>4. bestLevel'[c] = runs[c].level /\ runs[c].level > bestLevel[c]
        BY <2>0, <3>1, <3>2 DEF LeveledUp, SetBestLevel, CharactersTypeOK
      <3>5. runs[c].level = bestLevel[c] + 1
        BY <3>3, <3>4 DEF Levels
      <3>6. runs[c].active /\ runs[c].owner = p /\ ~runs'[c].active
        BY <2>0, <2>5, <3>2 DEF WinLastRoom, CanResolve, EndRun, NoRun, WorldTypeOK
      <3>7. mmo'[p] = mmo[p] + runs[c].escrow
        <4>1. p \in Accounts /\ p # World /\ World \in Accounts
          BY GameWorldAssumption DEF Accounts
        <4>2. mmo' = [mmo EXCEPT ![World] = @ - runs[c].escrow, ![p] = @ + runs[c].escrow]
          BY <2>5, <3>2, <3>6 DEF WinLastRoom, PayEscrow
        <4> QED BY <2>0, <4>1, <4>2 DEF WorldTypeOK
      <3> QED BY <3>2, <3>3, <3>4, <3>5, <3>6, <3>7
    <2> QED BY <2>1, <2>2, <2>3, <2>4, <2>5 DEF RunStep
  <1> QED BY <1>1, GameInvariant, PTL DEF Spec, LevelEarnedByRun

\* The contract's MMO is at every moment the escrow of the runs in progress, and
\* all MMO together what the players started with (_refundRepairEscrow,
\* _sinkRepairEscrow, the fees).
THEOREM MmoAlwaysAccounted == Spec => []MmoAccounted
  <1>1. GameInv /\ MmoInv /\ [Next]_vars => MmoInv'
    BY MmoInvStep
  <1>2. GameInv /\ MmoInv => MmoAccounted
    BY MmoInvAccounts DEF GameInv
  <1> QED BY <1>1, <1>2, MmoInitInv, GameInvariant, PTL DEF Spec

\* Every lootbox credit ever granted is still there or was opened into exactly
\* one item (claimFreeLootbox, creditPremiumLootboxesFromVault,
\* _consumeLootboxCredits, _onDungeonSuccess).
THEOREM AlwaysOneItemPerCredit == Spec => []OneItemPerCredit
  <1>1. GameInv /\ OneItemPerCredit /\ [Next]_vars => OneItemPerCredit'
    BY OneItemPerCreditStep
  <1> QED BY <1>1, OneItemPerCreditInit, GameInvariant, PTL DEF Spec

=============================================================================
