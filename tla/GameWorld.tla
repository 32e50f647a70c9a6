------------------------------ MODULE GameWorld ------------------------------
(***************************************************************************)
(* The game contract: commits and their reveal window, lootbox credits,    *)
(* dungeon runs, level progress and the MMO a run escrows, over the        *)
(* character registry of Characters.                                       *)
(*                                                                         *)
(* A transaction is one action; the transactions of all players and the    *)
(* production of blocks interleave freely. A transaction whose checks fail *)
(* reverts and is no step. What is abstracted: item attributes, the combat *)
(* arithmetic (a room is won or lost, either may happen) and the digest: a *)
(* commit holds the words hashed, so two reveals match one commit exactly  *)
(* when the contract encodes the same words for both.                      *)
(***************************************************************************)
EXTENDS Characters, Functions, Sequences

CONSTANTS
  CommitIds,       \* bound: commits outstanding at once
  NoCommit,        \* a deleted or never used commit
  LootIntents,     \* lootbox preimages players hash, a subset of LootIntent
  RunIntents,      \* dungeon preimages players hash, a subset of RunIntent
  CommitModes,     \* variance modes passed to commitActionWithVariance
  PremiumAmounts,  \* amounts the fee vault credits
  RoomCounts,      \* ROOM_MIN..ROOM_MAX
  RevealDelay,     \* 2: blocks from a commit to its first reveal block
  RevealWindow,    \* 256: blocks from a commit to its last reveal block
  CreditCap,       \* the largest value of the uint32 credit counters
  StoneCap,        \* the largest value of the uint32 stone counter
  SlotCount,       \* 8 equipment slots
  RequiredClears,  \* requiredClearsForDungeonLevel, by level
  RequiredSlots,   \* minEquippedSlotsForDungeonLevel, by level
  FailureDecay,    \* progress lost by a failed run, by level (0 below 21)
  RepairFee,       \* repairFee, by level
  EntryFee,        \* runEntryFee, by level
  PremiumMmoCost,  \* _quoteMmoCost for one lootbox, by best level
  StoneLevel,      \* 30: from here HARD and up always yield a stone
  ForgeCosts,      \* pairs <<stones, mmo>> of forgeSetPiece, by item tier
  InitialMmo,      \* MMO each player starts with
  MaxGranted       \* bound: no premium credits past this total

Difficulty   == {"EASY", "NORMAL", "HARD", "EXTREME", "CHALLENGER"}
VarianceMode == {"STABLE", "NEUTRAL", "SWINGY"}
ActionType   == {"LOOTBOX_OPEN", "DUNGEON_RUN"}
Tiers        == Levels
FreeTier     == 2

\* The arguments of the reveal functions, "form" naming the function. The
\* overloads without a variance parameter ("legacy") reveal as NEUTRAL.
LootIntent == {i \in [form : {"exact", "max"}, legacy : BOOLEAN, mode : VarianceMode,
                      tier : Tiers, amount : Nat \ {0}] : i.legacy => i.mode = "NEUTRAL"}
RunIntent  == {i \in [form : {"start"}, legacy : BOOLEAN, mode : VarianceMode,
                      difficulty : Difficulty, level : Nat] : i.legacy => i.mode = "NEUTRAL"}
Intents    == LootIntents \cup RunIntents

\* The words abi.encode lays out for a reveal, after secret, actor, character and
\* nonce: the action, two arguments, the mode unless the overload is a legacy one,
\* and TRUE for the max form. Enumerations and booleans are encoded as numbers, so
\* the legacy max form has the words of the exact NEUTRAL one.
ModeWord       == [STABLE |-> 0, NEUTRAL |-> 1, SWINGY |-> 2]
DifficultyWord == [EASY |-> 0, NORMAL |-> 1, HARD |-> 2, EXTREME |-> 3, CHALLENGER |-> 4]
TrueWord       == 1

HashTail(i) == (IF i.legacy THEN << >> ELSE << ModeWord[i.mode] >>)
             \o (IF i.form = "max" THEN << TrueWord >> ELSE << >>)
Hash(i) ==
  IF i.form = "start"
  THEN [action |-> "DUNGEON_RUN",  first |-> DifficultyWord[i.difficulty],
        second |-> i.level,  tail |-> HashTail(i)]
  ELSE [action |-> "LOOTBOX_OPEN", first |-> i.tier,
        second |-> i.amount, tail |-> HashTail(i)]

World    == "GameWorld"
Sink     == "0xdEaD"
Accounts == Players \cup {World, Sink}

ASSUME GameWorldAssumption ==
  /\ World \notin Players /\ Sink \notin Players
  /\ LevelCap >= FreeTier
  /\ LootIntents \subseteq LootIntent
  /\ RunIntents \subseteq RunIntent
  /\ CommitModes \subseteq VarianceMode
  /\ PremiumAmounts \subseteq Nat \ {0}
  /\ RoomCounts \subseteq Nat \ {0}
  /\ RevealDelay \in Nat \ {0} /\ RevealWindow \in Nat /\ RevealDelay <= RevealWindow
  /\ CreditCap \in Nat \ {0} /\ StoneCap \in Nat /\ SlotCount \in Nat /\ StoneLevel \in Nat
  /\ RequiredClears \in [Levels -> Nat \ {0}]
  /\ RequiredSlots \in [Levels -> Nat]
  /\ FailureDecay \in [Levels -> Nat]
  /\ RepairFee \in [Levels -> Nat]
  /\ EntryFee \in [Levels -> Nat]
  /\ PremiumMmoCost \in [Levels -> Nat]
  /\ ForgeCosts \subseteq Nat \X Nat
  /\ InitialMmo \in Nat /\ MaxGranted \in Nat

VARIABLES
  commits,         \* outstanding commits; age is block.number - commitBlock
  runs,            \* _runs; a finished run is NoRun, nothing reads its fields
  progress,        \* _levelClearProgress
  credits,         \* _lootboxCredits: all credits of a tier
  bound,           \* _boundLootboxCredits: those tied to a variance mode
  freeClaimed,     \* Character.freeLootboxClaimed
  stones,          \* _upgradeStones
  equipped,        \* number of slots holding an item the owner still owns
  mmo,             \* MMOToken balances
  minted,          \* history: items minted from lootboxes
  granted          \* history: lootbox credits ever granted

lootVars   == << credits, bound, freeClaimed, minted, granted >>
runVars    == << runs, progress, stones >>
worldVars  == << commits, runVars, lootVars, equipped, mmo >>
vars       == << characterVars, worldVars >>

ExpiredAge == RevealWindow + 1
Commit   == [actor : Players, character : CharacterIds, action : ActionType,
             hash : {Hash(i) : i \in Intents}, mode : VarianceMode, age : 0..ExpiredAge]

Run   == [active : BOOLEAN, owner : Players \cup {NoOwner}, difficulty : Difficulty,
          mode : VarianceMode, level : 0..LevelCap, roomCount : Nat,
          roomsCleared : Nat, escrow : Nat]
NoRun == [active |-> FALSE, owner |-> NoOwner, difficulty |-> "EASY", mode |-> "STABLE",
          level |-> 0, roomCount |-> 0, roomsCleared |-> 0, escrow |-> 0]

-----------------------------------------------------------------------------
(* GameConstants and the small helpers of GameWorld.sol                    *)

ProgressionUnits ==
  [EASY |-> 1, NORMAL |-> 1, HARD |-> 2, EXTREME |-> 4, CHALLENGER |-> 6]
LootCount ==
  [EASY |-> 1, NORMAL |-> 1, HARD |-> 4, EXTREME |-> 7, CHALLENGER |-> 10]
LootTierBonus ==
  [EASY |-> 0, NORMAL |-> 0, HARD |-> 3, EXTREME |-> 6, CHALLENGER |-> 9]

Least(a, b) == IF a <= b THEN a ELSE b

\* _nextLevelCap and _lootTierForLevel saturate at the largest level.
NextLevelCap(level)     == IF level = LevelCap THEN LevelCap ELSE level + 1
LootTierFor(level, d)   == Least(LevelCap, NextLevelCap(level) + LootTierBonus[d])

\* _reduceProgressOnFailure
ReducedProgress(p, decay)  == IF p <= decay THEN 0 ELSE p - decay

\* _boundCreditTotal, and what _quoteOpenLootboxes answers
BoundTotal(c, t)   == bound[c][t]["STABLE"] + bound[c][t]["NEUTRAL"] + bound[c][t]["SWINGY"]
Generic(c, t)      == IF BoundTotal(c, t) >= credits[c][t] THEN 0
                      ELSE credits[c][t] - BoundTotal(c, t)
Openable(c, t, m, requested) == Least(requested, bound[c][t][m] + Generic(c, t))

\* seeded fault: only the total is checked
CanConsumeAnyCredit(c, t, m, n) == credits[c][t] >= n

\* The checks of _consumeLootboxCredits; the generic part is an unsigned
\* subtraction, which reverts rather than wraps.
CanConsume(c, t, m, n) ==
  /\ credits[c][t] >= n
  /\ credits[c][t] >= BoundTotal(c, t)
  /\ n - Least(bound[c][t][m], n) <= credits[c][t] - BoundTotal(c, t)

-----------------------------------------------------------------------------
(* Transactions                                                            *)

Init ==
  /\ CharactersInit
  /\ commits     = [id \in CommitIds |-> NoCommit]
  /\ runs        = [c \in CharacterIds |-> NoRun]
  /\ progress    = [c \in CharacterIds |-> [l \in Levels |-> 0]]
  /\ credits     = [c \in CharacterIds |-> [t \in Tiers |-> 0]]
  /\ bound       = [c \in CharacterIds |-> [t \in Tiers |-> [m \in VarianceMode |-> 0]]]
  /\ freeClaimed = [c \in CharacterIds |-> FALSE]
  /\ stones      = [c \in CharacterIds |-> 0]
  /\ equipped    = [c \in CharacterIds |-> 0]
  /\ mmo         = [a \in Accounts |-> IF a \in Players THEN InitialMmo ELSE 0]
  /\ minted      = 0
  /\ granted     = 0

Create(p) == CreateCharacter(p) /\ UNCHANGED worldVars

\* claimFreeLootbox
ClaimFreeLootbox(p, c) ==
  /\ owner[c] = p
  /\ ~freeClaimed[c]
  /\ credits[c][FreeTier] < CreditCap
  /\ freeClaimed' = [freeClaimed EXCEPT ![c] = TRUE]
  /\ credits'     = [credits EXCEPT ![c][FreeTier] = @ + 1]
  /\ granted'     = granted + 1
  /\ UNCHANGED << characterVars, commits, runVars, bound, minted, equipped, mmo >>

\* FeeVault.buyPremiumLootboxes as the game sees it: the MMO price is burnt and
\* creditPremiumLootboxesFromVault adds the credits. (The ETH is FeeVault's.)
CreditPremiumLootboxes(p, c, d, n) ==
  LET t    == LootTierFor(bestLevel[c], d)
      cost == PremiumMmoCost[bestLevel[c]] * n
  IN
  /\ owner[c] = p
  /\ granted + n <= MaxGranted
  /\ mmo[p] >= cost
  /\ credits[c][t] + n <= CreditCap
  /\ mmo'     = [mmo EXCEPT ![p] = @ - cost, ![Sink] = @ + cost]
  /\ credits' = [credits EXCEPT ![c][t] = @ + n]
  /\ granted' = granted + n
  /\ UNCHANGED << characterVars, commits, runVars, bound, freeClaimed, minted, equipped >>

\* _commitAction. Nothing ties the declared action type to the hash, and a
\* character may have any number of commits outstanding. Any free id stands
\* for nextCommitId++.
CommitAction(p, c, id, action, intent, mode) ==
  /\ owner[c] = p
  /\ commits[id] = NoCommit
  /\ commits' = [commits EXCEPT ![id] =
       [actor |-> p, character |-> c, action |-> action, hash |-> Hash(intent),
        mode |-> mode, age |-> 0]]
  /\ UNCHANGED << characterVars, runVars, lootVars, equipped, mmo >>

\* cancelExpired
CancelExpired(p, id) ==
  /\ commits[id] # NoCommit
  /\ commits[id].actor = p
  /\ commits[id].age > RevealWindow
  /\ commits' = [commits EXCEPT ![id] = NoCommit]
  /\ UNCHANGED << characterVars, runVars, lootVars, equipped, mmo >>

\* _validateRevealBase and the actor, variance and hash checks every reveal
\* makes after it.
InRevealWindow(age) == RevealDelay <= age /\ age <= RevealWindow
SameMode(commit, intent) == commit.mode = intent.mode

ValidReveal(p, id, action, intent) ==
  /\ commits[id] # NoCommit
  /\ commits[id].action = action
  /\ InRevealWindow(commits[id].age)
  /\ commits[id].actor = p
  /\ SameMode(commits[id], intent)
  /\ commits[id].hash = Hash(intent)

\* seeded fault: the credits spent are taken from the NEUTRAL ones
ConsumedNeutral(c, t, m, n) == [bound EXCEPT ![c][t]["NEUTRAL"] = @ - Least(@, n)]

\* _consumeLootboxCredits: own bound credits first, then generic ones; and
\* _openLootboxRewards mints one item for each.
ConsumedBound(c, t, m, n) == [bound EXCEPT ![c][t][m] = @ - Least(@, n)]

\* seeded fault: the total is reduced by the generic part only
OpenKeepingBoundTotal(c, t, m, n) ==
  /\ CanConsume(c, t, m, n)
  /\ credits' = [credits EXCEPT ![c][t] = @ - (n - Least(bound[c][t][m], n))]
  /\ bound'   = ConsumedBound(c, t, m, n)
  /\ minted'  = minted + n
  /\ UNCHANGED << freeClaimed, granted >>

OpenLootboxes(c, t, m, n) ==
  /\ CanConsume(c, t, m, n)
  /\ credits' = [credits EXCEPT ![c][t] = @ - n]
  /\ bound'   = ConsumedBound(c, t, m, n)
  /\ minted'  = minted + n
  /\ UNCHANGED << freeClaimed, granted >>

\* _revealOpenLootboxes
RevealOpenLootboxes(p, id, i) ==
  /\ i.form = "exact"
  /\ ValidReveal(p, id, "LOOTBOX_OPEN", i)
  /\ OpenLootboxes(commits[id].character, i.tier, i.mode, i.amount)
  /\ commits' = [commits EXCEPT ![id] = NoCommit]
  /\ UNCHANGED << characterVars, runVars, equipped, mmo >>

\* _revealOpenLootboxesMax opens what the quote allows, possibly nothing, and
\* uses up the commit either way.
RevealOpenLootboxesMax(p, id, i) ==
  LET c == commits[id].character
      n == Openable(c, i.tier, i.mode, i.amount)
  IN
  /\ i.form = "max"
  /\ ValidReveal(p, id, "LOOTBOX_OPEN", i)
  /\ IF n > 0 THEN OpenLootboxes(c, i.tier, i.mode, n) ELSE UNCHANGED lootVars
  /\ commits' = [commits EXCEPT ![id] = NoCommit]
  /\ UNCHANGED << characterVars, runVars, equipped, mmo >>

\* _revealStartDungeon: the entry fee is burnt, the repair fee is held by the
\* contract until the run ends.
\* seeded fault: off by one above the frontier
StartableSkipping(c, level) == 1 <= level /\ level <= NextLevelCap(bestLevel[c]) + 1
StartableLevel(c, level) == 1 <= level /\ level <= NextLevelCap(bestLevel[c])

RevealStartDungeon(p, id, i, rooms) ==
  LET c == commits[id].character IN
  /\ ValidReveal(p, id, "DUNGEON_RUN", i)
  /\ ~runs[c].active
  /\ StartableLevel(c, i.level)
  /\ equipped[c] >= RequiredSlots[i.level]
  /\ mmo[p] >= EntryFee[i.level] + RepairFee[i.level]
  /\ mmo'  = [mmo EXCEPT ![p]     = @ - (EntryFee[i.level] + RepairFee[i.level]),
                         ![Sink]  = @ + EntryFee[i.level],
                         ![World] = @ + RepairFee[i.level]]
  /\ runs' = [runs EXCEPT ![c] =
       [active |-> TRUE, owner |-> owner[c], difficulty |-> i.difficulty, mode |-> i.mode,
        level |-> i.level, roomCount |-> rooms, roomsCleared |-> 0,
        escrow |-> RepairFee[i.level]]]
  /\ commits' = [commits EXCEPT ![id] = NoCommit]
  /\ UNCHANGED << characterVars, progress, stones, lootVars, equipped >>

\* The checks of _resolveNextRoom
CanResolve(p, c) ==
  /\ runs[c].active
  /\ runs[c].owner = p
  /\ runs[c].roomsCleared < runs[c].roomCount

\* seeded fault: one room too many before the run is finished
LastRoomLate(c) == runs[c].roomsCleared = runs[c].roomCount
LastRoom(c) == runs[c].roomsCleared + 1 = runs[c].roomCount

\* seeded fault: the escrow is forgotten
PayEscrowForgotten(c, to) == mmo

\* _sinkRepairEscrow and _refundRepairEscrow
PayEscrow(c, to) ==
  [mmo EXCEPT ![World] = @ - runs[c].escrow, ![to] = @ + runs[c].escrow]

\* The token transfer of either reverts when the contract holds too little.
CanPayEscrow(c) == mmo[World] >= runs[c].escrow

EndRun(c) == [runs EXCEPT ![c] = NoRun]

\* _endRunAsFailure: a failed run above the best level erodes its progress.
ProgressAfterFailure(c) ==
  LET l == runs[c].level IN
  IF l > bestLevel[c]
  THEN [progress EXCEPT ![c][l] = ReducedProgress(@, FailureDecay[l])]
  ELSE progress

LoseRoom(p, c) ==
  /\ CanResolve(p, c)
  /\ CanPayEscrow(c)
  /\ runs'     = EndRun(c)
  /\ progress' = ProgressAfterFailure(c)
  /\ mmo'      = PayEscrow(c, Sink)
  /\ UNCHANGED << characterVars, commits, stones, lootVars, equipped >>

WinRoom(p, c) ==
  /\ CanResolve(p, c)
  /\ ~LastRoom(c)
  /\ runs' = [runs EXCEPT ![c].roomsCleared = @ + 1]
  /\ UNCHANGED << characterVars, commits, progress, stones, lootVars, equipped, mmo >>

\* _onDungeonSuccess, one disjunct for each way out of it. A level at or below
\* the best one earns nothing.
Replayed(c) ==
  /\ runs[c].level <= bestLevel[c]
  /\ UNCHANGED << characterVars, progress, stones, lootVars >>

ClearedUnits(c) == progress[c][runs[c].level] + ProgressionUnits[runs[c].difficulty]

Progressed(c) ==
  LET l == runs[c].level IN
  /\ l > bestLevel[c]
  /\ ClearedUnits(c) < RequiredClears[l]
  /\ progress' = [progress EXCEPT ![c][l] = ClearedUnits(c)]
  /\ UNCHANGED << characterVars, stones, lootVars >>

\* seeded fault: the progress of a level granted is not deleted
ProgressKept(c) == progress

ProgressAfterClear(c) == [progress EXCEPT ![c][runs[c].level] = 0]

\* _grantUpgradeStoneOnSuccess: roll is the pseudo-random drop, 0 or 1.
StonesAfter(c, roll) ==
  LET sure == IF runs[c].level >= StoneLevel
                 /\ runs[c].difficulty \in {"HARD", "EXTREME", "CHALLENGER"} THEN 1 ELSE 0
  IN  [stones EXCEPT ![c] = Least(StoneCap, @ + sure + roll)]

\* The reward is counted in the tier total and bound to the mode of the run.
LeveledUp(c, roll) ==
  LET l == runs[c].level
      d == runs[c].difficulty
      t == LootTierFor(l, d)
      n == LootCount[d]
  IN
  /\ l > bestLevel[c]
  /\ ClearedUnits(c) >= RequiredClears[l]
  /\ credits[c][t] + n <= CreditCap
  /\ progress' = ProgressAfterClear(c)
  /\ SetBestLevel(c, l)
  /\ credits'  = [credits EXCEPT ![c][t] = @ + n]
  /\ bound'    = [bound EXCEPT ![c][t][runs[c].mode] = @ + n]
  /\ granted'  = granted + n
  /\ stones'   = StonesAfter(c, roll)
  /\ UNCHANGED << freeClaimed, minted >>

WinLastRoom(p, c, roll) ==
  /\ CanResolve(p, c)
  /\ LastRoom(c)
  /\ CanPayEscrow(c)
  /\ runs' = EndRun(c)
  /\ mmo'  = PayEscrow(c, runs[c].owner)
  /\ Replayed(c) \/ Progressed(c) \/ LeveledUp(c, roll)
  /\ UNCHANGED << commits, equipped >>

-----------------------------------------------------------------------------
(* Equipment, as far as runs and stones depend on it                       *)

GearUnlocked(c) == ~runs[c].active

\* equipItem into a free slot (a replacement leaves the count as it is)
EquipItem(p, c) ==
  /\ owner[c] = p
  /\ GearUnlocked(c)
  /\ equipped[c] < SlotCount
  /\ equipped' = [equipped EXCEPT ![c] = @ + 1]
  /\ UNCHANGED << characterVars, commits, runVars, lootVars, mmo >>

\* onItemTransfer: the token leaves the owner's wallet, during a run or not.
TransferEquipped(c) ==
  /\ equipped[c] > 0
  /\ equipped' = [equipped EXCEPT ![c] = @ - 1]
  /\ UNCHANGED << characterVars, commits, runVars, lootVars, mmo >>

\* forgeSetPiece with the stone and MMO cost of the item's tier
ForgeSetPiece(p, c, cost) ==
  /\ owner[c] = p
  /\ GearUnlocked(c)
  /\ equipped[c] > 0
  /\ stones[c] >= cost[1] /\ mmo[p] >= cost[2]
  /\ stones' = [stones EXCEPT ![c] = @ - cost[1]]
  /\ mmo'    = [mmo EXCEPT ![p] = @ - cost[2], ![Sink] = @ + cost[2]]
  /\ UNCHANGED << characterVars, commits, runs, progress, lootVars, equipped >>

\* rerollItemStats
RerollItemStats(p, c) ==
  /\ owner[c] = p
  /\ GearUnlocked(c)
  /\ equipped[c] > 0
  /\ stones[c] > 0
  /\ stones' = [stones EXCEPT ![c] = @ - 1]
  /\ UNCHANGED << characterVars, commits, runs, progress, lootVars, equipped, mmo >>

-----------------------------------------------------------------------------

\* The chain produces a block: every commit is one block older, and block time
\* may cross an hour boundary.
Aged(commit) ==
  IF commit = NoCommit THEN NoCommit
  ELSE [commit EXCEPT !.age = Least(ExpiredAge, @ + 1)]

NewBlock ==
  /\ commits' = [id \in CommitIds |-> Aged(commits[id])]
  /\ AdvanceEpoch \/ UNCHANGED characterVars
  /\ UNCHANGED << runVars, lootVars, equipped, mmo >>

Registering(p) == Create(p)

Looting(p) ==
  \/ \E c \in CharacterIds : ClaimFreeLootbox(p, c)
  \/ \E c \in CharacterIds, d \in Difficulty, n \in PremiumAmounts :
       CreditPremiumLootboxes(p, c, d, n)

Committing(p) ==
  \E id \in CommitIds :
    \/ CancelExpired(p, id)
    \/ \E c \in CharacterIds, action \in ActionType, i \in Intents, m \in CommitModes :
         CommitAction(p, c, id, action, i, m)

Revealing(p) ==
  \E id \in CommitIds :
    \/ \E i \in LootIntents : RevealOpenLootboxes(p, id, i) \/ RevealOpenLootboxesMax(p, id, i)
    \/ \E i \in RunIntents, rooms \in RoomCounts : RevealStartDungeon(p, id, i, rooms)

Resolving(p, c) ==
  LoseRoom(p, c) \/ WinRoom(p, c) \/ \E roll \in {0, 1} : WinLastRoom(p, c, roll)

Gearing(p, c) ==
  \/ EquipItem(p, c)
  \/ \E cost \in ForgeCosts : ForgeSetPiece(p, c, cost)
  \/ RerollItemStats(p, c)

Next ==
  \/ \E p \in Players : Registering(p) \/ Looting(p) \/ Committing(p) \/ Revealing(p)
  \/ \E p \in Players, c \in CharacterIds : Resolving(p, c) \/ Gearing(p, c)
  \/ \E c \in CharacterIds : TransferEquipped(c)
  \/ NewBlock

Spec == Init /\ [][Next]_vars

\* An owner who keeps resolving rooms: the agent loop of the engine does. It is
\* the only fairness the termination of a run needs.
FairSpec == Spec /\ \A c \in CharacterIds : WF_vars(\E p \in Players : Resolving(p, c))

-----------------------------------------------------------------------------
(* Properties                                                              *)

\* Every variable stays within its Solidity type.
TypeOK ==
  /\ CharactersTypeOK
  /\ commits \in [CommitIds -> Commit \cup {NoCommit}]
  /\ runs \in [CharacterIds -> Run]
  /\ progress \in [CharacterIds -> [Levels -> Nat]]
  /\ credits \in [CharacterIds -> [Tiers -> 0..CreditCap]]
  /\ bound \in [CharacterIds -> [Tiers -> [VarianceMode -> Nat]]]
  /\ freeClaimed \in [CharacterIds -> BOOLEAN]
  /\ stones \in [CharacterIds -> 0..StoneCap]
  /\ equipped \in [CharacterIds -> 0..SlotCount]
  /\ mmo \in [Accounts -> Nat]
  /\ minted \in Nat
  /\ granted \in Nat

\* Partial progress exists only on the level just above the best one, and never
\* reaches the clears that level requires: no failed, replayed or batched run
\* leaves progress behind on a level already passed, where nothing would ever
\* delete it, nor lets a level be stored as cleared without being granted.
FrontierProgress ==
  \A c \in CharacterIds, l \in Levels :
    progress[c][l] > 0 => l = bestLevel[c] + 1 /\ progress[c][l] < RequiredClears[l]

\* A run in progress still has a room to resolve, was started by the owner of
\* its character, and its level is still one the character may enter: nothing
\* that happens meanwhile strands it.
RunInReach ==
  \A c \in CharacterIds : runs[c].active =>
    /\ Exists(c) /\ runs[c].owner = owner[c]
    /\ runs[c].level \in 1..(bestLevel[c] + 1)
    /\ runs[c].roomsCleared < runs[c].roomCount

\* The MMO the contract holds is exactly the repair escrow of the runs in
\* progress: a run can always be refunded or sunk, and no escrow is left over.
EscrowSolvent ==
  mmo[World] = SumFunctionOnSet([c \in CharacterIds |-> runs[c].escrow],
                                {c \in CharacterIds : runs[c].active})

\* MMO is moved, never created or lost, by fees, escrows, refunds and forging.
MmoConserved ==
  SumFunctionOnSet(mmo, Accounts) = Cardinality(Players) * InitialMmo

\* Both at every moment: no call loses an escrow, pays it twice or makes MMO.
MmoAccounted == EscrowSolvent /\ MmoConserved

\* The credits bound to variance modes are part of the tier's total, so the
\* subtraction total - bound in _consumeLootboxCredits never underflows and
\* bricks the tier.
BoundCreditsCovered ==
  \A c \in CharacterIds, t \in Tiers : BoundTotal(c, t) <= credits[c][t]

\* quoteOpenLootboxes is exact: an amount can be opened if and only if it is at
\* most what the quote promises. In particular a max reveal, which opens the
\* quoted amount, resolves its commit whatever happened since the commit.
QuoteExact ==
  \A c \in CharacterIds, t \in Tiers, m \in VarianceMode, n \in 1..(CreditCap + 1) :
    CanConsume(c, t, m, n) <=> Openable(c, t, m, n) = n

\* Every lootbox credit granted is either still there or was opened into
\* exactly one item.
OneItemPerCredit ==
  granted = minted + SumFunction([c \in CharacterIds |-> SumFunction(credits[c])])

\* A run starts only by using up one commit of its character, inside that
\* commit's reveal window, on the terms committed to: level and difficulty, and
\* the variance mode announced with the commit.
RunHonoursCommit ==
  [][\A c \in CharacterIds : ~runs[c].active /\ runs'[c].active =>
       \E id \in CommitIds :
         /\ commits[id] # NoCommit /\ commits'[id] = NoCommit
         /\ commits[id].character = c
         /\ commits[id].mode = runs'[c].mode
         /\ commits[id].hash.action = "DUNGEON_RUN"
         /\ commits[id].hash.first = DifficultyWord[runs'[c].difficulty]
         /\ commits[id].hash.second = runs'[c].level
         /\ commits[id].age \in RevealDelay..RevealWindow]_vars

\* No max reveal has these words.
ExactOnly(hash) == \A i \in LootIntents : Hash(i) = hash => i.form = "exact"

\* What opening takes from a character's tier: credits, total or bound.
Spent(c, t) ==
  credits'[c][t] < credits[c][t] \/ \E m \in VarianceMode : bound'[c][t][m] < bound[c][t][m]

\* Credits are spent only by using up one commit of the character inside its reveal
\* window, on the tier committed to, one item for each, never more than the amount
\* committed to and exactly that amount unless the words are also those of a max
\* form; and credits bound to a mode only by a commit announced with that mode:
\* loot earned in a risky run is never rolled as safe loot.
LootHonoursCommit ==
  [][\A c \in CharacterIds, t \in Tiers : Spent(c, t) =>
       \E id \in CommitIds :
         /\ commits[id] # NoCommit /\ commits'[id] = NoCommit
         /\ commits[id].character = c
         /\ commits[id].hash.action = "LOOTBOX_OPEN"
         /\ commits[id].hash.first = t
         /\ commits[id].age \in RevealDelay..RevealWindow
         /\ credits'[c][t] = credits[c][t] - (minted' - minted)
         /\ minted' - minted <= commits[id].hash.second
         /\ ExactOnly(commits[id].hash) => minted' - minted = commits[id].hash.second
         /\ \A m \in VarianceMode : bound'[c][t][m] < bound[c][t][m] => commits[id].mode = m]_vars

\* A commit is spent once, and only for what it announced.
CommitsHonoured == RunHonoursCommit /\ LootHonoursCommit

\* A level is only ever earned by finishing a run at that level, one level at a
\* time, with the escrow of that run paid back in the same transaction.
LevelEarnedByRun ==
  [][\A c \in CharacterIds : Exists(c) /\ bestLevel'[c] # bestLevel[c] =>
       /\ bestLevel'[c] = bestLevel[c] + 1
       /\ runs[c].active /\ ~runs'[c].active /\ runs[c].level = bestLevel'[c]
       /\ mmo'[owner[c]] = mmo[owner[c]] + runs[c].escrow]_vars

\* A run whose owner keeps resolving rooms ends.
RunEnds ==
  \A c \in CharacterIds : runs[c].active ~> ~runs[c].active

=============================================================================
