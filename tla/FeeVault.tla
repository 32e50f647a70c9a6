------------------------------ MODULE FeeVault ------------------------------
(***************************************************************************)
(* FeeVault.sol: premium lootbox sales fill the fee pool of the current    *)
(* epoch; once the epoch is over anyone finalizes it from the live level   *)
(* histogram; the top decile and the deployer then claim their parts.      *)
(*                                                                         *)
(* Characters go on being created and levelling up between the end of an   *)
(* epoch, its finalization and each claim. The MMO a purchase burns and    *)
(* the lootbox credit it grants are GameWorld's CreditPremiumLootboxes.    *)
(***************************************************************************)
EXTENDS Characters, Functions

CONSTANTS
  BuyAmounts,      \* amounts bought at once, within 1..MAX_BUY_PER_TX
  DailyCost,       \* DailyCost[n]: ETH price of the first n lootboxes of a day
  EpochsPerDay,    \* DAY_IN_SECONDS / EPOCH_IN_SECONDS
  PlayersBps,      \* FEE_PLAYERS_BPS
  Bps,             \* BPS
  DecileDivisor,   \* TOP_DECILE_DIVISOR
  Weight,          \* _weightForDelta, by levels above the cutoff
  MaxSoldPerDay    \* bound: lootboxes sold in a day

ASSUME FeeVaultAssumption ==
  /\ BuyAmounts \subseteq Nat \ {0}
  /\ DailyCost \in [0..MaxSoldPerDay -> Nat]
  /\ \A n \in 1..MaxSoldPerDay : DailyCost[n - 1] <= DailyCost[n]
  /\ EpochsPerDay \in Nat \ {0}
  /\ Bps \in Nat \ {0} /\ PlayersBps \in 0..Bps
  /\ DecileDivisor \in Nat \ {0}
  /\ Weight \in [0..LevelCap -> Nat \ {0}]
  /\ MaxSoldPerDay \in Nat

VARIABLES
  soldToday,        \* by day
  epochEthFees,     \* by epoch
  epochData,        \* by epoch: EpochData
  playerClaimed,    \* by epoch: the characters that claimed
  deployerClaimed,  \* by epoch
  ethBalance,       \* ETH the vault holds
  counted,          \* history, by epoch: level of each character when finalized
  paid              \* history, by epoch: ETH paid to players

vaultVars    == << soldToday, epochEthFees, epochData, playerClaimed, deployerClaimed,
                   ethBalance, counted, paid >>
feeVaultVars == << characterVars, vaultVars >>

Day(e) == e \div EpochsPerDay
Days   == 0..Day(MaxEpoch)

EpochData == [finalized : BOOLEAN, cutoffLevel : 0..LevelCap, totalEligibleWeight : Nat,
              feesForPlayers : Nat, feesForDeployer : Nat]
NotFinalized == [finalized |-> FALSE, cutoffLevel |-> 0, totalEligibleWeight |-> 0,
                 feesForPlayers |-> 0, feesForDeployer |-> 0]

VaultInit ==
  /\ soldToday       = [d \in Days |-> 0]
  /\ epochEthFees    = [e \in Epochs |-> 0]
  /\ epochData       = [e \in Epochs |-> NotFinalized]
  /\ playerClaimed   = [e \in Epochs |-> {}]
  /\ deployerClaimed = [e \in Epochs |-> FALSE]
  /\ ethBalance      = 0
  /\ counted         = [e \in Epochs |-> [c \in CharacterIds |-> 0]]
  /\ paid            = [e \in Epochs |-> 0]

-----------------------------------------------------------------------------

\* _quoteEthCostFrom: the price depends only on the position in the day's sales
EthCost(sold, n) == DailyCost[sold + n] - DailyCost[sold]

\* buyPremiumLootboxes, the part of it that is the vault's. Overpayment is
\* refunded in the same transaction, so the vault keeps the cost.
BuyPremiumLootboxes(p, c, n) ==
  LET day  == Day(epoch)
      cost == EthCost(soldToday[day], n)
  IN
  /\ owner[c] = p
  /\ soldToday[day] + n <= MaxSoldPerDay
  /\ soldToday'    = [soldToday EXCEPT ![day] = @ + n]
  /\ epochEthFees' = [epochEthFees EXCEPT ![epoch] = @ + cost]
  /\ ethBalance'   = ethBalance + cost
  /\ UNCHANGED << characterVars, epochData, playerClaimed, deployerClaimed, counted, paid >>

\* Characters at level l or above, as the scan from the top accumulates them.
AtOrAbove(l) == SumFunctionOnSet(countAtLevel, l..maxLevel)

\* finalizeEpoch rounds the decile up; seeded fault: it rounds it down
EligibleCountDown(total) == total \div DecileDivisor
EligibleCount(total)     == (total + DecileDivisor - 1) \div DecileDivisor

\* _computeCutoffLevel: the scan stops at the first level from maxLevel down
\* where enough characters have been seen.
CutoffLevel(eligible) ==
  IF eligible = 0 THEN 0
  ELSE CHOOSE l \in 1..maxLevel : /\ AtOrAbove(l) >= eligible
                                  /\ \A k \in (l + 1)..maxLevel : AtOrAbove(k) < eligible

\* _computeTotalWeight
TotalWeight(cutoff) ==
  IF cutoff = 0 THEN 0
  ELSE SumFunction([l \in cutoff..maxLevel |-> countAtLevel[l] * Weight[l - cutoff]])

\* The players' part of an epoch's fees, rounded down; the deployer gets the rest.
PlayersPool(fees)         == (fees * PlayersBps) \div Bps

\* The live histogram is used whenever the call is made, not that of the
\* moment the epoch ended.
FinalizeEpoch(e) ==
  LET fees   == epochEthFees[e]
      pool   == PlayersPool(fees)
      cutoff == CutoffLevel(EligibleCount(totalCharacters))
  IN
  /\ epoch > e
  /\ ~epochData[e].finalized
  /\ epochData' = [epochData EXCEPT ![e] =
       [finalized |-> TRUE, cutoffLevel |-> cutoff, totalEligibleWeight |-> TotalWeight(cutoff),
        feesForPlayers |-> pool, feesForDeployer |-> fees - pool]]
  /\ counted' = [counted EXCEPT ![e] = bestLevel]
  /\ UNCHANGED << characterVars, soldToday, epochEthFees, playerClaimed, deployerClaimed,
                  ethBalance, paid >>

\* The eligibility checks of claimPlayer; seeded faults: the epoch of the last
\* level-up is ignored, the double claim is not refused
LevelAnyTime(e, c)    == TRUE
NeverClaimed(e, c)    == TRUE

LevelHeldInEpoch(e, c) == lastLevelUpEpoch[c] <= e
Unclaimed(e, c)        == c \notin playerClaimed[e]

Eligible(e, c) ==
  /\ epochData[e].finalized
  /\ Exists(c)
  /\ LevelHeldInEpoch(e, c)
  /\ bestLevel[c] >= epochData[e].cutoffLevel
  /\ epochData[e].totalEligibleWeight > 0

Share(e, c) ==
  (epochData[e].feesForPlayers * Weight[bestLevel[c] - epochData[e].cutoffLevel])
    \div epochData[e].totalEligibleWeight

ClaimPlayer(p, e, c) ==
  /\ owner[c] = p
  /\ Eligible(e, c)
  /\ Unclaimed(e, c)
  /\ ethBalance >= Share(e, c)
  /\ playerClaimed' = [playerClaimed EXCEPT ![e] = @ \cup {c}]
  /\ ethBalance'    = ethBalance - Share(e, c)
  /\ paid'          = [paid EXCEPT ![e] = @ + Share(e, c)]
  /\ UNCHANGED << characterVars, soldToday, epochEthFees, epochData, deployerClaimed, counted >>

ClaimDeployer(e) ==
  /\ epochData[e].finalized
  /\ ~deployerClaimed[e]
  /\ ethBalance >= epochData[e].feesForDeployer
  /\ deployerClaimed' = [deployerClaimed EXCEPT ![e] = TRUE]
  /\ ethBalance'      = ethBalance - epochData[e].feesForDeployer
  /\ UNCHANGED << characterVars, soldToday, epochEthFees, epochData, playerClaimed, counted, paid >>

-----------------------------------------------------------------------------

VaultNext ==
  \/ \E p \in Players, c \in CharacterIds, n \in BuyAmounts : BuyPremiumLootboxes(p, c, n)
  \/ \E e \in Epochs : FinalizeEpoch(e) \/ ClaimDeployer(e)
  \/ \E p \in Players, e \in Epochs, c \in CharacterIds : ClaimPlayer(p, e, c)

\* The registry changes under the vault's feet.
RegistryNext == CharactersNext /\ UNCHANGED vaultVars

FeeVaultNext == VaultNext \/ RegistryNext
FeeVaultInit == CharactersInit /\ VaultInit
FeeVaultSpec == FeeVaultInit /\ [][FeeVaultNext]_feeVaultVars

-----------------------------------------------------------------------------
(* Properties                                                              *)

\* Every variable stays within its Solidity type.
FeeVaultTypeOK ==
  /\ CharactersTypeOK
  /\ soldToday \in [Days -> 0..MaxSoldPerDay]
  /\ epochEthFees \in [Epochs -> Nat]
  /\ epochData \in [Epochs -> EpochData]
  /\ playerClaimed \in [Epochs -> SUBSET CharacterIds]
  /\ deployerClaimed \in [Epochs -> BOOLEAN]
  /\ ethBalance \in Nat
  /\ counted \in [Epochs -> [CharacterIds -> 0..LevelCap]]
  /\ paid \in [Epochs -> Nat]

\* No matter how characters level up, are created or delay their claims, an
\* epoch never pays its players more than its pool: a claimant is always one
\* the finalization counted, at the level it was counted with.
ClaimsWithinPool ==
  \A e \in Epochs : paid[e] <= epochData[e].feesForPlayers

\* The level of a character that passes the eligibility checks is the level the
\* finalization saw. The check lastLevelUpEpoch <= epochId is what makes the
\* live level a snapshot.
EligibleWereCounted ==
  \A e \in Epochs, c \in CharacterIds :
    Eligible(e, c) => counted[e][c] = bestLevel[c]

\* The vault always holds what every epoch can still be asked for: the fees of
\* epochs not finalized, the players' pools less what they were paid, and the
\* deployer's unclaimed parts.
Owed(e) ==
  IF epochData[e].finalized
  THEN epochData[e].feesForPlayers - paid[e]
       + (IF deployerClaimed[e] THEN 0 ELSE epochData[e].feesForDeployer)
  ELSE epochEthFees[e]

VaultBacksClaims ==
  ethBalance = SumFunction([e \in Epochs |-> Owed(e)])

\* The cutoff stored by the histogram scan selects the top decile of the
\* characters that existed: with the characters at the cutoff the decile is
\* full, without them it is not.
CutoffIsTopDecile ==
  \A e \in Epochs : epochData[e].finalized =>
    LET all     == {c \in CharacterIds : counted[e][c] > 0}
        decile  == (Cardinality(all) + DecileDivisor - 1) \div DecileDivisor
        from(l) == Cardinality({c \in all : counted[e][c] >= l})
        cutoff  == epochData[e].cutoffLevel
    IN  all # {} => from(cutoff) >= decile /\ from(cutoff + 1) < decile

\* The weight the pool is divided by is the weight of the characters counted in:
\* if all of them could claim, the pool would be paid out up to rounding.
WeightIsOfTheCounted ==
  \A e \in Epochs : epochData[e].finalized =>
    LET cutoff == epochData[e].cutoffLevel
        inside == {c \in CharacterIds : counted[e][c] > 0 /\ counted[e][c] >= cutoff}
    IN  epochData[e].totalEligibleWeight =
          SumFunctionOnSet([c \in CharacterIds |->
            IF c \in inside THEN Weight[counted[e][c] - cutoff] ELSE 0], CharacterIds)

\* No epoch pays out more than its pool, the vault can pay whatever it owes, and no
\* counter of it leaves its type.
VaultSolvent == FeeVaultTypeOK /\ ClaimsWithinPool /\ VaultBacksClaims

\* A finalization counts in the top decile and weighs exactly whom it counts in.
FinalizedAsCounted == CutoffIsTopDecile /\ WeightIsOfTheCounted

\* README.md:27 "Top 10% of agents in each epoch earn MON rewards": a character
\* counted into the top decile of a finalized epoch, and eligible for a share of
\* its pool, stays so until it claims. The code breaks it: one level-up before
\* the claim and the share is lost, to the character and to everybody else.
TopDecileEarns ==
  [][\A e \in Epochs, c \in CharacterIds :
       Eligible(e, c) /\ Unclaimed(e, c) /\ Share(e, c) > 0 =>
         Eligible(e, c)' \/ ~Unclaimed(e, c)']_feeVaultVars
=============================================================================
