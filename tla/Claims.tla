------------------------------- MODULE Claims -------------------------------
(***************************************************************************)
(* What the agent API tells an agent about its rewards: the epochs it may  *)
(* claim and an estimate of what they pay. Both are computed off chain,    *)
(* from the rows the indexer keeps of finalized epochs, levels and claims, *)
(* and repeat in TypeScript what FeeVault.claimPlayer decides. The rows    *)
(* are taken as caught up; module Indexer says when they are.              *)
(***************************************************************************)
EXTENDS FeeVault, FiniteSetsExt

\* leaderboard_epoch_state where finalized, newest first there, a set here
EpochRows == {e \in Epochs : epochData[e].finalized}

\* The eligibility both queries compute. Seeded fault: a level reached after
\* the epoch counts.
RowEligibleAnyTime(e, c) == bestLevel[c] >= epochData[e].cutoffLevel
RowEligible(e, c) ==
  /\ bestLevel[c] >= epochData[e].cutoffLevel
  /\ lastLevelUpEpoch[c] <= e

RowClaimed(e, c) == c \in playerClaimed[e]

\* getClaimableEpochs. A character without a row joins nothing.
ClaimableEpochs(c) ==
  {e \in EpochRows : Exists(c) /\ RowEligible(e, c) /\ ~RowClaimed(e, c)}

\* feeVaultWeightForDelta: the weights of the contract, beyond the last the
\* last one
WeightForDelta(delta) == Weight[Min({delta, LevelCap})]

\* getClaimMeta: an epoch without weight adds nothing to the estimate
EstimatedShare(e, c) ==
  LET delta == Max({bestLevel[c] - epochData[e].cutoffLevel, 0}) IN
  IF epochData[e].totalEligibleWeight = 0 THEN 0
  ELSE (epochData[e].feesForPlayers * WeightForDelta(delta))
         \div epochData[e].totalEligibleWeight

PendingEstimate(c) == SumFunction([e \in ClaimableEpochs(c) |-> EstimatedShare(e, c)])

-----------------------------------------------------------------------------

\* An epoch shown as claimable is one claimPlayer pays the character for, and
\* none it would pay for is missing, although the queries leave out one of the
\* contract's checks and the clock; and the vault holds at once what all
\* characters together were told they can expect.
ClaimsShown ==
  /\ \A c \in CharacterIds :
       ClaimableEpochs(c) = {e \in Epochs : Eligible(e, c) /\ Unclaimed(e, c)}
  /\ SumFunction([c \in Created |-> PendingEstimate(c)]) <= ethBalance
=============================================================================
