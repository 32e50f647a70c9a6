--------------------------- MODULE FeeVault_proofs ---------------------------
(***************************************************************************)
(* The argument by which a live level serves as the snapshot of an epoch,  *)
(* and the one by which the vault can pay whatever it owes, for any number *)
(* of players, characters, levels and epochs.                              *)
(*                                                                         *)
(* An epoch's pool is divided by the weight of the characters counted when *)
(* it is finalized. That a claim later pays one of them, at the weight it  *)
(* was counted with, and pays it once, bounds the sum of the claims; the   *)
(* bound is what keeps the vault solvent.                                  *)
(***************************************************************************)
EXTENDS Claims, Characters_proofs, Sums

\* The vault's records, as far as the argument reads them.
RecordsOK ==
  /\ epochData = [e \in Epochs |-> epochData[e]]
  /\ counted \in [Epochs -> [CharacterIds -> 0..LevelCap]]

\* No level-up is dated in the future, no epoch is finalized before its end.
ClockInv ==
  /\ \A c \in CharacterIds : lastLevelUpEpoch[c] <= epoch
  /\ \A e \in Epochs : epochData[e].finalized => e < epoch

\* A level not changed since epoch e is the level its finalization counted.
SnapshotInv ==
  \A e \in Epochs, c \in CharacterIds :
    epochData[e].finalized /\ Exists(c) /\ lastLevelUpEpoch[c] <= e =>
      counted[e][c] = bestLevel[c]

FeeVaultInv == CharactersInv /\ RecordsOK /\ ClockInv /\ SnapshotInv

-----------------------------------------------------------------------------

\* The vault never writes the registry.
LEMMA VaultStepRefines ==
  ASSUME [FeeVaultNext]_feeVaultVars
  PROVE  [CharactersNext]_characterVars
  BY DEF FeeVaultNext, feeVaultVars, VaultNext, RegistryNext, BuyPremiumLootboxes,
         FinalizeEpoch, ClaimDeployer, ClaimPlayer

LEMMA FeeVaultInitInv == FeeVaultInit => FeeVaultInv
  <1> SUFFICES ASSUME FeeVaultInit PROVE FeeVaultInv
    OBVIOUS
  <1> USE CharactersAssumption DEF FeeVaultInit
  <1>1. CharactersInv
    BY CharactersInitInv
  <1>2. RecordsOK
    BY DEF VaultInit, RecordsOK
  <1>3. ClockInv /\ SnapshotInv
    BY DEF VaultInit, CharactersInit, ClockInv, SnapshotInv, NotFinalized
  <1> QED BY <1>1, <1>2, <1>3 DEF FeeVaultInv

\* Steps of the registry: a level-up is dated with the running epoch, which is
\* past every finalized one.
LEMMA RegistryStepInv ==
  ASSUME FeeVaultInv, RegistryNext
  PROVE  RecordsOK' /\ ClockInv' /\ SnapshotInv'
  <1>0. /\ CharactersTypeOK /\ RecordsOK /\ ClockInv /\ SnapshotInv /\ CountersExact
        /\ UNCHANGED << epochData, counted >>
        /\ epoch \in Nat /\ Epochs \subseteq Nat
    BY DEF FeeVaultInv, CharactersInv, CharactersTypeOK, RegistryNext, vaultVars, Epochs
  <1>1. RecordsOK'
    BY <1>0 DEF RecordsOK
  <1>2. ASSUME NEW d \in CharacterIds, NEW l,
               lastLevelUpEpoch' = [lastLevelUpEpoch EXCEPT ![d] = epoch],
               bestLevel' = [bestLevel EXCEPT ![d] = l],
               epoch' = epoch,
               \A c \in CharacterIds : c # d => owner'[c] = owner[c]
        PROVE  ClockInv' /\ SnapshotInv'
    <2>1. \A c \in CharacterIds : c # d => /\ lastLevelUpEpoch'[c] = lastLevelUpEpoch[c]
                                           /\ bestLevel'[c] = bestLevel[c]
      BY <1>0, <1>2 DEF CharactersTypeOK
    <2>2. lastLevelUpEpoch'[d] = epoch
      BY <1>0, <1>2 DEF CharactersTypeOK
    <2>3. ClockInv'
      BY <1>0, <1>2, <2>1, <2>2 DEF ClockInv
    <2>4. \A e \in Epochs : epochData[e].finalized => ~(lastLevelUpEpoch'[d] <= e)
      BY <1>0, <2>2 DEF ClockInv
    <2> QED BY <1>0, <1>2, <2>1, <2>3, <2>4 DEF SnapshotInv, Exists
  <1>3. ASSUME NEW p \in Players, CreateCharacter(p)
        PROVE  ClockInv' /\ SnapshotInv'
    <2>1. nextCharacterId \in CharacterIds
      BY <1>0, <1>3 DEF CreateCharacter, CharactersTypeOK, CharacterIds
    <2>2. \A c \in CharacterIds : c # nextCharacterId => owner'[c] = owner[c]
      BY <1>0, <1>3 DEF CreateCharacter, CharactersTypeOK
    <2> QED BY <1>2, <1>3, <2>1, <2>2 DEF CreateCharacter
  <1>4. ASSUME NEW c \in CharacterIds, LevelUp(c)
        PROVE  ClockInv' /\ SnapshotInv'
    BY <1>2, <1>4 DEF LevelUp, SetBestLevel, registryVars
  <1>5. ASSUME AdvanceEpoch PROVE ClockInv' /\ SnapshotInv'
    <2>1. ClockInv'
      BY <1>0, <1>5 DEF AdvanceEpoch, ClockInv, levelVars, CharactersTypeOK, Epochs
    <2> QED BY <1>0, <1>5, <2>1 DEF AdvanceEpoch, SnapshotInv, levelVars, registryVars, Exists
  <1> QED BY <1>1, <1>3, <1>4, <1>5 DEF RegistryNext, CharactersNext

\* Steps of the vault: a finalization counts the levels as they are.
LEMMA VaultStepInv ==
  ASSUME FeeVaultInv, VaultNext
  PROVE  RecordsOK' /\ ClockInv' /\ SnapshotInv'
  <1>0. CharactersTypeOK /\ RecordsOK /\ ClockInv /\ SnapshotInv
    BY DEF FeeVaultInv, CharactersInv
  <1>1. ASSUME UNCHANGED << characterVars, epochData, counted >>
        PROVE  RecordsOK' /\ ClockInv' /\ SnapshotInv'
    BY <1>0, <1>1 DEF characterVars, registryVars, levelVars, RecordsOK, ClockInv,
                      SnapshotInv, Exists
  <1>2. ASSUME NEW e \in Epochs, FinalizeEpoch(e)
        PROVE  RecordsOK' /\ ClockInv' /\ SnapshotInv'
    <2>1. /\ epoch > e
          /\ counted' = [counted EXCEPT ![e] = bestLevel]
          /\ UNCHANGED characterVars
          /\ \E r : epochData' = [epochData EXCEPT ![e] = r]
      BY <1>2 DEF FinalizeEpoch
    <2>2. UNCHANGED << epoch, owner, bestLevel, lastLevelUpEpoch >>
      BY <2>1 DEF characterVars, registryVars, levelVars
    <2>3. bestLevel \in [CharacterIds -> 0..LevelCap]
      BY <1>0 DEF CharactersTypeOK
    <2>4. RecordsOK'
      BY <1>0, <2>1, <2>3 DEF RecordsOK
    <2>5. \A f \in Epochs : f # e => epochData'[f] = epochData[f] /\ counted'[f] = counted[f]
      BY <1>0, <2>1 DEF RecordsOK
    <2>6. counted'[e] = bestLevel /\ e < epoch
      BY <1>0, <2>1 DEF RecordsOK, CharactersTypeOK, Epochs
    <2>7. ClockInv'
      BY <1>0, <2>2, <2>5, <2>6 DEF ClockInv
    <2>8. SnapshotInv'
      BY <1>0, <2>2, <2>5, <2>6 DEF SnapshotInv, Exists
    <2> QED BY <2>4, <2>7, <2>8
  <1> QED BY <1>1, <1>2 DEF VaultNext, BuyPremiumLootboxes, ClaimDeployer, ClaimPlayer

LEMMA FeeVaultNextInv == FeeVaultInv /\ [FeeVaultNext]_feeVaultVars => FeeVaultInv'
  <1> SUFFICES ASSUME FeeVaultInv, [FeeVaultNext]_feeVaultVars PROVE FeeVaultInv'
    OBVIOUS
  <1>1. CharactersInv'
    BY VaultStepRefines, CharactersNextInv DEF FeeVaultInv
  <1>2. CASE UNCHANGED feeVaultVars
    BY <1>1, <1>2 DEF FeeVaultInv, feeVaultVars, vaultVars, characterVars, registryVars,
                      levelVars, RecordsOK, ClockInv, SnapshotInv, Exists
  <1> QED BY <1>1, <1>2, RegistryStepInv, VaultStepInv DEF FeeVaultNext, FeeVaultInv

\* The vault's invariant holds throughout.
THEOREM FeeVaultInvariant == FeeVaultSpec => []FeeVaultInv
  BY FeeVaultInitInv, FeeVaultNextInv, PTL DEF FeeVaultSpec

\* Whoever passes claimPlayer's eligibility checks has the level that the epoch
\* was finalized with, however late the finalization and the claim are.
THEOREM EligibleAlwaysCounted == FeeVaultSpec => []EligibleWereCounted
  <1>1. FeeVaultInv => EligibleWereCounted
    BY DEF FeeVaultInv, SnapshotInv, EligibleWereCounted, Eligible, LevelHeldInEpoch
  <1> QED BY <1>1, FeeVaultInvariant, PTL

\* Together with the vault's, the steps of the registry are still the
\* registry's: the histogram and the highest level that a
\* finalization reads are exact.
THEOREM VaultReadsExactRegistry == FeeVaultSpec => []RegistryExact
  <1>1. FeeVaultInv => RegistryExact
    BY DEF FeeVaultInv, CharactersInv, RegistryExact
  <1> QED BY <1>1, FeeVaultInvariant, PTL

-----------------------------------------------------------------------------
(* Arithmetic of the vault                                                 *)

\* What integer division loses is less than the divisor.
LEMMA DivisionBounds ==
  ASSUME NEW n \in Nat, NEW d \in Nat \ {0}
  PROVE  n \div d \in Nat /\ (n \div d) * d <= n /\ n < (n \div d) * d + d
  OBVIOUS

\* A decile rounded up is at least one, and no more than all.
LEMMA RoundedUp ==
  ASSUME NEW n \in Nat, NEW d \in Nat \ {0}, NEW q, q = (n + d - 1) \div d
  PROVE  q \in Nat /\ (n > 0 => q >= 1 /\ q <= n) /\ (n = 0 => q = 0)
<1>1. n + d - 1 \in Nat
  OBVIOUS
<1>2. q \in Nat /\ q * d <= n + d - 1 /\ n + d - 1 < q * d + d
  BY <1>1, DivisionBounds
<1> QED BY <1>2

\* The size of the top decile.
LEMMA EligibleRounded ==
  ASSUME NEW n \in Nat
  PROVE  /\ EligibleCount(n) \in Nat
         /\ n > 0 => EligibleCount(n) >= 1 /\ EligibleCount(n) <= n
         /\ n = 0 => EligibleCount(n) = 0
<1>1. DecileDivisor \in Nat \ {0}
  BY FeeVaultAssumption
<1>2. EligibleCount(n) = (n + DecileDivisor - 1) \div DecileDivisor
  BY DEF EligibleCount
<1> QED BY <1>1, <1>2, RoundedUp

\* The players' part of a number of fees is no more than the fees.
LEMMA PoolWithinFees ==
  ASSUME NEW fees \in Nat
  PROVE  PlayersPool(fees) \in Nat /\ PlayersPool(fees) <= fees
<1>1. Bps \in Nat \ {0} /\ PlayersBps \in 0..Bps
  BY FeeVaultAssumption
<1>2. fees * PlayersBps \in Nat
  BY <1>1
<1>3. PICK q \in Nat : q = PlayersPool(fees) /\ q * Bps <= fees * PlayersBps
  BY <1>1, <1>2, DivisionBounds DEF PlayersPool
<1>4. q <= fees
  BY <1>1, <1>3
<1> QED BY <1>3, <1>4

\* Later epochs lie on no earlier days.
LEMMA DayInDays ==
  ASSUME NEW e \in Epochs
  PROVE  Day(e) \in Days
<1>1. EpochsPerDay \in Nat \ {0} /\ MaxEpoch \in Nat /\ e \in 0..MaxEpoch
  BY FeeVaultAssumption, CharactersAssumption DEF Epochs
<1>2. PICK q \in Nat : q = Day(e) /\ q * EpochsPerDay <= e
  BY <1>1, DivisionBounds DEF Day
<1>3. PICK m \in Nat : m = Day(MaxEpoch) /\ MaxEpoch < m * EpochsPerDay + EpochsPerDay
  BY <1>1, DivisionBounds DEF Day
<1>4. q <= m
  <2>1. SUFFICES ASSUME q >= m + 1 PROVE FALSE
    OBVIOUS
  <2>2. q * EpochsPerDay >= (m + 1) * EpochsPerDay
    BY <1>1, <2>1
  <2>3. (m + 1) * EpochsPerDay = m * EpochsPerDay + EpochsPerDay
    BY <1>1
  <2>4. q * EpochsPerDay \in Nat /\ m * EpochsPerDay \in Nat
    BY <1>1
  <2> QED BY <1>1, <1>2, <1>3, <2>2, <2>3, <2>4
<1> QED BY <1>2, <1>3, <1>4 DEF Days

\* The price of the day's first lootboxes never falls with their number, so that
\* the ETH cost of a purchase, a difference of two of them, is not negative.
LEMMA CostGrows ==
  ASSUME NEW s \in 0..MaxSoldPerDay, NEW t \in 0..MaxSoldPerDay, s <= t
  PROVE  DailyCost[s] <= DailyCost[t]
<1>1. /\ MaxSoldPerDay \in Nat /\ DailyCost \in [0..MaxSoldPerDay -> Nat]
      /\ \A n \in 1..MaxSoldPerDay : DailyCost[n - 1] <= DailyCost[n]
  BY FeeVaultAssumption
<1> DEFINE low == {n \in 0..MaxSoldPerDay : s <= n /\ DailyCost[n] < DailyCost[s]}
<1>2. SUFFICES ASSUME low # {} PROVE FALSE
  <2>1. DailyCost[s] \in Nat /\ DailyCost[t] \in Nat
    BY <1>1
  <2>2. DailyCost[s] <= DailyCost[t] \/ DailyCost[t] < DailyCost[s]
    BY <2>1
  <2> QED BY <2>2
<1>3. PICK n \in low : \A k \in low : n <= k
  <2>1. low \subseteq 0..MaxSoldPerDay
    OBVIOUS
  <2> HIDE DEF low
  <2> QED BY <1>1, <1>2, <2>1, LeastNumber
<1>4. n \in 1..MaxSoldPerDay /\ n - 1 \in 0..MaxSoldPerDay /\ s <= n - 1
  BY <1>1, <1>3
<1>5. n - 1 \notin low
  BY <1>3, <1>4
<1>6. DailyCost[n - 1] <= DailyCost[n]
  BY <1>1, <1>4
<1>7. DailyCost[n] \in Nat /\ DailyCost[n - 1] \in Nat /\ DailyCost[s] \in Nat
  BY <1>1, <1>3, <1>4
<1> QED BY <1>3, <1>4, <1>5, <1>6, <1>7

-----------------------------------------------------------------------------
(* What a finalization computes from the histogram                         *)

\* The characters the scan has passed when it has reached level l.
FromLevel(l) == {c \in Created : bestLevel[c] >= l}

\* The finite sets summed over.
LEMMA VaultFinite ==
  /\ IsFiniteSet(Epochs) /\ IsFiniteSet(CharacterIds) /\ IsFiniteSet(Created)
  /\ \A l : IsFiniteSet(FromLevel(l)) /\ Cardinality(FromLevel(l)) \in Nat
<1>1. IsFiniteSet(Epochs)
  BY FS_Interval, CharactersAssumption DEF Epochs
<1>2. Created \subseteq CharacterIds /\ \A l : FromLevel(l) \subseteq CharacterIds
  BY DEF Created, FromLevel
<1> QED BY <1>1, <1>2, RegistryFinite

\* A level of the histogram, and a weight for each level above it, taken
\* together: one term per character instead of one per level.
LEMMA HistogramSum ==
  ASSUME CharactersInv, NEW l \in 1..LevelCap, NEW w, NEW F, NEW G,
         \A k \in l..maxLevel : w[k] \in Nat /\ F[k] = countAtLevel[k] * w[k],
         \A c \in FromLevel(l) : G[c] = w[bestLevel[c]]
  PROVE  SumFunctionOnSet(F, l..maxLevel) = SumFunctionOnSet(G, FromLevel(l))
<1>1. maxLevel \in Nat /\ maxLevel <= LevelCap /\ l \in Nat /\ l >= 1 /\ LevelCap \in Nat
  BY CharactersAssumption DEF CharactersInv, CharactersTypeOK
<1>2. l..maxLevel \subseteq Levels
  BY <1>1 DEF Levels
<1>3. \A k \in l..maxLevel : countAtLevel[k] = Cardinality({c \in Created : bestLevel[c] = k})
  BY <1>2 DEF CharactersInv, HistogramExact, AtLevel
<1>4. FromLevel(l) = {c \in Created : bestLevel[c] \in l..maxLevel}
  <2>1. \A c \in Created : bestLevel[c] \in Nat /\ bestLevel[c] <= maxLevel
    BY DEF CharactersInv, MaxLevelIsTop, CharactersTypeOK, Created
  <2> QED BY <1>1, <2>1 DEF FromLevel
<1>5. \A k \in l..maxLevel :
        w[k] \in Nat /\ F[k] = Cardinality({c \in Created : bestLevel[c] = k}) * w[k]
  BY <1>3
<1>6. \A c \in Created : bestLevel[c] \in l..maxLevel => G[c] = w[bestLevel[c]]
  BY <1>4
<1>7. SumFunctionOnSet(F, l..maxLevel)
        = SumFunctionOnSet(G, {c \in Created : bestLevel[c] \in l..maxLevel})
  <2> DEFINE L == l..maxLevel
             S == Created
             k == bestLevel
             K == [j \in L |-> {c \in S : k[c] = j}]
             U == {c \in S : k[c] \in L}
  <2>1. IsFiniteSet(L)
    BY <1>1, FS_Interval
  <2>2. IsFiniteSet(S)
    BY VaultFinite
  <2>3. \A j \in L : w[j] \in Nat /\ F[j] = Cardinality(K[j]) * w[j]
    BY <1>5
  <2>4. \A c \in S : k[c] \in L => G[c] = w[k[c]]
    BY <1>6
  <2>5. \A j \in L : \A c : c \in K[j] <=> c \in S /\ k[c] = j
    OBVIOUS
  <2>6. \A c : c \in U <=> c \in S /\ k[c] \in L
    OBVIOUS
  <2> HIDE DEF L, S, k, K, U
  <2>7. SumFunctionOnSet(F, L) = SumFunctionOnSet(G, U)
    BY <2>1, <2>2, <2>3, <2>4, <2>5, <2>6, SumByClass
  <2> QED BY <2>7 DEF L, S, k, U
<1> QED BY <1>4, <1>7

\* The running total of the scan is the number of characters it has passed.
LEMMA ScanCounts ==
  ASSUME CharactersInv, NEW l \in 1..LevelCap
  PROVE  AtOrAbove(l) = Cardinality(FromLevel(l))
<1> DEFINE w == [k \in l..maxLevel |-> 1]
           G == [c \in FromLevel(l) |-> 1]
<1>1. maxLevel \in 0..LevelCap /\ countAtLevel \in [Levels -> Nat]
  BY DEF CharactersInv, CharactersTypeOK
<1>2. \A k \in l..maxLevel : w[k] \in Nat /\ countAtLevel[k] = countAtLevel[k] * w[k]
  BY <1>1, CharactersAssumption DEF Levels
<1>3. \A c \in FromLevel(l) : G[c] = w[bestLevel[c]]
  <2>1. \A c \in FromLevel(l) : bestLevel[c] \in l..maxLevel
    BY DEF CharactersInv, MaxLevelIsTop, CharactersTypeOK, Created, FromLevel
  <2> QED BY <2>1
<1>4. \A c \in FromLevel(l) : G[c] = 1
  OBVIOUS
<1> HIDE DEF w, G
<1>5. SumFunctionOnSet(countAtLevel, l..maxLevel) = SumFunctionOnSet(G, FromLevel(l))
  BY <1>2, <1>3, HistogramSum
<1>6. IsFiniteSet(FromLevel(l))
  BY VaultFinite
<1>7. SumFunctionOnSet(G, FromLevel(l)) = Cardinality(FromLevel(l))
  BY <1>4, <1>6, SumOfOnes
<1> QED BY <1>5, <1>7 DEF AtOrAbove

\* Level 1 and above is everybody.
LEMMA AllFromLevelOne ==
  ASSUME CharactersInv
  PROVE  /\ FromLevel(1) = Created
         /\ FromLevel(1) = {c \in CharacterIds : bestLevel[c] > 0}
         /\ Cardinality(FromLevel(1)) = totalCharacters
<1>1. \A c \in CharacterIds : bestLevel[c] \in Nat /\ (Exists(c) <=> bestLevel[c] > 0)
  BY DEF CharactersInv, CharactersTypeOK, LevelledFromBirth
<1>2. FromLevel(1) = Created /\ FromLevel(1) = {c \in CharacterIds : bestLevel[c] > 0}
  BY <1>1 DEF FromLevel, Created
<1> QED BY <1>2 DEF CharactersInv, CountersExact

\* The level the scan stops at: nothing to find, or the highest level from which
\* upwards there are enough characters.
LEMMA CutoffFound ==
  ASSUME CharactersInv, NEW x \in Nat, x <= totalCharacters
  PROVE  /\ x = 0 => CutoffLevel(x) = 0
         /\ x > 0 => /\ CutoffLevel(x) \in 1..maxLevel
                     /\ AtOrAbove(CutoffLevel(x)) >= x
                     /\ \A k \in (CutoffLevel(x) + 1)..maxLevel : AtOrAbove(k) < x
<1>1. SUFFICES ASSUME x > 0
      PROVE  \E l \in 1..maxLevel : /\ AtOrAbove(l) >= x
                                    /\ \A k \in (l + 1)..maxLevel : AtOrAbove(k) < x
  BY DEF CutoffLevel
<1>2. maxLevel \in Nat /\ maxLevel <= LevelCap /\ LevelCap \in Nat /\ totalCharacters \in Nat
  BY CharactersAssumption DEF CharactersInv, CharactersTypeOK
<1>3. \A l \in 1..maxLevel : AtOrAbove(l) = Cardinality(FromLevel(l)) /\ AtOrAbove(l) \in Nat
  <2>1. \A l \in 1..maxLevel : l \in 1..LevelCap
    BY <1>2
  <2> QED BY <2>1, ScanCounts, VaultFinite
<1> DEFINE T == {l \in 1..maxLevel : AtOrAbove(l) >= x}
<1>4. 1 \in T
  <2>1. Created # {}
    <3>1. Cardinality(Created) > 0
      BY <1>1, <1>2 DEF CharactersInv, CountersExact
    <3> QED BY <3>1, FS_EmptySet
  <2>2. PICK c \in Created : bestLevel[c] \in Nat /\ bestLevel[c] > 0 /\ bestLevel[c] <= maxLevel
    BY <2>1 DEF CharactersInv, CharactersTypeOK, LevelledFromBirth, MaxLevelIsTop, Created
  <2>3. 1 \in 1..maxLevel
    BY <1>2, <2>2
  <2>4. AtOrAbove(1) = totalCharacters
    BY <1>3, <2>3, AllFromLevelOne
  <2> QED BY <2>3, <2>4
<1>5. PICK l \in T : \A k \in T : k <= l
  <2>1. T \subseteq 0..maxLevel /\ T # {}
    BY <1>2, <1>4
  <2> HIDE DEF T
  <2> QED BY <1>2, <2>1, GreatestNumber
<1>6. ASSUME NEW k \in (l + 1)..maxLevel PROVE AtOrAbove(k) < x
  <2>1. k \in 1..maxLevel /\ k \notin T
    BY <1>2, <1>5
  <2> QED BY <1>3, <2>1
<1> QED BY <1>5, <1>6

\* What a finalization that sees these levels, and cuts off there, has to get right.
TopDecile(level, cutoff) ==
  LET all     == {c \in CharacterIds : level[c] > 0}
      decile  == (Cardinality(all) + DecileDivisor - 1) \div DecileDivisor
      from(l) == Cardinality({c \in all : level[c] >= l})
  IN  all # {} => from(cutoff) >= decile /\ from(cutoff + 1) < decile

Inside(level, cutoff) == {c \in CharacterIds : level[c] > 0 /\ level[c] >= cutoff}

Weights(level, cutoff) ==
  [c \in CharacterIds |-> IF c \in Inside(level, cutoff) THEN Weight[level[c] - cutoff] ELSE 0]

Cutoff == CutoffLevel(EligibleCount(totalCharacters))

\* Where the cutoff lies.
LEMMA CutoffRange ==
  ASSUME CharactersInv
  PROVE  /\ totalCharacters = 0 => Cutoff = 0
         /\ totalCharacters > 0 => Cutoff \in 1..maxLevel
         /\ Cutoff \in 0..LevelCap
<1>1. maxLevel \in Nat /\ maxLevel <= LevelCap /\ LevelCap \in Nat /\ totalCharacters \in Nat
  BY CharactersAssumption DEF CharactersInv, CharactersTypeOK
<1>2. PICK x \in Nat : /\ x = EligibleCount(totalCharacters)
                       /\ totalCharacters > 0 => x >= 1 /\ x <= totalCharacters
                       /\ totalCharacters = 0 => x = 0
  BY <1>1, EligibleRounded
<1>3. x <= totalCharacters
  BY <1>1, <1>2
<1>4. (x = 0 => Cutoff = 0) /\ (x > 0 => Cutoff \in 1..maxLevel)
  BY <1>2, <1>3, CutoffFound DEF Cutoff
<1> QED BY <1>1, <1>2, <1>4

\* The scan finds the top decile of the characters there are.
LEMMA CutoffRight ==
  ASSUME CharactersInv
  PROVE  TopDecile(bestLevel, Cutoff)
<1> DEFINE all    == {c \in CharacterIds : bestLevel[c] > 0}
           decile == EligibleCount(totalCharacters)
<1>1. maxLevel \in Nat /\ maxLevel <= LevelCap /\ LevelCap \in Nat /\ totalCharacters \in Nat
  BY CharactersAssumption DEF CharactersInv, CharactersTypeOK
<1>2. all = Created /\ Cardinality(all) = totalCharacters
  BY AllFromLevelOne
<1>3. \A l : {c \in all : bestLevel[c] >= l} = FromLevel(l)
  BY <1>2 DEF FromLevel
<1>4. SUFFICES ASSUME all # {}
      PROVE  /\ Cardinality(FromLevel(Cutoff)) >= decile
             /\ Cardinality(FromLevel(Cutoff + 1)) < decile
  BY <1>2, <1>3 DEF TopDecile, EligibleCount
<1>5. totalCharacters > 0
  <2>1. IsFiniteSet(Created)
    BY VaultFinite
  <2> QED BY <1>1, <1>2, <1>4, <2>1, FS_EmptySet
<1>6. decile \in Nat /\ decile >= 1 /\ decile <= totalCharacters
  BY <1>1, <1>5, EligibleRounded
<1>7. /\ Cutoff \in 1..maxLevel
      /\ AtOrAbove(Cutoff) >= decile
      /\ \A k \in (Cutoff + 1)..maxLevel : AtOrAbove(k) < decile
  <2> HIDE DEF decile
  <2> QED BY <1>6, CutoffFound DEF Cutoff, decile
<1>8. Cardinality(FromLevel(Cutoff)) >= decile
  BY <1>1, <1>7, ScanCounts
<1>9. CASE Cutoff < maxLevel
  <2>1. Cutoff + 1 \in (Cutoff + 1)..maxLevel /\ Cutoff + 1 \in 1..LevelCap
    BY <1>1, <1>7, <1>9
  <2>2. AtOrAbove(Cutoff + 1) < decile
    BY <1>7, <2>1
  <2>3. AtOrAbove(Cutoff + 1) = Cardinality(FromLevel(Cutoff + 1))
    BY <2>1, ScanCounts
  <2> QED BY <1>8, <2>2, <2>3
<1>10. CASE Cutoff = maxLevel
  <2>1. \A c \in Created : bestLevel[c] \in Nat /\ bestLevel[c] <= maxLevel
    BY DEF CharactersInv, CharactersTypeOK, MaxLevelIsTop, Created
  <2>2. FromLevel(Cutoff + 1) = {}
    BY <1>1, <1>10, <2>1 DEF FromLevel
  <2>3. Cardinality(FromLevel(Cutoff + 1)) = 0
    BY <2>2, FS_EmptySet
  <2> QED BY <1>6, <1>8, <2>3
<1> QED BY <1>1, <1>7, <1>9, <1>10

\* The weights of the characters, and their sums, are natural numbers.
LEMMA WeightsNat ==
  ASSUME NEW level \in [CharacterIds -> 0..LevelCap], NEW cutoff \in 0..LevelCap,
         NEW S \in SUBSET CharacterIds
  PROVE  /\ \A c \in CharacterIds : Weights(level, cutoff)[c] \in Nat
         /\ \A c \in Inside(level, cutoff) : level[c] - cutoff \in 0..LevelCap
         /\ IsFiniteSet(S)
         /\ SumFunctionOnSet(Weights(level, cutoff), S) \in Nat
         /\ SumFunctionOnSet(Weights(level, cutoff), S)
              <= SumFunctionOnSet(Weights(level, cutoff), CharacterIds)
<1>1. \A c \in Inside(level, cutoff) : level[c] - cutoff \in 0..LevelCap
  BY CharactersAssumption DEF Inside
<1>2. \A c \in CharacterIds : Weights(level, cutoff)[c] \in Nat
  BY <1>1, FeeVaultAssumption DEF Weights
<1>3. IsFiniteSet(CharacterIds) /\ IsFiniteSet(S)
  BY VaultFinite, FS_Subset
<1>4. \A c \in S : Weights(level, cutoff)[c] \in Nat
  BY <1>2
<1>5. SumFunctionOnSet(Weights(level, cutoff), S) \in Nat
  BY <1>3, <1>4, SumNat
<1>6. SumFunctionOnSet(Weights(level, cutoff), S)
        <= SumFunctionOnSet(Weights(level, cutoff), CharacterIds)
  BY <1>2, <1>3, SumSubset
<1> QED BY <1>1, <1>2, <1>3, <1>5, <1>6

\* The weight taken from the histogram is that of the characters inside.
LEMMA WeightRight ==
  ASSUME CharactersInv
  PROVE  TotalWeight(Cutoff) = SumFunctionOnSet(Weights(bestLevel, Cutoff), CharacterIds)
<1> DEFINE G == Weights(bestLevel, Cutoff)
           In == Inside(bestLevel, Cutoff)
<1>1. /\ maxLevel \in Nat /\ maxLevel <= LevelCap /\ LevelCap \in Nat /\ totalCharacters \in Nat
      /\ bestLevel \in [CharacterIds -> 0..LevelCap]
      /\ countAtLevel \in [Levels -> Nat]
  BY CharactersAssumption DEF CharactersInv, CharactersTypeOK
<1>2. Cutoff \in 0..LevelCap
  BY CutoffRange
<1>3. \A c \in CharacterIds : G[c] \in Nat
  BY <1>1, <1>2, WeightsNat
<1>4. \A c \in CharacterIds \ In : G[c] = 0
  BY DEF Weights
<1>5. IsFiniteSet(CharacterIds) /\ In \in SUBSET CharacterIds
  BY VaultFinite DEF Inside
<1>6. SumFunctionOnSet(G, In) = SumFunctionOnSet(G, CharacterIds)
  <2> HIDE DEF G, In
  <2> QED BY <1>3, <1>4, <1>5, SumSubset
<1>7. TotalWeight(Cutoff) = SumFunctionOnSet(G, In)
  <2>1. CASE totalCharacters = 0
    <3>1. Cutoff = 0
      BY <2>1, CutoffRange
    <3>2. IsFiniteSet(Created) /\ Cardinality(Created) = 0
      BY <2>1, VaultFinite DEF CharactersInv, CountersExact
    <3>3. Created = {}
      BY <3>2, FS_EmptySet
    <3>4. In = {}
      BY <3>3 DEF CharactersInv, LevelledFromBirth, Created, Inside
    <3>5. SumFunctionOnSet(G, {}) = 0
      <4> HIDE DEF G
      <4> QED BY SumEmpty
    <3> QED BY <3>1, <3>4, <3>5 DEF TotalWeight
  <2>2. CASE totalCharacters > 0
    <3> DEFINE w == [l \in Cutoff..maxLevel |-> Weight[l - Cutoff]]
               F == [l \in Cutoff..maxLevel |-> countAtLevel[l] * Weight[l - Cutoff]]
    <3>1. Cutoff \in 1..maxLevel
      BY <2>2, CutoffRange
    <3>2. Cutoff \in 1..LevelCap
      BY <1>1, <3>1
    <3>3. \A k \in Cutoff..maxLevel : w[k] \in Nat /\ F[k] = countAtLevel[k] * w[k]
      <4>1. \A k \in Cutoff..maxLevel : k - Cutoff \in 0..LevelCap
        BY <1>1, <3>1
      <4> QED BY <4>1, FeeVaultAssumption
    <3>4. In = FromLevel(Cutoff)
      BY <3>1 DEF CharactersInv, CharactersTypeOK, LevelledFromBirth, Inside, FromLevel, Created
    <3>5. \A c \in FromLevel(Cutoff) : G[c] = w[bestLevel[c]]
      <4>1. \A c \in FromLevel(Cutoff) : bestLevel[c] \in Cutoff..maxLevel /\ c \in CharacterIds
        BY <1>1, <3>1 DEF CharactersInv, MaxLevelIsTop, FromLevel, Created
      <4> QED BY <3>4, <4>1 DEF Weights
    <3>6. TotalWeight(Cutoff) = SumFunctionOnSet(F, Cutoff..maxLevel)
      BY <1>1, <3>1 DEF TotalWeight, SumFunction
    <3> HIDE DEF w, F, G, In
    <3>7. SumFunctionOnSet(F, Cutoff..maxLevel) = SumFunctionOnSet(G, FromLevel(Cutoff))
      BY <3>2, <3>3, <3>5, HistogramSum
    <3> QED BY <3>4, <3>6, <3>7
  <2> QED BY <1>1, <2>1, <2>2
<1> QED BY <1>6, <1>7

-----------------------------------------------------------------------------
(* What an epoch pays, and what the vault owes                             *)

\* A finalized epoch counted whom it should have, and its claims together took no
\* more of the pool than the counted weight of the characters that claimed. Of an
\* epoch not finalized nothing was claimed.
EpochOK(e) ==
  LET level  == counted[e]
      cutoff == epochData[e].cutoffLevel
      weight == epochData[e].totalEligibleWeight
      pool   == epochData[e].feesForPlayers
  IN
  /\ epochData[e].finalized =>
       /\ TopDecile(level, cutoff)
       /\ weight = SumFunctionOnSet(Weights(level, cutoff), CharacterIds)
       /\ weight = 0 => paid[e] = 0
       /\ paid[e] * weight
            <= pool * SumFunctionOnSet(Weights(level, cutoff), playerClaimed[e])
  /\ ~epochData[e].finalized =>
       playerClaimed[e] = {} /\ paid[e] = 0 /\ ~deployerClaimed[e]
  /\ paid[e] <= pool

LedgerInv ==
  /\ FeeVaultTypeOK
  /\ \A e \in Epochs : EpochOK(e)
  /\ VaultBacksClaims

\* What each epoch can still be asked for is not negative.
LEMMA OwedNat ==
  ASSUME LedgerInv
  PROVE  \A e \in Epochs : Owed(e) \in Nat
  BY DEF LedgerInv, FeeVaultTypeOK, EpochData, EpochOK, Owed

\* A step that concerns one epoch changes the sum owed by what it changes there.
LEMMA OwedChange ==
  ASSUME LedgerInv, NEW a \in Epochs, Owed(a)' \in Nat,
         \A e \in Epochs \ {a} : Owed(e)' = Owed(e),
         ethBalance' = ethBalance - Owed(a) + Owed(a)'
  PROVE  VaultBacksClaims' /\ ethBalance' \in Nat
<1> DEFINE f == [e \in Epochs |-> Owed(e)]
           g == [e \in Epochs |-> Owed(e)']
<1>1. \A e \in Epochs : f[e] \in Nat /\ g[e] \in Nat
  BY OwedNat
<1>2. \A e \in Epochs \ {a} : g[e] = f[e]
  OBVIOUS
<1>3. f[a] = Owed(a) /\ g[a] = Owed(a)'
  OBVIOUS
<1>4. IsFiniteSet(Epochs)
  BY VaultFinite
<1>5. ethBalance = SumFunctionOnSet(f, Epochs)
  BY DEF LedgerInv, VaultBacksClaims, SumFunction
<1>6. VaultBacksClaims' <=> ethBalance' = SumFunctionOnSet(g, Epochs)
  BY DEF VaultBacksClaims, SumFunction
<1> HIDE DEF f, g
<1>7. SumFunctionOnSet(g, Epochs) = SumFunctionOnSet(f, Epochs) - f[a] + g[a]
  BY <1>1, <1>2, <1>4, SumChange
<1>8. \A e \in Epochs : g[e] \in Nat
  BY <1>1
<1>9. SumFunctionOnSet(g, Epochs) \in Nat
  BY <1>4, <1>8, SumNat
<1> QED BY <1>3, <1>5, <1>6, <1>7, <1>9

\* The initial vault is empty.
LEMMA LedgerInitInv == FeeVaultInit => LedgerInv
<1> SUFFICES ASSUME FeeVaultInit PROVE LedgerInv
  OBVIOUS
<1> USE DEF FeeVaultInit
<1>1. CharactersTypeOK
  BY CharactersInitInv DEF CharactersInv
<1>2. FeeVaultTypeOK
  <2>1. NotFinalized \in EpochData
    BY CharactersAssumption DEF NotFinalized, EpochData
  <2>2. 0 \in 0..MaxSoldPerDay /\ 0 \in 0..LevelCap
    BY FeeVaultAssumption, CharactersAssumption
  <2> QED BY <1>1, <2>1, <2>2 DEF FeeVaultTypeOK, VaultInit
<1>3. \A e \in Epochs : EpochOK(e)
  BY DEF VaultInit, NotFinalized, EpochOK
<1>4. VaultBacksClaims
  <2> DEFINE f == [e \in Epochs |-> Owed(e)]
  <2>1. \A e \in Epochs : f[e] = 0
    BY DEF VaultInit, NotFinalized, Owed
  <2>2. ethBalance = 0 /\ (VaultBacksClaims <=> ethBalance = SumFunctionOnSet(f, Epochs))
    BY DEF VaultInit, VaultBacksClaims, SumFunction
  <2>3. IsFiniteSet(Epochs)
    BY VaultFinite
  <2> HIDE DEF f
  <2>4. SumFunctionOnSet(f, Epochs) = Cardinality(Epochs) * 0 /\ Cardinality(Epochs) \in Nat
    BY <2>1, <2>3, SumConstant, FS_CardinalityType
  <2> QED BY <2>2, <2>4
<1> QED BY <1>2, <1>3, <1>4 DEF LedgerInv

\* An epoch whose records a step leaves alone stays in order, and owes what it owed.
LEMMA EpochFrame ==
  ASSUME NEW e \in Epochs, EpochOK(e),
         epochData'[e] = epochData[e], counted'[e] = counted[e], paid'[e] = paid[e],
         playerClaimed'[e] = playerClaimed[e], deployerClaimed'[e] = deployerClaimed[e]
  PROVE  EpochOK(e)' /\ (epochEthFees'[e] = epochEthFees[e] => Owed(e)' = Owed(e))
  BY DEF EpochOK, Owed, TopDecile, Weights, Inside

\* A sale adds its cost to the fees of the running epoch, which is not finalized.
LEMMA BuyLedger ==
  ASSUME FeeVaultInv, LedgerInv, CharactersTypeOK',
         NEW p \in Players, NEW c \in CharacterIds, NEW n \in BuyAmounts,
         BuyPremiumLootboxes(p, c, n)
  PROVE  LedgerInv'
<1> DEFINE day  == Day(epoch)
           cost == EthCost(soldToday[day], n)
<1>1. FeeVaultTypeOK /\ epoch \in Epochs /\ day \in Days
  BY DayInDays DEF LedgerInv, FeeVaultTypeOK, CharactersTypeOK
<1>2. /\ soldToday[day] \in 0..MaxSoldPerDay
      /\ soldToday[day] + n \in 0..MaxSoldPerDay
      /\ soldToday[day] <= soldToday[day] + n
  BY <1>1, FeeVaultAssumption DEF FeeVaultTypeOK, BuyPremiumLootboxes
<1>3. cost \in Nat
  <2>1. DailyCost[soldToday[day]] <= DailyCost[soldToday[day] + n]
    BY <1>2, CostGrows
  <2>2. DailyCost[soldToday[day]] \in Nat /\ DailyCost[soldToday[day] + n] \in Nat
    BY <1>2, FeeVaultAssumption
  <2> QED BY <2>1, <2>2 DEF EthCost
<1>4. /\ soldToday' = [soldToday EXCEPT ![day] = @ + n]
      /\ epochEthFees' = [epochEthFees EXCEPT ![epoch] = @ + cost]
      /\ ethBalance' = ethBalance + cost
      /\ UNCHANGED << epochData, playerClaimed, deployerClaimed, counted, paid >>
  BY DEF BuyPremiumLootboxes
<1> HIDE DEF day, cost
<1>0. PICK a \in Epochs : a = epoch
  BY <1>1
<1>5. ~epochData[a].finalized
  <2>1. epochData[a].finalized => a < a
    BY <1>0 DEF FeeVaultInv, ClockInv
  <2> QED BY <1>0, <2>1, CharactersAssumption DEF Epochs
<1>6. ASSUME NEW e \in Epochs PROVE EpochOK(e)' /\ (e # a => Owed(e)' = Owed(e))
  <2>1. EpochOK(e)
    BY DEF LedgerInv
  <2>2. e # a => epochEthFees'[e] = epochEthFees[e]
    BY <1>0, <1>1, <1>4 DEF FeeVaultTypeOK
  <2>3. EpochOK(e)' /\ (epochEthFees'[e] = epochEthFees[e] => Owed(e)' = Owed(e))
    BY <1>4, <2>1, EpochFrame
  <2> QED BY <2>2, <2>3
<1>7. Owed(a)' = Owed(a) + cost
  <2>1. epochEthFees'[a] = epochEthFees[a] + cost
    BY <1>0, <1>1, <1>4 DEF FeeVaultTypeOK
  <2>2. \A e \in Epochs : ~epochData[e].finalized =>
          Owed(e) = epochEthFees[e] /\ Owed(e)' = epochEthFees'[e]
    BY <1>4 DEF Owed
  <2> QED BY <1>1, <1>5, <2>1, <2>2
<1>8. VaultBacksClaims' /\ ethBalance' \in Nat
  <2>1. Owed(a) \in Nat /\ ethBalance \in Nat
    BY <1>1, OwedNat DEF FeeVaultTypeOK
  <2>2. Owed(a)' \in Nat /\ ethBalance' = ethBalance - Owed(a) + Owed(a)'
    BY <1>3, <1>4, <1>7, <2>1
  <2>3. \A e \in Epochs \ {a} : Owed(e)' = Owed(e)
    BY <1>6
  <2> QED BY <1>1, <2>2, <2>3, OwedChange
<1>9. FeeVaultTypeOK'
  <2>1. soldToday' \in [Days -> 0..MaxSoldPerDay]
    BY <1>1, <1>2, <1>4 DEF FeeVaultTypeOK
  <2>2. epochEthFees' \in [Epochs -> Nat]
    BY <1>1, <1>3, <1>4 DEF FeeVaultTypeOK
  <2> QED BY <1>1, <1>4, <1>8, <2>1, <2>2 DEF FeeVaultTypeOK
<1> QED BY <1>6, <1>8, <1>9 DEF LedgerInv

\* A finalization splits the fees of its epoch in two parts and counts the
\* characters as they are.
LEMMA FinalizeLedger ==
  ASSUME FeeVaultInv, LedgerInv, CharactersTypeOK', NEW a \in Epochs, FinalizeEpoch(a)
  PROVE  LedgerInv'
<1> DEFINE fees == epochEthFees[a]
           pool == PlayersPool(fees)
           data == [finalized |-> TRUE, cutoffLevel |-> Cutoff,
                    totalEligibleWeight |-> TotalWeight(Cutoff),
                    feesForPlayers |-> pool, feesForDeployer |-> fees - pool]
<1>1. FeeVaultTypeOK /\ CharactersInv /\ EpochOK(a)
  BY DEF LedgerInv, FeeVaultInv
<1>2. bestLevel \in [CharacterIds -> 0..LevelCap] /\ fees \in Nat
  BY <1>1 DEF FeeVaultTypeOK, CharactersTypeOK
<1>3. pool \in Nat /\ pool <= fees
  BY <1>2, PoolWithinFees
<1>4. Cutoff \in 0..LevelCap
  BY <1>1, CutoffRange
<1>5. /\ TotalWeight(Cutoff) = SumFunctionOnSet(Weights(bestLevel, Cutoff), CharacterIds)
      /\ TotalWeight(Cutoff) \in Nat
  <2>1. CharacterIds \in SUBSET CharacterIds
    OBVIOUS
  <2>2. SumFunctionOnSet(Weights(bestLevel, Cutoff), CharacterIds) \in Nat
    BY <1>2, <1>4, <2>1, WeightsNat
  <2> QED BY <1>1, <2>2, WeightRight
<1>6. TopDecile(bestLevel, Cutoff)
  BY <1>1, CutoffRight
<1>7. /\ ~epochData[a].finalized
      /\ epochData' = [epochData EXCEPT ![a] = data]
      /\ counted' = [counted EXCEPT ![a] = bestLevel]
      /\ UNCHANGED << soldToday, epochEthFees, playerClaimed, deployerClaimed, ethBalance, paid >>
  BY DEF FinalizeEpoch, Cutoff
<1>8. epochData'[a] = data /\ counted'[a] = bestLevel
  BY <1>1, <1>7 DEF FeeVaultTypeOK
<1>9. playerClaimed[a] = {} /\ paid[a] = 0 /\ ~deployerClaimed[a]
  BY <1>1, <1>7 DEF EpochOK
<1>10. EpochOK(a)'
  <2>1. SumFunctionOnSet(Weights(bestLevel, Cutoff), {}) = 0
    BY SumEmpty
  <2>2. 0 * TotalWeight(Cutoff) <= pool * 0 /\ 0 <= pool
    BY <1>3, <1>5
  <2> HIDE DEF pool, fees
  <2>3. /\ epochData'[a].finalized
        /\ epochData'[a].cutoffLevel = Cutoff
        /\ epochData'[a].totalEligibleWeight = TotalWeight(Cutoff)
        /\ epochData'[a].feesForPlayers = pool
        /\ counted'[a] = bestLevel /\ playerClaimed'[a] = {} /\ paid'[a] = 0
    BY <1>7, <1>8, <1>9
  <2> HIDE DEF data
  <2> QED BY <1>5, <1>6, <2>1, <2>2, <2>3 DEF EpochOK
<1>11. ASSUME NEW e \in Epochs, e # a PROVE EpochOK(e)' /\ Owed(e)' = Owed(e)
  <2>1. EpochOK(e)
    BY DEF LedgerInv
  <2>2. epochData'[e] = epochData[e] /\ counted'[e] = counted[e]
    BY <1>1, <1>7, <1>11 DEF FeeVaultTypeOK
  <2> QED BY <1>7, <2>1, <2>2, EpochFrame
<1>12. Owed(a) = fees /\ Owed(a)' = fees
  <2>1. Owed(a) = fees
    BY <1>7 DEF Owed
  <2>2. Owed(a)' = (pool - 0) + (fees - pool)
    BY <1>7, <1>8, <1>9 DEF Owed
  <2> QED BY <1>2, <1>3, <2>1, <2>2
<1>13. VaultBacksClaims' /\ ethBalance' \in Nat
  <2>1. ethBalance \in Nat
    BY <1>1 DEF FeeVaultTypeOK
  <2>2. Owed(a)' \in Nat /\ ethBalance' = ethBalance - Owed(a) + Owed(a)'
    BY <1>2, <1>7, <1>12, <2>1
  <2>3. \A e \in Epochs \ {a} : Owed(e)' = Owed(e)
    BY <1>11
  <2> QED BY <2>2, <2>3, OwedChange
<1>14. FeeVaultTypeOK'
  <2>1. data \in EpochData
    BY <1>2, <1>3, <1>4, <1>5 DEF EpochData
  <2> HIDE DEF data
  <2>2. epochData' \in [Epochs -> EpochData]
    BY <1>1, <1>7, <2>1 DEF FeeVaultTypeOK
  <2>3. counted' \in [Epochs -> [CharacterIds -> 0..LevelCap]]
    BY <1>1, <1>2, <1>7 DEF FeeVaultTypeOK
  <2> QED BY <1>1, <1>7, <2>2, <2>3 DEF FeeVaultTypeOK
<1> QED BY <1>10, <1>11, <1>13, <1>14 DEF LedgerInv

\* Claims within their weight leave the pool enough.
LEMMA PaidWithin ==
  ASSUME NEW took \in Nat, NEW weight \in Nat \ {0}, NEW pool \in Nat, NEW claimed \in Nat,
         claimed <= weight, took * weight <= pool * claimed
  PROVE  took <= pool
  OBVIOUS

\* One share is rounded down: times the weight it was divided by, it is within the
\* pool times the weight of its character.
LEMMA ShareRounded ==
  ASSUME FeeVaultInv, LedgerInv, NEW e \in Epochs, NEW c \in CharacterIds, Eligible(e, c)
  PROVE  LET weight == epochData[e].totalEligibleWeight
             pool   == epochData[e].feesForPlayers
             own    == Weights(counted[e], epochData[e].cutoffLevel)[c]
         IN  /\ weight \in Nat \ {0} /\ pool \in Nat /\ own \in Nat /\ Share(e, c) \in Nat
             /\ own = Weight[bestLevel[c] - epochData[e].cutoffLevel]
             /\ Share(e, c) * weight <= pool * own
<1> DEFINE weight == epochData[e].totalEligibleWeight
           pool   == epochData[e].feesForPlayers
           cutoff == epochData[e].cutoffLevel
           own    == Weights(counted[e], cutoff)[c]
<1>1. /\ weight \in Nat \ {0} /\ pool \in Nat /\ cutoff \in 0..LevelCap
      /\ counted[e] \in [CharacterIds -> 0..LevelCap]
  BY DEF LedgerInv, FeeVaultTypeOK, EpochData, Eligible
<1>2. counted[e][c] = bestLevel[c] /\ bestLevel[c] > 0
  BY DEF FeeVaultInv, CharactersInv, LevelledFromBirth, SnapshotInv, Eligible, LevelHeldInEpoch
<1>3. c \in Inside(counted[e], cutoff)
  BY <1>2 DEF Eligible, Inside
<1>4. own = Weight[bestLevel[c] - cutoff]
  BY <1>2, <1>3 DEF Weights
<1>5. own \in Nat
  BY <1>1, WeightsNat
<1>6. Share(e, c) = (pool * own) \div weight
  BY <1>4 DEF Share
<1> HIDE DEF weight, pool, cutoff, own
<1>7. pool * own \in Nat
  BY <1>1, <1>5
<1>8. (pool * own) \div weight \in Nat /\ ((pool * own) \div weight) * weight <= pool * own
  BY <1>1, <1>7, DivisionBounds
<1> QED BY <1>1, <1>4, <1>5, <1>6, <1>8 DEF weight, pool, cutoff, own

\* A player's claim: a character counted in, not paid before, takes no more than
\* its part of the pool.
LEMMA ClaimPlayerLedger ==
  ASSUME FeeVaultInv, LedgerInv, CharactersTypeOK',
         NEW p \in Players, NEW a \in Epochs, NEW c \in CharacterIds, ClaimPlayer(p, a, c)
  PROVE  LedgerInv'
<1> DEFINE weight == epochData[a].totalEligibleWeight
           pool   == epochData[a].feesForPlayers
           cutoff == epochData[a].cutoffLevel
           W      == Weights(counted[a], cutoff)
           S      == playerClaimed[a]
           share  == Share(a, c)
<1>1. FeeVaultTypeOK /\ EpochOK(a) /\ Eligible(a, c) /\ c \notin S
  BY DEF LedgerInv, ClaimPlayer, Unclaimed
<1>2. /\ weight \in Nat \ {0} /\ pool \in Nat /\ share \in Nat
      /\ W[c] \in Nat /\ share * weight <= pool * W[c]
  BY <1>1, ShareRounded
<1>3. /\ S \in SUBSET CharacterIds /\ S \cup {c} \in SUBSET CharacterIds
      /\ counted[a] \in [CharacterIds -> 0..LevelCap] /\ cutoff \in 0..LevelCap
      /\ paid[a] \in Nat
  BY <1>1 DEF FeeVaultTypeOK, EpochData
<1>4. \A x \in S \cup {c} : W[x] \in Nat
  BY <1>3, WeightsNat
<1>5. /\ IsFiniteSet(S)
      /\ SumFunctionOnSet(W, S) \in Nat /\ SumFunctionOnSet(W, S \cup {c}) \in Nat
      /\ SumFunctionOnSet(W, S \cup {c}) <= SumFunctionOnSet(W, CharacterIds)
  BY <1>3, WeightsNat
<1>6. /\ epochData[a].finalized
      /\ weight = SumFunctionOnSet(W, CharacterIds)
      /\ paid[a] * weight <= pool * SumFunctionOnSet(W, S)
      /\ TopDecile(counted[a], cutoff)
  BY <1>1 DEF EpochOK, Eligible
<1>7. /\ playerClaimed' = [playerClaimed EXCEPT ![a] = S \cup {c}]
      /\ ethBalance' = ethBalance - share
      /\ paid' = [paid EXCEPT ![a] = paid[a] + share]
      /\ UNCHANGED << soldToday, epochEthFees, epochData, deployerClaimed, counted >>
  BY DEF ClaimPlayer
<1>8. playerClaimed'[a] = S \cup {c} /\ paid'[a] = paid[a] + share
  BY <1>1, <1>7 DEF FeeVaultTypeOK
<1> HIDE DEF S, W, share, weight, pool, cutoff
<1>9. SumFunctionOnSet(W, S \cup {c}) = SumFunctionOnSet(W, S) + W[c]
  BY <1>1, <1>4, <1>5, SumAddElement
<1>10. (paid[a] + share) * weight <= pool * SumFunctionOnSet(W, S \cup {c})
  <2>1. PICK s \in Nat, w \in Nat : s = SumFunctionOnSet(W, S) /\ w = W[c]
    BY <1>2, <1>5
  <2>2. paid[a] * weight <= pool * s /\ share * weight <= pool * w
    BY <1>2, <1>6, <2>1
  <2>3. (paid[a] + share) * weight = paid[a] * weight + share * weight
    BY <1>2, <1>3
  <2>4. pool * (s + w) = pool * s + pool * w
    BY <1>2
  <2>5. /\ paid[a] * weight \in Nat /\ share * weight \in Nat
        /\ pool * s \in Nat /\ pool * w \in Nat
    BY <1>2, <1>3
  <2>6. (paid[a] + share) * weight <= pool * (s + w)
    BY <2>2, <2>3, <2>4, <2>5
  <2> QED BY <1>9, <2>1, <2>6
<1>11. paid[a] + share <= pool
  <2>1. paid[a] + share \in Nat
    BY <1>2, <1>3
  <2>2. SumFunctionOnSet(W, S \cup {c}) <= weight
    BY <1>5, <1>6
  <2> QED BY <1>2, <1>5, <1>10, <2>1, <2>2, PaidWithin
<1>12. EpochOK(a)'
  <2>1. /\ epochData'[a] = epochData[a] /\ counted'[a] = counted[a]
        /\ weight # 0
    BY <1>2, <1>7
  <2> QED BY <1>6, <1>8, <1>10, <1>11, <2>1 DEF EpochOK, S, W, weight, pool, cutoff
<1>13. ASSUME NEW e \in Epochs, e # a PROVE EpochOK(e)' /\ Owed(e)' = Owed(e)
  <2>1. EpochOK(e)
    BY DEF LedgerInv
  <2>2. playerClaimed'[e] = playerClaimed[e] /\ paid'[e] = paid[e]
    BY <1>1, <1>7, <1>13 DEF FeeVaultTypeOK
  <2> QED BY <1>7, <2>1, <2>2, EpochFrame
<1>14. Owed(a)' = Owed(a) - share /\ Owed(a)' \in Nat
  <2> DEFINE rest == IF deployerClaimed[a] THEN 0 ELSE epochData[a].feesForDeployer
  <2>1. rest \in Nat
    BY <1>1 DEF FeeVaultTypeOK, EpochData
  <2>2. Owed(a) = (pool - paid[a]) + rest
    BY <1>6 DEF Owed, pool
  <2>3. Owed(a)' = (pool - (paid[a] + share)) + rest
    BY <1>6, <1>7, <1>8 DEF Owed, pool
  <2> HIDE DEF rest
  <2> QED BY <1>2, <1>3, <1>11, <2>1, <2>2, <2>3
<1>15. VaultBacksClaims' /\ ethBalance' \in Nat
  <2>1. ethBalance \in Nat /\ Owed(a) \in Nat
    BY <1>1, OwedNat DEF FeeVaultTypeOK
  <2>2. ethBalance' = ethBalance - Owed(a) + Owed(a)'
    BY <1>2, <1>7, <1>14, <2>1
  <2>3. \A e \in Epochs \ {a} : Owed(e)' = Owed(e)
    BY <1>13
  <2> QED BY <1>14, <2>2, <2>3, OwedChange
<1>16. FeeVaultTypeOK'
  <2>1. playerClaimed' \in [Epochs -> SUBSET CharacterIds]
    BY <1>1, <1>3, <1>7 DEF FeeVaultTypeOK
  <2>2. paid' \in [Epochs -> Nat]
    BY <1>1, <1>2, <1>3, <1>7 DEF FeeVaultTypeOK
  <2> QED BY <1>1, <1>7, <1>15, <2>1, <2>2 DEF FeeVaultTypeOK
<1> QED BY <1>12, <1>13, <1>15, <1>16 DEF LedgerInv

\* The deployer's claim takes exactly what was set aside for it.
LEMMA ClaimDeployerLedger ==
  ASSUME FeeVaultInv, LedgerInv, CharactersTypeOK', NEW a \in Epochs, ClaimDeployer(a)
  PROVE  LedgerInv'
<1> DEFINE part == epochData[a].feesForDeployer
<1>1. FeeVaultTypeOK /\ EpochOK(a) /\ epochData[a].finalized /\ ~deployerClaimed[a]
  BY DEF LedgerInv, ClaimDeployer
<1>2. /\ deployerClaimed' = [deployerClaimed EXCEPT ![a] = TRUE]
      /\ ethBalance' = ethBalance - part
      /\ UNCHANGED << soldToday, epochEthFees, epochData, playerClaimed, counted, paid >>
  BY DEF ClaimDeployer
<1>3. deployerClaimed'[a] = TRUE
  BY <1>1, <1>2 DEF FeeVaultTypeOK
<1>4. part \in Nat /\ ethBalance \in Nat /\ Owed(a) \in Nat
  BY <1>1, OwedNat DEF FeeVaultTypeOK, EpochData
<1>5. EpochOK(a)'
  BY <1>1, <1>2 DEF EpochOK
<1>6. ASSUME NEW e \in Epochs, e # a PROVE EpochOK(e)' /\ Owed(e)' = Owed(e)
  <2>1. EpochOK(e)
    BY DEF LedgerInv
  <2>2. deployerClaimed'[e] = deployerClaimed[e]
    BY <1>1, <1>2, <1>6 DEF FeeVaultTypeOK
  <2> QED BY <1>2, <2>1, <2>2, EpochFrame
<1>7. Owed(a)' = Owed(a) - part /\ Owed(a)' \in Nat
  <2> DEFINE left == epochData[a].feesForPlayers - paid[a]
  <2>1. left \in Nat
    BY <1>1 DEF FeeVaultTypeOK, EpochData, EpochOK
  <2>2. Owed(a) = left + part
    BY <1>1 DEF Owed
  <2>3. Owed(a)' = left + 0
    BY <1>1, <1>2, <1>3 DEF Owed
  <2> HIDE DEF left, part
  <2> QED BY <1>4, <2>1, <2>2, <2>3
<1>8. VaultBacksClaims' /\ ethBalance' \in Nat
  <2>1. ethBalance' = ethBalance - Owed(a) + Owed(a)'
    BY <1>2, <1>4, <1>7
  <2>2. \A e \in Epochs \ {a} : Owed(e)' = Owed(e)
    BY <1>6
  <2> QED BY <1>7, <2>1, <2>2, OwedChange
<1>9. FeeVaultTypeOK'
  BY <1>1, <1>2, <1>8 DEF FeeVaultTypeOK
<1> QED BY <1>5, <1>6, <1>8, <1>9 DEF LedgerInv

\* What the registry does changes nothing here.
LEMMA LedgerFrame ==
  ASSUME LedgerInv, CharactersTypeOK', UNCHANGED vaultVars
  PROVE  LedgerInv'
<1>1. \A e \in Epochs : EpochOK(e)' /\ Owed(e)' = Owed(e)
  BY EpochFrame DEF LedgerInv, vaultVars
<1>2. FeeVaultTypeOK'
  BY DEF LedgerInv, FeeVaultTypeOK, vaultVars
<1>3. VaultBacksClaims'
  BY <1>1 DEF LedgerInv, VaultBacksClaims, vaultVars
<1> QED BY <1>1, <1>2, <1>3 DEF LedgerInv

LEMMA LedgerNextInv ==
  FeeVaultInv /\ FeeVaultInv' /\ LedgerInv /\ [FeeVaultNext]_feeVaultVars => LedgerInv'
<1> SUFFICES ASSUME FeeVaultInv, FeeVaultInv', LedgerInv, [FeeVaultNext]_feeVaultVars
             PROVE  LedgerInv'
  OBVIOUS
<1>1. CharactersTypeOK'
  BY DEF FeeVaultInv, CharactersInv
<1>2. CASE UNCHANGED vaultVars
  BY <1>1, <1>2, LedgerFrame
<1>3. CASE VaultNext
  BY <1>1, <1>3, BuyLedger, FinalizeLedger, ClaimPlayerLedger, ClaimDeployerLedger DEF VaultNext
<1> QED BY <1>2, <1>3 DEF FeeVaultNext, RegistryNext, feeVaultVars

\* The vault's books are in order throughout.
THEOREM LedgerInvariant == FeeVaultSpec => [](FeeVaultInv /\ LedgerInv)
<1>1. FeeVaultInit => FeeVaultInv /\ LedgerInv
  BY FeeVaultInitInv, LedgerInitInv
<1>2. FeeVaultInv /\ LedgerInv /\ [FeeVaultNext]_feeVaultVars => (FeeVaultInv /\ LedgerInv)'
  BY FeeVaultNextInv, LedgerNextInv
<1> QED BY <1>1, <1>2, PTL DEF FeeVaultSpec

\* However sales, finalizations, level-ups and claims are interleaved, no epoch
\* pays its players more than its pool and the vault holds exactly what every
\* epoch can still be asked for (FeeVault.sol).
THEOREM VaultAlwaysSolvent == FeeVaultSpec => []VaultSolvent
<1>1. LedgerInv => VaultSolvent
  BY DEF LedgerInv, EpochOK, VaultSolvent, ClaimsWithinPool
<1> QED BY <1>1, LedgerInvariant, PTL

\* The cutoff found by scanning the histogram selects the top decile, and the
\* weight the pool is divided by is that of the characters it selects
\* (_computeCutoffLevel, _computeTotalWeight).
THEOREM AlwaysFinalizedAsCounted == FeeVaultSpec => []FinalizedAsCounted
<1>1. LedgerInv => FinalizedAsCounted
  BY DEF LedgerInv, EpochOK, FinalizedAsCounted, CutoffIsTopDecile, WeightIsOfTheCounted,
         TopDecile, Weights, Inside
<1> QED BY <1>1, LedgerInvariant, PTL

-----------------------------------------------------------------------------
(* What the agent API tells of claims                                      *)

\* An epoch the queries show as claimable is one the contract would pay: the check
\* they leave out, that the epoch has weight, follows from the character's own.
LEMMA ShownIsClaimable ==
  ASSUME FeeVaultInv, LedgerInv, NEW c \in CharacterIds, NEW e \in Epochs
  PROVE  e \in ClaimableEpochs(c) <=> Eligible(e, c) /\ Unclaimed(e, c)
<1>1. SUFFICES ASSUME e \in ClaimableEpochs(c) PROVE epochData[e].totalEligibleWeight > 0
  BY DEF ClaimableEpochs, EpochRows, RowEligible, RowClaimed, Eligible, Unclaimed, LevelHeldInEpoch
<1> DEFINE cutoff == epochData[e].cutoffLevel
           W      == Weights(counted[e], cutoff)
<1>2. /\ epochData[e].finalized /\ Exists(c) /\ bestLevel[c] >= cutoff /\ lastLevelUpEpoch[c] <= e
  BY <1>1 DEF ClaimableEpochs, EpochRows, RowEligible
<1>3. /\ counted[e] \in [CharacterIds -> 0..LevelCap] /\ cutoff \in 0..LevelCap
      /\ epochData[e].totalEligibleWeight = SumFunctionOnSet(W, CharacterIds)
  BY <1>2 DEF LedgerInv, EpochOK, FeeVaultTypeOK, EpochData
<1>4. counted[e][c] = bestLevel[c] /\ bestLevel[c] > 0
  BY <1>2 DEF FeeVaultInv, CharactersInv, LevelledFromBirth, SnapshotInv
<1>5. c \in Inside(counted[e], cutoff)
  BY <1>2, <1>4 DEF Inside
<1>6. counted[e][c] - cutoff \in 0..LevelCap
  BY <1>3, <1>5, WeightsNat
<1>7. W[c] \in Nat \ {0}
  BY <1>5, <1>6, FeeVaultAssumption DEF Weights
<1>8. \A d \in CharacterIds : W[d] \in Nat
  BY <1>3, WeightsNat
<1>9. IsFiniteSet(CharacterIds)
  BY VaultFinite
<1> HIDE DEF W
<1>10. /\ SumFunctionOnSet(W, CharacterIds \ {c}) \in Nat
       /\ SumFunctionOnSet(W, CharacterIds) = W[c] + SumFunctionOnSet(W, CharacterIds \ {c})
  BY <1>8, <1>9, SumStep
<1> QED BY <1>3, <1>7, <1>10

\* The estimate repeats the contract's share.
LEMMA EstimateIsShare ==
  ASSUME FeeVaultInv, LedgerInv, NEW c \in CharacterIds, NEW e \in Epochs, Eligible(e, c)
  PROVE  EstimatedShare(e, c) = Share(e, c)
<1> DEFINE delta == bestLevel[c] - epochData[e].cutoffLevel
<1>1. delta \in 0..LevelCap /\ LevelCap \in Nat
  <2>1. bestLevel[c] \in 0..LevelCap /\ epochData[e].cutoffLevel \in 0..LevelCap
    BY DEF LedgerInv, FeeVaultTypeOK, CharactersTypeOK, EpochData
  <2> QED BY <2>1, CharactersAssumption DEF Eligible
<1> HIDE DEF delta
<1>2. Max({delta, 0}) = delta
  BY <1>1 DEF Max
<1>3. Min({delta, LevelCap}) = delta
  BY <1>1 DEF Min
<1>4. epochData[e].totalEligibleWeight # 0
  BY DEF Eligible
<1> QED BY <1>2, <1>3, <1>4 DEF EstimatedShare, WeightForDelta, Share, delta

\* All who may still claim from an epoch take together no more than it owes.
LEMMA EpochCovers ==
  ASSUME FeeVaultInv, LedgerInv, NEW a \in Epochs, NEW h,
         \A c \in Created : h[c] = IF a \in ClaimableEpochs(c) THEN Share(a, c) ELSE 0
  PROVE  /\ \A c \in Created : h[c] \in Nat
         /\ SumFunctionOnSet(h, Created) \in Nat
         /\ SumFunctionOnSet(h, Created) <= Owed(a)
<1> DEFINE U      == {c \in Created : a \in ClaimableEpochs(c)}
           S      == playerClaimed[a]
           weight == epochData[a].totalEligibleWeight
           pool   == epochData[a].feesForPlayers
           cutoff == epochData[a].cutoffLevel
           W      == Weights(counted[a], cutoff)
<1>1. FeeVaultTypeOK /\ EpochOK(a) /\ Owed(a) \in Nat /\ Created \subseteq CharacterIds
  BY OwedNat DEF LedgerInv, Created
<1>2. \A c \in U : /\ Eligible(a, c) /\ c \notin S /\ h[c] = Share(a, c)
                   /\ c \in CharacterIds
  BY <1>1, ShownIsClaimable DEF Unclaimed
<1>3. \A c \in U : /\ weight \in Nat \ {0} /\ W[c] \in Nat /\ h[c] \in Nat
                   /\ h[c] * weight <= pool * W[c]
  BY <1>2, ShareRounded
<1>4. \A c \in Created : h[c] \in Nat
  BY <1>3
<1>5. IsFiniteSet(Created) /\ U \in SUBSET Created /\ IsFiniteSet(U)
  BY VaultFinite, FS_Subset
<1>6. \A c \in Created \ U : h[c] = 0
  OBVIOUS
<1>7. /\ S \in SUBSET CharacterIds /\ pool \in Nat /\ paid[a] \in Nat
      /\ counted[a] \in [CharacterIds -> 0..LevelCap] /\ cutoff \in 0..LevelCap
  BY <1>1 DEF FeeVaultTypeOK, EpochData
<1> HIDE DEF U
<1>8. SumFunctionOnSet(h, U) = SumFunctionOnSet(h, Created) /\ SumFunctionOnSet(h, U) \in Nat
  <2>1. \A c \in U : h[c] \in Nat
    BY <1>3
  <2> QED BY <1>4, <1>5, <1>6, <2>1, SumSubset, SumNat
<1>9. CASE U = {}
  <2>1. SumFunctionOnSet(h, {}) = 0
    BY SumEmpty
  <2> QED BY <1>1, <1>4, <1>8, <1>9, <2>1
<1>10. CASE U # {}
  <2>1. /\ epochData[a].finalized /\ weight \in Nat \ {0}
        /\ weight = SumFunctionOnSet(W, CharacterIds)
        /\ paid[a] * weight <= pool * SumFunctionOnSet(W, S)
    BY <1>1, <1>2, <1>3, <1>10 DEF EpochOK, Eligible
  <2>2. U \in SUBSET CharacterIds /\ S \cup U \in SUBSET CharacterIds /\ S \cap U = {}
    BY <1>2, <1>7
  <2>3. IsFiniteSet(S) /\ SumFunctionOnSet(W, S) \in Nat
    BY <1>7, WeightsNat
  <2>4. SumFunctionOnSet(W, U) \in Nat
    BY <1>7, <2>2, WeightsNat
  <2>5. /\ SumFunctionOnSet(W, S \cup U) \in Nat
        /\ SumFunctionOnSet(W, S \cup U) <= weight
    BY <1>7, <2>1, <2>2, WeightsNat
  <2>6. \A c \in S \cup U : W[c] \in Nat
    BY <1>7, <2>2, WeightsNat
  <2> HIDE DEF S, W, weight, pool, cutoff
  <2>7. SumFunctionOnSet(W, S \cup U) = SumFunctionOnSet(W, S) + SumFunctionOnSet(W, U)
    BY <1>5, <2>2, <2>3, <2>6, SumDisjoint
  <2>8. SumFunctionOnSet(h, U) * weight <= pool * SumFunctionOnSet(W, U)
    <3>1. \A c \in U : h[c] \in Nat /\ W[c] \in Nat /\ h[c] * weight <= pool * W[c]
      BY <1>3
    <3>2. weight \in Nat
      BY <2>1
    <3> QED BY <1>5, <1>7, <3>1, <3>2, SumScaled
  <2>9. PICK s \in Nat, u \in Nat, t \in Nat :
          /\ s = SumFunctionOnSet(W, S) /\ u = SumFunctionOnSet(W, U)
          /\ t = SumFunctionOnSet(h, U)
    BY <1>8, <2>3, <2>4
  <2>10. (paid[a] + t) * weight <= pool * (s + u)
    <3>1. paid[a] * weight <= pool * s /\ t * weight <= pool * u
      BY <2>1, <2>8, <2>9
    <3>2. /\ (paid[a] + t) * weight = paid[a] * weight + t * weight
          /\ pool * (s + u) = pool * s + pool * u
      BY <1>7, <2>1, <2>9
    <3>3. /\ paid[a] * weight \in Nat /\ t * weight \in Nat
          /\ pool * s \in Nat /\ pool * u \in Nat
      BY <1>7, <2>1, <2>9
    <3> QED BY <3>1, <3>2, <3>3
  <2>11. paid[a] + t <= pool
    <3>1. s + u <= weight /\ s + u \in Nat /\ paid[a] + t \in Nat
      BY <1>7, <2>5, <2>7, <2>9
    <3> QED BY <1>7, <2>1, <2>10, <3>1, PaidWithin
  <2>12. t <= Owed(a)
    <3> DEFINE rest == IF deployerClaimed[a] THEN 0 ELSE epochData[a].feesForDeployer
    <3>1. rest \in Nat
      BY <1>1 DEF FeeVaultTypeOK, EpochData
    <3>2. Owed(a) = (pool - paid[a]) + rest
      BY <2>1 DEF Owed, pool
    <3> HIDE DEF rest
    <3> QED BY <1>7, <2>9, <2>11, <3>1, <3>2
  <2> QED BY <1>4, <1>8, <2>9, <2>12
<1> QED BY <1>9, <1>10

\* The sum of one character's estimates, over all epochs.
LEMMA PendingSum ==
  ASSUME FeeVaultInv, LedgerInv, NEW c \in Created, NEW f,
         \A e \in Epochs : f[e] = IF e \in ClaimableEpochs(c) THEN Share(e, c) ELSE 0,
         \A e \in Epochs : f[e] \in Nat
  PROVE  PendingEstimate(c) = SumFunctionOnSet(f, Epochs)
<1> DEFINE T == ClaimableEpochs(c)
           g == [e \in T |-> EstimatedShare(e, c)]
<1>1. PendingEstimate(c) = SumFunctionOnSet(g, T)
  BY DEF PendingEstimate, SumFunction
<1>2. T \in SUBSET Epochs /\ c \in CharacterIds
  BY DEF ClaimableEpochs, EpochRows, Created
<1>3. \A e \in T : g[e] = f[e] /\ f[e] \in Nat
  BY <1>2, ShownIsClaimable, EstimateIsShare
<1>4. \A e \in Epochs \ T : f[e] = 0
  OBVIOUS
<1>5. IsFiniteSet(Epochs)
  BY VaultFinite
<1> HIDE DEF T, g
<1>6. IsFiniteSet(T) /\ SumFunctionOnSet(f, T) = SumFunctionOnSet(f, Epochs)
  BY <1>2, <1>4, <1>5, SumSubset
<1>7. SumFunctionOnSet(g, T) = SumFunctionOnSet(f, T)
  BY <1>3, <1>6, SumAgree
<1> QED BY <1>1, <1>6, <1>7

LEMMA EstimatesCovered ==
  ASSUME FeeVaultInv, LedgerInv
  PROVE  SumFunction([c \in Created |-> PendingEstimate(c)]) <= ethBalance
<1> DEFINE due(e, c) == IF e \in ClaimableEpochs(c) THEN Share(e, c) ELSE 0
           f == [c \in Created |-> [e \in Epochs |-> due(e, c)]]
           h == [e \in Epochs |-> [c \in Created |-> due(e, c)]]
           F == [c \in Created |-> PendingEstimate(c)]
           H == [e \in Epochs |-> SumFunctionOnSet(h[e], Created)]
           O == [e \in Epochs |-> Owed(e)]
<1>1. IsFiniteSet(Created) /\ IsFiniteSet(Epochs)
  BY VaultFinite
<1>2. ASSUME NEW e \in Epochs
      PROVE  /\ \A c \in Created : h[e][c] \in Nat
             /\ H[e] \in Nat /\ H[e] <= O[e]
  <2> DEFINE r == h[e]
  <2>1. \A c \in Created : r[c] = IF e \in ClaimableEpochs(c) THEN Share(e, c) ELSE 0
    OBVIOUS
  <2>2. H[e] = SumFunctionOnSet(r, Created) /\ O[e] = Owed(e)
    OBVIOUS
  <2> HIDE DEF r, h, H, O
  <2>3. /\ \A c \in Created : r[c] \in Nat
        /\ SumFunctionOnSet(r, Created) \in Nat
        /\ SumFunctionOnSet(r, Created) <= Owed(e)
    BY <2>1, EpochCovers
  <2> QED BY <2>2, <2>3 DEF r
<1>3. \A c \in Created : \A e \in Epochs : f[c][e] \in Nat /\ h[e][c] = f[c][e]
  <2>1. \A c \in Created : \A e \in Epochs : h[e][c] = f[c][e]
    OBVIOUS
  <2> HIDE DEF f, h
  <2> QED BY <1>2, <2>1
<1>4. ASSUME NEW c \in Created PROVE F[c] = SumFunctionOnSet(f[c], Epochs)
  <2> DEFINE r == f[c]
  <2>1. \A e \in Epochs : r[e] = IF e \in ClaimableEpochs(c) THEN Share(e, c) ELSE 0
    OBVIOUS
  <2>2. F[c] = PendingEstimate(c)
    OBVIOUS
  <2> HIDE DEF f, F
  <2>3. \A e \in Epochs : r[e] \in Nat
    BY <1>3
  <2> HIDE DEF r
  <2>4. PendingEstimate(c) = SumFunctionOnSet(r, Epochs)
    BY <2>1, <2>3, PendingSum
  <2> QED BY <2>2, <2>4 DEF r
<1>5. \A e \in Epochs : H[e] = SumFunctionOnSet(h[e], Created)
  OBVIOUS
<1>6. SumFunction(F) = SumFunctionOnSet(F, Created)
  BY DEF SumFunction
<1>7. ethBalance = SumFunctionOnSet(O, Epochs)
  BY DEF LedgerInv, VaultBacksClaims, SumFunction
<1>8. \A e \in Epochs : O[e] \in Nat
  BY OwedNat
<1> HIDE DEF f, h, F, H, O
<1>9. SumFunctionOnSet(F, Created) = SumFunctionOnSet(H, Epochs)
  <2> DEFINE S == Created
             T == Epochs
  <2>1. IsFiniteSet(S) /\ IsFiniteSet(T)
    BY <1>1
  <2>2. \A c \in S : \A e \in T : f[c][e] \in Nat /\ h[e][c] = f[c][e]
    BY <1>3
  <2>3. \A c \in S : F[c] = SumFunctionOnSet(f[c], T)
    BY <1>4
  <2>4. \A e \in T : H[e] = SumFunctionOnSet(h[e], S)
    BY <1>5
  <2> HIDE DEF S, T
  <2>5. RowsAndColumns(S, T, f, h, F, H)
    BY <2>1, <2>2, <2>3, <2>4 DEF RowsAndColumns
  <2> QED BY <2>5, SumSwap DEF S, T
<1>10. SumFunctionOnSet(H, Epochs) <= SumFunctionOnSet(O, Epochs)
  <2>1. \A e \in Epochs : H[e] \in Nat /\ O[e] \in Nat /\ H[e] <= O[e]
    BY <1>2, <1>8
  <2> QED BY <1>1, <2>1, SumMonotone
<1> QED BY <1>6, <1>7, <1>9, <1>10 DEF F

\* An epoch the agent API shows as claimable is one the contract pays for, and the
\* vault holds what all characters were told they can expect (getClaimableEpochs,
\* getClaimMeta).
THEOREM AlwaysClaimsShown == FeeVaultSpec => []ClaimsShown
<1>1. FeeVaultInv /\ LedgerInv => ClaimsShown
  <2> SUFFICES ASSUME FeeVaultInv, LedgerInv PROVE ClaimsShown
    OBVIOUS
  <2>1. \A c \in CharacterIds :
          ClaimableEpochs(c) = {e \in Epochs : Eligible(e, c) /\ Unclaimed(e, c)}
    <3>1. \A c \in CharacterIds : ClaimableEpochs(c) \subseteq Epochs
      BY DEF ClaimableEpochs, EpochRows
    <3> QED BY <3>1, ShownIsClaimable
  <2> QED BY <2>1, EstimatesCovered DEF ClaimsShown
<1> QED BY <1>1, LedgerInvariant, PTL

=============================================================================
