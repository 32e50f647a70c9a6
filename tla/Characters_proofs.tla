-------------------------- MODULE Characters_proofs --------------------------
(***************************************************************************)
(* The invariants of the character registry, for any number of players and *)
(* characters. The histogram's exactness is what makes the others          *)
(* inductive: the bucket a level-up decrements is not empty only because   *)
(* the character leaving it was counted there.                             *)
(***************************************************************************)
EXTENDS Characters, FiniteSetTheorems, TLAPS

\* A character has a level exactly when it exists.
LevelledFromBirth ==
  \A c \in CharacterIds : Exists(c) <=> bestLevel[c] > 0

\* The inductive invariant.
CharactersInv ==
  /\ CharactersTypeOK
  /\ LevelledFromBirth
  /\ HistogramExact
  /\ MaxLevelIsTop
  /\ CountersExact

-----------------------------------------------------------------------------
(* Counting lemmas                                                         *)

\* One new element makes a finite set one larger.
LEMMA GrowsByOne ==
  ASSUME NEW S, NEW T, NEW x, IsFiniteSet(S), x \notin S, T = S \cup {x}
  PROVE  IsFiniteSet(T) /\ Cardinality(T) = Cardinality(S) + 1
  BY FS_AddElement

\* One element less makes a finite set one smaller, and it was not empty.
LEMMA ShrinksByOne ==
  ASSUME NEW S, NEW T, NEW x, IsFiniteSet(S), x \in S, T = S \ {x}
  PROVE  /\ Cardinality(T) = Cardinality(S) - 1
         /\ Cardinality(S) \in Nat \ {0}
  BY FS_RemoveElement, FS_CardinalityType, FS_EmptySet

\* The sets the registry counts are finite.
LEMMA RegistryFinite ==
  ASSUME NEW S, S \subseteq CharacterIds
  PROVE  IsFiniteSet(S) /\ Cardinality(S) \in Nat
  <1>1. IsFiniteSet(CharacterIds)
    BY FS_Interval, CharactersAssumption DEF CharacterIds
  <1> QED BY <1>1, FS_Subset, FS_CardinalityType

-----------------------------------------------------------------------------

\* The initial state: no character, all counters at zero.
LEMMA CharactersInitInv == CharactersInit => CharactersInv
  <1> SUFFICES ASSUME CharactersInit PROVE CharactersInv
    OBVIOUS
  <1> USE CharactersAssumption DEF CharactersInit
  <1>1. Created = {} /\ \A p \in Players : OwnedBy(p) = {}
    BY DEF Created, Exists, OwnedBy
  <1>2. \A l \in Levels : AtLevel(l) = {}
    BY <1>1 DEF AtLevel
  <1>3. Cardinality({}) = 0
    BY FS_EmptySet
  <1>4. CharactersTypeOK
    BY DEF CharactersTypeOK, Epochs, Levels, CharacterIds
  <1>5. LevelledFromBirth
    BY DEF LevelledFromBirth, Exists
  <1>6. HistogramExact
    BY <1>2, <1>3 DEF HistogramExact
  <1>7. MaxLevelIsTop
    BY <1>1 DEF MaxLevelIsTop
  <1>8. CountersExact
    BY <1>1, <1>3 DEF CountersExact
  <1> QED BY <1>4, <1>5, <1>6, <1>7, <1>8 DEF CharactersInv

\* A creation adds one character to bucket 1, to the total and to its owner.
LEMMA CreateCharacterInv ==
  ASSUME CharactersInv, NEW p \in Players, CreateCharacter(p)
  PROVE  CharactersInv'
  <1> DEFINE c == nextCharacterId
  <1> USE CharactersAssumption DEF CharactersInv
  <1>1. c \in CharacterIds /\ c \notin Created /\ owner[c] = NoOwner
    <2>1. c \in CharacterIds
      BY DEF CreateCharacter, CharacterIds, CharactersTypeOK
    <2>2. c \notin Created
      <3>1. Created = 1..(c - 1) /\ c \in Int
        BY DEF CountersExact, CharactersTypeOK
      <3> QED BY <3>1
    <2> QED BY <2>1, <2>2 DEF Created, Exists
  <1>2. \A d \in CharacterIds : /\ owner'[d] = IF d = c THEN p ELSE owner[d]
                                /\ bestLevel'[d] = IF d = c THEN 1 ELSE bestLevel[d]
    BY <1>1 DEF CreateCharacter, CharactersTypeOK
  <1>3. Created' = Created \cup {c}
    BY <1>1, <1>2 DEF Created, Exists
  <1>4. CharactersTypeOK'
    BY <1>1 DEF CreateCharacter, CharactersTypeOK, Levels, CharacterIds
  <1>5. LevelledFromBirth'
    BY <1>1, <1>2 DEF LevelledFromBirth, Exists, CreateCharacter
  <1>6. HistogramExact'
    <2> SUFFICES ASSUME NEW l \in Levels
                 PROVE  countAtLevel'[l] = Cardinality(AtLevel(l)')
      BY DEF HistogramExact
    <2>1. countAtLevel[l] = Cardinality(AtLevel(l)) /\ IsFiniteSet(AtLevel(l))
      BY RegistryFinite DEF HistogramExact, AtLevel, Created
    <2>2. CASE l = 1
      <3>1. AtLevel(l)' = AtLevel(l) \cup {c} /\ c \notin AtLevel(l)
        BY <1>1, <1>2, <1>3, <2>2 DEF AtLevel, Created
      <3>2. countAtLevel'[l] = countAtLevel[l] + 1
        BY <2>2 DEF CreateCharacter, CharactersTypeOK
      <3> QED BY <2>1, <3>1, <3>2, GrowsByOne
    <2>3. CASE l # 1
      <3>1. AtLevel(l)' = AtLevel(l)
        BY <1>1, <1>2, <1>3, <2>3 DEF AtLevel, Created
      <3>2. countAtLevel'[l] = countAtLevel[l]
        BY <2>3 DEF CreateCharacter, CharactersTypeOK
      <3> QED BY <2>1, <3>1, <3>2
    <2> QED BY <2>2, <2>3
  <1>7. MaxLevelIsTop'
    <2>1. \A d \in Created : bestLevel[d] \in Nat /\ bestLevel[d] > 0
      BY DEF LevelledFromBirth, Created, CharactersTypeOK
    <2>2. maxLevel' = IF maxLevel < 1 THEN 1 ELSE maxLevel
      BY DEF CreateCharacter
    <2>3. maxLevel \in Nat
      BY DEF CharactersTypeOK
    <2>4. CASE maxLevel = 0
      BY <1>1, <1>2, <1>3, <2>1, <2>2, <2>4 DEF MaxLevelIsTop, Created
    <2>5. CASE maxLevel > 0
      <3>1. PICK d \in Created : bestLevel[d] = maxLevel
        BY <2>5 DEF MaxLevelIsTop
      <3>2. maxLevel' = maxLevel /\ maxLevel >= 1
        BY <2>2, <2>3, <2>5
      <3>3. \A k \in Created : bestLevel'[k] = bestLevel[k]
        BY <1>1, <1>2 DEF Created
      <3> QED BY <1>1, <1>2, <1>3, <3>1, <3>2, <3>3 DEF MaxLevelIsTop
    <2> QED BY <2>3, <2>4, <2>5
  <1>8. CountersExact'
    <2>1. Created' = 1..(nextCharacterId' - 1)
      <3>1. PICK n \in 1..(MaxCharacters + 1) : n = nextCharacterId
        BY DEF CharactersTypeOK
      <3>2. Created = 1..(n - 1) /\ nextCharacterId' = n + 1
        BY <3>1 DEF CountersExact, CreateCharacter
      <3>3. (1..(n - 1)) \cup {n} = 1..n
        BY <3>1
      <3> QED BY <1>3, <3>1, <3>2, <3>3
    <2>2. totalCharacters' = Cardinality(Created')
      <3>1. IsFiniteSet(Created)
        BY RegistryFinite DEF Created
      <3> QED BY <1>1, <1>3, <3>1, GrowsByOne DEF CreateCharacter, CountersExact
    <2>3. ASSUME NEW q \in Players
          PROVE  ownerCharacterCount'[q] = Cardinality(OwnedBy(q)')
      <3>1. IsFiniteSet(OwnedBy(q)) /\ ownerCharacterCount[q] = Cardinality(OwnedBy(q))
        BY RegistryFinite DEF OwnedBy, CountersExact
      <3>2. CASE q = p
        <4>1. OwnedBy(q)' = OwnedBy(q) \cup {c} /\ c \notin OwnedBy(q)
          BY <1>1, <1>2, <3>2 DEF OwnedBy
        <4>2. ownerCharacterCount'[q] = ownerCharacterCount[q] + 1
          BY <3>2 DEF CreateCharacter, CharactersTypeOK
        <4> QED BY <3>1, <4>1, <4>2, GrowsByOne
      <3>3. CASE q # p
        <4>1. OwnedBy(q)' = OwnedBy(q)
          BY <1>1, <1>2, <3>3 DEF OwnedBy
        <4>2. ownerCharacterCount'[q] = ownerCharacterCount[q]
          BY <3>3 DEF CreateCharacter, CharactersTypeOK
        <4> QED BY <3>1, <4>1, <4>2
      <3> QED BY <3>2, <3>3
    <2> QED BY <2>1, <2>2, <2>3 DEF CountersExact
  <1> QED BY <1>4, <1>5, <1>6, <1>7, <1>8

\* A level-up moves one character between two buckets.
LEMMA LevelUpInv ==
  ASSUME CharactersInv, NEW c \in CharacterIds, LevelUp(c)
  PROVE  CharactersInv'
  <1> USE CharactersAssumption DEF CharactersInv
  <1>0. PICK from \in Levels, to \in Levels : from = bestLevel[c] /\ to = from + 1
    BY DEF LevelUp, LevelledFromBirth, CharactersTypeOK, Levels
  <1>1. c \in Created /\ bestLevel[c] = from /\ to = from + 1 /\ from \in Int
    BY <1>0 DEF LevelUp, Created, Levels
  <1>2. \A d \in CharacterIds : bestLevel'[d] = IF d = c THEN to ELSE bestLevel[d]
    BY <1>1 DEF LevelUp, SetBestLevel, CharactersTypeOK
  <1>3. owner' = owner /\ Created' = Created /\ UNCHANGED << epoch, registryVars >>
    BY DEF LevelUp, SetBestLevel, registryVars, Created, Exists
  <1>4. \A l \in Levels : /\ countAtLevel[l] = Cardinality(AtLevel(l))
                          /\ IsFiniteSet(AtLevel(l))
    BY RegistryFinite DEF HistogramExact, AtLevel, Created
  <1>5. AtLevel(from)' = AtLevel(from) \ {c} /\ c \in AtLevel(from)
    BY <1>1, <1>2, <1>3 DEF AtLevel, Created
  <1>6. AtLevel(to)' = AtLevel(to) \cup {c} /\ c \notin AtLevel(to)
    BY <1>1, <1>2, <1>3 DEF AtLevel, Created
  <1>7. countAtLevel[from] \in Nat \ {0}
    BY <1>1, <1>4, <1>5, ShrinksByOne
  <1>8. countAtLevel' = MovedInHistogram(from, to) /\ maxLevel' = RaisedMaxLevel(to)
    BY <1>1 DEF LevelUp, SetBestLevel
  <1>9. CharactersTypeOK'
    <2>1. countAtLevel' \in [Levels -> Nat]
      BY <1>1, <1>7, <1>8 DEF MovedInHistogram, CharactersTypeOK, Levels
    <2>2. maxLevel' \in 0..LevelCap
      BY <1>1, <1>8 DEF RaisedMaxLevel, CharactersTypeOK, Levels
    <2>3. bestLevel' \in [CharacterIds -> 0..LevelCap]
      BY <1>0 DEF LevelUp, SetBestLevel, CharactersTypeOK, Levels
    <2>4. lastLevelUpEpoch' \in [CharacterIds -> Epochs]
      BY DEF LevelUp, SetBestLevel, CharactersTypeOK
    <2> QED BY <1>3, <2>1, <2>2, <2>3, <2>4 DEF CharactersTypeOK, registryVars
  <1>10. LevelledFromBirth'
    BY <1>1, <1>2, <1>3 DEF LevelledFromBirth, Exists, Levels, Created
  <1>11. HistogramExact'
    <2> SUFFICES ASSUME NEW l \in Levels
                 PROVE  countAtLevel'[l] = Cardinality(AtLevel(l)')
      BY DEF HistogramExact
    <2>1. CASE l = from
      <3>1. countAtLevel'[l] = countAtLevel[l] - 1
        BY <1>1, <1>8, <2>1 DEF MovedInHistogram, CharactersTypeOK, Levels
      <3> QED BY <1>4, <1>5, <2>1, <3>1, ShrinksByOne
    <2>2. CASE l = to
      <3>1. countAtLevel'[l] = countAtLevel[l] + 1
        BY <1>1, <1>8, <2>2 DEF MovedInHistogram, CharactersTypeOK, Levels
      <3> QED BY <1>4, <1>6, <2>2, <3>1, GrowsByOne
    <2>3. CASE l # from /\ l # to
      <3>1. countAtLevel'[l] = countAtLevel[l]
        BY <1>1, <1>8, <2>3 DEF MovedInHistogram, CharactersTypeOK, Levels
      <3>2. AtLevel(l)' = AtLevel(l)
        BY <1>1, <1>2, <1>3, <2>3 DEF AtLevel, Created
      <3> QED BY <1>4, <3>1, <3>2
    <2> QED BY <2>1, <2>2, <2>3
  <1>12. MaxLevelIsTop'
    <2>1. \A d \in Created : bestLevel[d] <= maxLevel /\ bestLevel[d] \in Nat
      BY DEF MaxLevelIsTop, CharactersTypeOK, Created
    <2>2. maxLevel \in Nat /\ maxLevel' = IF to > maxLevel THEN to ELSE maxLevel
      BY <1>8 DEF RaisedMaxLevel, CharactersTypeOK
    <2>3. \A d \in Created : bestLevel'[d] <= maxLevel'
      BY <1>1, <1>2, <2>1, <2>2 DEF Created, Levels
    <2>4. \E d \in Created : bestLevel'[d] = maxLevel'
      <3>1. CASE to > maxLevel
        BY <1>1, <1>2, <2>2, <3>1 DEF Created
      <3>2. CASE ~(to > maxLevel)
        <4>1. PICK d \in Created : bestLevel[d] = maxLevel
          <5>1. maxLevel > 0
            BY <1>1, <2>1, <2>2 DEF LevelledFromBirth, Created
          <5> QED BY <5>1 DEF MaxLevelIsTop
        <4>2. d # c
          BY <1>1, <2>2, <3>2, <4>1 DEF Levels
        <4> QED BY <1>2, <2>2, <3>2, <4>1, <4>2 DEF Created
      <3> QED BY <3>1, <3>2
    <2> QED BY <1>3, <2>3, <2>4 DEF MaxLevelIsTop
  <1>13. CountersExact'
    BY <1>3 DEF CountersExact, registryVars, OwnedBy
  <1> QED BY <1>9, <1>10, <1>11, <1>12, <1>13

\* What happens to the clock alone, or to nothing, counts nothing anew.
LEMMA AdvanceEpochInv ==
  ASSUME CharactersInv, AdvanceEpoch \/ UNCHANGED characterVars
  PROVE  CharactersInv'
  <1>1. UNCHANGED << registryVars, levelVars >>
    BY DEF AdvanceEpoch, characterVars
  <1>2. epoch' \in Epochs
    BY CharactersAssumption
    DEF CharactersInv, CharactersTypeOK, AdvanceEpoch, characterVars, Epochs
  <1>3. Created' = Created /\ \A p \in Players : OwnedBy(p)' = OwnedBy(p)
    BY <1>1 DEF registryVars, Created, Exists, OwnedBy
  <1>4. \A l \in Levels : AtLevel(l)' = AtLevel(l)
    BY <1>1, <1>3 DEF AtLevel, levelVars
  <1>5. CharactersTypeOK' /\ LevelledFromBirth'
    BY <1>1, <1>2 DEF CharactersInv, CharactersTypeOK, LevelledFromBirth, Exists,
                      registryVars, levelVars
  <1>6. HistogramExact'
    BY <1>1, <1>4 DEF CharactersInv, HistogramExact, levelVars
  <1>7. MaxLevelIsTop'
    BY <1>1, <1>3 DEF CharactersInv, MaxLevelIsTop, levelVars
  <1>8. CountersExact'
    BY <1>1, <1>3 DEF CharactersInv, CountersExact, registryVars
  <1> QED BY <1>5, <1>6, <1>7, <1>8 DEF CharactersInv

\* Every step of the registry preserves the invariant.
LEMMA CharactersNextInv ==
  CharactersInv /\ [CharactersNext]_characterVars => CharactersInv'
  BY CreateCharacterInv, LevelUpInv, AdvanceEpochInv DEF CharactersNext

\* The registry never leaves the invariant (createCharacter, _setBestLevel).
THEOREM CharactersInvariant == CharactersSpec => []CharactersInv
  BY CharactersInitInv, CharactersNextInv, PTL DEF CharactersSpec

\* Every registry variable keeps its type; in particular no histogram bucket
\* that _setBestLevel decrements goes below zero.
THEOREM CharactersTyped == CharactersSpec => []CharactersTypeOK
  BY CharactersInvariant, PTL DEF CharactersInv

\* The histogram maintained by deltas is always the exact count.
THEOREM HistogramAlwaysExact == CharactersSpec => []HistogramExact
  BY CharactersInvariant, PTL DEF CharactersInv

\* maxLevel is always the level of some character and of none above.
THEOREM MaxLevelAlwaysTop == CharactersSpec => []MaxLevelIsTop
  BY CharactersInvariant, PTL DEF CharactersInv

\* The total and the wallet counters always agree with the records.
THEOREM CountersAlwaysExact == CharactersSpec => []CountersExact
  BY CharactersInvariant, PTL DEF CharactersInv

\* The whole registry always agrees with the records (createCharacter,
\* _setBestLevel).
THEOREM RegistryAlwaysExact == CharactersSpec => []RegistryExact
  BY HistogramAlwaysExact, MaxLevelAlwaysTop, CountersAlwaysExact, PTL DEF RegistryExact

=============================================================================
