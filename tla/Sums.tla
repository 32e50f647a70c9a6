-------------------------------- MODULE Sums --------------------------------
(***************************************************************************)
(* What the sums of the community modules do, for the theorems about       *)
(* pooled balances. They are folds, hence recursive functions; that such a *)
(* function exists and does not depend on the order of the elements is     *)
(* shown by counting: the sum of f over S is the number of pairs <<x, k>>  *)
(* with x in S and k in 1..f[x].                                           *)
(***************************************************************************)
EXTENDS Integers, Functions, FiniteSets, FiniteSetTheorems, TLAPS

\* The pairs counted: a column of f[x] of them above each x of s.
Column(f, x)  == {x} \X (1..f[x])
Columns(f, s) == UNION {Column(f, x) : x \in s}
Count(f, s)   == Cardinality(Columns(f, s))

\* A set of subsets of a finite set has a smallest member: induction over
\* finite sets in the form that needs no predicate for a parameter.
LEMMA SmallestSubset ==
  ASSUME NEW S, IsFiniteSet(S), NEW T, T \subseteq SUBSET S, T # {}
  PROVE  \E s \in T : \A t \in T : ~(t \subseteq s /\ t # s)
<1>1. IsWellFoundedOn(StrictSubsetOrdering(S), SUBSET S)
  BY FS_StrictSubsetOrderingWellFounded, FS_FiniteSubsetsOfFinite
<1>2. PICK s \in T : \A t \in T : ~(<<t, s>> \in StrictSubsetOrdering(S))
  BY <1>1, WFMin
<1>3. \A t \in T : ~(t \subseteq s /\ t # s)
  BY <1>2 DEF StrictSubsetOrdering
<1> WITNESS s \in T
<1> QED BY <1>3

\* The column above x has f[x] pairs.
LEMMA ColumnCounted ==
  ASSUME NEW f, NEW x, f[x] \in Nat
  PROVE  IsFiniteSet(Column(f, x)) /\ Cardinality(Column(f, x)) = f[x]
<1>1. IsFiniteSet(1..f[x]) /\ Cardinality(1..f[x]) = f[x]
  BY FS_Interval
<1>2. IsFiniteSet({x}) /\ Cardinality({x}) = 1
  BY FS_Singleton
<1>3. IsFiniteSet({x} \X (1..f[x])) /\ Cardinality({x} \X (1..f[x])) = 1 * f[x]
  BY <1>1, <1>2, FS_Product
<1> QED BY <1>3 DEF Column

\* Taking x out of the set takes its column away.
LEMMA ColumnsSplit ==
  ASSUME NEW f, NEW S, NEW x \in S
  PROVE  /\ Columns(f, S) = Columns(f, S \ {x}) \cup Column(f, x)
         /\ Columns(f, S \ {x}) \cap Column(f, x) = {}
  BY DEF Columns, Column

\* Over a finite set there are finitely many pairs.
LEMMA ColumnsFinite ==
  ASSUME NEW S, IsFiniteSet(S), NEW f, \A x \in S : f[x] \in Nat
  PROVE  IsFiniteSet(Columns(f, S))
<1> DEFINE bad == {s \in SUBSET S : ~IsFiniteSet(Columns(f, s))}
<1>1. SUFFICES bad = {}
  OBVIOUS
<1>2. SUFFICES ASSUME bad # {} PROVE FALSE
  OBVIOUS
<1>3. PICK s \in bad : \A t \in bad : ~(t \subseteq s /\ t # s)
  <2>1. bad \subseteq SUBSET S
    OBVIOUS
  <2> HIDE DEF bad
  <2> QED BY <1>2, <2>1, SmallestSubset
<1>4. s # {}
  BY <1>3, FS_EmptySet DEF Columns
<1>5. PICK x : x \in s
  BY <1>4
<1>6. IsFiniteSet(Columns(f, s \ {x}))
  BY <1>3, <1>5
<1>7. IsFiniteSet(Column(f, x))
  BY <1>3, <1>5, ColumnCounted
<1>8. Columns(f, s) = Columns(f, s \ {x}) \cup Column(f, x)
  BY <1>5, ColumnsSplit
<1>9. IsFiniteSet(Columns(f, s \ {x}) \cup Column(f, x))
  BY <1>6, <1>7, FS_Union
<1> QED BY <1>3, <1>8, <1>9

\* One element less in the set takes f[x] pairs away.
LEMMA CountStep ==
  ASSUME NEW S, IsFiniteSet(S), NEW f, \A x \in S : f[x] \in Nat, NEW x \in S
  PROVE  /\ Count(f, S \ {x}) \in Nat
         /\ Count(f, S) = f[x] + Count(f, S \ {x})
<1>1. IsFiniteSet(S \ {x})
  BY FS_RemoveElement
<1>2. IsFiniteSet(Columns(f, S \ {x}))
  BY <1>1, ColumnsFinite
<1>3. IsFiniteSet(Column(f, x)) /\ Cardinality(Column(f, x)) = f[x]
  BY ColumnCounted
<1>4. Cardinality(Columns(f, S \ {x}) \cap Column(f, x)) = 0
  BY ColumnsSplit, FS_EmptySet
<1>5. Cardinality(Columns(f, S \ {x})) \in Nat
  BY <1>2, FS_CardinalityType
<1>6. Columns(f, S) = Columns(f, S \ {x}) \cup Column(f, x)
  BY ColumnsSplit
<1>7. Cardinality(Columns(f, S)) = Cardinality(Columns(f, S \ {x})) + f[x] - 0
  BY <1>2, <1>3, <1>4, <1>6, FS_Union
<1> QED BY <1>5, <1>7 DEF Count

\* The fold is the count.
LEMMA SumIsCount ==
  ASSUME NEW S, IsFiniteSet(S), NEW f, \A x \in S : f[x] \in Nat
  PROVE  SumFunctionOnSet(f, S) = Count(f, S)
<1> DEFINE Body(g, s) == IF s = {} THEN 0
                         ELSE LET x == CHOOSE x \in s : TRUE IN f[x] + g[s \ {x}]
           Folds(g) == g = [s \in SUBSET S |-> Body(g, s)]
           iter == CHOOSE g : Folds(g)
           count == [s \in SUBSET S |-> Count(f, s)]
<1>1. Folds(count)
  <2>1. ASSUME NEW s \in SUBSET S PROVE count[s] = Body(count, s)
    <3>1. CASE s = {}
      BY <3>1, FS_EmptySet DEF Count, Columns
    <3>2. CASE s # {}
      <4> DEFINE x == CHOOSE x \in s : TRUE
      <4>1. x \in s
        BY <3>2
      <4>2. IsFiniteSet(s)
        BY FS_Subset
      <4>3. Count(f, s) = f[x] + Count(f, s \ {x})
        BY <4>1, <4>2, CountStep
      <4> QED BY <3>2, <4>1, <4>3
    <3> QED BY <3>1, <3>2
  <2> QED BY <2>1
<1>2. Folds(iter)
  BY <1>1
<1>3. iter = count
  <2> DEFINE bad == {s \in SUBSET S : iter[s] # count[s]}
  <2>1. SUFFICES bad = {}
    BY <1>2
  <2>2. SUFFICES ASSUME bad # {} PROVE FALSE
    OBVIOUS
  <2>3. PICK s \in bad : \A t \in bad : ~(t \subseteq s /\ t # s)
    <3>1. bad \subseteq SUBSET S
      OBVIOUS
    <3> HIDE DEF bad
    <3> QED BY <2>2, <3>1, SmallestSubset
  <2>4. iter[s] = Body(iter, s) /\ count[s] = Body(count, s)
    BY <1>1, <1>2, <2>3
  <2>5. s # {}
    BY <2>3, <2>4
  <2> DEFINE x == CHOOSE x \in s : TRUE
  <2>6. x \in s
    BY <2>5
  <2>7. s \ {x} \in SUBSET S /\ s \ {x} \subseteq s /\ s \ {x} # s
    BY <2>3, <2>6
  <2>8. iter[s \ {x}] = count[s \ {x}]
    BY <2>3, <2>7
  <2>9. iter[s] = count[s]
    BY <2>4, <2>5, <2>8
  <2> QED BY <2>3, <2>9
<1>4. SumFunctionOnSet(f, S) = iter[S]
  BY DEF SumFunctionOnSet, FoldFunctionOnSet, MapThenFoldSet
<1> QED BY <1>3, <1>4

-----------------------------------------------------------------------------
(* The laws of sums                                                        *)

\* A sum of natural numbers is one.
LEMMA SumNat ==
  ASSUME NEW S, IsFiniteSet(S), NEW f, \A x \in S : f[x] \in Nat
  PROVE  SumFunctionOnSet(f, S) \in Nat
  BY SumIsCount, ColumnsFinite, FS_CardinalityType DEF Count

\* Nothing to add is nothing.
LEMMA SumEmpty ==
  ASSUME NEW f
  PROVE  SumFunctionOnSet(f, {}) = 0
<1>1. Columns(f, {}) = {}
  BY DEF Columns
<1> QED BY <1>1, SumIsCount, FS_EmptySet DEF Count

\* The sum may be taken apart at any element.
LEMMA SumStep ==
  ASSUME NEW S, IsFiniteSet(S), NEW f, \A x \in S : f[x] \in Nat, NEW x \in S
  PROVE  /\ IsFiniteSet(S \ {x})
         /\ SumFunctionOnSet(f, S \ {x}) \in Nat
         /\ SumFunctionOnSet(f, S) = f[x] + SumFunctionOnSet(f, S \ {x})
<1>1. IsFiniteSet(S \ {x})
  BY FS_RemoveElement
<1>2. SumFunctionOnSet(f, S \ {x}) = Count(f, S \ {x})
  BY <1>1, SumIsCount
<1>3. SumFunctionOnSet(f, S) = Count(f, S)
  BY SumIsCount
<1> QED BY <1>1, <1>2, <1>3, CountStep

\* Only the values on the set matter.
LEMMA SumAgree ==
  ASSUME NEW S, IsFiniteSet(S), NEW f, NEW g, \A x \in S : f[x] \in Nat /\ g[x] = f[x]
  PROVE  SumFunctionOnSet(g, S) = SumFunctionOnSet(f, S)
<1>1. Columns(g, S) = Columns(f, S)
  BY DEF Columns, Column
<1>2. \A x \in S : g[x] \in Nat
  OBVIOUS
<1> QED BY <1>1, <1>2, SumIsCount DEF Count

\* A change of one value changes the sum by as much.
LEMMA SumChange ==
  ASSUME NEW S, IsFiniteSet(S), NEW f, NEW g, NEW a \in S,
         \A x \in S : f[x] \in Nat /\ g[x] \in Nat,
         \A x \in S \ {a} : g[x] = f[x]
  PROVE  SumFunctionOnSet(g, S) = SumFunctionOnSet(f, S) - f[a] + g[a]
<1>1. /\ IsFiniteSet(S \ {a})
      /\ SumFunctionOnSet(f, S \ {a}) \in Nat
      /\ SumFunctionOnSet(f, S) = f[a] + SumFunctionOnSet(f, S \ {a})
  BY SumStep
<1>2. SumFunctionOnSet(g, S) = g[a] + SumFunctionOnSet(g, S \ {a})
  BY SumStep
<1>3. SumFunctionOnSet(g, S \ {a}) = SumFunctionOnSet(f, S \ {a})
  BY <1>1, SumAgree
<1> QED BY <1>1, <1>2, <1>3

\* A change of two.
LEMMA SumChangeTwo ==
  ASSUME NEW S, IsFiniteSet(S), NEW f, NEW g, NEW a \in S, NEW b \in S, a # b,
         \A x \in S : f[x] \in Nat /\ g[x] \in Nat,
         \A x \in S \ {a, b} : g[x] = f[x]
  PROVE  SumFunctionOnSet(g, S) = SumFunctionOnSet(f, S) - f[a] + g[a] - f[b] + g[b]
<1>1. /\ IsFiniteSet(S \ {a})
      /\ SumFunctionOnSet(f, S \ {a}) \in Nat
      /\ SumFunctionOnSet(f, S) = f[a] + SumFunctionOnSet(f, S \ {a})
  BY SumStep
<1>2. SumFunctionOnSet(g, S) = g[a] + SumFunctionOnSet(g, S \ {a})
  BY SumStep
<1>3. SumFunctionOnSet(g, S \ {a}) = SumFunctionOnSet(f, S \ {a}) - f[b] + g[b]
  <2>1. b \in S \ {a} /\ \A x \in (S \ {a}) \ {b} : g[x] = f[x]
    OBVIOUS
  <2>2. \A x \in S \ {a} : f[x] \in Nat /\ g[x] \in Nat
    OBVIOUS
  <2> QED BY <1>1, <2>1, <2>2, SumChange
<1> QED BY <1>1, <1>2, <1>3

\* Larger values make a larger sum.
LEMMA SumMonotone ==
  ASSUME NEW S, IsFiniteSet(S), NEW f, NEW g,
         \A x \in S : f[x] \in Nat /\ g[x] \in Nat /\ f[x] <= g[x]
  PROVE  SumFunctionOnSet(f, S) <= SumFunctionOnSet(g, S)
<1>1. Columns(f, S) \subseteq Columns(g, S)
  <2>1. \A x \in S : Column(f, x) \subseteq Column(g, x)
    BY DEF Column
  <2> QED BY <2>1 DEF Columns
<1>2. Cardinality(Columns(f, S)) <= Cardinality(Columns(g, S))
  BY <1>1, ColumnsFinite, FS_Subset
<1> QED BY <1>2, SumIsCount DEF Count

\* So does a larger set, and elements of value zero do not count.
LEMMA SumSubset ==
  ASSUME NEW S, IsFiniteSet(S), NEW f, \A x \in S : f[x] \in Nat, NEW T \in SUBSET S
  PROVE  /\ IsFiniteSet(T)
         /\ SumFunctionOnSet(f, T) <= SumFunctionOnSet(f, S)
         /\ (\A x \in S \ T : f[x] = 0) => SumFunctionOnSet(f, T) = SumFunctionOnSet(f, S)
<1>1. IsFiniteSet(T)
  BY FS_Subset
<1>2. Columns(f, T) \subseteq Columns(f, S)
  BY DEF Columns
<1>3. Cardinality(Columns(f, T)) <= Cardinality(Columns(f, S))
  BY <1>2, ColumnsFinite, FS_Subset
<1>4. ASSUME \A x \in S \ T : f[x] = 0 PROVE Columns(f, T) = Columns(f, S)
  <2>1. \A x \in S \ T : Column(f, x) = {}
    BY <1>4 DEF Column
  <2> QED BY <1>2, <2>1 DEF Columns
<1> QED BY <1>1, <1>3, <1>4, SumIsCount DEF Count

\* An element added to the set.
LEMMA SumAddElement ==
  ASSUME NEW S, IsFiniteSet(S), NEW a, a \notin S, NEW f, \A x \in S \cup {a} : f[x] \in Nat
  PROVE  /\ IsFiniteSet(S \cup {a})
         /\ SumFunctionOnSet(f, S \cup {a}) = SumFunctionOnSet(f, S) + f[a]
<1>1. IsFiniteSet(S \cup {a})
  BY FS_AddElement
<1>2. (S \cup {a}) \ {a} = S /\ a \in S \cup {a}
  OBVIOUS
<1>3. /\ SumFunctionOnSet(f, S) \in Nat
      /\ SumFunctionOnSet(f, S \cup {a}) = f[a] + SumFunctionOnSet(f, S)
  <2> DEFINE U == S \cup {a}
  <2>1. IsFiniteSet(U) /\ a \in U /\ (\A x \in U : f[x] \in Nat) /\ U \ {a} = S
    BY <1>1, <1>2
  <2> HIDE DEF U
  <2>2. SumFunctionOnSet(f, U \ {a}) \in Nat /\ SumFunctionOnSet(f, U) = f[a] + SumFunctionOnSet(f, U \ {a})
    BY <2>1, SumStep
  <2> QED BY <2>1, <2>2 DEF U
<1> QED BY <1>1, <1>3

\* Equal values make a product.
LEMMA SumConstant ==
  ASSUME NEW S, IsFiniteSet(S), NEW k \in Nat, NEW f, \A x \in S : f[x] = k
  PROVE  SumFunctionOnSet(f, S) = Cardinality(S) * k
<1>1. Columns(f, S) = S \X (1..k)
  BY DEF Columns, Column
<1>2. IsFiniteSet(1..k) /\ Cardinality(1..k) = k
  BY FS_Interval
<1>3. Cardinality(S \X (1..k)) = Cardinality(S) * k
  BY <1>2, FS_Product
<1> QED BY <1>1, <1>3, SumIsCount DEF Count

\* What one account pays and another receives leaves the sum of all accounts
\* as it was.
LEMMA SumTransfer ==
  ASSUME NEW S, IsFiniteSet(S), NEW f \in [S -> Nat], NEW g \in [S -> Nat],
         NEW a \in S, NEW b \in S, a # b, NEW k \in Nat,
         g[a] = f[a] - k, g[b] = f[b] + k, \A x \in S \ {a, b} : g[x] = f[x]
  PROVE  SumFunctionOnSet(g, S) = SumFunctionOnSet(f, S)
<1>1. \A x \in S : f[x] \in Nat /\ g[x] \in Nat
  OBVIOUS
<1>2. SumFunctionOnSet(g, S) = SumFunctionOnSet(f, S) - f[a] + g[a] - f[b] + g[b]
  BY <1>1, SumChangeTwo
<1>3. SumFunctionOnSet(f, S) \in Nat
  BY <1>1, SumNat
<1> QED BY <1>1, <1>2, <1>3

\* Sums add up.
LEMMA SumOfSums ==
  ASSUME NEW S, IsFiniteSet(S), NEW f, NEW g, NEW h,
         \A x \in S : f[x] \in Nat /\ g[x] \in Nat /\ h[x] = f[x] + g[x]
  PROVE  SumFunctionOnSet(h, S) = SumFunctionOnSet(f, S) + SumFunctionOnSet(g, S)
<1> DEFINE Good(s) == SumFunctionOnSet(h, s) = SumFunctionOnSet(f, s) + SumFunctionOnSet(g, s)
           bad == {s \in SUBSET S : ~Good(s)}
<1>0. SUFFICES bad = {}
  <2>1. ASSUME ~Good(S) PROVE S \in bad
    BY <2>1
  <2> HIDE DEF bad
  <2> QED BY <2>1
<1>1. SUFFICES ASSUME bad # {} PROVE FALSE
  OBVIOUS
<1>2. PICK s \in bad : \A t \in bad : ~(t \subseteq s /\ t # s)
  <2>1. bad \subseteq SUBSET S
    OBVIOUS
  <2> HIDE DEF bad
  <2> QED BY <1>1, <2>1, SmallestSubset
<1>3. s # {}
  <2>1. Good({})
    <3>1. SumFunctionOnSet(f, {}) = 0
      BY SumEmpty
    <3>2. SumFunctionOnSet(g, {}) = 0
      BY SumEmpty
    <3>3. SumFunctionOnSet(h, {}) = 0
      BY SumEmpty
    <3> QED BY <3>1, <3>2, <3>3
  <2> QED BY <1>2, <2>1
<1>4. PICK x : x \in s
  BY <1>3
<1>5. Good(s \ {x})
  BY <1>2, <1>4
<1>6. IsFiniteSet(s)
  BY <1>2, FS_Subset
<1>7. \A y \in s : f[y] \in Nat /\ g[y] \in Nat /\ h[y] \in Nat /\ h[y] = f[y] + g[y]
  BY <1>2
<1>8. /\ SumFunctionOnSet(f, s) = f[x] + SumFunctionOnSet(f, s \ {x})
      /\ SumFunctionOnSet(f, s \ {x}) \in Nat
  BY <1>4, <1>6, <1>7, SumStep
<1>9. /\ SumFunctionOnSet(g, s) = g[x] + SumFunctionOnSet(g, s \ {x})
      /\ SumFunctionOnSet(g, s \ {x}) \in Nat
  BY <1>4, <1>6, <1>7, SumStep
<1>10. SumFunctionOnSet(h, s) = h[x] + SumFunctionOnSet(h, s \ {x})
  BY <1>4, <1>6, <1>7, SumStep
<1>11. h[x] = f[x] + g[x] /\ f[x] \in Nat /\ g[x] \in Nat
  BY <1>4, <1>7
<1>12. Good(s)
  BY <1>5, <1>8, <1>9, <1>10, <1>11
<1> QED BY <1>2, <1>12

\* Two disjoint sets add up.
LEMMA SumDisjoint ==
  ASSUME NEW S, IsFiniteSet(S), NEW T, IsFiniteSet(T), S \cap T = {},
         NEW f, \A x \in S \cup T : f[x] \in Nat
  PROVE  /\ IsFiniteSet(S \cup T)
         /\ SumFunctionOnSet(f, S \cup T) = SumFunctionOnSet(f, S) + SumFunctionOnSet(f, T)
<1>1. IsFiniteSet(S \cup T)
  BY FS_Union
<1>2. /\ SumFunctionOnSet(f, S) = Count(f, S) /\ SumFunctionOnSet(f, T) = Count(f, T)
      /\ SumFunctionOnSet(f, S \cup T) = Count(f, S \cup T)
  BY <1>1, SumIsCount
<1>3. IsFiniteSet(Columns(f, S)) /\ IsFiniteSet(Columns(f, T))
  BY ColumnsFinite
<1>4. Columns(f, S \cup T) = Columns(f, S) \cup Columns(f, T)
  BY DEF Columns
<1>5. Columns(f, S) \cap Columns(f, T) = {}
  BY DEF Columns, Column
<1>6. /\ Cardinality(Columns(f, S)) \in Nat /\ Cardinality(Columns(f, T)) \in Nat
      /\ Cardinality(Columns(f, S) \cap Columns(f, T)) = 0
  BY <1>3, <1>5, FS_CardinalityType, FS_EmptySet
<1>7. Cardinality(Columns(f, S) \cup Columns(f, T))
        = Cardinality(Columns(f, S)) + Cardinality(Columns(f, T))
            - Cardinality(Columns(f, S) \cap Columns(f, T))
  BY <1>3, FS_Union
<1>8. /\ Count(f, S) = Cardinality(Columns(f, S)) /\ Count(f, T) = Cardinality(Columns(f, T))
      /\ Count(f, S \cup T) = Cardinality(Columns(f, S) \cup Columns(f, T))
  BY <1>4 DEF Count
<1>9. Count(f, S \cup T) = Count(f, S) + Count(f, T)
  BY <1>6, <1>7, <1>8
<1> QED BY <1>1, <1>2, <1>9

\* Counting twice: with K[l] the members of S in class l, weights summed class
\* by class are the weights of the members.
LEMMA SumByClass ==
  ASSUME NEW S, IsFiniteSet(S), NEW L, IsFiniteSet(L), NEW k, NEW K, NEW w, NEW F, NEW G, NEW U,
         \A l \in L : \A x : x \in K[l] <=> x \in S /\ k[x] = l,
         \A l \in L : w[l] \in Nat /\ F[l] = Cardinality(K[l]) * w[l],
         \A x \in S : k[x] \in L => G[x] = w[k[x]],
         \A x : x \in U <=> x \in S /\ k[x] \in L
  PROVE  SumFunctionOnSet(F, L) = SumFunctionOnSet(G, U)
<1> DEFINE Of(M) == {x \in S : k[x] \in M}
           Good(M) == SumFunctionOnSet(F, M) = SumFunctionOnSet(G, Of(M))
           bad == {M \in SUBSET L : ~Good(M)}
<1>0. SUFFICES bad = {}
  <2>1. U = Of(L)
    OBVIOUS
  <2>2. ASSUME ~Good(L) PROVE L \in bad
    BY <2>2
  <2> HIDE DEF bad
  <2> QED BY <2>1, <2>2
<1>01. ASSUME NEW l \in L
       PROVE  w[l] \in Nat /\ F[l] = Cardinality({x \in S : k[x] = l}) * w[l]
  <2>1. K[l] = {x \in S : k[x] = l}
    OBVIOUS
  <2> QED BY <2>1
<1>1. SUFFICES ASSUME bad # {} PROVE FALSE
  OBVIOUS
<1>2. PICK M \in bad : \A N \in bad : ~(N \subseteq M /\ N # M)
  <2>1. bad \subseteq SUBSET L
    OBVIOUS
  <2> HIDE DEF bad
  <2> QED BY <1>1, <2>1, SmallestSubset
<1>3. M # {}
  <2>1. Of({}) = {}
    OBVIOUS
  <2>2. SumFunctionOnSet(F, {}) = 0
    BY SumEmpty
  <2>3. SumFunctionOnSet(G, {}) = 0
    BY SumEmpty
  <2>4. Good({})
    BY <2>1, <2>2, <2>3
  <2> QED BY <1>2, <2>4
<1>4. PICK l : l \in M
  BY <1>3
<1> DEFINE N == M \ {l}
           C == {x \in S : k[x] = l}
<1>5. Good(N)
  BY <1>2, <1>4
<1>6. IsFiniteSet(M) /\ M \subseteq L
  BY <1>2, FS_Subset
<1>7. IsFiniteSet(Of(N)) /\ IsFiniteSet(C) /\ Cardinality(C) \in Nat
  BY FS_Subset, FS_CardinalityType
<1>8. Of(M) = Of(N) \cup C /\ Of(N) \cap C = {}
  BY <1>4
<1>9. \A x \in M : F[x] \in Nat
  <2>1. ASSUME NEW x \in M PROVE F[x] \in Nat
    <3>1. Cardinality({y \in S : k[y] = x}) \in Nat
      <4>1. {y \in S : k[y] = x} \subseteq S
        OBVIOUS
      <4> QED BY <4>1, FS_Subset, FS_CardinalityType
    <3>2. w[x] \in Nat /\ F[x] = Cardinality({y \in S : k[y] = x}) * w[x]
      BY <1>01, <1>6
    <3> QED BY <3>1, <3>2
  <2> QED BY <2>1
<1>10. /\ SumFunctionOnSet(F, N) \in Nat
       /\ SumFunctionOnSet(F, M) = F[l] + SumFunctionOnSet(F, N)
  BY <1>4, <1>6, <1>9, SumStep
<1>11. \A x \in Of(N) \cup C : G[x] \in Nat
  BY <1>4, <1>6
<1>12. SumFunctionOnSet(G, C) = F[l]
  <2>1. w[l] \in Nat /\ \A x \in C : G[x] = w[l]
    BY <1>4, <1>6
  <2>2. F[l] = Cardinality(C) * w[l]
    BY <1>01, <1>4, <1>6
  <2> HIDE DEF C
  <2>3. SumFunctionOnSet(G, C) = Cardinality(C) * w[l]
    BY <1>7, <2>1, SumConstant
  <2> QED BY <2>2, <2>3
<1>13. SumFunctionOnSet(G, Of(M)) = SumFunctionOnSet(G, Of(N)) + SumFunctionOnSet(G, C)
  <2> DEFINE A == Of(N)
             B == C
  <2>1. IsFiniteSet(A) /\ IsFiniteSet(B) /\ A \cap B = {} /\ \A x \in A \cup B : G[x] \in Nat
    BY <1>7, <1>8, <1>11
  <2> HIDE DEF A, B
  <2>2. SumFunctionOnSet(G, A \cup B) = SumFunctionOnSet(G, A) + SumFunctionOnSet(G, B)
    BY <2>1, SumDisjoint
  <2> QED BY <1>8, <2>2 DEF A, B
<1>14. Good(M)
  <2>1. F[l] \in Nat
    BY <1>4, <1>9
  <2> QED BY <1>5, <1>10, <1>12, <1>13, <2>1
<1> QED BY <1>2, <1>14

\* The members of a finite set, counted one by one.
LEMMA SumOfOnes ==
  ASSUME NEW S, IsFiniteSet(S), NEW f, \A x \in S : f[x] = 1
  PROVE  SumFunctionOnSet(f, S) = Cardinality(S)
<1>1. SumFunctionOnSet(f, S) = Cardinality(S) * 1
  BY SumConstant
<1> QED BY <1>1, FS_CardinalityType

\* What holds of every term up to a factor holds of the sum.
LEMMA SumScaled ==
  ASSUME NEW S, IsFiniteSet(S), NEW f, NEW g, NEW a \in Nat, NEW b \in Nat,
         \A x \in S : f[x] \in Nat /\ g[x] \in Nat /\ f[x] * a <= b * g[x]
  PROVE  SumFunctionOnSet(f, S) * a <= b * SumFunctionOnSet(g, S)
<1> DEFINE Good(s) == SumFunctionOnSet(f, s) * a <= b * SumFunctionOnSet(g, s)
           bad == {s \in SUBSET S : ~Good(s)}
<1>0. SUFFICES bad = {}
  <2>1. ASSUME ~Good(S) PROVE S \in bad
    BY <2>1
  <2> HIDE DEF bad
  <2> QED BY <2>1
<1>1. SUFFICES ASSUME bad # {} PROVE FALSE
  OBVIOUS
<1>2. PICK s \in bad : \A t \in bad : ~(t \subseteq s /\ t # s)
  <2>1. bad \subseteq SUBSET S
    OBVIOUS
  <2> HIDE DEF bad
  <2> QED BY <1>1, <2>1, SmallestSubset
<1>3. s # {}
  <2>1. SumFunctionOnSet(f, {}) = 0
    BY SumEmpty
  <2>2. SumFunctionOnSet(g, {}) = 0
    BY SumEmpty
  <2>3. Good({})
    BY <2>1, <2>2
  <2> QED BY <1>2, <2>3
<1>4. PICK x : x \in s
  BY <1>3
<1>5. Good(s \ {x})
  BY <1>2, <1>4
<1>6. IsFiniteSet(s)
  BY <1>2, FS_Subset
<1>61. \A y \in s : f[y] \in Nat
  BY <1>2
<1>62. \A y \in s : g[y] \in Nat
  BY <1>2
<1>7. PICK m \in Nat : /\ m = SumFunctionOnSet(f, s \ {x})
                       /\ SumFunctionOnSet(f, s) = f[x] + m
  <2>1. /\ SumFunctionOnSet(f, s \ {x}) \in Nat
        /\ SumFunctionOnSet(f, s) = f[x] + SumFunctionOnSet(f, s \ {x})
    BY <1>4, <1>6, <1>61, SumStep
  <2> QED BY <2>1
<1>8. PICK n \in Nat : /\ n = SumFunctionOnSet(g, s \ {x})
                       /\ SumFunctionOnSet(g, s) = g[x] + n
  <2>1. /\ SumFunctionOnSet(g, s \ {x}) \in Nat
        /\ SumFunctionOnSet(g, s) = g[x] + SumFunctionOnSet(g, s \ {x})
    BY <1>4, <1>6, <1>62, SumStep
  <2> QED BY <2>1
<1>9. (f[x] + m) * a <= b * (g[x] + n)
  <2>1. PICK p \in Nat, q \in Nat : p = f[x] /\ q = g[x] /\ p * a <= b * q
    BY <1>2, <1>4
  <2>2. m * a <= b * n
    BY <1>5, <1>7, <1>8
  <2>3. (p + m) * a = p * a + m * a /\ b * (q + n) = b * q + b * n
    OBVIOUS
  <2> QED BY <2>1, <2>2, <2>3
<1>10. Good(s)
  BY <1>7, <1>8, <1>9
<1> QED BY <1>2, <1>10

\* A table with a row for each element of S and a column for each of T, its rows
\* in f, its columns in h, and their sums in F and H.
RowsAndColumns(S, T, f, h, F, H) ==
  /\ IsFiniteSet(S) /\ IsFiniteSet(T)
  /\ \A x \in S : \A y \in T : f[x][y] \in Nat /\ h[y][x] = f[x][y]
  /\ \A x \in S : F[x] = SumFunctionOnSet(f[x], T)
  /\ \A y \in T : H[y] = SumFunctionOnSet(h[y], S)

\* The sum of a table, by rows and by columns.
LEMMA SumSwap ==
  ASSUME NEW S, NEW T, NEW f, NEW h, NEW F, NEW H, RowsAndColumns(S, T, f, h, F, H)
  PROVE  SumFunctionOnSet(F, S) = SumFunctionOnSet(H, T)
<1>a. IsFiniteSet(S) /\ IsFiniteSet(T)
  BY DEF RowsAndColumns
<1>b. \A x \in S : \A y \in T : f[x][y] \in Nat /\ h[y][x] = f[x][y]
  BY DEF RowsAndColumns
<1>c. \A x \in S : F[x] = SumFunctionOnSet(f[x], T)
  BY DEF RowsAndColumns
<1>d. \A y \in T : H[y] = SumFunctionOnSet(h[y], S)
  BY DEF RowsAndColumns
<1> USE <1>a, <1>b, <1>c, <1>d
<1> DEFINE Col(s)  == [y \in T |-> SumFunctionOnSet(h[y], s)]
           Good(s) == SumFunctionOnSet(F, s) = SumFunctionOnSet(Col(s), T)
           bad == {s \in SUBSET S : ~Good(s)}
<1>01. \A x \in S : F[x] \in Nat
  BY SumNat
<1>02. ASSUME NEW s \in SUBSET S, NEW y \in T
       PROVE  IsFiniteSet(s) /\ Col(s)[y] \in Nat
  <2>1. IsFiniteSet(s) /\ \A x \in s : h[y][x] \in Nat
    BY FS_Subset
  <2>2. SumFunctionOnSet(h[y], s) \in Nat
    BY <2>1, SumNat
  <2> QED BY <2>1, <2>2
<1>0. SUFFICES bad = {}
  <2>1. ASSUME Good(S) PROVE SumFunctionOnSet(F, S) = SumFunctionOnSet(H, T)
    <3>1. \A y \in T : Col(S)[y] \in Nat /\ H[y] = Col(S)[y]
      BY <1>02
    <3> DEFINE K == Col(S)
    <3>2. \A y \in T : K[y] \in Nat /\ H[y] = K[y]
      BY <3>1
    <3>3. SumFunctionOnSet(F, S) = SumFunctionOnSet(K, T)
      BY <2>1
    <3> HIDE DEF K
    <3>4. SumFunctionOnSet(H, T) = SumFunctionOnSet(K, T)
      BY <3>2, SumAgree
    <3> QED BY <3>3, <3>4
  <2>2. ASSUME ~Good(S) PROVE S \in bad
    BY <2>2
  <2> HIDE DEF bad, Good
  <2> QED BY <2>1, <2>2
<1>1. SUFFICES ASSUME bad # {} PROVE FALSE
  OBVIOUS
<1>2. PICK s \in bad : \A t \in bad : ~(t \subseteq s /\ t # s)
  <2>1. bad \subseteq SUBSET S
    OBVIOUS
  <2> HIDE DEF bad
  <2> QED BY <1>1, <2>1, SmallestSubset
<1>3. s # {}
  <2> DEFINE K == Col({})
  <2>1. \A y \in T : K[y] = 0
    BY SumEmpty
  <2> HIDE DEF K
  <2>2. SumFunctionOnSet(K, T) = Cardinality(T) * 0
    BY <2>1, SumConstant
  <2>3. Cardinality(T) \in Nat /\ SumFunctionOnSet(F, {}) = 0
    BY FS_CardinalityType, SumEmpty
  <2>4. Good({})
    BY <2>2, <2>3 DEF K
  <2> QED BY <1>2, <2>4
<1>4. PICK x : x \in s
  BY <1>3
<1> DEFINE r == s \ {x}
           K == Col(s)
           M == Col(r)
<1>5. Good(r)
  BY <1>2, <1>4
<1>6. s \in SUBSET S /\ r \in SUBSET S /\ x \in S /\ IsFiniteSet(s)
  BY <1>2, <1>4, FS_Subset
<1>7. \A y \in T : /\ f[x][y] \in Nat /\ M[y] \in Nat
                    /\ K[y] = f[x][y] + M[y]
  <2>1. ASSUME NEW y \in T
        PROVE  SumFunctionOnSet(h[y], s) = h[y][x] + SumFunctionOnSet(h[y], s \ {x})
    <3>1. \A z \in s : h[y][z] \in Nat
      BY <1>6
    <3> QED BY <1>4, <1>6, <3>1, SumStep
  <2>2. \A y \in T : f[x][y] \in Nat /\ h[y][x] = f[x][y] /\ M[y] \in Nat
    BY <1>02, <1>6
  <2> QED BY <2>1, <2>2
<1>8. SumFunctionOnSet(F, s) = F[x] + SumFunctionOnSet(F, r)
  <2>1. \A z \in s : F[z] \in Nat
    BY <1>01, <1>6
  <2> QED BY <1>4, <1>6, <2>1, SumStep
<1> HIDE DEF K, M
<1>9. SumFunctionOnSet(K, T) = SumFunctionOnSet(f[x], T) + SumFunctionOnSet(M, T)
  BY <1>7, SumOfSums
<1>10. F[x] = SumFunctionOnSet(f[x], T)
  BY <1>6
<1>11. Good(s)
  BY <1>5, <1>8, <1>9, <1>10 DEF K, M
<1> QED BY <1>2, <1>11

\* A bounded set of numbers has a least and a greatest member.
LEMMA LeastNumber ==
  ASSUME NEW n \in Nat, NEW T, T \subseteq 0..n, T # {}
  PROVE  \E m \in T : \A k \in T : m <= k
<1> DEFINE N == 0..n
           D == {0..m : m \in T}
<1>1. IsFiniteSet(N)
  BY FS_Interval
<1>0. D \subseteq SUBSET N /\ D # {}
  <2>1. \A m \in T : m \in 0..n
    OBVIOUS
  <2>2. \A m \in T : 0..m \in SUBSET (0..n)
    BY <2>1
  <2> QED BY <2>2
<1> HIDE DEF D, N
<1>2. PICK s \in D : \A t \in D : ~(t \subseteq s /\ t # s)
  BY <1>0, <1>1, SmallestSubset
<1>3. PICK m \in T : s = 0..m
  BY <1>2 DEF D
<1>4. ASSUME NEW k \in T, k < m PROVE FALSE
  <2>1. 0..k \in D
    BY DEF D
  <2>2. 0..k \subseteq 0..m /\ m \in 0..m /\ ~(m \in 0..k)
    BY <1>4
  <2> QED BY <1>2, <1>3, <2>1, <2>2
<1> WITNESS m \in T
<1> QED BY <1>4

\* A set of numbers that is bounded has a greatest member.
LEMMA GreatestNumber ==
  ASSUME NEW n \in Nat, NEW T, T \subseteq 0..n, T # {}
  PROVE  \E m \in T : \A k \in T : k <= m
<1> DEFINE U == {n - m : m \in T}
<1>1. U \subseteq 0..n /\ U # {}
  <2>1. \A m \in T : n - m \in 0..n
    OBVIOUS
  <2> QED BY <2>1
<1> HIDE DEF U
<1>2. PICK u \in U : \A v \in U : u <= v
  BY <1>1, LeastNumber
<1>3. PICK m \in T : u = n - m
  BY DEF U
<1>4. ASSUME NEW k \in T PROVE k <= m
  <2>1. n - k \in U
    BY DEF U
  <2> QED BY <1>2, <1>3, <2>1
<1> WITNESS m \in T
<1> QED BY <1>4

=====================
