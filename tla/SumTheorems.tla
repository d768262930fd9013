---------------------------- MODULE SumTheorems ----------------------------
(***************************************************************************)
(* Sums of a function over a finite set: the fold of the community module  *)
(* Functions, which takes one element after the other, in an order CHOOSE  *)
(* decides.  That its recursion has a solution, and that the order does    *)
(* not matter, is shown by looking at a smallest set for which it fails.   *)
(***************************************************************************)
EXTENDS Functions, FiniteSetTheorems, TLAPS

Pick(s) == CHOOSE x \in s : TRUE

(* g gives every subset of S its sum, by the recursion of the fold.        *)
IsSum(g, F, S) ==
    g = [s \in SUBSET S |-> IF s = {} THEN 0 ELSE F[Pick(s)] + g[s \ {Pick(s)}]]

TheSum(F, S) == CHOOSE g : IsSum(g, F, S)

(* The fold is the value at S of the function the recursion defines.       *)
LEMMA SumIsChosen ==
    ASSUME NEW F, NEW S
    PROVE  SumFunctionOnSet(F, S) = TheSum(F, S)[S]
BY DEF SumFunctionOnSet, FoldFunctionOnSet, MapThenFoldSet, TheSum, IsSum, Pick

(* The element taken is one of the set.                                    *)
LEMMA PickIn ==
    ASSUME NEW s, s # {}
    PROVE  Pick(s) \in s
BY DEF Pick

(* Among subsets of a finite set there is a smallest one.                  *)
LEMMA SmallestSubset ==
    ASSUME NEW S, IsFiniteSet(S), NEW Bad \in SUBSET (SUBSET S), Bad # {}
    PROVE  \E T \in Bad : \A U \in Bad : U \subseteq T => U = T
<1>1. IsWellFoundedOn(StrictSubsetOrdering(S), SUBSET S)
  BY FS_StrictSubsetOrderingWellFounded, FS_FiniteSubsetsOfFinite
<1>2. PICK T \in Bad : \A U \in Bad : ~ (<<U, T>> \in StrictSubsetOrdering(S))
  BY <1>1, WFMin
<1>3. \A U \in Bad : U \subseteq T => U = T
  BY <1>2 DEF StrictSubsetOrdering
<1> QED BY <1>3

(* A solution on a larger set is one on a smaller.                         *)
LEMMA SumUnique ==
    ASSUME NEW F, NEW S, NEW T \in SUBSET S, IsFiniteSet(S),
           NEW g, IsSum(g, F, S), NEW h, IsSum(h, F, T), NEW s \in SUBSET T
    PROVE  g[s] = h[s]
<1> DEFINE Bad == {u \in SUBSET T : g[u] # h[u]}
<1>1. ASSUME Bad # {} PROVE FALSE
  <2>1. IsFiniteSet(T) /\ Bad \in SUBSET (SUBSET T)
    BY FS_Subset
  <2>2. PICK u \in Bad : \A v \in Bad : v \subseteq u => v = u
    <3> HIDE DEF Bad
    <3> QED BY <1>1, <2>1, SmallestSubset
  <2>3. u \in SUBSET T /\ u \in SUBSET S /\ g[u] # h[u]
    BY <2>2
  <2>4. /\ g[u] = IF u = {} THEN 0 ELSE F[Pick(u)] + g[u \ {Pick(u)}]
        /\ h[u] = IF u = {} THEN 0 ELSE F[Pick(u)] + h[u \ {Pick(u)}]
    BY <2>3 DEF IsSum
  <2>5. u # {}
    BY <2>3, <2>4
  <2>6. Pick(u) \in u
    BY <2>5, PickIn
  <2>7. u \ {Pick(u)} \notin Bad
    BY <2>2, <2>6
  <2>8. g[u \ {Pick(u)}] = h[u \ {Pick(u)}]
    BY <2>3, <2>7
  <2> QED BY <2>3, <2>4, <2>5, <2>8
<1> QED BY <1>1

(* The recursion has a solution for every finite set.                      *)
LEMMA SumExists ==
    ASSUME NEW F, NEW S, IsFiniteSet(S)
    PROVE  IsSum(TheSum(F, S), F, S)
<1> DEFINE Has(T) == \E g : IsSum(g, F, T)
           Bad == {T \in SUBSET S : ~ Has(T)}
<1>1. ASSUME Bad # {} PROVE FALSE
  <2>1. Bad \in SUBSET (SUBSET S)
    OBVIOUS
  <2>2. PICK T \in Bad : \A U \in Bad : U \subseteq T => U = T
    <3> HIDE DEF Bad
    <3> QED BY <1>1, <2>1, SmallestSubset
  <2>3. T \in SUBSET S /\ ~ Has(T)
    BY <2>2
  <2>4. ASSUME NEW U \in SUBSET T, U # T PROVE IsSum(TheSum(F, U), F, U)
    <3>1. Has(U)
      BY <2>2, <2>3, <2>4
    <3> QED BY <3>1 DEF TheSum
  <2> DEFINE low(U) == TheSum(F, U)[U]
             h == [U \in SUBSET T |-> IF U # T THEN low(U)
                                      ELSE IF T = {} THEN 0 ELSE F[Pick(T)] + low(T \ {Pick(T)})]
  <2>5. ASSUME NEW U \in SUBSET T
        PROVE  h[U] = IF U = {} THEN 0 ELSE F[Pick(U)] + h[U \ {Pick(U)}]
    <3>1. U # {} => Pick(U) \in U /\ U \ {Pick(U)} \in SUBSET T /\ U \ {Pick(U)} # T
      BY <2>5, PickIn
    <3>2. U # {} => h[U \ {Pick(U)}] = low(U \ {Pick(U)})
      BY <3>1
    <3>3. CASE U = T
      BY <3>2, <3>3
    <3>4. CASE U # T
      <4>1. h[U] = low(U) /\ IsSum(TheSum(F, U), F, U)
        BY <2>4, <2>5, <3>4
      <4>2. low(U) = IF U = {} THEN 0 ELSE F[Pick(U)] + TheSum(F, U)[U \ {Pick(U)}]
        BY <4>1 DEF IsSum
      <4>3. ASSUME U # {} PROVE TheSum(F, U)[U \ {Pick(U)}] = low(U \ {Pick(U)})
        <5> DEFINE V == U \ {Pick(U)}
        <5>1. IsSum(TheSum(F, V), F, V) /\ V \in SUBSET U
          BY <2>4, <3>1, <4>3
        <5>2. IsFiniteSet(U)
          BY <2>3, <2>5, FS_Subset
        <5>3. V \in SUBSET V
          OBVIOUS
        <5> HIDE DEF V
        <5>4. TheSum(F, U)[V] = TheSum(F, V)[V]
          BY <4>1, <5>1, <5>2, <5>3, SumUnique
        <5> QED BY <5>4 DEF V
      <4> QED BY <3>2, <4>1, <4>2, <4>3
    <3> QED BY <3>3, <3>4
  <2>6. IsSum(h, F, T)
    <3>1. h = [U \in SUBSET T |-> h[U]]
      OBVIOUS
    <3> HIDE DEF h
    <3> QED BY <2>5, <3>1 DEF IsSum
  <2> QED BY <2>3, <2>6
<1>2. Has(S)
  BY <1>1
<1> QED BY <1>2 DEF TheSum

-----------------------------------------------------------------------------
(* The recursion, as a fact about sums.                                    *)
LEMMA SumStep ==
    ASSUME NEW F, NEW S, IsFiniteSet(S)
    PROVE  SumFunctionOnSet(F, S) = IF S = {} THEN 0 ELSE F[Pick(S)] + SumFunctionOnSet(F, S \ {Pick(S)})
<1>1. IsSum(TheSum(F, S), F, S) /\ S \in SUBSET S
  BY SumExists
<1>2. TheSum(F, S)[S] = IF S = {} THEN 0 ELSE F[Pick(S)] + TheSum(F, S)[S \ {Pick(S)}]
  BY <1>1 DEF IsSum
<1>3. ASSUME S # {} PROVE TheSum(F, S)[S \ {Pick(S)}] = SumFunctionOnSet(F, S \ {Pick(S)})
  <2> DEFINE V == S \ {Pick(S)}
  <2>1. V \in SUBSET S /\ V \in SUBSET V
    OBVIOUS
  <2>2. IsFiniteSet(V)
    BY <2>1, FS_Subset
  <2> HIDE DEF V
  <2>3. IsSum(TheSum(F, V), F, V)
    BY <2>2, SumExists
  <2>4. TheSum(F, S)[V] = TheSum(F, V)[V]
    BY <1>1, <2>1, <2>3, SumUnique
  <2>5. TheSum(F, S)[V] = SumFunctionOnSet(F, V)
    BY <2>4, SumIsChosen
  <2> QED BY <2>5 DEF V
<1> QED BY <1>2, <1>3, SumIsChosen

(* Nothing sums up to zero.                                                *)
LEMMA SumEmpty ==
    ASSUME NEW F
    PROVE  SumFunctionOnSet(F, {}) = 0
BY SumStep, FS_EmptySet

(* A sum of naturals is a natural, and any element may be taken first.     *)
LEMMA SumTake ==
    ASSUME NEW F, NEW S, IsFiniteSet(S), \A x \in S : F[x] \in Nat
    PROVE  /\ SumFunctionOnSet(F, S) \in Nat
           /\ \A x \in S : SumFunctionOnSet(F, S) = F[x] + SumFunctionOnSet(F, S \ {x})
<1> DEFINE Good(T) == /\ SumFunctionOnSet(F, T) \in Nat
                      /\ \A x \in T : SumFunctionOnSet(F, T) = F[x] + SumFunctionOnSet(F, T \ {x})
           Bad == {T \in SUBSET S : ~ Good(T)}
<1>1. ASSUME Bad # {} PROVE FALSE
  <2>1. Bad \in SUBSET (SUBSET S)
    OBVIOUS
  <2>2. PICK T \in Bad : \A U \in Bad : U \subseteq T => U = T
    <3> HIDE DEF Bad
    <3> QED BY <1>1, <2>1, SmallestSubset
  <2>3. T \in SUBSET S /\ ~ Good(T)
    BY <2>2
  <2>4. \A U \in SUBSET T : U # T => Good(U)
    BY <2>2, <2>3
  <2>5. IsFiniteSet(T)
    BY <2>3, FS_Subset
  <2>6. T # {}
    <3>1. SumFunctionOnSet(F, {}) \in Nat
      BY SumEmpty
    <3>2. Good({})
      BY <3>1
    <3> QED BY <2>3, <3>2
  <2> DEFINE p == Pick(T)
  <2>7. p \in T /\ SumFunctionOnSet(F, T) = F[p] + SumFunctionOnSet(F, T \ {p})
    BY <2>5, <2>6, PickIn, SumStep
  <2> HIDE DEF p
  <2>8. Good(T \ {p}) /\ F[p] \in Nat
    BY <2>3, <2>4, <2>7
  <2>9. SumFunctionOnSet(F, T) \in Nat
    BY <2>7, <2>8
  <2>10. ASSUME NEW x \in T PROVE SumFunctionOnSet(F, T) = F[x] + SumFunctionOnSet(F, T \ {x})
    <3>1. CASE x = p
      BY <2>7, <3>1
    <3>2. CASE x # p
      <4>1. SumFunctionOnSet(F, T \ {p}) = F[x] + SumFunctionOnSet(F, (T \ {p}) \ {x})
        BY <2>8, <2>10, <3>2
      <4>2. Good(T \ {x})
        BY <2>4, <2>10
      <4>3. SumFunctionOnSet(F, T \ {x}) = F[p] + SumFunctionOnSet(F, (T \ {x}) \ {p})
        BY <2>7, <3>2, <4>2
      <4>4. (T \ {x}) \ {p} = (T \ {p}) \ {x}
        OBVIOUS
      <4>5. Good((T \ {p}) \ {x})
        BY <2>4, <2>10
      <4>6. F[x] \in Nat
        BY <2>3, <2>10
      <4> QED BY <2>7, <2>8, <4>1, <4>3, <4>4, <4>5, <4>6
    <3> QED BY <3>1, <3>2
  <2> QED BY <2>3, <2>9, <2>10
<1>2. Good(S)
  BY <1>1
<1> QED BY <1>2

(* One element more.                                                       *)
LEMMA SumAdd ==
    ASSUME NEW F, NEW S, IsFiniteSet(S), NEW x, x \notin S, \A y \in S \cup {x} : F[y] \in Nat
    PROVE  /\ SumFunctionOnSet(F, S \cup {x}) \in Nat /\ SumFunctionOnSet(F, S) \in Nat
           /\ SumFunctionOnSet(F, S \cup {x}) = F[x] + SumFunctionOnSet(F, S)
<1>1. IsFiniteSet(S \cup {x}) /\ (S \cup {x}) \ {x} = S
  BY FS_AddElement
<1> QED BY <1>1, SumTake

(* The sum depends on the values at the elements only.                     *)
LEMMA SumSame ==
    ASSUME NEW F, NEW G, NEW S, IsFiniteSet(S), \A x \in S : F[x] = G[x] /\ F[x] \in Nat
    PROVE  SumFunctionOnSet(F, S) = SumFunctionOnSet(G, S)
<1> DEFINE Bad == {T \in SUBSET S : SumFunctionOnSet(F, T) # SumFunctionOnSet(G, T)}
<1>1. ASSUME Bad # {} PROVE FALSE
  <2>1. Bad \in SUBSET (SUBSET S)
    OBVIOUS
  <2>2. PICK T \in Bad : \A U \in Bad : U \subseteq T => U = T
    <3> HIDE DEF Bad
    <3> QED BY <1>1, <2>1, SmallestSubset
  <2>3. T \in SUBSET S /\ SumFunctionOnSet(F, T) # SumFunctionOnSet(G, T) /\ IsFiniteSet(T)
    BY <2>2, FS_Subset
  <2>4. PICK x \in T : TRUE
    BY <2>3, SumEmpty
  <2>5. SumFunctionOnSet(F, T \ {x}) = SumFunctionOnSet(G, T \ {x})
    BY <2>2, <2>3
  <2>6. SumFunctionOnSet(F, T) = F[x] + SumFunctionOnSet(F, T \ {x}) /\ SumFunctionOnSet(G, T) = G[x] + SumFunctionOnSet(G, T \ {x})
    BY <2>3, SumTake
  <2> QED BY <2>3, <2>5, <2>6
<1> QED BY <1>1

(* Disjoint sets add up.                                                   *)
LEMMA SumSplit ==
    ASSUME NEW F, NEW S, IsFiniteSet(S), NEW A, A \subseteq S, \A x \in S : F[x] \in Nat
    PROVE  /\ SumFunctionOnSet(F, A) \in Nat /\ SumFunctionOnSet(F, S \ A) \in Nat
           /\ SumFunctionOnSet(F, S) = SumFunctionOnSet(F, A) + SumFunctionOnSet(F, S \ A)
<1> DEFINE Good(T) == SumFunctionOnSet(F, S) = SumFunctionOnSet(F, T) + SumFunctionOnSet(F, S \ T)
           Bad == {T \in SUBSET S : ~ Good(T)}
<1>0. \A T \in SUBSET S : IsFiniteSet(T) /\ SumFunctionOnSet(F, T) \in Nat
  BY FS_Subset, SumTake
<1>1. ASSUME Bad # {} PROVE FALSE
  <2>1. Bad \in SUBSET (SUBSET S)
    OBVIOUS
  <2>2. PICK T \in Bad : \A U \in Bad : U \subseteq T => U = T
    <3> HIDE DEF Bad
    <3> QED BY <1>1, <2>1, SmallestSubset
  <2>3. T \in SUBSET S /\ ~ Good(T) /\ IsFiniteSet(T)
    BY <1>0, <2>2
  <2>4. T # {}
    <3>1. S \ {} = S /\ SumFunctionOnSet(F, S) \in Nat /\ SumFunctionOnSet(F, {}) = 0
      BY <1>0, SumEmpty
    <3>2. SumFunctionOnSet(F, S) = SumFunctionOnSet(F, {}) + SumFunctionOnSet(F, S \ {})
      BY <3>1
    <3> QED BY <2>3, <3>2
  <2>5. PICK x \in T : TRUE
    BY <2>4
  <2>6. Good(T \ {x})
    BY <2>2, <2>3
  <2>7. SumFunctionOnSet(F, T) = F[x] + SumFunctionOnSet(F, T \ {x})
    BY <2>3, SumTake
  <2>8. SumFunctionOnSet(F, S \ (T \ {x})) = F[x] + SumFunctionOnSet(F, S \ T)
    <3>1. S \ (T \ {x}) = (S \ T) \cup {x} /\ x \notin S \ T /\ S \ T \in SUBSET S
      BY <2>3
    <3> QED BY <1>0, <2>3, <3>1, SumAdd
  <2>9. /\ SumFunctionOnSet(F, T \ {x}) \in Nat /\ SumFunctionOnSet(F, S \ T) \in Nat /\ F[x] \in Nat
    BY <1>0, <2>3
  <2> QED BY <2>3, <2>6, <2>7, <2>8, <2>9
<1>2. Good(A)
  BY <1>1
<1> QED BY <1>0, <1>2

(* A part sums up to no more than the whole.                               *)
LEMMA SumPart ==
    ASSUME NEW F, NEW S, IsFiniteSet(S), NEW A, A \subseteq S, \A x \in S : F[x] \in Nat
    PROVE  SumFunctionOnSet(F, A) <= SumFunctionOnSet(F, S) /\ SumFunctionOnSet(F, A) \in Nat /\ SumFunctionOnSet(F, S) \in Nat
<1>1. SumFunctionOnSet(F, A) \in Nat
  BY SumSplit
<1>2. SumFunctionOnSet(F, S \ A) \in Nat
  BY SumSplit
<1>3. SumFunctionOnSet(F, S) = SumFunctionOnSet(F, A) + SumFunctionOnSet(F, S \ A)
  BY SumSplit
<1> QED BY <1>1, <1>2, <1>3

(* A part and the rest, each with a name of its own, sum up to the whole.  *)
LEMMA SumParts ==
    ASSUME NEW F, NEW S, IsFiniteSet(S), NEW A, A \subseteq S, NEW L, L = S \ A,
           \A x \in S : F[x] \in Nat
    PROVE  SumFunctionOnSet(F, S) = SumFunctionOnSet(F, A) + SumFunctionOnSet(F, L)
<1>1. SumFunctionOnSet(F, S) = SumFunctionOnSet(F, A) + SumFunctionOnSet(F, S \ A)
  BY SumSplit
<1> QED BY <1>1

(* Zeroes sum up to zero.                                                  *)
LEMMA SumZero ==
    ASSUME NEW F, NEW S, IsFiniteSet(S), \A x \in S : F[x] = 0
    PROVE  SumFunctionOnSet(F, S) = 0
<1> DEFINE Bad == {T \in SUBSET S : SumFunctionOnSet(F, T) # 0}
<1>1. ASSUME Bad # {} PROVE FALSE
  <2>1. Bad \in SUBSET (SUBSET S)
    OBVIOUS
  <2>2. PICK T \in Bad : \A U \in Bad : U \subseteq T => U = T
    <3> HIDE DEF Bad
    <3> QED BY <1>1, <2>1, SmallestSubset
  <2>3. T \in SUBSET S /\ SumFunctionOnSet(F, T) # 0 /\ IsFiniteSet(T)
    BY <2>2, FS_Subset
  <2>4. PICK x \in T : TRUE
    BY <2>3, SumEmpty
  <2>5. SumFunctionOnSet(F, T \ {x}) = 0
    BY <2>2, <2>3
  <2>6. SumFunctionOnSet(F, T) = F[x] + SumFunctionOnSet(F, T \ {x})
    BY <2>3, SumTake
  <2> QED BY <2>3, <2>5, <2>6
<1> QED BY <1>1
=============================================================================
