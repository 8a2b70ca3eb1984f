---------------------------- MODULE TotalsProofs ----------------------------
(***************************************************************************)
(* What the proofs need to know of sums.  The library's induction theorems *)
(* speak of every predicate; here a counterexample of least size is taken  *)
(* instead, which the well-foundedness of the orders gives.                *)
(***************************************************************************)
EXTENDS Totals, FiniteSets, FiniteSetTheorems, WellFoundedInduction, TLAPS

First(s) == CHOOSE o \in s : TRUE

\* The recursion of the fold: g[s] is the sum over s, for the sets s of a
\* family that has with each set what is left without its first member.
Adds(g, f, family) ==
    g = [s \in family |-> IF s = {} THEN 0 ELSE f[First(s)] + g[s \ {First(s)}]]

SumsOver(g, f, S) == Adds(g, f, SUBSET S)

Small(S, n) == {s \in SUBSET S : Cardinality(s) <= n}

LEMMA FirstIsMember ==
    ASSUME NEW s, s # {}
    PROVE  First(s) \in s
  BY DEF First

LEMMA LeastNatural ==
    ASSUME NEW N \in SUBSET Nat, N # {}
    PROVE  \E n \in N : \A m \in N : n <= m
<1>1. IsWellFoundedOn(OpToRel(<, Nat), Nat)
  BY NatLessThanWellFounded
<1>2. PICK n \in N : \A m \in N : ~(<<m, n>> \in OpToRel(<, Nat))
  BY <1>1, WFMin
<1>3. \A m \in N : ~(m < n)
  BY <1>2 DEF OpToRel
<1> QED  BY <1>3

LEMMA SmallestSubset ==
    ASSUME NEW S, IsFiniteSet(S), NEW B \in SUBSET (SUBSET S), B # {}
    PROVE  \E U \in B : \A V \in B : V \subseteq U => V = U
<1>1. IsWellFoundedOn(StrictSubsetOrdering(S), FiniteSubsetsOf(S))
  BY FS_StrictSubsetOrderingWellFounded
<1>2. B \subseteq FiniteSubsetsOf(S)
  BY FS_Subset DEF FiniteSubsetsOf
<1>3. PICK U \in B : \A V \in B : ~(<<V, U>> \in StrictSubsetOrdering(S))
  BY <1>1, <1>2, WFMin
<1>4. \A V \in B : V \subseteq U => V = U
  BY <1>3 DEF StrictSubsetOrdering
<1> QED  BY <1>4

LEMMA SmallSumsExist ==
    ASSUME NEW S, IsFiniteSet(S), NEW f, NEW n \in Nat
    PROVE  \E g : Adds(g, f, Small(S, n))
<1> DEFINE Bad == {k \in Nat : ~ \E g : Adds(g, f, Small(S, k))}
<1> SUFFICES ASSUME Bad # {} PROVE FALSE
  OBVIOUS
<1>1. PICK k \in Bad : \A m \in Bad : k <= m
  BY LeastNatural
<1>2. CASE k = 0
  <2> DEFINE g == [s \in Small(S, 0) |-> 0]
  <2>1. \A s \in Small(S, 0) : s = {}
    BY FS_EmptySet, FS_Subset, FS_CardinalityType DEF Small
  <2>2. Adds(g, f, Small(S, 0))
    BY <2>1 DEF Adds
  <2> QED  BY <1>1, <1>2, <2>2
<1>3. CASE k # 0
  <2>1. k - 1 \in Nat /\ k - 1 \notin Bad
    BY <1>1, <1>3
  <2>2. PICK h : Adds(h, f, Small(S, k - 1))
    BY <2>1
  <2> DEFINE g == [s \in Small(S, k) |->
                     IF s = {} THEN 0 ELSE f[First(s)] + h[s \ {First(s)}]]
  <2>3. ASSUME NEW s \in Small(S, k), s # {}
        PROVE  s \ {First(s)} \in Small(S, k - 1) /\ s \ {First(s)} \in Small(S, k)
    BY <2>3, <1>3, FirstIsMember, FS_RemoveElement, FS_Subset, FS_CardinalityType DEF Small
  <2>4. ASSUME NEW s \in Small(S, k - 1), s \in Small(S, k)
        PROVE  g[s] = h[s]
    <3>1. h = [t \in Small(S, k - 1) |-> IF t = {} THEN 0 ELSE f[First(t)] + h[t \ {First(t)}]]
      BY <2>2 DEF Adds
    <3> QED  BY <3>1, <2>4
  <2>5. Adds(g, f, Small(S, k))
    BY <2>3, <2>4 DEF Adds
  <2> QED  BY <2>5, <1>1
<1> QED  BY <1>2, <1>3

LEMMA SumsExist ==
    ASSUME NEW S, IsFiniteSet(S), NEW f
    PROVE  \E g : SumsOver(g, f, S)
<1>1. Cardinality(S) \in Nat
  BY FS_CardinalityType
<1>2. Small(S, Cardinality(S)) = SUBSET S
  BY FS_Subset DEF Small
<1>3. PICK g : Adds(g, f, Small(S, Cardinality(S)))
  BY <1>1, SmallSumsExist
<1> QED  BY <1>2, <1>3 DEF SumsOver

\* The fold is a sum in that sense.
LEMMA TotalIsSum ==
    ASSUME NEW S, IsFiniteSet(S), NEW f
    PROVE  \E g : SumsOver(g, f, S) /\ Total(f, S) = g[S]
<1> DEFINE g == CHOOSE h : h = [s \in SUBSET S |->
                  IF s = {} THEN 0 ELSE f[CHOOSE o \in s : TRUE] + h[s \ {CHOOSE o \in s : TRUE}]]
<1>1. Total(f, S) = g[S]
  BY DEF Total, MapThenFoldSet
<1>2. g = [s \in SUBSET S |->
             IF s = {} THEN 0 ELSE f[CHOOSE o \in s : TRUE] + g[s \ {CHOOSE o \in s : TRUE}]]
  <2>1. PICK k : SumsOver(k, f, S)
    BY SumsExist
  <2>2. k = [s \in SUBSET S |->
               IF s = {} THEN 0 ELSE f[CHOOSE o \in s : TRUE] + k[s \ {CHOOSE o \in s : TRUE}]]
    BY <2>1 DEF SumsOver, Adds, First
  <2> QED  BY <2>2
<1>3. SumsOver(g, f, S)
  BY <1>2 DEF SumsOver, Adds, First
<1> QED  BY <1>1, <1>3

LEMMA SumsAgree ==
    ASSUME NEW S, NEW f, NEW g, SumsOver(g, f, S),
           NEW T, NEW e, NEW h, SumsOver(h, e, T)
    PROVE  \A U : /\ IsFiniteSet(U) /\ U \subseteq S /\ U \subseteq T
                  /\ \A o \in U : f[o] = e[o]
                  => g[U] = h[U]
<1> SUFFICES ASSUME NEW U, IsFiniteSet(U), U \subseteq S, U \subseteq T,
                    \A o \in U : f[o] = e[o]
             PROVE  g[U] = h[U]
  OBVIOUS
<1> DEFINE Bad == {V \in SUBSET U : g[V] # h[V]}
<1> SUFFICES ASSUME Bad # {} PROVE FALSE
  OBVIOUS
<1>1. PICK V \in Bad : \A W \in Bad : W \subseteq V => W = V
  <2> HIDE DEF Bad
  <2>1. Bad \in SUBSET (SUBSET U)
    BY DEF Bad
  <2> QED  BY <2>1, SmallestSubset
<1>2. g[V] = IF V = {} THEN 0 ELSE f[First(V)] + g[V \ {First(V)}]
  BY <1>1 DEF SumsOver, Adds
<1>3. h[V] = IF V = {} THEN 0 ELSE e[First(V)] + h[V \ {First(V)}]
  BY <1>1 DEF SumsOver, Adds
<1>4. CASE V = {}
  BY <1>1, <1>2, <1>3, <1>4
<1>5. CASE V # {}
  <2>1. First(V) \in V
    BY <1>5, FirstIsMember
  <2>2. V \ {First(V)} \notin Bad
    BY <1>1, <2>1
  <2>3. g[V \ {First(V)}] = h[V \ {First(V)}]
    BY <2>2, <1>1
  <2> QED  BY <1>1, <1>2, <1>3, <1>5, <2>1, <2>3
<1> QED  BY <1>4, <1>5

\* Sums of the same numbers are the same.
LEMMA TotalOfSame ==
    ASSUME NEW S, IsFiniteSet(S), NEW f, NEW e, \A o \in S : f[o] = e[o]
    PROVE  Total(f, S) = Total(e, S)
<1>1. PICK g : SumsOver(g, f, S) /\ Total(f, S) = g[S]
  BY TotalIsSum
<1>2. PICK h : SumsOver(h, e, S) /\ Total(e, S) = h[S]
  BY TotalIsSum
<1>3. \A U : /\ IsFiniteSet(U) /\ U \subseteq S /\ U \subseteq S
             /\ \A o \in U : f[o] = e[o]
             => g[U] = h[U]
  BY <1>1, <1>2, SumsAgree
<1>4. g[S] = h[S]
  BY <1>3
<1> QED  BY <1>1, <1>2, <1>4

LEMMA TotalOfNone ==
    ASSUME NEW f
    PROVE  Total(f, {}) = 0
<1>1. PICK g : SumsOver(g, f, {}) /\ Total(f, {}) = g[{}]
  BY TotalIsSum, FS_EmptySet
<1> QED  BY <1>1 DEF SumsOver, Adds

LEMMA TotalOfFirst ==
    ASSUME NEW S, IsFiniteSet(S), NEW f, S # {}
    PROVE  Total(f, S) = f[First(S)] + Total(f, S \ {First(S)})
<1>1. PICK g : SumsOver(g, f, S) /\ Total(f, S) = g[S]
  BY TotalIsSum
<1>2. IsFiniteSet(S \ {First(S)})
  BY FS_RemoveElement
<1>3. PICK h : SumsOver(h, f, S \ {First(S)}) /\ Total(f, S \ {First(S)}) = h[S \ {First(S)}]
  BY TotalIsSum, <1>2
<1> DEFINE U == S \ {First(S)}
<1>4. g[U] = h[U]
  <2>1. U \subseteq S /\ U \subseteq U /\ IsFiniteSet(U) /\ SumsOver(h, f, U)
    BY <1>2, <1>3
  <2>2. \A o \in U : f[o] = f[o]
    OBVIOUS
  <2> HIDE DEF U
  <2>3. \A W : /\ IsFiniteSet(W) /\ W \subseteq S /\ W \subseteq U
               /\ \A o \in W : f[o] = f[o]
               => g[W] = h[W]
    BY <1>1, <2>1, SumsAgree
  <2> QED  BY <2>1, <2>2, <2>3
<1>5. g[S] = f[First(S)] + g[S \ {First(S)}]
  BY <1>1 DEF SumsOver, Adds
<1> QED  BY <1>1, <1>3, <1>4, <1>5

LEMMA TotalIsNat ==
    ASSUME NEW S, IsFiniteSet(S), NEW f, \A o \in S : f[o] \in Nat
    PROVE  Total(f, S) \in Nat
<1> DEFINE Bad == {V \in SUBSET S : Total(f, V) \notin Nat}
<1> SUFFICES ASSUME Bad # {} PROVE FALSE
  OBVIOUS
<1>1. PICK V \in Bad : \A W \in Bad : W \subseteq V => W = V
  <2> HIDE DEF Bad
  <2>1. Bad \in SUBSET (SUBSET S)
    BY DEF Bad
  <2> QED  BY <2>1, SmallestSubset
<1>2. V # {}
  <2>1. Total(f, {}) = 0
    BY TotalOfNone
  <2>2. Total(f, V) \notin Nat
    BY <1>1
  <2>3. V = {} => Total(f, V) = 0
    BY <2>1
  <2> QED  BY <2>2, <2>3
<1>3. First(V) \in V /\ IsFiniteSet(V)
  BY <1>1, <1>2, FirstIsMember, FS_Subset
<1>4. V \ {First(V)} \notin Bad
  BY <1>1, <1>3
<1>5. Total(f, V \ {First(V)}) \in Nat
  BY <1>1, <1>4
<1>6. Total(f, V) = f[First(V)] + Total(f, V \ {First(V)})
  BY <1>2, <1>3, TotalOfFirst
<1>7. f[First(V)] \in Nat
  BY <1>1, <1>3
<1> QED  BY <1>1, <1>5, <1>6, <1>7

\* Whichever member is taken first.
LEMMA TotalOfMember ==
    ASSUME NEW S, IsFiniteSet(S), NEW f, \A o \in S : f[o] \in Nat, NEW a \in S
    PROVE  Total(f, S) = f[a] + Total(f, S \ {a})
<1> DEFINE Bad == {V \in SUBSET S : \E x \in V : Total(f, V) # f[x] + Total(f, V \ {x})}
<1> SUFFICES ASSUME Bad # {} PROVE FALSE
  OBVIOUS
<1>1. PICK V \in Bad : \A W \in Bad : W \subseteq V => W = V
  <2> HIDE DEF Bad
  <2>1. Bad \in SUBSET (SUBSET S)
    BY DEF Bad
  <2> QED  BY <2>1, SmallestSubset
<1>2. PICK x \in V : Total(f, V) # f[x] + Total(f, V \ {x})
  BY <1>1
<1> DEFINE y == First(V)
<1>3. y \in V /\ IsFiniteSet(V) /\ IsFiniteSet(V \ {x}) /\ IsFiniteSet(V \ {y}) /\ V \subseteq S
  BY <1>1, <1>2, FirstIsMember, FS_Subset, FS_RemoveElement
<1>4. Total(f, V) = f[y] + Total(f, V \ {y})
  BY <1>2, <1>3, TotalOfFirst
<1>5. x # y
  BY <1>2, <1>4
<1>6. V \ {y} \notin Bad /\ V \ {x} \notin Bad
  BY <1>1, <1>2, <1>3
<1>7. Total(f, V \ {y}) = f[x] + Total(f, (V \ {y}) \ {x})
  BY <1>2, <1>3, <1>5, <1>6
<1>8. Total(f, V \ {x}) = f[y] + Total(f, (V \ {x}) \ {y})
  BY <1>2, <1>3, <1>5, <1>6
<1>9. (V \ {x}) \ {y} = (V \ {y}) \ {x}
  OBVIOUS
<1>10. IsFiniteSet((V \ {y}) \ {x})
  BY <1>3, FS_RemoveElement
<1>11. Total(f, (V \ {y}) \ {x}) \in Nat
  BY <1>3, <1>10, TotalIsNat
<1>12. f[x] \in Nat /\ f[y] \in Nat
  BY <1>2, <1>3
<1> QED  BY <1>2, <1>4, <1>7, <1>8, <1>9, <1>11, <1>12

LEMMA TotalOfMore ==
    ASSUME NEW S, IsFiniteSet(S), NEW f, \A o \in S : f[o] \in Nat, NEW T \in SUBSET S
    PROVE  Total(f, T) <= Total(f, S)
<1> DEFINE Bad == {V \in SUBSET S : T \subseteq V /\ ~(Total(f, T) <= Total(f, V))}
<1> SUFFICES ASSUME Bad # {} PROVE FALSE
  OBVIOUS
<1>1. PICK V \in Bad : \A W \in Bad : W \subseteq V => W = V
  <2> HIDE DEF Bad
  <2>1. Bad \in SUBSET (SUBSET S)
    BY DEF Bad
  <2> QED  BY <2>1, SmallestSubset
<1>2. IsFiniteSet(T) /\ IsFiniteSet(V) /\ V \subseteq S
  BY <1>1, FS_Subset
<1>3. Total(f, T) \in Nat /\ Total(f, V) \in Nat
  BY <1>2, TotalIsNat
<1>4. PICK x \in V : x \notin T
  <2>1. V = T => Total(f, T) <= Total(f, V)
    BY <1>3
  <2>2. T \subseteq V /\ V # T
    BY <1>1, <2>1
  <2> QED  BY <2>2
<1>5. Total(f, V) = f[x] + Total(f, V \ {x})
  BY <1>2, <1>4, TotalOfMember
<1>6. V \ {x} \notin Bad
  BY <1>1, <1>4
<1>7. Total(f, T) <= Total(f, V \ {x})
  BY <1>1, <1>2, <1>4, <1>6
<1>8. Total(f, V \ {x}) \in Nat
  BY <1>2, TotalIsNat, FS_RemoveElement
<1>9. f[x] \in Nat
  BY <1>2
<1> QED  BY <1>1, <1>3, <1>5, <1>7, <1>8, <1>9

\* A sum is the sum of its parts.
LEMMA TotalOfParts ==
    ASSUME NEW S, IsFiniteSet(S), NEW f, \A o \in S : f[o] \in Nat, NEW T \in SUBSET S
    PROVE  Total(f, S) = Total(f, T) + Total(f, S \ T)
<1> DEFINE Bad == {V \in SUBSET S : Total(f, S) # Total(f, V) + Total(f, S \ V)}
<1> SUFFICES ASSUME Bad # {} PROVE FALSE
  OBVIOUS
<1>1. PICK V \in Bad : \A W \in Bad : W \subseteq V => W = V
  <2> HIDE DEF Bad
  <2>1. Bad \in SUBSET (SUBSET S)
    BY DEF Bad
  <2> QED  BY <2>1, SmallestSubset
<1>2. Total(f, S) \in Nat
  BY TotalIsNat
<1>3. PICK x \in V : TRUE
  <2>1. S \ {} = S
    OBVIOUS
  <2>2. {} \notin Bad
    BY <1>2, <2>1, TotalOfNone
  <2> QED  BY <1>1, <2>2
<1> DEFINE less == V \ {x}
<1>4. /\ V \subseteq S /\ less \subseteq S /\ x \in S /\ x \notin S \ V /\ x \notin less
      /\ IsFiniteSet(V) /\ IsFiniteSet(S \ less) /\ IsFiniteSet(S \ V) /\ IsFiniteSet(less)
  BY <1>1, <1>3, FS_Subset
<1>5. Total(f, S) = Total(f, less) + Total(f, S \ less)
  BY <1>1, <1>3, <1>4
<1>6. Total(f, V) = f[x] + Total(f, less)
  BY <1>3, <1>4, TotalOfMember
<1>7. Total(f, S \ less) = f[x] + Total(f, S \ V)
  <2>1. x \in S \ less /\ (S \ less) \ {x} = S \ V
    BY <1>3, <1>4
  <2>2. \A o \in S \ less : f[o] \in Nat
    OBVIOUS
  <2> QED  BY <1>4, <2>1, <2>2, TotalOfMember
<1>8. /\ f[x] \in Nat /\ Total(f, less) \in Nat /\ Total(f, S \ V) \in Nat
  BY <1>4, TotalIsNat
<1>9. Total(f, S) # Total(f, V) + Total(f, S \ V)
  BY <1>1
<1> HIDE DEF Bad, less
<1> QED  BY <1>5, <1>6, <1>7, <1>8, <1>9
=============================================================================
