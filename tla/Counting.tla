------------------------------ MODULE Counting ------------------------------
(***************************************************************************)
(* A sum over a finite set counts a union of disjoint sets.                *)
(* SumFunctionOnSet is defined by a recursion over finite sets; what it    *)
(* computes is reached without an induction rule, which the provers cannot *)
(* instantiate: a set of counterexamples has a least one, and the least    *)
(* one is none.                                                            *)
(***************************************************************************)
EXTENDS Integers, FiniteSets, Functions, FiniteSetTheorems, TLAPS

\* A set of naturals has a least element.
LEMMA Least ==
    ASSUME NEW T, T \subseteq Nat, T # {}
    PROVE  \E x \in T : \A y \in T : x <= y
<1>1. IsWellFoundedOn(OpToRel(<, Nat), Nat)
  BY NatLessThanWellFounded
<1>2. \E x \in T : \A y \in T : ~ (<<y, x>> \in OpToRel(<, Nat))
  BY <1>1, WFMin
<1>3. PICK x \in T : \A y \in T : ~ (<<y, x>> \in OpToRel(<, Nat))
  BY <1>2
<1>4. ASSUME NEW y \in T, y < x PROVE FALSE
  <2>1. <<y, x>> \in OpToRel(<, Nat)
    BY <1>4 DEF OpToRel
  <2> QED BY <2>1, <1>3
<1>5. \A y \in T : x <= y
  <2> SUFFICES ASSUME NEW y \in T PROVE x <= y
    OBVIOUS
  <2>1. x \in Nat /\ y \in Nat
    OBVIOUS
  <2>2. ~ (y < x)
    BY <1>4
  <2> QED BY <2>1, <2>2
<1> QED BY <1>5

-----------------------------------------------------------------------------
(* The recursion of the sum.                                                 *)

\* The element that the recursion of the sum removes next.
Pick(s) == CHOOSE x \in s : TRUE

\* g is defined by the sum's recursion on every set of D.
Recurs(g, f, D) ==
    g = [s \in D |-> IF s = {} THEN 0 ELSE f[Pick(s)] + g[s \ {Pick(s)}]]

\* The subsets of S with at most n elements.
Upto(S, n) == {s \in SUBSET S : Cardinality(s) <= n}

\* The sum's recursion has a solution on the subsets of a finite set.
LEMMA RecursExists ==
    ASSUME NEW f, NEW S, IsFiniteSet(S)
    PROVE  \E g : Recurs(g, f, SUBSET S)
<1> DEFINE Bad == {n \in Nat : ~ \E g : Recurs(g, f, Upto(S, n))}
<1>a. ASSUME NEW s \in SUBSET S PROVE IsFiniteSet(s) /\ Cardinality(s) \in Nat
  BY FS_Subset, FS_CardinalityType
<1>b. \A s : s # {} => Pick(s) \in s
  BY DEF Pick
<1>1. 0 \notin Bad
  <2> DEFINE g == [s \in Upto(S, 0) |-> 0]
  <2>1. \A s \in Upto(S, 0) : s = {}
    BY <1>a, FS_EmptySet DEF Upto
  <2>2. Recurs(g, f, Upto(S, 0))
    <3> \A s \in Upto(S, 0) : (IF s = {} THEN 0 ELSE f[Pick(s)] + g[s \ {Pick(s)}]) = 0
      BY <2>1
    <3> QED BY DEF Recurs
  <2> QED BY <2>2
<1>2. ASSUME NEW n \in Nat, n \notin Bad PROVE n + 1 \notin Bad
  <2>1. PICK g : Recurs(g, f, Upto(S, n))
    BY <1>2
  <2> DEFINE h == [s \in Upto(S, n + 1) |->
                     IF s = {} THEN 0 ELSE f[Pick(s)] + g[s \ {Pick(s)}]]
  <2> HIDE DEF h
  <2>2. ASSUME NEW s \in Upto(S, n + 1), s # {} PROVE h[s \ {Pick(s)}] = g[s \ {Pick(s)}]
    <3> DEFINE t == s \ {Pick(s)}
    <3>1. t \in Upto(S, n)
      BY <1>a, <1>b, <2>2, FS_RemoveElement DEF Upto
    <3>2. t \in Upto(S, n + 1)
      BY <3>1, <1>a DEF Upto
    <3>3. h[t] = IF t = {} THEN 0 ELSE f[Pick(t)] + g[t \ {Pick(t)}]
      BY <3>2 DEF h
    <3>4. g[t] = IF t = {} THEN 0 ELSE f[Pick(t)] + g[t \ {Pick(t)}]
      <4> HIDE DEF t
      <4> QED BY <3>1, <2>1 DEF Recurs
    <3> QED BY <3>3, <3>4
  <2>3. h = [s \in Upto(S, n + 1) |->
                     IF s = {} THEN 0 ELSE f[Pick(s)] + h[s \ {Pick(s)}]]
    <3>1. \A s \in Upto(S, n + 1) :
            (IF s = {} THEN 0 ELSE f[Pick(s)] + g[s \ {Pick(s)}])
              = (IF s = {} THEN 0 ELSE f[Pick(s)] + h[s \ {Pick(s)}])
      BY <2>2
    <3> QED BY <3>1 DEF h
  <2>4. Recurs(h, f, Upto(S, n + 1))
    BY <2>3 DEF Recurs
  <2> QED BY <2>4
<1>3. Bad = {}
  <2> SUFFICES ASSUME Bad # {} PROVE FALSE
    OBVIOUS
  <2>1. PICK n \in Bad : \A m \in Bad : n <= m
    <3> Bad \subseteq Nat OBVIOUS
    <3> HIDE DEF Bad
    <3> QED BY Least
  <2>2. n \in Nat /\ n # 0
    BY <2>1, <1>1
  <2>3. n - 1 \in Nat /\ n - 1 \notin Bad
    <3> HIDE DEF Bad
    <3> QED BY <2>1, <2>2
  <2>4. (n - 1) + 1 \notin Bad
    <3> HIDE DEF Bad
    <3> QED BY <2>3, <1>2
  <2> HIDE DEF Bad
  <2> QED BY <2>4, <2>1, <2>2
<1>4. Upto(S, Cardinality(S)) = SUBSET S
  BY FS_Subset, FS_CardinalityType DEF Upto
<1>5. \E g : Recurs(g, f, Upto(S, Cardinality(S)))
  <2> Cardinality(S) \in Nat /\ Cardinality(S) \notin Bad
    <3> HIDE DEF Bad
    <3> QED BY <1>3, FS_CardinalityType
  <2> QED OBVIOUS
<1> QED BY <1>4, <1>5

\* The sum is the value of such a solution, so it unfolds one element at a time.
LEMMA SumUnfolds ==
    ASSUME NEW f, NEW S, IsFiniteSet(S)
    PROVE  \E g : Recurs(g, f, SUBSET S) /\ SumFunctionOnSet(f, S) = g[S]
<1> DEFINE G == CHOOSE g : Recurs(g, f, SUBSET S)
<1>1. Recurs(G, f, SUBSET S)
  BY RecursExists
<1>2. SumFunctionOnSet(f, S) = G[S]
  BY DEF SumFunctionOnSet, FoldFunctionOnSet, MapThenFoldSet, Recurs, Pick
<1> QED BY <1>1, <1>2

(***************************************************************************)
(* When every f[i] is the number of elements of C[i], and no two of these  *)
(* sets meet, the sum of f is the number of elements of their union.       *)
(***************************************************************************)
LEMMA SumCounts ==
    ASSUME NEW S, IsFiniteSet(S), NEW f, NEW C,
           \A i \in S : IsFiniteSet(C[i]) /\ Cardinality(C[i]) = f[i],
           \A i, j \in S : i # j => C[i] \cap C[j] = {}
    PROVE  /\ IsFiniteSet(UNION {C[i] : i \in S})
           /\ Cardinality(UNION {C[i] : i \in S}) = SumFunctionOnSet(f, S)
<1> DEFINE U(T) == UNION {C[i] : i \in T}
<1>1. PICK g : Recurs(g, f, SUBSET S) /\ SumFunctionOnSet(f, S) = g[S]
  BY SumUnfolds
<1> DEFINE Fits(T) == IsFiniteSet(U(T)) /\ Cardinality(U(T)) = g[T]
           Bad == {n \in Nat : \E T \in SUBSET S : Cardinality(T) = n /\ ~ Fits(T)}
<1>2. ASSUME NEW n \in Bad, \A m \in Bad : n <= m PROVE FALSE
  <2>1. PICK T \in SUBSET S : Cardinality(T) = n /\ ~ Fits(T)
    OBVIOUS
  <2>2. IsFiniteSet(T) /\ n \in Nat
    BY <2>1, FS_Subset
  <2>g. g[T] = IF T = {} THEN 0 ELSE f[Pick(T)] + g[T \ {Pick(T)}]
    BY <1>1 DEF Recurs
  <2>3. CASE T = {}
    <3>1. U(T) = {}
      BY <2>3
    <3>2. g[T] = 0
      BY <2>3, <2>g
    <3> HIDE DEF U
    <3> QED BY <3>1, <3>2, <2>1, FS_EmptySet
  <2>4. CASE T # {}
    <3> DEFINE x == Pick(T)
               R == T \ {x}
    <3>1. x \in T /\ x \in S
      BY <2>4 DEF Pick
    <3>2. Cardinality(R) = n - 1 /\ n - 1 \in Nat /\ R \in SUBSET S
      <4>1. Cardinality(R) = n - 1 /\ IsFiniteSet(R)
        BY <2>1, <2>2, <3>1, FS_RemoveElement
      <4> QED BY <4>1, FS_CardinalityType
    <3>3. Fits(R)
      <4>1. n - 1 \notin Bad
        <5> HIDE DEF Bad
        <5> QED BY <1>2, <2>2, <3>2
      <4> HIDE DEF Fits, x, R
      <4> QED BY <4>1, <3>2
    <3>4. U(T) = U(R) \cup C[x]
      BY <3>1
    <3>5. U(R) \cap C[x] = {}
      BY <3>1
    <3>6. IsFiniteSet(C[x]) /\ Cardinality(C[x]) = f[x]
      BY <3>1
    <3>7. g[T] = f[x] + g[R]
      BY <2>g, <2>4
    <3>8. IsFiniteSet(U(T)) /\ Cardinality(U(T)) = Cardinality(U(R)) + Cardinality(C[x])
      <4>1. /\ IsFiniteSet(U(R) \cup C[x])
            /\ Cardinality(U(R) \cup C[x])
                 = Cardinality(U(R)) + Cardinality(C[x]) - Cardinality(U(R) \cap C[x])
        <5> HIDE DEF U, x, R
        <5> QED BY <3>3, <3>6, FS_Union
      <4>2. Cardinality(U(R) \cap C[x]) = 0
        BY <3>5, FS_EmptySet
      <4>3. Cardinality(U(R)) \in Nat /\ Cardinality(C[x]) \in Nat
        <5> HIDE DEF U, x, R
        <5> QED BY <3>3, <3>6, FS_CardinalityType
      <4> HIDE DEF U, x, R
      <4> QED BY <4>1, <4>2, <4>3, <3>4
    <3>9. Fits(T)
      <4>1. Cardinality(U(R)) \in Nat /\ Cardinality(C[x]) \in Nat
        <5> HIDE DEF U, x, R
        <5> QED BY <3>3, <3>6, FS_CardinalityType
      <4> HIDE DEF U, x, R
      <4> QED BY <3>3, <3>6, <3>7, <3>8, <4>1
    <3> HIDE DEF Fits
    <3> QED BY <3>9, <2>1
  <2> QED BY <2>3, <2>4
<1>3. Bad = {}
  <2> Bad \subseteq Nat
    OBVIOUS
  <2> HIDE DEF Bad
  <2> QED BY <1>2, Least
<1>4. Fits(S)
  <2>1. Cardinality(S) \in Nat /\ Cardinality(S) \notin Bad
    <3> HIDE DEF Bad
    <3> QED BY <1>3, FS_CardinalityType
  <2> HIDE DEF Fits
  <2> QED BY <2>1
<1> QED BY <1>4, <1>1
=============================================================================
