----------------------- MODULE CollectionChangeProofs -----------------------
(***************************************************************************)
(* What the operators of CollectionChange do to index sets and moves, for  *)
(* every change set: shifting an index by a set and back, OldIndex, the    *)
(* renumbering of the entries that stay (it is the only increasing map of  *)
(* the indices not inserted onto those not deleted), how the sets of two   *)
(* changes compose when they are merged, and what the two folds of merge   *)
(* over a sequence of moves come to.                                       *)
(***************************************************************************)
EXTENDS CollectionChange, FiniteSetTheorems, WellFoundedInduction, TLAPS

\* A nonempty set of naturals has a least element.
LEMMA LeastNatural ==
    ASSUME NEW T \in SUBSET Nat, T # {}
    PROVE  \E x \in T : \A y \in T : x <= y
<1> DEFINE Segments == {0 .. n : n \in T}
<1>1. Segments \subseteq FiniteSubsetsOf(Nat) /\ Segments # {}
  <2>1. ASSUME NEW n \in T PROVE 0 .. n \in SUBSET Nat /\ IsFiniteSet(0 .. n)
    <3>1. 0 \in Int /\ n \in Int
      OBVIOUS
    <3>. QED
      BY <3>1, FS_Interval
  <2>. QED
    BY <2>1 DEF FiniteSubsetsOf
<1>2. PICK B \in Segments : \A C \in Segments : ~ (<<C, B>> \in StrictSubsetOrdering(Nat))
  BY <1>1, FS_StrictSubsetOrderingWellFounded, WFMin
<1>3. PICK x \in T : B = 0 .. x
  OBVIOUS
<1>4. ASSUME NEW y \in T, y < x PROVE FALSE
  <2>1. 0 .. y \subseteq 0 .. x /\ x \in 0 .. x /\ x \notin 0 .. y
    BY <1>4
  <2>2. <<0 .. y, B>> \in StrictSubsetOrdering(Nat)
    BY <1>3, <2>1 DEF StrictSubsetOrdering
  <2>. QED
    BY <1>2, <2>2
<1>. QED
  BY <1>4

\* A set that holds 0 and, with a number below k, the next one, holds all to k.
LEMMA UpTo ==
    ASSUME NEW k \in Nat, NEW T, 0 \in T,
           \A n \in 0 .. k - 1 : n \in T => n + 1 \in T
    PROVE  \A n \in 0 .. k : n \in T
<1> DEFINE M == {n \in 0 .. k : n \notin T}
<1>1. SUFFICES ASSUME M # {} PROVE FALSE
  OBVIOUS
<1>2. PICK x \in M : \A y \in M : x <= y
  <2>1. M \in SUBSET Nat
    OBVIOUS
  <2>. HIDE DEF M
  <2>. QED
    BY <1>1, <2>1, LeastNatural
<1>3. x # 0 /\ x \in 1 .. k
  OBVIOUS
<1>4. x - 1 \in 0 .. k - 1 /\ x - 1 \notin M
  BY <1>2, <1>3
<1>5. x - 1 \in T /\ (x - 1) + 1 = x
  BY <1>4, <1>3
<1>. QED
  BY <1>4, <1>5

----------------------------------------------------------------------------
(* Shifting and unshifting an index *)

\* The cardinality of the instance is the cardinality.
LEMMA SameCardinality == \A S : Ix!Cardinality(S) = Cardinality(S)
  BY Zenon DEF Ix!Cardinality, Cardinality

\* The positions below n that are not in S.
Free(S, n) == 0 .. n - 1 \ S

\* Taking S out of a list leaves index with as many positions before it as S
\* leaves free.
LEMMA Unshift ==
    ASSUME NEW S \in SUBSET Nat, NEW n \in Nat
    PROVE  /\ IsFiniteSet(Free(S, n))
           /\ Ix!UnshiftIndex(S, n) = Cardinality(Free(S, n))
           /\ Ix!UnshiftIndex(S, n) \in Nat
           /\ Ix!CountBefore(S, n) \in Nat
<1> DEFINE R == 0 .. n - 1
<1>1. IsFiniteSet(R) /\ Cardinality(R) = n
  <2>1. 0 \in Int /\ n - 1 \in Int
    OBVIOUS
  <2>. QED
    BY <2>1, FS_Interval
<1>2. IsFiniteSet(R \ S) /\ Cardinality(R \ S) = n - Cardinality(R \cap S)
  <2>. HIDE DEF R
  <2>. QED
    BY <1>1, FS_Difference
<1>3. R \cap S = Ix!Before(S, n)
  <2>1. ASSUME NEW x \in Nat PROVE x \in R \cap S <=> x \in Ix!Before(S, n)
    BY DEF Ix!Before
  <2>2. R \cap S \subseteq Nat /\ Ix!Before(S, n) \subseteq Nat
    BY DEF Ix!Before
  <2>. QED
    BY <2>1, <2>2
<1>4. Cardinality(R \cap S) \in Nat /\ Cardinality(R \ S) \in Nat
  <2>. HIDE DEF R
  <2>. QED
    BY <1>1, <1>2, FS_Intersection, FS_CardinalityType
<1>5. Ix!CountBefore(S, n) = Cardinality(R \cap S)
  BY <1>3, SameCardinality DEF Ix!CountBefore
<1>6. R \ S = Free(S, n)
  BY DEF Free
<1>7. Ix!UnshiftIndex(S, n) = n - Cardinality(R \cap S)
  BY <1>5 DEF Ix!UnshiftIndex
<1>. HIDE DEF R
<1>. QED
  BY <1>2, <1>4, <1>5, <1>6, <1>7

\* It is one more at the next index, unless index is in S.
LEMMA UnshiftNext ==
    ASSUME NEW S \in SUBSET Nat, NEW n \in Nat
    PROVE  Ix!UnshiftIndex(S, n + 1) =
             IF n \in S THEN Ix!UnshiftIndex(S, n) ELSE Ix!UnshiftIndex(S, n) + 1
<1>1. Ix!UnshiftIndex(S, n) = Cardinality(Free(S, n)) /\ IsFiniteSet(Free(S, n))
  BY Unshift
<1>2. Ix!UnshiftIndex(S, n + 1) = Cardinality(Free(S, n + 1))
  BY Unshift
<1>3. n \notin Free(S, n)
  BY DEF Free
<1>4. CASE n \in S
  <2>1. Free(S, n + 1) = Free(S, n)
    BY <1>4 DEF Free
  <2>. QED
    BY <1>1, <1>2, <1>4, <2>1
<1>5. CASE n \notin S
  <2>1. Free(S, n + 1) = Free(S, n) \cup {n}
    BY <1>5 DEF Free
  <2>. QED
    BY <1>1, <1>2, <1>3, <1>5, <2>1, FS_AddElement
<1>. QED
  BY <1>4, <1>5

\* It does not decrease, and increases after an index that is not in S.
LEMMA UnshiftIncreases ==
    ASSUME NEW S \in SUBSET Nat, NEW m \in Nat, NEW n \in Nat
    PROVE  /\ m <= n => Ix!UnshiftIndex(S, m) <= Ix!UnshiftIndex(S, n)
           /\ m < n /\ m \notin S => Ix!UnshiftIndex(S, m) < Ix!UnshiftIndex(S, n)
<1> DEFINE F == Free(S, m)
           G == Free(S, n)
<1>1. /\ IsFiniteSet(F) /\ IsFiniteSet(G)
      /\ Ix!UnshiftIndex(S, m) = Cardinality(F) /\ Ix!UnshiftIndex(S, n) = Cardinality(G)
      /\ Ix!UnshiftIndex(S, m) \in Nat /\ Ix!UnshiftIndex(S, n) \in Nat
  BY Unshift
<1>2. m <= n => F \subseteq G
  BY DEF Free
<1>3. m < n /\ m \notin S => m \in G /\ m \notin F
  BY DEF Free
<1>. HIDE DEF F, G
<1>4. ASSUME m <= n PROVE Cardinality(F) <= Cardinality(G) /\ (Cardinality(F) = Cardinality(G) => F = G)
  BY <1>1, <1>2, <1>4, FS_Subset
<1>. QED
  BY <1>1, <1>3, <1>4

\* Two indices that are not in S do not unshift to the same one.
LEMMA UnshiftInjective ==
    ASSUME NEW S \in SUBSET Nat, NEW m \in Nat \ S, NEW n \in Nat \ S,
           Ix!UnshiftIndex(S, m) = Ix!UnshiftIndex(S, n)
    PROVE  m = n
<1> DEFINE u == Ix!UnshiftIndex(S, m)
           v == Ix!UnshiftIndex(S, n)
<1>1. u \in Nat /\ v \in Nat /\ (m < n => u < v) /\ (n < m => v < u)
  BY Unshift, UnshiftIncreases
<1>2. u = v
  OBVIOUS
<1>. HIDE DEF u, v
<1>. QED
  BY <1>1, <1>2

\* Shifting by a finite set finds the index outside it that unshifts to index.
LEMMA Shift ==
    ASSUME NEW S \in SUBSET Nat, IsFiniteSet(S), NEW i \in Nat
    PROVE  /\ Ix!ShiftIndex(S, i) \in Nat \ S
           /\ Ix!UnshiftIndex(S, Ix!ShiftIndex(S, i)) = i
<1> DEFINE u(n) == Ix!UnshiftIndex(S, n)
           k == Cardinality(S)
           U == {n \in Nat : u(n + 1) > i}
<1>1. k \in Nat /\ k = Ix!Cardinality(S)
  BY FS_CardinalityType, SameCardinality
<1>2. \A n \in Nat : u(n) \in Nat /\ u(n) <= n /\ n <= u(n) + k
  <2> TAKE n \in Nat
  <2>1. u(n) \in Nat /\ Ix!CountBefore(S, n) \in Nat
    BY Unshift
  <2>2. u(n) = n - Ix!CountBefore(S, n)
    BY DEF Ix!UnshiftIndex
  <2>3. Ix!Before(S, n) \in SUBSET S
    BY DEF Ix!Before
  <2>4. Ix!CountBefore(S, n) <= k
    BY <2>3, FS_Subset, SameCardinality DEF Ix!CountBefore
  <2>. HIDE DEF u, k
  <2>. QED
    BY <1>1, <2>1, <2>2, <2>4
<1>3. \A n \in Nat : u(n + 1) = IF n \in S THEN u(n) ELSE u(n) + 1
  BY UnshiftNext
<1>. HIDE DEF u, k
<1>4. i + k \in U
  <2>1. i + k \in Nat /\ (i + k) + 1 \in Nat
    BY <1>1
  <2>2. (i + k) + 1 <= u((i + k) + 1) + k /\ u((i + k) + 1) \in Nat
    BY <1>2, <2>1
  <2>3. u((i + k) + 1) > i
    BY <1>1, <2>2
  <2>. QED
    BY <2>1, <2>3
<1>5. PICK m \in U : \A n \in U : m <= n
  <2>1. U \in SUBSET Nat /\ U # {}
    BY <1>4
  <2>. HIDE DEF U
  <2>. QED
    BY <2>1, LeastNatural
<1>6. m \in Nat /\ u(m + 1) > i /\ u(m) \in Nat
  BY <1>2, <1>5
<1>7. u(m) <= i
  <2>1. CASE m = 0
    <3>1. u(m) <= m
      BY <1>2, <1>6
    <3>. QED
      BY <1>6, <2>1, <3>1
  <2>2. CASE m # 0
    <3>1. m - 1 \in Nat /\ m - 1 \notin U /\ (m - 1) + 1 = m
      BY <1>5, <1>6, <2>2
    <3>2. ~ (u(m) > i)
      BY <3>1
    <3>. QED
      BY <1>6, <3>2
  <2>. QED
    BY <2>1, <2>2
<1>8. m \notin S /\ u(m) = i
  BY <1>3, <1>6, <1>7
<1>9. m \in i .. i + k
  BY <1>1, <1>2, <1>6, <1>8
<1>10. m \in i .. i + Ix!Cardinality(S) /\ Ix!UnshiftIndex(S, m) = i
  BY <1>1, <1>8, <1>9 DEF u
<1> DEFINE s == Ix!ShiftIndex(S, i)
<1>11. s \in i .. i + Ix!Cardinality(S) /\ s \notin S /\ Ix!UnshiftIndex(S, s) = i
  BY <1>8, <1>10 DEF Ix!ShiftIndex
<1>12. s \in Nat
  BY <1>1, <1>11
<1>. QED
  BY <1>11, <1>12

\* and takes an index outside the set back to where it was.
LEMMA ShiftUnshift ==
    ASSUME NEW S \in SUBSET Nat, IsFiniteSet(S), NEW n \in Nat \ S
    PROVE  Ix!ShiftIndex(S, Ix!UnshiftIndex(S, n)) = n
<1> DEFINE i == Ix!UnshiftIndex(S, n)
<1>1. i \in Nat
  BY Unshift
<1>2. Ix!ShiftIndex(S, i) \in Nat \ S /\ Ix!UnshiftIndex(S, Ix!ShiftIndex(S, i)) = i
  BY <1>1, Shift
<1>. QED
  BY <1>2, UnshiftInjective

\* Shifting keeps the order.
LEMMA ShiftIncreases ==
    ASSUME NEW S \in SUBSET Nat, IsFiniteSet(S), NEW i \in Nat, NEW j \in Nat, i < j
    PROVE  Ix!ShiftIndex(S, i) < Ix!ShiftIndex(S, j)
<1> DEFINE m == Ix!ShiftIndex(S, i)
           n == Ix!ShiftIndex(S, j)
<1>1. m \in Nat /\ n \in Nat /\ Ix!UnshiftIndex(S, m) = i /\ Ix!UnshiftIndex(S, n) = j
  BY Shift
<1>. HIDE DEF m, n
<1>2. n <= m => j <= i
  BY <1>1, UnshiftIncreases
<1>3. m < n
  BY <1>1, <1>2
<1>. QED
  BY <1>3 DEF m, n

----------------------------------------------------------------------------
(* Renumbering *)

\* Where the new index n was, when D is deleted and I inserted.
OldIndex(D, I, n) == Ix!ShiftIndex(D, Ix!UnshiftIndex(I, n))

\* Seen from the new collection, old indices are a one-to-one map that keeps
\* the order,
Renumbers(f, A, B) ==
    /\ f \in [A -> B]
    /\ \A m, n \in A : m < n => f[m] < f[n]
    /\ \A k \in B : \E n \in A : f[n] = k

\* whose inverse is that of the change backwards.
LEMMA OldIndexInverse ==
    ASSUME NEW D \in SUBSET Nat, IsFiniteSet(D), NEW I \in SUBSET Nat, IsFiniteSet(I),
           NEW n \in Nat \ I
    PROVE  /\ OldIndex(D, I, n) \in Nat \ D
           /\ OldIndex(I, D, OldIndex(D, I, n)) = n
<1> DEFINE i == Ix!UnshiftIndex(I, n)
<1>1. i \in Nat
  BY Unshift
<1>2. Ix!ShiftIndex(D, i) \in Nat \ D /\ Ix!UnshiftIndex(D, Ix!ShiftIndex(D, i)) = i
  BY <1>1, Shift
<1>. QED
  BY <1>2, ShiftUnshift DEF OldIndex

\* OldIndex keeps the order of the entries that are not inserted.
LEMMA OldIndexIncreases ==
    ASSUME NEW D \in SUBSET Nat, IsFiniteSet(D), NEW I \in SUBSET Nat, IsFiniteSet(I),
           NEW m \in Nat \ I, NEW n \in Nat \ I, m < n
    PROVE  OldIndex(D, I, m) < OldIndex(D, I, n)
<1>1. Ix!UnshiftIndex(I, m) \in Nat /\ Ix!UnshiftIndex(I, n) \in Nat
  BY Unshift
<1>2. Ix!UnshiftIndex(I, m) < Ix!UnshiftIndex(I, n)
  BY UnshiftIncreases
<1>. QED
  BY <1>1, <1>2, ShiftIncreases DEF OldIndex

\* OldIndex renumbers: it is the increasing map of the indices that are not
\* inserted onto those that are not deleted.
LEMMA OldIndexRenumbers ==
    ASSUME NEW D \in SUBSET Nat, IsFiniteSet(D), NEW I \in SUBSET Nat, IsFiniteSet(I)
    PROVE  Renumbers([n \in Nat \ I |-> OldIndex(D, I, n)], Nat \ I, Nat \ D)
<1> DEFINE f == [n \in Nat \ I |-> OldIndex(D, I, n)]
<1>1. f \in [Nat \ I -> Nat \ D]
  BY OldIndexInverse
<1>2. \A m, n \in Nat \ I : m < n => f[m] < f[n]
  BY OldIndexIncreases
<1>3. \A k \in Nat \ D : \E n \in Nat \ I : f[n] = k
  BY OldIndexInverse
<1>. QED
  BY <1>1, <1>2, <1>3 DEF Renumbers

\* The old indices are the only such map: between the indices free before n
\* and those free before its image there is a bijection.
LEMMA OnlyRenumbering ==
    ASSUME NEW D \in SUBSET Nat, IsFiniteSet(D), NEW I \in SUBSET Nat, IsFiniteSet(I),
           NEW f, Renumbers(f, Nat \ I, Nat \ D), NEW n \in Nat \ I
    PROVE  OldIndex(D, I, n) = f[n]
<1> DEFINE F == Free(I, n)
           G == Free(D, f[n])
           g == [x \in F |-> f[x]]
<1>1. /\ \A x \in Nat \ I : f[x] \in Nat \ D
      /\ \A x, y \in Nat \ I : x < y => f[x] < f[y]
      /\ \A k \in Nat \ D : \E x \in Nat \ I : f[x] = k
  BY DEF Renumbers
<1>2. \A x \in Nat \ I : x \in F <=> x < n
  BY DEF Free
<1>3. \A k \in Nat \ D : k \in G <=> k < f[n]
  BY <1>1 DEF Free
<1>4. F \subseteq Nat \ I /\ G \subseteq Nat \ D
  BY DEF Free
<1>5. \A x, y \in Nat \ I : f[x] = f[y] => x = y
  <2> TAKE x, y \in Nat \ I
  <2>1. x \in Nat /\ y \in Nat /\ f[x] \in Nat /\ f[y] \in Nat
    BY <1>1
  <2>2. (x < y => f[x] < f[y]) /\ (y < x => f[y] < f[x])
    BY <1>1
  <2>. QED
    BY <2>1, <2>2
<1>6. \A x \in Nat \ I : f[x] < f[n] => x < n
  <2> TAKE x \in Nat \ I
  <2>1. x \in Nat /\ n \in Nat /\ f[x] \in Nat /\ f[n] \in Nat
    BY <1>1
  <2>2. n < x => f[n] < f[x]
    BY <1>1
  <2>. QED
    BY <2>1, <2>2
<1>. HIDE DEF F, G
<1>7. g \in [F -> G]
  BY <1>1, <1>2, <1>3, <1>4
<1>8. \A x, y \in F : g[x] = g[y] => x = y
  BY <1>4, <1>5
<1>9. \A k \in G : \E x \in F : g[x] = k
  <2> TAKE k \in G
  <2>1. PICK x \in Nat \ I : f[x] = k
    BY <1>1, <1>4
  <2>2. x < n
    BY <1>3, <1>4, <1>6, <2>1
  <2>. QED
    BY <1>2, <2>1, <2>2
<1>10. ExistsBijection(F, G)
  <2>1. g \in Injection(F, G)
    BY <1>7, <1>8 DEF Injection, IsInjective
  <2>2. g \in Surjection(F, G)
    BY <1>7, <1>9 DEF Surjection
  <2>. QED
    BY <2>1, <2>2 DEF ExistsBijection, Bijection
<1>11. /\ IsFiniteSet(F) /\ Ix!UnshiftIndex(I, n) = Cardinality(F)
       /\ Ix!UnshiftIndex(D, f[n]) = Cardinality(G)
  BY <1>1, Unshift DEF F, G
<1>12. Ix!UnshiftIndex(D, f[n]) = Ix!UnshiftIndex(I, n)
  BY <1>10, <1>11, FS_Bijection
<1>13. Ix!ShiftIndex(D, Ix!UnshiftIndex(D, f[n])) = f[n]
  BY <1>1, ShiftUnshift
<1>. QED
  BY <1>12, <1>13 DEF OldIndex

\* Two renumberings in a row are one.
LEMMA RenumbersTwice ==
    ASSUME NEW A \in SUBSET Nat, NEW B \in SUBSET Nat, NEW C \in SUBSET Nat,
           NEW f, Renumbers(f, A, B), NEW g, Renumbers(g, B, C)
    PROVE  Renumbers([n \in A |-> g[f[n]]], A, C)
  BY DEF Renumbers

\* Indices that are marked as inserted while their old ones are marked as
\* deleted leave the other indices alone.
LEMMA RenumbersRest ==
    ASSUME NEW D \in SUBSET Nat, IsFiniteSet(D), NEW I \in SUBSET Nat, IsFiniteSet(I),
           NEW E \in SUBSET (Nat \ I)
    PROVE  Renumbers([n \in Nat \ (I \cup E) |-> OldIndex(D, I, n)], Nat \ (I \cup E),
                     Nat \ (D \cup {OldIndex(D, I, e) : e \in E}))
<1> DEFINE old(n) == OldIndex(D, I, n)
           f == [n \in Nat \ (I \cup E) |-> old(n)]
           X == {old(e) : e \in E}
<1>1. \A n \in Nat \ I : old(n) \in Nat \ D /\ OldIndex(I, D, old(n)) = n
  BY OldIndexInverse
<1>2. \A m, n \in Nat \ I : m < n => old(m) < old(n)
  BY OldIndexIncreases
<1>3. \A k \in Nat \ D : OldIndex(I, D, k) \in Nat \ I /\ old(OldIndex(I, D, k)) = k
  BY OldIndexInverse
<1>. HIDE DEF old
<1>4. ASSUME NEW n \in Nat \ (I \cup E) PROVE f[n] \in Nat \ (D \cup X)
  <2>1. old(n) \notin X
    BY <1>1
  <2>. QED
    BY <1>1, <2>1
<1>5. \A m, n \in Nat \ (I \cup E) : m < n => f[m] < f[n]
  BY <1>2
<1>6. ASSUME NEW k \in Nat \ (D \cup X) PROVE \E n \in Nat \ (I \cup E) : f[n] = k
  <2>1. OldIndex(I, D, k) \notin E
    BY <1>3
  <2>. QED
    BY <1>3, <2>1
<1>7. f \in [Nat \ (I \cup E) -> Nat \ (D \cup X)]
  BY <1>4
<1>. QED
  BY <1>5, <1>6, <1>7 DEF Renumbers, old

\* The positions inserted and deleted are added in pairs.
LEMMA OldIndexOfRest ==
    ASSUME NEW D \in SUBSET Nat, IsFiniteSet(D), NEW I \in SUBSET Nat, IsFiniteSet(I),
           NEW p \in Nat \ I, NEW n \in Nat \ I, n # p
    PROVE  OldIndex(D \cup {OldIndex(D, I, p)}, I \cup {p}, n) = OldIndex(D, I, n)
<1> DEFINE X == {OldIndex(D, I, e) : e \in {p}}
           f == [k \in Nat \ (I \cup {p}) |-> OldIndex(D, I, k)]
<1>1. Renumbers(f, Nat \ (I \cup {p}), Nat \ (D \cup X))
  BY RenumbersRest
<1>2. X = {OldIndex(D, I, p)} /\ OldIndex(D, I, p) \in Nat
  BY OldIndexInverse
<1>3. /\ D \cup X \in SUBSET Nat /\ IsFiniteSet(D \cup X)
      /\ I \cup {p} \in SUBSET Nat /\ IsFiniteSet(I \cup {p})
  BY <1>2, FS_AddElement
<1>4. OldIndex(D \cup X, I \cup {p}, n) = f[n]
  <2>. HIDE DEF f, X
  <2>. QED
    BY <1>1, <1>3, OnlyRenumbering
<1>. QED
  BY <1>2, <1>4

\* What is in a set after an insertion at p,
LEMMA InShifted ==
    ASSUME NEW S \in SUBSET Nat, NEW p \in Nat, NEW k \in Nat
    PROVE  /\ Ix!ShiftForInsertAt(S, p, k) \in SUBSET Nat
           /\ \A n \in Nat : n \in Ix!ShiftForInsertAt(S, p, k) <=>
                (n < p /\ n \in S) \/ (n >= p + k /\ n - k \in S)
<1> DEFINE J == Ix!ShiftForInsertAt(S, p, k)
<1>1. J = {x \in S : x < p} \cup {x + k : x \in S \ {y \in S : y < p}}
  BY DEF Ix!ShiftForInsertAt, Ix!Before
<1>2. \A n \in Nat : n \in {x + k : x \in S \ {y \in S : y < p}} <=> n >= p + k /\ n - k \in S
  <2> TAKE n \in Nat
  <2>1. ASSUME NEW x \in S, ~ (x < p), n = x + k PROVE n >= p + k /\ n - k \in S
    <3>1. x \in Nat /\ n - k = x
      BY <2>1
    <3>. QED
      BY <2>1, <3>1
  <2>2. ASSUME n >= p + k, n - k \in S
        PROVE  \E x \in S \ {y \in S : y < p} : n = x + k
    <3>1. n = (n - k) + k /\ ~ (n - k < p)
      BY <2>2
    <3>. QED
      BY <2>2, <3>1
  <2>. QED
    BY <2>1, <2>2
<1>3. \A x \in S : x + k \in Nat
  OBVIOUS
<1>. QED
  BY <1>1, <1>2, <1>3

\* The members after positions are inserted.
LEMMA InInserted ==
    ASSUME NEW S \in SUBSET Nat, NEW p \in Nat, NEW k \in Nat
    PROVE  /\ Ix!InsertAt(S, p, k) \in SUBSET Nat
           /\ \A n \in Nat : n \in Ix!InsertAt(S, p, k) <=>
                \/ n < p /\ n \in S
                \/ n \in p .. p + k - 1
                \/ n >= p + k /\ n - k \in S
<1>1. p .. p + k - 1 \subseteq Nat
  OBVIOUS
<1>. QED
  BY <1>1, InShifted DEF Ix!InsertAt

\* and after a deletion.
LEMMA UnshiftOne ==
    ASSUME NEW p \in Nat, NEW x \in Nat
    PROVE  Ix!UnshiftIndex({p}, x) = IF p < x THEN x - 1 ELSE x
<1>1. p < x => Ix!Before({p}, x) = {p}
  BY DEF Ix!Before
<1>2. ~ (p < x) => Ix!Before({p}, x) = {}
  BY DEF Ix!Before
<1>3. p < x => Ix!CountBefore({p}, x) = 1
  BY <1>1, SameCardinality, FS_Singleton DEF Ix!CountBefore
<1>4. ~ (p < x) => Ix!CountBefore({p}, x) = 0
  BY <1>2, SameCardinality, FS_EmptySet DEF Ix!CountBefore
<1>. QED
  BY <1>3, <1>4 DEF Ix!UnshiftIndex

\* The members after a position is erased.
LEMMA InErased ==
    ASSUME NEW S \in SUBSET Nat, NEW p \in Nat
    PROVE  /\ Ix!EraseAt(S, p) \in SUBSET Nat
           /\ \A n \in Nat : n \in Ix!EraseAt(S, p) <=>
                (n < p /\ n \in S) \/ (n >= p /\ n + 1 \in S)
<1> DEFINE J == Ix!EraseAt(S, p)
<1>1. J = {IF p < x THEN x - 1 ELSE x : x \in S \ {p}}
  BY UnshiftOne DEF Ix!EraseAt
<1>2. \A n \in Nat : n \in J <=> (n < p /\ n \in S) \/ (n >= p /\ n + 1 \in S)
  <2> TAKE n \in Nat
  <2>1. ASSUME NEW x \in S \ {p}, n = IF p < x THEN x - 1 ELSE x
        PROVE  (n < p /\ n \in S) \/ (n >= p /\ n + 1 \in S)
    <3>1. CASE p < x
      <4>1. n + 1 = x /\ n >= p
        BY <2>1, <3>1
      <4>. QED
        BY <4>1
    <3>2. CASE ~ (p < x)
      BY <2>1, <3>2
    <3>. QED
      BY <3>1, <3>2
  <2>2. ASSUME n \in S, n < p PROVE n \in J
    <3>1. n \in S \ {p} /\ ~ (p < n)
      BY <2>2
    <3>. QED
      BY <1>1, <3>1
  <2>3. ASSUME n >= p, n + 1 \in S PROVE n \in J
    <3>1. n + 1 \in S \ {p} /\ p < n + 1 /\ (n + 1) - 1 = n
      BY <2>3
    <3>. QED
      BY <1>1, <3>1
  <2>. QED
    BY <1>1, <2>1, <2>2, <2>3
<1>3. \A x \in S \ {p} : (IF p < x THEN x - 1 ELSE x) \in Nat
  OBVIOUS
<1>. QED
  BY <1>1, <1>2, <1>3

\* The sets stay finite.
LEMMA FiniteImage ==
    ASSUME NEW S, IsFiniteSet(S), NEW f
    PROVE  IsFiniteSet({f[x] : x \in S})
<1> DEFINE T == {f[x] : x \in S}
           g == [x \in S |-> f[x]]
<1>1. g \in Surjection(S, T)
  BY DEF Surjection
<1>. HIDE DEF T, g
<1>2. IsFiniteSet(T)
  BY <1>1, FS_Surjection
<1>. QED
  BY <1>2 DEF T

\* The sets stay finite.
LEMMA FiniteAfter ==
    ASSUME NEW S \in SUBSET Nat, IsFiniteSet(S), NEW p \in Nat, NEW k \in Nat
    PROVE  /\ IsFiniteSet(Ix!ShiftForInsertAt(S, p, k))
           /\ IsFiniteSet(Ix!InsertAt(S, p, k))
           /\ IsFiniteSet(Ix!EraseAt(S, p))
<1>1. IsFiniteSet({x \in S : x < p}) /\ IsFiniteSet(S \ {x \in S : x < p}) /\ IsFiniteSet(S \ {p})
  BY FS_Subset
<1>2. IsFiniteSet({x + k : x \in S \ {y \in S : y < p}})
  <2> DEFINE R == S \ {y \in S : y < p}
             f == [x \in R |-> x + k]
  <2>1. IsFiniteSet({f[x] : x \in R})
    <3>. HIDE DEF f
    <3>. QED
      BY <1>1, FiniteImage
  <2>2. {f[x] : x \in R} = {x + k : x \in R}
    OBVIOUS
  <2>. QED
    BY <2>1, <2>2
<1>3. IsFiniteSet(Ix!ShiftForInsertAt(S, p, k))
  BY <1>1, <1>2, FS_Union DEF Ix!ShiftForInsertAt, Ix!Before
<1>4. IsFiniteSet(p .. p + k - 1)
  <2>1. p \in Int /\ p + k - 1 \in Int
    OBVIOUS
  <2>. QED
    BY <2>1, FS_Interval
<1>5. IsFiniteSet(Ix!InsertAt(S, p, k))
  BY <1>3, <1>4, FS_Union DEF Ix!InsertAt
<1>6. IsFiniteSet(Ix!EraseAt(S, p))
  <2> DEFINE R == S \ {p}
             f == [x \in R |-> Ix!UnshiftIndex({p}, x)]
  <2>1. IsFiniteSet({f[x] : x \in R})
    <3>. HIDE DEF f
    <3>. QED
      BY <1>1, FiniteImage
  <2>2. {f[x] : x \in R} = Ix!EraseAt(S, p)
    BY DEF Ix!EraseAt
  <2>. QED
    BY <2>1, <2>2
<1>. QED
  BY <1>3, <1>5, <1>6

\* Insertion: the indices after the new positions have moved back.
LEMMA InsertionRenumbers ==
    ASSUME NEW D \in SUBSET Nat, IsFiniteSet(D), NEW I \in SUBSET Nat, IsFiniteSet(I),
           NEW p \in Nat, NEW k \in Nat, NEW n \in Nat \ Ix!InsertAt(I, p, k)
    PROVE  LET back == IF n < p THEN n ELSE n - k
           IN  /\ back \in Nat \ I /\ n \notin p .. p + k - 1
               /\ OldIndex(D, Ix!InsertAt(I, p, k), n) = OldIndex(D, I, back)
<1> DEFINE J == Ix!InsertAt(I, p, k)
           back == [m \in Nat \ J |-> IF m < p THEN m ELSE m - k]
           old == [m \in Nat \ I |-> OldIndex(D, I, m)]
           both == [m \in Nat \ J |-> old[back[m]]]
<1>1. J \in SUBSET Nat /\ IsFiniteSet(J) /\ n \in Nat \ J
  BY InInserted, FiniteAfter
<1>2. \A m \in Nat : m \in J <=> \/ m < p /\ m \in I
                                 \/ m \in p .. p + k - 1
                                 \/ m >= p + k /\ m - k \in I
  BY InInserted
<1>. HIDE DEF J
<1>3. \A m \in Nat \ J : back[m] \in Nat \ I /\ (m < p \/ m >= p + k)
  BY <1>2
<1>4. \A l, m \in Nat \ J : l < m => back[l] < back[m]
  BY <1>3
<1>5. \A x \in Nat \ I : \E m \in Nat \ J : back[m] = x
  <2> TAKE x \in Nat \ I
  <2>1. CASE x < p
    BY <1>2, <2>1
  <2>2. CASE x >= p
    <3>1. x + k \in Nat \ J /\ (x + k) - k = x /\ ~ (x + k < p)
      BY <1>2, <2>2
    <3>. QED
      BY <3>1
  <2>. QED
    BY <2>1, <2>2
<1>6. Renumbers(back, Nat \ J, Nat \ I)
  BY <1>3, <1>4, <1>5 DEF Renumbers
<1>7. Renumbers(old, Nat \ I, Nat \ D)
  BY OldIndexRenumbers
<1>8. back[n] = IF n < p THEN n ELSE n - k
  BY <1>1
<1>9. old[back[n]] = OldIndex(D, I, back[n]) /\ both[n] = old[back[n]]
  BY <1>1, <1>3
<1>10. Renumbers(both, Nat \ J, Nat \ D)
  <2>. HIDE DEF back, old
  <2>. QED
    BY <1>1, <1>6, <1>7, RenumbersTwice
<1>11. OldIndex(D, J, n) = both[n]
  <2>. HIDE DEF both
  <2>. QED
    BY <1>1, <1>10, OnlyRenumbering
<1>12. back[n] \in Nat \ I /\ n \notin p .. p + k - 1
  BY <1>1, <1>3
<1>13. OldIndex(D, J, n) = OldIndex(D, I, back[n])
  BY <1>9, <1>11
<1>. HIDE DEF back
<1>. QED
  BY <1>8, <1>12, <1>13 DEF J

\* The deletions once the index p is deleted, if it was not inserted.
DeletionsWith(D, I, p) == IF p \in I THEN D ELSE D \cup {OldIndex(D, I, p)}

\* Deletion: the indices after the deleted position have moved forward.
LEMMA DeletionRenumbers ==
    ASSUME NEW D \in SUBSET Nat, IsFiniteSet(D), NEW I \in SUBSET Nat, IsFiniteSet(I),
           NEW p \in Nat, NEW n \in Nat \ Ix!EraseAt(I, p)
    PROVE  LET fwd == IF n < p THEN n ELSE n + 1
           IN  /\ fwd \in Nat \ I /\ fwd # p
               /\ OldIndex(DeletionsWith(D, I, p), Ix!EraseAt(I, p), n) = OldIndex(D, I, fwd)
<1> DEFINE J == Ix!EraseAt(I, p)
           K == I \cup {p}
           D2 == IF p \in I THEN D ELSE D \cup {OldIndex(D, I, p)}
           fwd == [m \in Nat \ J |-> IF m < p THEN m ELSE m + 1]
           old == [m \in Nat \ K |-> OldIndex(D2, K, m)]
           both == [m \in Nat \ J |-> old[fwd[m]]]
<1>1. J \in SUBSET Nat /\ IsFiniteSet(J) /\ n \in Nat \ J
  <2>1. 0 \in Nat
    OBVIOUS
  <2>. QED
    BY <2>1, InErased, FiniteAfter
<1>2. \A m \in Nat : m \in J <=> (m < p /\ m \in I) \/ (m >= p /\ m + 1 \in I)
  BY InErased
<1>3. /\ K \in SUBSET Nat /\ IsFiniteSet(K)
      /\ D2 \in SUBSET Nat /\ IsFiniteSet(D2)
  <2>1. p \notin I => OldIndex(D, I, p) \in Nat
    BY OldIndexInverse
  <2>. QED
    BY <2>1, FS_AddElement
<1>4. \A m \in Nat \ K : OldIndex(D2, K, m) = OldIndex(D, I, m)
  <2>1. CASE p \in I
    <3>1. K = I /\ D2 = D
      BY <2>1
    <3>. QED
      BY <3>1
  <2>2. CASE p \notin I
    BY <2>2, OldIndexOfRest
  <2>. QED
    BY <2>1, <2>2
<1>. HIDE DEF J, D2
<1>5. \A m \in Nat \ J : fwd[m] \in Nat \ K
  BY <1>2
<1>6. \A l, m \in Nat \ J : l < m => fwd[l] < fwd[m]
  OBVIOUS
<1>7. \A x \in Nat \ K : \E m \in Nat \ J : fwd[m] = x
  <2> TAKE x \in Nat \ K
  <2>1. CASE x < p
    BY <1>2, <2>1
  <2>2. CASE x > p
    <3>1. x - 1 \in Nat \ J /\ (x - 1) + 1 = x /\ ~ (x - 1 < p)
      BY <1>2, <2>2
    <3>. QED
      BY <3>1
  <2>. QED
    BY <2>1, <2>2
<1>8. Renumbers(fwd, Nat \ J, Nat \ K)
  BY <1>5, <1>6, <1>7 DEF Renumbers
<1>9. Renumbers(old, Nat \ K, Nat \ D2)
  <2>. HIDE DEF K
  <2>. QED
    BY <1>3, OldIndexRenumbers
<1>10. fwd[n] = IF n < p THEN n ELSE n + 1
  BY <1>1
<1>11. old[fwd[n]] = OldIndex(D, I, fwd[n]) /\ both[n] = old[fwd[n]]
  BY <1>1, <1>4, <1>5
<1>12. Renumbers(both, Nat \ J, Nat \ D2)
  <2>. HIDE DEF fwd, old
  <2>. QED
    BY <1>1, <1>3, <1>8, <1>9, RenumbersTwice
<1>13. OldIndex(D2, J, n) = both[n]
  <2>. HIDE DEF both
  <2>. QED
    BY <1>1, <1>3, <1>12, OnlyRenumbering
<1>14. fwd[n] \in Nat \ I /\ fwd[n] # p
  BY <1>1, <1>5
<1>15. OldIndex(D2, J, n) = OldIndex(D, I, fwd[n])
  BY <1>11, <1>13
<1>16. D2 = DeletionsWith(D, I, p)
  BY DEF D2, DeletionsWith
<1>. HIDE DEF fwd
<1>. QED
  BY <1>10, <1>14, <1>15, <1>16 DEF J

----------------------------------------------------------------------------
(* Merging *)

\* What merge makes of the deletions and the insertions of two changes.
MergedDeletions(D1, I1, D2) == Ix!AddShiftedBy(D1, I1, D2)
MergedInsertions(I1, D2, I2) == Ix!InsertAll(Ix!EraseAll(I1, D2), I2)

\* The merged sets by the old indices of their members, and that they are sets
\* of positions again.
LEMMA MergedSets ==
    ASSUME NEW D1 \in SUBSET Nat, IsFiniteSet(D1), NEW I1 \in SUBSET Nat, IsFiniteSet(I1),
           NEW D2 \in SUBSET Nat, IsFiniteSet(D2), NEW I2 \in SUBSET Nat, IsFiniteSet(I2)
    PROVE  /\ MergedDeletions(D1, I1, D2) = D1 \cup {OldIndex(D1, I1, v) : v \in D2 \ I1}
           /\ MergedInsertions(I1, D2, I2) = I2 \cup {OldIndex(I2, D2, x) : x \in I1 \ D2}
           /\ MergedDeletions(D1, I1, D2) \in SUBSET Nat
           /\ IsFiniteSet(MergedDeletions(D1, I1, D2))
           /\ MergedInsertions(I1, D2, I2) \in SUBSET Nat
           /\ IsFiniteSet(MergedInsertions(I1, D2, I2))
<1>1. MergedDeletions(D1, I1, D2) = D1 \cup {OldIndex(D1, I1, v) : v \in D2 \ I1}
  BY DEF MergedDeletions, Ix!AddShiftedBy, OldIndex
<1>2. MergedInsertions(I1, D2, I2) = I2 \cup {OldIndex(I2, D2, x) : x \in I1 \ D2}
  BY DEF MergedInsertions, Ix!InsertAll, Ix!ShiftForInsertAll, Ix!EraseAll, OldIndex
<1>3. /\ \A v \in D2 \ I1 : OldIndex(D1, I1, v) \in Nat
      /\ \A x \in I1 \ D2 : OldIndex(I2, D2, x) \in Nat
  BY OldIndexInverse
<1>4. IsFiniteSet({OldIndex(D1, I1, v) : v \in D2 \ I1})
  <2> DEFINE R == D2 \ I1
             f == [v \in R |-> OldIndex(D1, I1, v)]
  <2>1. IsFiniteSet(R)
    BY FS_Subset
  <2>2. IsFiniteSet({f[v] : v \in R})
    <3>. HIDE DEF f, R
    <3>. QED
      BY <2>1, FiniteImage
  <2>3. {f[v] : v \in R} = {OldIndex(D1, I1, v) : v \in R}
    OBVIOUS
  <2>. QED
    BY <2>2, <2>3
<1>5. IsFiniteSet({OldIndex(I2, D2, x) : x \in I1 \ D2})
  <2> DEFINE R == I1 \ D2
             f == [x \in R |-> OldIndex(I2, D2, x)]
  <2>1. IsFiniteSet(R)
    BY FS_Subset
  <2>2. IsFiniteSet({f[x] : x \in R})
    <3>. HIDE DEF f, R
    <3>. QED
      BY <2>1, FiniteImage
  <2>3. {f[x] : x \in R} = {OldIndex(I2, D2, x) : x \in R}
    OBVIOUS
  <2>. QED
    BY <2>2, <2>3
<1>6. /\ IsFiniteSet(D1 \cup {OldIndex(D1, I1, v) : v \in D2 \ I1})
      /\ IsFiniteSet(I2 \cup {OldIndex(I2, D2, x) : x \in I1 \ D2})
  BY <1>4, <1>5, FS_Union
<1>. QED
  BY <1>1, <1>2, <1>3, <1>6

\* The old index of an index after both changes is what the first one makes of
\* what the second one makes of it, neither deleted nor inserted on the way.
THEOREM MergeRenumbers ==
    ASSUME NEW D1 \in SUBSET Nat, IsFiniteSet(D1), NEW I1 \in SUBSET Nat, IsFiniteSet(I1),
           NEW D2 \in SUBSET Nat, IsFiniteSet(D2), NEW I2 \in SUBSET Nat, IsFiniteSet(I2),
           NEW n \in Nat \ MergedInsertions(I1, D2, I2)
    PROVE  LET m == OldIndex(D2, I2, n)
           IN  /\ n \notin I2 /\ m \in Nat \ (D2 \cup I1)
               /\ OldIndex(MergedDeletions(D1, I1, D2), MergedInsertions(I1, D2, I2), n)
                    = OldIndex(D1, I1, m)
<1> DEFINE old1(m) == OldIndex(D1, I1, m)
           old2(m) == OldIndex(D2, I2, m)
           new2(m) == OldIndex(I2, D2, m)
           X1 == {old1(v) : v \in D2 \ I1}
           X2 == {new2(x) : x \in I1 \ D2}
           D == D1 \cup X1
           I == I2 \cup X2
           Mid == Nat \ (D2 \cup I1)
           f == [m \in Nat \ I |-> old2(m)]
           g == [m \in Mid |-> old1(m)]
           both == [m \in Nat \ I |-> g[f[m]]]
<1>1. /\ D = MergedDeletions(D1, I1, D2) /\ D \in SUBSET Nat /\ IsFiniteSet(D)
      /\ I = MergedInsertions(I1, D2, I2) /\ I \in SUBSET Nat /\ IsFiniteSet(I)
  <2>1. D = MergedDeletions(D1, I1, D2)
    BY MergedSets
  <2>2. I = MergedInsertions(I1, D2, I2)
    BY MergedSets
  <2>. HIDE DEF D, I
  <2>. QED
    BY <2>1, <2>2, MergedSets
<1>2. Renumbers(g, Mid, Nat \ D)
  <2>1. Renumbers([m \in Nat \ (I1 \cup (D2 \ I1)) |-> OldIndex(D1, I1, m)],
                  Nat \ (I1 \cup (D2 \ I1)), Nat \ D)
    BY RenumbersRest
  <2>2. Nat \ (I1 \cup (D2 \ I1)) = Mid
    OBVIOUS
  <2>. QED
    BY <2>1, <2>2
<1>3. \A x \in Nat \ D2 : new2(x) \in Nat \ I2 /\ old2(new2(x)) = x
  BY OldIndexInverse
<1>4. Renumbers(f, Nat \ I, Mid)
  <2>1. X2 \in SUBSET (Nat \ I2)
    BY <1>3
  <2>2. {old2(e) : e \in X2} = I1 \ D2
    <3>1. \A e \in X2 : old2(e) \in I1 \ D2
      BY <1>3
    <3>2. \A x \in I1 \ D2 : new2(x) \in X2 /\ old2(new2(x)) = x
      BY <1>3
    <3>. HIDE DEF X2, old2, new2
    <3>. QED
      BY <3>1, <3>2
  <2>3. Renumbers([m \in Nat \ (I2 \cup X2) |-> OldIndex(D2, I2, m)],
                  Nat \ (I2 \cup X2), Nat \ (D2 \cup {OldIndex(D2, I2, e) : e \in X2}))
    <3>. HIDE DEF X2
    <3>. QED
      BY <2>1, RenumbersRest
  <2>4. Nat \ (D2 \cup (I1 \ D2)) = Mid
    OBVIOUS
  <2>. HIDE DEF X2
  <2>. QED
    BY <2>2, <2>3, <2>4
<1>5. n \in Nat \ I
  BY <1>1
<1>6. Renumbers(both, Nat \ I, Nat \ D)
  <2>1. Nat \ I \in SUBSET Nat /\ Mid \in SUBSET Nat /\ Nat \ D \in SUBSET Nat
    OBVIOUS
  <2>. HIDE DEF f, g, I, D, Mid
  <2>. QED
    BY <1>2, <1>4, <2>1, RenumbersTwice
<1>7. OldIndex(D, I, n) = both[n]
  <2>. HIDE DEF both, I, D
  <2>. QED
    BY <1>1, <1>5, <1>6, OnlyRenumbering
<1>8. f[n] \in Mid /\ f[n] = old2(n)
  BY <1>4, <1>5 DEF Renumbers
<1>9. both[n] = old1(old2(n))
  <2>. HIDE DEF I, Mid, old1, old2
  <2>. QED
    BY <1>5, <1>8
<1>. HIDE DEF I, D, both, f
<1>10. n \notin I2
  BY <1>5 DEF I
<1>. QED
  BY <1>1, <1>7, <1>8, <1>9, <1>10

\* A move whose ends unshift to the same place can be dropped: without its
\* deletion and insertion its old index is the old end, and nothing else
\* changes.
THEOREM StaleMoveRenumbers ==
    ASSUME NEW D \in SUBSET Nat, IsFiniteSet(D), NEW I \in SUBSET Nat, IsFiniteSet(I),
           NEW from \in D, NEW to \in I,
           Ix!UnshiftIndex(D, from) = Ix!UnshiftIndex(I, to),
           NEW n \in Nat \ (I \ {to})
    PROVE  OldIndex(D \ {from}, I \ {to}, n) = IF n = to THEN from ELSE OldIndex(D, I, n)
<1> DEFINE D0 == D \ {from}
           I0 == I \ {to}
<1>1. /\ D0 \in SUBSET Nat /\ IsFiniteSet(D0) /\ from \in Nat \ D0
      /\ I0 \in SUBSET Nat /\ IsFiniteSet(I0) /\ to \in Nat \ I0
  BY FS_RemoveElement
<1>2. Ix!UnshiftIndex(D0, from) = Ix!UnshiftIndex(D, from)
  <2>1. Ix!Before(D0, from) = Ix!Before(D, from)
    BY DEF Ix!Before
  <2>. QED
    BY <2>1 DEF Ix!UnshiftIndex, Ix!CountBefore
<1>3. Ix!UnshiftIndex(I0, to) = Ix!UnshiftIndex(I, to)
  <2>1. Ix!Before(I0, to) = Ix!Before(I, to)
    BY DEF Ix!Before
  <2>. QED
    BY <2>1 DEF Ix!UnshiftIndex, Ix!CountBefore
<1>4. OldIndex(D0, I0, to) = from
  <2>. HIDE DEF D0, I0
  <2>1. Ix!ShiftIndex(D0, Ix!UnshiftIndex(D0, from)) = from
    BY <1>1, ShiftUnshift
  <2>. QED
    BY <1>2, <1>3, <2>1 DEF OldIndex
<1>5. D0 \cup {from} = D /\ I0 \cup {to} = I
  OBVIOUS
<1>6. ASSUME n # to PROVE OldIndex(D, I, n) = OldIndex(D0, I0, n)
  <2>1. n \in Nat \ I0
    OBVIOUS
  <2>. HIDE DEF D0, I0
  <2>2. OldIndex(D0 \cup {OldIndex(D0, I0, to)}, I0 \cup {to}, n) = OldIndex(D0, I0, n)
    BY <1>1, <1>6, <2>1, OldIndexOfRest
  <2>. QED
    BY <1>4, <1>5, <2>2
<1>. QED
  BY <1>4, <1>6

----------------------------------------------------------------------------
(* Sequences of moves *)

\* The positions of a sequence are naturals from 1 on: of those not in gone,
\* LeaveOut takes each one once.
LEMMA LeftOut ==
    ASSUME NEW S, NEW seq \in Seq(S), NEW gone \in SUBSET DOMAIN seq
    PROVE  /\ LeaveOut(seq, gone) \in Seq(S)
           /\ \A i \in DOMAIN LeaveOut(seq, gone) :
                /\ Ix!ShiftIndex(gone, i) \in DOMAIN seq \ gone
                /\ LeaveOut(seq, gone)[i] = seq[Ix!ShiftIndex(gone, i)]
           /\ \A i, j \in DOMAIN LeaveOut(seq, gone) :
                Ix!ShiftIndex(gone, i) = Ix!ShiftIndex(gone, j) => i = j
           /\ ToSet(LeaveOut(seq, gone)) = {seq[i] : i \in DOMAIN seq \ gone}
<1> DEFINE k == Cardinality(gone)
           N == Len(seq)
           R == 1 .. N - k
           u(n) == Ix!UnshiftIndex(gone, n)
           s(i) == Ix!ShiftIndex(gone, i)
<1>1. N \in Nat /\ DOMAIN seq = 1 .. N
  OBVIOUS
<1>2. gone \in SUBSET Nat
  BY <1>1
<1>3. IsFiniteSet(gone) /\ k \in Nat /\ k <= N
  <2>1. 1 \in Int /\ N \in Int
    BY <1>1
  <2>. HIDE DEF N
  <2>2. IsFiniteSet(1 .. N) /\ Cardinality(1 .. N) = N
    BY <1>1, <2>1, FS_Interval
  <2>3. IsFiniteSet(gone) /\ k <= Cardinality(1 .. N)
    BY <1>1, <2>2, FS_Subset
  <2>. QED
    BY <2>2, <2>3, FS_CardinalityType
<1>4. u(0) = 0
  <2>1. Ix!Before(gone, 0) = {}
    BY <1>2 DEF Ix!Before
  <2>. QED
    BY <2>1, SameCardinality, FS_EmptySet DEF Ix!UnshiftIndex, Ix!CountBefore
<1>5. u(N + 1) = (N + 1) - k
  <2>1. Ix!Before(gone, N + 1) = gone
    BY <1>1 DEF Ix!Before
  <2>. QED
    BY <2>1, SameCardinality DEF Ix!UnshiftIndex, Ix!CountBefore
<1>6. \A n \in Nat : u(n) \in Nat
  BY <1>2, Unshift
<1>7. \A m, n \in Nat : /\ m <= n => u(m) <= u(n)
                        /\ m < n /\ m \notin gone => u(m) < u(n)
  BY <1>2, UnshiftIncreases
<1>8. \A i \in Nat : s(i) \in Nat \ gone /\ u(s(i)) = i
  BY <1>2, <1>3, Shift
<1>9. \A n \in Nat \ gone : s(u(n)) = n
  BY <1>2, <1>3, ShiftUnshift
<1>10. 0 \notin gone
  BY <1>1
<1>. HIDE DEF u, s, k, N
<1>11. ASSUME NEW i \in R PROVE s(i) \in 1 .. N
  <2>1. i \in Nat /\ i >= 1 /\ i <= N - k
    BY <1>1, <1>3
  <2>2. s(i) \in Nat /\ u(s(i)) = i
    BY <1>8, <2>1
  <2>3. s(i) # 0
    BY <1>4, <2>1, <2>2
  <2>4. N + 1 \in Nat /\ (N + 1 <= s(i) => (N + 1) - k <= i)
    BY <1>1, <1>5, <1>7, <2>2
  <2>. QED
    BY <1>1, <1>3, <2>1, <2>2, <2>3, <2>4
<1>12. ASSUME NEW j \in 1 .. N, j \notin gone PROVE u(j) \in R /\ s(u(j)) = j
  <2>1. j \in Nat /\ 0 < j /\ j < N + 1 /\ N + 1 \in Nat
    BY <1>1
  <2>2. u(0) < u(j) /\ u(j) < u(N + 1) /\ u(j) \in Nat
    BY <1>6, <1>7, <1>10, <1>12, <2>1
  <2>3. u(j) \in R
    BY <1>1, <1>3, <1>4, <1>5, <2>2
  <2>. QED
    BY <1>9, <1>12, <2>1, <2>3
<1> DEFINE left == LeaveOut(seq, gone)
<1>13. N - k \in Nat /\ R \subseteq Nat
  BY <1>1, <1>3
<1>14. left = [i \in R |-> seq[s(i)]]
  BY DEF LeaveOut, s, k, N
<1>15. \A i \in R : s(i) \in DOMAIN seq \ gone
  BY <1>1, <1>8, <1>11, <1>13
<1>16. left \in Seq(S)
  <2>1. \A i \in R : seq[s(i)] \in S
    BY <1>15
  <2>2. [i \in 1 .. N - k |-> seq[s(i)]] \in Seq(S)
    BY <1>13, <2>1
  <2>. QED
    BY <1>14, <2>2
<1>17. \A i, j \in R : s(i) = s(j) => i = j
  BY <1>8, <1>13
<1>18. ToSet(left) = {seq[j] : j \in DOMAIN seq \ gone}
  <2>1. ToSet(left) = {seq[s(i)] : i \in R}
    BY <1>14 DEF ToSet
  <2>. HIDE DEF R, left
  <2>2. \A j \in DOMAIN seq \ gone : u(j) \in R /\ s(u(j)) = j
    BY <1>1, <1>12
  <2>. QED
    BY <1>15, <2>1, <2>2
<1>19. DOMAIN left = R
  BY <1>14
<1>20. \A i \in R : left[i] = seq[s(i)]
  BY <1>14
<1>. HIDE DEF left, R
<1>. QED
  BY <1>15, <1>16, <1>17, <1>18, <1>19, <1>20 DEF s, left

\* A move, from an old position to a new one.
Move == [from: Nat, to: Nat]

\* No two moves of the sequence start in the same place.
DistinctFroms(moves) ==
    \A i, j \in DOMAIN moves : moves[i].from = moves[j].from => i = j

\* The moves are sorted by their old rows.
Sorted(moves) == \A i, j \in DOMAIN moves : i < j => moves[i].from < moves[j].from

\* The moves by their old rows are the moves, one after the other, sorted.
LEMMA MovesByOldRow ==
    ASSUME NEW M \in SUBSET Move, NEW N \in Nat, \A m \in M : m.from < N,
           \A l, m \in M : l.from = m.from => l = m
    PROVE  /\ ByOldRow(M) \in Seq(Move)
           /\ ToSet(ByOldRow(M)) = M
           /\ DistinctFroms(ByOldRow(M))
           /\ Sorted(ByOldRow(M))
<1> DEFINE F == {m.from : m \in M}
           c(n) == Ix!CountBefore(F, n)
           k == Cardinality(M)
<1>1. F \in SUBSET Nat /\ \A f \in F : f < N
  BY DEF Move
<1>2. \A n \in Nat : c(n) \in Nat
  BY <1>1, Unshift
<1>3. \A n \in Nat : c(n + 1) = IF n \in F THEN c(n) + 1 ELSE c(n)
  <2> TAKE n \in Nat
  <2>1. c(n) \in Nat /\ c(n + 1) \in Nat
    BY <1>2
  <2>2. Ix!UnshiftIndex(F, n) = n - c(n) /\ Ix!UnshiftIndex(F, n + 1) = (n + 1) - c(n + 1)
    BY DEF Ix!UnshiftIndex
  <2>3. Ix!UnshiftIndex(F, n + 1) =
          IF n \in F THEN Ix!UnshiftIndex(F, n) ELSE Ix!UnshiftIndex(F, n) + 1
    BY <1>1, UnshiftNext
  <2>. HIDE DEF c, F
  <2>. QED
    BY <2>1, <2>2, <2>3
<1>4. IsFiniteSet(F)
  <2>1. \A f \in F : f <= N
    BY <1>1
  <2>. HIDE DEF F
  <2>. QED
    BY <1>1, <2>1, FS_BoundedSetOfNaturals
<1>5. \A m, n \in Nat : m <= n => c(m) <= c(n)
  <2> TAKE m, n \in Nat
  <2>1. HAVE m <= n
  <2>2. Ix!Before(F, m) \subseteq Ix!Before(F, n) /\ Ix!Before(F, n) \subseteq F
    BY <1>1, <2>1 DEF Ix!Before
  <2>3. IsFiniteSet(Ix!Before(F, n))
    BY <1>4, <2>2, FS_Subset
  <2>. QED
    BY <2>2, <2>3, FS_Subset, SameCardinality DEF Ix!CountBefore
<1>6. IsFiniteSet(M) /\ c(N) = k /\ k \in Nat /\ c(0) = 0
  <2> DEFINE g == [m \in M |-> m.from]
  <2>1. g \in Injection(M, F)
    BY DEF Injection, IsInjective
  <2>2. g \in Surjection(M, F)
    BY DEF Surjection
  <2>. HIDE DEF F, g
  <2>3. IsFiniteSet(M)
    BY <1>4, <2>1, FS_Injection
  <2>4. Cardinality(F) = k
    BY <2>1, <2>2, <2>3, FS_Surjection
  <2>5. Ix!Before(F, N) = F
    BY <1>1 DEF Ix!Before
  <2>6. Ix!Before(F, 0) = {}
    <3>1. \A f \in F : f \in Nat /\ ~ (f < 0)
      BY <1>1
    <3>. QED
      BY <3>1 DEF Ix!Before
  <2>. QED
    BY <2>3, <2>4, <2>5, <2>6, SameCardinality, FS_CardinalityType, FS_EmptySet
       DEF Ix!CountBefore
<1>. HIDE DEF c, k, F
<1>7. ASSUME NEW i \in 1 .. k PROVE \E f \in F : c(f) = i - 1
  <2> DEFINE U == {n \in Nat : c(n + 1) >= i}
  <2>1. i \in Nat /\ i >= 1 /\ i <= k
    BY <1>6
  <2>2. N # 0
    BY <1>6, <2>1
  <2>3. N - 1 \in Nat /\ (N - 1) + 1 = N
    BY <2>2
  <2>4. N - 1 \in U
    BY <1>6, <2>1, <2>3
  <2>5. U \in SUBSET Nat
    OBVIOUS
  <2>6. PICK n \in U : \A x \in U : n <= x
    <3>. HIDE DEF U
    <3>. QED
      BY <2>4, <2>5, LeastNatural
  <2>7. n \in Nat /\ c(n + 1) >= i /\ c(n) \in Nat
    BY <1>2, <2>6
  <2>8. c(n) < i
    <3>1. CASE n = 0
      BY <1>6, <2>1, <3>1
    <3>2. CASE n # 0
      <4>1. n - 1 \in Nat /\ n - 1 \notin U /\ (n - 1) + 1 = n
        BY <2>6, <2>7, <3>2
      <4>2. ~ (c(n) >= i)
        BY <4>1
      <4>. QED
        BY <2>1, <2>7, <4>2
    <3>. QED
      BY <3>1, <3>2
  <2>9. n \in F /\ c(n) = i - 1
    BY <1>3, <2>1, <2>7, <2>8
  <2>. QED
    BY <2>9
<1>8. \A f \in F : c(f) + 1 \in 1 .. k
  <2> TAKE f \in F
  <2>1. f \in Nat /\ f < N /\ f + 1 \in Nat /\ f + 1 <= N
    BY <1>1
  <2>2. c(f + 1) = c(f) + 1 /\ c(f) \in Nat
    BY <1>2, <1>3, <2>1
  <2>3. c(f + 1) <= k
    BY <1>5, <1>6, <2>1
  <2>. QED
    BY <1>6, <2>2, <2>3
<1>9. \A f, g \in F : c(f) = c(g) => f = g
  <2>1. ASSUME NEW f \in F, NEW g \in F, f < g PROVE c(f) # c(g)
    <3>1. f \in Nat /\ g \in Nat /\ f + 1 \in Nat /\ f + 1 <= g
      BY <1>1, <2>1
    <3>2. c(f + 1) = c(f) + 1 /\ c(f) \in Nat /\ c(f + 1) <= c(g) /\ c(g) \in Nat
      BY <1>2, <1>3, <1>5, <3>1
    <3>. QED
      BY <3>2
  <2> TAKE f, g \in F
  <2>2. f \in Nat /\ g \in Nat
    BY <1>1
  <2>3. f < g \/ g < f \/ f = g
    BY <2>2
  <2>. QED
    BY <2>1, <2>3
<1> DEFINE r == ByOldRow(M)
           pick(i) == CHOOSE m \in M : c(m.from) = i - 1
<1>10. r = [i \in 1 .. k |-> pick(i)]
  BY DEF ByOldRow, c, k, F
<1>11. \A i \in 1 .. k : pick(i) \in M /\ c(pick(i).from) = i - 1
  <2> TAKE i \in 1 .. k
  <2>1. \E m \in M : c(m.from) = i - 1
    BY <1>7 DEF F
  <2>. QED
    BY <2>1
<1>12. \A m \in M : c(m.from) + 1 \in 1 .. k /\ pick(c(m.from) + 1) = m
  <2> TAKE m \in M
  <2>1. m.from \in F /\ c(m.from) + 1 \in 1 .. k
    BY <1>8 DEF F
  <2>2. c(m.from) \in Nat /\ (c(m.from) + 1) - 1 = c(m.from)
    <3>1. m.from \in Nat
      BY <1>1, <2>1
    <3>2. c(m.from) \in Nat
      BY <1>2, <3>1
    <3>. QED
      BY <3>2
  <2>3. pick(c(m.from) + 1) \in M /\ c(pick(c(m.from) + 1).from) = c(m.from)
    BY <1>11, <2>1, <2>2
  <2>. HIDE DEF pick
  <2>4. pick(c(m.from) + 1).from \in F
    BY <2>3 DEF F
  <2>. QED
    BY <1>9, <2>1, <2>3, <2>4
<1>. HIDE DEF pick
<1>13. r \in Seq(Move)
  <2>1. \A i \in 1 .. k : pick(i) \in Move
    BY <1>11
  <2>2. [i \in 1 .. k |-> pick(i)] \in Seq(Move)
    BY <1>6, <2>1
  <2>. QED
    BY <1>10, <2>2
<1>14. ToSet(r) = M
  <2>1. ToSet(r) = {pick(i) : i \in 1 .. k}
    BY <1>10 DEF ToSet
  <2>. HIDE DEF r
  <2>. QED
    BY <1>11, <1>12, <2>1
<1>15. DistinctFroms(r)
  <2>1. DOMAIN r = 1 .. k /\ \A i \in 1 .. k : r[i] = pick(i)
    BY <1>10
  <2>. HIDE DEF r
  <2> SUFFICES ASSUME NEW i \in 1 .. k, NEW j \in 1 .. k, pick(i).from = pick(j).from
               PROVE  i = j
    BY <2>1 DEF DistinctFroms
  <2>2. i - 1 = j - 1
    BY <1>11
  <2>3. i \in Nat /\ j \in Nat
    BY <1>6
  <2>. QED
    BY <2>2, <2>3
<1>16. Sorted(r)
  <2>1. DOMAIN r = 1 .. k /\ \A i \in 1 .. k : r[i] = pick(i)
    BY <1>10
  <2>. HIDE DEF r
  <2> SUFFICES ASSUME NEW i \in 1 .. k, NEW j \in 1 .. k, i < j
               PROVE  pick(i).from < pick(j).from
    BY <2>1 DEF Sorted
  <2>2. PICK f \in Nat : f = pick(i).from /\ c(f) = i - 1
    BY <1>11 DEF Move
  <2>3. PICK g \in Nat : g = pick(j).from /\ c(g) = j - 1
    BY <1>11 DEF Move
  <2>4. ~ (c(g) <= c(f))
    <3>1. i \in Nat /\ j \in Nat
      BY <1>6
    <3>. QED
      BY <2>2, <2>3, <3>1
  <2>5. ~ (g <= f)
    BY <1>5, <2>4
  <2>. QED
    BY <2>2, <2>3, <2>5
<1>. QED
  BY <1>13, <1>14, <1>15, <1>16

\* A change set has its five fields.
IsChanges(c) ==
    c = [deletions |-> c.deletions, insertions |-> c.insertions,
         modifications |-> c.modifications, moves |-> c.moves, mapping |-> c.mapping]

\* A sequence with another member.
LEMMA MovesAfterAppend ==
    ASSUME NEW S, NEW seq \in Seq(S), NEW e \in S
    PROVE  /\ Append(seq, e) \in Seq(S)
           /\ ToSet(Append(seq, e)) = ToSet(seq) \cup {e}
           /\ DOMAIN Append(seq, e) = 1 .. Len(seq) + 1
           /\ \A i \in DOMAIN seq : Append(seq, e)[i] = seq[i]
           /\ Append(seq, e)[Len(seq) + 1] = e
           /\ Len(seq) \in Nat /\ DOMAIN seq = 1 .. Len(seq)
<1> DEFINE n == Len(seq)
           t == Append(seq, e)
<1>1. n \in Nat /\ DOMAIN seq = 1 .. n /\ t \in Seq(S) /\ DOMAIN t = 1 .. n + 1
  OBVIOUS
<1>2. /\ \A i \in DOMAIN seq : t[i] = seq[i]
      /\ t[n + 1] = e
  OBVIOUS
<1>3. ToSet(t) = ToSet(seq) \cup {e}
  <2>. HIDE DEF n, t
  <2>1. ToSet(t) = {t[i] : i \in 1 .. n + 1} /\ ToSet(seq) = {seq[i] : i \in 1 .. n}
    BY <1>1 DEF ToSet
  <2>2. 1 .. n + 1 = (1 .. n) \cup {n + 1}
    BY <1>1
  <2>. QED
    BY <1>1, <1>2, <2>1, <2>2
<1>. QED
  BY <1>1, <1>2, <1>3

\* A move that starts in a new place.
LEMMA DistinctAfterAppend ==
    ASSUME NEW seq \in Seq(Move), NEW e \in Move, DistinctFroms(seq),
           \A m \in ToSet(seq) : m.from # e.from
    PROVE  DistinctFroms(Append(seq, e))
<1> DEFINE n == Len(seq)
           t == Append(seq, e)
<1>1. /\ n \in Nat /\ DOMAIN seq = 1 .. n /\ DOMAIN t = 1 .. n + 1
      /\ \A i \in DOMAIN seq : t[i] = seq[i]
      /\ t[n + 1] = e
  BY MovesAfterAppend
<1>. HIDE DEF n, t
<1>2. \A i \in 1 .. n : t[i].from # e.from
  BY <1>1 DEF ToSet
<1> SUFFICES ASSUME NEW i \in 1 .. n + 1, NEW j \in 1 .. n + 1, t[i].from = t[j].from
             PROVE  i = j
  BY <1>1 DEF DistinctFroms, t
<1>3. CASE i \in 1 .. n /\ j \in 1 .. n
  BY <1>1, <1>3 DEF DistinctFroms
<1>4. CASE i = n + 1 /\ j \in 1 .. n
  BY <1>1, <1>2, <1>4
<1>5. CASE i \in 1 .. n /\ j = n + 1
  BY <1>1, <1>2, <1>5
<1>6. (i \in 1 .. n \/ i = n + 1) /\ (j \in 1 .. n \/ j = n + 1)
  BY <1>1
<1>. QED
  BY <1>3, <1>4, <1>5, <1>6

\* c after the moves in seen have been looked at: those that are gone are not
\* in the index sets any more, and no index that the sets left alone, or leave
\* alone now, has another old index than before.
Cleaned(c, seen, s) ==
    LET gone == seen \ ToSet(s.moves)
    IN  /\ IsChanges(s) /\ s.modifications = c.modifications /\ s.mapping = c.mapping
        /\ s.moves \in Seq(Move) /\ ToSet(s.moves) \subseteq seen /\ DistinctFroms(s.moves)
        /\ s.deletions = c.deletions \ {m.from : m \in gone}
        /\ s.insertions = c.insertions \ {m.to : m \in gone}
        /\ \A m \in gone : OldIndex(s.deletions, s.insertions, m.to) = m.from
        /\ \A n \in Nat \ c.insertions :
             OldIndex(s.deletions, s.insertions, n) = OldIndex(c.deletions, c.insertions, n)

\* DropStale: one more move is looked at.
LEMMA CleanedNext ==
    ASSUME NEW c, NEW seen \in SUBSET Move, NEW s, Cleaned(c, seen, s),
           c.deletions \in SUBSET Nat, IsFiniteSet(c.deletions),
           c.insertions \in SUBSET Nat, IsFiniteSet(c.insertions),
           NEW m \in Move, m.from \in c.deletions, m.to \in c.insertions,
           \A k \in seen : k.from # m.from /\ k.to # m.to
    PROVE  Cleaned(c, seen \cup {m}, DropStale(s, m))
<1> DEFINE gone == seen \ ToSet(s.moves)
           D == s.deletions
           I == s.insertions
           t == DropStale(s, m)
<1>1. /\ IsChanges(s) /\ s.modifications = c.modifications /\ s.mapping = c.mapping
      /\ s.moves \in Seq(Move) /\ ToSet(s.moves) \subseteq seen /\ DistinctFroms(s.moves)
      /\ D = c.deletions \ {k.from : k \in gone}
      /\ I = c.insertions \ {k.to : k \in gone}
      /\ \A k \in gone : OldIndex(D, I, k.to) = k.from
      /\ \A n \in Nat \ c.insertions :
           OldIndex(D, I, n) = OldIndex(c.deletions, c.insertions, n)
  BY DEF Cleaned
<1>2. m.from \in D /\ m.to \in I /\ m \notin seen
  BY <1>1
<1>3. CASE Ix!UnshiftIndex(D, m.from) # Ix!UnshiftIndex(I, m.to)
  <2>1. t = [s EXCEPT !.moves = Append(@, m)]
    BY <1>3 DEF DropStale
  <2>2. /\ IsChanges(t) /\ t.modifications = s.modifications /\ t.mapping = s.mapping
        /\ t.deletions = D /\ t.insertions = I /\ t.moves = Append(s.moves, m)
    BY <1>1, <2>1 DEF IsChanges
  <2>. HIDE DEF t
  <2>3. t.moves \in Seq(Move) /\ ToSet(t.moves) = ToSet(s.moves) \cup {m}
    BY <1>1, <2>2, MovesAfterAppend
  <2>4. DistinctFroms(t.moves)
    <3>1. \A k \in ToSet(s.moves) : k.from # m.from
      BY <1>1
    <3>. QED
      BY <1>1, <2>2, <3>1, DistinctAfterAppend
  <2>5. (seen \cup {m}) \ ToSet(t.moves) = gone
    BY <1>2, <2>3
  <2>6. ToSet(t.moves) \subseteq seen \cup {m}
    BY <1>1, <2>3
  <2>. HIDE DEF gone, D, I
  <2>7. Cleaned(c, seen \cup {m}, t)
    BY <1>1, <2>2, <2>3, <2>4, <2>5, <2>6 DEF Cleaned
  <2>. QED
    BY <2>7 DEF t
<1>4. CASE Ix!UnshiftIndex(D, m.from) = Ix!UnshiftIndex(I, m.to)
  <2>1. t = [s EXCEPT !.deletions = @ \ {m.from}, !.insertions = @ \ {m.to}]
    BY <1>4 DEF DropStale
  <2>2. /\ IsChanges(t) /\ t.modifications = s.modifications /\ t.mapping = s.mapping
        /\ t.deletions = D \ {m.from} /\ t.insertions = I \ {m.to} /\ t.moves = s.moves
    BY <1>1, <2>1 DEF IsChanges
  <2>. HIDE DEF t
  <2> DEFINE all == (seen \cup {m}) \ ToSet(t.moves)
  <2>3. all = gone \cup {m}
    BY <1>1, <1>2, <2>2
  <2>4. t.deletions = c.deletions \ {k.from : k \in all}
    BY <1>1, <2>2, <2>3
  <2>5. t.insertions = c.insertions \ {k.to : k \in all}
    BY <1>1, <2>2, <2>3
  <2>6. D \in SUBSET Nat /\ IsFiniteSet(D) /\ I \in SUBSET Nat /\ IsFiniteSet(I)
    BY <1>1, FS_Subset
  <2>. HIDE DEF gone, D, I
  <2>7. \A n \in Nat \ (I \ {m.to}) :
          OldIndex(D \ {m.from}, I \ {m.to}, n) = IF n = m.to THEN m.from ELSE OldIndex(D, I, n)
    BY <1>2, <1>4, <2>6, StaleMoveRenumbers
  <2>8. \A k \in all : OldIndex(t.deletions, t.insertions, k.to) = k.from
    <3> TAKE k \in all
    <3>1. CASE k = m
      <4>1. m.to \in Nat \ (I \ {m.to})
        BY DEF Move
      <4>. QED
        BY <2>2, <2>7, <3>1, <4>1
    <3>2. CASE k # m
      <4>1. k \in gone /\ k.to \in Nat /\ k.to # m.to /\ k.to \notin I
        BY <1>1, <2>3, <3>2 DEF Move, gone
      <4>2. OldIndex(D, I, k.to) = k.from
        BY <1>1, <4>1
      <4>. QED
        BY <2>2, <2>7, <4>1, <4>2
    <3>. QED
      BY <3>1, <3>2
  <2>9. \A n \in Nat \ c.insertions :
          OldIndex(t.deletions, t.insertions, n) = OldIndex(c.deletions, c.insertions, n)
    <3> TAKE n \in Nat \ c.insertions
    <3>1. n # m.to /\ n \in Nat \ (I \ {m.to})
      BY <1>1
    <3>. QED
      BY <1>1, <2>2, <2>7, <3>1
  <2>10. t.moves \in Seq(Move) /\ ToSet(t.moves) \subseteq seen \cup {m} /\ DistinctFroms(t.moves)
    BY <1>1, <2>2
  <2>11. Cleaned(c, seen \cup {m}, t)
    BY <1>1, <2>2, <2>4, <2>5, <2>8, <2>9, <2>10 DEF Cleaned
  <2>. QED
    BY <2>11 DEF t
<1>. QED
  BY <1>3, <1>4

\* The loop goes through the moves once.
LEMMA CleanUpLoop ==
    ASSUME NEW c, Len(c.moves) \in Nat
    PROVE  \E after :
             /\ after[0] = [c EXCEPT !.moves = <<>>]
             /\ \A n \in 1 .. Len(c.moves) : after[n] = DropStale(after[n - 1], c.moves[n])
             /\ clean_up_stale_moves(c) = after[Len(c.moves)]
<1> DEFINE N == Len(c.moves)
           start == [c EXCEPT !.moves = <<>>]
           Next(x, n) == DropStale(x, c.moves[n])
           Loop(f, k) == f = [n \in 0 .. k |-> IF n = 0 THEN start ELSE Next(f[n - 1], n)]
           T == {k \in 0 .. N : \E f : Loop(f, k)}
<1>1. clean_up_stale_moves(c) = (CHOOSE f : Loop(f, N))[N]
  BY DEF clean_up_stale_moves
<1>2. N \in Nat
  OBVIOUS
<1>. HIDE DEF Next, N, start
<1>3. 0 \in T
  <2> DEFINE g == [n \in 0 .. 0 |-> start]
             h == [n \in 0 .. 0 |-> IF n = 0 THEN start ELSE Next(g[n - 1], n)]
  <2>1. \A n \in 0 .. 0 : n = 0
    OBVIOUS
  <2>2. g = h
    BY <2>1
  <2>3. Loop(g, 0)
    BY <2>2
  <2>4. 0 \in 0 .. N
    BY <1>2
  <2>. HIDE DEF g
  <2>. QED
    BY <2>3, <2>4
<1>4. ASSUME NEW k \in 0 .. N - 1, k \in T PROVE k + 1 \in T
  <2>1. k \in Nat /\ k + 1 \in 0 .. N
    BY <1>2
  <2>2. PICK f : Loop(f, k)
    BY <1>4
  <2> DEFINE g == [n \in 0 .. k + 1 |-> IF n = k + 1 THEN Next(f[k], k + 1) ELSE f[n]]
             h == [n \in 0 .. k + 1 |-> IF n = 0 THEN start ELSE Next(g[n - 1], n)]
  <2>3. \A n \in 0 .. k : f[n] = IF n = 0 THEN start ELSE Next(f[n - 1], n)
    BY <2>2
  <2>4. ASSUME NEW n \in 0 .. k + 1 PROVE g[n] = h[n]
    <3>1. CASE n = 0
      BY <2>1, <2>3, <3>1
    <3>2. CASE n \in 1 .. k
      <4>1. n \in 0 .. k /\ n # k + 1 /\ n # 0 /\ n - 1 \in 0 .. k + 1 /\ n - 1 # k + 1
        BY <2>1, <3>2
      <4>2. g[n] = f[n] /\ g[n - 1] = f[n - 1]
        BY <4>1
      <4>. QED
        BY <2>3, <4>1, <4>2
    <3>3. CASE n = k + 1
      <4>1. n # 0 /\ n - 1 = k /\ k \in 0 .. k + 1 /\ k # k + 1
        BY <2>1, <3>3
      <4>2. g[k] = f[k]
        BY <4>1
      <4>. QED
        BY <3>3, <4>1, <4>2
    <3>4. n = 0 \/ n \in 1 .. k \/ n = k + 1
      BY <2>1
    <3>. QED
      BY <3>1, <3>2, <3>3, <3>4
  <2>5. g = h
    BY <2>4
  <2>6. Loop(g, k + 1)
    BY <2>5
  <2>. QED
    BY <2>1, <2>6
<1>5. \E f : Loop(f, N)
  <2>1. \A k \in 0 .. N : k \in T
    <3>. HIDE DEF T
    <3>. QED
      BY <1>2, <1>3, <1>4, UpTo
  <2>2. N \in 0 .. N
    BY <1>2
  <2>. QED
    BY <2>1, <2>2
<1> DEFINE after == CHOOSE f : Loop(f, N)
<1>6. Loop(after, N)
  BY <1>5
<1>7. \A n \in 0 .. N : after[n] = IF n = 0 THEN start ELSE Next(after[n - 1], n)
  <2>. HIDE DEF after
  <2>. QED
    BY <1>6
<1>8. after[0] = start
  <2>1. 0 \in 0 .. N
    BY <1>2
  <2>. HIDE DEF after
  <2>. QED
    BY <1>7, <2>1
<1>9. \A n \in 1 .. N : after[n] = Next(after[n - 1], n)
  <2>1. \A n \in 1 .. N : n \in 0 .. N /\ n # 0
    BY <1>2
  <2>. HIDE DEF after
  <2>. QED
    BY <1>7, <2>1
<1>10. clean_up_stale_moves(c) = after[N]
  BY <1>1
<1>. HIDE DEF after
<1>. QED
  BY <1>8, <1>9, <1>10 DEF Next, N, start

\* clean_up_stale_moves: whatever moves there are, and in whatever order, the
\* moves it drops are those the rest of the change set makes anyway, and every
\* index that was left alone still has the old index it had.
THEOREM CleanUp ==
    ASSUME NEW c, IsChanges(c), c.moves \in Seq(Move), DistinctFroms(c.moves),
           c.deletions \in SUBSET Nat, IsFiniteSet(c.deletions),
           c.insertions \in SUBSET Nat, IsFiniteSet(c.insertions),
           \A m \in ToSet(c.moves) : m.from \in c.deletions /\ m.to \in c.insertions,
           \A l, m \in ToSet(c.moves) : l.to = m.to => l = m
    PROVE  Cleaned(c, ToSet(c.moves), clean_up_stale_moves(c))
<1> DEFINE N == Len(c.moves)
           Seen(n) == {c.moves[i] : i \in 1 .. n}
<1>1. N \in Nat /\ DOMAIN c.moves = 1 .. N
  OBVIOUS
<1>2. PICK after : /\ after[0] = [c EXCEPT !.moves = <<>>]
                   /\ \A n \in 1 .. N : after[n] = DropStale(after[n - 1], c.moves[n])
                   /\ clean_up_stale_moves(c) = after[N]
  BY <1>1, CleanUpLoop
<1>. HIDE DEF N
<1>3. \A i \in 1 .. N : c.moves[i] \in Move /\ c.moves[i] \in ToSet(c.moves)
  BY <1>1 DEF ToSet
<1> DEFINE T == {n \in 0 .. N : Cleaned(c, Seen(n), after[n])}
<1>4. 0 \in T
  <2>1. after[0] = [c EXCEPT !.moves = <<>>] /\ Seen(0) = {}
    BY <1>2
  <2>2. /\ IsChanges(after[0]) /\ after[0].modifications = c.modifications
        /\ after[0].mapping = c.mapping /\ after[0].moves = <<>>
        /\ after[0].deletions = c.deletions /\ after[0].insertions = c.insertions
    BY <2>1 DEF IsChanges
  <2>3. ToSet(<<>>) = {} /\ DistinctFroms(<<>>) /\ <<>> \in Seq(Move)
    BY DEF ToSet, DistinctFroms
  <2>4. Cleaned(c, Seen(0), after[0])
    <3>. HIDE DEF Seen
    <3>1. Seen(0) \ ToSet(after[0].moves) = {}
      BY <2>1, <2>2
    <3>. QED
      BY <2>1, <2>2, <2>3, <3>1 DEF Cleaned
  <2>. QED
    BY <1>1, <2>4
<1>5. ASSUME NEW n \in 0 .. N - 1, n \in T PROVE n + 1 \in T
  <2> DEFINE m == c.moves[n + 1]
  <2>1. n \in Nat /\ n + 1 \in 1 .. N /\ n + 1 \in 0 .. N /\ (n + 1) - 1 = n
    BY <1>1
  <2>2. Seen(n + 1) = Seen(n) \cup {m}
    <3>1. 1 .. n + 1 = (1 .. n) \cup {n + 1}
      BY <2>1
    <3>. QED
      BY <3>1
  <2>3. /\ m \in Move /\ m \in ToSet(c.moves) /\ Seen(n) \in SUBSET Move
        /\ m.from \in c.deletions /\ m.to \in c.insertions
    BY <1>1, <1>3, <2>1
  <2>4. \A k \in Seen(n) : k.from # m.from /\ k.to # m.to
    <3> TAKE k \in Seen(n)
    <3>1. PICK i \in 1 .. n : k = c.moves[i]
      OBVIOUS
    <3>2. i \in DOMAIN c.moves /\ n + 1 \in DOMAIN c.moves /\ i # n + 1
      BY <1>1, <2>1
    <3>3. k.from # m.from
      BY <3>1, <3>2 DEF DistinctFroms
    <3>4. k \in ToSet(c.moves)
      BY <3>1, <3>2 DEF ToSet
    <3>. QED
      BY <2>3, <3>3, <3>4
  <2>5. after[n + 1] = DropStale(after[n], m) /\ Cleaned(c, Seen(n), after[n])
    BY <1>2, <1>5, <2>1
  <2>6. Cleaned(c, Seen(n) \cup {m}, DropStale(after[n], m))
    <3>. HIDE DEF Seen, m
    <3>. QED
      BY <2>3, <2>4, <2>5, CleanedNext
  <2>7. Cleaned(c, Seen(n + 1), after[n + 1])
    BY <2>2, <2>5, <2>6
  <2>. QED
    BY <2>1, <2>7
<1>6. \A n \in 0 .. N : n \in T
  <2>. HIDE DEF T
  <2>. QED
    BY <1>1, <1>4, <1>5, UpTo
<1>7. Cleaned(c, Seen(N), after[N])
  <2>1. N \in 0 .. N
    BY <1>1
  <2>. QED
    BY <1>6, <2>1
<1>8. Seen(N) = ToSet(c.moves)
  BY <1>1 DEF ToSet
<1>. QED
  BY <1>2, <1>7, <1>8

\* The move at a position is replaced by the last one.
LEMMA WithoutMove ==
    ASSUME NEW seq \in Seq(Move), DistinctFroms(seq), NEW k \in DOMAIN seq
    PROVE  LET rest == Front([seq EXCEPT ![k] = Last(seq)])
           IN  /\ rest \in Seq(Move)
               /\ ToSet(rest) = ToSet(seq) \ {seq[k]}
               /\ DistinctFroms(rest)
<1> DEFINE N == Len(seq)
           full == [seq EXCEPT ![k] = Last(seq)]
           rest == Front(full)
           at(i) == IF i = k THEN N ELSE i
<1>1. /\ N \in Nat /\ DOMAIN seq = 1 .. N /\ N \in DOMAIN seq /\ N - 1 \in Nat
      /\ k \in 1 .. N
  OBVIOUS
<1>2. full \in Seq(Move) /\ Len(full) = N
  BY <1>1 DEF Last
<1>3. \A i \in 1 .. N : full[i] = seq[at(i)]
  BY <1>1 DEF Last
<1>4. /\ rest \in Seq(Move) /\ DOMAIN rest = 1 .. N - 1
      /\ \A i \in 1 .. N - 1 : rest[i] = full[i]
  <2>. HIDE DEF full
  <2>1. rest = SubSeq(full, 1, N - 1)
    BY <1>2 DEF Front
  <2>2. \A i \in 1 .. N - 1 : i \in 1 .. N
    BY <1>1
  <2>3. rest \in Seq(Move)
    BY <1>1, <1>2, <2>1
  <2>4. Len(rest) = N - 1
    BY <1>1, <1>2, <2>1
  <2>5. \A i \in 1 .. N - 1 : rest[i] = full[i]
    BY <1>1, <1>2, <2>1
  <2>6. DOMAIN rest = 1 .. N - 1
    BY <2>3, <2>4
  <2>. QED
    BY <2>3, <2>5, <2>6
<1>5. \A i \in 1 .. N - 1 : rest[i] = seq[at(i)] /\ at(i) \in 1 .. N /\ at(i) # k
  <2> TAKE i \in 1 .. N - 1
  <2>1. i \in 1 .. N /\ i # N /\ i \in Nat
    <3>. HIDE DEF N
    <3>. QED
      BY <1>1
  <2>2. at(i) \in 1 .. N /\ at(i) # k
    BY <1>1, <2>1
  <2>. HIDE DEF at, rest, full
  <2>3. rest[i] = seq[at(i)]
    BY <1>3, <1>4, <2>1
  <2>. QED
    BY <2>2, <2>3
<1>6. \A i, j \in 1 .. N - 1 : at(i) = at(j) => i = j
  BY <1>1
<1>7. \A j \in 1 .. N : j # k => \E i \in 1 .. N - 1 : at(i) = j
  <2> TAKE j \in 1 .. N
  <2>1. HAVE j # k
  <2>2. CASE j = N
    <3>1. k \in 1 .. N - 1 /\ at(k) = j
      BY <1>1, <2>1, <2>2
    <3>. QED
      BY <3>1
  <2>3. CASE j # N
    <3>1. at(j) = j
      BY <2>1
    <3>2. j \in 1 .. N - 1
      <4>. HIDE DEF N
      <4>. QED
        BY <1>1, <2>3
    <3>. QED
      BY <3>1, <3>2
  <2>. QED
    BY <2>2, <2>3
<1>8. \A i, j \in 1 .. N : seq[i].from = seq[j].from => i = j
  BY <1>1 DEF DistinctFroms
<1>. HIDE DEF at, rest, full, N
<1>9. ToSet(rest) = {seq[at(i)] : i \in 1 .. N - 1}
  BY <1>4, <1>5 DEF ToSet
<1>10. ToSet(seq) \ {seq[k]} = {seq[j] : j \in (1 .. N) \ {k}}
  BY <1>1, <1>8 DEF ToSet
<1>11. ToSet(rest) = ToSet(seq) \ {seq[k]}
  BY <1>5, <1>7, <1>9, <1>10
<1>12. DistinctFroms(rest)
  BY <1>4, <1>5, <1>6, <1>8 DEF DistinctFroms
<1>. QED
  BY <1>4, <1>11, <1>12 DEF rest, full

\* The moves of b in seen have been followed through c.
Followed(b, c, seen, s) ==
    LET new(n) == OldIndex(c.insertions, c.deletions, n)
    IN  /\ s = [moves |-> s.moves, new |-> s.new] /\ IsChanges(s.new)
        /\ s.moves \in Seq(Move) /\ DistinctFroms(s.moves)
        /\ \A x \in ToSet(s.moves) : \E l \in seen :
             /\ x.from = l.from
             /\ \/ \E m \in ToSet(c.moves) : m.from = l.to /\ x.to = m.to
                \/ l.to \notin c.deletions /\ x.to = new(l.to)
        /\ \A l \in seen : \A m \in ToSet(c.moves) :
             m.from = l.to => [from |-> l.from, to |-> m.to] \in ToSet(s.moves)
        /\ \A l \in seen :
             l.to \notin c.deletions => [from |-> l.from, to |-> new(l.to)] \in ToSet(s.moves)
        /\ s.new.moves \in Seq(Move) /\ DistinctFroms(s.new.moves)
        /\ ToSet(s.new.moves) = {m \in ToSet(c.moves) : \A l \in seen : l.to # m.from}
        /\ s.new.modifications =
             c.modifications \cup
               {m.to : m \in {k \in ToSet(c.moves) :
                                k.from \in b.modifications /\ \E l \in seen : l.to = k.from}}

\* FollowMove: one more move of b is followed.
LEMMA FollowedNext ==
    ASSUME NEW b, NEW c, NEW seen \in SUBSET Move, NEW s, Followed(b, c, seen, s),
           c.deletions \in SUBSET Nat, IsFiniteSet(c.deletions),
           c.insertions \in SUBSET Nat, IsFiniteSet(c.insertions),
           \A m \in ToSet(c.moves) : m.from \in c.deletions,
           NEW old \in Move, \A l \in seen : l.from # old.from /\ l.to # old.to
    PROVE  Followed(b, c, seen \cup {old}, FollowMove(b, c, s, old))
<1> DEFINE new(n) == OldIndex(c.insertions, c.deletions, n)
           C == ToSet(c.moves)
           again == SelectInSeq(s.new.moves, LAMBDA m : m.from = old.to)
           m == s.new.moves[again]
           rest == Front([s.new.moves EXCEPT ![again] = Last(s.new.moves)])
           t == FollowMove(b, c, s, old)
           all == seen \cup {old}
<1>1. s = [moves |-> s.moves, new |-> s.new] /\ IsChanges(s.new)
  BY DEF Followed
<1>2. s.moves \in Seq(Move) /\ DistinctFroms(s.moves)
  BY DEF Followed
<1>3. \A x \in ToSet(s.moves) : \E l \in seen :
        /\ x.from = l.from
        /\ \/ \E k \in C : k.from = l.to /\ x.to = k.to
           \/ l.to \notin c.deletions /\ x.to = new(l.to)
  BY DEF Followed
<1>4. \A l \in seen : \A k \in C :
        k.from = l.to => [from |-> l.from, to |-> k.to] \in ToSet(s.moves)
  BY DEF Followed
<1>5. \A l \in seen :
        l.to \notin c.deletions => [from |-> l.from, to |-> new(l.to)] \in ToSet(s.moves)
  BY DEF Followed
<1>6. s.new.moves \in Seq(Move) /\ DistinctFroms(s.new.moves)
  BY DEF Followed
<1>7. ToSet(s.new.moves) = {k \in C : \A l \in seen : l.to # k.from}
  BY DEF Followed
<1>8. s.new.modifications =
        c.modifications \cup
          {k.to : k \in {i \in C : i.from \in b.modifications /\ \E l \in seen : l.to = i.from}}
  BY DEF Followed
<1>9. \A x \in ToSet(s.moves) : x.from # old.from
  BY <1>3
<1>10. old = [from |-> old.from, to |-> old.to] /\ old.from \in Nat /\ old.to \in Nat
  BY DEF Move
<1>. HIDE DEF new, C
<1>11. CASE \E i \in DOMAIN s.new.moves : s.new.moves[i].from = old.to
  <2>1. again \in DOMAIN s.new.moves /\ m.from = old.to /\ again # 0
    <3> DEFINE J == {i \in 1 .. Len(s.new.moves) : s.new.moves[i].from = old.to}
    <3>1. J # {} /\ J \in SUBSET Nat
      BY <1>6, <1>11
    <3>2. again = Min(J)
      BY <3>1 DEF SelectInSeq
    <3>3. Min(J) \in J
      <4>. HIDE DEF J
      <4>1. \E x \in J : \A y \in J : x <= y
        BY <3>1, LeastNatural
      <4>. QED
        BY <4>1 DEF Min
    <3>. HIDE DEF again
    <3>4. again \in J
      <4>. HIDE DEF J
      <4>. QED
        BY <3>2, <3>3
    <3>5. again \in 1 .. Len(s.new.moves) /\ s.new.moves[again].from = old.to
      BY <3>4
    <3>6. DOMAIN s.new.moves = 1 .. Len(s.new.moves) /\ Len(s.new.moves) \in Nat
      BY <1>6
    <3>7. again # 0
      BY <3>5, <3>6
    <3>. QED
      BY <3>5, <3>6, <3>7
  <2>2. t = [moves |-> Append(s.moves, [old EXCEPT !.to = m.to]),
             new   |-> [s.new EXCEPT
                          !.moves = rest,
                          !.modifications = IF m.from \in b.modifications THEN @ \cup {m.to} ELSE @]]
    BY <2>1 DEF FollowMove
  <2>3. m \in Move /\ m \in ToSet(s.new.moves)
    <3>. HIDE DEF again
    <3>1. m \in Move
      BY <1>6, <2>1
    <3>2. m \in ToSet(s.new.moves)
      BY <2>1 DEF ToSet
    <3>. QED
      BY <3>1, <3>2
  <2>4. m \in C /\ \A l \in seen : l.to # m.from
    BY <1>7, <2>3
  <2>5. /\ rest \in Seq(Move) /\ DistinctFroms(rest)
        /\ ToSet(rest) = ToSet(s.new.moves) \ {m}
    BY <1>6, <2>1, WithoutMove
  <2>. HIDE DEF m, rest, again
  <2> DEFINE e == [from |-> old.from, to |-> m.to]
  <2>6. [old EXCEPT !.to = m.to] = e /\ e \in Move
    BY <1>10, <2>3 DEF Move
  <2>7. /\ t.moves = Append(s.moves, e) /\ IsChanges(t.new) /\ t.new.moves = rest
        /\ t.new.modifications =
             IF m.from \in b.modifications THEN s.new.modifications \cup {m.to}
             ELSE s.new.modifications
    <3> DEFINE mods == IF m.from \in b.modifications THEN s.new.modifications \cup {m.to}
                       ELSE s.new.modifications
    <3>1. s.new = [deletions |-> s.new.deletions, insertions |-> s.new.insertions,
                   modifications |-> s.new.modifications, moves |-> s.new.moves,
                   mapping |-> s.new.mapping]
      BY <1>1 DEF IsChanges
    <3>2. t.moves = Append(s.moves, e)
      BY <2>2, <2>6
    <3>3. t.new = [s.new EXCEPT !.moves = rest,
                                !.modifications = IF m.from \in b.modifications
                                                  THEN @ \cup {m.to} ELSE @]
      BY <2>2
    <3>4. t.new = [deletions |-> s.new.deletions, insertions |-> s.new.insertions,
                   modifications |-> mods, moves |-> rest,
                   mapping |-> s.new.mapping]
      <4>1. CASE m.from \in b.modifications
        BY <3>1, <3>3, <4>1
      <4>2. CASE m.from \notin b.modifications
        BY <3>1, <3>3, <4>2
      <4>. QED
        BY <4>1, <4>2
    <3>. HIDE DEF mods, t
    <3>5. IsChanges(t.new) /\ t.new.moves = rest /\ t.new.modifications = mods
      BY <3>4 DEF IsChanges
    <3>. QED
      BY <3>2, <3>5 DEF mods
  <2>8. t = [moves |-> t.moves, new |-> t.new]
    BY <2>2
  <2>. HIDE DEF t, e
  <2>9. t.moves \in Seq(Move) /\ ToSet(t.moves) = ToSet(s.moves) \cup {e}
    BY <1>2, <2>6, <2>7, MovesAfterAppend
  <2>10. DistinctFroms(t.moves)
    <3>1. e.from = old.from
      BY DEF e
    <3>. QED
      BY <1>2, <1>9, <2>6, <2>7, <3>1, DistinctAfterAppend
  <2>11. \A x \in C : x.from = old.to => x = m
    <3> TAKE x \in C
    <3>1. HAVE x.from = old.to
    <3>2. x \in ToSet(s.new.moves)
      BY <1>7, <3>1
    <3>3. PICK i \in DOMAIN s.new.moves : x = s.new.moves[i]
      BY <3>2 DEF ToSet
    <3>4. PICK j \in DOMAIN s.new.moves : m = s.new.moves[j]
      BY <2>3 DEF ToSet
    <3>. QED
      BY <1>6, <2>1, <3>1, <3>3, <3>4 DEF DistinctFroms
  <2>12. \A x \in ToSet(t.moves) : \E l \in all :
           /\ x.from = l.from
           /\ \/ \E k \in C : k.from = l.to /\ x.to = k.to
              \/ l.to \notin c.deletions /\ x.to = new(l.to)
    <3> TAKE x \in ToSet(t.moves)
    <3>1. CASE x \in ToSet(s.moves)
      BY <1>3, <3>1
    <3>2. CASE x = e
      <4>1. x.from = old.from /\ x.to = m.to
        BY <3>2 DEF e
      <4>. QED
        BY <2>1, <2>4, <4>1
    <3>. QED
      BY <2>9, <3>1, <3>2
  <2>13. \A l \in all : \A k \in C :
           k.from = l.to => [from |-> l.from, to |-> k.to] \in ToSet(t.moves)
    BY <1>4, <2>9, <2>11 DEF e
  <2>14. \A l \in all :
           l.to \notin c.deletions => [from |-> l.from, to |-> new(l.to)] \in ToSet(t.moves)
    <3>1. old.to \in c.deletions
      BY <2>1, <2>4 DEF C
    <3>. QED
      BY <1>5, <2>9, <3>1
  <2>15. ToSet(t.new.moves) = {k \in C : \A l \in all : l.to # k.from}
    BY <1>7, <2>1, <2>5, <2>7, <2>11
  <2>16. t.new.modifications =
           c.modifications \cup
             {k.to : k \in {i \in C : i.from \in b.modifications /\ \E l \in all : l.to = i.from}}
    <3> DEFINE before == {i \in C : i.from \in b.modifications /\ \E l \in seen : l.to = i.from}
               after  == {i \in C : i.from \in b.modifications /\ \E l \in all : l.to = i.from}
    <3>1. after = IF m.from \in b.modifications THEN before \cup {m} ELSE before
      BY <2>1, <2>4, <2>11
    <3>. HIDE DEF before, after
    <3>2. {k.to : k \in after} =
            IF m.from \in b.modifications THEN {k.to : k \in before} \cup {m.to}
            ELSE {k.to : k \in before}
      BY <3>1
    <3>3. s.new.modifications = c.modifications \cup {k.to : k \in before}
      BY <1>8 DEF before
    <3>4. t.new.modifications = c.modifications \cup {k.to : k \in after}
      BY <2>7, <3>2, <3>3
    <3>. QED
      BY <3>4 DEF after
  <2>17. t.new.moves \in Seq(Move) /\ DistinctFroms(t.new.moves)
    BY <2>5, <2>7
  <2>18. Followed(b, c, all, t)
    <3>. HIDE DEF all
    <3>. QED
      BY <2>7, <2>8, <2>9, <2>10, <2>12, <2>13, <2>14, <2>15, <2>16, <2>17
         DEF Followed, new, C
  <2>. QED
    BY <2>18 DEF t
<1>12. CASE ~ \E i \in DOMAIN s.new.moves : s.new.moves[i].from = old.to
  <2>1. again = 0
    <3>1. {i \in 1 .. Len(s.new.moves) : s.new.moves[i].from = old.to} = {}
      BY <1>6, <1>12
    <3>. QED
      BY <3>1 DEF SelectInSeq
  <2>2. \A x \in C : x.from # old.to
    BY <1>7, <1>12 DEF ToSet
  <2>3. ToSet(s.new.moves) = {k \in C : \A l \in all : l.to # k.from}
    BY <1>7, <2>2
  <2>4. {i \in C : i.from \in b.modifications /\ \E l \in all : l.to = i.from}
          = {i \in C : i.from \in b.modifications /\ \E l \in seen : l.to = i.from}
    BY <2>2
  <2>5. s.new.modifications =
          c.modifications \cup
            {k.to : k \in {i \in C : i.from \in b.modifications /\ \E l \in all : l.to = i.from}}
    BY <1>8, <2>4
  <2>6. CASE old.to \in c.deletions
    <3>1. t = s
      BY <2>1, <2>6 DEF FollowMove
    <3>2. \A x \in ToSet(s.moves) : \E l \in all :
            /\ x.from = l.from
            /\ \/ \E k \in C : k.from = l.to /\ x.to = k.to
               \/ l.to \notin c.deletions /\ x.to = new(l.to)
      BY <1>3
    <3>3. \A l \in all : \A k \in C :
            k.from = l.to => [from |-> l.from, to |-> k.to] \in ToSet(s.moves)
      BY <1>4, <2>2
    <3>4. \A l \in all :
            l.to \notin c.deletions => [from |-> l.from, to |-> new(l.to)] \in ToSet(s.moves)
      BY <1>5, <2>6
    <3>5. Followed(b, c, all, s)
      <4>. HIDE DEF all
      <4>. QED
        BY <1>1, <1>2, <1>6, <2>3, <2>5, <3>2, <3>3, <3>4 DEF Followed, new, C
    <3>. QED
      BY <3>1, <3>5
  <2>7. CASE old.to \notin c.deletions
    <3> DEFINE e == [from |-> old.from, to |-> new(old.to)]
    <3>1. t = [s EXCEPT !.moves = Append(@, [old EXCEPT !.to = new(@)])]
      BY <2>1, <2>7 DEF FollowMove, new, OldIndex
    <3>2. new(old.to) \in Nat
      BY <1>10, <2>7, OldIndexInverse DEF new
    <3>3. [old EXCEPT !.to = new(@)] = e /\ e \in Move
      BY <1>10, <3>2 DEF Move
    <3>4. /\ t = [moves |-> t.moves, new |-> t.new]
          /\ t.moves = Append(s.moves, e) /\ t.new = s.new
      BY <1>1, <3>1, <3>3
    <3>. HIDE DEF t, e
    <3>5. t.moves \in Seq(Move) /\ ToSet(t.moves) = ToSet(s.moves) \cup {e}
      BY <1>2, <3>3, <3>4, MovesAfterAppend
    <3>6. DistinctFroms(t.moves)
      <4>1. e.from = old.from
        BY DEF e
      <4>. QED
        BY <1>2, <1>9, <3>3, <3>4, <4>1, DistinctAfterAppend
    <3>7. \A x \in ToSet(t.moves) : \E l \in all :
            /\ x.from = l.from
            /\ \/ \E k \in C : k.from = l.to /\ x.to = k.to
               \/ l.to \notin c.deletions /\ x.to = new(l.to)
      <4> TAKE x \in ToSet(t.moves)
      <4>1. CASE x \in ToSet(s.moves)
        BY <1>3, <4>1
      <4>2. CASE x = e
        <5>1. x.from = old.from /\ x.to = new(old.to)
          BY <4>2 DEF e
        <5>. QED
          BY <2>7, <5>1
      <4>. QED
        BY <3>5, <4>1, <4>2
    <3>8. \A l \in all : \A k \in C :
            k.from = l.to => [from |-> l.from, to |-> k.to] \in ToSet(t.moves)
      BY <1>4, <2>2, <3>5
    <3>9. \A l \in all :
            l.to \notin c.deletions => [from |-> l.from, to |-> new(l.to)] \in ToSet(t.moves)
      BY <1>5, <3>5 DEF e
    <3>10. Followed(b, c, all, t)
      <4>. HIDE DEF all
      <4>. QED
        BY <1>1, <1>6, <2>3, <2>5, <3>4, <3>5, <3>6, <3>7, <3>8, <3>9 DEF Followed, new, C
    <3>. QED
      BY <3>10 DEF t
  <2>. QED
    BY <2>6, <2>7
<1>. QED
  BY <1>11, <1>12

\* merge goes through the old moves once.
LEMMA FollowLoop ==
    ASSUME NEW b, NEW c, Len(b.moves) \in Nat
    PROVE  \E after :
             /\ after[0] = [moves |-> <<>>, new |-> c]
             /\ \A n \in 1 .. Len(b.moves) : after[n] = FollowMove(b, c, after[n - 1], b.moves[n])
             /\ FollowMoves(b, c) = after[Len(b.moves)]
<1> DEFINE N == Len(b.moves)
           start == [moves |-> <<>>, new |-> c]
           Next(x, n) == FollowMove(b, c, x, b.moves[n])
           Loop(f, k) == f = [n \in 0 .. k |-> IF n = 0 THEN start ELSE Next(f[n - 1], n)]
           T == {k \in 0 .. N : \E f : Loop(f, k)}
<1>1. FollowMoves(b, c) = (CHOOSE f : Loop(f, N))[N]
  BY DEF FollowMoves
<1>2. N \in Nat
  OBVIOUS
<1>. HIDE DEF Next, N, start
<1>3. 0 \in T
  <2> DEFINE g == [n \in 0 .. 0 |-> start]
             h == [n \in 0 .. 0 |-> IF n = 0 THEN start ELSE Next(g[n - 1], n)]
  <2>1. \A n \in 0 .. 0 : n = 0
    OBVIOUS
  <2>2. g = h
    BY <2>1
  <2>3. Loop(g, 0)
    BY <2>2
  <2>4. 0 \in 0 .. N
    BY <1>2
  <2>. HIDE DEF g
  <2>. QED
    BY <2>3, <2>4
<1>4. ASSUME NEW k \in 0 .. N - 1, k \in T PROVE k + 1 \in T
  <2>1. k \in Nat /\ k + 1 \in 0 .. N
    BY <1>2
  <2>2. PICK f : Loop(f, k)
    BY <1>4
  <2> DEFINE g == [n \in 0 .. k + 1 |-> IF n = k + 1 THEN Next(f[k], k + 1) ELSE f[n]]
             h == [n \in 0 .. k + 1 |-> IF n = 0 THEN start ELSE Next(g[n - 1], n)]
  <2>3. \A n \in 0 .. k : f[n] = IF n = 0 THEN start ELSE Next(f[n - 1], n)
    BY <2>2
  <2>4. ASSUME NEW n \in 0 .. k + 1 PROVE g[n] = h[n]
    <3>1. CASE n = 0
      BY <2>1, <2>3, <3>1
    <3>2. CASE n \in 1 .. k
      <4>1. n \in 0 .. k /\ n # k + 1 /\ n # 0 /\ n - 1 \in 0 .. k + 1 /\ n - 1 # k + 1
        BY <2>1, <3>2
      <4>2. g[n] = f[n] /\ g[n - 1] = f[n - 1]
        BY <4>1
      <4>. QED
        BY <2>3, <4>1, <4>2
    <3>3. CASE n = k + 1
      <4>1. n # 0 /\ n - 1 = k /\ k \in 0 .. k + 1 /\ k # k + 1
        BY <2>1, <3>3
      <4>2. g[k] = f[k]
        BY <4>1
      <4>. QED
        BY <3>3, <4>1, <4>2
    <3>4. n = 0 \/ n \in 1 .. k \/ n = k + 1
      BY <2>1
    <3>. QED
      BY <3>1, <3>2, <3>3, <3>4
  <2>5. g = h
    BY <2>4
  <2>6. Loop(g, k + 1)
    BY <2>5
  <2>. QED
    BY <2>1, <2>6
<1>5. \E f : Loop(f, N)
  <2>1. \A k \in 0 .. N : k \in T
    <3>. HIDE DEF T
    <3>. QED
      BY <1>2, <1>3, <1>4, UpTo
  <2>2. N \in 0 .. N
    BY <1>2
  <2>. QED
    BY <2>1, <2>2
<1> DEFINE after == CHOOSE f : Loop(f, N)
<1>6. Loop(after, N)
  BY <1>5
<1>7. \A n \in 0 .. N : after[n] = IF n = 0 THEN start ELSE Next(after[n - 1], n)
  <2>. HIDE DEF after
  <2>. QED
    BY <1>6
<1>8. after[0] = start
  <2>1. 0 \in 0 .. N
    BY <1>2
  <2>. HIDE DEF after
  <2>. QED
    BY <1>7, <2>1
<1>9. \A n \in 1 .. N : after[n] = Next(after[n - 1], n)
  <2>1. \A n \in 1 .. N : n \in 0 .. N /\ n # 0
    BY <1>2
  <2>. HIDE DEF after
  <2>. QED
    BY <1>7, <2>1
<1>10. FollowMoves(b, c) = after[N]
  BY <1>1
<1>. HIDE DEF after
<1>. QED
  BY <1>8, <1>9, <1>10 DEF Next, N, start

\* The first part of merge: each old move goes to where its row is after the new
\* changes, by a new move of the row or by the shifts, or is gone with the row;
\* the new moves left are those of rows that had not moved, and a mark of a row
\* moved twice is kept.
THEOREM Follow ==
    ASSUME NEW b, b.moves \in Seq(Move), DistinctFroms(b.moves),
           \A l, m \in ToSet(b.moves) : l.to = m.to => l = m,
           NEW c, IsChanges(c), c.moves \in Seq(Move), DistinctFroms(c.moves),
           c.deletions \in SUBSET Nat, IsFiniteSet(c.deletions),
           c.insertions \in SUBSET Nat, IsFiniteSet(c.insertions),
           \A m \in ToSet(c.moves) : m.from \in c.deletions
    PROVE  Followed(b, c, ToSet(b.moves), FollowMoves(b, c))
<1> DEFINE N == Len(b.moves)
           Seen(n) == {b.moves[i] : i \in 1 .. n}
<1>1. N \in Nat /\ DOMAIN b.moves = 1 .. N
  OBVIOUS
<1>2. PICK after : /\ after[0] = [moves |-> <<>>, new |-> c]
                   /\ \A n \in 1 .. N : after[n] = FollowMove(b, c, after[n - 1], b.moves[n])
                   /\ FollowMoves(b, c) = after[N]
  BY <1>1, FollowLoop
<1>. HIDE DEF N
<1>3. \A i \in 1 .. N : b.moves[i] \in Move /\ b.moves[i] \in ToSet(b.moves)
  BY <1>1 DEF ToSet
<1> DEFINE T == {n \in 0 .. N : Followed(b, c, Seen(n), after[n])}
<1>4. 0 \in T
  <2>1. after[0] = [moves |-> <<>>, new |-> c] /\ Seen(0) = {}
    BY <1>2
  <2>2. /\ after[0].moves = <<>> /\ after[0].new = c
        /\ after[0] = [moves |-> after[0].moves, new |-> after[0].new]
    BY <2>1
  <2>3. ToSet(<<>>) = {} /\ DistinctFroms(<<>>) /\ <<>> \in Seq(Move)
    BY DEF ToSet, DistinctFroms
  <2>4. Followed(b, c, Seen(0), after[0])
    <3>. HIDE DEF Seen
    <3>1. {m.to : m \in {k \in ToSet(c.moves) :
                          k.from \in b.modifications /\ \E l \in Seen(0) : l.to = k.from}} = {}
      BY <2>1
    <3>2. ToSet(c.moves) = {m \in ToSet(c.moves) : \A l \in Seen(0) : l.to # m.from}
      BY <2>1
    <3>. QED
      BY <2>1, <2>2, <2>3, <3>1, <3>2 DEF Followed
  <2>. QED
    BY <1>1, <2>4
<1>5. ASSUME NEW n \in 0 .. N - 1, n \in T PROVE n + 1 \in T
  <2> DEFINE m == b.moves[n + 1]
  <2>1. n \in Nat /\ n + 1 \in 1 .. N /\ n + 1 \in 0 .. N /\ (n + 1) - 1 = n
    BY <1>1
  <2>2. Seen(n + 1) = Seen(n) \cup {m}
    <3>1. 1 .. n + 1 = (1 .. n) \cup {n + 1}
      BY <2>1
    <3>. QED
      BY <3>1
  <2>3. m \in Move /\ m \in ToSet(b.moves) /\ Seen(n) \in SUBSET Move
    BY <1>1, <1>3, <2>1
  <2>4. \A k \in Seen(n) : k.from # m.from /\ k.to # m.to
    <3> TAKE k \in Seen(n)
    <3>1. PICK i \in 1 .. n : k = b.moves[i]
      OBVIOUS
    <3>2. i \in DOMAIN b.moves /\ n + 1 \in DOMAIN b.moves /\ i # n + 1
      BY <1>1, <2>1
    <3>3. k.from # m.from
      BY <3>1, <3>2 DEF DistinctFroms
    <3>4. k \in ToSet(b.moves)
      BY <3>1, <3>2 DEF ToSet
    <3>. QED
      BY <2>3, <3>3, <3>4
  <2>5. after[n + 1] = FollowMove(b, c, after[n], m) /\ Followed(b, c, Seen(n), after[n])
    BY <1>2, <1>5, <2>1
  <2>6. Followed(b, c, Seen(n) \cup {m}, FollowMove(b, c, after[n], m))
    <3>. HIDE DEF Seen, m
    <3>. QED
      BY <2>3, <2>4, <2>5, FollowedNext
  <2>7. Followed(b, c, Seen(n + 1), after[n + 1])
    BY <2>2, <2>5, <2>6
  <2>. QED
    BY <2>1, <2>7
<1>6. \A n \in 0 .. N : n \in T
  <2>. HIDE DEF T
  <2>. QED
    BY <1>1, <1>4, <1>5, UpTo
<1>7. Followed(b, c, Seen(N), after[N])
  <2>1. N \in 0 .. N
    BY <1>1
  <2>. QED
    BY <1>6, <2>1
<1>8. Seen(N) = ToSet(b.moves)
  BY <1>1 DEF ToSet
<1>. QED
  BY <1>2, <1>7, <1>8
=============================================================================
