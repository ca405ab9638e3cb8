-------------------------- MODULE LogChangesProofs --------------------------
(***************************************************************************)
(* Proofs, for any identities, lengths, numbers of logs, of instructions   *)
(* and of observed lists, of the invariants LogChanges.cfg model-checks.   *)
(*                                                                         *)
(* Explains is what a complete change set says of two versions of a        *)
(* collection, and TableExplains what that of a table says while its log   *)
(* is being read, when its moves are still a mapping.  Each operation of   *)
(* CollectionChange is shown to keep them, merge to compose them           *)
(* (MergeExplains, MergeMarks), and the two ends of a log to turn the      *)
(* second into the first (TableComplete).  Inv says that the two change    *)
(* sets of LogChanges explain the three collections.                       *)
(*                                                                         *)
(* What an operation does is first stated as a relation of its own (IsX),  *)
(* field by field, so that the lemmas that follow need not expand it.      *)
(***************************************************************************)
EXTENDS LogChanges, CollectionChangeProofs

----------------------------------------------------------------------------
(* Collections *)

\* The identities, and the sequences of distinct ones.
Elements == ToSet(Entries)
IsCollection(entries) == entries \in Seq(Elements) /\ IsInjective(entries)

\* Positions count from 0.
LEMMA PositionsOf ==
    ASSUME NEW s \in Seq(Elements)
    PROVE  /\ Len(s) \in Nat /\ DOMAIN s = 1 .. Len(s)
           /\ Positions(s) \in SUBSET Nat /\ IsFiniteSet(Positions(s))
           /\ \A n \in Nat : n \in Positions(s) <=> n < Len(s)
           /\ \A n \in Positions(s) : n + 1 \in DOMAIN s /\ At(s, n) \in Elements
           /\ ToSet(s) = {At(s, n) : n \in Positions(s)}
           /\ ToSet(s) \subseteq Elements
<1> DEFINE N == Len(s)
<1>1. N \in Nat /\ DOMAIN s = 1 .. N
  OBVIOUS
<1>2. \A i \in 1 .. N : s[i] \in Elements
  BY <1>1
<1>. HIDE DEF N
<1>3. Positions(s) = 0 .. N - 1
  BY DEF Positions, N
<1>4. Positions(s) \in SUBSET Nat /\ IsFiniteSet(Positions(s))
  <2>1. 0 \in Int /\ N - 1 \in Int
    BY <1>1
  <2>. QED
    BY <1>3, <2>1, FS_Interval
<1>5. \A n \in Nat : n \in Positions(s) <=> n < N
  BY <1>1, <1>3
<1>6. \A n \in Positions(s) : n + 1 \in DOMAIN s
  BY <1>1, <1>3
<1>7. \A n \in Positions(s) : At(s, n) \in Elements
  BY <1>1, <1>2, <1>6 DEF At
<1>8. \A i \in 1 .. N : i - 1 \in Positions(s) /\ (i - 1) + 1 = i
  BY <1>1, <1>3
<1>9. ToSet(s) = {At(s, n) : n \in Positions(s)}
  <2>1. ASSUME NEW x \in ToSet(s) PROVE x \in {At(s, n) : n \in Positions(s)}
    <3>1. PICK i \in 1 .. N : x = s[i]
      BY <1>1 DEF ToSet
    <3>. QED
      BY <1>8, <3>1 DEF At
  <2>2. ASSUME NEW n \in Positions(s) PROVE At(s, n) \in ToSet(s)
    BY <1>6 DEF At, ToSet
  <2>. QED
    BY <2>1, <2>2
<1>. QED
  BY <1>1, <1>4, <1>5, <1>6, <1>7, <1>9 DEF N

\* The entries of a collection are distinct.
LEMMA DistinctEntries ==
    ASSUME NEW s \in Seq(Elements)
    PROVE  IsInjective(s) <=> \A m, n \in Positions(s) : At(s, m) = At(s, n) => m = n
<1>1. /\ Len(s) \in Nat /\ DOMAIN s = 1 .. Len(s)
      /\ \A n \in Positions(s) : n + 1 \in DOMAIN s
      /\ Positions(s) \in SUBSET Nat
  BY PositionsOf
<1>2. \A i \in 1 .. Len(s) : i - 1 \in Positions(s) /\ (i - 1) + 1 = i
  BY <1>1 DEF Positions
<1>3. ASSUME IsInjective(s), NEW m \in Positions(s), NEW n \in Positions(s), At(s, m) = At(s, n)
      PROVE  m = n
  <2>1. m + 1 = n + 1
    BY <1>1, <1>3 DEF IsInjective, At
  <2>2. m \in Nat /\ n \in Nat
    BY <1>1
  <2>. QED
    BY <2>1, <2>2
<1>4. ASSUME \A m, n \in Positions(s) : At(s, m) = At(s, n) => m = n,
             NEW i \in DOMAIN s, NEW j \in DOMAIN s, s[i] = s[j]
      PROVE  i = j
  <2>1. At(s, i - 1) = At(s, j - 1)
    BY <1>1, <1>2, <1>4 DEF At
  <2>2. i - 1 = j - 1
    BY <1>1, <1>2, <1>4, <2>1
  <2>3. i \in Nat /\ j \in Nat
    BY <1>1
  <2>. QED
    BY <2>2, <2>3
<1>. QED
  BY <1>3, <1>4 DEF IsInjective

\* Collections with the same entries at the same positions are the same.
LEMMA SameCollection ==
    ASSUME NEW s \in Seq(Elements), NEW t \in Seq(Elements), Positions(s) = Positions(t),
           \A n \in Positions(s) : At(s, n) = At(t, n)
    PROVE  s = t
<1> DEFINE M == Len(s)
           N == Len(t)
<1>1. M \in Nat /\ N \in Nat /\ DOMAIN s = 1 .. M /\ DOMAIN t = 1 .. N
  BY PositionsOf
<1>2. M = N
  <2>1. \A n \in Nat : n < M <=> n < N
    <3>1. \A n \in Nat : n \in Positions(s) <=> n < M
      BY PositionsOf
    <3>2. \A n \in Nat : n \in Positions(t) <=> n < N
      BY PositionsOf
    <3>. QED
      BY <3>1, <3>2
  <2>. HIDE DEF M, N
  <2>2. ~ (M < N) /\ ~ (N < M)
    BY <1>1, <2>1
  <2>. QED
    BY <1>1, <2>2
<1>. HIDE DEF M, N
<1>3. ASSUME NEW i \in 1 .. M PROVE s[i] = t[i]
  <2>1. i - 1 \in Positions(s) /\ (i - 1) + 1 = i
    <3>1. Positions(s) = 0 .. M - 1
      BY DEF Positions, M
    <3>2. i - 1 \in 0 .. M - 1 /\ (i - 1) + 1 = i
      BY <1>1
    <3>. QED
      BY <3>1, <3>2
  <2>2. At(s, i - 1) = At(t, i - 1)
    BY <2>1
  <2>. QED
    BY <2>1, <2>2 DEF At
<1>. QED
  BY <1>1, <1>2, <1>3

\* An entry is inserted.
IsInserted(t, s, p, e) ==
    /\ t \in Seq(Elements) /\ Len(t) = Len(s) + 1
    /\ \A n \in Nat : n \in Positions(t) <=>
         n = p \/ (n < p /\ n \in Positions(s)) \/ (n > p /\ n - 1 \in Positions(s))
    /\ At(t, p) = e
    /\ \A n \in Positions(t) : n < p => At(t, n) = At(s, n)
    /\ \A n \in Positions(t) : n > p => At(t, n) = At(s, n - 1)

\* InsertAt inserts the entry at the position.
LEMMA EntryInserted ==
    ASSUME NEW s \in Seq(Elements), NEW p \in 0 .. Len(s), NEW e \in Elements
    PROVE  IsInserted(InsertAt(s, p + 1, e), s, p, e)
<1> DEFINE N == Len(s)
           u == SubSeq(s, 1, p)
           v == SubSeq(s, p + 1, N)
           t == (u \o <<e>>) \o v
<1>1. N \in Nat /\ p \in Nat /\ p <= N
  OBVIOUS
<1>2. InsertAt(s, p + 1, e) = t
  <2>1. (p + 1) - 1 = p
    BY <1>1
  <2>2. InsertAt(s, p + 1, e) = (SubSeq(s, 1, (p + 1) - 1) \o <<e>>) \o v
    BY Zenon DEF InsertAt
  <2>. QED
    BY <2>1, <2>2, Zenon
<1>3. /\ u \in Seq(Elements) /\ v \in Seq(Elements) /\ Len(u) = p /\ Len(v) = N - p
      /\ \A i \in 1 .. p : u[i] = s[i]
      /\ \A i \in 1 .. N - p : v[i] = s[p + i]
  BY <1>1
<1>. HIDE DEF u, v, N
<1>4. t \in Seq(Elements) /\ Len(t) = N + 1
  <2> DEFINE w == u \o <<e>>
  <2>1. w \in Seq(Elements) /\ Len(w) = p + 1
    BY <1>1, <1>3
  <2>. HIDE DEF w
  <2>2. w \o v \in Seq(Elements) /\ Len(w \o v) = Len(w) + Len(v)
    <3>1. w \in Seq(Elements) /\ v \in Seq(Elements)
      BY <1>3, <2>1
    <3>. QED
      BY <3>1
  <2>3. Len(w) + Len(v) = N + 1
    BY <1>1, <1>3, <2>1
  <2>. QED
    BY <2>2, <2>3 DEF w
<1>5. /\ \A i \in 1 .. p : t[i] = s[i]
      /\ t[p + 1] = e
      /\ \A i \in p + 2 .. N + 1 : t[i] = v[i - (p + 1)]
  BY <1>1, <1>3
<1>6. \A i \in p + 2 .. N + 1 : t[i] = s[i - 1]
  <2> TAKE i \in p + 2 .. N + 1
  <2>1. i - (p + 1) \in 1 .. N - p /\ p + (i - (p + 1)) = i - 1
    BY <1>1
  <2>. QED
    BY <1>3, <1>5, <2>1
<1>. HIDE DEF t
<1>7. Positions(t) = 0 .. N /\ Positions(s) = 0 .. N - 1
  BY <1>1, <1>4 DEF Positions, N
<1>8. \A n \in Nat : n \in Positions(t) <=>
        n = p \/ (n < p /\ n \in Positions(s)) \/ (n > p /\ n - 1 \in Positions(s))
  BY <1>1, <1>7
<1>9. At(t, p) = e
  BY <1>5 DEF At
<1>10. ASSUME NEW n \in Positions(t), n < p PROVE At(t, n) = At(s, n)
  <2>1. n + 1 \in 1 .. p
    BY <1>1, <1>7, <1>10
  <2>. QED
    BY <1>5, <2>1 DEF At
<1>11. ASSUME NEW n \in Positions(t), n > p PROVE At(t, n) = At(s, n - 1)
  <2>1. n + 1 \in p + 2 .. N + 1 /\ (n + 1) - 1 = (n - 1) + 1
    BY <1>1, <1>7, <1>11
  <2>. QED
    BY <1>6, <2>1 DEF At
<1>. QED
  BY <1>2, <1>4, <1>8, <1>9, <1>10, <1>11 DEF N, IsInserted

\* An entry is removed.
IsRemoved(t, s, p) ==
    /\ t \in Seq(Elements) /\ Len(t) = Len(s) - 1
    /\ \A n \in Nat : n \in Positions(t) <=>
         (n < p /\ n \in Positions(s)) \/ (n >= p /\ n + 1 \in Positions(s))
    /\ \A n \in Positions(t) : n < p => At(t, n) = At(s, n)
    /\ \A n \in Positions(t) : n >= p => At(t, n) = At(s, n + 1)

\* RemoveAt removes the entry at the position.
LEMMA EntryRemoved ==
    ASSUME NEW s \in Seq(Elements), NEW p \in Positions(s)
    PROVE  IsRemoved(RemoveAt(s, p + 1), s, p)
<1> DEFINE N == Len(s)
           u == SubSeq(s, 1, p)
           v == SubSeq(s, p + 2, N)
           t == u \o v
<1>1. N \in Nat /\ p \in Nat /\ p < N
  BY DEF Positions
<1>2. RemoveAt(s, p + 1) = t
  <2>1. (p + 1) - 1 = p /\ (p + 1) + 1 = p + 2
    BY <1>1
  <2>2. RemoveAt(s, p + 1) = SubSeq(s, 1, (p + 1) - 1) \o SubSeq(s, (p + 1) + 1, N)
    BY Zenon DEF RemoveAt
  <2>. QED
    BY <2>1, <2>2, Zenon
<1>3. /\ u \in Seq(Elements) /\ v \in Seq(Elements) /\ Len(u) = p /\ Len(v) = N - (p + 1)
      /\ \A i \in 1 .. p : u[i] = s[i]
      /\ \A i \in 1 .. N - (p + 1) : v[i] = s[p + 1 + i]
  BY <1>1
<1>. HIDE DEF u, v, N
<1>4. t \in Seq(Elements) /\ Len(t) = N - 1
  BY <1>1, <1>3
<1>5. /\ \A i \in 1 .. p : t[i] = s[i]
      /\ \A i \in p + 1 .. N - 1 : t[i] = v[i - p]
  BY <1>1, <1>3
<1>6. \A i \in p + 1 .. N - 1 : t[i] = s[i + 1]
  <2> TAKE i \in p + 1 .. N - 1
  <2>1. i - p \in 1 .. N - (p + 1) /\ p + 1 + (i - p) = i + 1
    BY <1>1
  <2>. QED
    BY <1>3, <1>5, <2>1
<1>. HIDE DEF t
<1>7. Positions(t) = 0 .. N - 2 /\ Positions(s) = 0 .. N - 1
  BY <1>1, <1>4 DEF Positions, N
<1>8. \A n \in Nat : n \in Positions(t) <=>
        (n < p /\ n \in Positions(s)) \/ (n >= p /\ n + 1 \in Positions(s))
  BY <1>1, <1>7
<1>9. ASSUME NEW n \in Positions(t), n < p PROVE At(t, n) = At(s, n)
  <2>1. n + 1 \in 1 .. p
    BY <1>1, <1>7, <1>9
  <2>. QED
    BY <1>5, <2>1 DEF At
<1>10. ASSUME NEW n \in Positions(t), n >= p PROVE At(t, n) = At(s, n + 1)
  <2>1. n + 1 \in p + 1 .. N - 1
    BY <1>1, <1>7, <1>10
  <2>. QED
    BY <1>6, <2>1 DEF At
<1>. QED
  BY <1>2, <1>4, <1>8, <1>9, <1>10 DEF N, IsRemoved

----------------------------------------------------------------------------
(* What a change set says of the old and of the new collection *)

\* The moves are those of the deleted entries that are still there.
IsMove(m, deletions, old, new) ==
    /\ m.from \in deletions /\ m.from \in Positions(old) /\ m.to \in Positions(new)
    /\ At(old, m.from) = At(new, m.to)

\* The entries that are not inserted are found at their old indices, those
\* that are not deleted are still there.
Matches(D, I, old, new) ==
    /\ D \in SUBSET Nat /\ IsFiniteSet(D) /\ I \in SUBSET Positions(new)
    /\ \A n \in Positions(new) \ I :
         OldIndex(D, I, n) \in Positions(old) /\ At(old, OldIndex(D, I, n)) = At(new, n)
    /\ \A k \in Positions(old) \ D : \E n \in Positions(new) \ I : At(new, n) = At(old, k)

\* The change set explains how the old collection became the new one: its sets
\* match them, and its moves are those of the deleted entries that are still there.
Explains(c, old, new) ==
    /\ IsChanges(c) /\ Matches(c.deletions, c.insertions, old, new)
    /\ c.moves \in Seq(Move) /\ DistinctFroms(c.moves)
    /\ \A m \in Move : m \in ToSet(c.moves) <=> IsMove(m, c.deletions, old, new)

\* The sets are finite sets of naturals.
LEMMA ExplainsSets ==
    ASSUME NEW old, IsCollection(old), NEW new, IsCollection(new), NEW c, Explains(c, old, new)
    PROVE  /\ c.deletions \in SUBSET Nat /\ IsFiniteSet(c.deletions)
           /\ c.insertions \in SUBSET Nat /\ IsFiniteSet(c.insertions)
           /\ Positions(old) \in SUBSET Nat /\ Positions(new) \in SUBSET Nat
<1>1. c.deletions \in SUBSET Nat /\ IsFiniteSet(c.deletions) /\ c.insertions \subseteq Positions(new)
  BY DEF Explains, Matches
<1>2. Positions(old) \in SUBSET Nat
  BY PositionsOf DEF IsCollection
<1>3. Positions(new) \in SUBSET Nat /\ IsFiniteSet(Positions(new))
  BY PositionsOf DEF IsCollection
<1>4. c.insertions \in SUBSET Nat /\ IsFiniteSet(c.insertions)
  BY <1>1, <1>3, FS_Subset
<1>. QED
  BY <1>1, <1>2, <1>3, <1>4

\* An entry that is kept has one new index.
LEMMA KeptEntry ==
    ASSUME NEW old, IsCollection(old), NEW new, IsCollection(new), NEW c, Explains(c, old, new),
           NEW k \in Positions(old) \ c.deletions
    PROVE  \E n \in Positions(new) \ c.insertions :
             /\ At(new, n) = At(old, k)
             /\ OldIndex(c.deletions, c.insertions, n) = k
             /\ OldIndex(c.insertions, c.deletions, k) = n
<1>1. PICK n \in Positions(new) \ c.insertions : At(new, n) = At(old, k)
  BY DEF Explains, Matches
<1>2. /\ OldIndex(c.deletions, c.insertions, n) \in Positions(old)
      /\ At(old, OldIndex(c.deletions, c.insertions, n)) = At(new, n)
  BY DEF Explains, Matches
<1>3. \A i, j \in Positions(old) : At(old, i) = At(old, j) => i = j
  BY DistinctEntries DEF IsCollection
<1>4. OldIndex(c.deletions, c.insertions, n) = k
  BY <1>1, <1>2, <1>3
<1>5. /\ c.deletions \in SUBSET Nat /\ IsFiniteSet(c.deletions)
      /\ c.insertions \in SUBSET Nat /\ IsFiniteSet(c.insertions)
      /\ n \in Nat \ c.insertions
  BY ExplainsSets
<1>6. OldIndex(c.insertions, c.deletions, OldIndex(c.deletions, c.insertions, n)) = n
  BY <1>5, OldIndexInverse
<1>. QED
  BY <1>1, <1>4, <1>6

\* A move ends at an insertion, and no two of them at the same one.
LEMMA MovesEnd ==
    ASSUME NEW old, IsCollection(old), NEW new, IsCollection(new), NEW c, Explains(c, old, new)
    PROVE  /\ \A m \in ToSet(c.moves) :
                /\ m \in Move
                /\ m.from \in c.deletions /\ m.from \in Positions(old)
                /\ m.to \in c.insertions /\ m.to \in Positions(new)
                /\ At(old, m.from) = At(new, m.to)
           /\ \A l, m \in ToSet(c.moves) : l.to = m.to => l = m
<1>1. \A m \in ToSet(c.moves) : m \in Move
  <2>1. c.moves \in Seq(Move)
    BY DEF Explains, Matches
  <2>. QED
    BY <2>1 DEF ToSet
<1>2. \A m \in ToSet(c.moves) :
        /\ m.from \in c.deletions /\ m.from \in Positions(old) /\ m.to \in Positions(new)
        /\ At(old, m.from) = At(new, m.to)
  BY <1>1 DEF Explains, Matches, IsMove
<1>3. \A i, j \in Positions(old) : At(old, i) = At(old, j) => i = j
  BY DistinctEntries DEF IsCollection
<1>4. ASSUME NEW m \in ToSet(c.moves) PROVE m.to \in c.insertions
  <2>1. SUFFICES ASSUME m.to \notin c.insertions PROVE FALSE
    OBVIOUS
  <2>2. m.to \in Positions(new) \ c.insertions
    BY <1>2, <2>1
  <2>3. /\ OldIndex(c.deletions, c.insertions, m.to) \in Positions(old)
        /\ At(old, OldIndex(c.deletions, c.insertions, m.to)) = At(new, m.to)
    BY <2>2 DEF Explains, Matches
  <2>4. OldIndex(c.deletions, c.insertions, m.to) = m.from
    BY <1>2, <1>3, <2>3
  <2>5. OldIndex(c.deletions, c.insertions, m.to) \notin c.deletions
    BY <2>2, ExplainsSets, OldIndexInverse
  <2>. QED
    BY <1>2, <2>4, <2>5
<1>5. ASSUME NEW l \in ToSet(c.moves), NEW m \in ToSet(c.moves), l.to = m.to PROVE l = m
  <2>1. l.from = m.from
    BY <1>2, <1>3, <1>5
  <2>. QED
    BY <1>1, <1>5, <2>1 DEF Move
<1>. QED
  BY <1>1, <1>2, <1>4, <1>5

\* The positions in neither set hold the same entries in the same order.
LEMMA ExplainsRest ==
    ASSUME NEW old, IsCollection(old), NEW new, IsCollection(new), NEW c, Explains(c, old, new)
    PROVE  SameRest(old, c.deletions, new, c.insertions)
<1> DEFINE D == c.deletions
           I == c.insertions
           kept == Positions(old) \ D
           rest == Positions(new) \ I
<1>1. /\ D \in SUBSET Nat /\ IsFiniteSet(D) /\ I \in SUBSET Nat /\ IsFiniteSet(I)
      /\ Positions(old) \in SUBSET Nat /\ Positions(new) \in SUBSET Nat
  BY ExplainsSets
<1>2. \A n \in rest : /\ OldIndex(D, I, n) \in Positions(old)
                      /\ At(old, OldIndex(D, I, n)) = At(new, n)
  BY DEF Explains, Matches
<1>3. \A k \in kept : \E n \in rest : At(new, n) = At(old, k)
  BY DEF Explains, Matches
<1>4. \A i, j \in Positions(old) : At(old, i) = At(old, j) => i = j
  BY DistinctEntries DEF IsCollection
<1>. HIDE DEF D, I
<1>5. \A n \in rest : OldIndex(D, I, n) \in kept
  BY <1>1, <1>2, OldIndexInverse
<1>6. \A k \in kept : \A n \in rest : At(old, k) = At(new, n) => k = OldIndex(D, I, n)
  BY <1>2, <1>4
<1>7. {At(old, n) : n \in kept} = {At(new, n) : n \in rest}
  <2>. HIDE DEF kept, rest
  <2>. QED
    BY <1>2, <1>3, <1>5
<1>8. ASSUME NEW i \in kept, NEW j \in kept, NEW k \in rest, NEW l \in rest,
             At(old, i) = At(new, k), At(old, j) = At(new, l), i < j
      PROVE  k < l
  <2>1. i = OldIndex(D, I, k) /\ j = OldIndex(D, I, l)
    BY <1>6, <1>8
  <2>2. k \in Nat \ I /\ l \in Nat \ I /\ i \in Nat /\ j \in Nat
    BY <1>1
  <2>3. k # l
    BY <1>8, <2>1, <2>2
  <2>4. CASE l < k
    <3>1. OldIndex(D, I, l) < OldIndex(D, I, k)
      BY <1>1, <2>2, <2>4, OldIndexIncreases
    <3>. QED
      BY <1>8, <2>1, <2>2, <3>1
  <2>. QED
    BY <2>2, <2>3, <2>4
<1>. QED
  BY <1>7, <1>8 DEF SameRest, D, I

\* SelectInSeq finds a member, or there is none.
LEMMA Selected ==
    ASSUME NEW moves \in Seq(Move), NEW x
    PROVE  LET i == SelectInSeq(moves, LAMBDA m : m.from = x)
           IN  \/ i = 0 /\ \A m \in ToSet(moves) : m.from # x
               \/ i # 0 /\ i \in DOMAIN moves /\ moves[i].from = x
<1> DEFINE i == SelectInSeq(moves, LAMBDA m : m.from = x)
           N == Len(moves)
           J == {j \in 1 .. N : moves[j].from = x}
<1>1. N \in Nat /\ DOMAIN moves = 1 .. N
  OBVIOUS
<1>2. i = IF J = {} THEN 0 ELSE Min(J)
  BY DEF SelectInSeq
<1>. HIDE DEF i, N
<1>3. CASE J = {}
  BY <1>1, <1>2, <1>3 DEF ToSet, i
<1>4. CASE J # {}
  <2>1. J \in SUBSET Nat
    BY <1>1
  <2>2. Min(J) \in J
    <3>. HIDE DEF J
    <3>1. \E y \in J : \A z \in J : y <= z
      BY <1>4, <2>1, LeastNatural
    <3>. QED
      BY <3>1 DEF Min
  <2>3. i \in J
    <3>. HIDE DEF J
    <3>. QED
      BY <1>2, <1>4, <2>2
  <2>4. i \in 1 .. N /\ moves[i].from = x
    BY <2>3
  <2>5. i # 0
    BY <1>1, <2>4
  <2>. QED
    BY <1>1, <2>4, <2>5 DEF i
<1>. QED
  BY <1>3, <1>4

\* Every old entry is found at its new place, or known to be gone.
LEMMA ExplainsTraces ==
    ASSUME NEW old, IsCollection(old), NEW new, IsCollection(new), NEW c, Explains(c, old, new)
    PROVE  IsTraced(c, old, new)
<1> SUFFICES ASSUME NEW n \in Positions(old)
             PROVE  IF Gone(c, n) THEN At(old, n) \notin ToSet(new)
                    ELSE ReportedPlace(c, n) \in Positions(new) /\ At(new, ReportedPlace(c, n)) = At(old, n)
  BY DEF IsTraced
<1>1. n \in Nat
  BY ExplainsSets
<1>2. CASE Gone(c, n)
  <2>1. n \in c.deletions /\ \A m \in ToSet(c.moves) : m.from # n
    BY <1>2 DEF Gone
  <2>2. ASSUME NEW k \in Positions(new), At(old, n) = At(new, k) PROVE FALSE
    <3> DEFINE m == [from |-> n, to |-> k]
    <3>1. m \in Move /\ m.from = n /\ m.to = k
      BY <1>1, ExplainsSets DEF Move
    <3>. HIDE DEF m
    <3>2. m \in ToSet(c.moves)
      BY <2>1, <2>2, <3>1 DEF Explains, Matches, IsMove
    <3>. QED
      BY <2>1, <3>1, <3>2
  <2>3. ToSet(new) = {At(new, k) : k \in Positions(new)}
    BY PositionsOf DEF IsCollection
  <2>. QED
    BY <1>2, <2>2, <2>3
<1>3. CASE ~Gone(c, n)
  <2> DEFINE i == SelectInSeq(c.moves, LAMBDA m : m.from = n)
  <2>1. c.moves \in Seq(Move)
    BY DEF Explains, Matches
  <2>2. \/ i = 0 /\ \A m \in ToSet(c.moves) : m.from # n
        \/ i # 0 /\ i \in DOMAIN c.moves /\ c.moves[i].from = n
    BY <2>1, Selected
  <2>3. ReportedPlace(c, n) = IF i # 0 THEN c.moves[i].to
                         ELSE OldIndex(c.insertions, c.deletions, n)
    BY DEF ReportedPlace, OldIndex
  <2>. HIDE DEF i
  <2>4. CASE i # 0
    <3>1. c.moves[i] \in ToSet(c.moves) /\ c.moves[i].from = n
      BY <2>2, <2>4 DEF ToSet
    <3>2. /\ c.moves[i].to \in Positions(new)
          /\ At(old, c.moves[i].from) = At(new, c.moves[i].to)
      BY <3>1, MovesEnd
    <3>. QED
      BY <1>3, <2>3, <2>4, <3>1, <3>2
  <2>5. CASE i = 0
    <3>1. n \in Positions(old) \ c.deletions
      BY <1>3, <2>2, <2>5 DEF Gone
    <3>2. PICK k \in Positions(new) \ c.insertions :
            At(new, k) = At(old, n) /\ OldIndex(c.insertions, c.deletions, n) = k
      BY <3>1, KeptEntry
    <3>. QED
      BY <1>3, <2>3, <2>5, <3>2
  <2>. QED
    BY <2>4, <2>5
<1>. QED
  BY <1>2, <1>3

\* The search of sorted moves finds the one that starts where it is asked for.
LEMMA LowerBound ==
    ASSUME NEW moves \in Seq(Move), Sorted(moves), NEW i \in DOMAIN moves
    PROVE  lower_bound(moves, moves[i].from) = i
<1> DEFINE n == moves[i].from
           N == Len(moves)
           Less == {j \in DOMAIN moves : moves[j].from < n}
<1>1. N \in Nat /\ DOMAIN moves = 1 .. N /\ i \in 1 .. N /\ \A j \in 1 .. N : moves[j].from \in Nat
  <2>1. N \in Nat /\ DOMAIN moves = 1 .. N /\ \A j \in 1 .. N : moves[j] \in Move
    OBVIOUS
  <2>. QED
    BY <2>1 DEF Move
<1>2. \A j \in 1 .. N : moves[j].from < n <=> j < i
  BY <1>1 DEF Sorted
<1>. HIDE DEF n, N
<1>3. Less = 1 .. i - 1
  BY <1>1, <1>2
<1>4. Cardinality(1 .. i - 1) = i - 1
  <2>1. 1 \in Int /\ i - 1 \in Int /\ i >= 1
    BY <1>1
  <2>. HIDE DEF Less
  <2>2. Cardinality(1 .. i - 1) = IF 1 > i - 1 THEN 0 ELSE (i - 1) - 1 + 1
    BY <2>1, FS_Interval
  <2>. QED
    BY <2>1, <2>2
<1>5. lower_bound(moves, n) = 1 + Cardinality(Less)
  BY DEF lower_bound
<1>. HIDE DEF Less
<1>6. 1 + Cardinality(Less) = i
  BY <1>1, <1>3, <1>4
<1>. QED
  BY <1>5, <1>6 DEF n

\* A query finds an old row where the moves and the shifts say, or learns that
\* it is gone.
LEMMA RowLookedUp ==
    ASSUME NEW old, IsCollection(old), NEW new, IsCollection(new), NEW c, Explains(c, old, new),
           Sorted(c.moves), NEW n \in Positions(old)
    PROVE  IF RowNow(c, n) = npos THEN At(old, n) \notin ToSet(new)
           ELSE RowNow(c, n) \in Positions(new) /\ At(new, RowNow(c, n)) = At(old, n)
<1> DEFINE it == lower_bound(c.moves, n)
<1>1. c.moves \in Seq(Move) /\ Positions(new) \in SUBSET Nat
  BY ExplainsSets DEF Explains
<1>2. RowNow(c, n) =
        IF n \notin c.deletions THEN OldIndex(c.insertions, c.deletions, n)
        ELSE IF it \in DOMAIN c.moves /\ c.moves[it].from = n THEN c.moves[it].to
        ELSE npos
  BY DEF RowNow, OldIndex
<1>3. \A k \in Positions(new) : k # npos
  BY <1>1 DEF npos
<1>4. CASE n \notin c.deletions
  <2>1. PICK k \in Positions(new) \ c.insertions :
          At(new, k) = At(old, n) /\ OldIndex(c.insertions, c.deletions, n) = k
    BY <1>4, KeptEntry
  <2>. QED
    BY <1>2, <1>3, <1>4, <2>1
<1>5. CASE n \in c.deletions /\ \E i \in DOMAIN c.moves : c.moves[i].from = n
  <2>1. PICK i \in DOMAIN c.moves : c.moves[i].from = n
    BY <1>5
  <2>2. it = i
    BY <1>1, <2>1, LowerBound
  <2>3. c.moves[i] \in ToSet(c.moves)
    BY DEF ToSet
  <2>4. c.moves[i].to \in Positions(new) /\ At(old, n) = At(new, c.moves[i].to)
    BY <2>1, <2>3, MovesEnd
  <2>. HIDE DEF it
  <2>. QED
    BY <1>2, <1>3, <1>5, <2>1, <2>2, <2>4
<1>6. CASE n \in c.deletions /\ ~ \E i \in DOMAIN c.moves : c.moves[i].from = n
  <2>1. RowNow(c, n) = npos
    BY <1>2, <1>6
  <2>2. Gone(c, n)
    BY <1>6 DEF Gone, ToSet
  <2>3. At(old, n) \notin ToSet(new)
    BY <2>2, ExplainsTraces DEF IsTraced
  <2>. QED
    BY <2>1, <2>3
<1>. QED
  BY <1>4, <1>5, <1>6

\* Without deletions and insertions the old index is the index.
LEMMA NothingRenumbered ==
    ASSUME NEW n \in Nat
    PROVE  OldIndex({}, {}, n) = n
<1>1. {} \in SUBSET Nat /\ IsFiniteSet({}) /\ n \in Nat \ {}
  BY FS_EmptySet
<1>2. Ix!ShiftIndex({}, Ix!UnshiftIndex({}, n)) = n
  BY <1>1, ShiftUnshift
<1>. QED
  BY <1>2 DEF OldIndex

\* An empty change set: nothing has changed (the early returns of merge).
LEMMA EmptyExplains ==
    ASSUME NEW old, IsCollection(old), NEW new, IsCollection(new), NEW c, Explains(c, old, new),
           c.deletions = {}, c.insertions = {}
    PROVE  old = new
<1>1. Positions(old) \in SUBSET Nat /\ Positions(new) \in SUBSET Nat
  BY ExplainsSets
<1>2. \A n \in Positions(new) : n \in Positions(old) /\ At(old, n) = At(new, n)
  <2> TAKE n \in Positions(new)
  <2>1. OldIndex(c.deletions, c.insertions, n) = n
    BY <1>1, NothingRenumbered
  <2>2. n \in Positions(new) \ c.insertions
    OBVIOUS
  <2>. QED
    BY <2>1, <2>2 DEF Explains, Matches
<1>3. \A k \in Positions(old) : k \in Positions(new)
  <2> TAKE k \in Positions(old)
  <2>1. k \in Positions(old) \ c.deletions
    OBVIOUS
  <2>2. PICK n \in Positions(new) : OldIndex(c.deletions, c.insertions, n) = k
    BY <2>1, KeptEntry, SMTT(30)
  <2>3. OldIndex(c.deletions, c.insertions, n) = n
    BY <1>1, NothingRenumbered
  <2>. QED
    BY <2>2, <2>3
<1>4. Positions(old) = Positions(new)
  BY <1>2, <1>3
<1>. QED
  BY <1>2, <1>4, SameCollection DEF IsCollection

\* The stale moves can go: the change set explains the same.
LEMMA CleanedExplains ==
    ASSUME NEW old, IsCollection(old), NEW new, IsCollection(new), NEW c, Explains(c, old, new)
    PROVE  LET d == clean_up_stale_moves(c)
           IN  /\ Explains(d, old, new)
               /\ d.modifications = c.modifications /\ d.mapping = c.mapping
               /\ d.deletions \subseteq c.deletions
<1> DEFINE d == clean_up_stale_moves(c)
           gone == ToSet(c.moves) \ ToSet(d.moves)
<1>1. /\ c.deletions \in SUBSET Nat /\ IsFiniteSet(c.deletions)
      /\ c.insertions \in SUBSET Nat /\ IsFiniteSet(c.insertions)
      /\ Positions(old) \in SUBSET Nat /\ Positions(new) \in SUBSET Nat
  BY ExplainsSets
<1>2. /\ IsChanges(c) /\ c.moves \in Seq(Move) /\ DistinctFroms(c.moves)
      /\ c.insertions \subseteq Positions(new)
  BY DEF Explains, Matches
<1>3. \A m \in ToSet(c.moves) :
        /\ m \in Move
        /\ m.from \in c.deletions /\ m.from \in Positions(old)
        /\ m.to \in c.insertions /\ m.to \in Positions(new)
        /\ At(old, m.from) = At(new, m.to)
  BY MovesEnd
<1>4. \A l, m \in ToSet(c.moves) : l.to = m.to => l = m
  BY MovesEnd
<1>5. Cleaned(c, ToSet(c.moves), d)
  BY <1>1, <1>2, <1>3, <1>4, CleanUp
<1>. HIDE DEF d
<1>6. /\ IsChanges(d) /\ d.modifications = c.modifications /\ d.mapping = c.mapping
      /\ d.moves \in Seq(Move) /\ ToSet(d.moves) \subseteq ToSet(c.moves) /\ DistinctFroms(d.moves)
      /\ d.deletions = c.deletions \ {m.from : m \in gone}
      /\ d.insertions = c.insertions \ {m.to : m \in gone}
      /\ \A m \in gone : OldIndex(d.deletions, d.insertions, m.to) = m.from
      /\ \A n \in Nat \ c.insertions :
           OldIndex(d.deletions, d.insertions, n) = OldIndex(c.deletions, c.insertions, n)
  BY <1>5 DEF Cleaned
<1>7. d.deletions \in SUBSET Nat /\ IsFiniteSet(d.deletions) /\ d.deletions \subseteq c.deletions
  BY <1>1, <1>6, FS_Subset
<1>8. d.insertions \in SUBSET Positions(new)
  BY <1>2, <1>6
<1>9. ASSUME NEW n \in Positions(new) \ d.insertions
      PROVE  /\ OldIndex(d.deletions, d.insertions, n) \in Positions(old)
             /\ At(old, OldIndex(d.deletions, d.insertions, n)) = At(new, n)
  <2>1. CASE n \notin c.insertions
    <3>1. OldIndex(d.deletions, d.insertions, n) = OldIndex(c.deletions, c.insertions, n)
      BY <1>1, <1>6, <2>1
    <3>2. /\ OldIndex(c.deletions, c.insertions, n) \in Positions(old)
          /\ At(old, OldIndex(c.deletions, c.insertions, n)) = At(new, n)
      BY <2>1 DEF Explains, Matches
    <3>. QED
      BY <3>1, <3>2
  <2>2. CASE n \in c.insertions
    <3>1. PICK m \in gone : n = m.to
      BY <1>6, <2>2
    <3>2. OldIndex(d.deletions, d.insertions, n) = m.from
      BY <1>6, <3>1
    <3>. QED
      BY <1>3, <3>1, <3>2
  <2>. QED
    BY <2>1, <2>2
<1>10. ASSUME NEW k \in Positions(old) \ d.deletions
       PROVE  \E n \in Positions(new) \ d.insertions : At(new, n) = At(old, k)
  <2>1. CASE k \notin c.deletions
    <3>1. PICK n \in Positions(new) \ c.insertions : At(new, n) = At(old, k)
      BY <2>1 DEF Explains, Matches
    <3>. QED
      BY <1>6, <3>1
  <2>2. CASE k \in c.deletions
    <3>1. PICK m \in gone : k = m.from
      BY <1>6, <2>2
    <3>2. m.to \notin d.insertions
      BY <1>6, <3>1
    <3>. QED
      BY <1>3, <3>1, <3>2
  <2>. QED
    BY <2>1, <2>2
<1>11. ASSUME NEW m \in Move
       PROVE  m \in ToSet(d.moves) <=> IsMove(m, d.deletions, old, new)
  <2>1. m \in ToSet(c.moves) <=> IsMove(m, c.deletions, old, new)
    BY DEF Explains, Matches
  <2>2. ASSUME m \in ToSet(d.moves) PROVE m.from \in d.deletions
    <3>1. m \in ToSet(c.moves) /\ m.from \in c.deletions
      BY <1>3, <1>6, <2>2
    <3>2. ASSUME NEW l \in gone, l.from = m.from PROVE FALSE
      <4>1. PICK i \in DOMAIN c.moves : l = c.moves[i]
        BY DEF ToSet
      <4>2. PICK j \in DOMAIN c.moves : m = c.moves[j]
        BY <3>1 DEF ToSet
      <4>3. l = m
        BY <1>2, <3>2, <4>1, <4>2 DEF DistinctFroms
      <4>. QED
        BY <2>2, <4>3
    <3>. QED
      BY <1>6, <3>1, <3>2
  <2>3. ASSUME m \in ToSet(c.moves), m.from \in d.deletions PROVE m \in ToSet(d.moves)
    BY <1>6, <2>3
  <2>. QED
    BY <1>6, <1>7, <2>1, <2>2, <2>3 DEF IsMove
<1>. QED
  BY <1>6, <1>7, <1>8, <1>9, <1>10, <1>11 DEF Explains, Matches, d

----------------------------------------------------------------------------
(* merge *)

\* Moves joined with moves that start elsewhere.
LEMMA JoinedMoves ==
    ASSUME NEW p \in Seq(Move), DistinctFroms(p), NEW q \in Seq(Move), DistinctFroms(q),
           \A l \in ToSet(p) : \A m \in ToSet(q) : l.from # m.from
    PROVE  /\ p \o q \in Seq(Move)
           /\ ToSet(p \o q) = ToSet(p) \cup ToSet(q)
           /\ DistinctFroms(p \o q)
<1> DEFINE M == Len(p)
           N == Len(q)
           r == p \o q
<1>1. M \in Nat /\ N \in Nat /\ DOMAIN p = 1 .. M /\ DOMAIN q = 1 .. N
  OBVIOUS
<1>2. /\ r \in Seq(Move) /\ DOMAIN r = 1 .. M + N
      /\ \A i \in 1 .. M : r[i] = p[i]
      /\ \A i \in M + 1 .. M + N : r[i] = q[i - M]
  OBVIOUS
<1>. HIDE DEF M, N, r
<1>3. \A i \in 1 .. M + N : i \in 1 .. M \/ (i \in M + 1 .. M + N /\ i - M \in 1 .. N)
  BY <1>1
<1>4. \A i \in 1 .. M : i \in 1 .. M + N
  BY <1>1
<1>5. \A i \in 1 .. N : M + i \in 1 .. M + N /\ M + i \in M + 1 .. M + N /\ (M + i) - M = i
  BY <1>1
<1>6. \A i \in 1 .. M : p[i] \in ToSet(p)
  BY <1>1 DEF ToSet
<1>7. \A i \in 1 .. N : q[i] \in ToSet(q)
  BY <1>1 DEF ToSet
<1>8. ToSet(r) = ToSet(p) \cup ToSet(q)
  <2>1. ASSUME NEW x \in ToSet(r) PROVE x \in ToSet(p) \cup ToSet(q)
    <3>1. PICK i \in 1 .. M + N : x = r[i]
      BY <1>2 DEF ToSet
    <3>. QED
      BY <1>2, <1>3, <1>6, <1>7, <3>1
  <2>2. ASSUME NEW x \in ToSet(p) PROVE x \in ToSet(r)
    <3>1. PICK i \in 1 .. M : x = p[i]
      BY <1>1 DEF ToSet
    <3>. QED
      BY <1>2, <1>4, <3>1 DEF ToSet
  <2>3. ASSUME NEW x \in ToSet(q) PROVE x \in ToSet(r)
    <3>1. PICK i \in 1 .. N : x = q[i]
      BY <1>1 DEF ToSet
    <3>2. r[M + i] = x /\ M + i \in DOMAIN r
      BY <1>2, <1>5, <3>1
    <3>. QED
      BY <3>2 DEF ToSet
  <2>. QED
    BY <2>1, <2>2, <2>3
<1>9. ASSUME NEW i \in 1 .. M + N, NEW j \in 1 .. M + N, r[i].from = r[j].from PROVE i = j
  <2>1. CASE i \in 1 .. M /\ j \in 1 .. M
    BY <1>1, <1>2, <1>9, <2>1 DEF DistinctFroms
  <2>2. CASE i \in M + 1 .. M + N /\ i - M \in 1 .. N /\ j \in M + 1 .. M + N /\ j - M \in 1 .. N
    <3>1. q[i - M].from = q[j - M].from
      BY <1>2, <1>9, <2>2
    <3>2. \A x, y \in 1 .. N : q[x].from = q[y].from => x = y
      BY <1>1 DEF DistinctFroms
    <3>3. i - M = j - M
      BY <2>2, <3>1, <3>2
    <3>. QED
      BY <1>1, <3>3
  <2>3. CASE i \in 1 .. M /\ j \in M + 1 .. M + N /\ j - M \in 1 .. N
    BY <1>2, <1>6, <1>7, <1>9, <2>3
  <2>4. CASE j \in 1 .. M /\ i \in M + 1 .. M + N /\ i - M \in 1 .. N
    BY <1>2, <1>6, <1>7, <1>9, <2>4
  <2>. QED
    BY <1>3, <2>1, <2>2, <2>3, <2>4
<1>10. DistinctFroms(r)
  BY <1>2, <1>9 DEF DistinctFroms
<1>. QED
  BY <1>2, <1>8, <1>10 DEF r

\* The new moves of rows that b has neither moved nor inserted,
Left(b, c) ==
    LET again == FollowMoves(b, c).new.moves
    IN  LeaveOut(again, {i \in DOMAIN again : again[i].from \in b.insertions})

\* all moves,
Joined(b, c) ==
    FollowMoves(b, c).moves \o [m \in DOMAIN Left(b, c) |-> OldPosition(b, Left(b, c)[m])]

\* and the change set that merge then cleans up.
Merged(b, c) ==
    [b EXCEPT !.moves = Joined(b, c),
              !.deletions  = MergedDeletions(b.deletions, b.insertions, c.deletions),
              !.insertions = MergedInsertions(b.insertions, c.deletions, c.insertions)]

\* merge in these words.
LEMMA MergeInParts ==
    ASSUME NEW b, IsChanges(b), NEW c, ~IsEmpty(b), ~IsEmpty(c)
    PROVE  merge(b, c) =
             [clean_up_stale_moves(Merged(b, c)) EXCEPT !.modifications =
                Ix!ShiftForInsertAll(Ix!EraseAll(@, c.deletions), c.insertions)
                  \cup FollowMoves(b, c).new.modifications
                  \cup StillModified(b, Left(b, c))]
<1> DEFINE pre == [b EXCEPT !.moves = Joined(b, c),
                            !.deletions  = Ix!AddShiftedBy(@, b.insertions, c.deletions),
                            !.insertions = Ix!InsertAll(Ix!EraseAll(@, c.deletions), c.insertions)]
<1>1. merge(b, c) =
             [clean_up_stale_moves(pre) EXCEPT !.modifications =
                Ix!ShiftForInsertAll(Ix!EraseAll(@, c.deletions), c.insertions)
                  \cup FollowMoves(b, c).new.modifications
                  \cup StillModified(b, Left(b, c))]
  BY DEF merge, Left, Joined
<1>2. pre = Merged(b, c)
  BY DEF IsChanges, Merged, MergedDeletions, MergedInsertions
<1>. QED
  BY <1>1, <1>2

\* The new moves that are left: those of rows that b has not inserted.
LEMMA LeftMoves ==
    ASSUME NEW old, IsCollection(old), NEW mid, IsCollection(mid), NEW new, IsCollection(new),
           NEW b, Explains(b, old, mid), NEW c, Explains(c, mid, new)
    PROVE  /\ Followed(b, c, ToSet(b.moves), FollowMoves(b, c))
           /\ Left(b, c) \in Seq(Move) /\ DistinctFroms(Left(b, c))
           /\ ToSet(Left(b, c)) = {m \in ToSet(c.moves) : m.from \notin b.insertions}
<1> DEFINE f == FollowMoves(b, c)
           again == f.new.moves
           out == {i \in DOMAIN again : again[i].from \in b.insertions}
           left == LeaveOut(again, out)
<1>1. /\ b.moves \in Seq(Move) /\ DistinctFroms(b.moves)
      /\ IsChanges(c) /\ c.moves \in Seq(Move) /\ DistinctFroms(c.moves)
  BY DEF Explains, Matches
<1>2. /\ \A l, m \in ToSet(b.moves) : l.to = m.to => l = m
      /\ \A l \in ToSet(b.moves) : l.to \in b.insertions
  BY MovesEnd
<1>3. \A m \in ToSet(c.moves) : m.from \in c.deletions
  BY MovesEnd
<1>4. /\ c.deletions \in SUBSET Nat /\ IsFiniteSet(c.deletions)
      /\ c.insertions \in SUBSET Nat /\ IsFiniteSet(c.insertions)
  BY ExplainsSets
<1>5. Followed(b, c, ToSet(b.moves), f)
  BY <1>1, <1>2, <1>3, <1>4, Follow
<1>. HIDE DEF f
<1>6. /\ again \in Seq(Move) /\ DistinctFroms(again)
      /\ ToSet(again) = {m \in ToSet(c.moves) : \A l \in ToSet(b.moves) : l.to # m.from}
  BY <1>5 DEF Followed
<1>. HIDE DEF again
<1>7. out \in SUBSET DOMAIN again
  OBVIOUS
<1>8. /\ left \in Seq(Move)
      /\ \A i \in DOMAIN left : /\ Ix!ShiftIndex(out, i) \in DOMAIN again \ out
                                /\ left[i] = again[Ix!ShiftIndex(out, i)]
      /\ \A i, j \in DOMAIN left : Ix!ShiftIndex(out, i) = Ix!ShiftIndex(out, j) => i = j
      /\ ToSet(left) = {again[i] : i \in DOMAIN again \ out}
  <2>. HIDE DEF out
  <2>. QED
    BY <1>6, <1>7, LeftOut
<1>. HIDE DEF left
<1>9. DistinctFroms(left)
  <2> SUFFICES ASSUME NEW i \in DOMAIN left, NEW j \in DOMAIN left, left[i].from = left[j].from
               PROVE  i = j
    BY DEF DistinctFroms
  <2>1. Ix!ShiftIndex(out, i) = Ix!ShiftIndex(out, j)
    <3>. HIDE DEF out
    <3>. QED
      BY <1>6, <1>8 DEF DistinctFroms
  <2>. QED
    BY <1>8, <2>1
<1>10. ToSet(left) = {m \in ToSet(again) : m.from \notin b.insertions}
  <2>1. ASSUME NEW m \in ToSet(left) PROVE m \in ToSet(again) /\ m.from \notin b.insertions
    <3>1. PICK i \in DOMAIN again \ out : m = again[i]
      BY <1>8
    <3>. QED
      BY <3>1 DEF ToSet
  <2>2. ASSUME NEW m \in ToSet(again), m.from \notin b.insertions PROVE m \in ToSet(left)
    <3>1. PICK i \in DOMAIN again : m = again[i]
      BY DEF ToSet
    <3>2. i \in DOMAIN again \ out
      BY <2>2, <3>1
    <3>. QED
      BY <1>8, <3>1, <3>2
  <2>. QED
    BY <2>1, <2>2
<1>11. ToSet(left) = {m \in ToSet(c.moves) : m.from \notin b.insertions}
  BY <1>2, <1>6, <1>10
<1>12. left = Left(b, c)
  BY DEF left, out, again, f, Left
<1>. QED
  BY <1>5, <1>8, <1>9, <1>11, <1>12 DEF f

\* The moves of both change sets together are those of the merged one.
LEMMA MergedMoves ==
    ASSUME NEW old, IsCollection(old), NEW mid, IsCollection(mid), NEW new, IsCollection(new),
           NEW b, Explains(b, old, mid), NEW c, Explains(c, mid, new),
           ToSet(old) \cap ToSet(new) \subseteq ToSet(mid)
    PROVE  /\ Joined(b, c) \in Seq(Move) /\ DistinctFroms(Joined(b, c))
           /\ \A m \in Move : m \in ToSet(Joined(b, c)) <=>
                IsMove(m, MergedDeletions(b.deletions, b.insertions, c.deletions), old, new)
<1> DEFINE D1 == b.deletions
           I1 == b.insertions
           D2 == c.deletions
           I2 == c.insertions
           D == MergedDeletions(D1, I1, D2)
           f == FollowMoves(b, c)
           left == Left(b, c)
           back(m) == [from |-> OldIndex(D1, I1, m.from), to |-> m.to]
           others == [i \in DOMAIN left |-> OldPosition(b, left[i])]
<1>1. /\ D1 \in SUBSET Nat /\ IsFiniteSet(D1) /\ I1 \in SUBSET Nat /\ IsFiniteSet(I1)
      /\ Positions(old) \in SUBSET Nat /\ Positions(mid) \in SUBSET Nat
  BY ExplainsSets
<1>2. /\ D2 \in SUBSET Nat /\ IsFiniteSet(D2) /\ I2 \in SUBSET Nat /\ IsFiniteSet(I2)
      /\ Positions(new) \in SUBSET Nat
  BY ExplainsSets
<1>3. /\ Followed(b, c, ToSet(b.moves), f)
      /\ left \in Seq(Move) /\ DistinctFroms(left)
      /\ ToSet(left) = {m \in ToSet(c.moves) : m.from \notin I1}
  BY LeftMoves
<1>4. \A m \in ToSet(b.moves) :
        /\ m \in Move
        /\ m.from \in D1 /\ m.from \in Positions(old) /\ m.to \in I1 /\ m.to \in Positions(mid)
        /\ At(old, m.from) = At(mid, m.to)
  BY MovesEnd
<1>5. \A m \in ToSet(c.moves) :
        /\ m \in Move
        /\ m.from \in D2 /\ m.from \in Positions(mid) /\ m.to \in I2 /\ m.to \in Positions(new)
        /\ At(mid, m.from) = At(new, m.to)
  BY MovesEnd
<1>. HIDE DEF D1, I1, D2, I2
<1>6. D = D1 \cup {OldIndex(D1, I1, v) : v \in D2 \ I1}
  BY <1>1, <1>2, MergedSets
<1>7. \A n \in Nat \ I1 : OldIndex(D1, I1, n) \in Nat \ D1
                          /\ OldIndex(I1, D1, OldIndex(D1, I1, n)) = n
  BY <1>1, OldIndexInverse
<1>8. \A m \in ToSet(left) : m \in ToSet(c.moves) /\ m.from \in Nat \ I1 /\ back(m) \in Move
  <2> TAKE m \in ToSet(left)
  <2>1. m \in ToSet(c.moves) /\ m.from \in Nat \ I1 /\ m \in Move
    BY <1>2, <1>3, <1>5 DEF Move
  <2>2. OldIndex(D1, I1, m.from) \in Nat
    BY <1>7, <2>1
  <2>. QED
    BY <2>1, <2>2 DEF Move
<1>9. \A i \in DOMAIN left : others[i] = back(left[i]) /\ left[i] \in ToSet(left) /\ left[i] \in Move
  <2> TAKE i \in DOMAIN left
  <2>1. left[i] \in ToSet(left) /\ left[i] \in Move
    <3>. HIDE DEF left
    <3>. QED
      BY <1>3 DEF ToSet
  <2>2. \A m \in Move : OldPosition(b, m) = back(m)
    BY DEF OldPosition, OldIndex, Move, D1, I1
  <2>3. others[i] = OldPosition(b, left[i])
    OBVIOUS
  <2>. HIDE DEF left, others, back
  <2>. QED
    BY <2>1, <2>2, <2>3
<1>. HIDE DEF left
<1>10. others \in Seq(Move)
  <2>1. Len(left) \in Nat /\ DOMAIN left = 1 .. Len(left)
    BY <1>3
  <2>2. others = [i \in 1 .. Len(left) |-> others[i]]
    BY <2>1
  <2>3. \A i \in 1 .. Len(left) : others[i] \in Move
    <3>. HIDE DEF others, back
    <3>. QED
      BY <1>8, <1>9, <2>1
  <2>. HIDE DEF others
  <2>. QED
    BY <2>1, <2>2, <2>3
<1>11. DOMAIN others = DOMAIN left
  OBVIOUS
<1>. HIDE DEF others
<1>12. DistinctFroms(others)
  <2> SUFFICES ASSUME NEW i \in DOMAIN left, NEW j \in DOMAIN left, others[i].from = others[j].from
               PROVE  i = j
    BY <1>11 DEF DistinctFroms
  <2>1. OldIndex(D1, I1, left[i].from) = OldIndex(D1, I1, left[j].from)
    <3>1. \A k \in DOMAIN left : others[k] = back(left[k])
      BY <1>9
    <3>2. \A m : back(m).from = OldIndex(D1, I1, m.from)
      OBVIOUS
    <3>. HIDE DEF back
    <3>3. \A k \in DOMAIN left : others[k].from = OldIndex(D1, I1, left[k].from)
      BY <3>1, <3>2
    <3>. QED
      BY <3>3
  <2>2. left[i].from \in Nat \ I1 /\ left[j].from \in Nat \ I1
    BY <1>8, <1>9
  <2>3. left[i].from = left[j].from
    BY <1>7, <2>1, <2>2
  <2>. QED
    BY <1>3, <2>3 DEF DistinctFroms
<1>13. ToSet(others) = {back(m) : m \in ToSet(left)}
  <2>. HIDE DEF back
  <2>1. ToSet(left) = {left[i] : i \in DOMAIN left}
    BY DEF ToSet
  <2>2. ToSet(others) = {others[i] : i \in DOMAIN left}
    BY <1>11 DEF ToSet
  <2>. QED
    BY <1>9, <2>1, <2>2
<1>14. f.moves \in Seq(Move) /\ DistinctFroms(f.moves)
  BY <1>3 DEF Followed
<1>15. \A x \in ToSet(f.moves) : \E l \in ToSet(b.moves) :
         /\ x.from = l.from
         /\ \/ \E m \in ToSet(c.moves) : m.from = l.to /\ x.to = m.to
            \/ l.to \notin D2 /\ x.to = OldIndex(I2, D2, l.to)
  BY <1>3 DEF Followed, D2, I2
<1>16. \A l \in ToSet(b.moves) : \A m \in ToSet(c.moves) :
         m.from = l.to => [from |-> l.from, to |-> m.to] \in ToSet(f.moves)
  BY <1>3 DEF Followed
<1>17. \A l \in ToSet(b.moves) :
         l.to \notin D2 => [from |-> l.from, to |-> OldIndex(I2, D2, l.to)] \in ToSet(f.moves)
  BY <1>3 DEF Followed, D2, I2
<1>. HIDE DEF f
<1>18. \A l \in ToSet(f.moves) : \A m \in ToSet(others) : l.from # m.from
  <2> TAKE l \in ToSet(f.moves)
  <2> TAKE m \in ToSet(others)
  <2>1. l.from \in D1
    BY <1>4, <1>15
  <2>2. PICK k \in ToSet(left) : m = back(k)
    BY <1>13
  <2>3. m.from \notin D1
    BY <1>7, <1>8, <2>2
  <2>. QED
    BY <2>1, <2>3
<1> DEFINE r == f.moves \o others
<1>19. r \in Seq(Move) /\ ToSet(r) = ToSet(f.moves) \cup ToSet(others) /\ DistinctFroms(r)
  BY <1>10, <1>12, <1>14, <1>18, JoinedMoves
<1>20. r = Joined(b, c)
  BY DEF Joined, f, others, left
<1>. HIDE DEF r
<1>21. \A k \in Positions(mid) \ D2 :
         OldIndex(I2, D2, k) \in Positions(new) /\ At(new, OldIndex(I2, D2, k)) = At(mid, k)
  BY KeptEntry DEF D2, I2
<1>22. \A k \in Positions(mid) \ I1 :
         OldIndex(D1, I1, k) \in Positions(old) /\ At(old, OldIndex(D1, I1, k)) = At(mid, k)
  BY DEF Explains, Matches, D1, I1
<1>23. ASSUME NEW x \in ToSet(r) PROVE IsMove(x, D, old, new)
  <2>1. CASE x \in ToSet(f.moves)
    <3>1. PICK l \in ToSet(b.moves) :
            /\ x.from = l.from
            /\ \/ \E m \in ToSet(c.moves) : m.from = l.to /\ x.to = m.to
               \/ l.to \notin D2 /\ x.to = OldIndex(I2, D2, l.to)
      BY <1>15, <2>1
    <3>2. x.from \in D /\ x.from \in Positions(old) /\ At(old, x.from) = At(mid, l.to)
          /\ l.to \in Positions(mid)
      BY <1>4, <1>6, <3>1
    <3>3. CASE \E m \in ToSet(c.moves) : m.from = l.to /\ x.to = m.to
      BY <1>5, <3>2, <3>3 DEF IsMove
    <3>4. CASE l.to \notin D2 /\ x.to = OldIndex(I2, D2, l.to)
      BY <1>21, <3>2, <3>4 DEF IsMove
    <3>. QED
      BY <3>1, <3>3, <3>4
  <2>2. CASE x \in ToSet(others)
    <3>1. PICK m \in ToSet(left) : x = back(m)
      BY <1>13, <2>2
    <3>2. x.from = OldIndex(D1, I1, m.from) /\ x.to = m.to
      BY <3>1
    <3>3. /\ m.from \in D2 \ I1 /\ m.from \in Positions(mid) \ I1 /\ m.to \in Positions(new)
          /\ At(mid, m.from) = At(new, m.to)
      BY <1>5, <1>8
    <3>4. x.from \in D
      BY <1>6, <3>2, <3>3
    <3>5. x.from \in Positions(old) /\ At(old, x.from) = At(mid, m.from)
      BY <1>22, <3>2, <3>3
    <3>. QED
      BY <3>2, <3>3, <3>4, <3>5 DEF IsMove
  <2>. QED
    BY <1>19, <2>1, <2>2
<1>24. ASSUME NEW x \in Move, IsMove(x, D, old, new) PROVE x \in ToSet(r)
  <2>1. /\ x.from \in D /\ x.from \in Positions(old) /\ x.to \in Positions(new)
        /\ At(old, x.from) = At(new, x.to) /\ x = [from |-> x.from, to |-> x.to]
        /\ x.from \in Nat /\ x.to \in Nat
    BY <1>24 DEF IsMove, Move
  <2>2. \E v \in Positions(mid) : At(mid, v) = At(new, x.to)
    <3>1. ToSet(old) = {At(old, n) : n \in Positions(old)}
      BY PositionsOf DEF IsCollection
    <3>2. ToSet(new) = {At(new, n) : n \in Positions(new)}
      BY PositionsOf DEF IsCollection
    <3>3. ToSet(mid) = {At(mid, n) : n \in Positions(mid)}
      BY PositionsOf DEF IsCollection
    <3>4. At(new, x.to) \in ToSet(mid)
      BY <2>1, <3>1, <3>2
    <3>. QED
      BY <3>3, <3>4
  <2>3. PICK v \in Positions(mid) : At(mid, v) = At(new, x.to)
    BY <2>2
  <2>4. v \in Nat
    BY <1>1
  <2>5. v \in D2 => [from |-> v, to |-> x.to] \in ToSet(c.moves)
    <3> DEFINE y == [from |-> v, to |-> x.to]
    <3>1. y \in Move /\ y.from = v /\ y.to = x.to
      BY <2>1, <2>4 DEF Move
    <3>. HIDE DEF y
    <3>2. v \in D2 => IsMove(y, c.deletions, mid, new)
      BY <2>1, <2>3, <3>1 DEF IsMove, D2
    <3>3. v \in D2 => y \in ToSet(c.moves)
      BY <3>1, <3>2 DEF Explains, Matches
    <3>. QED
      BY <3>3 DEF y
  <2>6. v \notin D2 => x.to = OldIndex(I2, D2, v)
    <3>1. \A i, j \in Positions(new) : At(new, i) = At(new, j) => i = j
      BY DistinctEntries DEF IsCollection
    <3>. QED
      BY <1>21, <2>1, <2>3, <3>1
  <2>7. CASE x.from \in D1
    <3> DEFINE l == [from |-> x.from, to |-> v]
    <3>1. l \in Move /\ l.from = x.from /\ l.to = v
      BY <2>1, <2>4 DEF Move
    <3>. HIDE DEF l
    <3>2. IsMove(l, b.deletions, old, mid)
      BY <2>1, <2>3, <2>7, <3>1 DEF IsMove, D1
    <3>3. l \in ToSet(b.moves)
      BY <3>1, <3>2 DEF Explains, Matches
    <3>4. CASE v \in D2
      <4> DEFINE y == [from |-> v, to |-> x.to]
      <4>1. y \in ToSet(c.moves) /\ y.from = v /\ y.to = x.to
        BY <2>5, <3>4
      <4>. HIDE DEF y
      <4>2. [from |-> l.from, to |-> y.to] \in ToSet(f.moves)
        BY <1>16, <3>1, <3>3, <4>1
      <4>. QED
        BY <1>19, <2>1, <3>1, <4>1, <4>2
    <3>5. CASE v \notin D2
      <4>1. [from |-> l.from, to |-> OldIndex(I2, D2, l.to)] \in ToSet(f.moves)
        BY <1>17, <3>1, <3>3, <3>5
      <4>. QED
        BY <1>19, <2>1, <2>6, <3>1, <3>5, <4>1
    <3>. QED
      BY <3>4, <3>5
  <2>8. CASE x.from \notin D1
    <3>1. PICK w \in D2 \ I1 : x.from = OldIndex(D1, I1, w)
      BY <1>6, <2>1, <2>8
    <3>2. x.from \in Positions(old) \ b.deletions
      BY <2>1, <2>8 DEF D1
    <3>3. PICK n \in Positions(mid) \ I1 : At(mid, n) = At(old, x.from) /\ OldIndex(D1, I1, n) = x.from
      BY <3>2, KeptEntry DEF D1, I1
    <3>4. n = v
      <4>1. \A i, j \in Positions(mid) : At(mid, i) = At(mid, j) => i = j
        BY DistinctEntries DEF IsCollection
      <4>. QED
        BY <2>1, <2>3, <3>3, <4>1
    <3>5. n = w
      BY <1>1, <1>2, <1>7, <3>1, <3>3
    <3> DEFINE y == [from |-> v, to |-> x.to]
    <3>6. y \in ToSet(c.moves) /\ y.from = v /\ y.to = x.to
      BY <2>5, <3>1, <3>4, <3>5
    <3>. HIDE DEF y
    <3>7. y \in ToSet(left)
      BY <1>3, <3>3, <3>4, <3>6
    <3>8. back(y) = x
      BY <2>1, <3>3, <3>4, <3>6
    <3>9. x \in ToSet(others)
      BY <1>13, <3>7, <3>8
    <3>. QED
      BY <1>19, <3>9
  <2>. QED
    BY <2>7, <2>8
<1>25. \A m \in Move : m \in ToSet(r) <=> IsMove(m, D, old, new)
  BY <1>23, <1>24
<1>. QED
  BY <1>19, <1>20, <1>25 DEF D, D1, I1, D2

\* The entries set, among those of the old collection, are the marked ones.
Marked(marks, new, set, old) ==
    /\ marks \subseteq Positions(new)
    /\ \A n \in Positions(new) : At(new, n) \in ToSet(old) =>
         (n \in marks <=> At(new, n) \in set)

\* The merged insertions are the new ones and where the old ones are now.
LEMMA MergedInsertionsAre ==
    ASSUME NEW I1, NEW D2, NEW I2
    PROVE  MergedInsertions(I1, D2, I2) = I2 \cup {OldIndex(I2, D2, x) : x \in I1 \ D2}
BY DEF MergedInsertions, Ix!InsertAll, Ix!ShiftForInsertAll, Ix!EraseAll, OldIndex

\* The change set before its stale moves are dropped explains both changes.
LEMMA MergedExplains ==
    ASSUME NEW old, IsCollection(old), NEW mid, IsCollection(mid), NEW new, IsCollection(new),
           NEW b, Explains(b, old, mid), NEW c, Explains(c, mid, new),
           ToSet(old) \cap ToSet(new) \subseteq ToSet(mid)
    PROVE  /\ Explains(Merged(b, c), old, new)
           /\ b.deletions \subseteq Positions(old) /\ c.deletions \subseteq Positions(mid)
                => Merged(b, c).deletions \subseteq Positions(old)
           /\ Merged(b, c).modifications = b.modifications /\ Merged(b, c).mapping = b.mapping
<1> DEFINE D1 == b.deletions
           I1 == b.insertions
           D2 == c.deletions
           I2 == c.insertions
           D == MergedDeletions(D1, I1, D2)
           I == MergedInsertions(I1, D2, I2)
           d == Merged(b, c)
<1>1. /\ D1 \in SUBSET Nat /\ IsFiniteSet(D1) /\ I1 \in SUBSET Nat /\ IsFiniteSet(I1)
      /\ Positions(old) \in SUBSET Nat /\ Positions(mid) \in SUBSET Nat
  BY ExplainsSets
<1>2. /\ D2 \in SUBSET Nat /\ IsFiniteSet(D2) /\ I2 \in SUBSET Nat /\ IsFiniteSet(I2)
      /\ Positions(new) \in SUBSET Nat
  BY ExplainsSets
<1>3. IsChanges(b) /\ I1 \subseteq Positions(mid) /\ I2 \subseteq Positions(new)
  BY DEF Explains, Matches
<1>4. /\ IsChanges(d) /\ d.deletions = D /\ d.insertions = I /\ d.moves = Joined(b, c)
      /\ d.modifications = b.modifications /\ d.mapping = b.mapping
  <2>1. b = [deletions |-> b.deletions, insertions |-> b.insertions,
             modifications |-> b.modifications, moves |-> b.moves, mapping |-> b.mapping]
    BY <1>3 DEF IsChanges
  <2>2. d = [b EXCEPT !.moves = Joined(b, c), !.deletions = D, !.insertions = I]
    BY DEF Merged
  <2>. HIDE DEF D, I, d
  <2>3. d = [deletions |-> D, insertions |-> I, modifications |-> b.modifications,
             moves |-> Joined(b, c), mapping |-> b.mapping]
    BY <2>1, <2>2
  <2>. QED
    BY <2>3 DEF IsChanges
<1>. HIDE DEF d
<1>5. \A n \in Positions(mid) \ I1 :
         OldIndex(D1, I1, n) \in Positions(old) /\ At(old, OldIndex(D1, I1, n)) = At(mid, n)
  BY DEF Explains, Matches
<1>6. \A n \in Positions(new) \ I2 :
         OldIndex(D2, I2, n) \in Positions(mid) /\ At(mid, OldIndex(D2, I2, n)) = At(new, n)
  BY DEF Explains, Matches
<1>7. \A k \in Positions(old) \ D1 : \E n \in Positions(mid) \ I1 :
        At(mid, n) = At(old, k) /\ OldIndex(D1, I1, n) = k
  BY KeptEntry
<1>8. \A k \in Positions(mid) \ D2 : \E n \in Positions(new) \ I2 :
        At(new, n) = At(mid, k) /\ OldIndex(D2, I2, n) = k /\ OldIndex(I2, D2, k) = n
  BY KeptEntry
<1>9. /\ d.moves \in Seq(Move) /\ DistinctFroms(d.moves)
      /\ \A m \in Move : m \in ToSet(d.moves) <=> IsMove(m, d.deletions, old, new)
  BY <1>4, MergedMoves
<1>. HIDE DEF D1, I1, D2, I2, D, I
<1>10. D = D1 \cup {OldIndex(D1, I1, v) : v \in D2 \ I1} /\ D \in SUBSET Nat /\ IsFiniteSet(D)
  BY <1>1, <1>2, MergedSets DEF D
<1>11. I = I2 \cup {OldIndex(I2, D2, x) : x \in I1 \ D2}
  <2>1. MergedInsertions(I1, D2, I2) = I2 \cup {OldIndex(I2, D2, x) : x \in I1 \ D2}
    BY MergedInsertionsAre
  <2>. QED
    BY <2>1 DEF I
<1>12. I \in SUBSET Positions(new)
  <2>1. ASSUME NEW x \in I1 \ D2 PROVE OldIndex(I2, D2, x) \in Positions(new)
    BY <1>3, <1>8
  <2>. QED
    BY <1>3, <1>11, <2>1
<1>13. ASSUME NEW n \in Positions(new) \ I
       PROVE  OldIndex(D, I, n) \in Positions(old) /\ At(old, OldIndex(D, I, n)) = At(new, n)
  <2> DEFINE m == OldIndex(D2, I2, n)
  <2>1. n \in Nat \ MergedInsertions(I1, D2, I2)
    BY <1>2 DEF I
  <2>2. n \notin I2 /\ m \in Nat \ (D2 \cup I1) /\ OldIndex(D, I, n) = OldIndex(D1, I1, m)
    BY <1>1, <1>2, <2>1, MergeRenumbers DEF D, I
  <2>. HIDE DEF m
  <2>3. m \in Positions(mid) /\ At(mid, m) = At(new, n)
    BY <1>6, <2>2 DEF m
  <2>. QED
    BY <1>5, <2>2, <2>3
<1>14. ASSUME NEW k \in Positions(old) \ D
       PROVE  \E n \in Positions(new) \ I : At(new, n) = At(old, k)
  <2>1. k \notin D1
    BY <1>10
  <2>2. PICK v \in Positions(mid) \ I1 : At(mid, v) = At(old, k) /\ OldIndex(D1, I1, v) = k
    BY <1>7, <2>1
  <2>3. v \notin D2
    BY <1>10, <2>2
  <2>4. PICK n \in Positions(new) \ I2 : At(new, n) = At(mid, v) /\ OldIndex(D2, I2, n) = v
    BY <1>8, <2>3
  <2>5. ASSUME NEW x \in I1 \ D2, n = OldIndex(I2, D2, x) PROVE FALSE
    <3>1. x \in Nat \ D2
      BY <1>1
    <3>2. OldIndex(D2, I2, OldIndex(I2, D2, x)) = x
      BY <1>2, <3>1, OldIndexInverse
    <3>. QED
      BY <2>2, <2>4, <2>5, <3>2
  <2>6. n \notin I
    BY <1>11, <2>5
  <2>. QED
    BY <2>2, <2>4, <2>6
<1>15. Explains(d, old, new)
  BY <1>4, <1>9, <1>10, <1>12, <1>13, <1>14 DEF Explains, Matches
<1>16. ASSUME D1 \subseteq Positions(old), D2 \subseteq Positions(mid)
       PROVE  D \subseteq Positions(old)
  BY <1>5, <1>10, <1>16
<1>. QED
  BY <1>4, <1>15, <1>16 DEF d, D1, D2

\* merge: the changes from the old version to the middle one and from that to
\* the new one, merged, explain the old and the new version, provided that no
\* entry comes back that was gone in between.
THEOREM MergeExplains ==
    ASSUME NEW old, IsCollection(old), NEW mid, IsCollection(mid), NEW new, IsCollection(new),
           NEW b, Explains(b, old, mid), NEW c, Explains(c, mid, new),
           ToSet(old) \cap ToSet(new) \subseteq ToSet(mid)
    PROVE  /\ Explains(merge(b, c), old, new)
           /\ b.deletions \subseteq Positions(old) /\ c.deletions \subseteq Positions(mid)
                => merge(b, c).deletions \subseteq Positions(old)
           /\ b.mapping = <<>> /\ c.mapping = <<>> => merge(b, c).mapping = <<>>
<1>1. CASE IsEmpty(c)
  <2>1. merge(b, c) = b
    BY <1>1 DEF merge
  <2>2. c.deletions = {} /\ c.insertions = {}
    BY <1>1 DEF IsEmpty
  <2>3. mid = new
    BY <2>2, EmptyExplains
  <2>. QED
    BY <2>1, <2>3
<1>2. CASE ~IsEmpty(c) /\ IsEmpty(b)
  <2>1. merge(b, c) = c
    BY <1>2 DEF merge
  <2>2. b.deletions = {} /\ b.insertions = {}
    BY <1>2 DEF IsEmpty
  <2>3. old = mid
    BY <2>2, EmptyExplains
  <2>. QED
    BY <2>1, <2>3
<1>3. CASE ~IsEmpty(c) /\ ~IsEmpty(b)
  <2> DEFINE e == clean_up_stale_moves(Merged(b, c))
             mods == Ix!ShiftForInsertAll(Ix!EraseAll(e.modifications, c.deletions), c.insertions)
                       \cup FollowMoves(b, c).new.modifications
                       \cup StillModified(b, Left(b, c))
             d == merge(b, c)
  <2>1. /\ Explains(Merged(b, c), old, new)
        /\ b.deletions \subseteq Positions(old) /\ c.deletions \subseteq Positions(mid)
             => Merged(b, c).deletions \subseteq Positions(old)
        /\ Merged(b, c).mapping = b.mapping
    BY MergedExplains
  <2>2. Explains(e, old, new) /\ e.mapping = b.mapping /\ e.deletions \subseteq Merged(b, c).deletions
    BY <2>1, CleanedExplains
  <2>3. IsChanges(b) /\ IsChanges(e)
    BY <2>2 DEF Explains, Matches
  <2>4. d = [e EXCEPT !.modifications = mods]
    BY <1>3, <2>3, MergeInParts
  <2>. HIDE DEF e, mods, d
  <2>5. /\ IsChanges(d) /\ d.deletions = e.deletions /\ d.insertions = e.insertions
        /\ d.moves = e.moves /\ d.mapping = e.mapping
    BY <2>3, <2>4 DEF IsChanges
  <2>6. Explains(d, old, new)
    BY <2>2, <2>5 DEF Explains, Matches
  <2>. QED
    BY <2>1, <2>2, <2>5, <2>6 DEF d
<1>. QED
  BY <1>1, <1>2, <1>3

\* The marks of an old change set follow the entries through the new one.
LEMMA FollowedMarks ==
    ASSUME NEW old, IsCollection(old), NEW mid, IsCollection(mid), NEW new, IsCollection(new),
           NEW b, Explains(b, old, mid), NEW c, Explains(c, mid, new),
           ToSet(old) \cap ToSet(new) \subseteq ToSet(mid),
           NEW X, Marked(b.modifications, mid, X, old), NEW Y, Marked(c.modifications, new, Y, mid), NEW d,
           d.modifications =
             Ix!ShiftForInsertAll(Ix!EraseAll(b.modifications, c.deletions), c.insertions)
               \cup FollowMoves(b, c).new.modifications
               \cup StillModified(b, Left(b, c))
    PROVE  Marked(d.modifications, new, X \cup Y, old)
<1> DEFINE D2 == c.deletions
           I2 == c.insertions
           B == b.modifications
           C == ToSet(c.moves)
           stay == {OldIndex(I2, D2, x) : x \in B \ D2}
           moved == {m.to : m \in {k \in C : k.from \in B /\ \E l \in ToSet(b.moves) : l.to = k.from}}
           still == {m.to : m \in {k \in C : k.from \notin b.insertions /\ k.from \in B}}
<1>1. /\ D2 \in SUBSET Nat /\ IsFiniteSet(D2) /\ I2 \in SUBSET Nat /\ IsFiniteSet(I2)
      /\ Positions(mid) \in SUBSET Nat /\ Positions(new) \in SUBSET Nat
  BY ExplainsSets
<1>2. Positions(old) \in SUBSET Nat
  BY ExplainsSets
<1>3. /\ Followed(b, c, ToSet(b.moves), FollowMoves(b, c))
      /\ ToSet(Left(b, c)) = {m \in C : m.from \notin b.insertions}
  BY LeftMoves
<1>4. FollowMoves(b, c).new.modifications = c.modifications \cup moved
  BY <1>3 DEF Followed
<1>5. StillModified(b, Left(b, c)) = still
  <2>1. {n \in ToSet(Left(b, c)) : n.from \in B}
          = {k \in C : k.from \notin b.insertions /\ k.from \in B}
    BY <1>3
  <2>. QED
    BY <2>1 DEF StillModified
<1>6. Ix!ShiftForInsertAll(Ix!EraseAll(B, D2), I2) = stay
  BY DEF Ix!ShiftForInsertAll, Ix!EraseAll, OldIndex
<1>7. B \subseteq Positions(mid) /\ c.modifications \subseteq Positions(new)
  BY DEF Marked
<1>8. \A m \in C : /\ m.from \in D2 /\ m.from \in Positions(mid) /\ m.to \in Positions(new)
                   /\ At(mid, m.from) = At(new, m.to)
  BY MovesEnd
<1>9. \A k \in Positions(mid) \ D2 :
         OldIndex(I2, D2, k) \in Positions(new) /\ At(new, OldIndex(I2, D2, k)) = At(mid, k)
  BY KeptEntry
<1>10. d.modifications = stay \cup c.modifications \cup moved \cup still
  <2>. HIDE DEF stay, moved, still, B, C, D2, I2
  <2>. QED
    BY <1>4, <1>5, <1>6 DEF B, C, D2, I2
<1>. HIDE DEF D2, I2, B, C
<1>11. \A n \in stay : n \in Positions(new) /\ \E v \in B : v \in Positions(mid) /\ At(mid, v) = At(new, n)
  BY <1>7, <1>9
<1>12. \A n \in moved \cup still :
         n \in Positions(new) /\ \E v \in B : v \in Positions(mid) /\ At(mid, v) = At(new, n)
  BY <1>8
<1>13. d.modifications \subseteq Positions(new)
  BY <1>7, <1>10, <1>11, <1>12
<1>14. \A i, j \in Positions(mid) : At(mid, i) = At(mid, j) => i = j
  BY DistinctEntries DEF IsCollection
<1>15. \A i, j \in Positions(new) : At(new, i) = At(new, j) => i = j
  BY DistinctEntries DEF IsCollection
<1>16. ASSUME NEW n \in Positions(new), At(new, n) \in ToSet(old)
       PROVE  n \in d.modifications <=> At(new, n) \in X \cup Y
  <2>1. At(new, n) \in ToSet(mid)
    <3>1. At(new, n) \in ToSet(new)
      BY PositionsOf DEF IsCollection
    <3>. QED
      BY <1>16, <3>1
  <2>2. PICK v \in Positions(mid) : At(mid, v) = At(new, n)
    BY <2>1, PositionsOf DEF IsCollection
  <2>3. v \in B <=> At(new, n) \in X
    BY <1>16, <2>2 DEF Marked, B
  <2>4. n \in c.modifications <=> At(new, n) \in Y
    BY <2>1 DEF Marked
  <2>5. n \in stay \cup moved \cup still => v \in B
    BY <1>11, <1>12, <1>14, <2>2
  <2>6. ASSUME v \in B PROVE n \in stay \cup moved \cup still
    <3>1. CASE v \notin D2
      <4>1. n = OldIndex(I2, D2, v)
        BY <1>9, <1>15, <2>2, <3>1
      <4>. QED
        BY <2>6, <3>1, <4>1
    <3>2. CASE v \in D2
      <4> DEFINE m == [from |-> v, to |-> n]
      <4>1. m \in Move /\ m.from = v /\ m.to = n
        BY <1>1 DEF Move
      <4>. HIDE DEF m
      <4>2. IsMove(m, c.deletions, mid, new)
        BY <2>2, <3>2, <4>1 DEF IsMove, D2
      <4>3. m \in C
        BY <4>1, <4>2 DEF Explains, Matches, C
      <4>4. CASE v \notin b.insertions
        <5>1. n \in still
          BY <2>6, <4>1, <4>3, <4>4
        <5>. QED
          BY <5>1
      <4>5. CASE v \in b.insertions
        <5>1. PICK k \in Positions(old) : At(old, k) = At(new, n)
          BY <1>16, PositionsOf DEF IsCollection
        <5>2. k \in b.deletions
          <6>1. SUFFICES ASSUME k \in Positions(old) \ b.deletions PROVE FALSE
            OBVIOUS
          <6>2. PICK w \in Positions(mid) \ b.insertions : At(mid, w) = At(old, k)
            BY <6>1 DEF Explains, Matches
          <6>. QED
            BY <1>14, <2>2, <4>5, <5>1, <6>2
        <5> DEFINE l == [from |-> k, to |-> v]
        <5>3. l \in Move /\ l.from = k /\ l.to = v
          BY <1>1, <1>2 DEF Move
        <5>. HIDE DEF l
        <5>4. IsMove(l, b.deletions, old, mid)
          BY <2>2, <5>1, <5>2, <5>3 DEF IsMove
        <5>5. l \in ToSet(b.moves)
          BY <5>3, <5>4 DEF Explains, Matches
        <5>6. n \in moved
          BY <2>6, <4>1, <4>3, <5>3, <5>5
        <5>. QED
          BY <5>6
      <4>. QED
        BY <4>4, <4>5
    <3>. QED
      BY <3>1, <3>2
  <2>. HIDE DEF stay, moved, still
  <2>. QED
    BY <1>10, <2>3, <2>4, <2>5, <2>6
<1>. QED
  BY <1>13, <1>16 DEF Marked

\* merge marks the old entries that were set before the middle version or after
\* it and are still there, wherever they have moved.
THEOREM MergeMarks ==
    ASSUME NEW old, IsCollection(old), NEW mid, IsCollection(mid), NEW new, IsCollection(new),
           NEW b, Explains(b, old, mid), NEW c, Explains(c, mid, new),
           ToSet(old) \cap ToSet(new) \subseteq ToSet(mid),
           NEW X, Marked(b.modifications, mid, X, old), NEW Y, Marked(c.modifications, new, Y, mid)
    PROVE  Marked(merge(b, c).modifications, new, X \cup Y, old)
<1>1. CASE IsEmpty(c)
  <2>1. merge(b, c) = b
    BY <1>1 DEF merge
  <2>2. c.deletions = {} /\ c.insertions = {} /\ c.modifications = {}
    BY <1>1 DEF IsEmpty
  <2>3. mid = new
    BY <2>2, EmptyExplains
  <2>4. \A n \in Positions(new) : At(new, n) \in ToSet(new)
    BY PositionsOf DEF IsCollection
  <2>. QED
    BY <2>1, <2>2, <2>3, <2>4 DEF Marked
<1>2. CASE ~IsEmpty(c) /\ IsEmpty(b)
  <2>1. merge(b, c) = c
    BY <1>2 DEF merge
  <2>2. b.deletions = {} /\ b.insertions = {} /\ b.modifications = {}
    BY <1>2 DEF IsEmpty
  <2>3. old = mid
    BY <2>2, EmptyExplains
  <2>4. ASSUME NEW n \in Positions(new), At(new, n) \in ToSet(mid) PROVE At(new, n) \notin X
    <3>1. PICK v \in Positions(mid) : At(mid, v) = At(new, n)
      BY <2>4, PositionsOf DEF IsCollection
    <3>. QED
      BY <2>2, <2>3, <2>4, <3>1 DEF Marked
  <2>. QED
    BY <2>1, <2>3, <2>4 DEF Marked
<1>3. CASE ~IsEmpty(c) /\ ~IsEmpty(b)
  <2> DEFINE e == clean_up_stale_moves(Merged(b, c))
             mods == Ix!ShiftForInsertAll(Ix!EraseAll(e.modifications, c.deletions), c.insertions)
                       \cup FollowMoves(b, c).new.modifications
                       \cup StillModified(b, Left(b, c))
             d == merge(b, c)
  <2>1. Explains(Merged(b, c), old, new) /\ Merged(b, c).modifications = b.modifications
    BY MergedExplains
  <2>2. Explains(e, old, new) /\ e.modifications = b.modifications
    BY <2>1, CleanedExplains
  <2>3. IsChanges(b) /\ IsChanges(e)
    BY <2>2 DEF Explains, Matches
  <2>4. d = [e EXCEPT !.modifications = mods]
    BY <1>3, <2>3, MergeInParts
  <2>. HIDE DEF e, mods, d
  <2>5. d.modifications = mods
    BY <2>3, <2>4 DEF IsChanges
  <2>6. d.modifications =
          Ix!ShiftForInsertAll(Ix!EraseAll(b.modifications, c.deletions), c.insertions)
            \cup FollowMoves(b, c).new.modifications
            \cup StillModified(b, Left(b, c))
    BY <2>2, <2>5 DEF mods
  <2>7. Marked(d.modifications, new, X \cup Y, old)
    BY <2>6, FollowedMarks
  <2>. QED
    BY <2>7 DEF d
<1>. QED
  BY <1>1, <1>2, <1>3

----------------------------------------------------------------------------
(* An entry is inserted or removed *)

\* The collection with one more entry,
LEMMA CollectionInserted ==
    ASSUME NEW new, IsCollection(new), NEW p \in 0 .. Len(new), NEW e \in Elements,
           e \notin ToSet(new)
    PROVE  LET after == InsertAt(new, p + 1, e)
           IN  IsCollection(after) /\ ToSet(after) = ToSet(new) \cup {e}
<1> DEFINE after == InsertAt(new, p + 1, e)
<1>1. new \in Seq(Elements) /\ Len(new) \in Nat /\ p \in Nat /\ Positions(new) \in SUBSET Nat
      /\ ToSet(new) = {At(new, n) : n \in Positions(new)}
  BY PositionsOf DEF IsCollection
<1>2. /\ after \in Seq(Elements)
      /\ \A n \in Nat : n \in Positions(after) <=>
           n = p \/ (n < p /\ n \in Positions(new)) \/ (n > p /\ n - 1 \in Positions(new))
      /\ At(after, p) = e
      /\ \A n \in Positions(after) : n < p => At(after, n) = At(new, n)
      /\ \A n \in Positions(after) : n > p => At(after, n) = At(new, n - 1)
  BY <1>1, EntryInserted DEF IsInserted
<1>3. /\ Positions(after) \in SUBSET Nat
      /\ ToSet(after) = {At(after, n) : n \in Positions(after)}
  BY <1>2, PositionsOf
<1>4. \A m, n \in Positions(new) : At(new, m) = At(new, n) => m = n
  BY DistinctEntries DEF IsCollection
<1>. HIDE DEF after
<1>5. \A n \in Positions(after) :
        \/ n = p /\ At(after, n) = e
        \/ n < p /\ n \in Positions(new) /\ At(after, n) = At(new, n)
        \/ n > p /\ n - 1 \in Positions(new) /\ At(after, n) = At(new, n - 1)
  BY <1>1, <1>2, <1>3
<1>6. \A n \in Positions(new) : At(new, n) # e
  BY <1>1
<1>7. ASSUME NEW m \in Positions(after), NEW n \in Positions(after), At(after, m) = At(after, n)
      PROVE  m = n
  <2>1. m \in Nat /\ n \in Nat
    BY <1>3
  <2>2. CASE m = p
    BY <1>5, <1>6, <1>7, <2>2
  <2>3. CASE m < p
    <3>1. m \in Positions(new) /\ At(after, m) = At(new, m)
      BY <1>1, <1>5, <2>1, <2>3
    <3>2. CASE n = p
      BY <1>2, <1>6, <1>7, <3>1, <3>2
    <3>3. CASE n < p /\ n \in Positions(new) /\ At(after, n) = At(new, n)
      BY <1>4, <1>7, <3>1, <3>3
    <3>4. CASE n > p /\ n - 1 \in Positions(new) /\ At(after, n) = At(new, n - 1)
      <4>1. m = n - 1
        BY <1>4, <1>7, <3>1, <3>4
      <4>. QED
        BY <1>1, <2>1, <2>3, <3>4, <4>1
    <3>. QED
      BY <1>5, <3>2, <3>3, <3>4
  <2>4. CASE m > p
    <3>1. m - 1 \in Positions(new) /\ At(after, m) = At(new, m - 1)
      BY <1>1, <1>5, <2>1, <2>4
    <3>2. CASE n = p
      BY <1>2, <1>6, <1>7, <3>1, <3>2
    <3>3. CASE n < p /\ n \in Positions(new) /\ At(after, n) = At(new, n)
      <4>1. m - 1 = n
        BY <1>4, <1>7, <3>1, <3>3
      <4>. QED
        BY <1>1, <2>1, <2>4, <3>3, <4>1
    <3>4. CASE n > p /\ n - 1 \in Positions(new) /\ At(after, n) = At(new, n - 1)
      <4>1. m - 1 = n - 1
        BY <1>4, <1>7, <3>1, <3>4
      <4>. QED
        BY <2>1, <4>1
    <3>. QED
      BY <1>5, <3>2, <3>3, <3>4
  <2>. QED
    BY <1>1, <2>1, <2>2, <2>3, <2>4
<1>8. IsCollection(after)
  BY <1>2, <1>7, DistinctEntries DEF IsCollection
<1>9. \A n \in Positions(new) : At(new, n) \in ToSet(after)
  <2> TAKE n \in Positions(new)
  <2>1. n \in Nat
    BY <1>1
  <2>2. CASE n < p
    BY <1>2, <1>3, <2>1, <2>2
  <2>3. CASE n >= p
    <3>1. n + 1 > p /\ (n + 1) - 1 = n /\ n + 1 \in Nat
      BY <1>1, <2>1, <2>3
    <3>2. n + 1 \in Positions(after) /\ At(after, n + 1) = At(new, n)
      BY <1>2, <3>1
    <3>. QED
      BY <1>3, <3>2
  <2>. QED
    BY <1>1, <2>1, <2>2, <2>3
<1>10. ToSet(after) = ToSet(new) \cup {e}
  <2>1. e \in ToSet(after)
    BY <1>1, <1>2, <1>3
  <2>2. \A n \in Positions(after) : At(after, n) \in ToSet(new) \cup {e}
    BY <1>1, <1>5
  <2>. QED
    BY <1>1, <1>3, <1>9, <2>1, <2>2
<1>. QED
  BY <1>8, <1>10 DEF after

\* and with one less.
LEMMA CollectionRemoved ==
    ASSUME NEW new, IsCollection(new), NEW p \in Positions(new)
    PROVE  LET after == RemoveAt(new, p + 1)
           IN  IsCollection(after) /\ ToSet(after) = ToSet(new) \ {At(new, p)}
<1> DEFINE after == RemoveAt(new, p + 1)
<1>1. new \in Seq(Elements) /\ Positions(new) \in SUBSET Nat /\ p \in Nat
      /\ ToSet(new) = {At(new, n) : n \in Positions(new)}
  BY PositionsOf DEF IsCollection
<1>2. /\ after \in Seq(Elements)
      /\ \A n \in Nat : n \in Positions(after) <=>
           (n < p /\ n \in Positions(new)) \/ (n >= p /\ n + 1 \in Positions(new))
      /\ \A n \in Positions(after) : n < p => At(after, n) = At(new, n)
      /\ \A n \in Positions(after) : n >= p => At(after, n) = At(new, n + 1)
  <2>1. IsRemoved(after, new, p)
    BY <1>1, EntryRemoved
  <2>. QED
    BY <2>1 DEF IsRemoved
<1>3. /\ Positions(after) \in SUBSET Nat
      /\ ToSet(after) = {At(after, n) : n \in Positions(after)}
  BY <1>2, PositionsOf
<1>4. \A m, n \in Positions(new) : At(new, m) = At(new, n) => m = n
  BY DistinctEntries DEF IsCollection
<1>. HIDE DEF after
<1> DEFINE fwd(n) == IF n < p THEN n ELSE n + 1
<1>5. \A n \in Positions(after) : fwd(n) \in Positions(new) \ {p} /\ At(after, n) = At(new, fwd(n))
  BY <1>1, <1>2, <1>3
<1>6. \A m, n \in Nat : fwd(m) = fwd(n) => m = n
  BY <1>1
<1>7. \A k \in Positions(new) \ {p} : \E n \in Positions(after) : fwd(n) = k
  <2> TAKE k \in Positions(new) \ {p}
  <2>1. k \in Nat
    BY <1>1
  <2>2. CASE k < p
    <3>1. k \in Positions(after) /\ fwd(k) = k
      BY <1>2, <2>1, <2>2
    <3>. QED
      BY <3>1
  <2>3. CASE k > p
    <3>1. k - 1 \in Nat /\ k - 1 >= p /\ (k - 1) + 1 = k
      BY <1>1, <2>1, <2>3
    <3>2. k - 1 \in Positions(after) /\ fwd(k - 1) = k
      BY <1>1, <1>2, <3>1
    <3>. QED
      BY <3>2
  <2>. QED
    BY <1>1, <2>1, <2>2, <2>3
<1>. HIDE DEF fwd
<1>8. \A m, n \in Positions(after) : At(after, m) = At(after, n) => m = n
  BY <1>3, <1>4, <1>5, <1>6
<1>9. IsCollection(after)
  BY <1>2, <1>8, DistinctEntries DEF IsCollection
<1>10. ToSet(after) = ToSet(new) \ {At(new, p)}
  <2>1. ASSUME NEW x \in ToSet(after) PROVE x \in ToSet(new) \ {At(new, p)}
    <3>1. PICK n \in Positions(after) : x = At(after, n)
      BY <1>3
    <3>2. fwd(n) \in Positions(new) /\ fwd(n) # p /\ x = At(new, fwd(n))
      BY <1>5, <3>1
    <3>3. x # At(new, p)
      BY <1>4, <3>2
    <3>. QED
      BY <1>1, <3>2, <3>3
  <2>2. ASSUME NEW x \in ToSet(new) \ {At(new, p)} PROVE x \in ToSet(after)
    <3>1. PICK k \in Positions(new) : x = At(new, k)
      BY <1>1
    <3>2. k \in Positions(new) \ {p}
      BY <3>1
    <3>3. PICK n \in Positions(after) : fwd(n) = k
      BY <1>7, <3>2
    <3>. QED
      BY <1>3, <1>5, <3>1, <3>3
  <2>. QED
    BY <2>1, <2>2
<1>. QED
  BY <1>9, <1>10 DEF after

\* The index sets after an insertion,
LEMMA MatchesInserted ==
    ASSUME NEW old, IsCollection(old), NEW new, IsCollection(new), NEW D, NEW I,
           Matches(D, I, old, new), NEW p \in 0 .. Len(new), NEW e \in Elements
    PROVE  Matches(D, Ix!InsertAt(I, p, 1), old, InsertAt(new, p + 1, e))
<1> DEFINE after == InsertAt(new, p + 1, e)
           J == Ix!InsertAt(I, p, 1)
<1>1. new \in Seq(Elements) /\ Len(new) \in Nat /\ p \in Nat
      /\ Positions(new) \in SUBSET Nat /\ IsFiniteSet(Positions(new))
  BY PositionsOf DEF IsCollection
<1>2. /\ after \in Seq(Elements)
      /\ \A n \in Nat : n \in Positions(after) <=>
           n = p \/ (n < p /\ n \in Positions(new)) \/ (n > p /\ n - 1 \in Positions(new))
      /\ At(after, p) = e
      /\ \A n \in Positions(after) : n < p => At(after, n) = At(new, n)
      /\ \A n \in Positions(after) : n > p => At(after, n) = At(new, n - 1)
  <2>1. IsInserted(after, new, p, e)
    BY <1>1, EntryInserted
  <2>. QED
    BY <2>1 DEF IsInserted
<1>3. Positions(after) \in SUBSET Nat
  BY <1>2, PositionsOf
<1>4. D \in SUBSET Nat /\ IsFiniteSet(D) /\ I \in SUBSET Nat /\ IsFiniteSet(I)
      /\ I \subseteq Positions(new)
  BY <1>1, FS_Subset DEF Matches
<1>5. /\ J \in SUBSET Nat
      /\ \A n \in Nat : n \in J <=>
           \/ n < p /\ n \in I
           \/ n \in p .. p + 1 - 1
           \/ n >= p + 1 /\ n - 1 \in I
  BY <1>1, <1>4, InInserted
<1>6. \A n \in Nat \ J : LET back == IF n < p THEN n ELSE n - 1
                         IN  /\ back \in Nat \ I /\ n \notin p .. p + 1 - 1
                             /\ OldIndex(D, J, n) = OldIndex(D, I, back)
  BY <1>1, <1>4, InsertionRenumbers, SMTT(30)
<1>. HIDE DEF after, J
<1>7. \A n \in Nat : n \in p .. p + 1 - 1 <=> n = p
  BY <1>1
<1>8. \A n \in Nat : n \in J => n \in Positions(after)
  <2> TAKE n \in Nat
  <2>1. CASE n < p /\ n \in I
    BY <1>2, <1>4, <2>1
  <2>2. CASE n = p
    BY <1>2, <2>2
  <2>3. CASE n >= p + 1 /\ n - 1 \in I
    <3>1. n > p /\ n - 1 \in Positions(new)
      BY <1>1, <1>4, <2>3
    <3>. QED
      BY <1>2, <3>1
  <2>. QED
    BY <1>5, <1>7, <2>1, <2>2, <2>3
<1>9. \A n \in Positions(new) \ I :
        OldIndex(D, I, n) \in Positions(old) /\ At(old, OldIndex(D, I, n)) = At(new, n)
  BY DEF Matches
<1>10. ASSUME NEW n \in Positions(after) \ J
       PROVE  OldIndex(D, J, n) \in Positions(old) /\ At(old, OldIndex(D, J, n)) = At(after, n)
  <2> DEFINE back == IF n < p THEN n ELSE n - 1
  <2>1. n \in Nat \ J
    BY <1>3
  <2>2. back \in Nat \ I /\ n # p /\ OldIndex(D, J, n) = OldIndex(D, I, back)
    BY <1>6, <1>7, <2>1
  <2>3. back \in Positions(new) /\ At(after, n) = At(new, back)
    <3>1. CASE n < p
      BY <1>1, <1>2, <2>1, <3>1
    <3>2. CASE n > p
      BY <1>1, <1>2, <2>1, <3>2
    <3>. QED
      BY <1>1, <2>1, <2>2, <3>1, <3>2
  <2>. HIDE DEF back
  <2>. QED
    BY <1>9, <2>2, <2>3
<1>11. ASSUME NEW k \in Positions(old) \ D
       PROVE  \E n \in Positions(after) \ J : At(after, n) = At(old, k)
  <2>1. PICK m \in Positions(new) \ I : At(new, m) = At(old, k)
    BY DEF Matches
  <2>2. m \in Nat
    BY <1>1
  <2>3. CASE m < p
    <3>1. m \in Positions(after) /\ At(after, m) = At(new, m)
      BY <1>2, <2>2, <2>3
    <3>2. m \notin J
      BY <1>1, <1>5, <1>7, <2>2, <2>3
    <3>. QED
      BY <2>1, <3>1, <3>2
  <2>4. CASE m >= p
    <3>1. m + 1 \in Nat /\ m + 1 > p /\ (m + 1) - 1 = m /\ m + 1 # p /\ ~(m + 1 < p)
      BY <1>1, <2>2, <2>4
    <3>2. m + 1 \in Positions(after) /\ At(after, m + 1) = At(new, m)
      BY <1>2, <3>1
    <3>3. m + 1 \notin J
      BY <1>5, <1>7, <3>1
    <3>. QED
      BY <2>1, <3>2, <3>3
  <2>. QED
    BY <1>1, <2>2, <2>3, <2>4
<1>12. J \in SUBSET Positions(after)
  BY <1>5, <1>8
<1>13. Matches(D, J, old, after)
  BY <1>4, <1>10, <1>11, <1>12 DEF Matches
<1>. QED
  BY <1>13 DEF J, after

\* and after a deletion.
LEMMA MatchesRemoved ==
    ASSUME NEW old, IsCollection(old), NEW new, IsCollection(new), NEW D, NEW I,
           Matches(D, I, old, new), NEW p \in Positions(new)
    PROVE  Matches(DeletionsWith(D, I, p), Ix!EraseAt(I, p), old, RemoveAt(new, p + 1))
<1> DEFINE after == RemoveAt(new, p + 1)
           J == Ix!EraseAt(I, p)
           E == DeletionsWith(D, I, p)
<1>1. new \in Seq(Elements) /\ p \in Nat
      /\ Positions(new) \in SUBSET Nat /\ IsFiniteSet(Positions(new))
  BY PositionsOf DEF IsCollection
<1>2. /\ after \in Seq(Elements)
      /\ \A n \in Nat : n \in Positions(after) <=>
           (n < p /\ n \in Positions(new)) \/ (n >= p /\ n + 1 \in Positions(new))
      /\ \A n \in Positions(after) : n < p => At(after, n) = At(new, n)
      /\ \A n \in Positions(after) : n >= p => At(after, n) = At(new, n + 1)
  <2>1. IsRemoved(after, new, p)
    BY <1>1, EntryRemoved
  <2>. QED
    BY <2>1 DEF IsRemoved
<1>3. Positions(after) \in SUBSET Nat
  BY <1>2, PositionsOf
<1>4. D \in SUBSET Nat /\ IsFiniteSet(D) /\ I \in SUBSET Nat /\ IsFiniteSet(I)
      /\ I \subseteq Positions(new)
  BY <1>1, FS_Subset DEF Matches
<1>5. /\ J \in SUBSET Nat
      /\ \A n \in Nat : n \in J <=> (n < p /\ n \in I) \/ (n >= p /\ n + 1 \in I)
  BY <1>1, <1>4, InErased
<1>6. ASSUME NEW n \in Nat \ J
      PROVE  LET fwd == IF n < p THEN n ELSE n + 1
             IN  fwd \in Nat \ I /\ fwd # p /\ OldIndex(E, J, n) = OldIndex(D, I, fwd)
  <2>1. n \in Nat \ Ix!EraseAt(I, p)
    OBVIOUS
  <2> DEFINE fwd == IF n < p THEN n ELSE n + 1
  <2>2. D \in SUBSET Nat /\ IsFiniteSet(D) /\ I \in SUBSET Nat /\ IsFiniteSet(I) /\ p \in Nat
    BY <1>1, <1>4
  <2>3. fwd \in Nat \ I /\ fwd # p
    BY <2>1, <2>2, DeletionRenumbers
  <2>4. OldIndex(E, J, n) = OldIndex(D, I, fwd)
    <3>. HIDE DEF E
    <3>. QED
      BY <2>1, <2>2, DeletionRenumbers DEF E
  <2>. QED
    BY <2>3, <2>4
<1>7. \A n \in Positions(new) \ I :
        OldIndex(D, I, n) \in Positions(old) /\ At(old, OldIndex(D, I, n)) = At(new, n)
  BY DEF Matches
<1>8. E \in SUBSET Nat /\ IsFiniteSet(E)
  <2>1. CASE p \in I
    BY <1>4, <2>1 DEF DeletionsWith
  <2>2. CASE p \notin I
    <3>1. OldIndex(D, I, p) \in Nat
      BY <1>1, <1>4, <2>2, OldIndexInverse
    <3>2. IsFiniteSet(D \cup {OldIndex(D, I, p)})
      BY <1>4, FS_AddElement
    <3>. QED
      BY <1>4, <2>2, <3>1, <3>2 DEF DeletionsWith
  <2>. QED
    BY <2>1, <2>2
<1>. HIDE DEF after, J
<1>9. \A n \in Nat : n \in J => n \in Positions(after)
  BY <1>1, <1>2, <1>4, <1>5
<1>10. ASSUME NEW n \in Positions(after) \ J
       PROVE  OldIndex(E, J, n) \in Positions(old) /\ At(old, OldIndex(E, J, n)) = At(after, n)
  <2> DEFINE fwd == IF n < p THEN n ELSE n + 1
  <2>1. n \in Nat \ J
    BY <1>3
  <2>2. fwd \in Nat \ I /\ fwd # p /\ OldIndex(E, J, n) = OldIndex(D, I, fwd)
    <3>. HIDE DEF E
    <3>. QED
      BY <1>6, <2>1
  <2>3. fwd \in Positions(new) /\ At(after, n) = At(new, fwd)
    BY <1>1, <1>2, <2>1
  <2>. HIDE DEF fwd, E
  <2>. QED
    BY <1>7, <2>2, <2>3
<1>11. ASSUME NEW k \in Positions(old) \ E
       PROVE  \E n \in Positions(after) \ J : At(after, n) = At(old, k)
  <2>0. k \notin D
    BY DEF DeletionsWith
  <2>1. PICK m \in Positions(new) \ I : At(new, m) = At(old, k)
    BY <2>0 DEF Matches
  <2>2. m \in Nat
    BY <1>1
  <2>3. m # p
    <3>1. SUFFICES ASSUME m = p PROVE FALSE
      OBVIOUS
    <3>2. \A i, j \in Positions(old) : At(old, i) = At(old, j) => i = j
      BY DistinctEntries DEF IsCollection
    <3>3. k = OldIndex(D, I, p)
      BY <1>7, <2>1, <3>1, <3>2
    <3>. QED
      BY <2>1, <3>1, <3>3 DEF DeletionsWith
  <2>. HIDE DEF E
  <2>4. CASE m < p
    <3>1. m \in Positions(after) /\ At(after, m) = At(new, m)
      BY <1>2, <2>2, <2>4
    <3>2. m \notin J
      BY <1>1, <1>5, <2>2, <2>4
    <3>. QED
      BY <2>1, <3>1, <3>2
  <2>5. CASE m > p
    <3>1. m - 1 \in Nat /\ m - 1 >= p /\ (m - 1) + 1 = m /\ ~(m - 1 < p)
      BY <1>1, <2>2, <2>5
    <3>2. m - 1 \in Positions(after) /\ At(after, m - 1) = At(new, m)
      BY <1>2, <3>1
    <3>3. m - 1 \notin J
      BY <1>5, <3>1
    <3>. QED
      BY <2>1, <3>2, <3>3
  <2>. QED
    BY <1>1, <2>2, <2>3, <2>4, <2>5
<1>12. J \in SUBSET Positions(after)
  BY <1>5, <1>9
<1>13. Matches(E, J, old, after)
  <2>. HIDE DEF E
  <2>. QED
    BY <1>8, <1>10, <1>11, <1>12 DEF Matches
<1>. QED
  BY <1>13 DEF J, after

\* The marks after an insertion: the new entry is not marked, or it is,
LEMMA MarksInserted ==
    ASSUME NEW old, NEW new, IsCollection(new), NEW M, NEW X, Marked(M, new, X, old),
           NEW p \in 0 .. Len(new), NEW e \in Elements
    PROVE  LET after == InsertAt(new, p + 1, e)
           IN  /\ (e \in ToSet(old) => e \notin X)
                    => Marked(Ix!ShiftForInsertAt(M, p, 1), after, X, old)
               /\ (e \in ToSet(old) => e \in X)
                    => Marked(Ix!InsertAt(M, p, 1), after, X, old)
<1> DEFINE after == InsertAt(new, p + 1, e)
           S == Ix!ShiftForInsertAt(M, p, 1)
           T == Ix!InsertAt(M, p, 1)
<1>1. /\ new \in Seq(Elements) /\ Len(new) \in Nat /\ p \in Nat /\ Positions(new) \in SUBSET Nat
  BY PositionsOf DEF IsCollection
<1>2. IsInserted(after, new, p, e)
  BY <1>1, EntryInserted
<1>3. Positions(after) \in SUBSET Nat
  BY <1>2, PositionsOf DEF IsInserted
<1>4. M \in SUBSET Nat /\ M \subseteq Positions(new)
  BY <1>1 DEF Marked
<1>5. /\ S \in SUBSET Nat
      /\ \A n \in Nat : n \in S <=> (n < p /\ n \in M) \/ (n >= p + 1 /\ n - 1 \in M)
  BY <1>1, <1>4, InShifted
<1>6. /\ T \in SUBSET Nat
      /\ \A n \in Nat : n \in T <=>
           \/ n < p /\ n \in M
           \/ n \in p .. p + 1 - 1
           \/ n >= p + 1 /\ n - 1 \in M
  BY <1>1, <1>4, InInserted
<1>7. /\ \A n \in Nat : n \in Positions(after) <=>
           n = p \/ (n < p /\ n \in Positions(new)) \/ (n > p /\ n - 1 \in Positions(new))
      /\ At(after, p) = e
      /\ \A n \in Positions(after) : n < p => At(after, n) = At(new, n)
      /\ \A n \in Positions(after) : n > p => At(after, n) = At(new, n - 1)
  BY <1>2 DEF IsInserted
<1>. HIDE DEF after, S, T
<1>8. \A n \in Nat : n >= p + 1 <=> n > p
  BY <1>1
<1>9. \A n \in Nat : n \in p .. p + 1 - 1 <=> n = p
  BY <1>1
<1>10. S \subseteq Positions(after) /\ T \subseteq Positions(after)
  BY <1>4, <1>5, <1>6, <1>7, <1>8, <1>9
<1>11. \A n \in Positions(new) : At(new, n) \in ToSet(old) => (n \in M <=> At(new, n) \in X)
  BY DEF Marked
<1>12. ASSUME NEW n \in Positions(after), At(after, n) \in ToSet(old), n # p
       PROVE  (n \in S <=> At(after, n) \in X) /\ (n \in T <=> At(after, n) \in X)
  <2>1. n \in Nat
    BY <1>3
  <2>2. CASE n < p
    <3>1. ~(n > p) /\ n \in Positions(new) /\ At(after, n) = At(new, n)
      BY <1>1, <1>7, <1>12, <2>1, <2>2
    <3>. QED
      BY <1>5, <1>6, <1>8, <1>9, <1>11, <1>12, <2>1, <2>2, <3>1
  <2>3. CASE n > p
    <3>1. ~(n < p) /\ n - 1 \in Positions(new) /\ At(after, n) = At(new, n - 1)
      BY <1>1, <1>7, <1>12, <2>1, <2>3
    <3>. QED
      BY <1>5, <1>6, <1>8, <1>9, <1>11, <1>12, <2>1, <2>3, <3>1
  <2>. QED
    BY <1>1, <1>12, <2>1, <2>2, <2>3
<1>13. p \notin S /\ p \in T
  BY <1>1, <1>5, <1>6, <1>8, <1>9
<1>14. ASSUME e \in ToSet(old) => e \notin X PROVE Marked(S, after, X, old)
  BY <1>7, <1>10, <1>12, <1>13, <1>14 DEF Marked
<1>15. ASSUME e \in ToSet(old) => e \in X PROVE Marked(T, after, X, old)
  BY <1>7, <1>10, <1>12, <1>13, <1>15 DEF Marked
<1>. QED
  BY <1>14, <1>15 DEF after, S, T

\* and after a deletion.
LEMMA MarksRemoved ==
    ASSUME NEW old, NEW new, IsCollection(new), NEW M, NEW X, Marked(M, new, X, old),
           NEW p \in Positions(new)
    PROVE  Marked(Ix!EraseAt(M, p), RemoveAt(new, p + 1), X, old)
<1> DEFINE after == RemoveAt(new, p + 1)
           S == Ix!EraseAt(M, p)
<1>1. /\ new \in Seq(Elements) /\ p \in Nat /\ Positions(new) \in SUBSET Nat
  BY PositionsOf DEF IsCollection
<1>2. IsRemoved(after, new, p)
  BY <1>1, EntryRemoved
<1>3. Positions(after) \in SUBSET Nat
  BY <1>2, PositionsOf DEF IsRemoved
<1>4. M \in SUBSET Nat /\ M \subseteq Positions(new)
  BY <1>1 DEF Marked
<1>5. /\ S \in SUBSET Nat
      /\ \A n \in Nat : n \in S <=> (n < p /\ n \in M) \/ (n >= p /\ n + 1 \in M)
  BY <1>1, <1>4, InErased
<1>6. /\ \A n \in Nat : n \in Positions(after) <=>
           (n < p /\ n \in Positions(new)) \/ (n >= p /\ n + 1 \in Positions(new))
      /\ \A n \in Positions(after) : n < p => At(after, n) = At(new, n)
      /\ \A n \in Positions(after) : n >= p => At(after, n) = At(new, n + 1)
  BY <1>2 DEF IsRemoved
<1>. HIDE DEF after, S
<1>7. S \subseteq Positions(after)
  BY <1>4, <1>5, <1>6
<1>8. \A n \in Positions(new) : At(new, n) \in ToSet(old) => (n \in M <=> At(new, n) \in X)
  BY DEF Marked
<1>9. ASSUME NEW n \in Positions(after), At(after, n) \in ToSet(old)
      PROVE  n \in S <=> At(after, n) \in X
  <2>1. n \in Nat
    BY <1>3
  <2>2. CASE n < p
    <3>1. ~(n >= p) /\ n \in Positions(new) /\ At(after, n) = At(new, n)
      BY <1>1, <1>6, <2>1, <2>2
    <3>. QED
      BY <1>5, <1>8, <1>9, <2>1, <2>2, <3>1
  <2>3. CASE n >= p
    <3>1. ~(n < p) /\ n + 1 \in Positions(new) /\ At(after, n) = At(new, n + 1)
      BY <1>1, <1>6, <2>1, <2>3
    <3>. QED
      BY <1>5, <1>8, <1>9, <2>1, <2>3, <3>1
  <2>. QED
    BY <1>1, <2>1, <2>2, <2>3
<1>10. Marked(S, after, X, old)
  BY <1>7, <1>9 DEF Marked
<1>. QED
  BY <1>10 DEF after, S

\* The ends of the moves change, each in the same way.
EndAt(t, s, g) ==
    /\ DOMAIN t = DOMAIN s /\ t = [i \in DOMAIN t |-> t[i]]
    /\ \A i \in DOMAIN s : t[i] = [from |-> s[i].from, to |-> g[s[i].to]]

\* They are still moves from different places, each to the new place of its end.
LEMMA MovesTo ==
    ASSUME NEW s \in Seq(Move), DistinctFroms(s), NEW g \in [Nat -> Nat], NEW t, EndAt(t, s, g)
    PROVE  /\ t \in Seq(Move) /\ DistinctFroms(t)
           /\ ToSet(t) = {[from |-> m.from, to |-> g[m.to]] : m \in ToSet(s)}
<1> DEFINE to(m) == [from |-> m.from, to |-> g[m.to]]
           N == Len(s)
<1>1. N \in Nat /\ DOMAIN s = 1 .. N /\ \A i \in 1 .. N : s[i] \in Move
  OBVIOUS
<1>2. DOMAIN t = 1 .. N /\ \A i \in 1 .. N : t[i] = to(s[i])
  BY <1>1 DEF EndAt
<1>3. \A i \in 1 .. N : to(s[i]) \in Move
  <2> TAKE i \in 1 .. N
  <2>1. s[i].from \in Nat /\ g[s[i].to] \in Nat
    BY <1>1 DEF Move
  <2>. QED
    BY <2>1 DEF Move
<1>4. \A m : to(m).from = m.from
  OBVIOUS
<1>5. t = [i \in 1 .. N |-> t[i]]
  BY <1>1 DEF EndAt
<1>. HIDE DEF to, N
<1>6. t \in Seq(Move)
  <2>1. \A i \in 1 .. N : t[i] \in Move
    BY <1>2, <1>3
  <2>2. t \in [1 .. N -> Move]
    BY <1>5, <2>1
  <2>3. N \in Nat
    BY <1>1
  <2>. QED
    BY <2>2, <2>3
<1>7. DistinctFroms(t)
  BY <1>1, <1>2, <1>4 DEF DistinctFroms
<1>8. ToSet(t) = {to(m) : m \in ToSet(s)}
  BY <1>1, <1>2 DEF ToSet
<1>. QED
  BY <1>6, <1>7, <1>8 DEF to

\* The moves when the new entries have other places: g is where they are, and
\* some of them may be gone.  The entries that are new are none of the old ones.
Placed(g, new, after, gone) ==
    /\ gone \cap ToSet(after) = {}
    /\ \A n \in Positions(new) : At(new, n) \notin gone =>
         g[n] \in Positions(after) /\ At(after, g[n]) = At(new, n)

\* The moves that stay, with their new ends.
PlacedMoves(M, g, new, gone) ==
    {[from |-> m.from, to |-> g[m.to]] : m \in {l \in M : At(new, l.to) \notin gone}}

\* They are the moves of the deleted entries again, when the ends follow the
\* entries.
LEMMA MovesCarried ==
    ASSUME NEW old, IsCollection(old), NEW new, IsCollection(new),
           NEW after, IsCollection(after), NEW D, NEW M,
           \A m \in M : m \in Move,
           \A m \in Move : m \in M <=> IsMove(m, D, old, new),
           NEW g, NEW gone, Placed(g, new, after, gone),
           ToSet(after) \cap ToSet(old) \subseteq ToSet(new)
    PROVE  \A m \in Move : m \in PlacedMoves(M, g, new, gone) <=> IsMove(m, D, old, after)
<1> DEFINE T == PlacedMoves(M, g, new, gone)
<1>1. Positions(new) \in SUBSET Nat /\ Positions(old) \in SUBSET Nat /\ Positions(after) \in SUBSET Nat
  BY PositionsOf DEF IsCollection
<1>2. ASSUME NEW m \in T PROVE IsMove(m, D, old, after)
  <2>1. PICK l \in M : m = [from |-> l.from, to |-> g[l.to]] /\ At(new, l.to) \notin gone
    BY DEF PlacedMoves
  <2>2. m.from = l.from /\ m.to = g[l.to] /\ IsMove(l, D, old, new)
    BY <2>1
  <2>. QED
    BY <2>1, <2>2 DEF IsMove, Placed
<1>3. ASSUME NEW m \in Move, IsMove(m, D, old, after) PROVE m \in T
  <2>1. /\ m.from \in D /\ m.from \in Positions(old) /\ m.to \in Positions(after)
        /\ At(old, m.from) = At(after, m.to)
    BY <1>3 DEF IsMove
  <2> DEFINE e == At(old, m.from)
  <2>2. e \in ToSet(old)
    BY <2>1, PositionsOf DEF IsCollection
  <2>3. e \in ToSet(after)
    BY <2>1, PositionsOf DEF IsCollection
  <2>4. ToSet(new) = {At(new, n) : n \in Positions(new)}
    BY PositionsOf DEF IsCollection
  <2>5. PICK x \in Positions(new) : At(new, x) = e
    BY <2>2, <2>3, <2>4
  <2>6. e \notin gone
    BY <2>3 DEF Placed
  <2>7. g[x] \in Positions(after) /\ At(after, g[x]) = e
    BY <2>5, <2>6 DEF Placed
  <2>8. \A i, j \in Positions(after) : At(after, i) = At(after, j) => i = j
    BY DistinctEntries DEF IsCollection
  <2>9. g[x] = m.to
    BY <2>1, <2>7, <2>8
  <2> DEFINE l == [from |-> m.from, to |-> x]
  <2>10. l \in Move /\ l.from = m.from /\ l.to = x
    BY <1>1 DEF Move
  <2>. HIDE DEF l
  <2>11. l \in M
    BY <2>1, <2>5, <2>10 DEF IsMove
  <2>12. m = [from |-> l.from, to |-> g[l.to]]
    BY <2>9, <2>10 DEF Move
  <2>13. At(new, l.to) \notin gone
    BY <2>5, <2>6, <2>10
  <2>. QED
    BY <2>11, <2>12, <2>13 DEF PlacedMoves
<1>. QED
  BY <1>2, <1>3

----------------------------------------------------------------------------
(* Instructions on a list *)

\* The change set after an entry is inserted.
LEMMA ListInsert ==
    ASSUME NEW old, IsCollection(old), NEW new, IsCollection(new), NEW c, Explains(c, old, new),
           c.mapping = <<>>, NEW known, NEW X, Marked(c.modifications, new, X, known),
           NEW p \in 0 .. Len(new), NEW e \in Elements, e \notin ToSet(old), e \notin ToSet(new)
    PROVE  LET d == insert(c, p, 1, TRUE)
               after == InsertAt(new, p + 1, e)
           IN  /\ Explains(d, old, after)
               /\ d.deletions = c.deletions /\ d.mapping = <<>>
               /\ Marked(d.modifications, after, X \ {e}, known)
<1> DEFINE d == insert(c, p, 1, TRUE)
           after == InsertAt(new, p + 1, e)
           moved(ndx) == IF ndx >= p THEN ndx + 1 ELSE ndx
           g == [x \in Nat |-> moved(x)]
           map == [n \in {moved(k) : k \in DOMAIN c.mapping} |->
                     c.mapping[IF n >= p THEN n - 1 ELSE n]]
<1>1. p \in Nat /\ Positions(new) \in SUBSET Nat /\ Positions(old) \in SUBSET Nat
  BY PositionsOf DEF IsCollection
<1>2. /\ IsChanges(c) /\ Matches(c.deletions, c.insertions, old, new)
      /\ c.moves \in Seq(Move) /\ DistinctFroms(c.moves)
  BY DEF Explains
<1>3. map = <<>>
  <2>1. DOMAIN c.mapping = {}
    OBVIOUS
  <2>2. {moved(k) : k \in DOMAIN c.mapping} = {}
    BY <2>1
  <2>. QED
    BY <2>2
<1>4. /\ IsChanges(d) /\ d.deletions = c.deletions
      /\ d.insertions = Ix!InsertAt(c.insertions, p, 1)
      /\ d.modifications = Ix!ShiftForInsertAt(c.modifications, p, 1)
      /\ d.moves = Retargeted(c.moves, moved)
      /\ d.mapping = map
  <2>1. c = [deletions |-> c.deletions, insertions |-> c.insertions,
             modifications |-> c.modifications, moves |-> c.moves, mapping |-> c.mapping]
    BY <1>2 DEF IsChanges
  <2>2. d = [[c EXCEPT !.modifications = Ix!ShiftForInsertAt(@, p, 1)] EXCEPT
                !.insertions = Ix!InsertAt(@, p, 1),
                !.moves = Retargeted(@, moved), !.mapping = map]
    BY DEF insert
  <2>. HIDE DEF d, map, moved
  <2>3. d = [deletions |-> c.deletions, insertions |-> Ix!InsertAt(c.insertions, p, 1),
             modifications |-> Ix!ShiftForInsertAt(c.modifications, p, 1),
             moves |-> Retargeted(c.moves, moved), mapping |-> map]
    BY <2>1, <2>2
  <2>. QED
    BY <2>3 DEF IsChanges
<1>. HIDE DEF d, map
<1>5. Matches(d.deletions, d.insertions, old, after)
  BY <1>2, <1>4, MatchesInserted
<1>6. Marked(c.modifications, new, X \ {e}, known)
  <2>1. \A n \in Positions(new) : At(new, n) # e
    BY PositionsOf DEF IsCollection
  <2>. QED
    BY <2>1 DEF Marked
<1>7. IsInserted(after, new, p, e)
  BY EntryInserted DEF IsCollection
<1>8. IsCollection(after) /\ ToSet(after) = ToSet(new) \cup {e}
  BY CollectionInserted
<1>9. /\ \A n \in Nat : n \in Positions(after) <=>
           n = p \/ (n < p /\ n \in Positions(new)) \/ (n > p /\ n - 1 \in Positions(new))
      /\ At(after, p) = e
      /\ \A n \in Positions(after) : n < p => At(after, n) = At(new, n)
      /\ \A n \in Positions(after) : n > p => At(after, n) = At(new, n - 1)
  BY <1>7 DEF IsInserted
<1>10. Marked(d.modifications, after, X \ {e}, known)
  BY <1>4, <1>6, MarksInserted
<1>. HIDE DEF after
<1>11. g \in [Nat -> Nat] /\ \A x \in Nat : g[x] = moved(x)
  BY <1>1
<1>12. EndAt(d.moves, c.moves, g)
  <2>1. \A i \in DOMAIN c.moves : c.moves[i] \in Move
    BY <1>2
  <2>2. ASSUME NEW i \in DOMAIN c.moves
        PROVE  [c.moves[i] EXCEPT !.to = moved(@)]
                 = [from |-> c.moves[i].from, to |-> g[c.moves[i].to]]
    <3>1. c.moves[i] = [from |-> c.moves[i].from, to |-> c.moves[i].to] /\ c.moves[i].to \in Nat
      BY <2>1 DEF Move
    <3>2. moved(c.moves[i].to) = g[c.moves[i].to]
      BY <1>11, <3>1
    <3>. HIDE DEF g, moved
    <3>. QED
      BY <3>1, <3>2
  <2>. HIDE DEF g, moved
  <2>. QED
    BY <1>4, <2>2 DEF Retargeted, EndAt
<1>13. \A n \in Positions(new) : g[n] \in Positions(after) /\ At(after, g[n]) = At(new, n)
  <2> TAKE n \in Positions(new)
  <2>1. n \in Nat /\ g[n] = moved(n)
    BY <1>1
  <2>2. CASE n >= p
    <3>1. g[n] = n + 1 /\ n + 1 \in Nat /\ n + 1 > p /\ (n + 1) - 1 = n
      BY <1>1, <2>1, <2>2
    <3>. HIDE DEF g
    <3>. QED
      BY <1>9, <3>1
  <2>3. CASE n < p
    <3>1. g[n] = n
      BY <1>1, <2>1, <2>3
    <3>. HIDE DEF g
    <3>. QED
      BY <1>9, <2>1, <2>3, <3>1
  <2>4. n >= p \/ n < p
    BY <1>1, <2>1
  <2>. QED
    BY <2>2, <2>3, <2>4
<1>. HIDE DEF g
<1>14. /\ d.moves \in Seq(Move) /\ DistinctFroms(d.moves)
       /\ ToSet(d.moves) = {[from |-> m.from, to |-> g[m.to]] : m \in ToSet(c.moves)}
  BY <1>2, <1>11, <1>12, MovesTo
<1>15. \A m \in Move : m \in ToSet(d.moves) <=> IsMove(m, d.deletions, old, after)
  <2>1. \A m \in ToSet(c.moves) : m \in Move
    BY <1>2 DEF ToSet
  <2>2. \A m \in Move : m \in ToSet(c.moves) <=> IsMove(m, c.deletions, old, new)
    BY DEF Explains
  <2>3. ToSet(d.moves) = PlacedMoves(ToSet(c.moves), g, new, {})
    BY <1>14 DEF PlacedMoves
  <2>4. ToSet(after) \cap ToSet(old) \subseteq ToSet(new)
    BY <1>8
  <2>5. Placed(g, new, after, {})
    BY <1>13 DEF Placed
  <2> DEFINE M == ToSet(c.moves)
             D == c.deletions
             none == {}
  <2>. HIDE DEF M, D, none
  <2>6. \A m \in Move : m \in PlacedMoves(M, g, new, none) <=> IsMove(m, D, old, after)
    <3>1. \A m \in M : m \in Move
      BY <2>1 DEF M
    <3>2. \A m \in Move : m \in M <=> IsMove(m, D, old, new)
      BY <2>2 DEF M, D
    <3>3. Placed(g, new, after, none)
      BY <2>5 DEF none
    <3>. QED
      BY <1>8, <2>4, <3>1, <3>2, <3>3, MovesCarried
  <2>. QED
    BY <1>4, <2>3, <2>6 DEF M, D, none
<1>16. Explains(d, old, after)
  BY <1>4, <1>5, <1>14, <1>15 DEF Explains
<1>. QED
  BY <1>3, <1>4, <1>10, <1>16 DEF d, after

\* The change set after an entry is set.
LEMMA ListModify ==
    ASSUME NEW old, IsCollection(old), NEW new, IsCollection(new), NEW c, Explains(c, old, new),
           NEW known, NEW X, Marked(c.modifications, new, X, known), NEW n \in Positions(new)
    PROVE  LET d == modify(c, n)
           IN  /\ Explains(d, old, new)
               /\ d.deletions = c.deletions /\ d.mapping = c.mapping
               /\ Marked(d.modifications, new, X \cup {At(new, n)}, known)
<1> DEFINE d == modify(c, n)
<1>1. c = [deletions |-> c.deletions, insertions |-> c.insertions,
           modifications |-> c.modifications, moves |-> c.moves, mapping |-> c.mapping]
  BY DEF Explains, IsChanges
<1>2. d = [c EXCEPT !.modifications = @ \cup {n}]
  BY DEF modify
<1>. HIDE DEF d
<1>3. d = [deletions |-> c.deletions, insertions |-> c.insertions,
           modifications |-> c.modifications \cup {n}, moves |-> c.moves, mapping |-> c.mapping]
  BY <1>1, <1>2
<1>4. /\ IsChanges(d) /\ d.deletions = c.deletions /\ d.insertions = c.insertions
      /\ d.modifications = c.modifications \cup {n} /\ d.moves = c.moves /\ d.mapping = c.mapping
  BY <1>3 DEF IsChanges
<1>5. Explains(d, old, new)
  BY <1>4 DEF Explains
<1>6. \A i, j \in Positions(new) : At(new, i) = At(new, j) => i = j
  BY DistinctEntries DEF IsCollection
<1>7. Marked(c.modifications \cup {n}, new, X \cup {At(new, n)}, known)
  BY <1>6 DEF Marked
<1>. QED
  BY <1>4, <1>5, <1>7 DEF d

\* A row that is gone is deleted, or it was never there.
LEMMA RowDeleted ==
    ASSUME NEW c, IsChanges(c), NEW p
    PROVE  /\ IsChanges(DeleteRow(c, p))
           /\ DeleteRow(c, p).deletions = DeletionsWith(c.deletions, c.insertions, p)
           /\ DeleteRow(c, p).insertions = Ix!EraseAt(c.insertions, p)
           /\ DeleteRow(c, p).modifications = c.modifications
           /\ DeleteRow(c, p).moves = c.moves
           /\ DeleteRow(c, p).mapping = c.mapping
<1> DEFINE d == DeleteRow(c, p)
           D == DeletionsWith(c.deletions, c.insertions, p)
           I == Ix!EraseAt(c.insertions, p)
<1>1. c = [deletions |-> c.deletions, insertions |-> c.insertions,
           modifications |-> c.modifications, moves |-> c.moves, mapping |-> c.mapping]
  BY DEF IsChanges
<1>2. D = IF p \in c.insertions THEN c.deletions
          ELSE Ix!AddShifted(c.deletions, Ix!UnshiftIndex(c.insertions, p))
  BY DEF DeletionsWith, Ix!AddShifted, OldIndex
<1>3. d = [c EXCEPT !.insertions = I, !.deletions = D]
  <2> DEFINE E == IF p \in c.insertions THEN c.deletions
                  ELSE Ix!AddShifted(c.deletions, Ix!UnshiftIndex(c.insertions, p))
  <2>1. d = [c EXCEPT !.insertions = I, !.deletions = E]
    BY DEF DeleteRow
  <2>2. E = D
    BY <1>2
  <2>. HIDE DEF d, D, E
  <2>. QED
    BY <2>1, <2>2
<1>. HIDE DEF d, D, I
<1>4. d = [deletions |-> D, insertions |-> I,
           modifications |-> c.modifications, moves |-> c.moves, mapping |-> c.mapping]
  BY <1>1, <1>3
<1>5. IsChanges(d) /\ d.deletions = D /\ d.insertions = I /\ d.modifications = c.modifications
      /\ d.moves = c.moves /\ d.mapping = c.mapping
  BY <1>4 DEF IsChanges
<1>. QED
  BY <1>5 DEF d, D, I

\* The moves after the row p is deleted: it is not moved any more.
LEMMA MovesDeleted ==
    ASSUME NEW old, IsCollection(old), NEW after, IsCollection(after), NEW D, NEW I, NEW p,
           NEW T, \A m \in Move : m \in T <=> IsMove(m, D, old, after),
           p \notin I => At(old, OldIndex(D, I, p)) \notin ToSet(after)
    PROVE  \A m \in Move : m \in T <=> IsMove(m, DeletionsWith(D, I, p), old, after)
<1>1. \A n \in Positions(after) : At(after, n) \in ToSet(after)
  BY PositionsOf DEF IsCollection
<1>2. CASE p \in I
  BY <1>2 DEF DeletionsWith
<1>3. CASE p \notin I
  <2>1. DeletionsWith(D, I, p) = D \cup {OldIndex(D, I, p)}
    BY <1>3 DEF DeletionsWith
  <2>. QED
    BY <1>1, <1>3, <2>1 DEF IsMove
<1>. QED
  BY <1>2, <1>3

\* The moves that are left.
LEMMA MovesLeft ==
    ASSUME NEW s \in Seq(Move), DistinctFroms(s), NEW p
    PROVE  LET left == LeaveOut(s, {i \in DOMAIN s : s[i].to = p})
           IN  /\ left \in Seq(Move) /\ DistinctFroms(left)
               /\ ToSet(left) = {m \in ToSet(s) : m.to # p}
<1> DEFINE gone == {i \in DOMAIN s : s[i].to = p}
           left == LeaveOut(s, gone)
<1>1. gone \in SUBSET DOMAIN s /\ \A i \in DOMAIN s : i \in gone <=> s[i].to = p
  OBVIOUS
<1>. HIDE DEF gone
<1>2. /\ left \in Seq(Move)
      /\ \A i \in DOMAIN left :
           /\ Ix!ShiftIndex(gone, i) \in DOMAIN s \ gone
           /\ left[i] = s[Ix!ShiftIndex(gone, i)]
      /\ \A i, j \in DOMAIN left : Ix!ShiftIndex(gone, i) = Ix!ShiftIndex(gone, j) => i = j
      /\ ToSet(left) = {s[i] : i \in DOMAIN s \ gone}
  BY <1>1, LeftOut
<1>. HIDE DEF left
<1>3. DistinctFroms(left)
  BY <1>2 DEF DistinctFroms
<1>4. ToSet(left) = {m \in ToSet(s) : m.to # p}
  <2>1. ToSet(s) = {s[i] : i \in DOMAIN s}
    BY DEF ToSet
  <2>. QED
    BY <1>1, <1>2, <2>1
<1>. QED
  BY <1>2, <1>3, <1>4 DEF left, gone

\* The change set after an entry is erased.
LEMMA ListErase ==
    ASSUME NEW old, IsCollection(old), NEW new, IsCollection(new), NEW c, Explains(c, old, new),
           NEW known, NEW X, Marked(c.modifications, new, X, known), NEW p \in Positions(new)
    PROVE  LET d == erase(c, p)
               after == RemoveAt(new, p + 1)
           IN  /\ Explains(d, old, after)
               /\ c.deletions \subseteq Positions(old) => d.deletions \subseteq Positions(old)
               /\ d.mapping = c.mapping
               /\ Marked(d.modifications, after, X, known)
<1> DEFINE d == erase(c, p)
           after == RemoveAt(new, p + 1)
           left == LeaveOut(c.moves, {i \in DOMAIN c.moves : c.moves[i].to = p})
           To(t) == Ix!UnshiftIndex({p}, t)
           D == c.deletions
           I == c.insertions
           E == DeletionsWith(D, I, p)
           g == [x \in Nat |-> To(x)]
<1>1. p \in Nat /\ Positions(new) \in SUBSET Nat
  BY PositionsOf DEF IsCollection
<1>2. /\ IsChanges(c) /\ Matches(D, I, old, new)
      /\ c.moves \in Seq(Move) /\ DistinctFroms(c.moves)
      /\ \A m \in Move : m \in ToSet(c.moves) <=> IsMove(m, D, old, new)
  BY DEF Explains
<1>3. left \in Seq(Move) /\ DistinctFroms(left) /\ ToSet(left) = {m \in ToSet(c.moves) : m.to # p}
  BY <1>2, MovesLeft
<1>4. /\ IsChanges(d) /\ d.deletions = E /\ d.insertions = Ix!EraseAt(I, p)
      /\ d.modifications = Ix!EraseAt(c.modifications, p)
      /\ d.moves = Retargeted(left, To) /\ d.mapping = c.mapping
  <2> DEFINE b == DeleteRow(c, p)
  <2>1. /\ IsChanges(b) /\ b.deletions = E /\ b.insertions = Ix!EraseAt(I, p)
        /\ b.modifications = c.modifications /\ b.mapping = c.mapping
    BY <1>2, RowDeleted
  <2>2. d = [b EXCEPT !.modifications = Ix!EraseAt(@, p), !.moves = Retargeted(left, To)]
    BY DEF erase
  <2>. HIDE DEF b, d, left, To, D, I, E
  <2>3. b = [deletions |-> b.deletions, insertions |-> b.insertions,
             modifications |-> b.modifications, moves |-> b.moves, mapping |-> b.mapping]
    BY <2>1 DEF IsChanges
  <2>4. d = [deletions |-> b.deletions, insertions |-> b.insertions,
             modifications |-> Ix!EraseAt(b.modifications, p), moves |-> Retargeted(left, To),
             mapping |-> b.mapping]
    BY <2>2, <2>3
  <2>. QED
    BY <2>1, <2>4 DEF IsChanges
<1>. HIDE DEF d, left
<1>5. Matches(E, d.insertions, old, after)
  BY <1>2, <1>4, MatchesRemoved
<1>6. Marked(d.modifications, after, X, known)
  BY <1>4, MarksRemoved
<1>7. IsCollection(after) /\ ToSet(after) = ToSet(new) \ {At(new, p)}
  BY CollectionRemoved
<1>8. /\ \A n \in Nat : n \in Positions(after) <=>
           (n < p /\ n \in Positions(new)) \/ (n >= p /\ n + 1 \in Positions(new))
      /\ \A n \in Positions(after) : n < p => At(after, n) = At(new, n)
      /\ \A n \in Positions(after) : n >= p => At(after, n) = At(new, n + 1)
  <2>1. IsRemoved(after, new, p)
    BY EntryRemoved DEF IsCollection
  <2>. QED
    BY <2>1 DEF IsRemoved
<1>. HIDE DEF after
<1>9. g \in [Nat -> Nat] /\ \A x \in Nat : g[x] = To(x) /\ g[x] = IF p < x THEN x - 1 ELSE x
  <2>1. \A x \in Nat : To(x) = IF p < x THEN x - 1 ELSE x
    BY <1>1, UnshiftOne
  <2>. HIDE DEF To
  <2>. QED
    BY <1>1, <2>1
<1>. HIDE DEF g
<1>10. EndAt(d.moves, left, g)
  <2>1. \A i \in DOMAIN left : left[i] \in Move
    BY <1>3
  <2>2. ASSUME NEW i \in DOMAIN left
        PROVE  [left[i] EXCEPT !.to = To(@)] = [from |-> left[i].from, to |-> g[left[i].to]]
    <3>1. left[i] = [from |-> left[i].from, to |-> left[i].to] /\ left[i].to \in Nat
      BY <2>1 DEF Move
    <3>2. To(left[i].to) = g[left[i].to]
      BY <1>9, <3>1
    <3>. HIDE DEF g, To
    <3>. QED
      BY <3>1, <3>2
  <2>. HIDE DEF g, To
  <2>. QED
    BY <1>4, <2>2 DEF Retargeted, EndAt
<1>11. \A i, j \in Positions(new) : At(new, i) = At(new, j) => i = j
  BY DistinctEntries DEF IsCollection
<1> DEFINE gone == {At(new, p)}
<1>12. Placed(g, new, after, gone)
  <2>1. ASSUME NEW n \in Positions(new), n # p
        PROVE  g[n] \in Positions(after) /\ At(after, g[n]) = At(new, n)
    <3>1. n \in Nat
      BY <1>1
    <3>2. CASE p < n
      <4>1. g[n] = n - 1 /\ n - 1 \in Nat /\ n - 1 >= p /\ (n - 1) + 1 = n
        BY <1>1, <1>9, <3>1, <3>2
      <4>. QED
        BY <1>8, <4>1
    <3>3. CASE n < p
      <4>1. g[n] = n
        BY <1>1, <1>9, <3>1, <3>3
      <4>. QED
        BY <1>8, <3>1, <3>3, <4>1
    <3>4. p < n \/ n < p
      BY <1>1, <2>1, <3>1
    <3>. QED
      BY <3>2, <3>3, <3>4
  <2>. QED
    BY <1>7, <2>1 DEF Placed
<1>13. /\ d.moves \in Seq(Move) /\ DistinctFroms(d.moves)
       /\ ToSet(d.moves) = {[from |-> m.from, to |-> g[m.to]] : m \in ToSet(left)}
  BY <1>3, <1>9, <1>10, MovesTo
<1> DEFINE M == ToSet(c.moves)
<1>14. \A m \in M : m \in Move
  BY <1>2 DEF ToSet
<1>15. ToSet(d.moves) = PlacedMoves(M, g, new, gone)
  <2>1. \A m \in M : m.to \in Positions(new)
    BY <1>2, <1>14 DEF IsMove
  <2>2. \A m \in M : m.to # p <=> At(new, m.to) \notin gone
    BY <1>11, <2>1
  <2>3. ToSet(left) = {m \in M : At(new, m.to) \notin gone}
    BY <1>3, <2>2
  <2>. QED
    BY <1>13, <2>3 DEF PlacedMoves
<1>16. \A m \in Move : m \in ToSet(d.moves) <=> IsMove(m, D, old, after)
  <2>1. \A m \in Move : m \in M <=> IsMove(m, D, old, new)
    BY <1>2
  <2>2. ToSet(after) \cap ToSet(old) \subseteq ToSet(new)
    BY <1>7
  <2>. HIDE DEF M, D, gone
  <2>3. \A m \in Move : m \in PlacedMoves(M, g, new, gone) <=> IsMove(m, D, old, after)
    BY <1>7, <1>12, <1>14, <2>1, <2>2, MovesCarried
  <2>. QED
    BY <1>15, <2>3
<1>17. p \notin I => OldIndex(D, I, p) \in Positions(old) /\ At(old, OldIndex(D, I, p)) = At(new, p)
  BY <1>2 DEF Matches
<1>18. \A m \in Move : m \in ToSet(d.moves) <=> IsMove(m, E, old, after)
  <2> DEFINE T == ToSet(d.moves)
  <2>1. p \notin I => At(old, OldIndex(D, I, p)) \notin ToSet(after)
    BY <1>7, <1>17
  <2>2. \A m \in Move : m \in T <=> IsMove(m, D, old, after)
    BY <1>16
  <2>. HIDE DEF D, I, T
  <2>3. \A m \in Move : m \in T <=> IsMove(m, DeletionsWith(D, I, p), old, after)
    BY <1>7, <2>1, <2>2, MovesDeleted
  <2>. QED
    BY <2>3 DEF T
<1>. HIDE DEF E
<1>19. Explains(d, old, after)
  BY <1>4, <1>5, <1>13, <1>18 DEF Explains
<1>20. D \subseteq Positions(old) => E \subseteq Positions(old)
  BY <1>17 DEF E, DeletionsWith
<1>. QED
  BY <1>4, <1>6, <1>19, <1>20 DEF d, after

\* Where the entries are after the one at from is put at to.
LEMMA EntryMoved ==
    ASSUME NEW new, IsCollection(new), NEW from \in Positions(new), NEW to \in Positions(new),
           NEW g, \A x \in Nat : g[x] = IF x = from THEN to
                                        ELSE IF to <= x /\ x < from THEN x + 1
                                        ELSE IF from < x /\ x <= to THEN x - 1
                                        ELSE x
    PROVE  LET mid == RemoveAt(new, from + 1)
               after == InsertAt(mid, to + 1, At(new, from))
           IN  /\ IsCollection(mid) /\ to \in 0 .. Len(mid) /\ At(new, from) \in Elements
               /\ IsCollection(after) /\ ToSet(after) = ToSet(new)
               /\ to \in Positions(after) /\ At(after, to) = At(new, from)
               /\ Placed(g, new, after, {})
<1> DEFINE mid == RemoveAt(new, from + 1)
           e == At(new, from)
           after == InsertAt(mid, to + 1, e)
           N == Len(new)
<1>1. /\ N \in Nat /\ Positions(new) \in SUBSET Nat /\ from \in Nat /\ to \in Nat
      /\ e \in ToSet(new) /\ e \in Elements /\ from < N /\ to < N
  BY PositionsOf DEF IsCollection
<1>2. IsCollection(mid) /\ ToSet(mid) = ToSet(new) \ {e}
  BY CollectionRemoved
<1>3. IsRemoved(mid, new, from)
  BY EntryRemoved DEF IsCollection
<1>4. to \in 0 .. Len(mid)
  <2>1. Len(mid) = N - 1
    BY <1>3 DEF IsRemoved
  <2>. HIDE DEF N, mid
  <2>. QED
    BY <1>1, <2>1
<1>. HIDE DEF mid, e, N
<1>5. IsCollection(after) /\ ToSet(after) = ToSet(new)
  <2>1. e \notin ToSet(mid)
    BY <1>2
  <2>2. IsCollection(after) /\ ToSet(after) = ToSet(mid) \cup {e}
    BY <1>1, <1>2, <1>4, <2>1, CollectionInserted
  <2>. QED
    BY <1>1, <1>2, <2>2
<1>6. IsInserted(after, mid, to, e)
  BY <1>1, <1>2, <1>4, EntryInserted DEF IsCollection
<1>. HIDE DEF after
<1>7. /\ \A n \in Nat : n \in Positions(mid) <=>
           (n < from /\ n \in Positions(new)) \/ (n >= from /\ n + 1 \in Positions(new))
      /\ \A n \in Positions(mid) : n < from => At(mid, n) = At(new, n)
      /\ \A n \in Positions(mid) : n >= from => At(mid, n) = At(new, n + 1)
  BY <1>3 DEF IsRemoved
<1>8. /\ \A n \in Nat : n \in Positions(after) <=>
           n = to \/ (n < to /\ n \in Positions(mid)) \/ (n > to /\ n - 1 \in Positions(mid))
      /\ At(after, to) = e
      /\ \A n \in Positions(after) : n < to => At(after, n) = At(mid, n)
      /\ \A n \in Positions(after) : n > to => At(after, n) = At(mid, n - 1)
  BY <1>6 DEF IsInserted
<1>9. ASSUME NEW k \in Positions(mid), k \in Nat
      PROVE  LET n == IF k < to THEN k ELSE k + 1
             IN  n \in Positions(after) /\ At(after, n) = At(mid, k)
  <2>1. CASE k < to
    BY <1>8, <1>9, <2>1
  <2>2. CASE ~(k < to)
    <3>1. k + 1 \in Nat /\ k + 1 > to /\ (k + 1) - 1 = k
      BY <1>1, <1>9, <2>2
    <3>. QED
      BY <1>8, <2>2, <3>1
  <2>. QED
    BY <2>1, <2>2
<1>10. ASSUME NEW n \in Positions(new)
       PROVE  g[n] \in Positions(after) /\ At(after, g[n]) = At(new, n)
  <2>1. n \in Nat
    BY <1>1
  <2>2. CASE n = from
    <3>1. g[n] = to
      BY <2>1, <2>2
    <3>. QED
      BY <1>1, <1>8, <2>2, <3>1 DEF e
  <2>3. CASE n < from
    <3>1. n \in Positions(mid) /\ At(mid, n) = At(new, n)
      BY <1>7, <2>1, <2>3
    <3>2. g[n] = IF n < to THEN n ELSE n + 1
      BY <1>1, <2>1, <2>3
    <3>. QED
      BY <1>9, <2>1, <3>1, <3>2
  <2>4. CASE from < n
    <3>1. n - 1 \in Nat /\ n - 1 >= from /\ ~(n - 1 < from) /\ (n - 1) + 1 = n
      BY <1>1, <2>1, <2>4
    <3>2. n - 1 \in Positions(mid) /\ At(mid, n - 1) = At(new, n)
      BY <1>7, <3>1
    <3>3. g[n] = IF n - 1 < to THEN n - 1 ELSE (n - 1) + 1
      BY <1>1, <2>1, <2>4
    <3>. QED
      BY <1>9, <3>1, <3>2, <3>3
  <2>5. n = from \/ n < from \/ from < n
    BY <1>1, <2>1
  <2>. QED
    BY <2>2, <2>3, <2>4, <2>5
<1>11. Placed(g, new, after, {})
  BY <1>10 DEF Placed
<1>12. to \in Positions(after)
  BY <1>1, <1>8
<1>. QED
  BY <1>1, <1>2, <1>4, <1>5, <1>8, <1>11, <1>12 DEF after, mid, e

\* The change set after an entry is moved.
LEMMA ListMove ==
    ASSUME NEW old, IsCollection(old), NEW new, IsCollection(new), NEW c, Explains(c, old, new),
           NEW known, NEW X, Marked(c.modifications, new, X, known),
           NEW from \in Positions(new), NEW to \in Positions(new)
    PROVE  LET d == move(c, from, to)
               after == InsertAt(RemoveAt(new, from + 1), to + 1, At(new, from))
           IN  /\ Explains(d, old, after) /\ IsCollection(after) /\ ToSet(after) = ToSet(new)
               /\ c.deletions \subseteq Positions(old) => d.deletions \subseteq Positions(old)
               /\ d.mapping = c.mapping
               /\ Marked(d.modifications, after, X, known)
<1> DEFINE d == move(c, from, to)
           mid == RemoveAt(new, from + 1)
           e == At(new, from)
           after == InsertAt(mid, to + 1, e)
           To(t) == IF t = from THEN to
                    ELSE IF to <= t /\ t < from THEN t + 1
                    ELSE IF from < t /\ t <= to THEN t - 1
                    ELSE t
           moved == \E m \in ToSet(c.moves) : m.to = from
           others == Retargeted(c.moves, To)
           D == c.deletions
           I == c.insertions
           E == DeletionsWith(D, I, from)
           k == OldIndex(D, I, from)
           left == Ix!EraseAt(c.modifications, from)
           J == Ix!InsertAt(Ix!EraseAt(I, from), to, 1)
           mods == IF from \in c.modifications THEN Ix!InsertAt(left, to, 1)
                   ELSE Ix!ShiftForInsertAt(left, to, 1)
           g == [x \in Nat |-> To(x)]
<1>1. Positions(new) \in SUBSET Nat /\ from \in Nat /\ to \in Nat
  BY PositionsOf DEF IsCollection
<1>2. /\ IsChanges(c) /\ Matches(D, I, old, new)
      /\ c.moves \in Seq(Move) /\ DistinctFroms(c.moves)
      /\ \A m \in Move : m \in ToSet(c.moves) <=> IsMove(m, D, old, new)
  BY DEF Explains
<1>3. moved => from \in I
  BY MovesEnd
<1>4. /\ IsChanges(d) /\ d.deletions = E /\ d.insertions = J
      /\ d.modifications = mods /\ d.mapping = c.mapping
      /\ d.moves = IF from \in I THEN others ELSE Append(others, [from |-> k, to |-> to])
  <2> DEFINE b == IF moved THEN [c EXCEPT !.insertions = Ix!EraseAt(@, from)]
                  ELSE DeleteRow(c, from)
             ends == IF moved \/ from \in c.insertions THEN others
                     ELSE Append(others, [from |-> k, to |-> to])
  <2>1. /\ b = [deletions |-> E, insertions |-> Ix!EraseAt(I, from),
                modifications |-> c.modifications, moves |-> c.moves, mapping |-> c.mapping]
    <3>1. CASE moved
      <4>1. b = [c EXCEPT !.insertions = Ix!EraseAt(@, from)] /\ E = D
        BY <1>3, <3>1 DEF DeletionsWith
      <4>2. c = [deletions |-> c.deletions, insertions |-> c.insertions,
                 modifications |-> c.modifications, moves |-> c.moves, mapping |-> c.mapping]
        BY <1>2 DEF IsChanges
      <4>. HIDE DEF b, E
      <4>. QED
        BY <4>1, <4>2
    <3>2. CASE ~moved
      <4>1. b = DeleteRow(c, from)
        BY <3>2
      <4>. HIDE DEF b
      <4>2. /\ IsChanges(b) /\ b.deletions = E /\ b.insertions = Ix!EraseAt(I, from)
            /\ b.modifications = c.modifications /\ b.moves = c.moves /\ b.mapping = c.mapping
        BY <1>2, <4>1, RowDeleted
      <4>. HIDE DEF E, I, moved
      <4>. QED
        BY <4>2 DEF IsChanges
    <3>. QED
      BY <3>1, <3>2
  <2>2. d = [b EXCEPT !.insertions = Ix!InsertAt(@, to, 1), !.moves = ends, !.modifications = mods]
    BY DEF move, OldIndex
  <2>3. ends = IF from \in I THEN others ELSE Append(others, [from |-> k, to |-> to])
    BY <1>3
  <2>. HIDE DEF b, d, ends, mods, E, I, J
  <2>4. d = [deletions |-> E, insertions |-> Ix!InsertAt(Ix!EraseAt(I, from), to, 1),
             modifications |-> mods, moves |-> ends, mapping |-> c.mapping]
    BY <2>1, <2>2
  <2>5. IsChanges(d) /\ d.deletions = E /\ d.insertions = Ix!InsertAt(Ix!EraseAt(I, from), to, 1)
        /\ d.modifications = mods /\ d.moves = ends /\ d.mapping = c.mapping
    BY <2>4 DEF IsChanges
  <2>. QED
    BY <2>3, <2>5 DEF J
<1>. HIDE DEF d, moved
<1>5. g \in [Nat -> Nat] /\ \A x \in Nat : g[x] = To(x)
  BY <1>1
<1>. HIDE DEF g
<1>6. \A x \in Nat : g[x] = IF x = from THEN to
                            ELSE IF to <= x /\ x < from THEN x + 1
                            ELSE IF from < x /\ x <= to THEN x - 1
                            ELSE x
  BY <1>5
<1>. HIDE DEF To
<1>7. /\ IsCollection(mid) /\ to \in 0 .. Len(mid) /\ e \in Elements
      /\ IsCollection(after) /\ ToSet(after) = ToSet(new)
      /\ to \in Positions(after) /\ At(after, to) = e
      /\ Placed(g, new, after, {})
  BY <1>6, EntryMoved
<1>8. Matches(E, J, old, after)
  <2>1. Matches(E, Ix!EraseAt(I, from), old, mid)
    BY <1>2, MatchesRemoved
  <2>. HIDE DEF E, I, mid, e
  <2>. QED
    BY <1>7, <2>1, MatchesInserted
<1>9. Marked(mods, after, X, known)
  <2>1. Marked(left, mid, X, known)
    BY MarksRemoved
  <2>2. e \in ToSet(known) => (from \in c.modifications <=> e \in X)
    BY DEF Marked
  <2>. HIDE DEF left, mid, e
  <2>3. CASE from \in c.modifications
    <3>1. Marked(Ix!InsertAt(left, to, 1), after, X, known)
      BY <1>7, <2>1, <2>2, <2>3, MarksInserted
    <3>. QED
      BY <2>3, <3>1
  <2>4. CASE from \notin c.modifications
    <3>1. Marked(Ix!ShiftForInsertAt(left, to, 1), after, X, known)
      BY <1>7, <2>1, <2>2, <2>4, MarksInserted
    <3>. QED
      BY <2>4, <3>1
  <2>. QED
    BY <2>3, <2>4
<1>. HIDE DEF mid, after, mods
<1>10. EndAt(others, c.moves, g)
  <2>1. \A i \in DOMAIN c.moves : c.moves[i] \in Move
    BY <1>2
  <2>2. ASSUME NEW i \in DOMAIN c.moves
        PROVE  [c.moves[i] EXCEPT !.to = To(@)]
                 = [from |-> c.moves[i].from, to |-> g[c.moves[i].to]]
    <3>1. c.moves[i] = [from |-> c.moves[i].from, to |-> c.moves[i].to] /\ c.moves[i].to \in Nat
      BY <2>1 DEF Move
    <3>2. To(c.moves[i].to) = g[c.moves[i].to]
      BY <1>5, <3>1
    <3>. QED
      BY <3>1, <3>2
  <2>. QED
    BY <2>2 DEF Retargeted, EndAt
<1>. HIDE DEF others
<1>11. /\ others \in Seq(Move) /\ DistinctFroms(others)
       /\ ToSet(others) = {[from |-> m.from, to |-> g[m.to]] : m \in ToSet(c.moves)}
  BY <1>2, <1>5, <1>10, MovesTo
<1>12. \A m \in Move : m \in ToSet(others) <=> IsMove(m, D, old, after)
  <2> DEFINE M == ToSet(c.moves)
             none == {}
  <2>1. \A m \in M : m \in Move
    BY <1>2 DEF ToSet
  <2>2. ToSet(others) = PlacedMoves(M, g, new, none)
    BY <1>11 DEF PlacedMoves
  <2>3. ToSet(after) \cap ToSet(old) \subseteq ToSet(new)
    BY <1>7
  <2>4. \A m \in Move : m \in M <=> IsMove(m, D, old, new)
    BY <1>2
  <2>5. Placed(g, new, after, none)
    BY <1>7
  <2>. HIDE DEF M, D, none
  <2>6. \A m \in Move : m \in PlacedMoves(M, g, new, none) <=> IsMove(m, D, old, after)
    BY <1>7, <2>1, <2>3, <2>4, <2>5, MovesCarried
  <2>. QED
    BY <2>2, <2>6
<1>13. from \notin I => k \in Positions(old) /\ At(old, k) = e
  BY <1>2 DEF Matches
<1>14. from \notin I => k \in Nat \ D
  <2>1. /\ D \in SUBSET Nat /\ IsFiniteSet(D) /\ I \in SUBSET Nat /\ IsFiniteSet(I)
    BY ExplainsSets
  <2>. QED
    BY <1>1, <2>1, OldIndexInverse
<1>15. /\ d.moves \in Seq(Move) /\ DistinctFroms(d.moves)
       /\ \A m \in Move : m \in ToSet(d.moves) <=> IsMove(m, E, old, after)
  <2>1. CASE from \in I
    <3>1. E = D /\ d.moves = others
      BY <1>4, <2>1 DEF DeletionsWith
    <3>. QED
      BY <1>11, <1>12, <3>1
  <2>2. CASE from \notin I
    <3> DEFINE x == [from |-> k, to |-> to]
    <3>1. E = D \cup {k} /\ d.moves = Append(others, x)
      BY <1>4, <2>2 DEF DeletionsWith
    <3>2. x \in Move /\ x.from = k /\ x.to = to
      BY <1>1, <1>14, <2>2 DEF Move
    <3>. HIDE DEF x, E, k, e
    <3>3. d.moves \in Seq(Move) /\ ToSet(d.moves) = ToSet(others) \cup {x}
      BY <1>11, <3>1, <3>2, MovesAfterAppend
    <3>4. \A m \in ToSet(others) : m \in Move
      BY <1>11 DEF ToSet
    <3>5. \A m \in ToSet(others) : m.from # x.from
      BY <1>12, <1>14, <2>2, <3>2, <3>4 DEF IsMove
    <3>6. DistinctFroms(d.moves)
      BY <1>11, <3>1, <3>2, <3>5, DistinctAfterAppend
    <3>7. \A i, j \in Positions(after) : At(after, i) = At(after, j) => i = j
      BY <1>7, DistinctEntries DEF IsCollection
    <3>8. IsMove(x, E, old, after)
      BY <1>7, <1>13, <2>2, <3>1, <3>2 DEF IsMove
    <3>9. ASSUME NEW m \in Move, m.from = k, IsMove(m, E, old, after) PROVE m = x
      <4>1. m.to = to
        BY <1>7, <1>13, <2>2, <3>7, <3>9 DEF IsMove
      <4>. QED
        BY <3>2, <3>9, <4>1 DEF x, Move
    <3>10. \A m \in Move : m.from # k => (IsMove(m, E, old, after) <=> IsMove(m, D, old, after))
      BY <3>1 DEF IsMove
    <3>11. \A m \in Move : m \in ToSet(d.moves) <=> IsMove(m, E, old, after)
      BY <1>12, <3>2, <3>3, <3>5, <3>8, <3>9, <3>10
    <3>. QED
      BY <3>3, <3>6, <3>11
  <2>. QED
    BY <2>1, <2>2
<1>16. D \subseteq Positions(old) => E \subseteq Positions(old)
  BY <1>13 DEF DeletionsWith
<1>. HIDE DEF E, J
<1>17. Explains(d, old, after)
  BY <1>4, <1>8, <1>15 DEF Explains
<1>. QED
  BY <1>4, <1>7, <1>9, <1>16, <1>17 DEF d, after, mid, e

\* As many entries are kept as are not inserted.
LEMMA OldSize ==
    ASSUME NEW old, IsCollection(old), NEW new, IsCollection(new), NEW c, Explains(c, old, new),
           c.deletions \subseteq Positions(old)
    PROVE  Len(new) + Cardinality(c.deletions) - Cardinality(c.insertions) = Len(old)
<1> DEFINE D == c.deletions
           I == c.insertions
           A == Positions(new) \ I
           B == Positions(old) \ D
           f == [n \in A |-> OldIndex(D, I, n)]
<1>1. /\ D \in SUBSET Nat /\ IsFiniteSet(D) /\ I \in SUBSET Nat /\ IsFiniteSet(I)
      /\ Positions(old) \in SUBSET Nat /\ Positions(new) \in SUBSET Nat
  BY ExplainsSets
<1>2. /\ I \subseteq Positions(new)
      /\ \A n \in A : OldIndex(D, I, n) \in Positions(old) /\ At(old, OldIndex(D, I, n)) = At(new, n)
  BY DEF Explains, Matches
<1>3. \A n \in A : OldIndex(D, I, n) \in Nat \ D
  BY <1>1, OldIndexInverse
<1>4. \A i, j \in Positions(new) : At(new, i) = At(new, j) => i = j
  BY DistinctEntries DEF IsCollection
<1>5. ASSUME NEW k \in B PROVE \E n \in A : OldIndex(D, I, n) = k
  BY KeptEntry
<1>. HIDE DEF D, I
<1>6. f \in Bijection(A, B)
  <2>1. f \in [A -> B]
    BY <1>2, <1>3
  <2>2. \A n \in A : f[n] = OldIndex(D, I, n)
    OBVIOUS
  <2>. HIDE DEF f, A, B
  <2>3. \A i, j \in A : f[i] = f[j] => i = j
    BY <1>2, <1>4, <2>2 DEF A
  <2>4. \A k \in B : \E n \in A : f[n] = k
    BY <1>5, <2>2
  <2>5. f \in Injection(A, B)
    BY <2>1, <2>3, Zenon DEF Injection, IsInjective
  <2>6. f \in Surjection(A, B)
    BY <2>1, <2>4, Zenon DEF Surjection
  <2>. QED
    BY <2>5, <2>6 DEF Bijection
<1> DEFINE M == Len(old)
           N == Len(new)
<1>7. /\ Positions(old) = 0 .. M - 1 /\ Positions(new) = 0 .. N - 1 /\ M \in Nat /\ N \in Nat
  BY DEF Positions, IsCollection
<1>. HIDE DEF M, N, f
<1>8. IsFiniteSet(Positions(old)) /\ Cardinality(Positions(old)) = M
  BY <1>7, FS_Interval
<1>9. IsFiniteSet(Positions(new)) /\ Cardinality(Positions(new)) = N
  BY <1>7, FS_Interval
<1>10. IsFiniteSet(A) /\ Cardinality(A) = N - Cardinality(I)
  <2>1. Positions(new) \cap I = I
    BY <1>2
  <2>. QED
    BY <1>9, <2>1, FS_Difference
<1>11. Cardinality(B) = M - Cardinality(D)
  <2>1. Positions(old) \cap D = D
    BY DEF D
  <2>. QED
    BY <1>8, <2>1, FS_Difference
<1>. HIDE DEF A, B
<1>12. Cardinality(B) = Cardinality(A)
  <2>1. ExistsBijection(A, B)
    BY <1>6 DEF ExistsBijection
  <2>. QED
    BY <1>10, <2>1, FS_Bijection
<1>13. Cardinality(D) \in Nat /\ Cardinality(I) \in Nat
  BY <1>1, FS_CardinalityType
<1>14. N + Cardinality(D) - Cardinality(I) = M
  BY <1>7, <1>10, <1>11, <1>12, <1>13
<1>. QED
  BY <1>14 DEF M, N, D, I

\* Everything is deleted, and nothing is left to mark.
Cleared(N) == [NoChange EXCEPT !.deletions = 0 .. N - 1]

\* It explains a collection of any length to the empty one.
LEMMA ClearedExplains ==
    ASSUME NEW old, IsCollection(old), NEW N \in Nat, Positions(old) \subseteq 0 .. N - 1
    PROVE  LET d == Cleared(N)
           IN  /\ Explains(d, old, <<>>) /\ IsCollection(<<>>) /\ ToSet(<<>>) = {}
               /\ d.deletions = 0 .. N - 1 /\ d.insertions = {} /\ d.modifications = {}
               /\ d.moves = <<>> /\ d.mapping = <<>>
               /\ \A X, known : Marked(d.modifications, <<>>, X, known)
<1> DEFINE D == 0 .. N - 1
           d == Cleared(N)
<1>1. D \in SUBSET Nat /\ IsFiniteSet(D)
  <2>1. 0 \in Int /\ N - 1 \in Int
    OBVIOUS
  <2>. QED
    BY <2>1, FS_Interval
<1>. HIDE DEF D
<1>2. d = [deletions |-> D, insertions |-> {}, modifications |-> {},
           moves |-> <<>>, mapping |-> <<>>]
  <2> DEFINE none == {}
             empty == <<>>
  <2>1. NoChange = [deletions |-> none, insertions |-> none, modifications |-> none,
                    moves |-> empty, mapping |-> empty]
    BY DEF NoChange
  <2>2. d = [NoChange EXCEPT !.deletions = D]
    BY DEF Cleared, D
  <2>. HIDE DEF d, none, empty
  <2>3. d = [deletions |-> D, insertions |-> none, modifications |-> none,
             moves |-> empty, mapping |-> empty]
    BY <2>1, <2>2
  <2>. QED
    BY <2>3 DEF none, empty
<1>. HIDE DEF d
<1>3. /\ IsChanges(d) /\ d.deletions = D /\ d.insertions = {} /\ d.modifications = {}
      /\ d.moves = <<>> /\ d.mapping = <<>>
  BY <1>2 DEF IsChanges
<1>4. IsCollection(<<>>) /\ Positions(<<>>) = {} /\ ToSet(<<>>) = {}
  BY DEF IsCollection, IsInjective, Positions, ToSet
<1>5. Matches(D, {}, old, <<>>)
  BY <1>1, <1>4 DEF Matches, D
<1>6. <<>> \in Seq(Move) /\ DistinctFroms(<<>>) /\ \A m : ~IsMove(m, D, old, <<>>)
  BY <1>4 DEF DistinctFroms, IsMove
<1>7. Explains(d, old, <<>>)
  BY <1>3, <1>4, <1>5, <1>6 DEF Explains
<1>8. \A X, known : Marked({}, <<>>, X, known)
  BY <1>4 DEF Marked
<1>. QED
  BY <1>3, <1>4, <1>7, <1>8 DEF d, D

\* The change set after a list is cleared: its old entries are deleted.
LEMMA ListClear ==
    ASSUME NEW old, IsCollection(old), NEW new, IsCollection(new), NEW c, Explains(c, old, new),
           c.deletions \subseteq Positions(old), Len(new) # Unknown, NEW known, NEW X
    PROVE  LET d == clear(c, Len(new))
           IN  /\ Explains(d, old, <<>>)
               /\ d.deletions \subseteq Positions(old) /\ d.mapping = <<>>
               /\ Marked(d.modifications, <<>>, X, known)
<1> DEFINE d == clear(c, Len(new))
           M == Len(old)
<1>1. M \in Nat /\ Positions(old) = 0 .. M - 1
  BY DEF Positions, IsCollection
<1>2. d = Cleared(M)
  <2> DEFINE size == IF Len(new) = Unknown THEN Unknown
                     ELSE Len(new) + Cardinality(c.deletions) - Cardinality(c.insertions)
  <2>1. d = [NoChange EXCEPT !.deletions = 0 .. size - 1]
    BY DEF clear
  <2>2. size = M
    BY OldSize
  <2>. HIDE DEF size, d, M
  <2>. QED
    BY <2>1, <2>2 DEF Cleared
<1>. HIDE DEF d, M
<1>3. /\ Explains(d, old, <<>>) /\ d.deletions = 0 .. M - 1 /\ d.mapping = <<>>
      /\ Marked(d.modifications, <<>>, X, known)
  BY <1>1, <1>2, ClearedExplains
<1>. QED
  BY <1>1, <1>3 DEF d

----------------------------------------------------------------------------
(* Instructions on a table whose moves are tracked *)

\* The mapping has the row n when it was some old row, and that one.
MapsRow(mapping, n, old, new) ==
    IF At(new, n) \in ToSet(old)
    THEN n \in DOMAIN mapping /\ mapping[n] \in Positions(old) /\ At(old, mapping[n]) = At(new, n)
    ELSE n \notin DOMAIN mapping

\* Between two instructions a row that is not inserted is where it was, and a
\* row whose place is gone or taken is deleted.
KeepsRows(D, I, old, new) ==
    /\ D \in SUBSET Nat /\ IsFiniteSet(D) /\ I \in SUBSET Positions(new)
    /\ \A n \in Positions(new) \ I : n \in Positions(old) \ D
    /\ \A n \in Positions(old) : n \notin Positions(new) \/ n \in I => n \in D

\* It is the old one.
SameRows(I, old, new) == \A n \in Positions(new) \ I : At(old, n) = At(new, n)

\* The inserted rows that were there before are mapped to where they were.
MapsRows(mapping, I, old, new) ==
    DOMAIN mapping \subseteq I /\ \A n \in I : MapsRow(mapping, n, old, new)

\* The change set of a table explains, while its log is read, how the old rows
\* became the new ones: by the mapping, as the moves are made of it at the end.
TableExplains(c, old, new) ==
    /\ IsChanges(c) /\ c.moves = <<>>
    /\ KeepsRows(c.deletions, c.insertions, old, new)
    /\ SameRows(c.insertions, old, new)
    /\ MapsRows(c.mapping, c.insertions, old, new)

\* A row before which as many are deleted as are inserted is where it was.
LEMMA SameBelow ==
    ASSUME NEW D \in SUBSET Nat, IsFiniteSet(D), NEW I \in SUBSET Nat, NEW n \in Nat \ D,
           \A x \in Nat : x < n => (x \in D <=> x \in I)
    PROVE  /\ Ix!ShiftIndex(D, Ix!UnshiftIndex(I, n)) = n
           /\ Ix!AddShifted(D, Ix!UnshiftIndex(I, n)) = D \cup {n}
<1>1. Free(D, n) = Free(I, n)
  BY DEF Free
<1>2. Ix!UnshiftIndex(D, n) = Ix!UnshiftIndex(I, n)
  <2>1. Ix!UnshiftIndex(D, n) = Cardinality(Free(D, n))
    BY Unshift
  <2>2. Ix!UnshiftIndex(I, n) = Cardinality(Free(I, n))
    BY Unshift
  <2>. QED
    BY <1>1, <2>1, <2>2
<1>3. Ix!ShiftIndex(D, Ix!UnshiftIndex(I, n)) = n
  BY <1>2, ShiftUnshift
<1>. QED
  BY <1>3 DEF Ix!AddShifted

\* So are the rows of a table.
LEMMA RowStays ==
    ASSUME NEW old \in Seq(Elements), NEW new \in Seq(Elements), NEW D, NEW I,
           KeepsRows(D, I, old, new), NEW n \in Positions(new) \ I
    PROVE  /\ \A x \in Nat : x < n => (x \in D <=> x \in I)
           /\ Ix!ShiftIndex(D, Ix!UnshiftIndex(I, n)) = n
           /\ Ix!AddShifted(D, Ix!UnshiftIndex(I, n)) = D \cup {n}
<1>1. Positions(new) \in SUBSET Nat /\ \A x \in Nat : x \in Positions(new) <=> x < Len(new)
  BY PositionsOf
<1>2. Positions(old) \in SUBSET Nat /\ \A x \in Nat : x \in Positions(old) <=> x < Len(old)
  BY PositionsOf
<1>3. D \in SUBSET Nat /\ IsFiniteSet(D) /\ I \in SUBSET Nat /\ n \in Nat \ D /\ n \in Positions(old)
  BY <1>1 DEF KeepsRows
<1>4. ASSUME NEW x \in Nat, x < n PROVE x \in D <=> x \in I
  <2>1. Len(new) \in Nat /\ Len(old) \in Nat
    OBVIOUS
  <2>2. x \in Positions(new) /\ x \in Positions(old)
    BY <1>1, <1>2, <1>3, <1>4, <2>1
  <2>. QED
    BY <2>2 DEF KeepsRows
<1>. QED
  BY <1>3, <1>4, SameBelow, ZenonT(60)

\* A function with another value or without one.
LEMMA ValueOfWith ==
    ASSUME NEW f, NEW x, NEW v
    PROVE  /\ DOMAIN With(f, x, v) = DOMAIN f \cup {x}
           /\ With(f, x, v)[x] = v
           /\ \A y \in DOMAIN f : y # x => With(f, x, v)[y] = f[y]
  BY DEF With

\* A function without a value.
LEMMA ValueOfWithout ==
    ASSUME NEW f, NEW x
    PROVE  /\ DOMAIN Without(f, x) = DOMAIN f \ {x}
           /\ \A y \in DOMAIN f \ {x} : Without(f, x)[y] = f[y]
  BY DEF Without

\* The rows after the last one takes the place of another one.
IsMovedOver(t, s, row) ==
    /\ t \in Seq(Elements) /\ Len(t) = Len(s) - 1
    /\ \A n \in Nat : n \in Positions(t) <=> n \in Positions(s) /\ n # Len(s) - 1
    /\ \A n \in Positions(t) : At(t, n) = IF n = row THEN At(s, Len(s) - 1) ELSE At(s, n)

\* MovedOver puts the last row there.
LEMMA RowMovedOver ==
    ASSUME NEW s \in Seq(Elements), NEW row \in Positions(s)
    PROVE  IsMovedOver(MovedOver(s, row), s, row)
<1> DEFINE N == Len(s)
           u == [s EXCEPT ![row + 1] = Last(s)]
           t == SubSeq(u, 1, N - 1)
<1>1. N \in Nat /\ row \in Nat /\ row < N /\ DOMAIN s = 1 .. N
  BY DEF Positions
<1>2. Last(s) = s[N] /\ N \in 1 .. N /\ s[N] \in Elements
  <2>1. Last(s) = s[N]
    BY DEF Last
  <2>2. N \in 1 .. N
    <3>. HIDE DEF N
    <3>. QED
      BY <1>1
  <2>. QED
    BY <1>1, <2>1, <2>2
<1>3. /\ u \in Seq(Elements) /\ Len(u) = N
      /\ \A i \in 1 .. N : u[i] = IF i = row + 1 THEN s[N] ELSE s[i]
  BY <1>1, <1>2
<1>4. MovedOver(s, row) = t
  BY DEF MovedOver
<1>. HIDE DEF u, N
<1>5. /\ t \in Seq(Elements) /\ Len(t) = N - 1
      /\ \A i \in 1 .. N - 1 : t[i] = u[i]
  <2>1. N - 1 \in Nat /\ N - 1 <= Len(u)
    BY <1>1, <1>3
  <2>. QED
    BY <1>1, <1>3, <2>1
<1>. HIDE DEF t
<1>6. Positions(t) = 0 .. N - 2 /\ Positions(s) = 0 .. N - 1
  BY <1>1, <1>5 DEF Positions, N
<1>7. \A n \in Nat : n \in Positions(t) <=> n \in Positions(s) /\ n # N - 1
  BY <1>1, <1>6
<1>8. ASSUME NEW n \in Positions(t)
      PROVE  At(t, n) = IF n = row THEN At(s, N - 1) ELSE At(s, n)
  <2>1. n + 1 \in 1 .. N - 1 /\ n + 1 \in 1 .. N /\ (n + 1 = row + 1 <=> n = row) /\ (N - 1) + 1 = N
    BY <1>1, <1>6
  <2>2. At(t, n) = IF n = row THEN s[N] ELSE s[n + 1]
    BY <1>3, <1>5, <2>1 DEF At
  <2>. QED
    BY <2>1, <2>2 DEF At
<1>. QED
  BY <1>4, <1>5, <1>7, <1>8 DEF N, IsMovedOver

\* They are a collection when the others are distinct.
LEMMA CollectionMovedOver ==
    ASSUME NEW s \in Seq(Elements), NEW row \in Positions(s),
           \A i, j \in Positions(s) \ {row} : At(s, i) = At(s, j) => i = j
    PROVE  LET t == MovedOver(s, row)
           IN  IsCollection(t) /\ ToSet(t) = {At(s, n) : n \in Positions(s) \ {row}}
<1> DEFINE t == MovedOver(s, row)
           last == Len(s) - 1
           from(n) == IF n = row THEN last ELSE n
<1>1. Positions(s) \in SUBSET Nat /\ row \in Nat /\ last \in Positions(s)
  <2>1. Len(s) \in Nat
    OBVIOUS
  <2>2. Positions(s) = 0 .. Len(s) - 1
    BY DEF Positions
  <2>. QED
    BY <2>1, <2>2
<1>2. /\ t \in Seq(Elements)
      /\ \A n \in Nat : n \in Positions(t) <=> n \in Positions(s) /\ n # last
      /\ \A n \in Positions(t) : At(t, n) = At(s, from(n))
  <2>1. IsMovedOver(t, s, row)
    BY RowMovedOver
  <2>. QED
    BY <2>1 DEF IsMovedOver
<1>3. Positions(t) \in SUBSET Nat /\ ToSet(t) = {At(t, n) : n \in Positions(t)}
  BY <1>2, PositionsOf
<1>. HIDE DEF t, last
<1>4. \A n \in Positions(t) : from(n) \in Positions(s) \ {row}
  BY <1>1, <1>2, <1>3
<1>5. \A i, j \in Positions(t) : from(i) = from(j) => i = j
  BY <1>1, <1>2, <1>3
<1>6. IsInjective(t)
  <2>1. \A i, j \in Positions(t) : At(t, i) = At(t, j) => i = j
    <3>. HIDE DEF from
    <3>. QED
      BY <1>2, <1>4, <1>5
  <2>. QED
    BY <1>2, <2>1, DistinctEntries
<1>7. \A x \in Positions(s) \ {row} : \E n \in Positions(t) : from(n) = x
  <2> TAKE x \in Positions(s) \ {row}
  <2>1. x \in Nat
    BY <1>1
  <2>2. CASE x = last
    <3>1. row # last /\ row \in Positions(t) /\ from(row) = x
      BY <1>1, <1>2, <2>2
    <3>. QED
      BY <3>1
  <2>3. CASE x # last
    BY <1>2, <2>1, <2>3
  <2>. QED
    BY <2>2, <2>3
<1>8. ToSet(t) = {At(s, n) : n \in Positions(s) \ {row}}
  <2>. HIDE DEF from
  <2>. QED
    BY <1>2, <1>3, <1>4, <1>7
<1>. QED
  BY <1>2, <1>6, <1>8 DEF t, IsCollection

\* MoveLast: what becomes of the sets and of the mapping.
LastMoved(d, c, row, last) ==
    /\ IsChanges(d) /\ d.modifications = c.modifications /\ d.moves = c.moves
    /\ d.insertions = c.insertions \ {last}
    /\ d.deletions = IF last \in c.insertions THEN c.deletions ELSE c.deletions \cup {last}
    /\ d.mapping = IF last \in DOMAIN c.mapping
                   THEN With(Without(c.mapping, last), row, c.mapping[last])
                   ELSE IF last \in c.insertions THEN Without(c.mapping, row)
                   ELSE With(Without(c.mapping, row), row, last)

\* MoveLast does that.
LEMMA MoveLastIs ==
    ASSUME NEW old \in Seq(Elements), NEW new \in Seq(Elements), NEW c, IsChanges(c),
           KeepsRows(c.deletions, c.insertions, old, new), DOMAIN c.mapping \subseteq c.insertions,
           NEW row, NEW last \in Positions(new)
    PROVE  LastMoved(MoveLast(c, row, last), c, row, last)
<1> DEFINE d == MoveLast(c, row, last)
           D == c.deletions
           I == c.insertions
           m == c.mapping
<1>1. c = [deletions |-> D, insertions |-> I, modifications |-> c.modifications,
           moves |-> c.moves, mapping |-> m]
  BY DEF IsChanges
<1>2. CASE last \in DOMAIN m
  <2> DEFINE w == With(Without(m, last), row, m[last])
             J == I \ {last}
  <2>1. d = [c EXCEPT !.insertions = J, !.mapping = w]
    BY <1>2 DEF MoveLast
  <2>2. last \in I
    BY <1>2
  <2>. HIDE DEF d, D, I, m, w, J
  <2> DEFINE b == [c EXCEPT !.insertions = J]
  <2>3. d = [deletions |-> D, insertions |-> J, modifications |-> c.modifications,
             moves |-> c.moves, mapping |-> w]
    <3>1. b = [deletions |-> D, insertions |-> J, modifications |-> c.modifications,
               moves |-> c.moves, mapping |-> m]
      BY <1>1
    <3>2. d = [b EXCEPT !.mapping = w]
      BY <2>1
    <3>. HIDE DEF b
    <3>. QED
      BY <3>1, <3>2
  <2>4. IsChanges(d) /\ d.deletions = D /\ d.insertions = J /\ d.modifications = c.modifications
        /\ d.moves = c.moves /\ d.mapping = w
    BY <2>3 DEF IsChanges
  <2>. QED
    BY <1>2, <2>2, <2>4 DEF LastMoved, d, D, I, m, w, J
<1>3. CASE last \notin DOMAIN m /\ last \in I
  <2> DEFINE w == Without(m, row)
             J == I \ {last}
  <2>1. d = [c EXCEPT !.insertions = J, !.mapping = w]
    BY <1>3 DEF MoveLast
  <2>. HIDE DEF d, D, I, m, w, J
  <2> DEFINE b == [c EXCEPT !.insertions = J]
  <2>3. d = [deletions |-> D, insertions |-> J, modifications |-> c.modifications,
             moves |-> c.moves, mapping |-> w]
    <3>1. b = [deletions |-> D, insertions |-> J, modifications |-> c.modifications,
               moves |-> c.moves, mapping |-> m]
      BY <1>1
    <3>2. d = [b EXCEPT !.mapping = w]
      BY <2>1
    <3>. HIDE DEF b
    <3>. QED
      BY <3>1, <3>2
  <2>4. IsChanges(d) /\ d.deletions = D /\ d.insertions = J /\ d.modifications = c.modifications
        /\ d.moves = c.moves /\ d.mapping = w
    BY <2>3 DEF IsChanges
  <2>. QED
    BY <1>3, <2>4 DEF LastMoved, d, D, I, m, w, J
<1>4. CASE last \notin DOMAIN m /\ last \notin I
  <2> DEFINE w == Without(m, row)
             v == With(w, row, last)
             b == [c EXCEPT !.mapping = w]
             a == AddDeletion(b, last)
             E == D \cup {last}
  <2>1. d = [a EXCEPT !.mapping = With(@, row, OldRow(c, last))]
    BY <1>4 DEF MoveLast
  <2>2. OldRow(c, last) = last /\ Ix!AddShifted(D, Ix!UnshiftIndex(I, last)) = E
    BY <1>4, RowStays DEF OldRow
  <2>3. a = [b EXCEPT !.deletions = Ix!AddShifted(@, Ix!UnshiftIndex(b.insertions, last))]
    BY DEF AddDeletion
  <2>. HIDE DEF d, D, I, m, w, a, b, E
  <2>4. b = [deletions |-> D, insertions |-> I, modifications |-> c.modifications,
             moves |-> c.moves, mapping |-> w]
    BY <1>1 DEF b
  <2>5. a = [deletions |-> E, insertions |-> I, modifications |-> c.modifications,
             moves |-> c.moves, mapping |-> w]
    <3>1. b.deletions = D /\ b.insertions = I
      BY <2>4
    <3>2. a = [b EXCEPT !.deletions = E]
      BY <2>2, <2>3, <3>1
    <3>. QED
      BY <2>4, <3>2
  <2>6. d = [deletions |-> E, insertions |-> I, modifications |-> c.modifications,
             moves |-> c.moves, mapping |-> v]
    <3>. HIDE DEF v
    <3>1. d = [a EXCEPT !.mapping = v]
      <4>1. a.mapping = w
        BY <2>5
      <4>. QED
        BY <2>1, <2>2, <4>1 DEF v
    <3>. QED
      BY <2>5, <3>1
  <2>. HIDE DEF v
  <2>7. IsChanges(d) /\ d.deletions = E /\ d.insertions = I /\ d.modifications = c.modifications
        /\ d.moves = c.moves /\ d.mapping = v
    BY <2>6 DEF IsChanges
  <2>8. I = I \ {last}
    BY <1>4
  <2>. QED
    BY <1>4, <2>7, <2>8 DEF LastMoved, d, D, I, m, w, v, E
<1>. QED
  BY <1>2, <1>3, <1>4

\* The mapping after the last row takes the place of another one.
MappingMovedOver(c, row, last) ==
    IF row = last THEN Without(c.mapping, last)
    ELSE IF last \in DOMAIN c.mapping
    THEN With(Without(c.mapping, last), row, c.mapping[last])
    ELSE IF last \in c.insertions THEN Without(c.mapping, row)
    ELSE With(Without(c.mapping, row), row, last)

\* move_over: what becomes of the sets.
IsMoveOver(d, c, row, last) ==
    /\ IsChanges(d) /\ d.moves = c.moves
    /\ d.modifications = IF row = last THEN c.modifications \ {last}
                         ELSE Carried(c.modifications, last, row)
    /\ d.deletions = c.deletions \cup ({row, last} \ c.insertions)
    /\ d.insertions = (c.insertions \cup {row}) \ {last}
    /\ d.mapping = MappingMovedOver(c, row, last)

\* move_over does that.
LEMMA MoveOverIs ==
    ASSUME NEW old \in Seq(Elements), NEW new \in Seq(Elements), NEW c, IsChanges(c),
           KeepsRows(c.deletions, c.insertions, old, new), DOMAIN c.mapping \subseteq c.insertions,
           NEW row \in Positions(new)
    PROVE  IsMoveOver(move_over(c, row, Len(new) - 1, TRUE), c, row, Len(new) - 1)
<1> DEFINE last == Len(new) - 1
           d == move_over(c, row, last, TRUE)
           D == c.deletions
           I == c.insertions
           m == c.mapping
           M == c.modifications
<1>1. /\ Positions(new) = 0 .. last /\ Positions(new) \in SUBSET Nat /\ last \in Nat
      /\ last \in Positions(new) /\ row \in Nat /\ row <= last
  <2>1. Len(new) \in Nat /\ Positions(new) = 0 .. Len(new) - 1
    BY DEF Positions
  <2>. QED
    BY <2>1
<1>2. c = [deletions |-> D, insertions |-> I, modifications |-> M, moves |-> c.moves, mapping |-> m]
  BY DEF IsChanges
<1>3. I \in SUBSET Nat /\ \A n \in I : n <= last
  BY <1>1 DEF KeepsRows
<1>. HIDE DEF last
<1>4. CASE row = last
  <2> DEFINE b == DeleteRow(c, last)
             e == [b EXCEPT !.mapping = Without(@, last)]
             M2 == M \ {last}
             m2 == Without(m, last)
             D2 == D \cup ({row, last} \ I)
             I2 == (I \cup {row}) \ {last}
  <2>1. d = [e EXCEPT !.modifications = @ \ {last}]
    BY <1>4 DEF move_over, EraseLast
  <2>2. IsChanges(b) /\ b.deletions = DeletionsWith(D, I, last) /\ b.insertions = Ix!EraseAt(I, last)
        /\ b.modifications = M /\ b.moves = c.moves /\ b.mapping = m
    BY RowDeleted
  <2>3. DeletionsWith(D, I, last) = D2
    <3>1. CASE last \in I
      BY <1>4, <3>1 DEF DeletionsWith
    <3>2. CASE last \notin I
      <4>1. OldIndex(D, I, last) = last
        BY <1>1, <3>2, RowStays DEF OldIndex
      <4>. QED
        BY <1>4, <3>2, <4>1 DEF DeletionsWith
    <3>. QED
      BY <3>1, <3>2
  <2>4. Ix!EraseAt(I, last) = I2
    <3>1. /\ Ix!EraseAt(I, last) \in SUBSET Nat
          /\ \A n \in Nat : n \in Ix!EraseAt(I, last) <=>
                (n < last /\ n \in I) \/ (n >= last /\ n + 1 \in I)
      BY <1>1, <1>3, InErased
    <3>2. \A n \in Nat : n \in I2 <=> n < last /\ n \in I
      BY <1>1, <1>3, <1>4
    <3>3. \A n \in Nat : ~(n >= last /\ n + 1 \in I)
      BY <1>1, <1>3
    <3>4. I2 \in SUBSET Nat
      BY <1>1, <1>3
    <3>. HIDE DEF I2
    <3>. QED
      BY <3>1, <3>2, <3>3, <3>4
  <2>. HIDE DEF b, D, I, M, m, M2, m2, D2, I2, d
  <2>5. b = [deletions |-> D2, insertions |-> I2, modifications |-> M, moves |-> c.moves, mapping |-> m]
    BY <2>2, <2>3, <2>4 DEF IsChanges
  <2>6. e = [deletions |-> D2, insertions |-> I2, modifications |-> M, moves |-> c.moves, mapping |-> m2]
    BY <2>2, <2>5 DEF m2
  <2>. HIDE DEF e
  <2>7. d = [deletions |-> D2, insertions |-> I2, modifications |-> M2, moves |-> c.moves, mapping |-> m2]
    BY <2>1, <2>6 DEF M2
  <2>8. IsChanges(d) /\ d.deletions = D2 /\ d.insertions = I2 /\ d.modifications = M2
        /\ d.moves = c.moves /\ d.mapping = m2
    BY <2>7 DEF IsChanges
  <2>9. IsMoveOver(d, c, row, last)
    BY <1>4, <2>8 DEF IsMoveOver, MappingMovedOver, D2, I2, M2, m2, D, I, M, m
  <2>. QED
    BY <2>9 DEF d, last
<1>5. CASE row # last
  <2> DEFINE M2 == Carried(M, last, row)
             b == [c EXCEPT !.modifications = Carried(@, last, row)]
             e == MoveLast(b, row, last)
             D2 == IF last \in I THEN D ELSE D \cup {last}
             I2 == I \ {last}
             m2 == MappingMovedOver(c, row, last)
  <2>1. d = IF row \in I THEN e ELSE [AddDeletion(e, row) EXCEPT !.insertions = @ \cup {row}]
    BY <1>5 DEF move_over
  <2>. HIDE DEF D, I, M, m, M2, d
  <2>2. b = [deletions |-> D, insertions |-> I, modifications |-> M2, moves |-> c.moves, mapping |-> m]
    BY <1>2 DEF M2
  <2>. HIDE DEF b
  <2>3. IsChanges(b) /\ b.deletions = D /\ b.insertions = I /\ b.modifications = M2
        /\ b.moves = c.moves /\ b.mapping = m
    BY <2>2 DEF IsChanges
  <2>4. LastMoved(e, b, row, last)
    <3>1. KeepsRows(b.deletions, b.insertions, old, new) /\ DOMAIN b.mapping \subseteq b.insertions
      BY <2>3 DEF D, I, m
    <3>. QED
      BY <1>1, <2>3, <3>1, MoveLastIs
  <2>. HIDE DEF e, D2, I2, m2
  <2>5. IsChanges(e) /\ e.deletions = D2 /\ e.insertions = I2 /\ e.modifications = M2
        /\ e.moves = c.moves /\ e.mapping = m2
    BY <1>5, <2>3, <2>4 DEF LastMoved, D2, I2, m2, MappingMovedOver, m, I
  <2>6. CASE row \in I
    <3>1. d = e
      BY <2>1, <2>6
    <3>2. D2 = D \cup ({row, last} \ I) /\ I2 = (I \cup {row}) \ {last}
      BY <1>5, <2>6 DEF D2, I2
    <3>3. IsMoveOver(d, c, row, last)
      BY <1>5, <2>5, <3>1, <3>2 DEF IsMoveOver, m2, M2, D, I, M
    <3>. QED
      BY <3>3 DEF d, last
  <2>7. CASE row \notin I
    <3> DEFINE a == AddDeletion(e, row)
               D3 == D2 \cup {row}
               I3 == I2 \cup {row}
    <3>1. d = [a EXCEPT !.insertions = @ \cup {row}]
      BY <2>1, <2>7
    <3>2. a = [e EXCEPT !.deletions = Ix!AddShifted(@, Ix!UnshiftIndex(e.insertions, row))]
      BY DEF AddDeletion
    <3>3. Ix!AddShifted(D2, Ix!UnshiftIndex(I2, row)) = D3
      <4>1. D \in SUBSET Nat /\ IsFiniteSet(D) /\ row \notin D
        BY <2>7 DEF KeepsRows, D, I
      <4>2. \A x \in Nat : x < row => (x \in D <=> x \in I)
        BY <2>7, RowStays DEF D, I
      <4>3. D2 \in SUBSET Nat /\ IsFiniteSet(D2) /\ row \in Nat \ D2
        <5>1. IsFiniteSet(D \cup {last})
          BY <4>1, FS_AddElement
        <5>. QED
          BY <1>1, <1>5, <4>1, <5>1 DEF D2
      <4>4. I2 \in SUBSET Nat
        BY <1>3 DEF I2, I
      <4>5. \A x \in Nat : x < row => (x \in D2 <=> x \in I2)
        BY <1>1, <4>2 DEF D2, I2
      <4>. QED
        BY <4>3, <4>4, <4>5, SameBelow
    <3>. HIDE DEF a, D3, I3
    <3>4. e = [deletions |-> D2, insertions |-> I2, modifications |-> M2, moves |-> c.moves, mapping |-> m2]
      BY <2>5 DEF IsChanges
    <3>5. a = [deletions |-> D3, insertions |-> I2, modifications |-> M2, moves |-> c.moves, mapping |-> m2]
      <4>1. a = [e EXCEPT !.deletions = D3]
        BY <2>5, <3>2, <3>3
      <4>. QED
        BY <3>4, <4>1
    <3>6. d = [deletions |-> D3, insertions |-> I3, modifications |-> M2, moves |-> c.moves, mapping |-> m2]
      BY <3>1, <3>5 DEF I3
    <3>7. IsChanges(d) /\ d.deletions = D3 /\ d.insertions = I3 /\ d.modifications = M2
          /\ d.moves = c.moves /\ d.mapping = m2
      BY <3>6 DEF IsChanges
    <3>8. D3 = D \cup ({row, last} \ I) /\ I3 = (I \cup {row}) \ {last}
      BY <1>5, <2>7 DEF D2, I2, D3, I3
    <3>9. IsMoveOver(d, c, row, last)
      BY <1>5, <3>7, <3>8 DEF IsMoveOver, m2, M2, D, I, M
    <3>. QED
      BY <3>9 DEF d, last
  <2>. QED
    BY <2>6, <2>7
<1>. QED
  BY <1>4, <1>5

\* The change set after the last row takes the place of row.  What it says of
\* row itself need not be right before.
LEMMA TableMoveOver ==
    ASSUME NEW old \in Seq(Elements), NEW new \in Seq(Elements), NEW c, IsChanges(c),
           c.moves = <<>>, KeepsRows(c.deletions, c.insertions, old, new),
           NEW row \in Positions(new),
           \A n \in Positions(new) \ c.insertions : n # row => At(old, n) = At(new, n),
           DOMAIN c.mapping \subseteq c.insertions,
           \A n \in c.insertions \ {row} : MapsRow(c.mapping, n, old, new)
    PROVE  TableExplains(move_over(c, row, Len(new) - 1, TRUE), old, MovedOver(new, row))
<1> DEFINE last == Len(new) - 1
           d == move_over(c, row, last, TRUE)
           after == MovedOver(new, row)
           D == c.deletions
           I == c.insertions
           m == c.mapping
           D2 == D \cup ({row, last} \ I)
           I2 == (I \cup {row}) \ {last}
           m2 == MappingMovedOver(c, row, last)
<1>1. /\ Positions(new) = 0 .. last /\ Positions(new) \in SUBSET Nat /\ last \in Nat
      /\ last \in Positions(new) /\ row \in Nat
  <2>1. Len(new) \in Nat /\ Positions(new) = 0 .. Len(new) - 1
    BY DEF Positions
  <2>. QED
    BY <2>1
<1>2. IsChanges(d) /\ d.moves = <<>> /\ d.deletions = D2 /\ d.insertions = I2 /\ d.mapping = m2
  <2>1. IsMoveOver(d, c, row, last)
    BY MoveOverIs
  <2>. QED
    BY <2>1 DEF IsMoveOver
<1>3. /\ after \in Seq(Elements)
      /\ \A n \in Nat : n \in Positions(after) <=> n \in Positions(new) /\ n # last
      /\ \A n \in Positions(after) : At(after, n) = IF n = row THEN At(new, last) ELSE At(new, n)
  <2>1. IsMovedOver(after, new, row)
    BY RowMovedOver
  <2>. QED
    BY <2>1 DEF IsMovedOver
<1>4. Positions(after) \in SUBSET Nat
  BY <1>3, PositionsOf
<1>5. Positions(old) \in SUBSET Nat
  BY PositionsOf
<1>. HIDE DEF last, after
<1>6. /\ D \in SUBSET Nat /\ IsFiniteSet(D) /\ I \in SUBSET Positions(new)
      /\ \A n \in Positions(new) \ I : n \in Positions(old) \ D
      /\ \A n \in Positions(old) : n \notin Positions(new) \/ n \in I => n \in D
  BY DEF KeepsRows
<1>7. D2 \in SUBSET Nat /\ IsFiniteSet(D2)
  <2>1. IsFiniteSet({row, last})
    <3>1. IsFiniteSet({row})
      BY FS_Singleton
    <3>2. IsFiniteSet({row} \cup {last})
      BY <3>1, FS_AddElement
    <3>3. {row} \cup {last} = {row, last}
      OBVIOUS
    <3>. QED
      BY <3>2, <3>3
  <2>2. IsFiniteSet({row, last} \ I)
    BY <2>1, FS_Difference
  <2>3. IsFiniteSet(D2)
    BY <1>6, <2>2, FS_Union
  <2>. QED
    BY <1>1, <1>6, <2>3
<1>8. I2 \in SUBSET Positions(after)
  BY <1>1, <1>3, <1>6
<1>9. \A n \in Positions(after) \ I2 : n \in Positions(new) \ I /\ n # row /\ n # last
  BY <1>3, <1>4
<1>10. \A n \in Positions(after) \ I2 : n \in Positions(old) \ D2
  BY <1>6, <1>9
<1>11. \A n \in Positions(old) : n \notin Positions(after) \/ n \in I2 => n \in D2
  BY <1>3, <1>5, <1>6
<1>12. \A n \in Positions(after) \ I2 : At(old, n) = At(after, n)
  BY <1>3, <1>9
<1>13. DOMAIN m2 \subseteq I2 /\ \A n \in I2 : MapsRow(m2, n, old, after)
  <2>1. \A n \in I2 : n # row => n \in I /\ At(after, n) = At(new, n)
    BY <1>3, <1>8
  <2>2. ASSUME row # last PROVE row \in Positions(after) /\ At(after, row) = At(new, last)
    BY <1>1, <1>3, <2>2
  <2>3. ASSUME NEW n \in I2, n # row, n \in DOMAIN m2 <=> n \in DOMAIN m,
               n \in DOMAIN m => m2[n] = m[n]
        PROVE  MapsRow(m2, n, old, after)
    <3>. HIDE DEF m2
    <3>1. MapsRow(m, n, old, new)
      BY <2>1, <2>3
    <3>. QED
      BY <2>1, <2>3, <3>1 DEF MapsRow
  <2>4. CASE row = last
    <3>1. m2 = Without(m, last)
      BY <2>4 DEF MappingMovedOver
    <3>. HIDE DEF m2
    <3>2. DOMAIN m2 = DOMAIN m \ {last} /\ \A n \in DOMAIN m \ {last} : m2[n] = m[n]
      BY <3>1, ValueOfWithout
    <3>3. \A n \in I2 : n # row /\ n # last
      BY <2>4
    <3>4. DOMAIN m2 \subseteq I2
      BY <2>4, <3>2
    <3>. QED
      BY <2>3, <3>2, <3>3, <3>4
  <2>5. CASE row # last /\ last \in DOMAIN m
    <3> DEFINE w == Without(m, last)
    <3>1. m2 = With(w, row, m[last])
      BY <2>5 DEF MappingMovedOver
    <3>2. DOMAIN w = DOMAIN m \ {last} /\ \A n \in DOMAIN m \ {last} : w[n] = m[n]
      BY ValueOfWithout
    <3>. HIDE DEF m2, w
    <3>3. DOMAIN m2 = DOMAIN w \cup {row} /\ m2[row] = m[last]
          /\ \A n \in DOMAIN w : n # row => m2[n] = w[n]
      <4> DEFINE v == m[last]
      <4>. HIDE DEF v
      <4>1. /\ DOMAIN With(w, row, v) = DOMAIN w \cup {row}
            /\ With(w, row, v)[row] = v
            /\ \A y \in DOMAIN w : y # row => With(w, row, v)[y] = w[y]
        BY DEF With
      <4>. QED
        BY <3>1, <4>1 DEF v
    <3>4. DOMAIN m2 \subseteq I2
      BY <2>5, <3>2, <3>3
    <3>5. MapsRow(m2, row, old, after)
      <4>1. MapsRow(m, last, old, new)
        BY <2>5
      <4>. QED
        BY <2>2, <2>5, <3>3, <4>1 DEF MapsRow
    <3>6. ASSUME NEW n \in I2, n # row PROVE MapsRow(m2, n, old, after)
      BY <2>3, <3>2, <3>3, <3>6
    <3>. QED
      BY <3>4, <3>5, <3>6
  <2>6. CASE row # last /\ last \notin DOMAIN m /\ last \in I
    <3>1. m2 = Without(m, row)
      BY <2>6 DEF MappingMovedOver
    <3>. HIDE DEF m2
    <3>2. DOMAIN m2 = DOMAIN m \ {row} /\ \A n \in DOMAIN m \ {row} : m2[n] = m[n]
      BY <3>1, ValueOfWithout
    <3>3. DOMAIN m2 \subseteq I2
      BY <2>6, <3>2
    <3>4. MapsRow(m2, row, old, after)
      <4>1. MapsRow(m, last, old, new)
        BY <2>6
      <4>. QED
        BY <2>2, <2>6, <3>2, <4>1 DEF MapsRow
    <3>5. ASSUME NEW n \in I2, n # row PROVE MapsRow(m2, n, old, after)
      BY <2>3, <3>2, <3>5
    <3>. QED
      BY <3>3, <3>4, <3>5
  <2>7. CASE row # last /\ last \notin I
    <3> DEFINE w == Without(m, row)
    <3>1. m2 = With(w, row, last)
      BY <2>7 DEF MappingMovedOver
    <3>2. DOMAIN w = DOMAIN m \ {row} /\ \A n \in DOMAIN m \ {row} : w[n] = m[n]
      BY ValueOfWithout
    <3>. HIDE DEF m2, w
    <3>3. DOMAIN m2 = DOMAIN w \cup {row} /\ m2[row] = last
          /\ \A n \in DOMAIN w : n # row => m2[n] = w[n]
      <4> DEFINE v == last
      <4>. HIDE DEF v
      <4>1. /\ DOMAIN With(w, row, v) = DOMAIN w \cup {row}
            /\ With(w, row, v)[row] = v
            /\ \A y \in DOMAIN w : y # row => With(w, row, v)[y] = w[y]
        BY DEF With
      <4>. QED
        BY <3>1, <4>1 DEF v
    <3>4. DOMAIN m2 \subseteq I2
      BY <2>7, <3>2, <3>3
    <3>5. MapsRow(m2, row, old, after)
      <4>1. last \in Positions(old) /\ At(old, last) = At(new, last)
        BY <1>1, <1>6, <2>7
      <4>2. At(old, last) \in ToSet(old)
        BY <4>1, PositionsOf
      <4>. QED
        BY <2>2, <2>7, <3>3, <4>1, <4>2 DEF MapsRow
    <3>6. ASSUME NEW n \in I2, n # row PROVE MapsRow(m2, n, old, after)
      BY <2>3, <3>2, <3>3, <3>6
    <3>. QED
      BY <3>4, <3>5, <3>6
  <2>. QED
    BY <2>4, <2>5, <2>6, <2>7
<1>. HIDE DEF d, D2, I2, m2
<1>14. TableExplains(d, old, after)
  BY <1>2, <1>7, <1>8, <1>10, <1>11, <1>12, <1>13 DEF TableExplains, KeepsRows, SameRows, MapsRows
<1>. QED
  BY <1>14 DEF d, after, last

\* The marks after the last row takes the place of row, whose own mark need
\* not be right before.
LEMMA MarksMovedOver ==
    ASSUME NEW new \in Seq(Elements), NEW M, M \subseteq Positions(new), NEW row \in Positions(new),
           NEW known, NEW X,
           \A n \in Positions(new) \ {row} : At(new, n) \in ToSet(known) => (n \in M <=> At(new, n) \in X)
    PROVE  LET last == Len(new) - 1
           IN  Marked(IF row = last THEN M \ {last} ELSE Carried(M, last, row),
                      MovedOver(new, row), X, known)
<1> DEFINE last == Len(new) - 1
           after == MovedOver(new, row)
           S == IF row = last THEN M \ {last} ELSE Carried(M, last, row)
<1>1. last \in Positions(new) /\ Positions(new) \in SUBSET Nat /\ row \in Nat
  <2>1. Len(new) \in Nat /\ Positions(new) = 0 .. Len(new) - 1
    BY DEF Positions
  <2>. QED
    BY <2>1
<1>2. /\ after \in Seq(Elements)
      /\ \A n \in Nat : n \in Positions(after) <=> n \in Positions(new) /\ n # last
      /\ \A n \in Positions(after) : At(after, n) = IF n = row THEN At(new, last) ELSE At(new, n)
  <2>1. IsMovedOver(after, new, row)
    BY RowMovedOver
  <2>. QED
    BY <2>1 DEF IsMovedOver
<1>3. Positions(after) \in SUBSET Nat
  BY <1>2, PositionsOf
<1>. HIDE DEF last, after
<1>4. S \subseteq Positions(after)
  BY <1>1, <1>2 DEF Carried
<1>5. row \in Positions(after) => row # last
  BY <1>2, <1>1
<1>6. ASSUME NEW n \in Positions(after), n # row PROVE n \in S <=> n \in M
  BY <1>2, <1>3, <1>6 DEF Carried
<1>7. row # last => (row \in S <=> last \in M)
  BY DEF Carried
<1>. HIDE DEF S
<1>8. ASSUME NEW n \in Positions(after), At(after, n) \in ToSet(known)
      PROVE  n \in S <=> At(after, n) \in X
  <2>1. n \in Positions(new)
    BY <1>2, <1>3
  <2>2. CASE n = row
    BY <1>1, <1>2, <1>5, <1>7, <1>8, <2>2
  <2>3. CASE n # row
    BY <1>2, <1>6, <1>8, <2>1, <2>3
  <2>. QED
    BY <2>2, <2>3
<1>9. Marked(S, after, X, known)
  BY <1>4, <1>8 DEF Marked
<1>. QED
  BY <1>9 DEF S, last, after

\* MovedTo: the row a is deleted, unless it was inserted, and b maps to it.
IsMovedTo(d, c, a, b) ==
    /\ IsChanges(d) /\ d.moves = c.moves /\ d.modifications = c.modifications
    /\ d.deletions = c.deletions \cup ({a} \ c.insertions)
    /\ d.insertions = c.insertions \cup {a}
    /\ d.mapping = IF a \in c.insertions THEN c.mapping ELSE With(c.mapping, b, a)

\* MovedTo does that.
LEMMA MovedToIs ==
    ASSUME NEW c, IsChanges(c), c.deletions \in SUBSET Nat, IsFiniteSet(c.deletions),
           c.insertions \in SUBSET Nat, NEW a \in Nat, NEW b,
           a \notin c.insertions => a \notin c.deletions,
           a \notin c.insertions =>
             \A x \in Nat : x < a => (x \in c.deletions <=> x \in c.insertions)
    PROVE  IsMovedTo(MovedTo(c, a, b), c, a, b)
<1> DEFINE d == MovedTo(c, a, b)
           D == c.deletions
           I == c.insertions
<1>1. CASE a \in I
  <2>1. d = c
    BY <1>1 DEF MovedTo
  <2>2. D = D \cup ({a} \ I) /\ I = I \cup {a}
    BY <1>1
  <2>3. IsMovedTo(d, c, a, b)
    BY <1>1, <2>1, <2>2 DEF IsMovedTo
  <2>. QED
    BY <2>3
<1>2. CASE a \notin I
  <2> DEFINE e == AddDeletion(c, a)
             D2 == D \cup {a}
             I2 == I \cup {a}
             m2 == With(c.mapping, b, a)
             f == [e EXCEPT !.mapping = With(@, b, OldRow(c, a))]
  <2>1. d = [f EXCEPT !.insertions = @ \cup {a}]
    BY <1>2 DEF MovedTo
  <2>2. OldRow(c, a) = a /\ Ix!AddShifted(D, Ix!UnshiftIndex(I, a)) = D2
    BY <1>2, SameBelow DEF OldRow
  <2>3. e = [c EXCEPT !.deletions = Ix!AddShifted(@, Ix!UnshiftIndex(c.insertions, a))]
    BY DEF AddDeletion
  <2>4. c = [deletions |-> D, insertions |-> I, modifications |-> c.modifications,
             moves |-> c.moves, mapping |-> c.mapping]
    BY DEF IsChanges
  <2>. HIDE DEF d, e, D2, m2, I2
  <2>5. e = [deletions |-> D2, insertions |-> I, modifications |-> c.modifications,
             moves |-> c.moves, mapping |-> c.mapping]
    <3>1. e = [c EXCEPT !.deletions = D2]
      BY <2>2, <2>3
    <3>. HIDE DEF D, I
    <3>. QED
      BY <2>4, <3>1
  <2>6. f = [deletions |-> D2, insertions |-> I, modifications |-> c.modifications,
             moves |-> c.moves, mapping |-> m2]
    <3>1. e.mapping = c.mapping
      BY <2>5
    <3>2. f = [e EXCEPT !.mapping = m2]
      BY <2>2, <3>1 DEF m2
    <3>. HIDE DEF f
    <3>. QED
      BY <2>5, <3>2
  <2>. HIDE DEF f
  <2>7. d = [deletions |-> D2, insertions |-> I2, modifications |-> c.modifications,
             moves |-> c.moves, mapping |-> m2]
    <3>1. f.insertions = I
      BY <2>6
    <3>2. d = [f EXCEPT !.insertions = I2]
      BY <2>1, <3>1 DEF I2
    <3>. QED
      BY <2>6, <3>2
  <2>8. IsChanges(d) /\ d.deletions = D2 /\ d.insertions = I2 /\ d.modifications = c.modifications
        /\ d.moves = c.moves /\ d.mapping = m2
    BY <2>7 DEF IsChanges
  <2>9. D2 = D \cup ({a} \ I)
    BY <1>2 DEF D2
  <2>10. IsMovedTo(d, c, a, b)
    BY <1>2, <2>8, <2>9 DEF IsMovedTo, I2, m2
  <2>. QED
    BY <2>10 DEF d
<1>. QED
  BY <1>1, <1>2

\* The mapping after two rows change places: each has the old row of the other.
HasSource(mapping, I, n) == n \in DOMAIN mapping \/ n \notin I
Source(mapping, n) == IF n \in DOMAIN mapping THEN mapping[n] ELSE n

\* mapping is m with the rows a and b swapped.
IsSwapped(mapping, m, I, a, b) ==
    /\ a \in DOMAIN mapping <=> HasSource(m, I, b)
    /\ HasSource(m, I, b) => mapping[a] = Source(m, b)
    /\ b \in DOMAIN mapping <=> HasSource(m, I, a)
    /\ HasSource(m, I, a) => mapping[b] = Source(m, a)
    /\ DOMAIN mapping \ {a, b} = DOMAIN m \ {a, b}
    /\ \A n \in DOMAIN m \ {a, b} : mapping[n] = m[n]

\* Both rows have moved before.
LEMMA SwappedBoth ==
    ASSUME NEW m, NEW I, NEW a, NEW b, a # b, a \in DOMAIN m, b \in DOMAIN m
    PROVE  IsSwapped(With(With(m, b, m[a]), a, m[b]), m, I, a, b)
  BY DEF IsSwapped, HasSource, Source, With

\* One of them has, and the other one is an old row or a new one.
LEMMA SwappedOne ==
    ASSUME NEW m, NEW I, DOMAIN m \subseteq I, NEW a, NEW b, a # b, a \notin DOMAIN m, b \in DOMAIN m
    PROVE  LET w == With(Without(m, b), a, m[b])
           IN  IsSwapped(IF a \in I THEN w ELSE With(w, b, a), m, I, a, b)
<1> DEFINE w == With(Without(m, b), a, m[b])
<1>1. DOMAIN w = (DOMAIN m \ {b}) \cup {a} /\ w[a] = m[b] /\ \A n \in DOMAIN m \ {b} : w[n] = m[n]
  BY DEF With, Without
<1>. HIDE DEF w
<1>2. CASE a \in I
  BY <1>1, <1>2 DEF IsSwapped, HasSource, Source, w
<1>3. CASE a \notin I
  <2> DEFINE v == With(w, b, a)
  <2>1. DOMAIN v = DOMAIN m \cup {a} /\ v[a] = m[b] /\ v[b] = a
        /\ \A n \in DOMAIN m \ {b} : v[n] = m[n]
    BY <1>1 DEF With
  <2>. HIDE DEF v
  <2>2. IsSwapped(v, m, I, a, b)
    BY <1>3, <2>1 DEF IsSwapped, HasSource, Source
  <2>. QED
    BY <1>3, <2>2 DEF v, w
<1>. QED
  BY <1>2, <1>3

\* Neither has.
LEMMA SwappedNone ==
    ASSUME NEW m, NEW I, DOMAIN m \subseteq I, NEW a, NEW b, a # b, a \notin DOMAIN m, b \notin DOMAIN m
    PROVE  LET w == IF b \in I THEN m ELSE With(m, a, b)
           IN  IsSwapped(IF a \in I THEN w ELSE With(w, b, a), m, I, a, b)
<1> DEFINE w == IF b \in I THEN m ELSE With(m, a, b)
<1>1. /\ DOMAIN w = DOMAIN m \cup ({a} \cap {x \in {a} : b \notin I})
      /\ b \notin I => w[a] = b
      /\ \A n \in DOMAIN m : w[n] = m[n]
  BY DEF With
<1>. HIDE DEF w
<1>2. CASE a \in I
  BY <1>1, <1>2 DEF IsSwapped, HasSource, Source, w
<1>3. CASE a \notin I
  <2> DEFINE v == With(w, b, a)
  <2>1. DOMAIN v = DOMAIN w \cup {b} /\ v[b] = a /\ \A n \in DOMAIN w : n # b => v[n] = w[n]
    BY DEF With
  <2>. HIDE DEF v
  <2>2. IsSwapped(v, m, I, a, b)
    BY <1>1, <1>3, <2>1 DEF IsSwapped, HasSource, Source
  <2>. QED
    BY <1>3, <2>2 DEF v, w
<1>. QED
  BY <1>2, <1>3

\* swap: what becomes of the sets.
MarksSwapped(M, a, b) == {IF n = a THEN b ELSE IF n = b THEN a ELSE n : n \in M}

\* d is c with the rows a and b swapped.
IsSwap(d, c, a, b) ==
    /\ IsChanges(d) /\ d.moves = c.moves /\ d.modifications = MarksSwapped(c.modifications, a, b)
    /\ d.deletions = c.deletions \cup ({a, b} \ c.insertions)
    /\ d.insertions = c.insertions \cup {a, b}
    /\ IsSwapped(d.mapping, c.mapping, c.insertions, a, b)

\* SwapWithMoved, when b has moved before and a has not.
LEMMA SwapOneIs ==
    ASSUME NEW c, IsChanges(c), c.deletions \in SUBSET Nat, IsFiniteSet(c.deletions),
           c.insertions \in SUBSET Nat, DOMAIN c.mapping \subseteq c.insertions,
           NEW a \in Nat, NEW b, a # b, a \notin DOMAIN c.mapping, b \in DOMAIN c.mapping,
           a \notin c.insertions => a \notin c.deletions,
           a \notin c.insertions =>
             \A x \in Nat : x < a => (x \in c.deletions <=> x \in c.insertions)
    PROVE  LET d == SwapWithMoved(c, a, b)
           IN  /\ IsChanges(d) /\ d.moves = c.moves /\ d.modifications = c.modifications
               /\ d.deletions = c.deletions \cup ({a, b} \ c.insertions)
               /\ d.insertions = c.insertions \cup {a, b}
               /\ IsSwapped(d.mapping, c.mapping, c.insertions, a, b)
<1> DEFINE w == With(Without(c.mapping, b), a, c.mapping[b])
           e == [c EXCEPT !.mapping = With(Without(@, b), a, c.mapping[b])]
           d == MovedTo(e, a, b)
           D == c.deletions
           I == c.insertions
<1>1. SwapWithMoved(c, a, b) = d
  BY DEF SwapWithMoved
<1>2. c = [deletions |-> D, insertions |-> I, modifications |-> c.modifications,
           moves |-> c.moves, mapping |-> c.mapping]
  BY DEF IsChanges
<1>3. IsChanges(e) /\ e.deletions = D /\ e.insertions = I /\ e.modifications = c.modifications
      /\ e.moves = c.moves /\ e.mapping = w
  <2>. HIDE DEF D, I, w
  <2>1. e = [deletions |-> D, insertions |-> I, modifications |-> c.modifications,
             moves |-> c.moves, mapping |-> w]
    BY <1>2 DEF w
  <2>. HIDE DEF e
  <2>. QED
    BY <2>1 DEF IsChanges
<1>4. IsSwapped(IF a \in I THEN w ELSE With(w, b, a), c.mapping, I, a, b)
  BY SwappedOne
<1>. HIDE DEF e, w
<1>5. IsMovedTo(d, e, a, b)
  BY <1>3, MovedToIs
<1>. HIDE DEF d
<1>6. d.mapping = IF a \in I THEN w ELSE With(w, b, a)
  BY <1>3, <1>5 DEF IsMovedTo
<1>7. IsSwapped(d.mapping, c.mapping, I, a, b)
  BY <1>4, <1>6
<1>8. b \in I
  OBVIOUS
<1>9. IsChanges(d) /\ d.moves = c.moves /\ d.modifications = c.modifications
      /\ d.deletions = D \cup ({a} \ I) /\ d.insertions = I \cup {a}
  BY <1>3, <1>5 DEF IsMovedTo
<1>10. D \cup ({a} \ I) = D \cup ({a, b} \ I) /\ I \cup {a} = I \cup {a, b}
  BY <1>8
<1>. QED
  BY <1>1, <1>7, <1>9, <1>10

\* swap does that, whichever of the two rows have moved before.
LEMMA SwapIs ==
    ASSUME NEW old \in Seq(Elements), NEW new \in Seq(Elements), NEW c, IsChanges(c),
           KeepsRows(c.deletions, c.insertions, old, new), DOMAIN c.mapping \subseteq c.insertions,
           NEW a \in Positions(new), NEW b \in Positions(new), a < b
    PROVE  IsSwap(swap(c, a, b, TRUE), c, a, b)
<1> DEFINE d == swap(c, a, b, TRUE)
           D == c.deletions
           I == c.insertions
           m == c.mapping
           M2 == MarksSwapped(c.modifications, a, b)
           e == [c EXCEPT !.modifications = M2]
<1>1. Positions(new) \in SUBSET Nat /\ a \in Nat /\ b \in Nat /\ a # b
  BY PositionsOf
<1>2. /\ D \in SUBSET Nat /\ IsFiniteSet(D) /\ I \in SUBSET Nat
      /\ \A n \in Positions(new) : n \notin I => n \notin D
  BY <1>1 DEF KeepsRows
<1>3. a \notin I => \A x \in Nat : x < a => (x \in D <=> x \in I)
  BY RowStays
<1>4. b \notin I => \A x \in Nat : x < b => (x \in D <=> x \in I)
  BY RowStays
<1>5. IsChanges(e) /\ e.deletions = D /\ e.insertions = I /\ e.modifications = M2
      /\ e.moves = c.moves /\ e.mapping = m
  <2>1. c = [deletions |-> D, insertions |-> I, modifications |-> c.modifications,
             moves |-> c.moves, mapping |-> m]
    BY DEF IsChanges
  <2>. HIDE DEF D, I, m, M2
  <2>2. e = [deletions |-> D, insertions |-> I, modifications |-> M2, moves |-> c.moves, mapping |-> m]
    BY <2>1
  <2>. HIDE DEF e
  <2>. QED
    BY <2>2 DEF IsChanges
<1>6. d = IF a \in DOMAIN m /\ b \in DOMAIN m
          THEN [e EXCEPT !.mapping = With(With(@, b, m[a]), a, m[b])]
          ELSE IF a \in DOMAIN m THEN SwapWithMoved(e, b, a)
          ELSE IF b \in DOMAIN m THEN SwapWithMoved(e, a, b)
          ELSE MovedTo(MovedTo(e, b, a), a, b)
  BY DEF swap, MarksSwapped
<1>. HIDE DEF d, e, M2
<1>7. CASE a \in DOMAIN m /\ b \in DOMAIN m
  <2> DEFINE v == With(With(m, b, m[a]), a, m[b])
  <2>1. IsSwapped(v, m, I, a, b)
    BY <1>1, <1>7, SwappedBoth
  <2>2. d = [e EXCEPT !.mapping = v]
    BY <1>5, <1>6, <1>7
  <2>. HIDE DEF v
  <2>3. e = [deletions |-> D, insertions |-> I, modifications |-> M2, moves |-> c.moves, mapping |-> m]
    <3>. HIDE DEF D, I, m
    <3>. QED
      BY <1>5 DEF IsChanges
  <2>4. IsChanges(d) /\ d.deletions = D /\ d.insertions = I /\ d.modifications = M2
        /\ d.moves = c.moves /\ d.mapping = v
    <3>. HIDE DEF D, I, m
    <3>1. d = [deletions |-> D, insertions |-> I, modifications |-> M2, moves |-> c.moves, mapping |-> v]
      BY <2>2, <2>3
    <3>. QED
      BY <3>1 DEF IsChanges
  <2>5. D = D \cup ({a, b} \ I) /\ I = I \cup {a, b}
    BY <1>7
  <2>6. IsSwap(d, c, a, b)
    BY <2>1, <2>4, <2>5 DEF IsSwap, M2
  <2>. QED
    BY <2>6 DEF d
<1>8. CASE a \in DOMAIN m /\ b \notin DOMAIN m
  <2>1. d = SwapWithMoved(e, b, a)
    BY <1>6, <1>8
  <2>2. /\ IsChanges(d) /\ d.moves = e.moves /\ d.modifications = e.modifications
        /\ d.deletions = e.deletions \cup ({b, a} \ e.insertions)
        /\ d.insertions = e.insertions \cup {b, a}
        /\ IsSwapped(d.mapping, e.mapping, e.insertions, b, a)
    BY <1>1, <1>2, <1>4, <1>5, <1>8, <2>1, SwapOneIs
  <2>3. IsSwapped(d.mapping, m, I, a, b)
    BY <1>5, <2>2 DEF IsSwapped
  <2>4. IsSwap(d, c, a, b)
    BY <1>5, <2>2, <2>3 DEF IsSwap, M2
  <2>. QED
    BY <2>4 DEF d
<1>9. CASE a \notin DOMAIN m /\ b \in DOMAIN m
  <2>1. d = SwapWithMoved(e, a, b)
    BY <1>6, <1>9
  <2>2. /\ IsChanges(d) /\ d.moves = e.moves /\ d.modifications = e.modifications
        /\ d.deletions = e.deletions \cup ({a, b} \ e.insertions)
        /\ d.insertions = e.insertions \cup {a, b}
        /\ IsSwapped(d.mapping, e.mapping, e.insertions, a, b)
    BY <1>1, <1>2, <1>3, <1>5, <1>9, <2>1, SwapOneIs
  <2>3. IsSwap(d, c, a, b)
    BY <1>5, <2>2 DEF IsSwap, M2
  <2>. QED
    BY <2>3 DEF d
<1>10. CASE a \notin DOMAIN m /\ b \notin DOMAIN m
  <2> DEFINE f == MovedTo(e, b, a)
             w == IF b \in I THEN m ELSE With(m, a, b)
             D2 == D \cup ({b} \ I)
             I2 == I \cup {b}
  <2>1. d = MovedTo(f, a, b)
    BY <1>6, <1>10
  <2>2. IsMovedTo(f, e, b, a)
    BY <1>1, <1>2, <1>4, <1>5, MovedToIs
  <2>. HIDE DEF f
  <2>3. IsChanges(f) /\ f.deletions = D2 /\ f.insertions = I2 /\ f.modifications = M2
        /\ f.moves = c.moves /\ f.mapping = w
    BY <1>5, <2>2 DEF IsMovedTo
  <2>4. D2 \in SUBSET Nat /\ IsFiniteSet(D2) /\ I2 \in SUBSET Nat
    <3>1. IsFiniteSet({b} \ I)
      BY FS_Singleton, FS_Difference
    <3>2. IsFiniteSet(D2)
      BY <1>2, <3>1, FS_Union
    <3>. QED
      BY <1>1, <1>2, <3>2
  <2>5. a \notin I2 => a \notin D2
    BY <1>1, <1>2
  <2>6. a \notin I2 => \A x \in Nat : x < a => (x \in D2 <=> x \in I2)
    BY <1>1, <1>3
  <2>. HIDE DEF D2, I2
  <2>7. IsMovedTo(d, f, a, b)
    BY <1>1, <2>1, <2>3, <2>4, <2>5, <2>6, MovedToIs
  <2>8. IsChanges(d) /\ d.modifications = M2 /\ d.moves = c.moves
        /\ d.deletions = D2 \cup ({a} \ I2) /\ d.insertions = I2 \cup {a}
        /\ d.mapping = IF a \in I2 THEN w ELSE With(w, b, a)
    BY <2>3, <2>7 DEF IsMovedTo
  <2>9. a \in I2 <=> a \in I
    BY <1>1 DEF I2
  <2>10. D2 \cup ({a} \ I2) = D \cup ({a, b} \ I) /\ I2 \cup {a} = I \cup {a, b}
    BY <1>1 DEF D2, I2
  <2>11. IsSwapped(d.mapping, m, I, a, b)
    <3>1. IsSwapped(IF a \in I THEN w ELSE With(w, b, a), m, I, a, b)
      BY <1>1, <1>10, SwappedNone
    <3>. HIDE DEF w
    <3>. QED
      BY <2>8, <2>9, <3>1
  <2>12. IsSwap(d, c, a, b)
    BY <2>8, <2>10, <2>11 DEF IsSwap, M2
  <2>. QED
    BY <2>12 DEF d
<1>. QED
  BY <1>7, <1>8, <1>9, <1>10

\* The rows after two of them change places.
LEMMA RowsSwapped ==
    ASSUME NEW new, IsCollection(new), NEW a \in Positions(new), NEW b \in Positions(new), a < b
    PROVE  LET after == [new EXCEPT ![a + 1] = At(new, b), ![b + 1] = At(new, a)]
           IN  /\ IsCollection(after) /\ Positions(after) = Positions(new) /\ ToSet(after) = ToSet(new)
               /\ Len(after) = Len(new)
               /\ \A n \in Positions(new) :
                    At(after, n) = At(new, IF n = a THEN b ELSE IF n = b THEN a ELSE n)
<1> DEFINE after == [new EXCEPT ![a + 1] = At(new, b), ![b + 1] = At(new, a)]
           N == Len(new)
           other(n) == IF n = a THEN b ELSE IF n = b THEN a ELSE n
<1>1. /\ new \in Seq(Elements) /\ N \in Nat /\ DOMAIN new = 1 .. N
      /\ Positions(new) \in SUBSET Nat /\ a \in Nat /\ b \in Nat
      /\ \A n \in Positions(new) : n + 1 \in DOMAIN new /\ At(new, n) \in Elements
      /\ ToSet(new) = {At(new, n) : n \in Positions(new)}
  BY PositionsOf DEF IsCollection
<1>2. after \in Seq(Elements) /\ Len(after) = N
  BY <1>1
<1>3. \A i \in 1 .. N : after[i] = IF i = a + 1 THEN At(new, b)
                                   ELSE IF i = b + 1 THEN At(new, a) ELSE new[i]
  BY <1>1
<1>4. Positions(after) = Positions(new)
  BY <1>2 DEF Positions
<1>. HIDE DEF after, N
<1>5. ASSUME NEW n \in Positions(new) PROVE At(after, n) = At(new, other(n))
  <2>1. n + 1 \in 1 .. N /\ (n + 1 = a + 1 <=> n = a) /\ (n + 1 = b + 1 <=> n = b)
    BY <1>1
  <2>2. At(after, n) = IF n = a THEN At(new, b) ELSE IF n = b THEN At(new, a) ELSE At(new, n)
    BY <1>3, <2>1 DEF At
  <2>. QED
    BY <2>2
<1>6. \A n \in Positions(new) : other(n) \in Positions(new) /\ other(other(n)) = n
  BY <1>1
<1>7. \A i, j \in Positions(new) : At(new, i) = At(new, j) => i = j
  BY DistinctEntries DEF IsCollection
<1>8. ToSet(after) = {At(after, n) : n \in Positions(new)}
  BY <1>2, <1>4, PositionsOf
<1>9. \A n \in Positions(new) : At(after, n) = At(new, IF n = a THEN b ELSE IF n = b THEN a ELSE n)
  BY <1>5
<1>. HIDE DEF other
<1>10. IsInjective(after)
  <2>1. \A i, j \in Positions(after) : At(after, i) = At(after, j) => i = j
    BY <1>4, <1>5, <1>6, <1>7
  <2>. QED
    BY <1>2, <2>1, DistinctEntries
<1>11. ToSet(after) = ToSet(new)
  <2>1. ASSUME NEW x \in ToSet(new) PROVE x \in ToSet(after)
    <3>1. PICK n \in Positions(new) : x = At(new, n)
      BY <1>1
    <3>2. other(n) \in Positions(new) /\ At(after, other(n)) = x
      BY <1>5, <1>6, <3>1
    <3>. QED
      BY <1>8, <3>2
  <2>2. ASSUME NEW x \in ToSet(after) PROVE x \in ToSet(new)
    <3>1. PICK n \in Positions(new) : x = At(after, n)
      BY <1>8
    <3>. QED
      BY <1>1, <1>5, <1>6, <3>1
  <2>. QED
    BY <2>1, <2>2
<1>. QED
  BY <1>2, <1>4, <1>9, <1>10, <1>11 DEF IsCollection, after, N

\* The change set after two rows change places.
LEMMA TableSwap ==
    ASSUME NEW old, IsCollection(old), NEW new, IsCollection(new), NEW c, TableExplains(c, old, new),
           NEW a \in Positions(new), NEW b \in Positions(new), a < b
    PROVE  TableExplains(swap(c, a, b, TRUE), old,
                         [new EXCEPT ![a + 1] = At(new, b), ![b + 1] = At(new, a)])
<1> DEFINE d == swap(c, a, b, TRUE)
           after == [new EXCEPT ![a + 1] = At(new, b), ![b + 1] = At(new, a)]
           D == c.deletions
           I == c.insertions
           m == c.mapping
           D2 == D \cup ({a, b} \ I)
           I2 == I \cup {a, b}
           m2 == d.mapping
<1>1. /\ IsChanges(c) /\ c.moves = <<>>
      /\ KeepsRows(D, I, old, new) /\ SameRows(I, old, new)
      /\ DOMAIN m \subseteq I /\ \A n \in I : MapsRow(m, n, old, new)
  BY DEF TableExplains, MapsRows
<1>2. IsSwap(d, c, a, b)
  BY <1>1, SwapIs DEF IsCollection
<1>3. IsChanges(d) /\ d.moves = <<>> /\ d.deletions = D2 /\ d.insertions = I2
      /\ IsSwapped(m2, m, I, a, b)
  BY <1>1, <1>2 DEF IsSwap
<1>4. /\ Positions(after) = Positions(new)
      /\ \A n \in Positions(new) :
           At(after, n) = At(new, IF n = a THEN b ELSE IF n = b THEN a ELSE n)
  BY RowsSwapped, ZenonT(60)
<1>5. Positions(new) \in SUBSET Nat /\ a \in Nat /\ b \in Nat /\ a # b
  BY PositionsOf DEF IsCollection
<1>. HIDE DEF after, m2
<1>6. /\ D \in SUBSET Nat /\ IsFiniteSet(D) /\ I \in SUBSET Positions(new)
      /\ \A n \in Positions(new) \ I : n \in Positions(old) \ D
      /\ \A n \in Positions(old) : n \notin Positions(new) \/ n \in I => n \in D
  BY <1>1 DEF KeepsRows
<1>7. D2 \in SUBSET Nat /\ IsFiniteSet(D2)
  <2>1. IsFiniteSet({a, b})
    <3>1. IsFiniteSet({a})
      BY FS_Singleton
    <3>2. IsFiniteSet({a} \cup {b})
      BY <3>1, FS_AddElement
    <3>3. {a} \cup {b} = {a, b}
      OBVIOUS
    <3>. QED
      BY <3>2, <3>3
  <2>2. IsFiniteSet({a, b} \ I)
    BY <2>1, FS_Difference
  <2>3. IsFiniteSet(D2)
    BY <1>6, <2>2, FS_Union
  <2>. QED
    BY <1>5, <1>6, <2>3
<1>8. KeepsRows(D2, I2, old, after)
  <2>1. I2 \in SUBSET Positions(after)
    BY <1>4, <1>6
  <2>2. \A n \in Positions(after) \ I2 : n \in Positions(old) \ D2
    BY <1>4, <1>6
  <2>3. \A n \in Positions(old) : n \notin Positions(after) \/ n \in I2 => n \in D2
    BY <1>4, <1>6
  <2>. QED
    BY <1>7, <2>1, <2>2, <2>3 DEF KeepsRows
<1>9. SameRows(I2, old, after)
  BY <1>1, <1>4 DEF SameRows
<1>10. DOMAIN m2 \subseteq I2
  BY <1>1, <1>3 DEF IsSwapped
<1>11. ASSUME NEW n \in I2, n # a, n # b PROVE MapsRow(m2, n, old, after)
  <2>1. MapsRow(m, n, old, new) /\ At(after, n) = At(new, n)
    BY <1>1, <1>4, <1>6, <1>11
  <2>2. (n \in DOMAIN m2 <=> n \in DOMAIN m) /\ (n \in DOMAIN m => m2[n] = m[n])
    BY <1>3, <1>11 DEF IsSwapped
  <2>. QED
    BY <2>1, <2>2 DEF MapsRow
<1>12. ASSUME NEW x \in {a, b}, NEW y \in {a, b}, At(after, x) = At(new, y),
              x \in DOMAIN m2 <=> HasSource(m, I, y),
              HasSource(m, I, y) => m2[x] = Source(m, y)
       PROVE  MapsRow(m2, x, old, after)
  <2>1. CASE y \in I
    <3>1. MapsRow(m, y, old, new)
      BY <1>1, <2>1
    <3>. QED
      BY <1>12, <2>1, <3>1 DEF MapsRow, HasSource, Source
  <2>2. CASE y \notin I
    <3>1. y \in Positions(old) /\ At(old, y) = At(new, y) /\ y \notin DOMAIN m
      BY <1>1, <1>6, <2>2 DEF SameRows
    <3>2. At(old, y) \in ToSet(old)
      BY <3>1, PositionsOf DEF IsCollection
    <3>. QED
      BY <1>12, <2>2, <3>1, <3>2 DEF MapsRow, HasSource, Source
  <2>. QED
    BY <2>1, <2>2
<1>13. MapsRow(m2, a, old, after)
  BY <1>3, <1>4, <1>12 DEF IsSwapped
<1>14. MapsRow(m2, b, old, after)
  <2>1. At(after, b) = At(new, a)
    BY <1>4, <1>5
  <2>. QED
    BY <1>3, <1>12, <2>1 DEF IsSwapped
<1>15. MapsRows(m2, I2, old, after)
  BY <1>10, <1>11, <1>13, <1>14 DEF MapsRows
<1>. HIDE DEF d, D2, I2
<1>16. TableExplains(d, old, after)
  BY <1>3, <1>8, <1>9, <1>15 DEF TableExplains, m2
<1>. QED
  BY <1>16 DEF d, after

\* The marks go with the rows.
LEMMA MarksOfSwapped ==
    ASSUME NEW new, IsCollection(new), NEW a \in Positions(new), NEW b \in Positions(new), a < b,
           NEW M, NEW known, NEW X, Marked(M, new, X, known)
    PROVE  Marked(MarksSwapped(M, a, b),
                  [new EXCEPT ![a + 1] = At(new, b), ![b + 1] = At(new, a)], X, known)
<1> DEFINE after == [new EXCEPT ![a + 1] = At(new, b), ![b + 1] = At(new, a)]
           S == MarksSwapped(M, a, b)
           other(n) == IF n = a THEN b ELSE IF n = b THEN a ELSE n
<1>1. /\ Positions(after) = Positions(new)
      /\ \A n \in Positions(new) : At(after, n) = At(new, other(n))
  BY RowsSwapped, ZenonT(60)
<1>2. Positions(new) \in SUBSET Nat /\ M \subseteq Positions(new)
  BY PositionsOf DEF IsCollection, Marked
<1>3. \A n \in Positions(new) : other(n) \in Positions(new) /\ other(other(n)) = n
  OBVIOUS
<1>4. S = {other(n) : n \in M}
  BY DEF MarksSwapped
<1>. HIDE DEF after, S, other
<1>5. S \subseteq Positions(after)
  BY <1>1, <1>2, <1>3, <1>4
<1>6. \A n \in Positions(new) : n \in S <=> other(n) \in M
  BY <1>2, <1>3, <1>4
<1>7. Marked(S, after, X, known)
  BY <1>1, <1>3, <1>5, <1>6 DEF Marked
<1>. QED
  BY <1>7 DEF S, after

\* modify adds a mark.
LEMMA ModifyIs ==
    ASSUME NEW c, IsChanges(c), NEW n
    PROVE  LET d == modify(c, n)
           IN  /\ IsChanges(d) /\ d.deletions = c.deletions /\ d.insertions = c.insertions
               /\ d.modifications = c.modifications \cup {n}
               /\ d.moves = c.moves /\ d.mapping = c.mapping
<1> DEFINE d == modify(c, n)
           M == c.modifications
           S == M \cup {n}
<1>1. c = [deletions |-> c.deletions, insertions |-> c.insertions, modifications |-> M,
           moves |-> c.moves, mapping |-> c.mapping]
  BY DEF IsChanges
<1>2. d = [c EXCEPT !.modifications = S]
  BY DEF modify
<1>. HIDE DEF M, S, d
<1>3. d = [deletions |-> c.deletions, insertions |-> c.insertions, modifications |-> S,
           moves |-> c.moves, mapping |-> c.mapping]
  BY <1>1, <1>2
<1>4. IsChanges(d) /\ d.deletions = c.deletions /\ d.insertions = c.insertions
      /\ d.modifications = S /\ d.moves = c.moves /\ d.mapping = c.mapping
  BY <1>3 DEF IsChanges
<1>. QED
  BY <1>4 DEF d, S, M

\* The change set after a row is set.
LEMMA TableModify ==
    ASSUME NEW old, NEW new, NEW c, TableExplains(c, old, new), NEW n
    PROVE  TableExplains(modify(c, n), old, new)
<1> DEFINE d == modify(c, n)
<1>1. /\ IsChanges(d) /\ d.deletions = c.deletions /\ d.insertions = c.insertions
      /\ d.moves = c.moves /\ d.mapping = c.mapping
  BY ModifyIs DEF TableExplains
<1>. HIDE DEF d
<1>2. TableExplains(d, old, new)
  BY <1>1 DEF TableExplains
<1>. QED
  BY <1>2 DEF d

\* The entry set is marked.
LEMMA MarksModified ==
    ASSUME NEW new, IsCollection(new), NEW M, NEW known, NEW X, Marked(M, new, X, known),
           NEW n \in Positions(new)
    PROVE  Marked(M \cup {n}, new, X \cup {At(new, n)}, known)
<1>1. \A i, j \in Positions(new) : At(new, i) = At(new, j) => i = j
  BY DistinctEntries DEF IsCollection
<1>. QED
  BY <1>1 DEF Marked

\* subsume: what becomes of the sets and of the mapping.
IsSubsumed(d, c, from, to) ==
    /\ IsChanges(d) /\ d.moves = c.moves
    /\ d.modifications = IF from \in c.modifications THEN c.modifications \cup {to}
                         ELSE c.modifications
    /\ d.deletions = c.deletions /\ d.insertions = c.insertions
    /\ d.mapping = IF from \in DOMAIN c.mapping
                   THEN With(Without(c.mapping, from), to, c.mapping[from])
                   ELSE IF from \in c.insertions THEN c.mapping
                   ELSE With(c.mapping, to, from)

\* subsume records the old row of the row that is found again.
LEMMA SubsumeIs ==
    ASSUME NEW old \in Seq(Elements), NEW new \in Seq(Elements), NEW c, IsChanges(c),
           KeepsRows(c.deletions, c.insertions, old, new), DOMAIN c.mapping \subseteq c.insertions,
           NEW from \in Positions(new), NEW to
    PROVE  IsSubsumed(subsume(c, from, to, TRUE), c, from, to)
<1> DEFINE D == c.deletions
           I == c.insertions
           M == c.modifications
           m == c.mapping
           M2 == IF from \in M THEN M \cup {to} ELSE M
           both == [c EXCEPT !.modifications = IF from \in @ THEN @ \cup {to} ELSE @]
           d == subsume(c, from, to, TRUE)
<1>1. c = [deletions |-> D, insertions |-> I, modifications |-> M, moves |-> c.moves, mapping |-> m]
  BY DEF IsChanges
<1>2. both = [deletions |-> D, insertions |-> I, modifications |-> M2, moves |-> c.moves, mapping |-> m]
  <2>1. both = [c EXCEPT !.modifications = M2]
    OBVIOUS
  <2>. HIDE DEF D, I, M, m, M2, both
  <2>. QED
    BY <1>1, <2>1
<1>3. d = IF from \in DOMAIN m
          THEN [both EXCEPT !.mapping = With(Without(@, from), to, m[from])]
          ELSE IF from \in I THEN both
          ELSE [both EXCEPT !.mapping = With(@, to, OldRow(c, from))]
  BY DEF subsume
<1>. HIDE DEF both, d, M2
<1>4. both.mapping = m /\ IsChanges(both) /\ both.deletions = D /\ both.insertions = I
      /\ both.modifications = M2 /\ both.moves = c.moves
  BY <1>2 DEF IsChanges
<1>5. ASSUME NEW w, d = [both EXCEPT !.mapping = w]
      PROVE  /\ IsChanges(d) /\ d.deletions = D /\ d.insertions = I /\ d.modifications = M2
             /\ d.moves = c.moves /\ d.mapping = w
  <2>. HIDE DEF D, I, M, m
  <2>1. d = [deletions |-> D, insertions |-> I, modifications |-> M2, moves |-> c.moves, mapping |-> w]
    BY <1>2, <1>5
  <2>. QED
    BY <2>1 DEF IsChanges
<1>6. CASE from \in DOMAIN m
  <2> DEFINE w == With(Without(m, from), to, m[from])
  <2>1. d = [both EXCEPT !.mapping = w]
    BY <1>3, <1>4, <1>6
  <2>. HIDE DEF w
  <2>2. /\ IsChanges(d) /\ d.deletions = D /\ d.insertions = I /\ d.modifications = M2
        /\ d.moves = c.moves /\ d.mapping = w
    BY <1>5, <2>1
  <2>. QED
    BY <1>6, <2>2 DEF IsSubsumed, w, M2, d
<1>7. CASE from \notin DOMAIN m /\ from \in I
  <2>1. d = both
    BY <1>3, <1>7
  <2>. QED
    BY <1>4, <1>7, <2>1 DEF IsSubsumed, M2, d
<1>8. CASE from \notin I
  <2> DEFINE w == With(m, to, from)
  <2>1. OldRow(c, from) = from
    BY <1>8, RowStays DEF OldRow
  <2>2. d = [both EXCEPT !.mapping = w]
    BY <1>3, <1>4, <1>8, <2>1
  <2>. HIDE DEF w
  <2>3. /\ IsChanges(d) /\ d.deletions = D /\ d.insertions = I /\ d.modifications = M2
        /\ d.moves = c.moves /\ d.mapping = w
    BY <1>5, <2>2
  <2>4. from \notin DOMAIN m
    BY <1>8
  <2>. QED
    BY <1>8, <2>3, <2>4 DEF IsSubsumed, w, M2, d
<1>. QED
  BY <1>6, <1>7, <1>8

\* The rows with another one at a place.
IsReplaced(t, s, to, e) ==
    /\ t \in Seq(Elements) /\ Len(t) = Len(s) /\ Positions(t) = Positions(s)
    /\ \A n \in Positions(s) : At(t, n) = IF n = to THEN e ELSE At(s, n)

\* EXCEPT replaces a row.
LEMMA RowReplaced ==
    ASSUME NEW new \in Seq(Elements), NEW to \in Positions(new), NEW e \in Elements,
           NEW t, t = [new EXCEPT ![to + 1] = e]
    PROVE  IsReplaced(t, new, to, e)
<1> DEFINE N == Len(new)
<1>1. N \in Nat /\ DOMAIN new = 1 .. N /\ Positions(new) \in SUBSET Nat
      /\ \A n \in Positions(new) : n + 1 \in DOMAIN new
  BY PositionsOf
<1>2. t \in Seq(Elements) /\ Len(t) = N /\ \A i \in 1 .. N : t[i] = IF i = to + 1 THEN e ELSE new[i]
  BY <1>1
<1>3. Positions(t) = Positions(new)
  BY <1>2 DEF Positions
<1>. HIDE DEF N
<1>4. ASSUME NEW n \in Positions(new) PROVE At(t, n) = IF n = to THEN e ELSE At(new, n)
  <2>1. n \in Nat /\ to \in Nat /\ n + 1 \in 1 .. N
    BY <1>1
  <2>2. n + 1 = to + 1 <=> n = to
    BY <2>1
  <2>. QED
    BY <1>2, <2>1, <2>2 DEF At
<1>. QED
  BY <1>2, <1>3, <1>4 DEF N, IsReplaced

\* The row from becomes the new row to: no old row is lost, and the rows are
\* those there were without the new one.
LEMMA TableMerge ==
    ASSUME NEW old, IsCollection(old), NEW new, IsCollection(new), NEW c, TableExplains(c, old, new),
           NEW from \in Positions(new), NEW to \in Positions(new), from # to,
           At(new, to) \notin ToSet(old)
    PROVE  TableExplains(move_over(subsume(c, from, to, TRUE), from, Len(new) - 1, TRUE), old,
                         MovedOver([new EXCEPT ![to + 1] = At(new, from)], from))
<1> DEFINE t == [new EXCEPT ![to + 1] = At(new, from)]
           d == subsume(c, from, to, TRUE)
           D == c.deletions
           I == c.insertions
           m == c.mapping
           m2 == d.mapping
<1>1. /\ IsChanges(c) /\ c.moves = <<>>
      /\ KeepsRows(D, I, old, new) /\ SameRows(I, old, new)
      /\ DOMAIN m \subseteq I /\ \A n \in I : MapsRow(m, n, old, new)
  BY DEF TableExplains, MapsRows
<1>2. old \in Seq(Elements) /\ new \in Seq(Elements)
  BY DEF IsCollection
<1>3. At(new, from) \in Elements
  BY <1>2, PositionsOf
<1>4. /\ t \in Seq(Elements) /\ Len(t) = Len(new) /\ Positions(t) = Positions(new)
      /\ \A n \in Positions(new) : At(t, n) = IF n = to THEN At(new, from) ELSE At(new, n)
  <2> DEFINE e == At(new, from)
  <2>1. t = [new EXCEPT ![to + 1] = e] /\ e \in Elements
    BY <1>3
  <2>. HIDE DEF e, t
  <2>2. IsReplaced(t, new, to, e)
    BY <1>2, <2>1, RowReplaced
  <2>. QED
    BY <2>2 DEF e, IsReplaced
<1>5. IsSubsumed(d, c, from, to)
  BY <1>1, <1>2, SubsumeIs
<1>. HIDE DEF t, d
<1>6. IsChanges(d) /\ d.moves = <<>> /\ d.deletions = D /\ d.insertions = I
  BY <1>1, <1>5 DEF IsSubsumed
<1>7. /\ I \in SUBSET Positions(new)
      /\ \A n \in Positions(new) \ I : n \in Positions(old)
  BY <1>1 DEF KeepsRows
<1>8. \A n \in Positions(old) : At(old, n) \in ToSet(old)
  BY <1>2, PositionsOf
<1>9. to \in I
  BY <1>1, <1>7, <1>8 DEF SameRows
<1>10. to \notin DOMAIN m
  BY <1>1, <1>9 DEF MapsRow
<1>11. KeepsRows(D, I, old, t)
  BY <1>1, <1>4 DEF KeepsRows
<1>12. \A n \in Positions(t) \ I : n # from => At(old, n) = At(t, n)
  BY <1>1, <1>4, <1>9 DEF SameRows
<1>13. ASSUME NEW n \in I, n # to, n # from, n \in DOMAIN m2 <=> n \in DOMAIN m,
              n \in DOMAIN m => m2[n] = m[n]
       PROVE  MapsRow(m2, n, old, t)
  <2>1. MapsRow(m, n, old, new) /\ At(t, n) = At(new, n)
    BY <1>1, <1>4, <1>7, <1>13
  <2>. HIDE DEF m2
  <2>. QED
    BY <1>13, <2>1 DEF MapsRow
<1>14. At(t, to) = At(new, from)
  BY <1>4
<1>15. DOMAIN m2 \subseteq I /\ \A n \in I \ {from} : MapsRow(m2, n, old, t)
  <2>1. CASE from \in DOMAIN m
    <3> DEFINE w == Without(m, from)
               v == m[from]
    <3>1. m2 = With(w, to, v)
      BY <1>5, <2>1 DEF IsSubsumed
    <3>2. DOMAIN w = DOMAIN m \ {from} /\ \A n \in DOMAIN m \ {from} : w[n] = m[n]
      BY ValueOfWithout
    <3>. HIDE DEF m2, w, v
    <3>3. DOMAIN m2 = DOMAIN w \cup {to} /\ m2[to] = v
          /\ \A n \in DOMAIN w : n # to => m2[n] = w[n]
      BY <3>1 DEF With
    <3>4. DOMAIN m2 \subseteq I
      BY <1>1, <1>9, <3>2, <3>3
    <3>5. MapsRow(m2, to, old, t)
      <4>1. MapsRow(m, from, old, new)
        BY <1>1, <2>1
      <4>. QED
        BY <1>14, <2>1, <3>3, <4>1 DEF MapsRow, v
    <3>6. ASSUME NEW n \in I, n # from, n # to PROVE MapsRow(m2, n, old, t)
      BY <1>13, <3>2, <3>3, <3>6
    <3>. QED
      BY <3>4, <3>5, <3>6
  <2>2. CASE from \notin DOMAIN m /\ from \in I
    <3>1. m2 = m
      BY <1>5, <2>2 DEF IsSubsumed
    <3>. HIDE DEF m2
    <3>2. MapsRow(m2, to, old, t)
      <4>1. MapsRow(m, from, old, new)
        BY <1>1, <2>2
      <4>. QED
        BY <1>10, <1>14, <2>2, <3>1, <4>1 DEF MapsRow
    <3>3. ASSUME NEW n \in I, n # from, n # to PROVE MapsRow(m2, n, old, t)
      BY <1>13, <3>1, <3>3
    <3>. QED
      BY <1>1, <3>1, <3>2, <3>3
  <2>3. CASE from \notin I
    <3>1. m2 = With(m, to, from)
      BY <1>1, <1>5, <2>3 DEF IsSubsumed
    <3>. HIDE DEF m2
    <3>2. DOMAIN m2 = DOMAIN m \cup {to} /\ m2[to] = from
          /\ \A n \in DOMAIN m : n # to => m2[n] = m[n]
      BY <3>1 DEF With
    <3>3. DOMAIN m2 \subseteq I
      BY <1>1, <1>9, <3>2
    <3>4. MapsRow(m2, to, old, t)
      <4>1. from \in Positions(old) /\ At(old, from) = At(new, from)
        BY <1>1, <1>7, <2>3 DEF SameRows
      <4>. QED
        BY <1>8, <1>14, <3>2, <4>1 DEF MapsRow
    <3>5. ASSUME NEW n \in I, n # from, n # to PROVE MapsRow(m2, n, old, t)
      BY <1>13, <3>2, <3>5
    <3>. QED
      BY <3>3, <3>4, <3>5
  <2>. QED
    BY <2>1, <2>2, <2>3
<1>16. TableExplains(move_over(d, from, Len(t) - 1, TRUE), old, MovedOver(t, from))
  BY <1>2, <1>4, <1>6, <1>11, <1>12, <1>15, TableMoveOver
<1>. QED
  BY <1>4, <1>16 DEF d, t

\* The rows that are left, and their marks.
LEMMA RowsMerged ==
    ASSUME NEW new, IsCollection(new),
           NEW from \in Positions(new), NEW to \in Positions(new), from # to,
           NEW M, NEW X, Marked(M, new, X, Entries)
    PROVE  LET t == [new EXCEPT ![to + 1] = At(new, from)]
               after == MovedOver(t, from)
               last == Len(new) - 1
               M2 == IF from \in M THEN M \cup {to} ELSE M
               X2 == IF At(new, to) \in X THEN X \cup {At(new, from)} ELSE X
           IN  /\ IsCollection(after) /\ Len(after) = Len(new) - 1
               /\ ToSet(after) = ToSet(new) \ {At(new, to)}
               /\ Marked(IF from = last THEN M2 \ {last} ELSE Carried(M2, last, from),
                         after, X2, Entries)
<1> DEFINE t == [new EXCEPT ![to + 1] = At(new, from)]
           after == MovedOver(t, from)
           last == Len(new) - 1
           M2 == IF from \in M THEN M \cup {to} ELSE M
           X2 == IF At(new, to) \in X THEN X \cup {At(new, from)} ELSE X
<1>1. /\ new \in Seq(Elements) /\ ToSet(new) = {At(new, n) : n \in Positions(new)}
      /\ \A n \in Positions(new) : At(new, n) \in Elements
  BY PositionsOf DEF IsCollection
<1>2. /\ t \in Seq(Elements) /\ Len(t) = Len(new) /\ Positions(t) = Positions(new)
      /\ \A n \in Positions(new) : At(t, n) = IF n = to THEN At(new, from) ELSE At(new, n)
  <2> DEFINE e == At(new, from)
  <2>1. t = [new EXCEPT ![to + 1] = e] /\ e \in Elements
    BY <1>1
  <2>. HIDE DEF e, t
  <2>2. IsReplaced(t, new, to, e)
    BY <1>1, <2>1, RowReplaced
  <2>. QED
    BY <2>2 DEF e, IsReplaced
<1>3. \A i, j \in Positions(new) : At(new, i) = At(new, j) => i = j
  BY DistinctEntries DEF IsCollection
<1>. HIDE DEF t
<1>4. \A i, j \in Positions(t) \ {from} : At(t, i) = At(t, j) => i = j
  BY <1>2, <1>3
<1>5. IsCollection(after) /\ ToSet(after) = {At(t, n) : n \in Positions(t) \ {from}}
  BY <1>2, <1>4, CollectionMovedOver
<1>6. Len(after) = Len(new) - 1
  <2>1. IsMovedOver(after, t, from)
    BY <1>2, RowMovedOver
  <2>. QED
    BY <1>2, <2>1 DEF IsMovedOver
<1>7. {At(t, n) : n \in Positions(t) \ {from}} = ToSet(new) \ {At(new, to)}
  BY <1>1, <1>2, <1>3
<1>8. M \subseteq Positions(new) /\ \A n \in Positions(new) : n \in M <=> At(new, n) \in X
  BY <1>1 DEF Marked, Elements
<1>9. M2 \subseteq Positions(t)
  BY <1>2, <1>8
<1>10. ASSUME NEW n \in Positions(t) \ {from} PROVE n \in M2 <=> At(t, n) \in X2
  <2>1. n \in Positions(new)
    BY <1>2
  <2>2. CASE n = to
    BY <1>2, <1>8, <2>1, <2>2
  <2>3. CASE n # to
    <3>1. At(t, n) = At(new, n) /\ At(new, n) # At(new, from)
      BY <1>2, <1>3, <2>1, <2>3
    <3>2. n \in M2 <=> n \in M
      BY <2>3
    <3>3. At(t, n) \in X2 <=> At(new, n) \in X
      BY <3>1
    <3>. QED
      BY <1>8, <2>1, <3>2, <3>3
  <2>. QED
    BY <2>2, <2>3
<1>. HIDE DEF M2, X2, after, last
<1>11. Marked(IF from = last THEN M2 \ {last} ELSE Carried(M2, last, from), after, X2, Entries)
  <2>1. last = Len(t) - 1 /\ from \in Positions(t)
    BY <1>2 DEF last
  <2>. QED
    BY <1>2, <1>9, <1>10, <2>1, MarksMovedOver DEF after
<1>. QED
  BY <1>5, <1>6, <1>7, <1>11 DEF M2, X2, after, last, t

\* There are only finitely many identities.
LEMMA ElementsFinite == IsFiniteSet(Elements)
<1>1. Entries \in Seq(Elements)
  BY CollectionsAssumption DEF Elements
<1>2. IsFiniteSet(DOMAIN Entries)
  <2>1. Len(Entries) \in Nat /\ DOMAIN Entries = 1 .. Len(Entries)
    BY <1>1
  <2>2. 1 \in Int /\ Len(Entries) \in Int
    BY <2>1
  <2>3. IsFiniteSet(1 .. Len(Entries))
    BY <2>2, FS_Interval
  <2>. QED
    BY <2>1, <2>3
<1>3. Elements = {Entries[i] : i \in DOMAIN Entries}
  BY DEF Elements, ToSet
<1>4. IsFiniteSet({Entries[i] : i \in DOMAIN Entries})
  BY <1>2, FiniteImage
<1>. QED
  BY <1>3, <1>4

\* New entries are distinct and not yet used, if there are as many.
LEMMA NewEntriesAre ==
    ASSUME NEW count \in Nat, count <= Cardinality(Unused)
    PROVE  LET new == NewEntries(count)
           IN  /\ new \in Seq(Elements) /\ Len(new) = count /\ IsInjective(new)
               /\ ToSet(new) \subseteq Unused
<1> DEFINE new == NewEntries(count)
           U == Unused
           k == Cardinality(U)
<1>1. U \subseteq Elements
  BY DEF Unused, Elements
<1>2. IsFiniteSet(U)
  BY <1>1, ElementsFinite, FS_Subset
<1>3. k \in Nat /\ ExistsBijection(1 .. k, U)
  BY <1>2, FS_CardinalityType
<1>. HIDE DEF k, U
<1>4. PICK f \in Bijection(1 .. k, U) : TRUE
  BY <1>3 DEF ExistsBijection
<1>5. f \in [1 .. k -> U] /\ IsInjective(f)
  BY <1>4 DEF Bijection, Injection
<1> DEFINE g == [i \in 1 .. count |-> f[i]]
<1>6. 1 .. count \subseteq 1 .. k
  <2>1. count <= k
    BY DEF k, U
  <2>. QED
    BY <1>3, <2>1
<1>7. g \in [1 .. count -> U] /\ IsInjective(g)
  BY <1>5, <1>6 DEF IsInjective
<1>8. new \in [1 .. count -> U] /\ IsInjective(new)
  BY <1>7 DEF NewEntries, U
<1>. HIDE DEF new
<1>9. new \in Seq(Elements) /\ Len(new) = count
  BY <1>1, <1>8
<1>10. ToSet(new) \subseteq U
  BY <1>8 DEF ToSet
<1>. QED
  BY <1>8, <1>9, <1>10 DEF new, U

\* An unused entry is the first new one.
LEMMA NewEntryIs ==
    ASSUME Unused # {}
    PROVE  Head(NewEntries(1)) \in Unused
<1>1. Unused \subseteq Elements
  BY DEF Unused, Elements
<1>2. IsFiniteSet(Unused)
  BY <1>1, ElementsFinite, FS_Subset
<1>3. Cardinality(Unused) \in Nat /\ Cardinality(Unused) # 0
  BY <1>2, FS_CardinalityType, FS_EmptySet
<1>4. 1 <= Cardinality(Unused)
  BY <1>3
<1> DEFINE new == NewEntries(1)
<1>5. new \in Seq(Elements) /\ Len(new) = 1 /\ ToSet(new) \subseteq Unused
  BY <1>4, NewEntriesAre
<1>. HIDE DEF new
<1>6. Head(new) = new[1] /\ 1 \in DOMAIN new
  BY <1>5
<1>7. new[1] \in ToSet(new)
  BY <1>6 DEF ToSet
<1>. QED
  BY <1>5, <1>6, <1>7 DEF new

\* The rows after new ones are appended, and their marks.
IsAppended(t, s, new) ==
    /\ t \in Seq(Elements) /\ Len(t) = Len(s) + Len(new)
    /\ \A n \in Nat : n \in Positions(t) <=> n < Len(s) + Len(new)
    /\ \A n \in Positions(s) : n \in Positions(t) /\ At(t, n) = At(s, n)
    /\ \A n \in Positions(t) : n \notin Positions(s) => At(t, n) \in ToSet(new)
    /\ ToSet(t) = ToSet(s) \cup ToSet(new)

\* \o appends rows.
LEMMA RowsAppended ==
    ASSUME NEW s \in Seq(Elements), NEW new \in Seq(Elements)
    PROVE  IsAppended(s \o new, s, new)
<1> DEFINE t == s \o new
           N == Len(s)
           K == Len(new)
<1>1. N \in Nat /\ K \in Nat /\ DOMAIN s = 1 .. N /\ DOMAIN new = 1 .. K
  OBVIOUS
<1>2. t \in Seq(Elements) /\ Len(t) = N + K
  BY <1>1
<1>3. \A i \in 1 .. N + K : t[i] = IF i <= N THEN s[i] ELSE new[i - N]
  BY <1>1
<1>. HIDE DEF t, N, K
<1>4. \A n \in Nat : n \in Positions(s) <=> n < N
  BY PositionsOf DEF N
<1>5. \A n \in Nat : n \in Positions(t) <=> n < N + K
  BY <1>2, PositionsOf
<1>6. Positions(s) \in SUBSET Nat /\ Positions(t) \in SUBSET Nat
  BY <1>2, PositionsOf
<1>7. ASSUME NEW n \in Positions(s) PROVE n \in Positions(t) /\ At(t, n) = At(s, n)
  <2>1. n \in Nat /\ n < N
    BY <1>4, <1>6
  <2>2. n + 1 \in 1 .. N + K /\ n + 1 <= N /\ n < N + K
    BY <1>1, <2>1
  <2>. QED
    BY <1>3, <1>5, <2>1, <2>2 DEF At
<1>8. ASSUME NEW n \in Positions(t), n \notin Positions(s) PROVE At(t, n) \in ToSet(new)
  <2>1. n \in Nat /\ n < N + K /\ ~(n < N)
    BY <1>4, <1>5, <1>6, <1>8
  <2>2. n + 1 \in 1 .. N + K /\ ~(n + 1 <= N) /\ (n + 1) - N \in 1 .. K
    BY <1>1, <2>1
  <2>3. At(t, n) = new[(n + 1) - N]
    BY <1>3, <2>2 DEF At
  <2>. QED
    BY <1>1, <2>2, <2>3 DEF ToSet
<1>9. ToSet(t) = ToSet(s) \cup ToSet(new)
  <2>1. ToSet(t) = {At(t, n) : n \in Positions(t)}
    BY <1>2, PositionsOf
  <2>2. ToSet(s) = {At(s, n) : n \in Positions(s)}
    BY PositionsOf
  <2>3. ASSUME NEW x \in ToSet(new) PROVE x \in ToSet(t)
    <3>1. PICK i \in 1 .. K : x = new[i]
      BY <1>1 DEF ToSet
    <3>2. N + i \in 1 .. N + K /\ ~(N + i <= N) /\ (N + i) - N = i
      BY <1>1
    <3>3. t[N + i] = x
      BY <1>3, <3>1, <3>2
    <3>4. N + i \in DOMAIN t
      BY <1>1, <1>2, <3>2
    <3>. QED
      BY <3>3, <3>4 DEF ToSet
  <2>. QED
    BY <1>7, <1>8, <2>1, <2>2, <2>3
<1>. QED
  BY <1>2, <1>5, <1>7, <1>8, <1>9 DEF t, N, K, IsAppended

\* The rows are distinct when the new ones are.
LEMMA CollectionAppended ==
    ASSUME NEW s, IsCollection(s), NEW new, IsCollection(new), ToSet(s) \cap ToSet(new) = {}
    PROVE  IsCollection(s \o new)
<1> DEFINE t == s \o new
           N == Len(s)
           K == Len(new)
<1>1. /\ s \in Seq(Elements) /\ new \in Seq(Elements)
      /\ N \in Nat /\ K \in Nat /\ DOMAIN s = 1 .. N /\ DOMAIN new = 1 .. K
  BY DEF IsCollection
<1>2. t \in Seq(Elements) /\ DOMAIN t = 1 .. N + K
  BY <1>1
<1>3. \A i \in 1 .. N + K : t[i] = IF i <= N THEN s[i] ELSE new[i - N]
  BY <1>1
<1>. HIDE DEF t, N, K
<1>4. ASSUME NEW i \in 1 .. N + K, NEW j \in 1 .. N + K, t[i] = t[j] PROVE i = j
  <2>1. \A x \in 1 .. N : s[x] \in ToSet(s)
    BY <1>1 DEF ToSet
  <2>2. \A x \in 1 .. K : new[x] \in ToSet(new)
    BY <1>1 DEF ToSet
  <2>3. \A x, y \in 1 .. N : s[x] = s[y] => x = y
    BY <1>1 DEF IsCollection, IsInjective
  <2>4. \A x, y \in 1 .. K : new[x] = new[y] => x = y
    BY <1>1 DEF IsCollection, IsInjective
  <2>5. \A x \in 1 .. N + K : x <= N => x \in 1 .. N /\ t[x] = s[x]
    BY <1>1, <1>3
  <2>6. \A x \in 1 .. N + K : ~(x <= N) => x - N \in 1 .. K /\ t[x] = new[x - N]
    BY <1>1, <1>3
  <2>7. CASE i <= N /\ j <= N
    BY <1>4, <2>3, <2>5, <2>7
  <2>8. CASE ~(i <= N) /\ ~(j <= N)
    <3>1. i - N = j - N
      BY <1>4, <2>4, <2>6, <2>8
    <3>. QED
      BY <1>1, <3>1
  <2>9. CASE i <= N /\ ~(j <= N)
    BY <1>4, <2>1, <2>2, <2>5, <2>6, <2>9
  <2>10. CASE ~(i <= N) /\ j <= N
    BY <1>4, <2>1, <2>2, <2>5, <2>6, <2>10
  <2>. QED
    BY <2>7, <2>8, <2>9, <2>10
<1>5. IsCollection(t)
  BY <1>2, <1>4 DEF IsCollection, IsInjective
<1>. QED
  BY <1>5 DEF t

\* The marks stay, the new rows have none.
LEMMA MarksAppended ==
    ASSUME NEW s \in Seq(Elements), NEW new \in Seq(Elements), ToSet(s) \cap ToSet(new) = {},
           NEW M, NEW known, NEW X, Marked(M, s, X, known)
    PROVE  Marked(M, s \o new, X \ ToSet(new), known)
<1> DEFINE t == s \o new
<1>1. IsAppended(t, s, new)
  BY RowsAppended
<1>2. \A n \in Positions(s) : At(s, n) \in ToSet(s)
  BY PositionsOf
<1>. HIDE DEF t
<1>3. /\ \A n \in Positions(s) : n \in Positions(t) /\ At(t, n) = At(s, n)
      /\ \A n \in Positions(t) : n \notin Positions(s) => At(t, n) \in ToSet(new)
  BY <1>1 DEF IsAppended
<1>4. M \subseteq Positions(t)
  BY <1>3 DEF Marked
<1>5. ASSUME NEW n \in Positions(t), At(t, n) \in ToSet(known)
      PROVE  n \in M <=> At(t, n) \in X \ ToSet(new)
  <2>1. CASE n \in Positions(s)
    <3>1. At(t, n) = At(s, n) /\ At(s, n) \notin ToSet(new)
      BY <1>2, <1>3, <2>1
    <3>. QED
      BY <1>5, <2>1, <3>1 DEF Marked
  <2>2. CASE n \notin Positions(s)
    BY <1>3, <2>2 DEF Marked
  <2>. QED
    BY <2>1, <2>2
<1>6. Marked(M, t, X \ ToSet(new), known)
  BY <1>4, <1>5 DEF Marked
<1>. QED
  BY <1>6 DEF t

\* Nothing is behind the end.
LEMMA ShiftedAtEnd ==
    ASSUME NEW S \in SUBSET Nat, NEW N \in Nat, \A x \in S : x < N, NEW k
    PROVE  Ix!ShiftForInsertAt(S, N, k) = S
  BY DEF Ix!ShiftForInsertAt, Ix!Before

\* The new rows are inserted, nothing moves.
IsAppend(d, c, N, count) ==
    /\ IsChanges(d) /\ d.deletions = c.deletions
    /\ d.insertions = c.insertions \cup N .. N + count - 1
    /\ d.modifications = c.modifications /\ d.moves = <<>>
    /\ DOMAIN d.mapping = DOMAIN c.mapping
    /\ \A n \in DOMAIN c.mapping : d.mapping[n] = c.mapping[n]

\* So does insert at the end of a table.
LEMMA InsertIs ==
    ASSUME NEW c, IsChanges(c), NEW N \in Nat, NEW count,
           c.moves = <<>>, DOMAIN c.mapping \in SUBSET Nat, \A n \in DOMAIN c.mapping : n < N,
           c.insertions \in SUBSET Nat, \A n \in c.insertions : n < N,
           c.modifications \in SUBSET Nat, \A n \in c.modifications : n < N
    PROVE  IsAppend(insert(c, N, count, TRUE), c, N, count)
<1> DEFINE d == insert(c, N, count, TRUE)
           moved(ndx) == IF ndx >= N THEN ndx + count ELSE ndx
           map == [n \in {moved(k) : k \in DOMAIN c.mapping} |->
                     c.mapping[IF n >= N THEN n - count ELSE n]]
           M2 == Ix!ShiftForInsertAt(c.modifications, N, count)
           I2 == Ix!InsertAt(c.insertions, N, count)
           moves == Retargeted(c.moves, moved)
<1>1. c = [deletions |-> c.deletions, insertions |-> c.insertions,
           modifications |-> c.modifications, moves |-> c.moves, mapping |-> c.mapping]
  BY DEF IsChanges
<1>2. \A k \in DOMAIN c.mapping : ~(k >= N)
  OBVIOUS
<1>3. DOMAIN map = DOMAIN c.mapping /\ \A n \in DOMAIN c.mapping : map[n] = c.mapping[n]
  <2>1. {moved(k) : k \in DOMAIN c.mapping} = DOMAIN c.mapping
    BY <1>2
  <2>. QED
    BY <1>2, <2>1
<1>4. moves = <<>>
  BY DEF Retargeted
<1>5. M2 = c.modifications
  BY ShiftedAtEnd
<1>6. I2 = c.insertions \cup N .. N + count - 1
  BY ShiftedAtEnd DEF Ix!InsertAt
<1>7. d = [[c EXCEPT !.modifications = M2] EXCEPT
              !.insertions = I2, !.moves = moves, !.mapping = map]
  <2>1. d = [[c EXCEPT !.modifications = Ix!ShiftForInsertAt(@, N, count)] EXCEPT
                !.insertions = Ix!InsertAt(@, N, count),
                !.moves = Retargeted(@, moved), !.mapping = map]
    BY DEF insert
  <2>. HIDE DEF d, map, moved
  <2> DEFINE e == [c EXCEPT !.modifications = M2]
  <2>2. e.insertions = c.insertions /\ e.moves = c.moves
    BY <1>1
  <2>. QED
    BY <1>1, <2>1, <2>2
<1>. HIDE DEF d, map, moved, moves, M2, I2
<1>8. d = [deletions |-> c.deletions, insertions |-> I2, modifications |-> M2,
           moves |-> moves, mapping |-> map]
  BY <1>1, <1>7
<1>9. IsChanges(d) /\ d.deletions = c.deletions /\ d.insertions = I2 /\ d.modifications = M2
      /\ d.moves = moves /\ d.mapping = map
  BY <1>8 DEF IsChanges
<1>. QED
  BY <1>3, <1>4, <1>5, <1>6, <1>9 DEF d, IsAppend

\* d and t are the change set and the collection after rows are appended.
AreAppended(d, t, c, new, rows) ==
    d = insert(c, Len(new), Len(rows), TRUE) /\ t = new \o rows

\* The change set after new rows are appended.
LEMMA TableAppend ==
    ASSUME NEW old, IsCollection(old), NEW new, IsCollection(new), NEW c, TableExplains(c, old, new),
           c.modifications \subseteq Positions(new),
           NEW rows \in Seq(Elements), \A x \in ToSet(rows) : x \notin ToSet(old),
           NEW d, NEW t, AreAppended(d, t, c, new, rows)
    PROVE  TableExplains(d, old, t) /\ d.modifications = c.modifications
<1>. d = insert(c, Len(new), Len(rows), TRUE) /\ t = new \o rows
  BY DEF AreAppended
<1> DEFINE N == Len(new)
           k == Len(rows)
           D == c.deletions
           I == c.insertions
           m == c.mapping
           I2 == I \cup N .. N + k - 1
<1>1. /\ IsChanges(c) /\ c.moves = <<>>
      /\ KeepsRows(D, I, old, new) /\ SameRows(I, old, new)
      /\ DOMAIN m \subseteq I /\ \A n \in I : MapsRow(m, n, old, new)
  BY DEF TableExplains, MapsRows
<1>2. /\ new \in Seq(Elements) /\ Positions(new) \in SUBSET Nat /\ N \in Nat
      /\ \A n \in Nat : n \in Positions(new) <=> n < N
  BY PositionsOf DEF IsCollection
<1>3. k \in Nat
  OBVIOUS
<1>4. IsAppended(t, new, rows)
  BY <1>2, RowsAppended
<1>5. /\ \A n \in Nat : n \in Positions(t) <=> n < N + k
      /\ \A n \in Positions(new) : n \in Positions(t) /\ At(t, n) = At(new, n)
      /\ \A n \in Positions(t) : n \notin Positions(new) => At(t, n) \in ToSet(rows)
      /\ t \in Seq(Elements)
  BY <1>4 DEF IsAppended
<1>6. Positions(t) \in SUBSET Nat /\ Positions(old) \in SUBSET Nat
  BY <1>5, PositionsOf DEF IsCollection
<1>. HIDE DEF N, k
<1>7. /\ D \in SUBSET Nat /\ IsFiniteSet(D) /\ I \in SUBSET Positions(new)
      /\ \A n \in Positions(new) \ I : n \in Positions(old) \ D
      /\ \A n \in Positions(old) : n \notin Positions(new) \/ n \in I => n \in D
  BY <1>1 DEF KeepsRows
<1>8. /\ IsChanges(d) /\ d.deletions = D /\ d.insertions = I2
      /\ d.modifications = c.modifications /\ d.moves = <<>>
      /\ DOMAIN d.mapping = DOMAIN m /\ \A n \in DOMAIN m : d.mapping[n] = m[n]
  <2>1. /\ I \in SUBSET Nat /\ \A n \in I : n < N
        /\ DOMAIN m \in SUBSET Nat /\ \A n \in DOMAIN m : n < N
        /\ c.modifications \in SUBSET Nat /\ \A n \in c.modifications : n < N
    BY <1>1, <1>2, <1>7
  <2>2. IsAppend(insert(c, N, k, TRUE), c, N, k)
    BY <1>1, <1>2, <2>1, InsertIs
  <2>3. IsAppend(d, c, N, k)
    BY <2>2 DEF N, k
  <2>. QED
    BY <2>3 DEF IsAppend
<1>9. \A n \in N .. N + k - 1 : n \in Positions(t) /\ n \notin Positions(new)
  BY <1>2, <1>3, <1>5
<1>10. \A n \in Positions(t) : n \in Positions(new) \/ n \in N .. N + k - 1
  BY <1>2, <1>3, <1>5, <1>6
<1>. HIDE DEF I, D, m
<1>11. KeepsRows(D, I2, old, t)
  <2>1. I2 \in SUBSET Positions(t)
    BY <1>5, <1>7, <1>9
  <2>2. \A n \in Positions(t) \ I2 : n \in Positions(old) \ D
    BY <1>7, <1>10
  <2>3. \A n \in Positions(old) : n \notin Positions(t) \/ n \in I2 => n \in D
    BY <1>5, <1>7, <1>9
  <2>. QED
    BY <1>7, <2>1, <2>2, <2>3 DEF KeepsRows
<1>12. SameRows(I2, old, t)
  BY <1>1, <1>5, <1>10 DEF SameRows
<1>13. ASSUME NEW n \in I2 PROVE MapsRow(d.mapping, n, old, t)
  <2>1. CASE n \in I
    <3>1. MapsRow(m, n, old, new) /\ At(t, n) = At(new, n)
      BY <1>1, <1>5, <1>7, <2>1
    <3>. QED
      BY <1>8, <3>1 DEF MapsRow
  <2>2. CASE n \in N .. N + k - 1
    <3>1. n \notin Positions(new) /\ At(t, n) \in ToSet(rows)
      BY <1>5, <1>9, <2>2
    <3>2. n \notin DOMAIN m
      BY <1>1, <1>7, <3>1
    <3>. QED
      BY <1>8, <3>1, <3>2 DEF MapsRow
  <2>. QED
    BY <2>1, <2>2
<1>14. MapsRows(d.mapping, I2, old, t)
  BY <1>1, <1>8, <1>13 DEF MapsRows
<1>15. TableExplains(d, old, t)
  BY <1>8, <1>11, <1>12, <1>14 DEF TableExplains
<1>. QED
  BY <1>8, <1>15

\* The change set after a table is cleared: it is not known how long it was.
LEMMA TableClear ==
    ASSUME NEW old, IsCollection(old), Unknown \in Nat, Len(old) < Unknown, NEW c
    PROVE  LET d == clear(c, Unknown)
           IN  d = Cleared(Unknown) /\ TableExplains(d, old, <<>>)
<1> DEFINE d == clear(c, Unknown)
           D == 0 .. Unknown - 1
<1>1. d = Cleared(Unknown)
  BY DEF clear, Cleared
<1>2. Positions(old) \subseteq D
  <2>1. Len(old) \in Nat
    BY DEF IsCollection
  <2>. QED
    BY <2>1 DEF Positions
<1>3. /\ Explains(d, old, <<>>) /\ d.deletions = D /\ d.insertions = {}
      /\ d.moves = <<>> /\ d.mapping = <<>>
  BY <1>1, <1>2, ClearedExplains
<1>4. Positions(<<>>) = {}
  BY DEF Positions
<1>. HIDE DEF d, D
<1>5. IsChanges(d) /\ D \in SUBSET Nat /\ IsFiniteSet(D)
  BY <1>3 DEF Explains, Matches
<1>6. KeepsRows(D, {}, old, <<>>) /\ SameRows({}, old, <<>>)
  BY <1>2, <1>4, <1>5 DEF KeepsRows, SameRows
<1>7. MapsRows(<<>>, {}, old, <<>>)
  BY DEF MapsRows
<1>8. TableExplains(d, old, <<>>)
  BY <1>3, <1>5, <1>6, <1>7 DEF TableExplains
<1>. QED
  BY <1>1, <1>8 DEF d

\* parse_complete turns the mapping into moves, but for the rows that are back
\* where they were.
LEMMA TableComplete ==
    ASSUME NEW old, IsCollection(old), NEW new, IsCollection(new), NEW c, TableExplains(c, old, new)
    PROVE  LET d == parse_complete(c)
           IN  /\ Explains(d, old, new) /\ Sorted(d.moves)
               /\ d.modifications = c.modifications /\ d.mapping = <<>>
<1> DEFINE d == parse_complete(c)
           D == c.deletions
           I == c.insertions
           m == c.mapping
           real  == {n \in DOMAIN m : m[n] # n}
           still == DOMAIN m \ real
           B == {[from |-> m[n], to |-> n] : n \in real}
           D2 == D \ still
           I2 == I \ still
           empty == <<>>
<1>1. /\ IsChanges(c) /\ c.moves = <<>>
      /\ KeepsRows(D, I, old, new) /\ SameRows(I, old, new)
      /\ DOMAIN m \subseteq I /\ \A n \in I : MapsRow(m, n, old, new)
  BY DEF TableExplains, MapsRows
<1>2. /\ Positions(old) \in SUBSET Nat /\ \A n \in Nat : n \in Positions(old) <=> n < Len(old)
      /\ Len(old) \in Nat
  BY PositionsOf DEF IsCollection
<1>3. /\ Positions(new) \in SUBSET Nat /\ \A n \in Nat : n \in Positions(new) <=> n < Len(new)
      /\ Len(new) \in Nat
  BY PositionsOf DEF IsCollection
<1>4. \A i, j \in Positions(old) : At(old, i) = At(old, j) => i = j
  BY DistinctEntries DEF IsCollection
<1>5. \A i, j \in Positions(new) : At(new, i) = At(new, j) => i = j
  BY DistinctEntries DEF IsCollection
<1>6. \A n \in Positions(old) : At(old, n) \in ToSet(old)
  BY PositionsOf DEF IsCollection
<1>7. /\ IsChanges(d) /\ d.deletions = D2 /\ d.insertions = I2 /\ d.modifications = c.modifications
      /\ d.moves = ByOldRow(B) /\ d.mapping = <<>>
  <2>1. c = [deletions |-> D, insertions |-> I, modifications |-> c.modifications,
             moves |-> c.moves, mapping |-> m]
    BY <1>1 DEF IsChanges
  <2> DEFINE moves == ByOldRow(ToSet(c.moves) \cup B)
  <2>2. d = [c EXCEPT !.moves = moves, !.deletions = D2, !.insertions = I2, !.mapping = empty]
    BY DEF parse_complete
  <2>3. ToSet(c.moves) \cup B = B
    BY <1>1 DEF ToSet
  <2>4. moves = ByOldRow(B)
    BY <2>3
  <2>. HIDE DEF moves, D2, I2, empty, d, D, I, m
  <2>5. d = [deletions |-> D2, insertions |-> I2, modifications |-> c.modifications,
             moves |-> moves, mapping |-> empty]
    BY <2>1, <2>2
  <2>6. IsChanges(d) /\ d.deletions = D2 /\ d.insertions = I2 /\ d.modifications = c.modifications
        /\ d.moves = moves /\ d.mapping = empty
    BY <2>5 DEF IsChanges
  <2>. QED
    BY <2>4, <2>6 DEF empty
<1>. HIDE DEF d
<1>8. /\ D \in SUBSET Nat /\ IsFiniteSet(D) /\ I \in SUBSET Positions(new)
      /\ \A n \in Positions(new) \ I : n \in Positions(old) \ D
      /\ \A n \in Positions(old) : n \notin Positions(new) \/ n \in I => n \in D
  BY <1>1 DEF KeepsRows
<1>9. \A n \in Positions(new) \ I : At(old, n) = At(new, n)
  BY <1>1 DEF SameRows
<1>10. \A n \in DOMAIN m : m[n] \in Positions(old) /\ At(old, m[n]) = At(new, n)
  BY <1>1 DEF MapsRow
<1>11. \A n \in I : At(new, n) \in ToSet(old) => n \in DOMAIN m
  BY <1>1 DEF MapsRow
<1>12. \A n \in still : n \in I /\ n \in Positions(old) /\ At(old, n) = At(new, n)
  BY <1>1, <1>10
<1>13. \A n \in real : n \in DOMAIN m /\ m[n] # n
  OBVIOUS
<1>14. \A n \in DOMAIN m : n \in real \/ n \in still
  OBVIOUS
<1>15. \A n \in real : n \notin still
  OBVIOUS
<1>. HIDE DEF D, I, m, real, still
<1>16. ASSUME NEW n \in Positions(new) \ I2
       PROVE  n \in Positions(old) /\ n \notin D2 /\ At(old, n) = At(new, n)
  BY <1>8, <1>9, <1>12
<1>17. D2 \in SUBSET Nat /\ IsFiniteSet(D2) /\ I2 \in SUBSET Positions(new) /\ I2 \in SUBSET Nat
  BY <1>3, <1>8, FS_Difference
<1>18. ASSUME NEW n \in Positions(new) \ I2 PROVE OldIndex(D2, I2, n) = n
  <2>1. n \in Nat \ D2 /\ n \in Positions(old)
    BY <1>2, <1>16
  <2>2. ASSUME NEW x \in Nat, x < n PROVE x \in D2 <=> x \in I2
    <3>1. x \in Positions(old) /\ x \in Positions(new)
      BY <1>2, <1>3, <2>1, <2>2
    <3>. QED
      BY <1>8, <3>1
  <2>. HIDE DEF D2, I2
  <2>. QED
    BY <1>17, <2>1, <2>2, SameBelow DEF OldIndex
<1>19. ASSUME NEW k \in Positions(old) \ D2 PROVE k \in Positions(new) \ I2 /\ At(new, k) = At(old, k)
  BY <1>8, <1>9, <1>12
<1>20. Matches(D2, I2, old, new)
  <2>. HIDE DEF D2, I2
  <2>. QED
    BY <1>16, <1>17, <1>18, <1>19 DEF Matches
<1>21. \A n \in real : n \in Nat /\ m[n] \in Nat /\ m[n] < Len(old)
  BY <1>1, <1>2, <1>3, <1>8, <1>10, <1>13
<1>22. B \in SUBSET Move /\ \A b \in B : b.from < Len(old)
  BY <1>21 DEF Move
<1>23. \A a, b \in B : a.from = b.from => a = b
  <2> SUFFICES ASSUME NEW n \in real, NEW k \in real, m[n] = m[k] PROVE n = k
    OBVIOUS
  <2>1. At(new, n) = At(new, k) /\ n \in Positions(new) /\ k \in Positions(new)
    BY <1>1, <1>8, <1>10, <1>13
  <2>. QED
    BY <1>5, <2>1
<1>24. ASSUME NEW n \in real PROVE m[n] \in D2
  <2>1. n \in DOMAIN m /\ m[n] # n /\ n \in Positions(new) /\ m[n] \in Positions(old)
        /\ At(old, m[n]) = At(new, n)
    BY <1>1, <1>8, <1>10, <1>13
  <2>. QED
    BY <1>5, <1>19, <2>1
<1>25. ASSUME NEW f \in D2, f \in Positions(old), NEW t \in Positions(new), At(old, f) = At(new, t)
       PROVE  t \in real /\ m[t] = f
  <2>1. t \in I2
    BY <1>4, <1>16, <1>25
  <2>2. t \in DOMAIN m
    BY <1>6, <1>11, <1>25, <2>1
  <2>3. m[t] = f
    BY <1>4, <1>10, <1>25, <2>2
  <2>. QED
    BY <1>14, <2>1, <2>2, <2>3
<1>26. ASSUME NEW b \in Move PROVE b \in B <=> IsMove(b, D2, old, new)
  <2>1. b = [from |-> b.from, to |-> b.to]
    BY DEF Move
  <2>2. ASSUME b \in B PROVE IsMove(b, D2, old, new)
    <3>1. PICK n \in real : b = [from |-> m[n], to |-> n]
      BY <2>2
    <3>2. m[n] \in Positions(old) /\ n \in Positions(new) /\ At(old, m[n]) = At(new, n) /\ m[n] \in D2
      BY <1>1, <1>8, <1>10, <1>13, <1>24
    <3>3. b.from = m[n] /\ b.to = n
      BY <3>1
    <3>. HIDE DEF D2
    <3>. QED
      BY <3>2, <3>3 DEF IsMove
  <2>3. ASSUME IsMove(b, D2, old, new) PROVE b \in B
    <3>. HIDE DEF D2
    <3>1. b.to \in real /\ m[b.to] = b.from
      BY <1>25, <2>3 DEF IsMove
    <3>. QED
      BY <2>1, <3>1
  <2>. QED
    BY <2>2, <2>3
<1>. HIDE DEF B, D2, I2
<1>27. /\ ByOldRow(B) \in Seq(Move) /\ ToSet(ByOldRow(B)) = B /\ DistinctFroms(ByOldRow(B))
       /\ Sorted(ByOldRow(B))
  BY <1>2, <1>22, <1>23, MovesByOldRow
<1>28. Explains(d, old, new)
  BY <1>7, <1>20, <1>26, <1>27 DEF Explains
<1>. QED
  BY <1>7, <1>27, <1>28 DEF d

----------------------------------------------------------------------------
(* Instructions on a table whose moves are not tracked *)

\* Nothing but the deletions of clear and the marks is recorded.
Plain(c) ==
    /\ IsChanges(c) /\ c.deletions \in SUBSET Nat /\ IsFiniteSet(c.deletions)
    /\ c.insertions = {} /\ c.modifications \in SUBSET Nat
    /\ c.moves = <<>> /\ c.mapping = <<>>

\* Other marks.
LEMMA PlainMarks ==
    ASSUME NEW c, Plain(c), NEW S \in SUBSET Nat, NEW d, d = [c EXCEPT !.modifications = S]
    PROVE  Plain(d) /\ d.modifications = S
<1>1. c = [deletions |-> c.deletions, insertions |-> c.insertions,
           modifications |-> c.modifications, moves |-> c.moves, mapping |-> c.mapping]
  BY DEF Plain, IsChanges
<1>2. d = [deletions |-> c.deletions, insertions |-> c.insertions, modifications |-> S,
           moves |-> c.moves, mapping |-> c.mapping]
  BY <1>1
<1>3. IsChanges(d) /\ d.deletions = c.deletions /\ d.insertions = c.insertions
      /\ d.modifications = S /\ d.moves = c.moves /\ d.mapping = c.mapping
  BY <1>2 DEF IsChanges
<1>. QED
  BY <1>3 DEF Plain

\* modify: the row is marked.
LEMMA PlainModify ==
    ASSUME NEW c, Plain(c), NEW n \in Nat
    PROVE  LET d == modify(c, n)
           IN  Plain(d) /\ d.modifications = c.modifications \cup {n}
<1> DEFINE d == modify(c, n)
           S == c.modifications \cup {n}
<1>1. d = [c EXCEPT !.modifications = S]
  BY DEF modify
<1>2. S \in SUBSET Nat
  BY DEF Plain
<1>. HIDE DEF d, S
<1>3. Plain(d) /\ d.modifications = S
  BY <1>1, <1>2, PlainMarks
<1>. QED
  BY <1>3 DEF d, S

\* insert at the end: the marks stay.
LEMMA PlainInsert ==
    ASSUME NEW c, Plain(c), NEW N \in Nat, \A n \in c.modifications : n < N, NEW count
    PROVE  LET d == insert(c, N, count, FALSE)
           IN  Plain(d) /\ d.modifications = c.modifications
<1> DEFINE d == insert(c, N, count, FALSE)
           S == Ix!ShiftForInsertAt(c.modifications, N, count)
<1>1. d = [c EXCEPT !.modifications = S]
  BY DEF insert
<1>2. c.modifications \in SUBSET Nat
  BY DEF Plain
<1>3. S = c.modifications
  BY <1>2, ShiftedAtEnd
<1>. HIDE DEF d, S
<1>4. Plain(d) /\ d.modifications = S
  BY <1>1, <1>2, <1>3, PlainMarks
<1>. QED
  BY <1>3, <1>4 DEF d

\* move_over: the mark goes with the last row.
LEMMA PlainMoveOver ==
    ASSUME NEW c, Plain(c), NEW row \in Nat, NEW last
    PROVE  LET d == move_over(c, row, last, FALSE)
           IN  /\ Plain(d)
               /\ d.modifications = IF row = last THEN c.modifications \ {last}
                                    ELSE Carried(c.modifications, last, row)
<1> DEFINE d == move_over(c, row, last, FALSE)
           S == IF row = last THEN c.modifications \ {last}
                ELSE Carried(c.modifications, last, row)
<1>1. d = [c EXCEPT !.modifications = S]
  BY DEF move_over, EraseLast
<1>2. S \in SUBSET Nat
  BY DEF Plain, Carried
<1>. HIDE DEF d, S
<1>3. Plain(d) /\ d.modifications = S
  BY <1>1, <1>2, PlainMarks
<1>. QED
  BY <1>3 DEF d, S

\* swap: the marks go with the rows.
LEMMA PlainSwap ==
    ASSUME NEW c, Plain(c), NEW a \in Nat, NEW b \in Nat
    PROVE  LET d == swap(c, a, b, FALSE)
           IN  Plain(d) /\ d.modifications = MarksSwapped(c.modifications, a, b)
<1> DEFINE d == swap(c, a, b, FALSE)
           S == MarksSwapped(c.modifications, a, b)
<1>1. d = [c EXCEPT !.modifications = S]
  BY DEF swap, MarksSwapped
<1>2. S \in SUBSET Nat
  BY DEF Plain, MarksSwapped
<1>. HIDE DEF d, S
<1>3. Plain(d) /\ d.modifications = S
  BY <1>1, <1>2, PlainMarks
<1>. QED
  BY <1>3 DEF d, S

\* subsume: a marked row stays marked.
LEMMA PlainSubsume ==
    ASSUME NEW c, Plain(c), NEW from, NEW to \in Nat
    PROVE  LET d == subsume(c, from, to, FALSE)
           IN  /\ Plain(d)
               /\ d.modifications = IF from \in c.modifications THEN c.modifications \cup {to}
                                    ELSE c.modifications
<1> DEFINE d == subsume(c, from, to, FALSE)
           S == IF from \in c.modifications THEN c.modifications \cup {to} ELSE c.modifications
<1>1. d = [c EXCEPT !.modifications = S]
  BY DEF subsume
<1>2. S \in SUBSET Nat
  BY DEF Plain
<1>. HIDE DEF d, S
<1>3. Plain(d) /\ d.modifications = S
  BY <1>1, <1>2, PlainMarks
<1>. QED
  BY <1>3 DEF d, S

\* parse_complete has nothing to do.
LEMMA PlainComplete ==
    ASSUME NEW c, Plain(c)
    PROVE  Plain(parse_complete(c))
<1> DEFINE d == parse_complete(c)
           moves == ByOldRow(ToSet(c.moves) \cup
                      {[from |-> c.mapping[n], to |-> n] : n \in {k \in DOMAIN c.mapping : c.mapping[k] # k}})
           still == DOMAIN c.mapping \ {n \in DOMAIN c.mapping : c.mapping[n] # n}
           D2 == c.deletions \ still
           I2 == c.insertions \ still
           empty == <<>>
<1>1. c = [deletions |-> c.deletions, insertions |-> c.insertions,
           modifications |-> c.modifications, moves |-> c.moves, mapping |-> c.mapping]
  BY DEF Plain, IsChanges
<1>2. d = [c EXCEPT !.moves = moves, !.deletions = D2, !.insertions = I2, !.mapping = empty]
  BY DEF parse_complete
<1>3. DOMAIN c.mapping = {} /\ c.moves = <<>>
  BY DEF Plain
<1>4. moves = <<>>
  <2> DEFINE none == {}
  <2>1. ToSet(c.moves) \cup
          {[from |-> c.mapping[n], to |-> n] : n \in {k \in DOMAIN c.mapping : c.mapping[k] # k}} = none
    BY <1>3 DEF ToSet
  <2>2. moves = ByOldRow(none)
    BY <2>1
  <2>3. Cardinality(none) = 0
    BY FS_EmptySet
  <2>. HIDE DEF none, moves
  <2>4. 1 .. Cardinality(none) = {}
    BY <2>3
  <2>. QED
    BY <2>2, <2>4 DEF ByOldRow
<1>5. D2 = c.deletions /\ I2 = c.insertions
  BY <1>3
<1>. HIDE DEF moves, D2, I2, empty, d
<1>6. d = [deletions |-> D2, insertions |-> I2, modifications |-> c.modifications,
           moves |-> moves, mapping |-> empty]
  BY <1>1, <1>2
<1>7. IsChanges(d) /\ d.deletions = D2 /\ d.insertions = I2 /\ d.modifications = c.modifications
      /\ d.moves = moves /\ d.mapping = empty
  BY <1>6 DEF IsChanges
<1>8. Plain(d)
  BY <1>4, <1>5, <1>7 DEF Plain, empty
<1>. QED
  BY <1>8 DEF d

\* merge of such change sets.
LEMMA PlainMerge ==
    ASSUME NEW b, Plain(b), NEW c, Plain(c)
    PROVE  Plain(merge(b, c))
<1>1. CASE IsEmpty(c)
  BY <1>1 DEF merge
<1>2. CASE ~IsEmpty(c) /\ IsEmpty(b)
  BY <1>2 DEF merge
<1>3. CASE ~IsEmpty(c) /\ ~IsEmpty(b)
  <2> DEFINE D1 == b.deletions
             M1 == b.modifications
             D2 == c.deletions
             empty == <<>>
             none == {}
             D == MergedDeletions(D1, none, D2)
             r == Merged(b, c)
             S == Ix!ShiftForInsertAll(Ix!EraseAll(M1, D2), none)
             d == merge(b, c)
  <2>1. /\ IsChanges(b) /\ D1 \in SUBSET Nat /\ IsFiniteSet(D1) /\ M1 \in SUBSET Nat
        /\ b.insertions = none /\ b.moves = empty /\ b.mapping = empty
    BY DEF Plain
  <2>2. /\ D2 \in SUBSET Nat /\ IsFiniteSet(D2) /\ c.modifications \in SUBSET Nat
        /\ c.insertions = none /\ c.moves = empty
    BY DEF Plain
  <2>3. Len(empty) = 0 /\ DOMAIN empty = {} /\ ToSet(empty) = {}
    BY DEF ToSet
  <2>4. FollowMoves(b, c) = [moves |-> empty, new |-> c]
    <3>1. Len(b.moves) = 0
      BY <2>1, <2>3
    <3>. HIDE DEF empty
    <3>2. PICK after : after[0] = [moves |-> <<>>, new |-> c] /\ FollowMoves(b, c) = after[Len(b.moves)]
      BY <3>1, FollowLoop
    <3>. QED
      BY <3>1, <3>2 DEF empty
  <2>5. FollowMoves(b, c).moves = empty /\ FollowMoves(b, c).new = c
    BY <2>4
  <2>6. Left(b, c) = empty
    <3>1. Left(b, c) = LeaveOut(empty, {i \in DOMAIN empty : empty[i].from \in b.insertions})
      BY <2>2, <2>5 DEF Left
    <3>2. {i \in DOMAIN empty : empty[i].from \in b.insertions} = none
      BY <2>3
    <3>3. Cardinality(none) = 0
      BY FS_EmptySet
    <3>4. 1 .. Len(empty) - Cardinality(none) = {}
      BY <2>3, <3>3
    <3>5. Left(b, c) = LeaveOut(empty, none)
      BY <3>1, <3>2
    <3>. HIDE DEF none
    <3>. QED
      BY <3>4, <3>5 DEF LeaveOut
  <2>7. Joined(b, c) = empty
    BY <2>5, <2>6 DEF Joined
  <2>8. StillModified(b, Left(b, c)) = {}
    BY <2>6 DEF StillModified, ToSet
  <2>9. none \in SUBSET Nat /\ IsFiniteSet(none)
    BY FS_EmptySet
  <2>10. D \in SUBSET Nat /\ IsFiniteSet(D)
    <3>. HIDE DEF none
    <3>. QED
      BY <2>1, <2>2, <2>9, MergedSets
  <2>11. MergedInsertions(none, D2, none) = none
    BY MergedInsertionsAre
  <2>. HIDE DEF none, D, d, D1, D2, M1, empty
  <2>12. r = [deletions |-> D, insertions |-> none, modifications |-> M1,
              moves |-> empty, mapping |-> empty]
    <3>1. r = [b EXCEPT !.moves = empty, !.deletions = D, !.insertions = none]
      BY <2>1, <2>2, <2>7, <2>11 DEF Merged, D, D1, D2
    <3>2. b = [deletions |-> D1, insertions |-> none, modifications |-> M1,
               moves |-> empty, mapping |-> empty]
      BY <2>1 DEF IsChanges, D1, M1
    <3>. HIDE DEF r
    <3>. QED
      BY <3>1, <3>2
  <2>. HIDE DEF r
  <2>13. /\ r.moves = empty /\ r.modifications = M1
    BY <2>12
  <2>14. clean_up_stale_moves(r) = r
    <3>1. Len(r.moves) = 0
      BY <2>3, <2>13
    <3>2. PICK after : /\ after[0] = [r EXCEPT !.moves = <<>>]
                       /\ clean_up_stale_moves(r) = after[Len(r.moves)]
      BY <3>1, CleanUpLoop
    <3>3. clean_up_stale_moves(r) = [r EXCEPT !.moves = empty]
      BY <3>1, <3>2 DEF empty
    <3>. QED
      BY <2>12, <3>3
  <2>15. S \in SUBSET Nat
    <3>1. S = {OldIndex(none, D2, x) : x \in M1 \ D2}
      BY DEF Ix!ShiftForInsertAll, Ix!EraseAll, OldIndex
    <3>2. \A x \in M1 \ D2 : OldIndex(none, D2, x) \in Nat
      BY <2>1, <2>2, <2>9, OldIndexInverse
    <3>. QED
      BY <3>1, <3>2
  <2>16. d = [r EXCEPT !.modifications = S \cup c.modifications]
    <3>1. d = [clean_up_stale_moves(r) EXCEPT !.modifications =
                Ix!ShiftForInsertAll(Ix!EraseAll(@, D2), none) \cup c.modifications \cup {}]
      BY <1>3, <2>1, <2>2, <2>5, <2>8, MergeInParts DEF d, r, D2
    <3>2. d = [r EXCEPT !.modifications =
                Ix!ShiftForInsertAll(Ix!EraseAll(M1, D2), none) \cup c.modifications \cup {}]
      BY <2>13, <2>14, <3>1
    <3>. QED
      BY <3>2
  <2>. HIDE DEF S
  <2>17. d = [deletions |-> D, insertions |-> none, modifications |-> S \cup c.modifications,
              moves |-> empty, mapping |-> empty]
    BY <2>12, <2>16
  <2>18. IsChanges(d) /\ d.deletions = D /\ d.insertions = none
         /\ d.modifications = S \cup c.modifications /\ d.moves = empty /\ d.mapping = empty
    BY <2>17 DEF IsChanges
  <2>19. Plain(d)
    BY <2>2, <2>10, <2>15, <2>18 DEF Plain, none, empty
  <2>. QED
    BY <2>19 DEF d
<1>. QED
  BY <1>1, <1>2, <1>3

----------------------------------------------------------------------------
(* The observed lists *)

\* A set of numbers up to N that holds all numbers before its members.
LEMMA Prefix ==
    ASSUME NEW N \in Nat, NEW T, T \subseteq 1 .. N, \A k \in T : \A i \in 1 .. k : i \in T
    PROVE  \E K \in 0 .. N : T = 1 .. K
<1> DEFINE C == {n \in 1 .. N + 1 : n \notin T}
<1>1. C \in SUBSET Nat /\ N + 1 \in C
  OBVIOUS
<1>. HIDE DEF C
<1>2. PICK x \in C : \A y \in C : x <= y
  BY <1>1, LeastNatural
<1>3. x \in 1 .. N + 1 /\ x \notin T
  BY DEF C
<1>4. \A i \in 1 .. x - 1 : i \in T
  <2> TAKE i \in 1 .. x - 1
  <2>1. i \in 1 .. N + 1 /\ ~(x <= i)
    BY <1>3
  <2>. QED
    BY <1>2, <2>1 DEF C
<1>5. \A i \in T : i \in 1 .. x - 1
  <2> TAKE i \in T
  <2>1. i \in 1 .. N
    OBVIOUS
  <2>2. ~(x <= i)
    <3>1. x <= i => x \in 1 .. i
      BY <1>3, <2>1
    <3>. QED
      BY <1>3, <3>1
  <2>. QED
    BY <1>3, <2>1, <2>2
<1>6. x - 1 \in 0 .. N
  BY <1>3
<1>7. T = 1 .. x - 1
  BY <1>4, <1>5
<1>. QED
  BY <1>6, <1>7

\* A list of one of the rows in B, as the handler has it.
ListOf(B) == [row: Nat, of: B, overlooked: BOOLEAN]

\* A list is at its row, unless it has been overlooked.
IsAt(l, entries) ==
    l.overlooked \/ (l.row \in Positions(entries) /\ At(entries, l.row) = l.of)

\* The handler's lists are lists of rows in B, and where they should be.
Tracked(ls, B, entries) ==
    ls \in Seq(ListOf(B)) /\ \A l \in DOMAIN ls : IsAt(ls[l], entries)

\* The fields of a list.
LEMMA ListFields ==
    ASSUME NEW B, NEW l \in ListOf(B)
    PROVE  /\ l.row \in Nat /\ l.of \in B /\ l.overlooked \in BOOLEAN
           /\ \A r \in Nat :
                LET k == [l EXCEPT !.row = r]
                IN  k \in ListOf(B) /\ k.row = r /\ k.of = l.of /\ k.overlooked = l.overlooked
           /\ LET k == [l EXCEPT !.overlooked = TRUE]
              IN  k \in ListOf(B) /\ k.overlooked
  BY DEF ListOf

\* The lists go with their rows.
LEMMA ListsMoved ==
    ASSUME NEW B, NEW s, NEW t, NEW ls, Tracked(ls, B, s), NEW g,
           \A n \in Nat : g[n] \in Nat,
           \A n \in Positions(s) : At(s, n) \in B =>
             g[n] \in Positions(t) /\ At(t, g[n]) = At(s, n),
           NEW after, after = [l \in DOMAIN ls |-> [ls[l] EXCEPT !.row = g[ls[l].row]]]
    PROVE  Tracked(after, B, t)
<1>1. Len(ls) \in Nat /\ DOMAIN ls = 1 .. Len(ls) /\ \A l \in DOMAIN ls : ls[l] \in ListOf(B)
  BY DEF Tracked
<1>2. ASSUME NEW l \in DOMAIN ls PROVE after[l] \in ListOf(B) /\ IsAt(after[l], t)
  <2> DEFINE r == g[ls[l].row]
             a == after[l]
  <2>1. ls[l] \in ListOf(B) /\ ls[l].row \in Nat /\ ls[l].of \in B
    BY <1>1, ListFields
  <2>2. r \in Nat /\ a = [ls[l] EXCEPT !.row = r]
    BY <2>1
  <2>. HIDE DEF r, a
  <2>3. a \in ListOf(B) /\ a.row = r /\ a.of = ls[l].of /\ a.overlooked = ls[l].overlooked
    BY <2>1, <2>2 DEF ListOf
  <2>4. IsAt(ls[l], s)
    BY DEF Tracked
  <2>5. IsAt(a, t)
    BY <2>1, <2>3, <2>4 DEF IsAt, r
  <2>. QED
    BY <2>3, <2>5 DEF a
<1>3. after \in Seq(ListOf(B))
  BY <1>1, <1>2
<1>. QED
  BY <1>2, <1>3 DEF Tracked

\* EraseListsOf: a list that replaces another one is overlooked, the others
\* are at their rows.
LEMMA ListsErased ==
    ASSUME NEW B, NEW s \in Seq(Elements), NEW row \in Positions(s), NEW ls, Tracked(ls, B, s)
    PROVE  Tracked(EraseListsOf(ls, row, Len(s) - 1), B, MovedOver(s, row))
<1> DEFINE last == Len(s) - 1
           t == MovedOver(s, row)
           N == Len(ls)
           Of(i) == {j \in 1 .. i : ls[j].row = row}
           E(i) == Cardinality(Of(i))
           T == {k \in DOMAIN ls : k + E(k) <= N}
           after == EraseListsOf(ls, row, last)
<1>1. N \in Nat /\ DOMAIN ls = 1 .. N /\ \A l \in 1 .. N : ls[l] \in ListOf(B)
  BY DEF Tracked
<1>2. \A l \in 1 .. N : IsAt(ls[l], s)
  BY <1>1 DEF Tracked
<1>3. DOMAIN after = T
      /\ \A i \in T : after[i] =
           IF ls[i].row = row THEN [ls[N + 1 - E(i)] EXCEPT !.overlooked = TRUE]
           ELSE IF ls[i].row = last THEN [ls[i] EXCEPT !.row = row]
           ELSE ls[i]
  BY DEF EraseListsOf
<1>4. IsMovedOver(t, s, row)
  BY RowMovedOver
<1>5. Positions(s) \in SUBSET Nat /\ row \in Nat
  BY PositionsOf
<1>. HIDE DEF t, after, last, N
<1>6. \A i \in Nat : IsFiniteSet(Of(i)) /\ E(i) \in Nat
  <2> TAKE i \in Nat
  <2>1. 1 \in Int /\ i \in Int
    OBVIOUS
  <2>2. IsFiniteSet(1 .. i)
    BY <2>1, FS_Interval
  <2>3. Of(i) \subseteq 1 .. i
    OBVIOUS
  <2>. HIDE DEF Of
  <2>. QED
    BY <2>2, <2>3, FS_Subset, FS_CardinalityType
<1>7. ASSUME NEW i \in Nat, NEW k \in Nat, i <= k PROVE E(i) <= E(k)
  <2>1. Of(i) \subseteq Of(k)
    BY <1>7
  <2>. HIDE DEF Of
  <2>. QED
    BY <1>6, <2>1, FS_Subset
<1>8. ASSUME NEW i \in 1 .. N, ls[i].row = row PROVE E(i) # 0
  <2>1. i \in Of(i) /\ i \in Nat
    BY <1>1, <1>8
  <2>2. IsFiniteSet(Of(i)) /\ Of(i) # {}
    BY <1>6, <2>1
  <2>. HIDE DEF Of
  <2>. QED
    BY <2>2, FS_EmptySet
<1>. HIDE DEF E, Of
<1>9. PICK K \in 0 .. N : T = 1 .. K
  <2>1. T \subseteq 1 .. N
    BY <1>1
  <2>2. ASSUME NEW k \in T, NEW i \in 1 .. k PROVE i \in T
    <3>1. k \in 1 .. N /\ k + E(k) <= N /\ i \in 1 .. N /\ i <= k
      BY <1>1
    <3>2. E(i) \in Nat /\ E(k) \in Nat /\ E(i) <= E(k)
      <4>1. i \in Nat /\ k \in Nat
        BY <1>1, <3>1
      <4>2. E(i) \in Nat /\ E(k) \in Nat
        BY <1>6, <4>1
      <4>3. E(i) <= E(k)
        BY <1>7, <3>1, <4>1
      <4>. QED
        BY <4>2, <4>3
    <3>3. i + E(i) <= N
      BY <1>1, <3>1, <3>2
    <3>. QED
      BY <1>1, <3>1, <3>3
  <2>. HIDE DEF T
  <2>. QED
    BY <1>1, <2>1, <2>2, Prefix
<1>10. \A i \in T : i \in 1 .. N /\ i + E(i) <= N
  BY <1>1
<1>. HIDE DEF T
<1>11. ASSUME NEW i \in T PROVE after[i] \in ListOf(B) /\ IsAt(after[i], t)
  <2>1. i \in 1 .. N /\ i \in Nat /\ E(i) \in Nat /\ ls[i] \in ListOf(B) /\ IsAt(ls[i], s)
    BY <1>1, <1>2, <1>6, <1>10
  <2>2. CASE ls[i].row = row
    <3> DEFINE x == N + 1 - E(i)
    <3>1. x \in 1 .. N
      BY <1>1, <1>8, <1>10, <2>1, <2>2
    <3>2. after[i] = [ls[x] EXCEPT !.overlooked = TRUE]
      BY <1>3, <2>2
    <3>. HIDE DEF x
    <3>3. ls[x] \in ListOf(B)
      BY <1>1, <3>1
    <3>4. after[i] \in ListOf(B) /\ after[i].overlooked
      BY <3>2, <3>3, ListFields
    <3>. QED
      BY <3>4 DEF IsAt
  <2>3. /\ \A n \in Nat : n \in Positions(t) <=> n \in Positions(s) /\ n # last
        /\ \A n \in Positions(t) : At(t, n) = IF n = row THEN At(s, last) ELSE At(s, n)
    BY <1>4 DEF IsMovedOver, last
  <2>4. CASE ls[i].row # row /\ ls[i].row = last
    <3> DEFINE a == after[i]
    <3>1. a = [ls[i] EXCEPT !.row = row]
      BY <1>3, <2>4
    <3>. HIDE DEF a
    <3>2. a \in ListOf(B) /\ a.row = row /\ a.of = ls[i].of /\ a.overlooked = ls[i].overlooked
      BY <1>5, <2>1, <3>1 DEF ListOf
    <3>3. row \in Positions(t) /\ At(t, row) = At(s, last)
      BY <1>5, <2>3, <2>4
    <3>4. IsAt(a, t)
      BY <2>1, <2>4, <3>2, <3>3 DEF IsAt
    <3>. QED
      BY <3>2, <3>4 DEF a
  <2>5. CASE ls[i].row # row /\ ls[i].row # last
    <3>1. after[i] = ls[i]
      BY <1>3, <2>5
    <3>2. ls[i].row \in Nat
      BY <2>1, ListFields
    <3>3. IsAt(ls[i], t)
      BY <2>1, <2>3, <2>5, <3>2 DEF IsAt
    <3>. QED
      BY <2>1, <3>1, <3>3
  <2>. QED
    BY <2>2, <2>4, <2>5
<1>12. after \in Seq(ListOf(B))
  <2>1. DOMAIN after = 1 .. K /\ K \in Nat
    BY <1>1, <1>3, <1>9
  <2>2. after = [i \in 1 .. K |-> after[i]]
    <3>1. after = [i \in {k \in DOMAIN ls : k + E(k) <= N} |->
            IF ls[i].row = row THEN [ls[N + 1 - E(i)] EXCEPT !.overlooked = TRUE]
            ELSE IF ls[i].row = last THEN [ls[i] EXCEPT !.row = row]
            ELSE ls[i]]
      BY DEF after, EraseListsOf, E, Of, N
    <3>2. after = [i \in DOMAIN after |-> after[i]]
      BY <3>1
    <3>. QED
      BY <2>1, <3>2
  <2>3. \A i \in 1 .. K : after[i] \in ListOf(B)
    BY <1>9, <1>11
  <2>. QED
    BY <2>1, <2>2, <2>3
<1>13. Tracked(after, B, t)
  BY <1>3, <1>11, <1>12 DEF Tracked
<1>. QED
  BY <1>13 DEF after, t, last

\* The lists stay where they are when rows are appended.
LEMMA ListsAppended ==
    ASSUME NEW B, NEW s \in Seq(Elements), NEW new \in Seq(Elements), NEW ls, Tracked(ls, B, s),
           NEW count \in Nat
    PROVE  Tracked([l \in DOMAIN ls |->
                      [ls[l] EXCEPT !.row = IF @ >= Len(s) THEN @ + count ELSE @]], B, s \o new)
<1> DEFINE N == Len(s)
           t == s \o new
           g == [n \in Nat |-> IF n >= N THEN n + count ELSE n]
           after == [l \in DOMAIN ls |-> [ls[l] EXCEPT !.row = IF @ >= N THEN @ + count ELSE @]]
<1>1. N \in Nat /\ Positions(s) \in SUBSET Nat /\ \A n \in Nat : n \in Positions(s) <=> n < N
  BY PositionsOf
<1>2. \A n \in Positions(s) : n \in Positions(t) /\ At(t, n) = At(s, n)
  BY RowsAppended DEF IsAppended
<1>. HIDE DEF N, t
<1>3. /\ \A n \in Nat : g[n] = IF n >= N THEN n + count ELSE n
      /\ \A n \in Nat : g[n] \in Nat
  BY <1>1
<1>4. \A l \in DOMAIN ls : ls[l] \in ListOf(B)
  BY DEF Tracked
<1>5. after = [l \in DOMAIN ls |-> [ls[l] EXCEPT !.row = g[ls[l].row]]]
  <2>1. \A l \in DOMAIN ls : g[ls[l].row] = IF ls[l].row >= N THEN ls[l].row + count ELSE ls[l].row
    BY <1>3, <1>4 DEF ListOf
  <2>. HIDE DEF g
  <2>. QED
    BY <2>1
<1>6. \A n \in Positions(s) : g[n] \in Positions(t) /\ At(t, g[n]) = At(s, n)
  <2> TAKE n \in Positions(s)
  <2>1. n \in Nat /\ ~(n >= N)
    BY <1>1
  <2>2. g[n] = n
    BY <1>3, <2>1
  <2>. QED
    BY <1>2, <2>2
<1>. HIDE DEF g, after
<1>7. Tracked(after, B, t)
  BY <1>3, <1>5, <1>6, ListsMoved, SMTT(30)
<1>. QED
  BY <1>7 DEF after, t, N

\* They change places with their rows.
LEMMA ListsSwapped ==
    ASSUME NEW B, NEW s, IsCollection(s), NEW a \in Positions(s), NEW b \in Positions(s), a < b,
           NEW ls, Tracked(ls, B, s)
    PROVE  Tracked([l \in DOMAIN ls |->
                      [ls[l] EXCEPT !.row = IF @ = a THEN b ELSE IF @ = b THEN a ELSE @]], B,
                   [s EXCEPT ![a + 1] = At(s, b), ![b + 1] = At(s, a)])
<1> DEFINE t == [s EXCEPT ![a + 1] = At(s, b), ![b + 1] = At(s, a)]
           g == [n \in Nat |-> IF n = a THEN b ELSE IF n = b THEN a ELSE n]
           after == [l \in DOMAIN ls |->
                      [ls[l] EXCEPT !.row = IF @ = a THEN b ELSE IF @ = b THEN a ELSE @]]
<1>1. Positions(s) \in SUBSET Nat /\ a \in Nat /\ b \in Nat
  BY PositionsOf DEF IsCollection
<1>2. /\ Positions(t) = Positions(s)
      /\ \A n \in Positions(s) : At(t, n) = At(s, IF n = a THEN b ELSE IF n = b THEN a ELSE n)
  BY RowsSwapped, ZenonT(60)
<1>. HIDE DEF t
<1>3. /\ \A n \in Nat : g[n] = IF n = a THEN b ELSE IF n = b THEN a ELSE n
      /\ \A n \in Nat : g[n] \in Nat
  BY <1>1
<1>4. \A l \in DOMAIN ls : ls[l] \in ListOf(B)
  BY DEF Tracked
<1>5. after = [l \in DOMAIN ls |-> [ls[l] EXCEPT !.row = g[ls[l].row]]]
  <2>1. \A l \in DOMAIN ls :
          g[ls[l].row] = IF ls[l].row = a THEN b ELSE IF ls[l].row = b THEN a ELSE ls[l].row
    BY <1>3, <1>4 DEF ListOf
  <2>. HIDE DEF g
  <2>. QED
    BY <2>1
<1>6. \A n \in Positions(s) : g[n] \in Positions(t) /\ At(t, g[n]) = At(s, n)
  <2> TAKE n \in Positions(s)
  <2>1. n \in Nat
    BY <1>1
  <2>2. CASE n = a
    <3>1. g[n] = b /\ At(t, b) = At(s, a)
      BY <1>1, <1>2, <1>3, <2>1, <2>2
    <3>. QED
      BY <1>2, <2>2, <3>1
  <2>3. CASE n # a
    BY <1>2, <1>3, <2>1, <2>3
  <2>. QED
    BY <2>2, <2>3
<1>. HIDE DEF g, after
<1>7. Tracked(after, B, t)
  BY <1>3, <1>5, <1>6, ListsMoved
<1>. QED
  BY <1>7 DEF after, t

\* The lists of the row that becomes a new one go there: the new row has none
\* that is observed.
LEMMA ListsMerged ==
    ASSUME NEW B, NEW s, IsCollection(s),
           NEW from \in Positions(s), NEW to \in Positions(s), At(s, to) \notin B,
           NEW ls, Tracked(ls, B, s)
    PROVE  LET moved == [l \in DOMAIN ls |-> [ls[l] EXCEPT !.row = IF @ = from THEN to ELSE @]]
           IN  Tracked(EraseListsOf(moved, from, Len(s) - 1), B,
                       MovedOver([s EXCEPT ![to + 1] = At(s, from)], from))
<1> DEFINE e == At(s, from)
           t == [s EXCEPT ![to + 1] = e]
           g == [n \in Nat |-> IF n = from THEN to ELSE n]
           moved == [l \in DOMAIN ls |-> [ls[l] EXCEPT !.row = IF @ = from THEN to ELSE @]]
<1>1. Positions(s) \in SUBSET Nat /\ from \in Nat /\ to \in Nat /\ e \in Elements
  BY PositionsOf DEF IsCollection
<1>2. IsReplaced(t, s, to, e)
  <2>1. t = [s EXCEPT ![to + 1] = e]
    OBVIOUS
  <2>. HIDE DEF e, t
  <2>. QED
    BY <1>1, <2>1, RowReplaced DEF IsCollection
<1>. HIDE DEF t
<1>3. /\ t \in Seq(Elements) /\ Len(t) = Len(s) /\ Positions(t) = Positions(s)
      /\ \A n \in Positions(s) : At(t, n) = IF n = to THEN At(s, from) ELSE At(s, n)
  BY <1>2 DEF IsReplaced
<1>4. /\ \A n \in Nat : g[n] = IF n = from THEN to ELSE n
      /\ \A n \in Nat : g[n] \in Nat
  BY <1>1
<1>5. \A l \in DOMAIN ls : ls[l] \in ListOf(B)
  BY DEF Tracked
<1>6. moved = [l \in DOMAIN ls |-> [ls[l] EXCEPT !.row = g[ls[l].row]]]
  <2>1. \A l \in DOMAIN ls : g[ls[l].row] = IF ls[l].row = from THEN to ELSE ls[l].row
    BY <1>4, <1>5 DEF ListOf
  <2>. HIDE DEF g
  <2>. QED
    BY <2>1
<1>7. ASSUME NEW n \in Positions(s), At(s, n) \in B
      PROVE  g[n] \in Positions(t) /\ At(t, g[n]) = At(s, n)
  <2>1. n \in Nat /\ n # to
    BY <1>1, <1>7
  <2>2. CASE n = from
    BY <1>3, <1>4, <2>1, <2>2
  <2>3. CASE n # from
    BY <1>3, <1>4, <2>1, <2>3
  <2>. QED
    BY <2>2, <2>3
<1>. HIDE DEF g, moved
<1>8. Tracked(moved, B, t)
  BY <1>4, <1>6, <1>7, ListsMoved
<1>9. Tracked(EraseListsOf(moved, from, Len(t) - 1), B, MovedOver(t, from))
  BY <1>3, <1>8, ListsErased
<1>. QED
  BY <1>3, <1>9 DEF moved, t

----------------------------------------------------------------------------
(* The inductive invariant *)

\* A list's moves are always tracked.
Kinds ==
    /\ collection \in {"list", "table"} /\ trackMoves \in BOOLEAN
    /\ IsList => trackMoves

\* The collections have distinct entries, and none comes back that was gone.
Collections ==
    /\ IsCollection(base) /\ IsCollection(middle) /\ IsCollection(now)
    /\ Len(middle) <= MaxLength[collection] /\ Len(now) <= MaxLength[collection]
    /\ ToSet(base) \cap ToSet(now) \subseteq ToSet(middle)

\* The merged changes explain the logs that are complete,
AreMerged(c, new) ==
    /\ c.mapping = <<>>
    /\ trackMoves => Explains(c, base, new)
    /\ IsList => c.deletions \subseteq Positions(base)
    /\ ~trackMoves => Plain(c)

\* and the changes read so far the log that is not.
AreRead(c, new) ==
    /\ IsList => /\ Explains(c, middle, new) /\ c.mapping = <<>>
                 /\ c.deletions \subseteq Positions(middle)
    /\ IsTable /\ trackMoves => TableExplains(c, middle, new)
    /\ ~trackMoves => Plain(c)

\* The marks of the log being read are exact, those of the merged changes for
\* the old entries.
MarksInv ==
    /\ modifiedBefore \subseteq Elements /\ modified \subseteq Elements
    /\ trackMoves => Marked(accumulated.modifications, middle, modifiedBefore, base)
    /\ Marked(changes.modifications, now, modified, Entries)

\* The inductive invariant: the two change sets, whose properties say nothing of
\* each other, and the collections between which they lie.
Inv ==
    /\ Kinds /\ Collections
    /\ AreMerged(accumulated, middle) /\ AreRead(changes, now)
    /\ MarksInv
    /\ Tracked(lists, ToSet(base), now) /\ (IsList => lists = <<>>)

\* What an instruction has to keep.
LEMMA InstructionStep ==
    ASSUME Inv, Instruction, IsCollection(now'), Len(now') <= MaxLength[collection],
           ToSet(now') \subseteq ToSet(now) \cup Unused, modified' \subseteq Elements,
           AreRead(changes', now'), Marked(changes'.modifications, now', modified', Entries),
           Tracked(lists', ToSet(base), now'), IsList => lists' = <<>>
    PROVE  Inv'
<1>1. UNCHANGED <<collection, trackMoves, base, middle, accumulated, modifiedBefore>>
  BY DEF Instruction
<1>2. Kinds' /\ AreMerged(accumulated, middle)'
  BY <1>1 DEF Inv, Kinds, AreMerged, IsList
<1>3. Collections'
  <2>1. ToSet(base) \cap ToSet(now') \subseteq ToSet(middle)
    BY DEF Inv, Collections, Unused
  <2>. QED
    BY <1>1, <2>1 DEF Inv, Collections
<1>4. MarksInv'
  BY <1>1 DEF Inv, MarksInv
<1>5. AreRead(changes, now)'
  BY <1>1 DEF AreRead, IsList, IsTable
<1>6. Tracked(lists, ToSet(base), now)' /\ (IsList => lists = <<>>)'
  BY <1>1 DEF IsList
<1>. QED
  BY <1>2, <1>3, <1>4, <1>5, <1>6 DEF Inv

\* Where nothing has changed, the empty change set explains it.
LEMMA NoChangeExplains ==
    ASSUME NEW s, IsCollection(s)
    PROVE  /\ Explains(NoChange, s, s) /\ TableExplains(NoChange, s, s) /\ Plain(NoChange)
           /\ NoChange.deletions = {} /\ NoChange.modifications = {} /\ NoChange.mapping = <<>>
           /\ \A known : Marked(NoChange.modifications, s, {}, known)
<1> DEFINE none == {}
<1>1. /\ IsChanges(NoChange) /\ NoChange.deletions = {} /\ NoChange.insertions = {}
      /\ NoChange.modifications = {} /\ NoChange.moves = <<>> /\ NoChange.mapping = <<>>
  BY DEF NoChange, IsChanges
<1>2. none \in SUBSET Nat /\ IsFiniteSet(none)
  BY FS_EmptySet
<1>3. Positions(s) \in SUBSET Nat
  BY PositionsOf DEF IsCollection
<1>4. \A n \in Nat : OldIndex(none, none, n) = n
  BY NothingRenumbered
<1>5. Matches(none, none, s, s)
  BY <1>2, <1>3, <1>4 DEF Matches
<1>6. <<>> \in Seq(Move) /\ DistinctFroms(<<>>) /\ ToSet(<<>>) = {}
  BY DEF DistinctFroms, ToSet
<1>7. \A m : ~IsMove(m, none, s, s)
  BY DEF IsMove
<1>8. Explains(NoChange, s, s)
  BY <1>1, <1>5, <1>6, <1>7 DEF Explains
<1>9. KeepsRows(none, none, s, s) /\ SameRows(none, s, s) /\ MapsRows(<<>>, none, s, s)
  BY <1>2 DEF KeepsRows, SameRows, MapsRows
<1>10. TableExplains(NoChange, s, s)
  BY <1>1, <1>9 DEF TableExplains
<1>11. Plain(NoChange)
  BY <1>1, <1>2 DEF Plain
<1>12. \A known : Marked({}, s, {}, known)
  BY DEF Marked
<1>. QED
  BY <1>1, <1>8, <1>10, <1>11, <1>12

\* The facts a step on a list starts from.
LEMMA ListFacts ==
    ASSUME Inv, ListInstruction
    PROVE  /\ IsCollection(middle) /\ IsCollection(now) /\ Explains(changes, middle, now)
           /\ changes.deletions \subseteq Positions(middle) /\ changes.mapping = <<>>
           /\ Marked(changes.modifications, now, modified, Entries) /\ modified \subseteq Elements
           /\ Len(now) \in Nat /\ Len(now) <= MaxLength[collection]
           /\ MaxLength[collection] \in Nat /\ MaxLength[collection] < Unknown /\ Unknown \in Nat
           /\ Positions(now) \in SUBSET Nat
           /\ \A n \in Positions(now) : At(now, n) \in Elements
<1>1. IsList
  BY DEF ListInstruction
<1>2. Len(now) \in Nat /\ Positions(now) \in SUBSET Nat
      /\ \A n \in Positions(now) : At(now, n) \in Elements
  BY PositionsOf DEF Inv, Collections, IsCollection
<1>3. /\ MaxLength[collection] \in Nat /\ MaxLength[collection] < Unknown /\ Unknown \in Nat
  <2>1. Len(Entries) \in Nat
    BY CollectionsAssumption
  <2>. QED
    BY <1>1, <2>1, CollectionsAssumption DEF IsList
<1>. QED
  BY <1>1, <1>2, <1>3 DEF Inv, Collections, AreRead, MarksInv

\* What an instruction on a list has to keep.
LEMMA ListStep ==
    ASSUME Inv, ListInstruction, IsCollection(now'), Len(now') <= MaxLength[collection],
           ToSet(now') \subseteq ToSet(now) \cup Unused, modified' \subseteq Elements,
           Explains(changes', middle, now'), changes'.deletions \subseteq Positions(middle),
           changes'.mapping = <<>>, Marked(changes'.modifications, now', modified', Entries)
    PROVE  Inv'
<1>1. IsList /\ ~IsTable /\ trackMoves /\ lists' = <<>> /\ Instruction
  BY DEF Inv, Kinds, ListInstruction, IsList, IsTable
<1>2. AreRead(changes', now')
  BY <1>1 DEF AreRead
<1>3. Tracked(lists', ToSet(base), now')
  <2>1. Tracked(<<>>, ToSet(base), now')
    BY DEF Tracked
  <2>. QED
    BY <1>1, <2>1
<1>. QED
  BY <1>1, <1>2, <1>3, InstructionStep

\* link_list_set marks the entry: the invariant is kept.
LEMMA StepSet ==
    ASSUME Inv, NEW index, link_list_set(index)
    PROVE  Inv'
<1>1. /\ ListInstruction /\ index \in Positions(now) /\ changes' = modify(changes, index)
      /\ modified' = modified \cup {At(now, index)} /\ now' = now
  BY DEF link_list_set
<1>2. /\ IsCollection(middle) /\ IsCollection(now) /\ Explains(changes, middle, now)
      /\ changes.deletions \subseteq Positions(middle) /\ changes.mapping = <<>>
      /\ Marked(changes.modifications, now, modified, Entries) /\ modified \subseteq Elements
      /\ Len(now) <= MaxLength[collection] /\ \A n \in Positions(now) : At(now, n) \in Elements
  BY <1>1, ListFacts
<1>3. /\ Explains(changes', middle, now')
      /\ changes'.deletions = changes.deletions /\ changes'.mapping = changes.mapping
      /\ Marked(changes'.modifications, now', modified', Entries)
  <2> DEFINE d == modify(changes, index)
  <2>1. changes' = d /\ now' = now /\ modified' = modified \cup {At(now, index)}
    BY <1>1
  <2>2. /\ Explains(d, middle, now)
        /\ d.deletions = changes.deletions /\ d.mapping = changes.mapping
        /\ Marked(d.modifications, now, modified \cup {At(now, index)}, Entries)
    BY <1>1, <1>2, ListModify
  <2>. HIDE DEF d
  <2>. QED
    BY <2>1, <2>2
<1>. QED
  BY <1>1, <1>2, <1>3, ListStep

\* link_list_swap marks both entries, which stay where they are.
LEMMA StepSwapEntries ==
    ASSUME Inv, NEW index1, NEW index2, link_list_swap(index1, index2)
    PROVE  Inv'
<1> DEFINE c == modify(changes, index1)
           X == modified \cup {At(now, index1)}
<1>1. /\ ListInstruction /\ index1 \in Positions(now) /\ index2 \in Positions(now)
      /\ changes' = modify(c, index2)
      /\ modified' = X \cup {At(now, index2)} /\ now' = now
  BY DEF link_list_swap
<1>2. /\ IsCollection(middle) /\ IsCollection(now) /\ Explains(changes, middle, now)
      /\ changes.deletions \subseteq Positions(middle) /\ changes.mapping = <<>>
      /\ Marked(changes.modifications, now, modified, Entries) /\ modified \subseteq Elements
      /\ Len(now) <= MaxLength[collection] /\ \A n \in Positions(now) : At(now, n) \in Elements
  BY <1>1, ListFacts
<1>3. /\ Explains(c, middle, now)
      /\ c.deletions = changes.deletions /\ c.mapping = changes.mapping
      /\ Marked(c.modifications, now, X, Entries)
  BY <1>1, <1>2, ListModify
<1>4. X \subseteq Elements
  BY <1>1, <1>2
<1>. HIDE DEF c, X
<1>5. /\ Explains(changes', middle, now')
      /\ changes'.deletions = c.deletions /\ changes'.mapping = c.mapping
      /\ Marked(changes'.modifications, now', modified', Entries)
  <2> DEFINE d == modify(c, index2)
  <2>1. changes' = d /\ now' = now /\ modified' = X \cup {At(now, index2)}
    BY <1>1
  <2>2. /\ Explains(d, middle, now)
        /\ d.deletions = c.deletions /\ d.mapping = c.mapping
        /\ Marked(d.modifications, now, X \cup {At(now, index2)}, Entries)
    BY <1>1, <1>2, <1>3, ListModify
  <2>. HIDE DEF d
  <2>. QED
    BY <2>1, <2>2
<1>. QED
  BY <1>1, <1>2, <1>3, <1>4, <1>5, ListStep

\* link_list_insert keeps the invariant: the later entries and moves shift.
LEMMA StepInsert ==
    ASSUME Inv, NEW index, link_list_insert(index)
    PROVE  Inv'
<1> DEFINE e == Head(NewEntries(1))
<1>1. /\ ListInstruction /\ index \in 0 .. Len(now) /\ Len(now) < MaxLength[collection]
      /\ now' = InsertAt(now, index + 1, e)
      /\ changes' = insert(changes, index, 1, TRUE) /\ modified' = modified \ {e}
      /\ Unused # {}
  BY DEF link_list_insert
<1>2. /\ IsCollection(middle) /\ IsCollection(now) /\ Explains(changes, middle, now)
      /\ changes.deletions \subseteq Positions(middle) /\ changes.mapping = <<>>
      /\ Marked(changes.modifications, now, modified, Entries) /\ modified \subseteq Elements
      /\ Len(now) \in Nat /\ MaxLength[collection] \in Nat
  BY <1>1, ListFacts
<1>3. e \in Unused
  BY <1>1, NewEntryIs
<1>. HIDE DEF e
<1>4. e \in Elements /\ e \notin ToSet(middle) /\ e \notin ToSet(now)
  BY <1>3 DEF Unused, Elements
<1>5. /\ Explains(changes', middle, now')
      /\ changes'.deletions = changes.deletions /\ changes'.mapping = <<>>
      /\ Marked(changes'.modifications, now', modified', Entries)
  <2> DEFINE d == insert(changes, index, 1, TRUE)
             after == InsertAt(now, index + 1, e)
  <2>1. changes' = d /\ now' = after /\ modified' = modified \ {e}
    BY <1>1
  <2>2. /\ Explains(d, middle, after)
        /\ d.deletions = changes.deletions /\ d.mapping = <<>>
        /\ Marked(d.modifications, after, modified \ {e}, Entries)
    BY <1>1, <1>2, <1>4, ListInsert
  <2>. HIDE DEF d, after
  <2>. QED
    BY <2>1, <2>2
<1>6. IsCollection(now') /\ ToSet(now') = ToSet(now) \cup {e}
  BY <1>1, <1>2, <1>4, CollectionInserted
<1>7. Len(now') <= MaxLength[collection]
  <2>1. IsInserted(now', now, index, e)
    BY <1>1, <1>2, <1>4, EntryInserted DEF IsCollection
  <2>2. Len(now') = Len(now) + 1
    BY <2>1 DEF IsInserted
  <2>. QED
    BY <1>1, <1>2, <2>2
<1>. QED
  BY <1>1, <1>2, <1>3, <1>5, <1>6, <1>7, ListStep

\* link_list_erase keeps it: an entry that was inserted or moved by the same log
\* leaves no insertion and no move behind.
LEMMA StepErase ==
    ASSUME Inv, NEW index, link_list_erase(index)
    PROVE  Inv'
<1>1. /\ ListInstruction /\ index \in Positions(now)
      /\ now' = RemoveAt(now, index + 1) /\ changes' = erase(changes, index)
      /\ modified' = modified
  BY DEF link_list_erase
<1>2. /\ IsCollection(middle) /\ IsCollection(now) /\ Explains(changes, middle, now)
      /\ changes.deletions \subseteq Positions(middle) /\ changes.mapping = <<>>
      /\ Marked(changes.modifications, now, modified, Entries) /\ modified \subseteq Elements
      /\ Len(now) \in Nat /\ Len(now) <= MaxLength[collection] /\ MaxLength[collection] \in Nat
  BY <1>1, ListFacts
<1>3. /\ Explains(changes', middle, now')
      /\ changes'.deletions \subseteq Positions(middle) /\ changes'.mapping = <<>>
      /\ Marked(changes'.modifications, now', modified', Entries)
  <2> DEFINE d == erase(changes, index)
             after == RemoveAt(now, index + 1)
  <2>1. changes' = d /\ now' = after /\ modified' = modified
    BY <1>1
  <2>2. /\ Explains(d, middle, after)
        /\ changes.deletions \subseteq Positions(middle) => d.deletions \subseteq Positions(middle)
        /\ d.mapping = changes.mapping
        /\ Marked(d.modifications, after, modified, Entries)
    BY <1>1, <1>2, ListErase
  <2>. HIDE DEF d, after
  <2>. QED
    BY <1>2, <2>1, <2>2
<1>4. IsCollection(now') /\ ToSet(now') = ToSet(now) \ {At(now, index)}
  BY <1>1, <1>2, CollectionRemoved
<1>5. Len(now') <= MaxLength[collection]
  <2>1. IsRemoved(now', now, index)
    BY <1>1, <1>2, EntryRemoved DEF IsCollection
  <2>2. Len(now') = Len(now) - 1
    BY <2>1 DEF IsRemoved
  <2>. QED
    BY <1>1, <1>2, <2>2
<1>. QED
  BY <1>1, <1>2, <1>3, <1>4, <1>5, ListStep

\* link_list_clear keeps it: every entry there was at the start of the log is
\* deleted, and none is moved.
LEMMA StepClear ==
    ASSUME Inv, link_list_clear
    PROVE  Inv'
<1>1. /\ ListInstruction /\ now' = <<>> /\ changes' = clear(changes, Len(now))
      /\ modified' = modified
  BY DEF link_list_clear
<1>2. /\ IsCollection(middle) /\ IsCollection(now) /\ Explains(changes, middle, now)
      /\ changes.deletions \subseteq Positions(middle)
      /\ modified \subseteq Elements /\ Len(now) \in Nat /\ Len(now) <= MaxLength[collection]
      /\ MaxLength[collection] \in Nat /\ MaxLength[collection] < Unknown /\ Unknown \in Nat
  BY <1>1, ListFacts
<1>3. Len(now) # Unknown
  BY <1>2
<1>4. /\ Explains(changes', middle, now')
      /\ changes'.deletions \subseteq Positions(middle) /\ changes'.mapping = <<>>
      /\ Marked(changes'.modifications, now', modified', Entries)
  BY <1>1, <1>2, <1>3, ListClear
<1>5. IsCollection(now') /\ ToSet(now') = {}
  <2>1. IsCollection(<<>>) /\ ToSet(<<>>) = {}
    BY DEF IsCollection, IsInjective, ToSet
  <2>. QED
    BY <1>1, <2>1
<1>6. Len(now') <= MaxLength[collection]
  BY <1>1, <1>2
<1>. QED
  BY <1>1, <1>2, <1>4, <1>5, <1>6, ListStep

\* link_list_move keeps it: an entry moved before, or inserted, is not moved
\* once more.
LEMMA StepMove ==
    ASSUME Inv, NEW from, NEW to, link_list_move(from, to)
    PROVE  Inv'
<1> DEFINE left == RemoveAt(now, from + 1)
           e == At(now, from)
<1>1. /\ ListInstruction /\ from \in Positions(now) /\ to \in Positions(now)
      /\ now' = InsertAt(left, to + 1, e) /\ changes' = move(changes, from, to)
      /\ modified' = modified
  BY DEF link_list_move
<1>2. /\ IsCollection(middle) /\ IsCollection(now) /\ Explains(changes, middle, now)
      /\ changes.deletions \subseteq Positions(middle) /\ changes.mapping = <<>>
      /\ Marked(changes.modifications, now, modified, Entries) /\ modified \subseteq Elements
      /\ Len(now) \in Nat /\ Len(now) <= MaxLength[collection] /\ MaxLength[collection] \in Nat
      /\ \A n \in Positions(now) : At(now, n) \in Elements
  BY <1>1, ListFacts
<1>3. /\ Explains(changes', middle, now') /\ IsCollection(now') /\ ToSet(now') = ToSet(now)
      /\ changes'.deletions \subseteq Positions(middle) /\ changes'.mapping = <<>>
      /\ Marked(changes'.modifications, now', modified', Entries)
  <2> DEFINE d == move(changes, from, to)
             after == InsertAt(left, to + 1, e)
  <2>1. changes' = d /\ now' = after /\ modified' = modified
    BY <1>1
  <2>2. /\ Explains(d, middle, after) /\ IsCollection(after) /\ ToSet(after) = ToSet(now)
        /\ changes.deletions \subseteq Positions(middle) => d.deletions \subseteq Positions(middle)
        /\ d.mapping = changes.mapping
        /\ Marked(d.modifications, after, modified, Entries)
    BY <1>1, <1>2, ListMove
  <2>. HIDE DEF d, after
  <2>. QED
    BY <1>2, <2>1, <2>2
<1>4. Len(now') <= MaxLength[collection]
  <2>1. IsRemoved(left, now, from)
    BY <1>1, <1>2, EntryRemoved DEF IsCollection
  <2>2. left \in Seq(Elements) /\ Len(left) = Len(now) - 1 /\ e \in Elements
    BY <1>1, <1>2, <2>1 DEF IsRemoved
  <2>. HIDE DEF left, e
  <2>3. to \in 0 .. Len(left)
    BY <1>1, <1>2, <2>2 DEF Positions
  <2>4. IsInserted(now', left, to, e)
    BY <1>1, <2>2, <2>3, EntryInserted
  <2>5. Len(now') = Len(left) + 1
    BY <2>4 DEF IsInserted
  <2>. QED
    BY <1>2, <2>2, <2>5
<1>. QED
  BY <1>1, <1>2, <1>3, <1>4, ListStep

\* The facts a step on a table starts from.
LEMMA TableFacts ==
    ASSUME Inv, TableInstruction
    PROVE  /\ IsCollection(middle) /\ IsCollection(now)
           /\ trackMoves = TRUE \/ trackMoves = FALSE
           /\ trackMoves => TableExplains(changes, middle, now)
           /\ ~trackMoves => Plain(changes)
           /\ Marked(changes.modifications, now, modified, Entries) /\ modified \subseteq Elements
           /\ Tracked(lists, ToSet(base), now)
           /\ Len(now) \in Nat /\ Len(now) <= MaxLength[collection]
           /\ Len(middle) \in Nat /\ Len(middle) <= MaxLength[collection]
           /\ MaxLength[collection] \in Nat /\ MaxLength[collection] < Unknown /\ Unknown \in Nat
           /\ now \in Seq(Elements) /\ middle \in Seq(Elements) /\ Positions(now) \in SUBSET Nat
           /\ \A n \in Positions(now) : At(now, n) \in Elements /\ At(now, n) \in ToSet(now)
<1>1. IsTable
  BY DEF TableInstruction
<1>2. IsCollection(middle) /\ IsCollection(now) /\ now \in Seq(Elements) /\ middle \in Seq(Elements)
  BY DEF Inv, Collections, IsCollection
<1>3. Len(now) \in Nat /\ Positions(now) \in SUBSET Nat
      /\ \A n \in Positions(now) : At(now, n) \in Elements /\ At(now, n) \in ToSet(now)
  BY <1>2, PositionsOf
<1>4. Len(middle) \in Nat
  BY <1>2
<1>5. /\ MaxLength[collection] \in Nat /\ MaxLength[collection] < Unknown /\ Unknown \in Nat
  <2>1. Len(Entries) \in Nat
    BY CollectionsAssumption
  <2>. QED
    BY <1>1, <2>1, CollectionsAssumption DEF IsTable
<1>6. trackMoves = TRUE \/ trackMoves = FALSE
  BY DEF Inv, Kinds
<1>. QED
  BY <1>1, <1>2, <1>3, <1>4, <1>5, <1>6 DEF Inv, Collections, AreRead, MarksInv

\* What an instruction on a table has to keep.
LEMMA TableStep ==
    ASSUME Inv, TableInstruction, IsCollection(now'), Len(now') <= MaxLength[collection],
           ToSet(now') \subseteq ToSet(now) \cup Unused, modified' \subseteq Elements,
           trackMoves => TableExplains(changes', middle, now'), ~trackMoves => Plain(changes'),
           Marked(changes'.modifications, now', modified', Entries),
           Tracked(lists', ToSet(base), now')
    PROVE  Inv'
<1>1. IsTable /\ ~IsList /\ Instruction
  BY DEF TableInstruction, IsList, IsTable
<1>2. AreRead(changes', now')
  BY <1>1 DEF AreRead
<1>. QED
  BY <1>1, <1>2, InstructionStep

\* mark_dirty marks the row, whether moves are tracked or not.
LEMMA StepMarkDirty ==
    ASSUME Inv, NEW row, mark_dirty(row)
    PROVE  Inv'
<1> DEFINE d == modify(changes, row)
           X == modified \cup {At(now, row)}
<1>1. /\ TableInstruction /\ row \in Positions(now) /\ changes' = d
      /\ modified' = X /\ now' = now /\ lists' = lists
  BY DEF mark_dirty
<1>2. /\ IsCollection(now) /\ Len(now) <= MaxLength[collection]
      /\ Marked(changes.modifications, now, modified, Entries) /\ modified \subseteq Elements
      /\ Tracked(lists, ToSet(base), now) /\ row \in Nat /\ At(now, row) \in Elements
  BY <1>1, TableFacts
<1>3. trackMoves => TableExplains(changes, middle, now)
  BY <1>1, TableFacts
<1>4. ~trackMoves => Plain(changes)
  BY <1>1, TableFacts
<1>5. trackMoves => TableExplains(d, middle, now) /\ d.modifications = changes.modifications \cup {row}
  BY <1>3, TableModify, ModifyIs DEF TableExplains
<1>6. ~trackMoves => Plain(d) /\ d.modifications = changes.modifications \cup {row}
  BY <1>2, <1>4, PlainModify
<1>7. Marked(changes.modifications \cup {row}, now, X, Entries)
  BY <1>1, <1>2, MarksModified
<1>8. X \subseteq Elements
  BY <1>2
<1>. HIDE DEF d, X
<1>. QED
  BY <1>1, <1>2, <1>5, <1>6, <1>7, <1>8, TableStep

\* insert_empty_rows keeps the invariant: the new rows are the last ones.
LEMMA StepInsertRows ==
    ASSUME Inv, NEW count \in Nat, insert_empty_rows(count)
    PROVE  Inv'
<1> DEFINE rows == NewEntries(count)
           N == Len(now)
           d == insert(changes, N, count, trackMoves)
           t == now \o rows
           M == changes.modifications
<1>1. /\ TableInstruction /\ N + count <= MaxLength[collection] /\ count <= Cardinality(Unused)
      /\ now' = t /\ changes' = d
      /\ lists' = [l \in DOMAIN lists |->
                    [lists[l] EXCEPT !.row = IF @ >= N THEN @ + count ELSE @]]
      /\ modified' = modified \ ToSet(rows)
  BY DEF insert_empty_rows
<1>2. /\ rows \in Seq(Elements) /\ Len(rows) = count /\ IsInjective(rows)
      /\ ToSet(rows) \subseteq Unused
  BY <1>1, NewEntriesAre
<1>3. /\ IsCollection(now) /\ IsCollection(middle) /\ N \in Nat /\ MaxLength[collection] \in Nat
      /\ now \in Seq(Elements) /\ Positions(now) \in SUBSET Nat
      /\ Marked(M, now, modified, Entries) /\ modified \subseteq Elements
      /\ Tracked(lists, ToSet(base), now) /\ (trackMoves = TRUE \/ trackMoves = FALSE)
  BY <1>1, TableFacts
<1>4. ToSet(rows) \cap ToSet(now) = {} /\ ToSet(rows) \cap ToSet(middle) = {}
      /\ ToSet(now) \cap ToSet(rows) = {}
  BY <1>2 DEF Unused
<1>. HIDE DEF rows
<1>5. M \subseteq Positions(now)
  BY <1>3 DEF Marked
<1>6. ASSUME trackMoves = TRUE PROVE TableExplains(d, middle, t) /\ d.modifications = M
  <2> DEFINE i == insert(changes, N, Len(rows), TRUE)
  <2>1. TableExplains(changes, middle, now)
    BY <1>1, <1>6, TableFacts
  <2>2. TableExplains(i, middle, t) /\ i.modifications = M
    <3>1. /\ IsCollection(middle) /\ IsCollection(now) /\ rows \in Seq(Elements)
          /\ changes.modifications \subseteq Positions(now)
          /\ \A x \in ToSet(rows) : x \notin ToSet(middle)
      BY <1>2, <1>3, <1>4, <1>5
    <3>2. AreAppended(i, t, changes, now, rows)
      BY DEF AreAppended
    <3>. HIDE DEF i, t, M
    <3>3. TableExplains(i, middle, t) /\ i.modifications = changes.modifications
      BY <2>1, <3>1, <3>2, TableAppend
    <3>. QED
      BY <3>3 DEF M
  <2>. QED
    BY <1>2, <1>6, <2>2
<1>7. ASSUME trackMoves = FALSE PROVE Plain(d) /\ d.modifications = M
  <2> DEFINE i == insert(changes, N, count, FALSE)
  <2>1. Plain(changes)
    BY <1>1, <1>7, TableFacts
  <2>2. \A n \in M : n < N
    <3>1. \A n \in Nat : n \in Positions(now) <=> n < N
      BY <1>3, PositionsOf
    <3>. QED
      BY <1>3, <1>5, <3>1
  <2>3. Plain(i) /\ i.modifications = M
    <3>. HIDE DEF N
    <3>. QED
      BY <1>3, <2>1, <2>2, PlainInsert
  <2>. QED
    BY <1>7, <2>3
<1>8. IsCollection(t)
  BY <1>2, <1>3, <1>4, CollectionAppended DEF IsCollection
<1>9. Marked(M, t, modified \ ToSet(rows), Entries)
  BY <1>2, <1>3, <1>4, MarksAppended
<1>10. Tracked([l \in DOMAIN lists |->
                  [lists[l] EXCEPT !.row = IF @ >= N THEN @ + count ELSE @]], ToSet(base), t)
  BY <1>2, <1>3, ListsAppended
<1>11. Len(t) = N + count /\ ToSet(t) = ToSet(now) \cup ToSet(rows)
  <2>1. IsAppended(t, now, rows)
    BY <1>2, <1>3, RowsAppended
  <2>. QED
    BY <1>2, <2>1 DEF IsAppended
<1>. HIDE DEF d, t, N, M
<1>12. Tracked(lists', ToSet(base), now')
  BY <1>1, <1>10
<1>13. /\ IsCollection(now') /\ Len(now') <= MaxLength[collection]
       /\ ToSet(now') \subseteq ToSet(now) \cup Unused /\ modified' \subseteq Elements
  BY <1>1, <1>2, <1>3, <1>8, <1>11
<1>14. /\ trackMoves => TableExplains(changes', middle, now')
       /\ ~trackMoves => Plain(changes')
       /\ Marked(changes'.modifications, now', modified', Entries)
  BY <1>1, <1>3, <1>6, <1>7, <1>9
<1>. QED
  BY <1>1, <1>12, <1>13, <1>14, TableStep

\* erase_rows keeps it: the last row takes the place of the erased one, with its
\* mark, its move and its lists.
LEMMA StepEraseRows ==
    ASSUME Inv, NEW row, erase_rows(row)
    PROVE  Inv'
<1> DEFINE last == Len(now) - 1
           d == move_over(changes, row, last, trackMoves)
           t == MovedOver(now, row)
           M == changes.modifications
           S == IF row = last THEN M \ {last} ELSE Carried(M, last, row)
<1>1. /\ TableInstruction /\ row \in Positions(now) /\ now' = t /\ changes' = d
      /\ lists' = EraseListsOf(lists, row, last) /\ modified' = modified
  BY DEF erase_rows
<1>2. /\ IsCollection(now) /\ IsCollection(middle) /\ Len(now) \in Nat /\ MaxLength[collection] \in Nat
      /\ now \in Seq(Elements) /\ middle \in Seq(Elements) /\ row \in Nat
      /\ Len(now) <= MaxLength[collection]
      /\ Marked(M, now, modified, Entries) /\ modified \subseteq Elements
      /\ Tracked(lists, ToSet(base), now) /\ (trackMoves = TRUE \/ trackMoves = FALSE)
  BY <1>1, TableFacts
<1>3. ASSUME trackMoves = TRUE PROVE TableExplains(d, middle, t) /\ d.modifications = S
  <2> DEFINE i == move_over(changes, row, Len(now) - 1, TRUE)
  <2>1. TableExplains(changes, middle, now)
    BY <1>1, <1>3, TableFacts
  <2>2. /\ IsChanges(changes) /\ changes.moves = <<>>
        /\ KeepsRows(changes.deletions, changes.insertions, middle, now)
        /\ \A n \in Positions(now) \ changes.insertions : n # row => At(middle, n) = At(now, n)
        /\ DOMAIN changes.mapping \subseteq changes.insertions
        /\ \A n \in changes.insertions \ {row} : MapsRow(changes.mapping, n, middle, now)
    BY <2>1 DEF TableExplains, SameRows, MapsRows
  <2>3. TableExplains(i, middle, t)
    BY <1>1, <1>2, <2>2, TableMoveOver
  <2>4. IsMoveOver(i, changes, row, Len(now) - 1)
    BY <1>1, <1>2, <2>2, MoveOverIs
  <2>5. i.modifications = S
    BY <2>4 DEF IsMoveOver
  <2>. QED
    BY <1>3, <2>3, <2>5
<1>4. ASSUME trackMoves = FALSE PROVE Plain(d) /\ d.modifications = S
  <2> DEFINE i == move_over(changes, row, last, FALSE)
  <2>1. Plain(changes)
    BY <1>1, <1>4, TableFacts
  <2>2. Plain(i) /\ i.modifications = S
    BY <1>2, <2>1, PlainMoveOver
  <2>. QED
    BY <1>4, <2>2
<1>5. Marked(S, t, modified, Entries)
  <2>1. /\ M \subseteq Positions(now)
        /\ \A n \in Positions(now) \ {row} :
             At(now, n) \in ToSet(Entries) => (n \in M <=> At(now, n) \in modified)
    BY <1>2 DEF Marked
  <2>. QED
    BY <1>1, <1>2, <2>1, MarksMovedOver
<1>6. IsCollection(t) /\ ToSet(t) = {At(now, n) : n \in Positions(now) \ {row}}
  <2>1. \A i, j \in Positions(now) \ {row} : At(now, i) = At(now, j) => i = j
    BY <1>2, DistinctEntries DEF IsCollection
  <2>. QED
    BY <1>1, <1>2, <2>1, CollectionMovedOver
<1>7. ToSet(t) \subseteq ToSet(now)
  BY <1>2, <1>6, PositionsOf
<1>8. Len(t) = Len(now) - 1
  <2>1. IsMovedOver(t, now, row)
    BY <1>1, <1>2, RowMovedOver
  <2>. QED
    BY <2>1 DEF IsMovedOver
<1>9. Tracked(EraseListsOf(lists, row, last), ToSet(base), t)
  BY <1>1, <1>2, ListsErased
<1>. HIDE DEF d, t, last, S
<1>10. /\ IsCollection(now') /\ Len(now') <= MaxLength[collection]
       /\ ToSet(now') \subseteq ToSet(now) \cup Unused /\ modified' \subseteq Elements
  BY <1>1, <1>2, <1>6, <1>7, <1>8
<1>11. /\ trackMoves => TableExplains(changes', middle, now')
       /\ ~trackMoves => Plain(changes')
       /\ Marked(changes'.modifications, now', modified', Entries)
       /\ Tracked(lists', ToSet(base), now')
  BY <1>1, <1>2, <1>3, <1>4, <1>5, <1>9
<1>. QED
  BY <1>1, <1>10, <1>11, TableStep

\* swap_rows keeps it: both rows, their marks, their moves and their lists change
\* places.
LEMMA StepSwapRows ==
    ASSUME Inv, NEW a, NEW b, swap_rows(a, b)
    PROVE  Inv'
<1> DEFINE d == swap(changes, a, b, trackMoves)
           t == [now EXCEPT ![a + 1] = At(now, b), ![b + 1] = At(now, a)]
           M == changes.modifications
           S == MarksSwapped(M, a, b)
           after == [l \in DOMAIN lists |->
                      [lists[l] EXCEPT !.row = IF @ = a THEN b ELSE IF @ = b THEN a ELSE @]]
<1>1. /\ TableInstruction /\ a \in Positions(now) /\ b \in Positions(now) /\ a < b
      /\ now' = t /\ changes' = d /\ lists' = after /\ modified' = modified
  BY DEF swap_rows
<1>2. /\ IsCollection(now) /\ IsCollection(middle) /\ Len(now) <= MaxLength[collection]
      /\ now \in Seq(Elements) /\ middle \in Seq(Elements) /\ a \in Nat /\ b \in Nat
      /\ Marked(M, now, modified, Entries) /\ modified \subseteq Elements
      /\ Tracked(lists, ToSet(base), now) /\ (trackMoves = TRUE \/ trackMoves = FALSE)
  BY <1>1, TableFacts
<1>3. ASSUME trackMoves = TRUE PROVE TableExplains(d, middle, t) /\ d.modifications = S
  <2> DEFINE i == swap(changes, a, b, TRUE)
  <2>1. TableExplains(changes, middle, now)
    BY <1>1, <1>3, TableFacts
  <2>2. TableExplains(i, middle, t)
    BY <1>1, <1>2, <2>1, TableSwap
  <2>3. IsSwap(i, changes, a, b)
    BY <1>1, <1>2, <2>1, SwapIs DEF TableExplains, MapsRows
  <2>4. i.modifications = S
    BY <2>3 DEF IsSwap
  <2>. QED
    BY <1>3, <2>2, <2>4
<1>4. ASSUME trackMoves = FALSE PROVE Plain(d) /\ d.modifications = S
  <2> DEFINE i == swap(changes, a, b, FALSE)
  <2>1. Plain(changes)
    BY <1>1, <1>4, TableFacts
  <2>2. Plain(i) /\ i.modifications = S
    BY <1>2, <2>1, PlainSwap
  <2>. QED
    BY <1>4, <2>2
<1>5. Marked(S, t, modified, Entries)
  BY <1>1, <1>2, MarksOfSwapped
<1>6. IsCollection(t) /\ ToSet(t) = ToSet(now) /\ Len(t) = Len(now)
  BY <1>1, <1>2, RowsSwapped
<1>7. Tracked(after, ToSet(base), t)
  BY <1>1, <1>2, ListsSwapped
<1>. HIDE DEF d, t, S, after
<1>8. /\ IsCollection(now') /\ Len(now') <= MaxLength[collection]
      /\ ToSet(now') \subseteq ToSet(now) \cup Unused /\ modified' \subseteq Elements
  BY <1>1, <1>2, <1>6
<1>9. /\ trackMoves => TableExplains(changes', middle, now')
      /\ ~trackMoves => Plain(changes')
      /\ Marked(changes'.modifications, now', modified', Entries)
      /\ Tracked(lists', ToSet(base), now')
  BY <1>1, <1>2, <1>3, <1>4, <1>5, <1>7
<1>. QED
  BY <1>1, <1>8, <1>9, TableStep

\* merge_rows and the erase_rows after it keep it: the row takes the place of the
\* new one, and what was recorded of it goes there.
LEMMA StepMergeRows ==
    ASSUME Inv, NEW from, NEW to, merge_rows(from, to)
    PROVE  Inv'
<1> DEFINE last == Len(now) - 1
           merged == subsume(changes, from, to, trackMoves)
           moved == [l \in DOMAIN lists |-> [lists[l] EXCEPT !.row = IF @ = from THEN to ELSE @]]
           d == move_over(merged, from, last, trackMoves)
           t == MovedOver([now EXCEPT ![to + 1] = At(now, from)], from)
           M == changes.modifications
           M2 == IF from \in M THEN M \cup {to} ELSE M
           S == IF from = last THEN M2 \ {last} ELSE Carried(M2, last, from)
           X2 == IF At(now, to) \in modified THEN modified \cup {At(now, from)} ELSE modified
<1>1. /\ TableInstruction /\ from \in Positions(now) /\ to \in Positions(now) /\ from # to
      /\ At(now, to) \notin ToSet(middle)
      /\ now' = t /\ changes' = d /\ lists' = EraseListsOf(moved, from, last) /\ modified' = X2
  BY DEF merge_rows
<1>2. /\ IsCollection(now) /\ IsCollection(middle) /\ Len(now) \in Nat /\ MaxLength[collection] \in Nat
      /\ Len(now) <= MaxLength[collection]
      /\ now \in Seq(Elements) /\ middle \in Seq(Elements) /\ from \in Nat /\ to \in Nat
      /\ Marked(M, now, modified, Entries) /\ modified \subseteq Elements
      /\ Tracked(lists, ToSet(base), now) /\ (trackMoves = TRUE \/ trackMoves = FALSE)
      /\ At(now, from) \in Elements /\ At(now, to) \in ToSet(now)
  BY <1>1, TableFacts
<1>3. ASSUME trackMoves = TRUE PROVE TableExplains(d, middle, t) /\ d.modifications = S
  <2> DEFINE k == subsume(changes, from, to, TRUE)
             i == move_over(k, from, Len(now) - 1, TRUE)
  <2>1. TableExplains(changes, middle, now)
    BY <1>1, <1>3, TableFacts
  <2>2. TableExplains(i, middle, t)
    BY <1>1, <1>2, <2>1, TableMerge
  <2>3. /\ IsChanges(changes) /\ KeepsRows(changes.deletions, changes.insertions, middle, now)
        /\ DOMAIN changes.mapping \subseteq changes.insertions
        /\ \A n \in changes.insertions : MapsRow(changes.mapping, n, middle, now)
        /\ SameRows(changes.insertions, middle, now)
    BY <2>1 DEF TableExplains, MapsRows
  <2>4. IsSubsumed(k, changes, from, to)
    BY <1>1, <1>2, <2>3, SubsumeIs
  <2>5. to \in changes.insertions
    <3>1. \A n \in Positions(middle) : At(middle, n) \in ToSet(middle)
      BY <1>2, PositionsOf
    <3>. QED
      BY <1>1, <2>3, <3>1 DEF SameRows, KeepsRows
  <2>6. DOMAIN k.mapping \subseteq changes.insertions
    <3> DEFINE m == changes.mapping
    <3>. HIDE DEF k, m
    <3>1. k.mapping = IF from \in DOMAIN m THEN With(Without(m, from), to, m[from])
                      ELSE IF from \in changes.insertions THEN m ELSE With(m, to, from)
      BY <2>4 DEF IsSubsumed, m
    <3>2. DOMAIN k.mapping \subseteq DOMAIN m \cup {to}
      <4>1. CASE from \in DOMAIN m
        <5> DEFINE w == Without(m, from)
                   v == m[from]
        <5>1. k.mapping = With(w, to, v)
          BY <3>1, <4>1
        <5>2. DOMAIN w = DOMAIN m \ {from}
          BY DEF Without
        <5>. HIDE DEF w, v
        <5>3. DOMAIN With(w, to, v) = DOMAIN w \cup {to}
          BY DEF With
        <5>. QED
          BY <5>1, <5>2, <5>3
      <4>2. CASE from \notin DOMAIN m /\ from \in changes.insertions
        BY <3>1, <4>2
      <4>3. CASE from \notin DOMAIN m /\ from \notin changes.insertions
        <5>1. k.mapping = With(m, to, from)
          BY <3>1, <4>3
        <5>2. DOMAIN With(m, to, from) = DOMAIN m \cup {to}
          BY DEF With
        <5>. QED
          BY <5>1, <5>2
      <4>. QED
        BY <4>1, <4>2, <4>3
    <3>. QED
      BY <2>3, <2>5, <3>2 DEF m
  <2>. HIDE DEF k
  <2>7. /\ IsChanges(k) /\ KeepsRows(k.deletions, k.insertions, middle, now)
        /\ DOMAIN k.mapping \subseteq k.insertions /\ k.modifications = M2
    BY <2>3, <2>4, <2>6 DEF IsSubsumed
  <2>8. IsMoveOver(i, k, from, Len(now) - 1)
    BY <1>1, <1>2, <2>7, MoveOverIs
  <2>9. i.modifications = S
    BY <2>7, <2>8 DEF IsMoveOver
  <2>. QED
    BY <1>3, <2>2, <2>9 DEF k
<1>4. ASSUME trackMoves = FALSE PROVE Plain(d) /\ d.modifications = S
  <2> DEFINE k == subsume(changes, from, to, FALSE)
             i == move_over(k, from, last, FALSE)
  <2>1. Plain(changes)
    BY <1>1, <1>4, TableFacts
  <2>2. Plain(k) /\ k.modifications = M2
    BY <1>2, <2>1, PlainSubsume
  <2>. HIDE DEF k
  <2>3. Plain(i) /\ i.modifications = IF from = last THEN k.modifications \ {last}
                                      ELSE Carried(k.modifications, last, from)
    BY <1>2, <2>2, PlainMoveOver
  <2>4. i.modifications = S
    BY <2>2, <2>3
  <2>. QED
    BY <1>4, <2>3, <2>4 DEF k
<1>5. /\ IsCollection(t) /\ Len(t) = Len(now) - 1 /\ ToSet(t) = ToSet(now) \ {At(now, to)}
      /\ Marked(S, t, X2, Entries)
  BY <1>1, <1>2, RowsMerged, ZenonT(60)
<1>6. Tracked(EraseListsOf(moved, from, last), ToSet(base), t)
  <2>1. At(now, to) \notin ToSet(base)
    BY <1>1, <1>2 DEF Inv, Collections
  <2>. QED
    BY <1>1, <1>2, <2>1, ListsMerged
<1>7. X2 \subseteq Elements
  BY <1>2
<1>. HIDE DEF d, t, S, X2, moved
<1>8. /\ IsCollection(now') /\ Len(now') <= MaxLength[collection]
      /\ ToSet(now') \subseteq ToSet(now) \cup Unused /\ modified' \subseteq Elements
  BY <1>1, <1>2, <1>5, <1>7
<1>9. /\ trackMoves => TableExplains(changes', middle, now')
      /\ ~trackMoves => Plain(changes')
      /\ Marked(changes'.modifications, now', modified', Entries)
      /\ Tracked(lists', ToSet(base), now')
  BY <1>1, <1>2, <1>3, <1>4, <1>5, <1>6
<1>. QED
  BY <1>1, <1>8, <1>9, TableStep

\* clear_table keeps it, though it does not know how many rows there were.
LEMMA StepClearTable ==
    ASSUME Inv, clear_table
    PROVE  Inv'
<1> DEFINE d == clear(changes, Unknown)
<1>1. /\ TableInstruction /\ now' = <<>> /\ changes' = d /\ lists' = <<>> /\ modified' = modified
  BY DEF clear_table
<1>2. /\ IsCollection(middle) /\ Len(middle) \in Nat /\ Len(middle) <= MaxLength[collection]
      /\ MaxLength[collection] \in Nat /\ MaxLength[collection] < Unknown /\ Unknown \in Nat
      /\ modified \subseteq Elements
  BY <1>1, TableFacts
<1>3. Len(middle) < Unknown
  BY <1>2
<1>4. d = Cleared(Unknown) /\ TableExplains(d, middle, <<>>)
  BY <1>2, <1>3, TableClear
<1>. HIDE DEF d
<1>5. /\ Explains(d, middle, <<>>) /\ IsCollection(<<>>) /\ ToSet(<<>>) = {}
      /\ d.insertions = {} /\ d.modifications = {} /\ d.moves = <<>> /\ d.mapping = <<>>
      /\ Marked(d.modifications, <<>>, modified, Entries)
  <2>1. Positions(middle) \subseteq 0 .. Unknown - 1
    BY <1>2, <1>3 DEF Positions
  <2>2. Explains(Cleared(Unknown), middle, <<>>) /\ IsCollection(<<>>) /\ ToSet(<<>>) = {}
        /\ Cleared(Unknown).insertions = {} /\ Cleared(Unknown).modifications = {}
        /\ Cleared(Unknown).moves = <<>> /\ Cleared(Unknown).mapping = <<>>
        /\ Marked(Cleared(Unknown).modifications, <<>>, modified, Entries)
    BY <1>2, <2>1, ClearedExplains
  <2>. QED
    BY <1>4, <2>2
<1>6. Plain(d)
  <2>1. d.deletions \in SUBSET Nat /\ IsFiniteSet(d.deletions)
    BY <1>5 DEF Explains, Matches
  <2>2. IsChanges(d)
    BY <1>5 DEF Explains
  <2>. QED
    BY <1>5, <2>1, <2>2 DEF Plain
<1>7. Tracked(<<>>, ToSet(base), <<>>)
  BY DEF Tracked
<1>8. Len(<<>>) = 0
  OBVIOUS
<1> DEFINE empty == <<>>
<1>9. /\ IsCollection(now') /\ Len(now') <= MaxLength[collection]
      /\ ToSet(now') \subseteq ToSet(now) \cup Unused /\ modified' \subseteq Elements
  <2>1. IsCollection(empty) /\ Len(empty) = 0 /\ ToSet(empty) = {} /\ now' = empty
    BY <1>1, <1>5, <1>8
  <2>. HIDE DEF empty
  <2>. QED
    BY <1>1, <1>2, <2>1
<1>10. /\ trackMoves => TableExplains(changes', middle, now')
       /\ ~trackMoves => Plain(changes')
       /\ Marked(changes'.modifications, now', modified', Entries)
       /\ Tracked(lists', ToSet(base), now')
  BY <1>1, <1>4, <1>5, <1>6, <1>7
<1>. QED
  BY <1>1, <1>9, <1>10, TableStep

\* parse_complete_log keeps the invariant: the completed changes explain the
\* log, and merged with those of the earlier logs they explain all of them.
LEMMA StepCompleteLog ==
    ASSUME Inv, parse_complete_log
    PROVE  Inv'
<1> DEFINE d == Completed
           all == merge(accumulated, d)
<1>1. /\ accumulated' = all /\ changes' = NoChange /\ middle' = now
      /\ modifiedBefore' = modifiedBefore \cup modified /\ modified' = {}
      /\ UNCHANGED <<collection, trackMoves, base, now, lists>>
  BY DEF parse_complete_log
<1>2. /\ IsCollection(base) /\ IsCollection(middle) /\ IsCollection(now)
      /\ Len(now) <= MaxLength[collection]
      /\ ToSet(base) \cap ToSet(now) \subseteq ToSet(middle)
      /\ accumulated.mapping = <<>> /\ modifiedBefore \subseteq Elements /\ modified \subseteq Elements
      /\ Marked(changes.modifications, now, modified, Entries)
      /\ collection \in {"list", "table"} /\ trackMoves \in BOOLEAN /\ (IsList => trackMoves)
      /\ Tracked(lists, ToSet(base), now) /\ (IsList => lists = <<>>)
  BY DEF Inv, Kinds, Collections, AreMerged, MarksInv
<1>3. ASSUME trackMoves
      PROVE  /\ Explains(d, middle, now) /\ d.modifications = changes.modifications
             /\ d.mapping = <<>> /\ (IsList => d.deletions \subseteq Positions(middle))
  <2>1. CASE IsList
    <3> DEFINE e == clean_up_stale_moves(changes)
    <3>1. /\ Explains(changes, middle, now) /\ changes.mapping = <<>>
          /\ changes.deletions \subseteq Positions(middle)
      BY <2>1 DEF Inv, AreRead
    <3>2. /\ Explains(e, middle, now) /\ e.modifications = changes.modifications
          /\ e.mapping = changes.mapping /\ e.deletions \subseteq changes.deletions
      BY <1>2, <3>1, CleanedExplains
    <3>3. d = e
      BY <2>1 DEF Completed
    <3>. HIDE DEF d, e
    <3>. QED
      BY <3>1, <3>2, <3>3
  <2>2. CASE ~IsList
    <3> DEFINE e == parse_complete(changes)
    <3>1. TableExplains(changes, middle, now)
      BY <1>2, <1>3, <2>2 DEF Inv, AreRead, IsList, IsTable
    <3>2. Explains(e, middle, now) /\ e.modifications = changes.modifications /\ e.mapping = <<>>
      BY <1>2, <3>1, TableComplete
    <3>3. d = e
      BY <2>2 DEF Completed
    <3>. HIDE DEF d, e
    <3>. QED
      BY <2>2, <3>2, <3>3
  <2>. QED
    BY <2>1, <2>2
<1>4. ASSUME ~trackMoves PROVE Plain(d)
  <2>1. ~IsList /\ Plain(changes)
    BY <1>2, <1>4 DEF Inv, AreRead
  <2>. QED
    BY <2>1, PlainComplete DEF Completed
<1>. HIDE DEF d
<1>5. AreMerged(all, now) /\ (trackMoves => Marked(all.modifications, now, modifiedBefore \cup modified, base))
  <2>1. CASE trackMoves
    <3>1. /\ Explains(accumulated, base, middle)
          /\ (IsList => accumulated.deletions \subseteq Positions(base))
          /\ Marked(accumulated.modifications, middle, modifiedBefore, base)
      BY <2>1 DEF Inv, AreMerged, MarksInv
    <3>2. Marked(d.modifications, now, modified, middle)
      <4>1. ToSet(middle) \subseteq ToSet(Entries)
        BY <1>2, PositionsOf DEF IsCollection, Elements
      <4>2. Marked(d.modifications, now, modified, Entries)
        BY <1>2, <1>3, <2>1
      <4>. QED
        BY <4>1, <4>2 DEF Marked
    <3>3. /\ Explains(all, base, now)
          /\ accumulated.deletions \subseteq Positions(base) /\ d.deletions \subseteq Positions(middle)
               => all.deletions \subseteq Positions(base)
          /\ accumulated.mapping = <<>> /\ d.mapping = <<>> => all.mapping = <<>>
      BY <1>2, <1>3, <2>1, <3>1, MergeExplains
    <3>4. Marked(all.modifications, now, modifiedBefore \cup modified, base)
      BY <1>2, <1>3, <2>1, <3>1, <3>2, MergeMarks
    <3>. HIDE DEF all
    <3>. QED
      BY <1>2, <1>3, <2>1, <3>1, <3>3, <3>4 DEF AreMerged
  <2>2. CASE ~trackMoves
    <3>1. Plain(accumulated) /\ Plain(d) /\ ~IsList
      BY <1>2, <1>4, <2>2 DEF Inv, AreMerged
    <3>2. Plain(all)
      BY <3>1, PlainMerge
    <3>. HIDE DEF all
    <3>. QED
      BY <2>2, <3>1, <3>2 DEF AreMerged, Plain
  <2>. QED
    BY <2>1, <2>2
<1>. HIDE DEF all
<1>6. /\ Explains(NoChange, now, now) /\ TableExplains(NoChange, now, now) /\ Plain(NoChange)
      /\ NoChange.deletions = {} /\ NoChange.mapping = <<>>
      /\ Marked(NoChange.modifications, now, {}, Entries)
  BY <1>2, NoChangeExplains
<1>7. Kinds'
  BY <1>1, <1>2 DEF Kinds, IsList
<1>8. Collections'
  BY <1>1, <1>2 DEF Collections
<1>9. AreMerged(accumulated, middle)'
  BY <1>1, <1>5 DEF AreMerged, IsList
<1>10. AreRead(changes, now)'
  <2> DEFINE none == NoChange
  <2>1. /\ Explains(none, now, now) /\ TableExplains(none, now, now) /\ Plain(none)
        /\ none.mapping = <<>> /\ none.deletions \subseteq Positions(now)
    BY <1>6
  <2>2. changes' = none /\ middle' = now /\ now' = now
    BY <1>1
  <2>. HIDE DEF none
  <2>. QED
    BY <2>1, <2>2 DEF AreRead
<1>11. MarksInv'
  BY <1>1, <1>2, <1>5, <1>6 DEF MarksInv
<1>12. (Tracked(lists, ToSet(base), now) /\ (IsList => lists = <<>>))'
  BY <1>1, <1>2 DEF IsList
<1>. QED
  BY <1>7, <1>8, <1>9, <1>10, <1>11, <1>12 DEF Inv

\* The first entries are a collection.
LEMMA FirstEntries ==
    ASSUME NEW n \in 0 .. Len(Entries)
    PROVE  /\ IsCollection(SubSeq(Entries, 1, n)) /\ Len(SubSeq(Entries, 1, n)) = n
<1> DEFINE s == SubSeq(Entries, 1, n)
<1>1. Entries \in Seq(Elements) /\ IsInjective(Entries) /\ Len(Entries) \in Nat
      /\ DOMAIN Entries = 1 .. Len(Entries)
  BY CollectionsAssumption DEF Elements
<1>2. /\ s \in Seq(Elements) /\ Len(s) = n /\ \A i \in 1 .. n : s[i] = Entries[i]
  BY <1>1
<1>. HIDE DEF s
<1>3. DOMAIN s = 1 .. n /\ 1 .. n \subseteq 1 .. Len(Entries)
  BY <1>1, <1>2
<1>4. IsInjective(s)
  BY <1>1, <1>2, <1>3 DEF IsInjective
<1>. QED
  BY <1>2, <1>4 DEF s, IsCollection

\* The invariant holds when no log has been read.
LEMMA InitInv ==
    ASSUME Init
    PROVE  Inv
<1>1. /\ collection \in {"list", "table"} /\ trackMoves \in BOOLEAN /\ (IsList => trackMoves)
      /\ IsTable => ToSet(Observed) \subseteq ToSet(base)
      /\ middle = base /\ now = base /\ accumulated = NoChange /\ changes = NoChange
      /\ modifiedBefore = {} /\ modified = {}
  BY DEF Init
<1>2. MaxLength[collection] \in 0 .. Len(Entries) /\ Len(Entries) \in Nat
  <2>1. Len(Entries) \in Nat
    BY CollectionsAssumption
  <2>. QED
    BY <1>1, <2>1, CollectionsAssumption
<1>3. IsCollection(base) /\ Len(base) <= MaxLength[collection]
  <2>1. PICK n \in 0 .. MaxLength[collection] : base = SubSeq(Entries, 1, n)
    BY DEF Init
  <2>2. n \in 0 .. Len(Entries) /\ n <= MaxLength[collection]
    BY <1>2, <2>1
  <2>3. IsCollection(SubSeq(Entries, 1, n)) /\ Len(SubSeq(Entries, 1, n)) = n
    BY <2>2, FirstEntries
  <2>. QED
    BY <2>1, <2>2, <2>3
<1>4. /\ Explains(NoChange, base, base) /\ TableExplains(NoChange, base, base) /\ Plain(NoChange)
      /\ NoChange.deletions = {} /\ NoChange.mapping = <<>>
      /\ \A known : Marked(NoChange.modifications, base, {}, known)
  BY <1>3, NoChangeExplains
<1>5. Tracked(lists, ToSet(base), now) /\ (IsList => lists = <<>>)
  <2>1. CASE IsList
    <3>1. lists = <<>>
      BY <2>1 DEF Init
    <3>. QED
      BY <3>1 DEF Tracked
  <2>2. CASE ~IsList
    <3> DEFINE rowOf(l) == CHOOSE n \in Positions(base) : At(base, n) = Observed[l]
               tracked(l) == [row |-> rowOf(l), of |-> Observed[l], overlooked |-> FALSE]
    <3>1. IsTable /\ lists = [l \in DOMAIN Observed |-> tracked(l)]
      BY <1>1, <2>2 DEF Init, IsList, IsTable
    <3>2. ASSUME NEW l \in DOMAIN Observed
          PROVE  tracked(l) \in ListOf(ToSet(base)) /\ IsAt(tracked(l), now)
      <4>1. Observed[l] \in ToSet(base)
        BY <1>1, <3>1 DEF ToSet
      <4>2. ToSet(base) = {At(base, n) : n \in Positions(base)} /\ Positions(base) \in SUBSET Nat
        BY <1>3, PositionsOf DEF IsCollection
      <4>3. \E n \in Positions(base) : At(base, n) = Observed[l]
        BY <4>1, <4>2
      <4>4. rowOf(l) \in Positions(base) /\ At(base, rowOf(l)) = Observed[l]
        BY <4>3
      <4>. HIDE DEF rowOf
      <4>5. /\ tracked(l).row = rowOf(l) /\ tracked(l).of = Observed[l]
            /\ tracked(l).overlooked = FALSE
        OBVIOUS
      <4>6. tracked(l) \in ListOf(ToSet(base))
        BY <4>1, <4>2, <4>4 DEF ListOf
      <4>. HIDE DEF tracked
      <4>. QED
        BY <1>1, <4>4, <4>5, <4>6 DEF IsAt
    <3>3. DOMAIN Observed = 1 .. Len(Observed) /\ Len(Observed) \in Nat
      BY CollectionsAssumption
    <3>. HIDE DEF tracked
    <3>4. lists \in Seq(ListOf(ToSet(base)))
      <4>1. lists \in [1 .. Len(Observed) -> ListOf(ToSet(base))]
        BY <3>1, <3>2, <3>3
      <4>. QED
        BY <3>3, <4>1
    <3>5. \A l \in DOMAIN lists : IsAt(lists[l], now)
      BY <3>1, <3>2
    <3>. QED
      BY <2>2, <3>4, <3>5 DEF Tracked
  <2>. QED
    BY <2>1, <2>2
<1>6. Kinds
  BY <1>1 DEF Kinds
<1>7. Collections
  BY <1>1, <1>3 DEF Collections
<1>8. AreMerged(accumulated, middle) /\ AreRead(changes, now)
  BY <1>1, <1>4 DEF AreMerged, AreRead
<1>9. MarksInv
  BY <1>1, <1>4 DEF MarksInv
<1>. QED
  BY <1>5, <1>6, <1>7, <1>8, <1>9 DEF Inv

\* A step that changes nothing keeps the invariant.
LEMMA StutterInv ==
    ASSUME Inv, UNCHANGED vars
    PROVE  Inv'
  BY DEF vars, Inv, Kinds, Collections, AreMerged, AreRead, MarksInv, IsList, IsTable

\* Every step keeps the invariant.
LEMMA NextInv ==
    ASSUME Inv, [Next]_vars
    PROVE  Inv'
<1>1. ASSUME NEW index \in Ndx, NEW other \in Ndx,
             \/ link_list_set(index) \/ link_list_erase(index)
             \/ link_list_swap(index, other) \/ link_list_move(index, other)
             \/ link_list_insert(index)
      PROVE  Inv'
  BY <1>1, StepSet, StepErase, StepSwapEntries, StepMove, StepInsert
<1>2. ASSUME NEW index \in Ndx, NEW other \in Ndx,
             \/ mark_dirty(index) \/ erase_rows(index)
             \/ swap_rows(index, other) \/ merge_rows(index, other)
      PROVE  Inv'
  BY <1>2, StepMarkDirty, StepEraseRows, StepSwapRows, StepMergeRows
<1>3. CASE link_list_clear
  BY <1>3, StepClear
<1>4. ASSUME NEW count \in 1 .. 2, insert_empty_rows(count)
      PROVE  Inv'
  <2>1. count \in Nat
    BY <1>4
  <2>. QED
    BY <1>4, <2>1, StepInsertRows
<1>5. CASE clear_table
  BY <1>5, StepClearTable
<1>6. CASE parse_complete_log
  BY <1>6, StepCompleteLog
<1>7. CASE UNCHANGED vars
  BY <1>7, StutterInv
<1>. QED
  BY <1>1, <1>2, <1>3, <1>4, <1>5, <1>6, <1>7 DEF Next

\* What every reachable state satisfies, for collections of any length, any
\* number of logs and of observed lists.
THEOREM ChangesInvariant == Spec => []Inv
<1>1. Init => Inv
  BY InitInv
<1>2. Inv /\ [Next]_vars => Inv'
  BY NextInv
<1>. QED
  BY <1>1, <1>2, PTL DEF Spec

----------------------------------------------------------------------------
(* What the invariant means for the properties *)

\* The sets of a change set that explains two collections are sets of positions.
LEMMA ExplainedSet ==
    ASSUME NEW old, IsCollection(old), NEW new, IsCollection(new), NEW c, Explains(c, old, new),
           c.modifications \subseteq Nat, c.mapping = <<>>
    PROVE  IsChangeSet(c)
<1>1. c.deletions \in SUBSET Nat /\ c.insertions \in SUBSET Nat
  BY ExplainsSets
<1>2. \A m \in ToSet(c.moves) : m.from \in Nat /\ m.to \in Nat
  <2>1. \A m \in ToSet(c.moves) : m \in Move
    BY MovesEnd
  <2>. QED
    BY <2>1 DEF Move
<1>3. DOMAIN c.mapping = {}
  OBVIOUS
<1>. QED
  BY <1>1, <1>2, <1>3 DEF IsChangeSet

\* So are those of a table whose log is being read.
LEMMA TableSet ==
    ASSUME NEW old, IsCollection(old), NEW new, IsCollection(new), NEW c, TableExplains(c, old, new),
           c.modifications \subseteq Nat
    PROVE  IsChangeSet(c)
<1>1. Positions(old) \in SUBSET Nat /\ Positions(new) \in SUBSET Nat
  BY PositionsOf DEF IsCollection
<1>2. /\ c.deletions \in SUBSET Nat /\ c.insertions \in SUBSET Positions(new)
      /\ c.moves = <<>> /\ DOMAIN c.mapping \subseteq c.insertions
      /\ \A n \in c.insertions : MapsRow(c.mapping, n, old, new)
  BY DEF TableExplains, KeepsRows, MapsRows
<1>3. ToSet(c.moves) = {}
  BY <1>2 DEF ToSet
<1>4. \A n \in DOMAIN c.mapping : c.mapping[n] \in Nat
  BY <1>1, <1>2 DEF MapsRow
<1>. QED
  BY <1>1, <1>2, <1>3, <1>4 DEF IsChangeSet

\* And those of a table whose moves are not tracked.
LEMMA PlainSet ==
    ASSUME NEW c, Plain(c)
    PROVE  IsChangeSet(c)
<1>1. /\ c.deletions \in SUBSET Nat /\ c.insertions = {} /\ c.modifications \in SUBSET Nat
      /\ c.moves = <<>> /\ c.mapping = <<>>
  BY DEF Plain
<1>2. ToSet(c.moves) = {} /\ DOMAIN c.mapping = {}
  BY <1>1 DEF ToSet
<1>. QED
  BY <1>1, <1>2 DEF IsChangeSet

\* The merged changes and those being read are sets of positions.
LEMMA ChangeSets ==
    ASSUME Inv
    PROVE  IsChangeSet(accumulated) /\ IsChangeSet(changes)
<1>1. /\ IsCollection(base) /\ IsCollection(middle) /\ IsCollection(now)
      /\ collection \in {"list", "table"} /\ (IsList => trackMoves)
      /\ Positions(middle) \in SUBSET Nat /\ Positions(now) \in SUBSET Nat
  BY PositionsOf DEF Inv, Kinds, Collections, IsCollection
<1>2. IsChangeSet(accumulated)
  <2>1. CASE trackMoves
    <3>1. /\ Explains(accumulated, base, middle) /\ accumulated.mapping = <<>>
          /\ accumulated.modifications \subseteq Nat
      BY <1>1, <2>1 DEF Inv, AreMerged, MarksInv, Marked
    <3>. QED
      BY <1>1, <3>1, ExplainedSet
  <2>2. CASE ~trackMoves
    BY <2>2, PlainSet DEF Inv, AreMerged
  <2>. QED
    BY <2>1, <2>2
<1>3. changes.modifications \subseteq Nat
  BY <1>1 DEF Inv, MarksInv, Marked
<1>4. IsChangeSet(changes)
  <2>1. CASE IsList
    <3>1. Explains(changes, middle, now) /\ changes.mapping = <<>>
      BY <2>1 DEF Inv, AreRead
    <3>. QED
      BY <1>1, <1>3, <3>1, ExplainedSet
  <2>2. CASE IsTable /\ trackMoves
    <3>1. TableExplains(changes, middle, now)
      BY <2>2 DEF Inv, AreRead
    <3>. QED
      BY <1>1, <1>3, <3>1, TableSet
  <2>3. CASE ~trackMoves
    BY <2>3, PlainSet DEF Inv, AreRead
  <2>. QED
    BY <1>1, <2>1, <2>2, <2>3 DEF IsList, IsTable
<1>. QED
  BY <1>2, <1>4

\* Deleting the merged deletions from the old version of the collection and
\* inserting the merged insertions gives the new one, in order: with the types,
\* that is what a table view relies on that is given the changes.
THEOREM ChangesExplained == Spec => []ChangesExplain
<1>1. ASSUME Inv PROVE ChangesExplain
  <2>1. /\ IsCollection(base) /\ IsCollection(middle) /\ IsCollection(now)
        /\ accumulated.mapping = <<>>
        /\ modifiedBefore \subseteq Elements /\ modified \subseteq Elements
    BY <1>1 DEF Inv, Collections, AreMerged, MarksInv
  <2>2. \A entries \in {base, middle, now} : ToSet(entries) \subseteq Elements /\ IsInjective(entries)
    BY <2>1, PositionsOf DEF IsCollection
  <2>3. \A l \in DOMAIN lists : lists[l].row \in Nat /\ lists[l].of \in Elements
    <3>1. ToSet(base) \subseteq Elements
      BY <2>2
    <3>2. \A l \in DOMAIN lists : lists[l] \in ListOf(ToSet(base))
      BY <1>1 DEF Inv, Tracked
    <3>. QED
      BY <3>1, <3>2, ListFields
  <2>4. IsChangeSet(accumulated) /\ IsChangeSet(changes)
    BY <1>1, ChangeSets
  <2>5. TypeOK
    BY <2>1, <2>2, <2>3, <2>4 DEF TypeOK, Elements
  <2>6. ASSUME trackMoves
        PROVE  /\ IsList => accumulated.deletions \subseteq Positions(base)
               /\ accumulated.insertions \subseteq Positions(middle)
               /\ SameRest(base, accumulated.deletions, middle, accumulated.insertions)
    <3>1. /\ Explains(accumulated, base, middle)
          /\ IsList => accumulated.deletions \subseteq Positions(base)
      BY <1>1, <2>6 DEF Inv, AreMerged
    <3>2. SameRest(base, accumulated.deletions, middle, accumulated.insertions)
      BY <2>1, <3>1, ExplainsRest
    <3>3. accumulated.insertions \subseteq Positions(middle)
      BY <3>1 DEF Explains, Matches
    <3>. QED
      BY <3>1, <3>2, <3>3
  <2>. QED
    BY <2>5, <2>6 DEF ChangesExplain
<1>. QED
  BY <1>1, ChangesInvariant, PTL

\* The change set says of every entry of the old version where it is in the new
\* one, by a move or by the shifts, or that it is deleted; no move is lost or
\* invented, whatever the logs did and however many were merged.
THEOREM EntriesTraced == Spec => []EntriesAreTraced
<1>1. ASSUME Inv, trackMoves
      PROVE  IsTraced(accumulated, base, middle) /\ MovesAreReal
  <2>1. IsCollection(base) /\ IsCollection(middle) /\ Explains(accumulated, base, middle)
    BY <1>1 DEF Inv, Collections, AreMerged
  <2>2. IsTraced(accumulated, base, middle)
    BY <2>1, ExplainsTraces
  <2>3. MovesAreReal
    BY <2>1, MovesEnd DEF MovesAreReal
  <2>. QED
    BY <2>2, <2>3
<1>2. Inv => EntriesAreTraced
  BY <1>1 DEF EntriesAreTraced
<1>. QED
  BY <1>2, ChangesInvariant, PTL

\* A query that has run finds the rows of its results again by a binary search
\* of the moves of one log, which parse_complete leaves sorted.
THEOREM RowsFoundAgain == Spec => []RowsAreFound
<1>1. ASSUME Inv, IsTable, trackMoves
      PROVE  LET c == parse_complete(changes)
             IN  /\ Sorted(c.moves)
                 /\ \A n \in Positions(middle) :
                      IF RowNow(c, n) = npos THEN At(middle, n) \notin ToSet(now)
                      ELSE RowNow(c, n) \in Positions(now) /\ At(now, RowNow(c, n)) = At(middle, n)
  <2> DEFINE c == parse_complete(changes)
  <2>1. IsCollection(middle) /\ IsCollection(now) /\ TableExplains(changes, middle, now)
    BY <1>1 DEF Inv, Collections, AreRead
  <2>2. Explains(c, middle, now) /\ Sorted(c.moves)
    BY <2>1, TableComplete
  <2>. HIDE DEF c
  <2>3. \A n \in Positions(middle) :
          IF RowNow(c, n) = npos THEN At(middle, n) \notin ToSet(now)
          ELSE RowNow(c, n) \in Positions(now) /\ At(now, RowNow(c, n)) = At(middle, n)
    BY <2>1, <2>2, RowLookedUp
  <2>. QED
    BY <2>2, <2>3 DEF c
<1>2. Inv => RowsAreFound
  BY <1>1 DEF RowsAreFound, Sorted
<1>. QED
  BY <1>2, ChangesInvariant, PTL

\* Exact marks name the entries set, among the known ones.
LEMMA MarkedMarks ==
    ASSUME NEW s, IsCollection(s), NEW c, NEW X, NEW old, Marked(c.modifications, s, X, old),
           NEW known, known \subseteq ToSet(old)
    PROVE  Marks(c, s, X, known)
<1> DEFINE M == c.modifications
<1>1. M \subseteq Positions(s) /\ ToSet(s) = {At(s, n) : n \in Positions(s)}
  BY PositionsOf DEF IsCollection, Marked
<1>2. \A n \in Positions(s) : At(s, n) \in known => (n \in M <=> At(s, n) \in X)
  BY DEF Marked
<1>. HIDE DEF M
<1>3. {At(s, n) : n \in M} \cap known = X \cap ToSet(s) \cap known
  BY <1>1, <1>2
<1>. QED
  BY <1>1, <1>3 DEF Marks, M

\* The positions delivered are those of the same entries in the old collection
\* and in the new one.
LEMMA FinalizedMarks ==
    ASSUME NEW old, IsCollection(old), NEW new, IsCollection(new), NEW c, Explains(c, old, new),
           c.modifications \subseteq Positions(new)
    PROVE  LET delivered == finalize(c)
           IN  {At(old, i) : i \in delivered.modifications} =
                  {At(new, i) : i \in delivered.modifications_new}
<1> DEFINE D == c.deletions
           I == c.insertions
           M == c.modifications
<1>1. \A n \in M \ I : At(old, OldIndex(D, I, n)) = At(new, n)
  BY DEF Explains, Matches
<1>2. finalize(c).modifications_new = M \ I
  BY DEF finalize
<1>3. finalize(c).modifications = {OldIndex(D, I, n) : n \in M \ I}
  <2>1. finalize(c).modifications = Ix!ShiftForInsertAll(Ix!EraseAll(M, I), D)
    BY DEF finalize
  <2>2. Ix!ShiftForInsertAll(Ix!EraseAll(M, I), D) = {OldIndex(D, I, n) : n \in M \ I}
    BY DEF Ix!ShiftForInsertAll, Ix!EraseAll, OldIndex
  <2>. QED
    BY <2>1, <2>2
<1>. HIDE DEF D, I, M
<1>4. {At(old, i) : i \in {OldIndex(D, I, n) : n \in M \ I}} = {At(new, i) : i \in M \ I}
  BY <1>1
<1>. QED
  BY <1>2, <1>3, <1>4

\* The entries marked as modified are those that were set and are still there,
\* in the log being read and, new ones apart, in the merged changes; the
\* callback is told the same entries by old and by new positions.
THEOREM ModificationsMarked == Spec => []ModificationsAreMarked
<1>1. ASSUME Inv PROVE ModificationsAreMarked
  <2>1. /\ IsCollection(base) /\ IsCollection(middle) /\ IsCollection(now)
        /\ (IsList => trackMoves)
    BY <1>1 DEF Inv, Collections, Kinds
  <2>2. Marks(changes, now, modified, ToSet(middle))
    <3>1. Marked(changes.modifications, now, modified, Entries) /\ ToSet(middle) \subseteq ToSet(Entries)
      BY <1>1, <2>1, PositionsOf DEF Inv, MarksInv, IsCollection, Elements
    <3>. QED
      BY <2>1, <3>1, MarkedMarks
  <2>3. ASSUME trackMoves PROVE Marks(accumulated, middle, modifiedBefore, ToSet(base))
    <3>1. Marked(accumulated.modifications, middle, modifiedBefore, base)
      BY <1>1, <2>3 DEF Inv, MarksInv
    <3>. QED
      BY <2>1, <3>1, MarkedMarks
  <2>4. ASSUME IsList
        PROVE  LET delivered == finalize(accumulated)
               IN  {At(base, i) : i \in delivered.modifications} =
                      {At(middle, i) : i \in delivered.modifications_new}
    <3>1. Explains(accumulated, base, middle) /\ accumulated.modifications \subseteq Positions(middle)
      BY <1>1, <2>1, <2>4 DEF Inv, AreMerged, MarksInv, Marked
    <3>. QED
      BY <2>1, <3>1, FinalizedMarks
  <2>. QED
    BY <2>2, <2>3, <2>4 DEF ModificationsAreMarked
<1>. QED
  BY <1>1, ChangesInvariant, PTL

\* The list the handler has for a row is the list of that row, wherever the
\* instructions have put the row, unless it took the entry of the list of an
\* erased row.
THEOREM ListsTracked == Spec => []ListsAreTracked
<1>1. Inv => ListsAreTracked
  BY DEF Inv, Tracked, IsAt, ListsAreTracked
<1>. QED
  BY <1>1, ChangesInvariant, PTL
=============================================================================
