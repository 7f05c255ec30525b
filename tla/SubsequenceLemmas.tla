-------------------------- MODULE SubsequenceLemmas --------------------------
(***************************************************************************)
(* Lemmas that several proofs share: what Kept does to a sequence, of the  *)
(* lists of the content store and of the link-layer policy, of road maps   *)
(* and headers; and induction up to a number, for loops.                   *)
(***************************************************************************)
EXTENDS Subsequences, SequencesExt, FunctionTheorems, FiniteSetTheorems, WellFoundedInduction, TLAPS

\* Every position kept has a rank of its own, and every rank is taken.
LEMMA RankIsInjective ==
    ASSUME NEW K \in SUBSET Nat, IsFiniteSet(K)
    PROVE  /\ Cardinality(K) \in Nat
           /\ \A i \in K : Rank(K, i) \in 1..Cardinality(K)
           /\ \A i, j \in K : Rank(K, i) = Rank(K, j) => i = j
<1> DEFINE UpTo(i) == {j \in K : j <= i}
<1>1. Cardinality(K) \in Nat
  BY FS_CardinalityType
<1>2. ASSUME NEW i \in K
      PROVE  /\ IsFiniteSet(UpTo(i)) /\ Rank(K, i) \in Nat
             /\ 1 <= Rank(K, i) /\ Rank(K, i) <= Cardinality(K)
  <2>1. IsFiniteSet(UpTo(i)) /\ Cardinality(UpTo(i)) <= Cardinality(K)
    BY FS_Subset
  <2>2. Cardinality(UpTo(i)) \in Nat /\ UpTo(i) # {}
    BY <2>1, FS_CardinalityType
  <2>3. Cardinality(UpTo(i)) # 0
    BY <2>1, <2>2, FS_EmptySet
  <2> QED BY <2>1, <2>2, <2>3 DEF Rank
<1>3. ASSUME NEW i \in K, NEW j \in K, i < j
      PROVE  Rank(K, i) # Rank(K, j)
  <2>1. i \in Nat /\ j \in Nat
    OBVIOUS
  <2>2. ASSUME NEW l \in K, l <= i
        PROVE  l <= j
    <3>1. l \in Nat
      OBVIOUS
    <3> QED BY <1>3, <2>1, <2>2, <3>1
  <2>3. UpTo(i) \in SUBSET UpTo(j)
    BY <2>2
  <2>4. j \in UpTo(j) /\ j \notin UpTo(i)
    BY <1>3
  <2>5. IsFiniteSet(UpTo(j))
    BY <1>2
  <2>6. Cardinality(UpTo(j)) = Cardinality(UpTo(i)) => UpTo(j) = UpTo(i)
    BY <2>5, <2>3, FS_Subset
  <2>7. Cardinality(UpTo(j)) # Cardinality(UpTo(i))
    BY <2>4, <2>6
  <2> QED BY <2>7 DEF Rank
<1>4. \A i \in K : Rank(K, i) \in 1..Cardinality(K)
  <2> DEFINE c == Cardinality(K)
  <2>1. c \in Nat /\ \A i \in K : Rank(K, i) \in Nat /\ 1 <= Rank(K, i) /\ Rank(K, i) <= c
    BY <1>1, <1>2
  <2> HIDE DEF c
  <2>2. \A i \in K : Rank(K, i) \in 1..c
    BY <2>1
  <2> QED BY <2>2 DEF c
<1>5. \A i, j \in K : Rank(K, i) = Rank(K, j) => i = j
  BY <1>3
<1> QED BY <1>1, <1>4, <1>5

LEMMA PositionHasRank ==
    ASSUME NEW K \in SUBSET Nat, IsFiniteSet(K)
    PROVE  /\ \A k \in 1..Cardinality(K) : Position(K, k) \in K /\ Rank(K, Position(K, k)) = k
           /\ \A i \in K : Position(K, Rank(K, i)) = i
<1> DEFINE n == Cardinality(K)
           rank == [i \in K |-> Rank(K, i)]
<1>1. n \in Nat /\ \A i \in K : Rank(K, i) \in 1..n
  BY RankIsInjective
<1>2. \A i, j \in K : Rank(K, i) = Rank(K, j) => i = j
  BY RankIsInjective
<1>3. rank \in Injection(K, 1..n)
  BY <1>1, <1>2 DEF Injection, IsInjective
<1>4. IsFiniteSet(1..n) /\ Cardinality(1..n) = n
  <2> HIDE DEF n
  <2>1. IsFiniteSet(1..n) /\ Cardinality(1..n) = IF 1 > n THEN 0 ELSE n - 1 + 1
    BY <1>1, FS_Interval
  <2> QED BY <1>1, <2>1
<1>5. rank \in Surjection(K, 1..n)
  BY <1>3, <1>4, FS_Injection
<1>6. \A k \in 1..n : \E i \in K : Rank(K, i) = k
  BY <1>5 DEF Surjection
<1>7. \A k \in 1..n : Position(K, k) \in K /\ Rank(K, Position(K, k)) = k
  BY <1>6 DEF Position
<1>8. ASSUME NEW i \in K
      PROVE  Position(K, Rank(K, i)) = i
  <2>1. Rank(K, i) \in 1..n
    BY <1>1
  <2>2. Position(K, Rank(K, i)) \in K /\ Rank(K, Position(K, Rank(K, i))) = Rank(K, i)
    BY <1>7, <2>1
  <2> QED BY <1>2, <2>2
<1> QED BY <1>7, <1>8

(***************************************************************************)
(* Kept has the elements at the positions kept and no other, each of them  *)
(* as often as the sequence.                                               *)
(***************************************************************************)
LEMMA KeptElements ==
    ASSUME NEW S, NEW s \in Seq(S), NEW K \in SUBSET (1..Len(s))
    PROVE  /\ Kept(s, K) \in Seq(S)
           /\ Len(Kept(s, K)) = Cardinality(K) /\ Cardinality(K) \in Nat
           /\ Cardinality(K) <= Len(s)
           /\ \A k \in 1..Cardinality(K) :
                 Position(K, k) \in K /\ Kept(s, K)[k] = s[Position(K, k)]
           /\ \A i \in K : \E k \in 1..Cardinality(K) : Kept(s, K)[k] = s[i]
           /\ \A j, k \in 1..Cardinality(K) : Position(K, j) = Position(K, k) => j = k
<1> DEFINE n == Cardinality(K)
<1>1. IsFiniteSet(1..Len(s)) /\ Cardinality(1..Len(s)) = Len(s)
  <2> DEFINE l == Len(s)
  <2>1. l \in Nat
    BY DEF l
  <2> HIDE DEF l
  <2>2. IsFiniteSet(1..l) /\ Cardinality(1..l) = IF 1 > l THEN 0 ELSE l - 1 + 1
    BY <2>1, FS_Interval
  <2>3. Cardinality(1..l) = l
    BY <2>1, <2>2
  <2> QED BY <2>2, <2>3 DEF l
<1>2. K \in SUBSET Nat /\ IsFiniteSet(K) /\ n <= Len(s)
  <2>1. IsFiniteSet(K) /\ n <= Cardinality(1..Len(s))
    BY <1>1, FS_Subset
  <2>2. K \in SUBSET Nat
    OBVIOUS
  <2> QED BY <1>1, <2>1, <2>2
<1>3. n \in Nat /\ \A i \in K : Rank(K, i) \in 1..n
  BY <1>2, RankIsInjective
<1>4. /\ \A k \in 1..n : Position(K, k) \in K /\ Rank(K, Position(K, k)) = k
      /\ \A i \in K : Position(K, Rank(K, i)) = i
  BY <1>2, PositionHasRank
<1> HIDE DEF n
<1>5. Kept(s, K) = [k \in 1..n |-> s[Position(K, k)]]
  BY DEF Kept, n
<1>6. \A k \in 1..n : s[Position(K, k)] \in S
  <2>1. \A i \in 1..Len(s) : s[i] \in S
    OBVIOUS
  <2> QED BY <1>4, <2>1
<1>7. Kept(s, K) \in [1..n -> S]
  BY <1>5, <1>6
<1>8. Kept(s, K) \in Seq(S) /\ Len(Kept(s, K)) = n
  BY <1>3, <1>7
<1>9. \A k \in 1..n : Kept(s, K)[k] = s[Position(K, k)]
  BY <1>5
<1>10. ASSUME NEW i \in K
       PROVE  \E k \in 1..n : Kept(s, K)[k] = s[i]
  BY <1>3, <1>4, <1>9
<1>11. \A j, k \in 1..n : Position(K, j) = Position(K, k) => j = k
  BY <1>4
<1> QED BY <1>2, <1>3, <1>4, <1>8, <1>9, <1>10, <1>11 DEF n

-----------------------------------------------------------------------------
\* Induction over data: what holds at the start of a loop and after each round
\* holds at its end.
LEMMA UpToInduction ==
    ASSUME NEW n \in Nat, NEW T \in SUBSET (0 .. n),
           0 \in T, \A i \in 1 .. n : i - 1 \in T => i \in T
    PROVE  T = 0 .. n
<1> DEFINE Below == OpToRel(<, Nat)
           Missing == (0 .. n) \ T
<1>1. SUFFICES ASSUME Missing # {}
               PROVE  FALSE
  OBVIOUS
<1>2. Missing \subseteq Nat
  OBVIOUS
<1>3. IsWellFoundedOn(Below, Nat)
  BY NatLessThanWellFounded
<1>4. PICK m \in Missing : \A k \in Missing : ~ (<<k, m>> \in Below)
  <2> HIDE DEF Below, Missing
  <2>1. \E x \in Missing : \A y \in Missing : ~ (<<y, x>> \in Below)
    BY <1>1, <1>2, <1>3, WFMin
  <2> QED BY <2>1
<1>5. m \in 1 .. n /\ m - 1 \in 0 .. n /\ m - 1 \notin T
  OBVIOUS
<1>6. <<m - 1, m>> \in Below
  BY <1>5 DEF OpToRel
<1> QED BY <1>4, <1>5, <1>6

\* The loop of FlattenSeq is well defined.
LEMMA FlattenLoop ==
    ASSUME NEW s, Len(s) \in Nat \ {0}
    PROVE  \E f : /\ f[1] = s[1]
                  /\ \A n \in 2 .. Len(s) : f[n] = f[n - 1] \o s[n]
                  /\ FlattenSeq(s) = f[Len(s)]
<1> DEFINE Rounds(f, m) == f = [n \in 1 .. m |-> IF n = 1 THEN s[n] ELSE f[n - 1] \o s[n]]
           N == Len(s)
           T == {m \in 0 .. N : \E f : Rounds(f, m)}
<1>1. 0 \in T
  <2>1. Rounds([n \in 1 .. 0 |-> 0], 0)
    OBVIOUS
  <2> HIDE DEF Rounds
  <2> QED BY <2>1
<1>2. ASSUME NEW m \in 1 .. N, m - 1 \in T
      PROVE  m \in T
  <2>1. PICK f : Rounds(f, m - 1)
    BY <1>2
  <2> DEFINE g == [n \in 1 .. m |-> IF n # m THEN f[n] ELSE IF m = 1 THEN s[1]
                                    ELSE f[m - 1] \o s[m]]
  <2>2. \A n \in 1 .. m - 1 : f[n] = IF n = 1 THEN s[n] ELSE f[n - 1] \o s[n]
    BY <2>1
  <2>3. \A n \in 1 .. m : g[n] = IF n = 1 THEN s[n] ELSE g[n - 1] \o s[n]
    BY <2>2
  <2>4. Rounds(g, m)
    BY <2>3
  <2> HIDE DEF Rounds
  <2> QED BY <2>4
<1>3. T = 0 .. N
  <2> HIDE DEF Rounds
  <2> QED BY <1>1, <1>2, UpToInduction
<1>4. \E f : Rounds(f, N)
  <2>1. N \in T
    <3> HIDE DEF T
    <3> QED BY <1>3
  <2> HIDE DEF Rounds
  <2> QED BY <2>1
<1> DEFINE f == CHOOSE f : Rounds(f, N)
<1>5. Rounds(f, N)
  BY <1>4
<1>6. FlattenSeq(s) = f[N]
  BY DEF FlattenSeq
<1>7. f[1] = s[1] /\ \A n \in 2 .. N : f[n] = f[n - 1] \o s[n]
  <2> HIDE DEF f
  <2>1. \A n \in 1 .. N : f[n] = IF n = 1 THEN s[n] ELSE f[n - 1] \o s[n]
    BY <1>5
  <2> HIDE DEF N
  <2>2. N \in Nat \ {0}
    BY DEF N
  <2>3. 1 \in 1 .. N /\ \A n \in 2 .. N : n \in 1 .. N /\ n # 1
    BY <2>2
  <2>4. f[1] = s[1]
    BY <2>1, <2>3
  <2>5. \A n \in 2 .. N : f[n] = f[n - 1] \o s[n]
    BY <2>1, <2>3
  <2> QED BY <2>4, <2>5
<1> QED BY <1>6, <1>7
=============================================================================
