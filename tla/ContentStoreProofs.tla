-------------------------- MODULE ContentStoreProofs --------------------------
(***************************************************************************)
(* Theorems about the content store, for every set of names, every limit   *)
(* of the policy and every set of packets.                                 *)
(***************************************************************************)
EXTENDS ContentStore, SubsequenceLemmas, SequenceTheorems, WellFoundedInduction

-----------------------------------------------------------------------------
(* Names and prefixes. *)

LEMMA PrefixByComponents ==
    ASSUME NEW p \in Seq(Component), NEW n \in Seq(Component)
    PROVE  PrefixOf(p, n) <=> /\ Len(p) <= Len(n)
                              /\ \A i \in 1..Len(p) : p[i] = n[i]
<1>1. CASE Len(p) <= Len(n)
  <2> DEFINE t == SubSeq(n, 1, Len(p))
  <2>1. t \in Seq(Component) /\ Len(t) = Len(p) /\ \A i \in 1..Len(p) : t[i] = n[i]
    BY <1>1
  <2> HIDE DEF t
  <2>2. (\A i \in 1..Len(p) : p[i] = n[i]) => t = p
    <3> SUFFICES ASSUME \A i \in 1..Len(p) : p[i] = n[i]
                 PROVE  t = p
      OBVIOUS
    <3>1. \A i \in 1..Len(t) : t[i] = p[i]
      BY <2>1
    <3> QED BY <2>1, <3>1, SeqEqual
  <2>3. PrefixOf(p, n) <=> t = p
    BY <1>1 DEF PrefixOf, t
  <2> QED BY <1>1, <2>1, <2>2, <2>3
<1>2. CASE ~ (Len(p) <= Len(n))
  BY <1>2 DEF PrefixOf
<1> QED BY <1>1, <1>2

LEMMA PrefixReflexive ==
    ASSUME NEW p \in Seq(Component)
    PROVE  PrefixOf(p, p)
  BY PrefixByComponents

LEMMA PrefixTransitive ==
    ASSUME NEW p \in Seq(Component), NEW q \in Seq(Component), NEW n \in Seq(Component),
           PrefixOf(p, q), PrefixOf(q, n)
    PROVE  PrefixOf(p, n)
<1>1. /\ Len(p) <= Len(q) /\ \A i \in 1..Len(p) : p[i] = q[i]
      /\ Len(q) <= Len(n) /\ \A i \in 1..Len(q) : q[i] = n[i]
  BY PrefixByComponents
<1>2. Len(p) <= Len(n) /\ \A i \in 1..Len(p) : p[i] = n[i]
  BY <1>1
<1> QED BY <1>2, PrefixByComponents

\* Of two prefixes of a name, the shorter is a prefix of the longer.
LEMMA PrefixesOfOne ==
    ASSUME NEW p \in Seq(Component), NEW q \in Seq(Component), NEW n \in Seq(Component),
           PrefixOf(p, n), PrefixOf(q, n), Len(p) <= Len(q)
    PROVE  PrefixOf(p, q)
<1>1. /\ \A i \in 1..Len(p) : p[i] = n[i]
      /\ \A i \in 1..Len(q) : q[i] = n[i]
  BY PrefixByComponents
<1>2. \A i \in 1..Len(p) : p[i] = q[i]
  BY <1>1
<1> QED BY <1>2, PrefixByComponents

LEMMA PrefixOfSameLength ==
    ASSUME NEW p \in Seq(Component), NEW n \in Seq(Component), PrefixOf(p, n), Len(p) >= Len(n)
    PROVE  p = n
<1>1. Len(p) = Len(n) /\ \A i \in 1..Len(p) : p[i] = n[i]
  <2>1. Len(p) <= Len(n) /\ \A i \in 1..Len(p) : p[i] = n[i]
    BY PrefixByComponents
  <2>2. Len(p) \in Int /\ Len(n) \in Int
    OBVIOUS
  <2> QED BY <2>1, <2>2
<1> QED BY <1>1, SeqEqual

LEMMA RootIsPrefix ==
    /\ Root \in Name /\ Root \in Seq(Component) /\ Len(Root) = 0
    /\ \A n \in Seq(Component) : PrefixOf(Root, n)
    /\ \A n \in Seq(Component) : Len(n) = 0 <=> n = Root
    /\ \A n \in Seq(Component) : PrefixOf(n, Root) => n = Root
<1>1. Root \in Name /\ Root \in Seq(Component) /\ Len(Root) = 0
  BY NameAssumption DEF Root
<1>2. \A n \in Seq(Component) : PrefixOf(Root, n)
  <2> TAKE n \in Seq(Component)
  <2>1. Len(Root) <= Len(n) /\ \A i \in 1..Len(Root) : Root[i] = n[i]
    <3>1. Len(n) \in Nat
      OBVIOUS
    <3> QED BY <1>1, <3>1
  <2> QED BY <1>1, <2>1, PrefixByComponents
<1>3. \A n \in Seq(Component) : Len(n) = 0 <=> n = Root
  BY DEF Root
<1>4. ASSUME NEW n \in Seq(Component), PrefixOf(n, Root)
      PROVE  n = Root
  <2>1. Len(n) = 0
    BY <1>1, <1>4 DEF PrefixOf
  <2> QED BY <1>3, <2>1
<1> QED BY <1>1, <1>2, <1>3, <1>4

\* The prefix of a name with k components.
LEMMA PrefixOfLength ==
    ASSUME NEW n \in Name, NEW k \in 0..Len(n)
    PROVE  /\ SubSeq(n, 1, k) \in Name /\ SubSeq(n, 1, k) \in Seq(Component)
           /\ Len(SubSeq(n, 1, k)) = k
           /\ PrefixOf(SubSeq(n, 1, k), n)
<1>1. n \in Seq(Component) /\ SubSeq(n, 1, k) \in Name
  BY NameAssumption
<1>2. SubSeq(n, 1, k) \in Seq(Component) /\ Len(SubSeq(n, 1, k)) = k
      /\ \A i \in 1..k : SubSeq(n, 1, k)[i] = n[i]
  BY <1>1
<1>3. k <= Len(n)
  BY <1>1
<1> QED BY <1>1, <1>2, <1>3, PrefixByComponents

-----------------------------------------------------------------------------
(* The list of the policy. *)

Linked(s) == {s[i] : i \in DOMAIN s}

Once(s) == \A i, j \in DOMAIN s : s[i] = s[j] => i = j

\* erase: an element that occurs once is gone, and nothing else.
LEMMA UnlinkedList ==
    ASSUME lru \in Seq(Name), Once(lru), NEW c \in Linked(lru)
    PROVE  /\ Unlinked(c) \in Seq(Name) /\ Len(Unlinked(c)) = Len(lru) - 1
           /\ Once(Unlinked(c)) /\ Linked(Unlinked(c)) = Linked(lru) \ {c}
<1> DEFINE K == {i \in 1..Len(lru) : lru[i] # c}
           t == Kept(lru, K)
           n == Cardinality(K)
<1>0. K \in SUBSET (1..Len(lru)) /\ DOMAIN lru = 1..Len(lru)
  OBVIOUS
<1>1. /\ t \in Seq(Name) /\ Len(t) = n /\ n \in Nat
      /\ \A k \in 1..n : Position(K, k) \in K /\ t[k] = lru[Position(K, k)]
      /\ \A i \in K : \E k \in 1..n : t[k] = lru[i]
      /\ \A j, k \in 1..n : Position(K, j) = Position(K, k) => j = k
  <2>1. lru \in Seq(Name)
    OBVIOUS
  <2> HIDE DEF K
  <2>2. /\ Kept(lru, K) \in Seq(Name) /\ Len(Kept(lru, K)) = Cardinality(K)
        /\ Cardinality(K) \in Nat
        /\ \A k \in 1..Cardinality(K) :
              Position(K, k) \in K /\ Kept(lru, K)[k] = lru[Position(K, k)]
        /\ \A i \in K : \E k \in 1..Cardinality(K) : Kept(lru, K)[k] = lru[i]
        /\ \A j, k \in 1..Cardinality(K) : Position(K, j) = Position(K, k) => j = k
    BY <1>0, <2>1, KeptElements
  <2> QED BY <2>2
<1>2. n = Len(lru) - 1
  <2>1. PICK i \in 1..Len(lru) : lru[i] = c
    BY <1>0 DEF Linked
  <2>2. K = (1..Len(lru)) \ {i}
    BY <1>0, <2>1 DEF Once
  <2> DEFINE l == Len(lru)
  <2>3. l \in Nat
    OBVIOUS
  <2> HIDE DEF l
  <2>4. IsFiniteSet(1..l) /\ Cardinality(1..l) = IF 1 > l THEN 0 ELSE l - 1 + 1
    BY <2>3, FS_Interval
  <2>5. IsFiniteSet(1..l) /\ Cardinality(1..l) = l
    BY <2>3, <2>4
  <2>6. i \in 1..l /\ K = (1..l) \ {i}
    BY <2>2 DEF l
  <2> HIDE DEF K
  <2>7. Cardinality((1..l) \ {i}) = l - 1
    BY <2>5, <2>6, FS_RemoveElement
  <2> QED BY <2>6, <2>7 DEF l
<1> HIDE DEF t, n
<1>3. DOMAIN t = 1..n
  BY <1>1
<1>4. Once(t)
  <2> SUFFICES ASSUME NEW j \in 1..n, NEW k \in 1..n, t[j] = t[k]
               PROVE  j = k
    BY <1>3 DEF Once
  <2>1. Position(K, j) = Position(K, k)
    <3>1. Position(K, j) \in 1..Len(lru) /\ Position(K, k) \in 1..Len(lru)
          /\ lru[Position(K, j)] = lru[Position(K, k)]
      BY <1>1
    <3> QED BY <1>0, <3>1 DEF Once
  <2> QED BY <1>1, <2>1
<1>5. Linked(t) \subseteq Linked(lru) \ {c}
  <2>1. ASSUME NEW k \in 1..n
        PROVE  t[k] \in Linked(lru) /\ t[k] # c
    BY <1>0, <1>1 DEF Linked
  <2> QED BY <1>3, <2>1 DEF Linked
<1>6. Linked(lru) \ {c} \subseteq Linked(t)
  <2>1. ASSUME NEW i \in 1..Len(lru), lru[i] # c
        PROVE  lru[i] \in Linked(t)
    <3>1. i \in K
      BY <2>1
    <3> HIDE DEF K
    <3>2. PICK k \in 1..n : t[k] = lru[i]
      BY <1>1, <3>1
    <3> QED BY <1>3, <3>2 DEF Linked
  <2> QED BY <1>0, <2>1 DEF Linked
<1> QED BY <1>1, <1>2, <1>4, <1>5, <1>6 DEF Unlinked, t

\* What goes to the end of the list is linked once if it was not before.
LEMMA AppendedList ==
    ASSUME NEW s \in Seq(Name), Once(s), NEW c \in Name \ Linked(s)
    PROVE  /\ Append(s, c) \in Seq(Name) /\ Len(Append(s, c)) = Len(s) + 1
           /\ Once(Append(s, c)) /\ Linked(Append(s, c)) = Linked(s) \cup {c}
<1> DEFINE t == Append(s, c)
           n == Len(s) + 1
<1>1. /\ t \in Seq(Name) /\ Len(t) = n /\ DOMAIN t = 1..n /\ DOMAIN s = 1..Len(s)
      /\ \A j \in 1..n : t[j] = IF j = n THEN c ELSE s[j]
  OBVIOUS
<1>2. n \in 1..n /\ \A j \in 1..n : j = n \/ j \in 1..Len(s)
  OBVIOUS
<1>3. 1..Len(s) \subseteq 1..n /\ n \notin 1..Len(s)
  OBVIOUS
<1>4. \A j \in 1..Len(s) : s[j] # c
  BY <1>1 DEF Linked
<1> HIDE DEF t, n
<1>5. Once(t)
  BY <1>1, <1>2, <1>3, <1>4 DEF Once
<1>6. Linked(t) = Linked(s) \cup {c}
  BY <1>1, <1>2, <1>3 DEF Linked
<1> QED BY <1>1, <1>5, <1>6 DEF t, n

\* The front of the list.
LEMMA TailList ==
    ASSUME NEW s \in Seq(Name), Once(s), s # << >>
    PROVE  /\ Tail(s) \in Seq(Name) /\ Len(Tail(s)) = Len(s) - 1 /\ Once(Tail(s))
           /\ Head(s) \in Linked(s) /\ Linked(Tail(s)) = Linked(s) \ {Head(s)}
<1>1. Len(s) >= 1 /\ Len(s) \in Nat /\ Head(s) = s[1] /\ 1 \in 1..Len(s) /\ DOMAIN s = 1..Len(s)
  OBVIOUS
<1> DEFINE t == Tail(s)
           n == Len(s) - 1
<1>2. /\ t \in Seq(Name) /\ Len(t) = n /\ DOMAIN t = 1..n
      /\ \A j \in 1..n : t[j] = s[j + 1]
  OBVIOUS
<1>3. \A j \in 1..n : j + 1 \in 1..Len(s) /\ j + 1 # 1
  BY <1>1
<1>4. \A j \in 1..n : \A k \in 1..n : j + 1 = k + 1 => j = k
  BY <1>1
<1>5. \A k \in 1..Len(s) : k # 1 => k - 1 \in 1..n /\ (k - 1) + 1 = k
  BY <1>1
<1> HIDE DEF t, n
<1>6. Once(t)
  BY <1>1, <1>2, <1>3, <1>4 DEF Once
<1>7. ASSUME NEW j \in 1..n
      PROVE  t[j] \in Linked(s) /\ t[j] # s[1]
  BY <1>1, <1>2, <1>3 DEF Once, Linked
<1>8. ASSUME NEW k \in 1..Len(s), s[k] # s[1]
      PROVE  s[k] \in Linked(t)
  <2> DEFINE j == k - 1
  <2>1. j \in 1..n /\ j + 1 = k
    BY <1>5, <1>8
  <2> HIDE DEF j
  <2>2. t[j] = s[k]
    BY <1>2, <2>1
  <2> QED BY <1>2, <2>1, <2>2 DEF Linked
<1>9. Linked(t) = Linked(s) \ {Head(s)}
  <2>1. Linked(t) \subseteq Linked(s) \ {Head(s)}
    BY <1>1, <1>2, <1>7 DEF Linked
  <2>2. Linked(s) \ {Head(s)} \subseteq Linked(t)
    BY <1>1, <1>8 DEF Linked
  <2> QED BY <2>1, <2>2
<1> QED BY <1>1, <1>2, <1>6, <1>9 DEF t, n, Linked

-----------------------------------------------------------------------------
(* The trie. *)

\* The nodes are names, and every prefix of a node is one.
Connected(N) ==
    /\ N \subseteq Name /\ Root \in N
    /\ \A p \in N : Prefixing(Name, p) \subseteq N

LEMMA NamesAreSequences == Name \subseteq Seq(Component)
  BY NameAssumption

\* The nodes on the way to a name are connected.
LEMMA GrownConnected ==
    ASSUME NEW N, Connected(N), NEW n \in Name
    PROVE  Connected(N \cup Prefixing(Name, n)) /\ n \in Prefixing(Name, n)
<1>1. n \in Prefixing(Name, n)
  BY PrefixReflexive, NamesAreSequences DEF Prefixing
<1>2. ASSUME NEW p \in Prefixing(Name, n)
      PROVE  Prefixing(Name, p) \subseteq Prefixing(Name, n)
  BY PrefixTransitive, NamesAreSequences DEF Prefixing
<1> QED BY <1>1, <1>2 DEF Connected, Prefixing

\* Where the way to a name leaves the way to another, below a common prefix.
LEMMA WaysPart ==
    ASSUME NEW p \in Name, NEW v \in Name, ~ PrefixOf(p, v),
           NEW q \in Name, PrefixOf(q, p), PrefixOf(q, v)
    PROVE  \E m, c \in Name : /\ PrefixOf(c, p) /\ ~ PrefixOf(c, v)
                              /\ PrefixOf(m, c) /\ PrefixOf(m, v) /\ Len(c) = Len(m) + 1
                              /\ Len(q) <= Len(m)
<1>0. p \in Seq(Component) /\ q \in Seq(Component) /\ v \in Seq(Component)
      /\ Len(p) \in Nat /\ Len(q) \in Nat
  BY NamesAreSequences
<1> DEFINE S == {k \in 0..Len(p) : ~ PrefixOf(SubSeq(p, 1, k), v)}
           Less == OpToRel(<, Nat)
<1>1. Len(p) \in S
  <2>1. SubSeq(p, 1, Len(p)) = p
    <3>1. PrefixOf(p, p)
      BY <1>0, PrefixReflexive
    <3> QED BY <3>1 DEF PrefixOf
  <2>2. ~ PrefixOf(SubSeq(p, 1, Len(p)), v)
    BY <2>1
  <2>3. Len(p) \in 0..Len(p)
    BY <1>0
  <2> HIDE DEF Less
  <2> QED BY <2>2, <2>3
<1>2. IsWellFoundedOn(Less, Nat)
  BY NatLessThanWellFounded
<1>3. PICK k \in S : \A j \in S : ~ (<<j, k>> \in Less)
  <2>1. S \subseteq Nat
    BY <1>0
  <2> HIDE DEF S, Less
  <2>2. \E x \in S : \A y \in S : ~ (<<y, x>> \in Less)
    BY <1>1, <1>2, <2>1, WFMin
  <2> QED BY <2>2
<1>4. k \in 0..Len(p) /\ ~ PrefixOf(SubSeq(p, 1, k), v)
  OBVIOUS
<1>5. k > Len(q)
  <2> SUFFICES ASSUME k <= Len(q)
               PROVE  FALSE
    BY <1>0, <1>4
  <2> DEFINE c == SubSeq(p, 1, k)
  <2>1. c \in Seq(Component) /\ Len(c) = k /\ PrefixOf(c, p) /\ ~ PrefixOf(c, v)
    BY <1>4, PrefixOfLength
  <2> HIDE DEF c
  <2>2. PrefixOf(c, q)
    BY <1>0, <2>1, PrefixesOfOne
  <2>3. PrefixOf(c, v)
    BY <1>0, <2>1, <2>2, PrefixTransitive
  <2> QED BY <2>1, <2>3
<1> DEFINE j == k - 1
           m == SubSeq(p, 1, j)
           c == SubSeq(p, 1, k)
<1>6. j \in 0..Len(p) /\ j \in Nat /\ k \in Nat /\ j < k /\ k = j + 1 /\ Len(q) <= j
  BY <1>0, <1>4, <1>5
<1>7. j \notin S
  <2> SUFFICES ASSUME j \in S
               PROVE  FALSE
    OBVIOUS
  <2>1. <<j, k>> \notin Less
    BY <1>3
  <2> HIDE DEF j
  <2> QED BY <1>6, <2>1 DEF OpToRel
<1>8. PrefixOf(m, v)
  BY <1>6, <1>7
<1>9. /\ m \in Name /\ m \in Seq(Component) /\ Len(m) = j /\ PrefixOf(m, p)
      /\ c \in Name /\ c \in Seq(Component) /\ Len(c) = k /\ PrefixOf(c, p)
  BY <1>4, <1>6, PrefixOfLength
<1>10. ~ PrefixOf(c, v)
  BY <1>4
<1> HIDE DEF m, c, j
<1>11. PrefixOf(m, c)
  BY <1>0, <1>6, <1>9, PrefixesOfOne
<1> QED BY <1>6, <1>8, <1>9, <1>10, <1>11

(***************************************************************************)
(* prune keeps the packets and the way to every node it keeps, and a node  *)
(* it keeps on the way to the one erased leads to a packet or to a branch. *)
(***************************************************************************)
LEMMA PrunedTrie ==
    ASSUME NEW N, Connected(N), NEW P, NEW v \in Name
    PROVE  /\ Connected(Pruned(N, P, v)) /\ Pruned(N, P, v) \subseteq N
           /\ N \ Pruned(N, P, v) \subseteq {p \in Name : P[p] = NoPacket}
           /\ \A p \in Pruned(N, P, v) : PrefixOf(p, v) =>
                 \E q \in N : PrefixOf(p, q) /\ (p = Root \/ P[q] # NoPacket \/ ~ PrefixOf(q, v))
<1> DEFINE path == Prefixing(N, v)
           bare(q) == q # Root /\ P[q] = NoPacket /\ Child(N, q) \subseteq path
           R == {p \in path : \A q \in path : Len(p) <= Len(q) => bare(q)}
<1>0. /\ N \subseteq Name /\ N \subseteq Seq(Component) /\ Root \in N /\ v \in Seq(Component)
      /\ \A p \in N : Len(p) \in Nat
      /\ \A p \in N : \A q \in Name : PrefixOf(q, p) => q \in N
  BY NamesAreSequences DEF Connected, Prefixing
<1>1. Pruned(N, P, v) = N \ R
  BY DEF Pruned
<1>2. \A p \in path : p \in N /\ PrefixOf(p, v)
  BY DEF Prefixing
<1>3. \A p \in N : PrefixOf(p, v) => p \in path
  BY DEF Prefixing
<1>4. ASSUME NEW p \in R
      PROVE  p \in path /\ p # Root /\ P[p] = NoPacket
             /\ \A q \in path : Len(p) <= Len(q) => bare(q)
  <2>1. bare(p)
    BY <1>0, <1>2
  <2> QED BY <2>1
<1>5. ASSUME NEW p \in N \ R, NEW q \in R, PrefixOf(q, p)
      PROVE  FALSE
  <2>1. q \in path /\ q \in N /\ PrefixOf(q, v) /\ \A x \in path : Len(q) <= Len(x) => bare(x)
    BY <1>2, <1>4
  <2>2. Len(q) <= Len(p)
    BY <1>5 DEF PrefixOf
  <2>3. CASE PrefixOf(p, v)
    <3>1. p \in path
      BY <1>3, <2>3
    <3>2. \A x \in path : Len(p) <= Len(x) => Len(q) <= Len(x)
      BY <1>0, <1>2, <2>1, <2>2
    <3>3. \A x \in path : Len(p) <= Len(x) => bare(x)
      BY <2>1, <3>2
    <3> QED BY <3>1, <3>3
  <2>4. CASE ~ PrefixOf(p, v)
    <3>1. p \in Name /\ q \in Name
      BY <1>0, <2>1
    <3>2. PICK m \in Name, c \in Name : /\ PrefixOf(c, p) /\ ~ PrefixOf(c, v)
                              /\ PrefixOf(m, c) /\ PrefixOf(m, v) /\ Len(c) = Len(m) + 1
                              /\ Len(q) <= Len(m)
      BY <1>5, <2>1, <2>4, <3>1, WaysPart
    <3>3. c \in N /\ m \in N
      BY <1>0, <3>2
    <3>4. m \in path /\ c \notin path
      BY <1>2, <1>3, <3>2, <3>3
    <3>5. c \in Child(N, m)
      BY <3>2, <3>3 DEF Child
    <3>6. bare(m)
      BY <2>1, <3>2, <3>4
    <3> QED BY <3>4, <3>5, <3>6
  <2> QED BY <2>3, <2>4
<1>6. Connected(N \ R)
  <2>1. Root \notin R
    BY <1>4
  <2>2. ASSUME NEW p \in N \ R, NEW q \in Prefixing(Name, p)
        PROVE  q \in N \ R
    <3>1. q \in N /\ PrefixOf(q, p)
      BY <1>0 DEF Prefixing
    <3> QED BY <1>5, <3>1
  <2> HIDE DEF R
  <2> QED BY <1>0, <2>1, <2>2 DEF Connected
<1>7. \A p \in R : p \in Name /\ P[p] = NoPacket
  BY <1>0, <1>2, <1>4
<1>8. ASSUME NEW p \in N \ R, PrefixOf(p, v), p # Root
      PROVE  \E q \in N : PrefixOf(p, q) /\ (P[q] # NoPacket \/ ~ PrefixOf(q, v))
  <2>1. PICK q \in path : Len(p) <= Len(q) /\ ~ bare(q)
    BY <1>3, <1>8
  <2>2. q \in N /\ PrefixOf(q, v) /\ PrefixOf(p, q)
    BY <1>0, <1>2, <1>8, <2>1, PrefixesOfOne
  <2>3. q # Root
    BY <1>0, <1>8, <2>2, RootIsPrefix
  <2>4. CASE P[q] # NoPacket
    BY <2>2, <2>4
  <2>5. CASE ~ (Child(N, q) \subseteq path)
    <3>1. PICK c \in N : PrefixOf(q, c) /\ c \notin path
      BY <2>5 DEF Child
    <3>2. PrefixOf(p, c)
      BY <1>0, <2>2, <3>1, PrefixTransitive
    <3> QED BY <1>3, <3>1, <3>2
  <2> QED BY <2>1, <2>3, <2>4, <2>5
<1>9. ASSUME NEW p \in N \ R, PrefixOf(p, v)
      PROVE  \E q \in N : PrefixOf(p, q) /\ (p = Root \/ P[q] # NoPacket \/ ~ PrefixOf(q, v))
  <2>1. PrefixOf(p, p)
    BY <1>0, PrefixReflexive
  <2> QED BY <1>8, <1>9, <2>1
<1> HIDE DEF R
<1> QED BY <1>1, <1>6, <1>7, <1>9

-----------------------------------------------------------------------------
(* The invariant, and what it says of a state. *)

CacheInv == TypeOK /\ TrieMatchesList /\ NoDeadBranches

LEMMA TrieFacts ==
    ASSUME CacheInv
    PROVE  /\ Connected(nodes) /\ Loaded(payload) \subseteq nodes
           /\ payload \in [Name -> Packet \cup {NoPacket}]
           /\ lru \in Seq(Name) /\ Once(lru) /\ Linked(lru) = Loaded(payload)
           /\ \A p \in nodes \ {Root} : \E q \in Loaded(payload) : PrefixOf(p, q)
<1>1. nodes \subseteq Name /\ payload \in [Name -> Packet \cup {NoPacket}] /\ lru \in Seq(Name)
  BY DEF CacheInv, TypeOK
<1>2. Loaded(payload) \subseteq nodes /\ Once(lru) /\ Linked(lru) = Loaded(payload)
  BY DEF CacheInv, TrieMatchesList, Once, Linked
<1>3. Root \in nodes /\ \A p \in nodes \ {Root} : Prefixing(Name, p) \subseteq nodes /\ Below(p) # {}
  BY DEF CacheInv, NoDeadBranches
<1>4. Prefixing(Name, Root) \subseteq {Root}
  BY RootIsPrefix, NamesAreSequences DEF Prefixing
<1>5. Connected(nodes)
  BY <1>1, <1>3, <1>4 DEF Connected
<1>6. \A p \in nodes \ {Root} : \E q \in Loaded(payload) : PrefixOf(p, q)
  BY <1>3 DEF Below
<1> QED BY <1>1, <1>2, <1>5, <1>6

\* The other way round, for the next state.
LEMMA TrieFromFacts ==
    ASSUME Connected(nodes)', Loaded(payload)' \subseteq nodes',
           payload' \in [Name -> Packet \cup {NoPacket}],
           lru' \in Seq(Name), Once(lru)', Linked(lru)' = Loaded(payload)',
           \A p \in nodes' \ {Root} : \E q \in Loaded(payload)' : PrefixOf(p, q),
           MaxSize # 0 => Len(lru') <= MaxSize, up' \in BOOLEAN,
           call' \in [op : {"none", "hit", "miss", "keep", "add"},
                      name : Name, used : Name, packet : Packet \cup {NoPacket}]
    PROVE  CacheInv'
<1>1. nodes' \subseteq Name /\ Root \in nodes' /\ \A p \in nodes' : Prefixing(Name, p) \subseteq nodes'
  BY DEF Connected
<1>2. TypeOK'
  BY <1>1 DEF TypeOK
<1>3. TrieMatchesList'
  BY DEF TrieMatchesList, Once, Linked
<1>4. \A p \in nodes' \ {Root} : Below(p)' # {}
  BY DEF Below
<1>5. NoDeadBranches'
  BY <1>1, <1>4 DEF NoDeadBranches
<1> QED BY <1>2, <1>3, <1>5 DEF CacheInv

\* A call of the store with its result.
LEMMA CallType ==
    ASSUME NEW op \in {"none", "hit", "miss", "keep", "add"}, NEW n \in Name, NEW u \in Name,
           NEW x \in Packet \cup {NoPacket}
    PROVE  [op |-> op, name |-> n, used |-> u, packet |-> x]
              \in [op : {"none", "hit", "miss", "keep", "add"},
                   name : Name, used : Name, packet : Packet \cup {NoPacket}]
  OBVIOUS

-----------------------------------------------------------------------------
(* The steps. *)

LEMMA HitStep ==
    ASSUME CacheInv, NEW n \in LookupName, LookupHit(n)
    PROVE  CacheInv'
<1>1. PICK c \in IF FoundNode(n) # {} THEN FoundNode(n) ELSE Below(n) :
         /\ lru' = MovedToEnd(c)
         /\ call' = [op |-> "hit", name |-> n, used |-> c, packet |-> payload[c]]
  BY DEF LookupHit
<1>2. c \in Loaded(payload) /\ c \in Name /\ n \in Name
  BY <1>1, NameAssumption DEF FoundNode, Below, Loaded
<1>3. UNCHANGED <<up, nodes, payload>>
  BY DEF LookupHit
<1>4. /\ Connected(nodes) /\ Loaded(payload) \subseteq nodes
      /\ payload \in [Name -> Packet \cup {NoPacket}]
      /\ lru \in Seq(Name) /\ Once(lru) /\ Linked(lru) = Loaded(payload)
      /\ \A p \in nodes \ {Root} : \E q \in Loaded(payload) : PrefixOf(p, q)
  BY TrieFacts
<1> DEFINE t == Unlinked(c)
<1>5. t \in Seq(Name) /\ Len(t) = Len(lru) - 1 /\ Once(t) /\ Linked(t) = Linked(lru) \ {c}
  BY <1>2, <1>4, UnlinkedList
<1> HIDE DEF t
<1>6. /\ Append(t, c) \in Seq(Name) /\ Len(Append(t, c)) = Len(t) + 1
      /\ Once(Append(t, c)) /\ Linked(Append(t, c)) = Linked(t) \cup {c}
  BY <1>2, <1>5, AppendedList
<1>7. lru' = Append(t, c)
  BY <1>1 DEF MovedToEnd, t
<1>8. lru' \in Seq(Name) /\ Len(lru') = Len(lru) /\ Once(lru)' /\ Linked(lru)' = Loaded(payload)'
  <2>1. Len(lru) \in Nat
    BY <1>4
  <2>2. Once(lru)' /\ Linked(lru)' = Linked(Append(t, c))
    BY <1>6, <1>7 DEF Once, Linked
  <2>3. Loaded(payload)' = Loaded(payload)
    BY <1>3 DEF Loaded
  <2>4. Linked(lru)' = Loaded(payload)'
    BY <1>2, <1>4, <1>5, <1>6, <2>2, <2>3
  <2>5. lru' \in Seq(Name) /\ Len(lru') = Len(lru)
    BY <1>5, <1>6, <1>7, <2>1
  <2> QED BY <2>2, <2>4, <2>5
<1>9. /\ MaxSize # 0 => Len(lru') <= MaxSize
      /\ up' \in BOOLEAN
  BY <1>3, <1>8 DEF CacheInv, TypeOK
<1>10. call' \in [op : {"none", "hit", "miss", "keep", "add"},
                  name : Name, used : Name, packet : Packet \cup {NoPacket}]
  BY <1>1, <1>2, <1>4, CallType
<1>11. Connected(nodes)' /\ Loaded(payload)' \subseteq nodes'
       /\ payload' \in [Name -> Packet \cup {NoPacket}]
       /\ \A p \in nodes' \ {Root} : \E q \in Loaded(payload)' : PrefixOf(p, q)
  BY <1>3, <1>4 DEF Connected, Loaded
<1> QED BY <1>8, <1>9, <1>10, <1>11, TrieFromFacts

\* A step that changes the record of the last call only, or the process dies.
LEMMA QuietStep ==
    ASSUME CacheInv, UNCHANGED <<nodes, payload, lru>>, up' \in BOOLEAN,
           call' \in [op : {"none", "hit", "miss", "keep", "add"},
                      name : Name, used : Name, packet : Packet \cup {NoPacket}]
    PROVE  CacheInv'
  BY DEF CacheInv, TypeOK, TrieMatchesList, NoDeadBranches, Loaded, Below

\* A name that is cached has its nodes already.
LEMMA KnownStep ==
    ASSUME CacheInv, NEW n \in ContentName, NEW x \in Packet, AddKnown(n, x)
    PROVE  CacheInv'
<1>1. n \in Name /\ n \in Loaded(payload)
  BY NameAssumption DEF AddKnown, Loaded
<1>2. nodes' = nodes
  BY <1>1, TrieFacts DEF AddKnown, Connected
<1>3. call' \in [op : {"none", "hit", "miss", "keep", "add"},
                 name : Name, used : Name, packet : Packet \cup {NoPacket}]
  BY <1>1, CallType DEF AddKnown
<1> QED BY <1>2, <1>3, QuietStep DEF AddKnown, CacheInv, TypeOK

(***************************************************************************)
(* A new content: nothing is evicted, or the front of the list is, with    *)
(* the branch that led to it and to nothing else.                          *)
(***************************************************************************)
LEMMA NewStep ==
    ASSUME CacheInv, NEW n \in ContentName, NEW x \in Packet, AddNew(n, x)
    PROVE  CacheInv'
<1> DEFINE grown == nodes \cup Prefixing(Name, n)
           filled == [payload EXCEPT ![n] = x]
           victim == Head(lru)
           emptied == [filled EXCEPT ![victim] = NoPacket]
<1>1. /\ payload[n] = NoPacket
      /\ \/ /\ ~Evicts
            /\ nodes' = grown /\ payload' = filled
            /\ lru' = Append(lru, n)
         \/ /\ Evicts
            /\ payload' = emptied
            /\ nodes' = Pruned(grown, emptied, victim)
            /\ lru' = Append(Tail(lru), n)
      /\ call' = [op |-> "add", name |-> n, used |-> n, packet |-> x]
      /\ UNCHANGED up
  BY DEF AddNew
<1>2. n \in Name /\ n \notin Loaded(payload) /\ x # NoPacket
  BY <1>1, NameAssumption, PacketAssumption DEF Loaded
<1>3. /\ Connected(nodes) /\ Loaded(payload) \subseteq nodes
      /\ payload \in [Name -> Packet \cup {NoPacket}]
      /\ lru \in Seq(Name) /\ Once(lru) /\ Linked(lru) = Loaded(payload)
      /\ \A p \in nodes \ {Root} : \E q \in Loaded(payload) : PrefixOf(p, q)
  BY TrieFacts
<1>4. Connected(grown) /\ n \in Prefixing(Name, n)
  BY <1>2, <1>3, GrownConnected
<1>5. /\ filled \in [Name -> Packet \cup {NoPacket}]
      /\ Loaded(filled) = Loaded(payload) \cup {n}
  BY <1>2, <1>3 DEF Loaded
<1>6. \A p \in grown \ {Root} : \E q \in Loaded(filled) : PrefixOf(p, q)
  BY <1>3, <1>5 DEF Prefixing
<1>7. up' \in BOOLEAN /\ (MaxSize # 0 => Len(lru) <= MaxSize)
  BY <1>1 DEF CacheInv, TypeOK
<1>8. call' \in [op : {"none", "hit", "miss", "keep", "add"},
                 name : Name, used : Name, packet : Packet \cup {NoPacket}]
  BY <1>1, <1>2, CallType
<1>9. CASE ~Evicts /\ nodes' = grown /\ payload' = filled /\ lru' = Append(lru, n)
  <2>1. /\ lru' \in Seq(Name) /\ Len(lru') = Len(lru) + 1
        /\ Once(Append(lru, n)) /\ Linked(Append(lru, n)) = Linked(lru) \cup {n}
    BY <1>2, <1>3, <1>9, AppendedList
  <2>2. Once(lru)' /\ Linked(lru)' = Linked(lru) \cup {n}
    BY <1>9, <2>1 DEF Once, Linked
  <2>3. Loaded(payload)' = Loaded(filled)
    BY <1>9 DEF Loaded
  <2> HIDE DEF filled
  <2>4. MaxSize # 0 => Len(lru') <= MaxSize
    <3>1. Len(lru) \in Nat
      BY <1>3
    <3> QED BY <1>7, <1>9, <2>1, <3>1, SizeAssumption DEF Evicts
  <2>5. Connected(nodes)'
    BY <1>4, <1>9 DEF Connected
  <2>6. Loaded(payload)' \subseteq nodes'
    BY <1>3, <1>4, <1>5, <1>9, <2>3
  <2> HIDE DEF grown
  <2>7. \A p \in nodes' \ {Root} : \E q \in Loaded(payload)' : PrefixOf(p, q)
    BY <1>6, <1>9, <2>3
  <2>8. Linked(lru)' = Loaded(payload)' /\ payload' \in [Name -> Packet \cup {NoPacket}]
    BY <1>3, <1>5, <1>9, <2>2, <2>3
  <2> QED BY <1>7, <1>8, <2>1, <2>2, <2>4, <2>5, <2>6, <2>7, <2>8, TrieFromFacts
<1>10. CASE /\ Evicts /\ payload' = emptied
            /\ nodes' = Pruned(grown, emptied, victim)
            /\ lru' = Append(Tail(lru), n)
  <2> DEFINE t == Tail(lru)
  <2>1. lru # << >> /\ MaxSize # 0 /\ Len(lru) <= MaxSize
    <3>1. Len(lru) >= 1
      BY <1>3, <1>10, SizeAssumption DEF Evicts
    <3> QED BY <1>3, <1>7, <1>10, <3>1 DEF Evicts
  <2>2. /\ t \in Seq(Name) /\ Len(t) = Len(lru) - 1 /\ Once(t)
        /\ victim \in Linked(lru) /\ Linked(t) = Linked(lru) \ {victim}
    BY <1>3, <2>1, TailList
  <2>3. victim \in Name /\ victim # n /\ victim \in Loaded(payload)
    BY <1>2, <1>3, <2>2 DEF Loaded
  <2>4. emptied \in [Name -> Packet \cup {NoPacket}] /\ Loaded(emptied) = Loaded(filled) \ {victim}
    <3> HIDE DEF filled, victim
    <3> QED BY <1>5, <2>3 DEF Loaded
  <2>5. /\ Append(t, n) \in Seq(Name) /\ Len(Append(t, n)) = Len(t) + 1
        /\ Once(Append(t, n)) /\ Linked(Append(t, n)) = Linked(t) \cup {n}
    <3> HIDE DEF t, victim
    <3> QED BY <1>2, <1>3, <2>2, AppendedList
  <2>6. Once(lru)' /\ Linked(lru)' = Linked(Append(t, n))
    BY <1>10, <2>5 DEF Once, Linked
  <2>7. Loaded(payload)' = Loaded(emptied)
    BY <1>10 DEF Loaded
  <2> HIDE DEF t, emptied, filled, victim, grown
  <2>8. Linked(lru)' = Loaded(payload)'
    BY <1>2, <1>3, <1>5, <2>2, <2>3, <2>4, <2>5, <2>6, <2>7
  <2>9. Len(lru') <= MaxSize /\ lru' \in Seq(Name)
    <3>1. Len(lru) \in Nat /\ lru' = Append(t, n)
      BY <1>3, <1>10 DEF t
    <3> QED BY <2>1, <2>2, <2>5, <3>1
  <2> DEFINE kept == Pruned(grown, emptied, victim)
  <2>10. /\ Connected(kept) /\ kept \subseteq grown
         /\ grown \ kept \subseteq {p \in Name : emptied[p] = NoPacket}
         /\ \A p \in kept : PrefixOf(p, victim) =>
              \E q \in grown : /\ PrefixOf(p, q)
                               /\ p = Root \/ emptied[q] # NoPacket \/ ~ PrefixOf(q, victim)
    BY <1>4, <2>3, PrunedTrie
  <2> HIDE DEF kept
  <2>11. nodes' = kept
    BY <1>10 DEF kept
  <2>12. Loaded(emptied) \subseteq kept
    <3>1. Loaded(emptied) \subseteq grown
      BY <1>3, <1>4, <1>5, <2>4 DEF grown
    <3>2. \A p \in Loaded(emptied) : emptied[p] # NoPacket
      BY DEF Loaded
    <3> QED BY <2>10, <3>1, <3>2
  <2>13. ASSUME NEW p \in kept \ {Root}
         PROVE  \E q \in Loaded(emptied) : PrefixOf(p, q)
    <3>1. p \in grown /\ kept \subseteq Name /\ grown \subseteq Name
      BY <1>4, <2>10 DEF Connected
    <3>2. PICK q \in Loaded(filled) : PrefixOf(p, q)
      BY <1>6, <3>1
    <3>3. CASE q # victim
      BY <2>4, <3>2, <3>3
    <3>4. CASE q = victim
      <4>1. PICK r \in grown : PrefixOf(p, r) /\ (emptied[r] # NoPacket \/ ~ PrefixOf(r, victim))
        BY <2>10, <3>2, <3>4
      <4>2. CASE emptied[r] # NoPacket
        BY <3>1, <4>1, <4>2 DEF Loaded
      <4>3. CASE ~ PrefixOf(r, victim)
        <5>1. r # Root
          BY <2>3, <4>3, RootIsPrefix, NamesAreSequences
        <5>2. PICK s \in Loaded(filled) : PrefixOf(r, s)
          BY <1>6, <5>1
        <5>3. s # victim
          BY <4>3, <5>2
        <5>4. p \in Name /\ r \in Name /\ s \in Name
          BY <3>1, <5>2 DEF Loaded
        <5>5. PrefixOf(p, s)
          BY <4>1, <5>2, <5>4, PrefixTransitive, NamesAreSequences
        <5> QED BY <2>4, <5>2, <5>3, <5>5
      <4> QED BY <4>1, <4>2, <4>3
    <3> QED BY <3>3, <3>4
  <2>14. Connected(nodes)'
    BY <2>10, <2>11 DEF Connected
  <2>15. Loaded(payload)' \subseteq nodes'
    BY <2>7, <2>11, <2>12
  <2>16. \A p \in nodes' \ {Root} : \E q \in Loaded(payload)' : PrefixOf(p, q)
    BY <2>7, <2>11, <2>13
  <2>17. payload' \in [Name -> Packet \cup {NoPacket}] /\ Once(lru)'
    BY <1>10, <2>4, <2>6 DEF emptied
  <2> QED BY <1>7, <1>8, <2>8, <2>9, <2>14, <2>15, <2>16, <2>17, TrieFromFacts
<1> HIDE DEF filled, emptied, grown, victim
<1> QED BY <1>1, <1>9, <1>10

LEMMA CacheStep == CacheInv /\ [Next]_vars => CacheInv'
<1>1. ASSUME CacheInv, NEW n \in LookupName, LookupMiss(n)
      PROVE  CacheInv'
  <2>1. n \in Name /\ << >> \in Name
    BY NameAssumption
  <2>2. call' = [op |-> "miss", name |-> n, used |-> << >>, packet |-> NoPacket]
        /\ UNCHANGED <<up, nodes, payload, lru>>
    BY <1>1 DEF LookupMiss, NoCall
  <2>3. up' \in BOOLEAN
    BY <1>1, <2>2 DEF CacheInv, TypeOK
  <2>4. call' \in [op : {"none", "hit", "miss", "keep", "add"},
                   name : Name, used : Name, packet : Packet \cup {NoPacket}]
    BY <2>1, <2>2, CallType
  <2> QED BY <1>1, <2>2, <2>3, <2>4, QuietStep
<1>2. ASSUME CacheInv, NEW n, LookupNull(n) \/ UNCHANGED vars
      PROVE  CacheInv'
  <2>1. UNCHANGED <<nodes, payload, lru, call>> /\ up' \in {up, FALSE}
    BY <1>2 DEF LookupNull, vars
  <2> QED BY <1>2, <2>1, QuietStep DEF CacheInv, TypeOK
<1> QED BY <1>1, <1>2, HitStep, KnownStep, NewStep DEF Next, Lookup, Add

LEMMA CacheInit == Init => CacheInv
<1> SUFFICES ASSUME Init
             PROVE  CacheInv
  OBVIOUS
<1>1. Loaded(payload) = {} /\ nodes = {Root} /\ lru = << >> /\ DOMAIN lru = {}
  BY DEF Init, Loaded
<1>2. call \in [op : {"none", "hit", "miss", "keep", "add"},
                name : Name, used : Name, packet : Packet \cup {NoPacket}]
  BY NameAssumption, CallType DEF Init, NoCall
<1>3. payload \in [Name -> Packet \cup {NoPacket}] /\ up \in BOOLEAN
  BY DEF Init
<1>4. lru \in Seq(Name) /\ (MaxSize # 0 => Len(lru) <= MaxSize)
  BY <1>1, SizeAssumption
<1>5. TypeOK
  BY <1>1, <1>2, <1>3, <1>4, RootIsPrefix DEF TypeOK
<1>6. TrieMatchesList /\ NoDeadBranches
  BY <1>1 DEF TrieMatchesList, NoDeadBranches
<1> QED BY <1>5, <1>6 DEF CacheInv

LEMMA CacheAlways == Spec => []CacheInv
  BY CacheInit, CacheStep, PTL DEF Spec

-----------------------------------------------------------------------------
(* What a lookup finds. *)

\* A walk reaches a name when some content lies at or below it.
LEMMA ReachedWhenCached ==
    ASSUME CacheInv, NEW n \in Name, ~ ReachLast(n)
    PROVE  CacheMatch(Loaded(payload), n) = {}
<1>1. /\ Connected(nodes) /\ Loaded(payload) \subseteq nodes
  BY TrieFacts
<1>2. ASSUME NEW c \in Loaded(payload), PrefixOf(n, c)
      PROVE  FALSE
  <2>1. c \in nodes /\ c \in Name /\ Prefixing(Name, c) \subseteq nodes
    BY <1>1 DEF Connected, Loaded
  <2>2. n \in nodes
    BY <1>2, <2>1 DEF Prefixing
  <2>3. Prefixing(Name, n) \subseteq nodes
    BY <1>1, <2>2 DEF Connected
  <2>4. PrefixOf(n, n)
    BY PrefixReflexive, NamesAreSequences
  <2>5. ReachLast(n)
    BY <2>2, <2>3, <2>4 DEF ReachLast, Walk, Prefixing
  <2> QED BY <2>5
<1>3. {c \in Loaded(payload) : PrefixOf(n, c)} = {}
  BY <1>2
<1> QED BY <1>3 DEF CacheMatch

\* The deepest packet on the way is the longest prefix that is cached.
LEMMA FoundIsMatch ==
    ASSUME CacheInv, NEW n \in Name, ReachLast(n),
           NEW c \in IF FoundNode(n) # {} THEN FoundNode(n) ELSE Below(n)
    PROVE  c \in CacheMatch(Loaded(payload), n) /\ c \in Loaded(payload)
<1> DEFINE C == Loaded(payload)
           below == {d \in C : PrefixOf(n, d)}
<1>1. /\ Connected(nodes) /\ C \subseteq nodes /\ n \in nodes
      /\ \A p \in nodes \ {Root} : \E q \in C : PrefixOf(p, q)
  BY TrieFacts DEF ReachLast, Walk, Prefixing
<1>2. C \subseteq Name /\ C \subseteq Seq(Component) /\ n \in Seq(Component)
  BY NamesAreSequences DEF Loaded
<1>3. Walk(n) \cap C = Prefixing(C, n)
  BY <1>1, <1>2 DEF Walk, Prefixing, Connected
<1>4. Below(n) = below
  BY <1>1 DEF Below
<1> HIDE DEF C
<1>5. FoundNode(n) = {p \in Prefixing(C, n) : \A q \in Prefixing(C, n) : Len(q) <= Len(p)}
  BY <1>3 DEF FoundNode, C
<1>6. CASE FoundNode(n) # {}
  <2>1. /\ c \in C /\ PrefixOf(c, n) /\ c \in Prefixing(C, n)
        /\ \A q \in Prefixing(C, n) : Len(q) <= Len(c)
    BY <1>5, <1>6 DEF Prefixing
  <2> DEFINE l == LongestPrefixMatch(C, n)
  <2>2. l \in Prefixing(C, n) /\ \A q \in Prefixing(C, n) : Len(q) <= Len(l)
    BY <2>1 DEF LongestPrefixMatch
  <2> HIDE DEF l
  <2>3. l \in Seq(Component) /\ c \in Seq(Component) /\ PrefixOf(l, n)
    BY <1>2, <2>1, <2>2 DEF Prefixing
  <2>4. Len(l) <= Len(c) /\ Len(c) <= Len(l)
    BY <2>1, <2>2
  <2>5. PrefixOf(c, l)
    BY <1>2, <2>1, <2>3, <2>4, PrefixesOfOne
  <2>6. Len(c) >= Len(l)
    BY <2>3, <2>4
  <2>7. c = l
    BY <2>3, <2>5, <2>6, PrefixOfSameLength
  <2>8. HasPrefixIn(C, n)
    BY <2>1 DEF HasPrefixIn
  <2>9. below # {}
    <3>1. CASE n = Root
      <4>1. c = Root
        BY <2>1, <2>3, <3>1, RootIsPrefix
      <4>2. PrefixOf(n, c)
        BY <1>2, <3>1, <4>1, PrefixReflexive
      <4> QED BY <2>1, <4>2
    <3>2. CASE n # Root
      BY <1>1, <3>2
    <3> QED BY <3>1, <3>2
  <2> HIDE DEF below
  <2>10. c \in CacheMatch(C, n)
    BY <2>7, <2>8, <2>9 DEF CacheMatch, below, l
  <2> QED BY <2>1, <2>10 DEF C
<1>7. CASE FoundNode(n) = {}
  <2>1. c \in below
    BY <1>4, <1>7
  <2>2. ~ HasPrefixIn(C, n)
    <3> SUFFICES ASSUME Prefixing(C, n) # {}
                 PROVE  FALSE
      BY DEF HasPrefixIn
    <3> DEFINE S == {k \in 0..Len(n) : \E p \in Prefixing(C, n) : Len(p) = Len(n) - k}
               Lower == OpToRel(<, Nat)
    <3>1. \A p \in Prefixing(C, n) : Len(p) \in Nat /\ Len(p) <= Len(n) /\ Len(n) - Len(p) \in S
      <4>1. ASSUME NEW p \in Prefixing(C, n)
            PROVE  Len(p) \in Nat /\ Len(p) <= Len(n) /\ Len(n) - Len(p) \in S
        <5>1. p \in Seq(Component) /\ PrefixOf(p, n)
          BY <1>2 DEF Prefixing
        <5>2. Len(p) \in Nat /\ Len(n) \in Nat /\ Len(p) <= Len(n)
          BY <1>2, <5>1 DEF PrefixOf
        <5> DEFINE k == Len(n) - Len(p)
        <5>3. k \in 0..Len(n) /\ Len(p) = Len(n) - k
          BY <5>2
        <5> HIDE DEF k
        <5>4. k \in S
          BY <5>3
        <5> QED BY <5>2, <5>4 DEF k
      <4> QED BY <4>1
    <3>2. S # {} /\ S \subseteq Nat
      <4>1. S # {}
        <5> HIDE DEF S
        <5> QED BY <3>1
      <4>2. Len(n) \in Nat
        BY <1>2
      <4>3. S \subseteq Nat
        BY <4>2
      <4> HIDE DEF S
      <4> QED BY <4>1, <4>3
    <3>3. IsWellFoundedOn(Lower, Nat)
      BY NatLessThanWellFounded
    <3>4. PICK k \in S : \A j \in S : ~ (<<j, k>> \in Lower)
      <4> HIDE DEF S, Lower
      <4>1. \E x \in S : \A y \in S : ~ (<<y, x>> \in Lower)
        BY <3>2, <3>3, WFMin
      <4> QED BY <4>1
    <3>5. PICK p \in Prefixing(C, n) : Len(p) = Len(n) - k
      OBVIOUS
    <3>6. ASSUME NEW q \in Prefixing(C, n)
          PROVE  Len(q) <= Len(p)
      <4> DEFINE j == Len(n) - Len(q)
      <4>1. j \in S /\ Len(q) \in Nat /\ Len(p) \in Nat
        BY <3>1
      <4>2. <<j, k>> \notin Lower
        BY <3>4, <4>1
      <4>3. k \in Nat /\ j \in Nat /\ Len(n) \in Nat
        <5> HIDE DEF j, S
        <5> QED BY <1>2, <3>2, <4>1
      <4>4. ~ (j < k)
        <5> HIDE DEF j
        <5> QED BY <4>2, <4>3 DEF OpToRel
      <4> QED BY <3>5, <4>1, <4>3, <4>4
    <3> HIDE DEF S, Lower
    <3> QED BY <1>5, <1>7, <3>6
  <2>3. c \in CacheMatch(C, n)
    BY <2>1, <2>2 DEF CacheMatch
  <2> QED BY <2>1, <2>3 DEF C
<1> QED BY <1>6, <1>7

-----------------------------------------------------------------------------
(* The list of the policy as the entries of the abstract cache. *)

Entries(s, P) == [i \in DOMAIN s |-> [name |-> s[i], packet |-> P[s[i]]]]

Entry == [name : Name, packet : Packet \cup {NoPacket}]

LEMMA EntriesType ==
    ASSUME NEW s \in Seq(Name), NEW P \in [Name -> Packet \cup {NoPacket}]
    PROVE  /\ Entries(s, P) \in Seq(Entry) /\ Len(Entries(s, P)) = Len(s)
           /\ DOMAIN Entries(s, P) = 1..Len(s)
           /\ \A i \in 1..Len(s) : Entries(s, P)[i] = [name |-> s[i], packet |-> P[s[i]]]
<1> DEFINE n == Len(s)
           e == Entries(s, P)
<1>1. n \in Nat /\ DOMAIN s = 1..n /\ \A i \in 1..n : s[i] \in Name
  OBVIOUS
<1> HIDE DEF n
<1>2. e = [i \in 1..n |-> [name |-> s[i], packet |-> P[s[i]]]]
  BY <1>1 DEF Entries
<1> HIDE DEF e
<1>3. \A i \in 1..n : e[i] = [name |-> s[i], packet |-> P[s[i]]] /\ e[i] \in Entry
  BY <1>1, <1>2 DEF Entry
<1>4. e \in [1..n -> Entry]
  BY <1>2, <1>3
<1>5. e \in Seq(Entry) /\ Len(e) = n /\ DOMAIN e = 1..n
  BY <1>1, <1>4
<1> QED BY <1>3, <1>5 DEF e, n

LEMMA EntriesAppend ==
    ASSUME NEW s \in Seq(Name), NEW P \in [Name -> Packet \cup {NoPacket}], NEW c \in Name
    PROVE  Entries(Append(s, c), P) = Append(Entries(s, P), [name |-> c, packet |-> P[c]])
<1> DEFINE t == Append(s, c)
           e == Entries(s, P)
           new == [name |-> c, packet |-> P[c]]
           n == Len(s) + 1
<1>1. /\ t \in Seq(Name) /\ Len(t) = n /\ n \in Nat
      /\ \A i \in 1..n : t[i] = IF i = n THEN c ELSE s[i]
  OBVIOUS
<1>2. /\ e \in Seq(Entry) /\ Len(e) = Len(s)
      /\ \A i \in 1..Len(s) : e[i] = [name |-> s[i], packet |-> P[s[i]]]
  BY EntriesType
<1>3. new \in Entry
  BY DEF Entry
<1> HIDE DEF e, new, t
<1>4. /\ Entries(t, P) \in Seq(Entry) /\ Len(Entries(t, P)) = n
      /\ \A i \in 1..n : Entries(t, P)[i] = [name |-> t[i], packet |-> P[t[i]]]
  BY <1>1, EntriesType
<1>5. /\ Append(e, new) \in Seq(Entry) /\ Len(Append(e, new)) = n
      /\ \A i \in 1..n : Append(e, new)[i] = IF i = n THEN new ELSE e[i]
  BY <1>2, <1>3
<1>6. \A i \in 1..n : i = n \/ i \in 1..Len(s)
  OBVIOUS
<1> HIDE DEF n
<1>7. ASSUME NEW i \in 1..n
      PROVE  Entries(t, P)[i] = Append(e, new)[i]
  <2>1. CASE i = n
    BY <1>1, <1>4, <1>5, <2>1 DEF new
  <2>2. CASE i # n
    BY <1>1, <1>2, <1>4, <1>5, <1>6, <2>2
  <2> QED BY <2>1, <2>2
<1>8. Entries(t, P) = Append(e, new)
  BY <1>4, <1>5, <1>7, SeqEqual
<1> QED BY <1>8 DEF e, new, t

LEMMA EntriesTail ==
    ASSUME NEW s \in Seq(Name), NEW P \in [Name -> Packet \cup {NoPacket}], s # << >>
    PROVE  Entries(Tail(s), P) = Tail(Entries(s, P))
<1> DEFINE t == Tail(s)
           e == Entries(s, P)
           n == Len(s) - 1
<1>1. /\ t \in Seq(Name) /\ Len(t) = n /\ n \in Nat /\ Len(s) > 0
      /\ \A i \in 1..n : t[i] = s[i + 1]
  OBVIOUS
<1>2. \A i \in 1..n : i + 1 \in 1..Len(s)
  OBVIOUS
<1>3. /\ e \in Seq(Entry) /\ Len(e) = Len(s)
      /\ \A i \in 1..Len(s) : e[i] = [name |-> s[i], packet |-> P[s[i]]]
  BY EntriesType
<1> HIDE DEF e, t
<1>4. /\ Entries(t, P) \in Seq(Entry) /\ Len(Entries(t, P)) = n
      /\ \A i \in 1..n : Entries(t, P)[i] = [name |-> t[i], packet |-> P[t[i]]]
  BY <1>1, EntriesType
<1>5. e # << >>
  BY <1>1, <1>3
<1>6. /\ Tail(e) \in Seq(Entry) /\ Len(Tail(e)) = n
      /\ \A i \in 1..n : Tail(e)[i] = e[i + 1]
  BY <1>3, <1>5
<1> HIDE DEF n
<1>7. \A i \in 1..n : Entries(t, P)[i] = Tail(e)[i]
  BY <1>1, <1>2, <1>3, <1>4, <1>6
<1>8. Entries(t, P) = Tail(e)
  BY <1>4, <1>6, <1>7, SeqEqual
<1> QED BY <1>8 DEF e, t

LEMMA EntriesKept ==
    ASSUME NEW s \in Seq(Name), NEW P \in [Name -> Packet \cup {NoPacket}],
           NEW K \in SUBSET (1..Len(s))
    PROVE  Entries(Kept(s, K), P) = Kept(Entries(s, P), K)
<1> DEFINE t == Kept(s, K)
           e == Entries(s, P)
           n == Cardinality(K)
<1>1. /\ t \in Seq(Name) /\ Len(t) = n /\ n \in Nat
      /\ \A k \in 1..n : Position(K, k) \in K /\ t[k] = s[Position(K, k)]
  BY KeptElements
<1>2. /\ e \in Seq(Entry) /\ Len(e) = Len(s)
      /\ \A i \in 1..Len(s) : e[i] = [name |-> s[i], packet |-> P[s[i]]]
  BY EntriesType
<1> HIDE DEF e, t
<1>3. /\ Entries(t, P) \in Seq(Entry) /\ Len(Entries(t, P)) = n
      /\ \A i \in 1..n : Entries(t, P)[i] = [name |-> t[i], packet |-> P[t[i]]]
  BY <1>1, EntriesType
<1>4. K \in SUBSET (1..Len(e))
  BY <1>2
<1>5. /\ Kept(e, K) \in Seq(Entry) /\ Len(Kept(e, K)) = n
      /\ \A k \in 1..n : Kept(e, K)[k] = e[Position(K, k)]
  <2>1. e \in Seq(Entry)
    BY <1>2
  <2>2. /\ Kept(e, K) \in Seq(Entry) /\ Len(Kept(e, K)) = Cardinality(K)
        /\ \A k \in 1..Cardinality(K) : Kept(e, K)[k] = e[Position(K, k)]
    BY <1>4, <2>1, KeptElements
  <2> QED BY <2>2
<1> HIDE DEF n
<1>6. \A k \in 1..n : Entries(t, P)[k] = Kept(e, K)[k]
  BY <1>1, <1>2, <1>3, <1>5
<1>7. Entries(t, P) = Kept(e, K)
  BY <1>3, <1>5, <1>6, SeqEqual
<1> QED BY <1>7 DEF e, t

LEMMA EntriesSame ==
    ASSUME NEW s \in Seq(Name), NEW P, NEW Q, \A m \in Linked(s) : P[m] = Q[m]
    PROVE  Entries(s, P) = Entries(s, Q)
<1>1. \A i \in DOMAIN s : P[s[i]] = Q[s[i]]
  BY DEF Linked
<1> QED BY <1>1 DEF Entries

-----------------------------------------------------------------------------
(* The trie and its list implement the abstract cache. *)

\* The abstract cache reads names and lists as the store does.
LEMMA SameOperators ==
    /\ \A C, n : Cache!CacheMatch(C, n) = CacheMatch(C, n)
    /\ \A s, K : Cache!Kept(s, K) = Kept(s, K)
<1>1. \A p, n : Cache!PrefixOf(p, n) <=> PrefixOf(p, n)
  BY DEF Cache!PrefixOf, PrefixOf
<1>2. \A C, n : Cache!Prefixing(C, n) = Prefixing(C, n)
  BY <1>1 DEF Cache!Prefixing, Prefixing
<1>3. \A C, n : Cache!HasPrefixIn(C, n) <=> HasPrefixIn(C, n)
  BY <1>2 DEF Cache!HasPrefixIn, HasPrefixIn
<1>4. \A C, n : Cache!LongestPrefixMatch(C, n) = LongestPrefixMatch(C, n)
  BY DEF Cache!LongestPrefixMatch, LongestPrefixMatch, Cache!Prefixing, Prefixing,
         Cache!PrefixOf, PrefixOf
<1>5. ASSUME NEW C, NEW n
      PROVE  Cache!CacheMatch(C, n) = CacheMatch(C, n)
  <2>1. {c \in C : Cache!PrefixOf(n, c)} = {c \in C : PrefixOf(n, c)}
    BY <1>1
  <2> QED BY <1>3, <1>4, <2>1 DEF Cache!CacheMatch, CacheMatch
<1>6. ASSUME NEW s, NEW K
      PROVE  Cache!Kept(s, K) = Kept(s, K)
  <2>1. \A k : Cache!Position(K, k) = Position(K, k)
    BY DEF Cache!Position, Position, Cache!Rank, Rank, Cache!Cardinality, Cardinality
  <2> QED BY <2>1 DEF Cache!Kept, Kept, Cache!Cardinality, Cardinality
<1> QED BY <1>5, <1>6

\* The entries of the abstract cache.
LEMMA CacheEntries ==
    ASSUME CacheInv
    PROVE  /\ Cache!Cached = Loaded(payload)
           /\ \A c \in Loaded(payload) : Cache!EntryOf(c) = [name |-> c, packet |-> payload[c]]
           /\ \A c : Cache!Others(c) = Entries(Unlinked(c), payload)
<1>1. /\ payload \in [Name -> Packet \cup {NoPacket}] /\ lru \in Seq(Name)
      /\ Linked(lru) = Loaded(payload)
  BY TrieFacts
<1> DEFINE e == [i \in DOMAIN lru |-> [name |-> lru[i], packet |-> payload[lru[i]]]]
<1>2. /\ e = Entries(lru, payload) /\ e \in Seq(Entry) /\ Len(e) = Len(lru)
      /\ DOMAIN e = 1..Len(lru) /\ DOMAIN lru = 1..Len(lru)
      /\ \A i \in 1..Len(lru) : e[i] = [name |-> lru[i], packet |-> payload[lru[i]]]
  <2>1. e = Entries(lru, payload)
    BY DEF Entries
  <2> HIDE DEF e
  <2> QED BY <1>1, <2>1, EntriesType
<1>3. Cache!Cached = {e[i].name : i \in DOMAIN e}
  BY DEF Cache!Cached
<1>4. \A c : Cache!EntryOf(c) = e[CHOOSE i \in DOMAIN e : e[i].name = c]
  BY DEF Cache!EntryOf
<1>5. \A c : Cache!Others(c) = Kept(e, {i \in 1..Len(e) : e[i].name # c})
  <2>1. \A c : Cache!Others(c) = Cache!Kept(e, {i \in 1..Len(e) : e[i].name # c})
    BY DEF Cache!Others
  <2> HIDE DEF e
  <2> QED BY <2>1, SameOperators
<1> HIDE DEF e
<1>6. Cache!Cached = Loaded(payload)
  <2>1. {e[i].name : i \in DOMAIN e} = Linked(lru)
    BY <1>2 DEF Linked
  <2> QED BY <1>1, <1>3, <2>1
<1>7. ASSUME NEW c \in Loaded(payload)
      PROVE  Cache!EntryOf(c) = [name |-> c, packet |-> payload[c]]
  <2> DEFINE i == CHOOSE j \in DOMAIN e : e[j].name = c
  <2>1. \E j \in DOMAIN e : e[j].name = c
    BY <1>1, <1>2 DEF Linked
  <2>2. i \in DOMAIN e /\ e[i].name = c
    BY <2>1
  <2>3. Cache!EntryOf(c) = e[i]
    BY <1>4
  <2> HIDE DEF i
  <2> QED BY <1>2, <2>2, <2>3
<1>8. ASSUME NEW c
      PROVE  Cache!Others(c) = Entries(Unlinked(c), payload)
  <2> DEFINE K == {i \in 1..Len(lru) : lru[i] # c}
  <2>1. {i \in 1..Len(e) : e[i].name # c} = K
    BY <1>2
  <2>2. K \in SUBSET (1..Len(lru))
    OBVIOUS
  <2> HIDE DEF K
  <2>3. Entries(Kept(lru, K), payload) = Kept(Entries(lru, payload), K)
    BY <1>1, <2>2, EntriesKept
  <2>4. Cache!Others(c) = Kept(e, K)
    BY <1>5, <2>1
  <2> QED BY <1>2, <2>3, <2>4 DEF Unlinked, K
<1> QED BY <1>6, <1>7, <1>8

LEMMA RefinesInit == Init => Cache!Init
<1> SUFFICES ASSUME Init
             PROVE  Cache!Init
  OBVIOUS
<1>1. DOMAIN lru = {}
  BY DEF Init
<1>2. [i \in DOMAIN lru |-> [name |-> lru[i], packet |-> payload[lru[i]]]] = << >>
  BY <1>1
<1>3. call = Cache!NoCall
  BY DEF Init, NoCall, Cache!NoCall
<1> QED BY <1>2, <1>3 DEF Cache!Init

LEMMA RefinesHit ==
    ASSUME CacheInv, NEW n \in LookupName, LookupHit(n)
    PROVE  Cache!Hit(n)
<1>1. n \in Name /\ ReachLast(n) /\ payload' = payload
  BY NameAssumption DEF LookupHit
<1>2. PICK c \in IF FoundNode(n) # {} THEN FoundNode(n) ELSE Below(n) :
         /\ lru' = MovedToEnd(c)
         /\ call' = [op |-> "hit", name |-> n, used |-> c, packet |-> payload[c]]
  BY DEF LookupHit
<1>3. c \in CacheMatch(Loaded(payload), n) /\ c \in Loaded(payload) /\ c \in Name
  BY <1>1, <1>2, FoundIsMatch DEF Loaded
<1>4. c \in Cache!CacheMatch(Cache!Cached, n)
  BY <1>3, CacheEntries, SameOperators
<1>5. /\ payload \in [Name -> Packet \cup {NoPacket}] /\ lru \in Seq(Name) /\ Once(lru)
      /\ Linked(lru) = Loaded(payload)
  BY TrieFacts
<1>6. Cache!EntryOf(c) = [name |-> c, packet |-> payload[c]]
      /\ Cache!Others(c) = Entries(Unlinked(c), payload)
  BY <1>3, CacheEntries
<1>7. Entries(lru', payload') = Append(Cache!Others(c), Cache!EntryOf(c))
  <2> DEFINE t == Unlinked(c)
  <2>1. t \in Seq(Name)
    BY <1>3, <1>5, UnlinkedList
  <2> HIDE DEF t
  <2>2. Entries(Append(t, c), payload) = Append(Entries(t, payload), [name |-> c, packet |-> payload[c]])
    BY <1>3, <1>5, <2>1, EntriesAppend
  <2>3. lru' = Append(t, c)
    BY <1>2 DEF MovedToEnd, t
  <2> QED BY <1>1, <1>6, <2>2, <2>3 DEF t
<1>8. call' = [op |-> "hit", name |-> n, used |-> c, packet |-> Cache!EntryOf(c).packet]
  BY <1>2, <1>6
<1> QED BY <1>4, <1>7, <1>8 DEF Cache!Hit, Entries

LEMMA RefinesMiss ==
    ASSUME CacheInv, NEW n \in LookupName, LookupMiss(n)
    PROVE  Cache!Miss(n)
<1>1. n \in Name
  BY NameAssumption
<1>2. Cache!CacheMatch(Cache!Cached, n) = {}
  BY <1>1, ReachedWhenCached, CacheEntries, SameOperators DEF LookupMiss
<1> QED BY <1>2 DEF LookupMiss, Cache!Miss, NoCall, Cache!NoCall

LEMMA RefinesKnown ==
    ASSUME CacheInv, NEW n \in ContentName, NEW x \in Packet, AddKnown(n, x)
    PROVE  Cache!Keep(n, x)
<1>1. n \in Cache!Cached
  BY NameAssumption, CacheEntries DEF AddKnown, Loaded
<1> QED BY <1>1 DEF AddKnown, Cache!Keep

LEMMA RefinesNew ==
    ASSUME CacheInv, NEW n \in ContentName, NEW x \in Packet, AddNew(n, x)
    PROVE  Cache!Add(n, x)
<1> DEFINE e == [i \in DOMAIN lru |-> [name |-> lru[i], packet |-> payload[lru[i]]]]
           filled == [payload EXCEPT ![n] = x]
           victim == Head(lru)
           emptied == [filled EXCEPT ![victim] = NoPacket]
           new == [name |-> n, packet |-> x]
           room == IF MaxSize = 0 \/ Len(e) < MaxSize THEN e ELSE Tail(e)
<1>1. /\ payload[n] = NoPacket
      /\ \/ ~Evicts /\ payload' = filled /\ lru' = Append(lru, n)
         \/ Evicts /\ payload' = emptied /\ lru' = Append(Tail(lru), n)
      /\ call' = [op |-> "add", name |-> n, used |-> n, packet |-> x]
  BY DEF AddNew
<1>2. /\ payload \in [Name -> Packet \cup {NoPacket}] /\ lru \in Seq(Name) /\ Once(lru)
      /\ Linked(lru) = Loaded(payload) /\ n \in Name /\ n \notin Linked(lru)
  BY <1>1, TrieFacts, NameAssumption DEF Loaded
<1>3. e = Entries(lru, payload) /\ Len(e) = Len(lru) /\ Len(lru) \in Nat
  <2>1. e = Entries(lru, payload)
    BY DEF Entries
  <2> HIDE DEF e
  <2> QED BY <1>2, <2>1, EntriesType
<1>4. room = IF Evicts THEN Tail(e) ELSE e
  BY <1>3, SizeAssumption DEF Evicts
<1> HIDE DEF e
<1>5. filled \in [Name -> Packet \cup {NoPacket}] /\ filled[n] = x
      /\ \A m \in Name \ {n} : filled[m] = payload[m]
  BY <1>2
<1> HIDE DEF filled, room
<1>6. ASSUME ~Evicts, payload' = filled, lru' = Append(lru, n)
      PROVE  Entries(lru', payload') = Append(room, new)
  <2>1. Entries(lru, filled) = Entries(lru, payload)
    <3>1. Linked(lru) \subseteq Name
      BY <1>2 DEF Linked
    <3> QED BY <1>2, <1>5, <3>1, EntriesSame
  <2>2. Entries(Append(lru, n), filled) = Append(Entries(lru, filled), new)
    BY <1>2, <1>5, EntriesAppend
  <2> QED BY <1>3, <1>4, <1>6, <2>1, <2>2
<1>7. ASSUME Evicts, payload' = emptied, lru' = Append(Tail(lru), n)
      PROVE  Entries(lru', payload') = Append(room, new)
  <2> DEFINE t == Tail(lru)
  <2>1. lru # << >>
    BY <1>2, <1>7, SizeAssumption DEF Evicts
  <2>2. t \in Seq(Name) /\ victim \in Linked(lru) /\ Linked(t) = Linked(lru) \ {victim}
    BY <1>2, <2>1, TailList
  <2>3. victim \in Name /\ victim # n
    BY <1>2, <2>2 DEF Linked
  <2>4. /\ emptied \in [Name -> Packet \cup {NoPacket}] /\ emptied[n] = x
        /\ \A m \in Name \ {n, victim} : emptied[m] = payload[m]
    <3> HIDE DEF victim
    <3> QED BY <1>2, <1>5, <2>3
  <2> HIDE DEF emptied, victim
  <2>5. Entries(t, payload) = Tail(e)
    BY <1>2, <1>3, <2>1, EntriesTail
  <2> HIDE DEF t
  <2>6. Entries(t, emptied) = Entries(t, payload)
    <3>1. Linked(lru) \subseteq Name
      BY <1>2 DEF Linked
    <3>2. \A m \in Linked(t) : emptied[m] = payload[m]
      BY <1>2, <2>2, <2>4, <3>1
    <3> QED BY <2>2, <3>2, EntriesSame
  <2>7. Entries(Append(t, n), emptied) = Append(Entries(t, emptied), new)
    BY <1>2, <2>2, <2>4, EntriesAppend
  <2>8. lru' = Append(t, n) /\ payload' = emptied
    BY <1>7 DEF t
  <2>9. Entries(lru', payload') = Append(room, new)
    BY <1>4, <1>7, <2>5, <2>6, <2>7, <2>8
  <2> QED BY <2>9
<1>8. Entries(lru', payload') = Append(room, new)
  BY <1>1, <1>6, <1>7
<1>9. n \notin Cache!Cached
  BY <1>2, CacheEntries
<1> QED BY <1>1, <1>8, <1>9 DEF Cache!Add, Entries, room, e

LEMMA RefinesNext == CacheInv /\ [Next]_vars => [Cache!Next]_Cache!vars
<1> DEFINE e == [i \in DOMAIN lru |-> [name |-> lru[i], packet |-> payload[lru[i]]]]
<1> SUFFICES ASSUME CacheInv, [Next]_vars
             PROVE  Cache!Next \/ UNCHANGED Cache!vars
  OBVIOUS
<1>1. ASSUME UNCHANGED <<payload, lru, call>>
      PROVE  UNCHANGED Cache!vars
  BY <1>1 DEF Cache!vars
<1>2. ASSUME NEW n \in LookupName, LookupHit(n) \/ LookupMiss(n)
      PROVE  Cache!Next
  BY <1>2, RefinesHit, RefinesMiss DEF Cache!Next
<1>3. ASSUME NEW n \in ContentName, NEW x \in Packet, AddKnown(n, x) \/ AddNew(n, x)
      PROVE  Cache!Next
  BY <1>3, RefinesKnown, RefinesNew DEF Cache!Next
<1>4. ASSUME NEW n, LookupNull(n)
      PROVE  UNCHANGED Cache!vars
  BY <1>1, <1>4 DEF LookupNull
<1>5. CASE UNCHANGED vars
  BY <1>1, <1>5 DEF vars
<1> QED BY <1>2, <1>3, <1>4, <1>5 DEF Next, Lookup, Add

-----------------------------------------------------------------------------
(* The theorems. *)

(***************************************************************************)
(* The trie, the list and the record of the last call are well formed, and *)
(* the list never grows past max_size_ (lru_policy_traits::insert).        *)
(***************************************************************************)
THEOREM StoreTypeCorrect == Spec => []TypeOK
<1>1. CacheInv => TypeOK
  BY DEF CacheInv
<1> QED BY <1>1, CacheAlways, PTL

(***************************************************************************)
(* The list links every node that has a packet, once, and nothing else:    *)
(* eviction and lookup never touch a node that is unlinked or freed.       *)
(***************************************************************************)
THEOREM ListFollowsTrie == Spec => []TrieMatchesList
<1>1. CacheInv => TrieMatchesList
  BY DEF CacheInv
<1> QED BY <1>1, CacheAlways, PTL

(***************************************************************************)
(* prune leaves no branch that leads to no packet, and cuts none that does.*)
(***************************************************************************)
THEOREM TrieKeepsNoDeadBranch == Spec => []NoDeadBranches
<1>1. CacheInv => NoDeadBranches
  BY DEF CacheInv
<1> QED BY <1>1, CacheAlways, PTL

(***************************************************************************)
(* The trie and its list are a least-recently-used cache, for every limit, *)
(* none included: what a lookup answers and what an insertion evicts are   *)
(* decided by the contents and their last uses alone.                      *)
(***************************************************************************)
THEOREM StoreIsCache == Spec => ImplementsCache
  BY RefinesInit, RefinesNext, CacheAlways, PTL DEF Spec, ImplementsCache, Cache!Spec
=============================================================================
