------------------------ MODULE HeaderExchangeProofs ------------------------
(***************************************************************************)
(* The header that is taken from a packet is the one it was given, and the *)
(* payload is what lies behind it: for all names, selectors, nonces and    *)
(* payloads, in packets of all sizes, after any number of hops.            *)
(*                                                                         *)
(* The argument goes the way of the bytes.  What is written of a number, a *)
(* block, a field is a sequence of bytes of the size that was reckoned;    *)
(* wherever these bytes are in a packet, the parser reads the block there  *)
(* and goes on behind it (Begins, Reads); so it makes of a header the tree *)
(* of its fields, and the visit takes them one after the other.  Whatever  *)
(* the bytes, the parse ends, in a tree or in a failure.  The invariant    *)
(* then says of every message in the socket that packets which begin with  *)
(* it are read as its header, and of the packet at hand that it does.      *)
(***************************************************************************)
EXTENDS HeaderExchange, SubsequenceLemmas, SequenceTheorems

-----------------------------------------------------------------------------
(* The encoding: what is written is bytes, as many as the sizes say *)

\* The loop over the digits of a number is well defined.
LEMMA InBaseLoop ==
    ASSUME NEW b \in {10, 128}, NEW N \in Nat
    PROVE  \E f : /\ f[0] = << >>
                  /\ \A n \in 1 .. N : f[n] = Append(f[n \div b], n % b)
                  /\ InBase(b, N) = f[N]
<1> DEFINE Shorter(n) == n \div b
           Longer(s, n) == Append(s, n % b)
           Rounds(f, m) == f = [n \in 0 .. m |-> IF n = 0 THEN << >> ELSE Longer(f[Shorter(n)], n)]
           T == {m \in 0 .. N : \E f : Rounds(f, m)}
<1>0. \A n \in 1 .. N : Shorter(n) \in 0 .. n - 1
  BY b = 10 \/ b = 128
<1> HIDE DEF Shorter, Longer
<1>1. 0 \in T
  <2>1. Rounds([n \in 0 .. 0 |-> << >>], 0)
    OBVIOUS
  <2> HIDE DEF Rounds
  <2> QED BY <2>1
<1>2. ASSUME NEW m \in 1 .. N, m - 1 \in T
      PROVE  m \in T
  <2>1. PICK f : Rounds(f, m - 1)
    BY <1>2
  <2> DEFINE g == [n \in 0 .. m |-> IF n = m THEN Longer(f[Shorter(m)], m) ELSE f[n]]
  <2>2. \A n \in 0 .. m - 1 : f[n] = IF n = 0 THEN << >> ELSE Longer(f[Shorter(n)], n)
    BY <2>1
  <2>3. \A n \in 0 .. m : g[n] = IF n = 0 THEN << >> ELSE Longer(g[Shorter(n)], n)
    BY <1>0, <2>2
  <2>4. Rounds(g, m)
    BY <2>3
  <2> HIDE DEF Rounds
  <2> QED BY <2>4
<1>3. T = 0 .. N
  <2> HIDE DEF Rounds
  <2> QED BY <1>1, <1>2, UpToInduction
<1>4. \E f : Rounds(f, N)
  BY <1>3
<1> DEFINE f == CHOOSE f : Rounds(f, N)
<1>5. Rounds(f, N)
  BY <1>4
<1>6. InBase(b, N) = f[N]
  BY DEF InBase, Shorter, Longer
<1>7. f[0] = << >> /\ \A n \in 1 .. N : f[n] = Longer(f[Shorter(n)], n)
  <2> HIDE DEF f
  <2> QED BY <1>5
<1> HIDE DEF f
<1> QED BY <1>6, <1>7 DEF Shorter, Longer

\* And the one that counts the bytes a value needs.
LEMMA EstimateLoop ==
    ASSUME NEW N \in Nat
    PROVE  \E f : /\ f[0] = 0
                  /\ \A n \in 1 .. N : f[n] = 1 + f[n \div 128]
                  /\ EstimateLeading(N) = f[N]
<1> DEFINE Rounds(f, m) == f = [n \in 0 .. m |-> IF n = 0 THEN 0 ELSE 1 + f[n \div 128]]
           T == {m \in 0 .. N : \E f : Rounds(f, m)}
<1>1. 0 \in T
  <2>1. Rounds([n \in 0 .. 0 |-> 0], 0)
    OBVIOUS
  <2> HIDE DEF Rounds
  <2> QED BY <2>1
<1>2. ASSUME NEW m \in 1 .. N, m - 1 \in T
      PROVE  m \in T
  <2>1. PICK f : Rounds(f, m - 1)
    BY <1>2
  <2> DEFINE g == [n \in 0 .. m |-> IF n = m THEN 1 + f[m \div 128] ELSE f[n]]
  <2>2. \A n \in 0 .. m - 1 : f[n] = IF n = 0 THEN 0 ELSE 1 + f[n \div 128]
    BY <2>1
  <2>3. \A n \in 1 .. m : n \div 128 \in 0 .. n - 1
    OBVIOUS
  <2>4. \A n \in 0 .. m : g[n] = IF n = 0 THEN 0 ELSE 1 + g[n \div 128]
    BY <2>2, <2>3
  <2>5. Rounds(g, m)
    BY <2>4
  <2> HIDE DEF Rounds
  <2> QED BY <2>5
<1>3. T = 0 .. N
  <2> HIDE DEF Rounds
  <2> QED BY <1>1, <1>2, UpToInduction
<1>4. \E f : Rounds(f, N)
  BY <1>3
<1> DEFINE f == CHOOSE f : Rounds(f, N)
<1>5. Rounds(f, N)
  BY <1>4
<1>6. EstimateLeading(N) = f[N]
  BY DEF EstimateLeading
<1>7. f[0] = 0 /\ \A n \in 1 .. N : f[n] = 1 + f[n \div 128]
  <2> HIDE DEF f
  <2> QED BY <1>5
<1> QED BY <1>6, <1>7

\* Digits are digits, and only of zero there are none.
LEMMA InBaseType ==
    ASSUME NEW b \in {10, 128}, NEW N \in Nat
    PROVE  InBase(b, N) \in Seq(0 .. b - 1) /\ (N # 0 => Len(InBase(b, N)) > 0)
<1>1. PICK f : /\ f[0] = << >>
               /\ \A n \in 1 .. N : f[n] = Append(f[n \div b], n % b)
               /\ InBase(b, N) = f[N]
  BY InBaseLoop
<1> DEFINE D == 0 .. b - 1
           T == {m \in 0 .. N : \A k \in 0 .. m : f[k] \in Seq(D)}
<1>0. \A n \in 1 .. N : n \div b \in 0 .. n - 1 /\ n % b \in D
  BY b = 10 \/ b = 128
<1> HIDE DEF D
<1>2. 0 \in T
  <2>1. f[0] \in Seq(D)
    BY <1>1
  <2> QED BY <2>1
<1>3. ASSUME NEW m \in 1 .. N, m - 1 \in T
      PROVE  m \in T
  <2> DEFINE i == m \div b
             l == m % b
  <2>1. i \in 0 .. m - 1 /\ l \in D
    BY <1>0
  <2>2. f[m] = Append(f[i], l)
    BY <1>1
  <2> HIDE DEF i, l
  <2>3. f[i] \in Seq(D)
    BY <1>3, <2>1
  <2>4. f[m] \in Seq(D)
    BY <2>1, <2>2, <2>3
  <2> QED BY <1>3, <2>4
<1>4. T = 0 .. N
  BY <1>2, <1>3, UpToInduction
<1>5. \A k \in 0 .. N : f[k] \in Seq(D)
  BY <1>4
<1>6. ASSUME N # 0
      PROVE  Len(f[N]) > 0
  <2> DEFINE i == N \div b
             l == N % b
  <2>1. i \in 0 .. N - 1 /\ l \in D
    BY <1>0, <1>6
  <2>2. f[N] = Append(f[i], l)
    BY <1>1, <1>6
  <2> HIDE DEF i, l
  <2>3. f[i] \in Seq(D)
    BY <1>5, <2>1
  <2> QED BY <2>1, <2>2, <2>3
<1> QED BY <1>1, <1>5, <1>6 DEF D

\* What the size of a block's header is reckoned to be is its size.
LEMMA EstimateIsLength ==
    ASSUME NEW N \in Nat
    PROVE  EstimateLeading(N) = Len(InBase(128, N))
<1>1. PICK f : /\ f[0] = << >>
               /\ \A n \in 1 .. N : f[n] = Append(f[n \div 128], n % 128)
               /\ InBase(128, N) = f[N]
  BY InBaseLoop
<1>2. PICK g : /\ g[0] = 0
               /\ \A n \in 1 .. N : g[n] = 1 + g[n \div 128]
               /\ EstimateLeading(N) = g[N]
  BY EstimateLoop
<1> DEFINE D == 0 .. 127
           T == {m \in 0 .. N : \A k \in 0 .. m : f[k] \in Seq(D) /\ g[k] = Len(f[k])}
<1>0. \A n \in 1 .. N : n \div 128 \in 0 .. n - 1 /\ n % 128 \in D
  OBVIOUS
<1> HIDE DEF D
<1>3. 0 \in T
  <2>1. f[0] \in Seq(D) /\ g[0] = Len(f[0])
    BY <1>1, <1>2
  <2> QED BY <2>1
<1>4. ASSUME NEW m \in 1 .. N, m - 1 \in T
      PROVE  m \in T
  <2> DEFINE i == m \div 128
             l == m % 128
  <2>1. i \in 0 .. m - 1 /\ l \in D
    BY <1>0
  <2>2. f[m] = Append(f[i], l) /\ g[m] = 1 + g[i]
    BY <1>1, <1>2
  <2> HIDE DEF i, l
  <2>3. f[i] \in Seq(D) /\ g[i] = Len(f[i])
    BY <1>4, <2>1
  <2>4. f[m] \in Seq(D) /\ g[m] = Len(f[m])
    BY <2>1, <2>2, <2>3
  <2> QED BY <1>4, <2>4
<1>5. T = 0 .. N
  BY <1>3, <1>4, UpToInduction
<1>6. N \in T
  <2> HIDE DEF T
  <2> QED BY <1>5
<1> QED BY <1>1, <1>2, <1>6

\* AppendBlockHeader writes bytes, at least one, and as many as EstimateBlockHeader
\* says.
LEMMA HeaderType ==
    ASSUME NEW v \in Nat, NEW t \in 0 .. 6
    PROVE  /\ AppendBlockHeader(v, t) \in Seq(Octet)
           /\ Len(AppendBlockHeader(v, t)) = EstimateBlockHeader(v)
           /\ EstimateBlockHeader(v) \in Nat \ {0}
<1>1. v \div 16 \in Nat /\ v % 16 \in 0 .. 15
  OBVIOUS
<1> DEFINE s == InBase(128, v \div 16)
<1>2. s \in Seq(0 .. 127) /\ EstimateLeading(v \div 16) = Len(s)
  BY <1>1, InBaseType, EstimateIsLength
<1>3. 128 + (v % 16) * 8 + t \in Octet
  BY <1>1 DEF Octet
<1>4. AppendBlockHeader(v, t) = Append(s, 128 + (v % 16) * 8 + t)
  BY DEF AppendBlockHeader
<1>5. s \in Seq(Octet)
  <2>1. 0 .. 127 \subseteq Octet
    BY DEF Octet
  <2> DEFINE D == 0 .. 127
  <2>2. D \subseteq Octet /\ s \in Seq(D)
    BY <1>2, <2>1
  <2> HIDE DEF s, D
  <2>3. s \in Seq(Octet)
    BY <2>2
  <2> QED BY <2>3
<1> HIDE DEF s
<1> QED BY <1>2, <1>3, <1>4, <1>5 DEF EstimateBlockHeader

\* Bytes without a high bit.
Low == 0 .. 127

\* The bytes of a header but the last have no high bit.
LEMMA LowBytes == \A n \in Low : n \in Int /\ ~(n >= 128)
  BY DEF Low

\* What the last byte of a header holds: four bits of the value, and the type.
LEMMA LastByte ==
    ASSUME NEW u \in 0 .. 15, NEW t \in 0 .. 6
    PROVE  LET x == 128 + u * 8 + t
           IN (x % 128) \div 8 = u /\ x % 8 = t /\ x \in 128 .. 255
<1> DEFINE y == u * 8 + t
<1>1. y \in 0 .. 127 /\ y \div 8 = u /\ y % 8 = t /\ 128 + u * 8 + t = 128 + y
  OBVIOUS
<1> HIDE DEF y
<1>2. (128 + y) % 128 = y /\ (128 + y) % 8 = y % 8
  BY <1>1
<1> QED BY <1>1, <1>2

\* The last bytes of a list, and zero before the first.
Last128(s, k) == IF k <= Len(s) THEN s[Len(s) + 1 - k] ELSE 0

\* Three bytes and four bits are enough for the length of a buffer.
LEMMA HeaderBytes ==
    ASSUME NEW v \in Nat, v < Beyond, NEW t \in 0 .. 6
    PROVE  \E s \in Seq(Low) :
              /\ Len(s) <= 3 /\ AppendBlockHeader(v, t) = Append(s, 128 + (v % 16) * 8 + t)
              /\ v \div 16 = (Last128(s, 3) * 128 + Last128(s, 2)) * 128 + Last128(s, 1)
<1> DEFINE q == v \div 16
           r == q \div 128
           w == r \div 128
           a == q % 128
           b == r % 128
<1>1. v < 4096 * 4096
  BY DEF Beyond
<1>2. q \in Nat /\ q < 1024 * 1024
  BY <1>1
<1>3. AppendBlockHeader(v, t) = Append(InBase(128, q), 128 + (v % 16) * 8 + t)
  BY DEF AppendBlockHeader
<1> HIDE DEF q
<1>4. r \in Nat /\ r < 8192 /\ a \in 0 .. 127 /\ q = r * 128 + a /\ r <= q
  BY <1>2
<1> HIDE DEF r
<1>5. w \in 0 .. 63 /\ b \in 0 .. 127 /\ r = w * 128 + b /\ w <= r
  BY <1>4
<1>6. w \div 128 = 0 /\ w % 128 = w
  BY <1>5
<1>7. q \in Nat /\ r \in 0 .. q /\ w \in 0 .. q /\ w \in 0 .. 127 /\ a \in 0 .. 127 /\ b \in 0 .. 127
  BY <1>2, <1>4, <1>5
<1>8. PICK f : /\ f[0] = << >>
               /\ \A n \in 1 .. q : f[n] = Append(f[n \div 128], n % 128)
               /\ InBase(128, q) = f[q]
  BY <1>7, InBaseLoop
<1>9. q # 0 => f[q] = Append(f[r], a)
  <2>1. ASSUME q # 0
        PROVE  f[q] = Append(f[q \div 128], q % 128)
    BY <1>7, <1>8, <2>1
  <2> QED BY <2>1 DEF r
<1>10. r # 0 => f[r] = Append(f[w], b)
  <2>1. ASSUME r # 0
        PROVE  f[r] = Append(f[r \div 128], r % 128)
    <3>1. r \in 1 .. q
      BY <1>7, <2>1
    <3> QED BY <1>8, <3>1
  <2> QED BY <2>1
<1>11. w # 0 => f[w] = Append(<< >>, w)
  <2>1. ASSUME w # 0
        PROVE  f[w] = Append(f[w \div 128], w % 128)
    <3>1. w \in 1 .. q
      BY <1>7, <2>1
    <3> QED BY <1>8, <3>1
  <2> QED BY <1>6, <1>8, <2>1
<1>12. (q = 0 => r = 0) /\ (r = 0 => w = 0) /\ q = (w * 128 + b) * 128 + a
       /\ (w = 0 => r = b) /\ (r = 0 => q = a)
  BY <1>4, <1>5, <1>7
<1> DEFINE D == Low
           Good(s) == /\ s \in Seq(D) /\ Len(s) <= 3 /\ f[q] = s
                      /\ q = (Last128(s, 3) * 128 + Last128(s, 2)) * 128 + Last128(s, 1)
<1>13. a \in D /\ b \in D /\ w \in D
  BY <1>7 DEF Low
<1>20. 1 <= 3 /\ 2 <= 3 /\ 3 <= 3 /\ q \in Int /\ a \in Int /\ b \in Int /\ w \in Int
  BY <1>7
<1> HIDE DEF D, a, b, w
<1>14. ASSUME q = 0
       PROVE  Good(<< >>)
  BY <1>8, <1>14 DEF Last128
<1>15. ASSUME q # 0, r = 0
       PROVE  Good(<<a>>)
  <2>1. f[q] = <<a>>
    BY <1>8, <1>9, <1>15
  <2> DEFINE s == <<a>>
  <2>2. s \in Seq(D) /\ Len(s) = 1 /\ s[1] = a
    BY <1>13
  <2> HIDE DEF s
  <2> QED BY <1>12, <1>15, <1>20, <2>1, <2>2 DEF Last128, s
<1>16. ASSUME q # 0, r # 0, w = 0
       PROVE  Good(<<b, a>>)
  <2>1. f[q] = <<b, a>>
    BY <1>8, <1>9, <1>10, <1>16
  <2> DEFINE s == <<b, a>>
  <2>2. s \in Seq(D) /\ Len(s) = 2 /\ s[1] = b /\ s[2] = a
    BY <1>13
  <2> HIDE DEF s
  <2> QED BY <1>12, <1>16, <1>20, <2>1, <2>2 DEF Last128, s
<1>17. ASSUME w # 0
       PROVE  Good(<<w, b, a>>)
  <2>1. q # 0 /\ r # 0
    BY <1>12, <1>17
  <2>2. f[w] = <<w>>
    BY <1>11, <1>17
  <2>3. f[r] = <<w, b>>
    BY <1>10, <2>1, <2>2
  <2>4. f[q] = <<w, b, a>>
    BY <1>9, <2>1, <2>3
  <2> DEFINE s == <<w, b, a>>
  <2>5. s \in Seq(D) /\ Len(s) = 3 /\ s[1] = w /\ s[2] = b /\ s[3] = a
    BY <1>13
  <2> HIDE DEF s
  <2> QED BY <1>12, <1>17, <1>20, <2>4, <2>5 DEF Last128, s
<1>18. \E s : Good(s)
  <2> HIDE DEF Good
  <2> QED BY <1>12, <1>14, <1>15, <1>16, <1>17
<1>19. PICK s : Good(s)
  BY <1>18
<1> QED BY <1>3, <1>8, <1>19 DEF D, q

-----------------------------------------------------------------------------
(* Bytes in a packet, and how the parser reads the header of a block.      *)

\* The packet has these bytes at this position.
HasAt(d, at, bytes) ==
    \A k \in 1 .. Len(bytes) : at + k - 1 \in 1 .. Len(d) /\ d[at + k - 1] = bytes[k]

\* What is joined is there with both its parts.
LEMMA HasParts ==
    ASSUME NEW d, NEW at \in Nat, NEW a \in Seq(Octet), NEW b \in Seq(Octet), HasAt(d, at, a \o b)
    PROVE  HasAt(d, at, a) /\ HasAt(d, at + Len(a), b)
<1> DEFINE c == a \o b
<1>1. /\ Len(c) = Len(a) + Len(b) /\ Len(a) \in Nat /\ Len(b) \in Nat
      /\ \A k \in 1 .. Len(a) : c[k] = a[k]
      /\ \A k \in 1 .. Len(b) : c[Len(a) + k] = b[k]
  OBVIOUS
<1>2. \A k \in 1 .. Len(c) : at + k - 1 \in 1 .. Len(d) /\ d[at + k - 1] = c[k]
  BY DEF HasAt
<1> HIDE DEF c
<1>3. HasAt(d, at, a)
  BY <1>1, <1>2 DEF HasAt
<1>4. ASSUME NEW k \in 1 .. Len(b)
      PROVE  (at + Len(a)) + k - 1 \in 1 .. Len(d) /\ d[(at + Len(a)) + k - 1] = b[k]
  <2>1. Len(a) + k \in 1 .. Len(c) /\ at + (Len(a) + k) - 1 = (at + Len(a)) + k - 1
    BY <1>1
  <2> QED BY <1>1, <1>2, <2>1
<1> QED BY <1>3, <1>4 DEF HasAt

\* The loop of Block::ParseBlock reads what AppendBlockHeader has written.
LEMMA MarkerReads ==
    ASSUME NEW d \in Seq(Octet), NEW at \in Nat \ {0}, NEW v \in Nat, v < Beyond, NEW t \in 0 .. 6,
           HasAt(d, at, AppendBlockHeader(v, t))
    PROVE  Marker(d, at) = [value |-> v, type |-> t, next |-> at + Len(AppendBlockHeader(v, t))]
<1>1. PICK s \in Seq(Low) :
              /\ Len(s) <= 3 /\ AppendBlockHeader(v, t) = Append(s, 128 + (v % 16) * 8 + t)
              /\ v \div 16 = (Last128(s, 3) * 128 + Last128(s, 2)) * 128 + Last128(s, 1)
  BY HeaderBytes
<1> DEFINE L == Len(s)
           e == at + L
           u == v % 16
           x == 128 + u * 8 + t
           High(k) == k \in at .. Len(d) /\ d[k] >= 128
           Reached(k) == High(k) /\ \A j \in at .. k - 1 : ~High(j)
           first == CHOOSE k \in at .. Len(d) : Reached(k)
           last == IF \E k \in at .. Len(d) : High(k) THEN first ELSE Len(d)
           B(k) == IF k < at THEN 0 ELSE d[k]
<1>17. u \in 0 .. 15
  OBVIOUS
<1>18. L \in 0 .. 3 /\ Len(d) \in Nat
  <2>1. L \in Nat /\ Len(d) \in Nat
    OBVIOUS
  <2>2. L <= 3
    BY <1>1
  <2> HIDE DEF L
  <2> QED BY <2>1, <2>2
<1>2. L \in 0 .. 3 /\ e \in Nat /\ u \in 0 .. 15 /\ Len(d) \in Nat
  <2> HIDE DEF L, u
  <2> QED BY <1>17, <1>18
<1>3. (x % 128) \div 8 = u /\ x % 8 = t /\ x \in 128 .. 255
  <2> HIDE DEF u
  <2> QED BY <1>17, LastByte
<1>4. \A k \in 1 .. L : at + k - 1 \in 1 .. Len(d) /\ d[at + k - 1] = s[k] /\ s[k] \in Low
  <2> DEFINE h == AppendBlockHeader(v, t)
  <2>1. Len(h) = L + 1 /\ \A k \in 1 .. L : h[k] = s[k] /\ s[k] \in Low
    BY <1>1
  <2>2. \A k \in 1 .. L + 1 : at + k - 1 \in 1 .. Len(d) /\ d[at + k - 1] = h[k]
    BY <2>1 DEF HasAt
  <2> HIDE DEF h, L
  <2>3. \A k \in 1 .. L : k \in 1 .. L + 1
    BY <1>18
  <2> QED BY <2>1, <2>2, <2>3
<1>5. e \in at .. Len(d) /\ d[e] = x
  <2>1. Len(AppendBlockHeader(v, t)) = L + 1 /\ AppendBlockHeader(v, t)[L + 1] = x
    BY <1>1, <1>2
  <2>2. L + 1 \in 1 .. L + 1 /\ at + (L + 1) - 1 = e
    BY <1>2
  <2> QED BY <1>2, <2>1, <2>2 DEF HasAt
<1> HIDE DEF x, u
<1>6. \A k \in 0 .. 3 : k >= 1 => B(e - k) = Last128(s, k)
  <2>1. ASSUME NEW k \in 1 .. 3
        PROVE  B(e - k) = Last128(s, k)
    <3>1. CASE k <= L
      <4>1. L + 1 - k \in 1 .. L /\ at + (L + 1 - k) - 1 = e - k /\ ~(e - k < at)
        BY <1>2, <3>1
      <4> QED BY <1>4, <3>1, <4>1 DEF Last128
    <3>2. CASE ~(k <= L)
      <4>1. e - k < at
        BY <1>2, <3>2
      <4> QED BY <3>2, <4>1 DEF Last128
    <3> QED BY <3>1, <3>2
  <2> QED BY <2>1
<1>7. B(e - 4) = 0 /\ B(e) = x
  <2>1. e - 4 < at /\ ~(e < at)
    <3> HIDE DEF L
    <3> QED BY <1>2
  <2> QED BY <1>5, <2>1
<1>8. High(e) /\ \A j \in at .. e - 1 : ~High(j)
  <2>1. High(e)
    BY <1>3, <1>5
  <2>2. ASSUME NEW j \in at .. e - 1
        PROVE  ~High(j)
    <3>1. j - at + 1 \in 1 .. L /\ at + (j - at + 1) - 1 = j
      BY <1>2
    <3> DEFINE k == j - at + 1
    <3>3. k \in 1 .. L /\ at + k - 1 = j
      BY <3>1
    <3> HIDE DEF k, L
    <3>4. d[at + k - 1] = s[k] /\ s[k] \in Low
      BY <1>4, <3>3
    <3>2. d[j] \in Low
      BY <3>3, <3>4
    <3>5. ~(d[j] >= 128)
      BY <3>2, LowBytes
    <3> QED BY <3>5
  <2> QED BY <2>1, <2>2
<1>9. \A k \in at .. Len(d) : Reached(k) => k = e
  <2>1. ASSUME NEW k \in at .. Len(d), Reached(k)
        PROVE  k = e
    <3>1. ~(e < k)
      <4>1. e < k => e \in at .. k - 1
        BY <1>2, <1>5
      <4> QED BY <1>8, <2>1, <4>1
    <3>2. ~(k < e)
      <4>1. k < e => k \in at .. e - 1
        BY <1>2, <1>5
      <4> QED BY <1>8, <2>1, <4>1
    <3> QED BY <1>2, <3>1, <3>2
  <2> QED BY <2>1
<1>10. last = e
  <2>1. Reached(e)
    BY <1>8
  <2> HIDE DEF Reached
  <2>2. first = e
    BY <1>5, <1>9, <2>1
  <2> HIDE DEF first
  <2> QED BY <1>5, <1>8, <2>2
<1> DEFINE value == ((B(last - 4) * 128 + B(last - 3)) * 128 + B(last - 2)) * 128 + B(last - 1)
<1>11. Marker(d, at) = [value |-> IF value < Beyond \div 16 THEN value * 16 + (B(last) % 128) \div 8
                                  ELSE Saturated(value, (B(last) % 128) \div 8),
                        type |-> B(last) % 8, next |-> last + 1]
  BY DEF Marker
<1> HIDE DEF last, B
<1>12. value = ((0 * 128 + Last128(s, 3)) * 128 + Last128(s, 2)) * 128 + Last128(s, 1)
  BY <1>6, <1>7, <1>10
<1>13. Last128(s, 3) \in Int /\ Last128(s, 2) \in Int /\ Last128(s, 1) \in Int
  <2>1. ASSUME NEW k \in 1 .. 3
        PROVE  Last128(s, k) \in Int
    <3> DEFINE i == L + 1 - k
    <3>1. k <= L => i \in 1 .. L
      BY <1>18
    <3>2. Last128(s, k) = IF k <= L THEN s[i] ELSE 0
      BY DEF Last128
    <3> HIDE DEF i, L
    <3>3. k <= L => s[i] \in Low
      BY <1>4, <3>1
    <3> QED BY <3>2, <3>3, LowBytes
  <2>2. \A k \in 1 .. 3 : Last128(s, k) \in Int
    BY <2>1
  <2> QED BY <2>2
<1>14. value = v \div 16
  BY <1>1, <1>12, <1>13
<1> HIDE DEF value
<1>15. value < Beyond \div 16 /\ value * 16 + u = v
  BY <1>14 DEF Beyond, u
<1>16. last + 1 = at + Len(AppendBlockHeader(v, t))
  BY <1>1, <1>2, <1>10
<1> QED BY <1>3, <1>7, <1>10, <1>11, <1>15, <1>16

-----------------------------------------------------------------------------
(* Numbers *)

\* The loop that reads a number is well defined.
LEMMA NumberLoop ==
    ASSUME NEW text, Len(text) \in Nat
    PROVE  \E f : /\ f[0] = 0
                  /\ \A n \in 1 .. Len(text) : f[n] = 10 * f[n - 1] + text[n] - 48
                  /\ NonNegativeInteger(text) = f[Len(text)]
<1> DEFINE M == Len(text)
           Rounds(f, m) == f = [n \in 0 .. m |-> IF n = 0 THEN 0 ELSE 10 * f[n - 1] + text[n] - 48]
           T == {m \in 0 .. M : \E f : Rounds(f, m)}
<1>0. M \in Nat
  OBVIOUS
<1>1. 0 \in T
  <2>1. Rounds([n \in 0 .. 0 |-> 0], 0)
    OBVIOUS
  <2> HIDE DEF Rounds
  <2> QED BY <1>0, <2>1
<1>2. ASSUME NEW m \in 1 .. M, m - 1 \in T
      PROVE  m \in T
  <2>1. PICK f : Rounds(f, m - 1)
    BY <1>2
  <2> DEFINE g == [n \in 0 .. m |-> IF n = m THEN 10 * f[m - 1] + text[m] - 48 ELSE f[n]]
  <2>2. \A n \in 0 .. m - 1 : f[n] = IF n = 0 THEN 0 ELSE 10 * f[n - 1] + text[n] - 48
    BY <2>1
  <2>3. \A n \in 0 .. m : g[n] = IF n = 0 THEN 0 ELSE 10 * g[n - 1] + text[n] - 48
    BY <2>2
  <2>4. Rounds(g, m)
    BY <2>3
  <2> HIDE DEF Rounds
  <2> QED BY <2>4
<1>3. T = 0 .. M
  <2> HIDE DEF Rounds, M
  <2> QED BY <1>0, <1>1, <1>2, UpToInduction
<1>4. \E f : Rounds(f, M)
  <2>1. M \in T
    <3> HIDE DEF T, M
    <3> QED BY <1>0, <1>3
  <2> HIDE DEF Rounds, M
  <2> QED BY <2>1
<1> DEFINE f == CHOOSE f : Rounds(f, M)
<1>5. Rounds(f, M)
  BY <1>4
<1>6. NonNegativeInteger(text) = f[Len(text)]
  BY DEF NonNegativeInteger
<1>7. f[0] = 0 /\ \A n \in 1 .. M : f[n] = 10 * f[n - 1] + text[n] - 48
  <2> HIDE DEF f
  <2> QED BY <1>5
<1> QED BY <1>6, <1>7

\* Bytes are numbers.
LEMMA Octets == \A n \in Octet : n \in Int /\ 0 <= n /\ n < 256
  BY DEF Octet

\* Whatever the text, a number is read.
LEMMA NumberType ==
    ASSUME NEW text \in Seq(Octet)
    PROVE  NonNegativeInteger(text) \in Int
<1>1. Len(text) \in Nat /\ \A n \in 1 .. Len(text) : text[n] \in Octet
  OBVIOUS
<1>2. PICK f : /\ f[0] = 0
               /\ \A n \in 1 .. Len(text) : f[n] = 10 * f[n - 1] + text[n] - 48
               /\ NonNegativeInteger(text) = f[Len(text)]
  BY <1>1, NumberLoop
<1> DEFINE N == Len(text)
           T == {m \in 0 .. N : f[m] \in Int}
<1> HIDE DEF N
<1>3. 0 \in T
  BY <1>1, <1>2 DEF N
<1>4. ASSUME NEW m \in 1 .. N, m - 1 \in T
      PROVE  m \in T
  <2>1. f[m] = 10 * f[m - 1] + text[m] - 48 /\ text[m] \in Int /\ f[m - 1] \in Int
    BY <1>1, <1>2, <1>4, Octets DEF N
  <2> QED BY <2>1
<1>5. T = 0 .. N
  BY <1>1, <1>3, <1>4, UpToInduction DEF N
<1>6. N \in T
  <2> HIDE DEF T
  <2> QED BY <1>1, <1>5 DEF N
<1> QED BY <1>2, <1>6 DEF N

\* A number is written in bytes, one at least.
LEMMA DigitsType ==
    ASSUME NEW n \in Nat
    PROVE  Digits(n) \in Seq(Octet) /\ Len(Digits(n)) \in Nat \ {0}
<1>1. CASE n = 0
  <2>1. 48 \in Octet
    BY DEF Octet
  <2>2. Digits(n) = <<48>>
    BY <1>1 DEF Digits
  <2> QED BY <2>1, <2>2
<1>2. CASE n # 0
  <2> DEFINE s == InBase(10, n)
             D == 0 .. 10 - 1
             t == [i \in DOMAIN s |-> 48 + s[i]]
  <2>1. s \in Seq(D) /\ Len(s) > 0
    BY <1>2, InBaseType
  <2>2. Digits(n) = t
    BY <1>2 DEF Digits
  <2>3. \A k \in D : 48 + k \in Octet
    BY DEF Octet
  <2> HIDE DEF s, D
  <2>4. DOMAIN s = 1 .. Len(s) /\ Len(s) \in Nat /\ \A i \in 1 .. Len(s) : s[i] \in D
    BY <2>1
  <2>5. t \in [1 .. Len(s) -> Octet]
    BY <2>3, <2>4
  <2>6. t \in Seq(Octet) /\ Len(t) = Len(s)
    BY <2>4, <2>5
  <2> QED BY <2>1, <2>2, <2>4, <2>6
<1> QED BY <1>1, <1>2

\* What is read of the digits of a number is the number.
LEMMA DigitsRead ==
    ASSUME NEW n \in Nat
    PROVE  NonNegativeInteger(Digits(n)) = n
<1> DEFINE t == Digits(n)
           L == Len(t)
<1>1. t \in Seq(Octet) /\ L \in Nat /\ L > 0
  BY DigitsType
<1>2. PICK g : /\ g[0] = 0
               /\ \A j \in 1 .. L : g[j] = 10 * g[j - 1] + t[j] - 48
               /\ NonNegativeInteger(t) = g[L]
  BY <1>1, NumberLoop
<1>3. CASE n = 0
  <2>1. t = <<48>>
    BY <1>3 DEF Digits
  <2>2. L = 1 /\ t[1] = 48
    BY <2>1
  <2> HIDE DEF t
  <2>3. g[1] = 10 * g[0] + 48 - 48
    BY <1>2, <2>2
  <2> QED BY <1>2, <1>3, <2>2, <2>3 DEF t
<1>4. CASE n # 0
  <2> DEFINE s == InBase(10, n)
             D == 0 .. 10 - 1
  <2>1. PICK f : /\ f[0] = << >>
                 /\ \A k \in 1 .. n : f[k] = Append(f[k \div 10], k % 10)
                 /\ s = f[n]
    BY InBaseLoop
  <2>2. \A k \in 0 .. n : f[k] \in Seq(Int) /\ (k # 0 => Len(f[k]) > 0)
    <3> DEFINE T == {m \in 0 .. n : \A k \in 0 .. m : f[k] \in Seq(Int) /\ (k # 0 => Len(f[k]) > 0)}
    <3>1. 0 \in T
      <4>1. f[0] \in Seq(Int)
        BY <2>1
      <4> QED BY <4>1
    <3>2. ASSUME NEW m \in 1 .. n, m - 1 \in T
          PROVE  m \in T
      <4> DEFINE i == m \div 10
                 l == m % 10
      <4>1. i \in 0 .. m - 1 /\ l \in Int
        OBVIOUS
      <4>2. f[m] = Append(f[i], l)
        BY <2>1
      <4> HIDE DEF i, l
      <4>3. f[i] \in Seq(Int)
        BY <3>2, <4>1
      <4>4. f[m] \in Seq(Int) /\ Len(f[m]) > 0
        BY <4>1, <4>2, <4>3
      <4> QED BY <3>2, <4>4
    <3>3. T = 0 .. n
      BY <3>1, <3>2, UpToInduction
    <3> QED BY <3>3
  <2>3. t = [i \in DOMAIN s |-> 48 + s[i]]
    BY <1>4 DEF Digits
  <2> HIDE DEF t, s
  <2>4. s \in Seq(Int) /\ DOMAIN s = 1 .. Len(s)
    BY <2>1, <2>2
  <2>5. Len(s) = L /\ \A j \in 1 .. L : t[j] = 48 + s[j]
    <3>1. t \in [1 .. Len(s) -> Int]
      BY <2>3, <2>4
    <3>2. Len(t) = Len(s)
      BY <2>4, <3>1
    <3> QED BY <2>3, <2>4, <3>2
  <2> DEFINE Prefix(k, j) == /\ Len(f[k]) = j
                             /\ \A i \in 1 .. j : f[k][i] = s[i]
             T == {j \in 0 .. L : \A k \in 0 .. n : Prefix(k, j) => g[j] = k}
  <2> HIDE DEF L
  <2>6. 0 \in T
    <3>1. ASSUME NEW k \in 0 .. n, Prefix(k, 0)
          PROVE  g[0] = k
      BY <1>2, <2>2, <3>1
    <3> QED BY <1>1, <3>1
  <2>7. ASSUME NEW j \in 1 .. L, j - 1 \in T
        PROVE  j \in T
    <3>1. ASSUME NEW k \in 0 .. n, Prefix(k, j)
          PROVE  g[j] = k
      <4> DEFINE i == k \div 10
                 l == k % 10
      <4>1. k # 0
        <5>1. k = 0 => Len(f[k]) = 0
          BY <2>1
        <5> QED BY <3>1, <5>1
      <4>2. i \in 0 .. n /\ l \in Int /\ k = 10 * i + l
        OBVIOUS
      <4>3. f[k] = Append(f[i], l)
        BY <2>1, <4>1
      <4> HIDE DEF i, l, T
      <4>4. f[i] \in Seq(Int)
        BY <2>2, <4>2
      <4>5. Len(f[i]) = j - 1 /\ f[k][j] = l /\ \A h \in 1 .. j - 1 : f[i][h] = f[k][h]
        <5>1. Len(f[k]) = Len(f[i]) + 1 /\ Len(f[i]) \in Nat
          BY <4>2, <4>3, <4>4
        <5>2. Len(f[i]) = j - 1
          BY <3>1, <5>1
        <5>3. f[k][Len(f[i]) + 1] = l /\ \A h \in 1 .. Len(f[i]) : f[k][h] = f[i][h]
          BY <4>2, <4>3, <4>4
        <5> QED BY <5>2, <5>3
      <4>6. Prefix(i, j - 1)
        BY <3>1, <4>5
      <4> HIDE DEF Prefix
      <4>7. g[j - 1] = i
        BY <2>7, <4>2, <4>6 DEF T
      <4>8. t[j] = 48 + l
        BY <2>5, <3>1, <4>5 DEF Prefix
      <4>9. g[j] = 10 * i + (48 + l) - 48
        BY <1>2, <4>7, <4>8 DEF L
      <4> QED BY <4>2, <4>9
    <3> HIDE DEF Prefix
    <3> QED BY <3>1
  <2>8. T = 0 .. L
    <3> HIDE DEF Prefix
    <3> QED BY <1>1, <2>6, <2>7, UpToInduction DEF L
  <2>9. Prefix(n, L)
    BY <2>1, <2>5
  <2>10. g[L] = n
    <3> HIDE DEF Prefix
    <3>1. L \in T
      <4> HIDE DEF T
      <4> QED BY <1>1, <2>8 DEF L
    <3> QED BY <2>9, <3>1
  <2> QED BY <1>2, <2>10 DEF t, L
<1> QED BY <1>3, <1>4

-----------------------------------------------------------------------------
(* What is written is bytes, and as many as the sizes say. *)

\* Joined bytes are bytes, as many as both have.
LEMMA Joined ==
    ASSUME NEW a \in Seq(Octet), NEW b \in Seq(Octet)
    PROVE  a \o b \in Seq(Octet) /\ Len(a \o b) = Len(a) + Len(b) /\ Len(a) \in Nat /\ Len(b) \in Nat
  OBVIOUS

\* The types of blocks as numbers.
LEMMA TypeValues ==
    /\ Type.ext = 0 /\ Type.tag = 1 /\ Type.dtag = 2 /\ Type.attr = 3
    /\ Type.dattr = 4 /\ Type.blob = 5 /\ Type.udata = 6
  BY DEF Type

\* The dtags as numbers.
LEMMA DtagValues ==
    /\ Dtag.Name = 14 /\ Dtag.Component = 15 /\ Dtag.Content = 19 /\ Dtag.SignedInfo = 20
    /\ Dtag.Interest = 26 /\ Dtag.Signature = 37 /\ Dtag.Nonce = 41 /\ Dtag.Scope = 42
    /\ Dtag.Exclude = 43 /\ Dtag.AnswerOriginKind = 47 /\ Dtag.InterestLifetime = 48
    /\ Dtag.SignatureBits = 54 /\ Dtag.PublisherPublicKeyDigest = 60 /\ Dtag.ContentObject = 64
    /\ Dtag.MinSuffixComponents = 83 /\ Dtag.MaxSuffixComponents = 84
    /\ Dtag.ChildSelector = 85 /\ Dtag.Nack = 200
  BY DEF Dtag

\* A number takes the bytes EstimateNumber says.
LEMMA NumberWritten ==
    ASSUME NEW n \in Nat
    PROVE  /\ AppendNumber(n) \in Seq(Octet)
           /\ Len(AppendNumber(n)) = EstimateNumber(n) /\ EstimateNumber(n) \in Nat
<1> DEFINE t == Digits(n)
           h == AppendBlockHeader(Len(t), Type.udata)
<1>1. t \in Seq(Octet) /\ Len(t) \in Nat
  BY DigitsType
<1> HIDE DEF t
<1>2. h \in Seq(Octet) /\ Len(h) = EstimateBlockHeader(Len(t))
  BY <1>1, HeaderType, TypeValues
<1>3. AppendNumber(n) = h \o t /\ EstimateNumber(n) = EstimateBlockHeader(Len(t)) + Len(t)
  BY DEF AppendNumber, EstimateNumber, t
<1> HIDE DEF h
<1> QED BY <1>1, <1>2, <1>3

\* A blob in an element takes the bytes EstimateTaggedBlob says.
LEMMA TaggedBlobWritten ==
    ASSUME NEW dtag \in Nat, NEW data \in Seq(Octet)
    PROVE  /\ AppendTaggedBlob(dtag, data) \in Seq(Octet)
           /\ Len(AppendTaggedBlob(dtag, data)) = EstimateTaggedBlob(dtag, Len(data))
           /\ EstimateTaggedBlob(dtag, Len(data)) \in Nat
<1> DEFINE h == AppendBlockHeader(dtag, Type.dtag)
           b == AppendBlockHeader(Len(data), Type.blob)
           e == EstimateBlockHeader(dtag)
           s == EstimateBlockHeader(Len(data))
           c == <<Close>>
<1>1. Len(data) \in Nat /\ c \in Seq(Octet) /\ Len(c) = 1
  BY DEF Close, Octet
<1>9. Type.dtag \in 0 .. 6 /\ Type.blob \in 0 .. 6
  BY TypeValues
<1>2. h \in Seq(Octet) /\ Len(h) = e /\ e \in Nat
  BY <1>9, HeaderType
<1>3. b \in Seq(Octet) /\ Len(b) = s /\ s \in Nat
  BY <1>1, <1>9, HeaderType
<1>4. AppendTaggedBlob(dtag, data) = h \o (IF data # << >> THEN b \o data ELSE << >>) \o c
  BY DEF AppendTaggedBlob, If
<1>5. EstimateTaggedBlob(dtag, Len(data)) = e + (IF Len(data) > 0 THEN s + Len(data) ELSE 0) + 1
  BY DEF EstimateTaggedBlob
<1>6. Len(data) > 0 <=> data # << >>
  BY <1>1, EmptySeq
<1> HIDE DEF h, b, c, e, s
<1>7. CASE data = << >>
  <2>1. AppendTaggedBlob(dtag, data) = h \o c
    BY <1>2, <1>4, <1>7
  <2>2. h \o c \in Seq(Octet) /\ Len(h \o c) = e + 1
    BY <1>1, <1>2, Joined
  <2>3. EstimateTaggedBlob(dtag, Len(data)) = e + 0 + 1
    BY <1>5, <1>6, <1>7
  <2> QED BY <1>2, <2>1, <2>2, <2>3
<1>8. CASE data # << >>
  <2> DEFINE x == b \o data
  <2>1. AppendTaggedBlob(dtag, data) = h \o x \o c
    BY <1>4, <1>8
  <2>2. x \in Seq(Octet) /\ Len(x) = s + Len(data)
    BY <1>1, <1>3
  <2> HIDE DEF x
  <2>5. h \o x \in Seq(Octet) /\ Len(h \o x) = e + (s + Len(data))
    BY <1>2, <2>2, Joined
  <2>3. h \o x \o c \in Seq(Octet) /\ Len(h \o x \o c) = e + (s + Len(data)) + 1
    BY <1>1, <2>5, Joined
  <2>4. EstimateTaggedBlob(dtag, Len(data)) = e + (s + Len(data)) + 1
    BY <1>5, <1>6, <1>8
  <2> QED BY <1>1, <1>2, <1>3, <2>1, <2>3, <2>4
<1> QED BY <1>7, <1>8

\* The loop that reckons the size of a name is well defined.
LEMMA EstimateNameLoop ==
    ASSUME NEW name, Len(name) \in Nat
    PROVE  \E f : /\ f[0] = 0
                  /\ \A n \in 1 .. Len(name) : f[n] = f[n - 1] + EstimateTaggedBlob(Dtag.Component, Len(name[n]))
                  /\ EstimateNameComponents(name) = f[Len(name)]
<1> DEFINE M == Len(name)
           Rounds(f, m) == f = [n \in 0 .. m |-> IF n = 0 THEN 0 ELSE f[n - 1] + EstimateTaggedBlob(Dtag.Component, Len(name[n]))]
           T == {m \in 0 .. M : \E f : Rounds(f, m)}
<1>0. M \in Nat
  OBVIOUS
<1>1. 0 \in T
  <2>1. Rounds([n \in 0 .. 0 |-> 0], 0)
    OBVIOUS
  <2> HIDE DEF Rounds
  <2> QED BY <1>0, <2>1
<1>2. ASSUME NEW m \in 1 .. M, m - 1 \in T
      PROVE  m \in T
  <2>1. PICK f : Rounds(f, m - 1)
    BY <1>2
  <2> DEFINE g == [n \in 0 .. m |-> IF n = m THEN f[m - 1] + EstimateTaggedBlob(Dtag.Component, Len(name[m])) ELSE f[n]]
  <2>2. \A n \in 0 .. m - 1 : f[n] = IF n = 0 THEN 0 ELSE f[n - 1] + EstimateTaggedBlob(Dtag.Component, Len(name[n]))
    BY <2>1
  <2>3. \A n \in 0 .. m : g[n] = IF n = 0 THEN 0 ELSE g[n - 1] + EstimateTaggedBlob(Dtag.Component, Len(name[n]))
    BY <2>2
  <2>4. Rounds(g, m)
    BY <2>3
  <2> HIDE DEF Rounds
  <2> QED BY <2>4
<1>3. T = 0 .. M
  <2> HIDE DEF Rounds, M
  <2> QED BY <1>0, <1>1, <1>2, UpToInduction
<1>4. \E f : Rounds(f, M)
  <2>1. M \in T
    <3> HIDE DEF T, M
    <3> QED BY <1>0, <1>3
  <2> HIDE DEF Rounds, M
  <2> QED BY <2>1
<1> DEFINE f == CHOOSE f : Rounds(f, M)
<1>5. Rounds(f, M)
  BY <1>4
<1>6. EstimateNameComponents(name) = f[Len(name)]
  BY DEF EstimateNameComponents
<1>7. f[0] = 0 /\ \A n \in 1 .. M : f[n] = f[n - 1] + EstimateTaggedBlob(Dtag.Component, Len(name[n]))
  <2> HIDE DEF f
  <2> QED BY <1>5
<1> QED BY <1>6, <1>7

\* A name takes the bytes EstimateNameComponents says.
LEMMA NameWritten ==
    ASSUME NEW name \in Seq(Seq(Octet))
    PROVE  /\ AppendNameComponents(name) \in Seq(Octet)
           /\ Len(AppendNameComponents(name)) = EstimateNameComponents(name)
           /\ EstimateNameComponents(name) \in Nat
<1> DEFINE N == Len(name)
           piece(i) == AppendTaggedBlob(Dtag.Component, name[i])
           size(i) == EstimateTaggedBlob(Dtag.Component, Len(name[i]))
           s == [i \in DOMAIN name |-> piece(i)]
<1>1. N \in Nat /\ DOMAIN name = 1 .. N /\ \A i \in 1 .. N : name[i] \in Seq(Octet)
  OBVIOUS
<1>2. \A i \in 1 .. N : piece(i) \in Seq(Octet) /\ Len(piece(i)) = size(i) /\ size(i) \in Nat
  <2>1. Dtag.Component \in Nat
    BY DtagValues
  <2>2. ASSUME NEW i \in 1 .. N
        PROVE  piece(i) \in Seq(Octet) /\ Len(piece(i)) = size(i) /\ size(i) \in Nat
    BY <1>1, <2>1, TaggedBlobWritten
  <2> QED BY <2>2
<1>3. PICK g : /\ g[0] = 0
               /\ \A n \in 1 .. Len(name) : g[n] = g[n - 1] + EstimateTaggedBlob(Dtag.Component, Len(name[n]))
               /\ EstimateNameComponents(name) = g[Len(name)]
  BY <1>1, EstimateNameLoop
<1>4. AppendNameComponents(name) = FlattenSeq(s)
  BY DEF AppendNameComponents
<1>5. g[0] = 0 /\ (\A n \in 1 .. N : g[n] = g[n - 1] + size(n)) /\ EstimateNameComponents(name) = g[N]
  BY <1>3
<1>6. s \in [1 .. N -> Seq(Octet)] /\ \A i \in 1 .. N : s[i] = piece(i)
  BY <1>1, <1>2
<1> HIDE DEF N, piece, size, s
<1>7. s \in Seq(Seq(Octet)) /\ Len(s) = N
  BY <1>1, <1>6
<1>8. CASE N = 0
  <2>1. FlattenSeq(s) = s /\ s = << >>
    BY <1>7, <1>8, EmptySeq DEF FlattenSeq
  <2> QED BY <1>4, <1>5, <1>8, <2>1
<1>9. CASE N # 0
  <2>1. PICK f : /\ f[1] = s[1]
                 /\ \A n \in 2 .. N : f[n] = f[n - 1] \o s[n]
                 /\ FlattenSeq(s) = f[N]
    BY <1>1, <1>7, <1>9, FlattenLoop
  <2> DEFINE Holds(n) == f[n] \in Seq(Octet) /\ Len(f[n]) = g[n] /\ g[n] \in Nat
             T == {n \in 0 .. N : n # 0 => Holds(n)}
  <2>2. 0 \in T
    BY <1>1
  <2>3. ASSUME NEW n \in 1 .. N, n - 1 \in T
        PROVE  n \in T
    <3>1. s[n] \in Seq(Octet) /\ Len(s[n]) = size(n) /\ size(n) \in Nat /\ g[n] = g[n - 1] + size(n)
      BY <1>2, <1>5, <1>6
    <3>2. CASE n = 1
      <4>1. f[n] = s[n] /\ g[n - 1] = 0
        BY <1>5, <2>1, <3>2
      <4>2. Holds(n)
        BY <3>1, <4>1
      <4> QED BY <4>2
    <3>3. CASE n # 1
      <4>1. n \in 2 .. N /\ Holds(n - 1)
        BY <1>1, <2>3, <3>3
      <4>2. f[n] = f[n - 1] \o s[n]
        BY <2>1, <4>1
      <4> DEFINE a == f[n - 1]
                 b == s[n]
      <4>3. a \in Seq(Octet) /\ b \in Seq(Octet) /\ f[n] = a \o b
            /\ g[n] = Len(a) + Len(b)
        BY <3>1, <4>1, <4>2
      <4> HIDE DEF a, b
      <4>4. Holds(n)
        BY <4>3
      <4> QED BY <4>4
    <3> QED BY <3>2, <3>3
  <2>4. T = 0 .. N
    <3> HIDE DEF Holds
    <3> QED BY <1>1, <2>2, <2>3, UpToInduction
  <2>5. Holds(N)
    <3> HIDE DEF Holds
    <3> QED BY <1>1, <1>9, <2>4
  <2> QED BY <1>4, <1>5, <2>1, <2>5
<1> QED BY <1>8, <1>9

\* Shifts and the bytes a duration requires.
LEMMA ShiftedType ==
    ASSUME NEW n \in Int, NEW k \in 0 .. 4
    PROVE  Shifted(n, k) \in Int
<1>1. CASE k \in 0 .. 2
  BY <1>1 DEF Shifted
<1>2. CASE k = 3
  BY <1>2 DEF Shifted
<1>3. CASE k = 4
  BY <1>3 DEF Shifted
<1> QED BY <1>1, <1>2, <1>3

\* A duration requires two bytes and at most five more.
LEMMA RequiredType ==
    ASSUME NEW n \in Int
    PROVE  Required(n) \in 2 .. 7
<1> DEFINE K == {k \in 0 .. 4 : Shifted(n, k) # 0}
<1>1. IsFiniteSet(0 .. 4) /\ Cardinality(0 .. 4) = 5
  <2> DEFINE z == 0
             m == 4
  <2>1. z \in Int /\ m \in Int
    OBVIOUS
  <2> HIDE DEF z, m
  <2>2. IsFiniteSet(z .. m) /\ Cardinality(z .. m) = IF z > m THEN 0 ELSE m - z + 1
    BY <2>1, FS_Interval
  <2> QED BY <2>2 DEF z, m
<1>2. IsFiniteSet(K) /\ Cardinality(K) <= 5
  BY <1>1, FS_Subset
<1>3. Cardinality(K) \in Nat
  BY <1>2, FS_CardinalityType
<1>4. Required(n) = 2 + Cardinality(K)
  BY DEF Required
<1> HIDE DEF K
<1> QED BY <1>2, <1>3, <1>4

\* So many bytes of a number are so many bytes.
LEMMA BytesWritten ==
    ASSUME NEW n \in Int, NEW count \in 0 .. 5
    PROVE  Bytes(n, count) \in Seq(Octet) /\ Len(Bytes(n, count)) = count
<1>1. ASSUME NEW i \in 1 .. count
      PROVE  Shifted(n, count - i) % 256 \in Octet
  <2>1. Shifted(n, count - i) \in Int
    BY ShiftedType
  <2> QED BY <2>1 DEF Octet
<1>2. Bytes(n, count) \in [1 .. count -> Octet]
  BY <1>1 DEF Bytes
<1> QED BY <1>2

\* Quotients and remainders of durations are numbers.
LEMMA QuotientType ==
    ASSUME NEW a \in Int, NEW b \in Nat \ {0}
    PROVE  Quotient(a, b) \in Int /\ Remains(a, b) \in Int
<1>1. Quotient(a, b) \in Int
  BY DEF Quotient
<1> QED BY <1>1 DEF Remains

\* The fraction of a second that is written.
Fraction(time) == Quotient(Remains(time, Second) * 1600 + 195312, 390625)

\* And so is what of a duration is written.
LEMMA TimeType ==
    ASSUME NEW time \in Int
    PROVE  /\ Quotient(time, Second) \in Int /\ RequiredBytes(time) \in 2 .. 7
           /\ Fraction(time) \in Int
<1>1. Second \in Nat \ {0}
  BY DEF Second
<1>2. Quotient(time, Second) \in Int /\ Remains(time, Second) \in Int
  BY <1>1, QuotientType
<1> DEFINE q == Quotient(time, Second)
           r == Remains(q, 60)
           n == Remains(time, Second) * 1600 + 195312
<1>3. r \in Int
  <2> HIDE DEF q
  <2> QED BY <1>2, QuotientType DEF q
<1>4. r \div 16 \in Int /\ RequiredBytes(time) = Required(r \div 16)
  <2> HIDE DEF r
  <2>1. r \div 16 \in Int
    BY <1>3
  <2> QED BY <2>1 DEF RequiredBytes, r
<1>5. Required(r \div 16) \in 2 .. 7
  <2> HIDE DEF r
  <2> QED BY <1>4, RequiredType
<1>6. n \in Int /\ 390625 \in Nat \ {0}
  BY <1>2
<1>7. Fraction(time) = Quotient(n, 390625)
  BY DEF Fraction
<1> HIDE DEF n
<1>8. Quotient(n, 390625) \in Int
  BY <1>6, QuotientType
<1> QED BY <1>2, <1>4, <1>5, <1>7, <1>8

\* The bytes of a duration.
TimeBytes(time) ==
    Bytes(Quotient(time, Second) \div 16, RequiredBytes(time) - 2)
        \o Bytes((Quotient(time, Second) % 16) * 4096 + Fraction(time), 2)

\* A duration is written as a header and the bytes it requires.
LEMMA TimestampWritten ==
    ASSUME NEW time \in Int
    PROVE  /\ AppendTimestampBlob(time) \in Seq(Octet)
           /\ AppendTimestampBlob(time) = AppendBlockHeader(RequiredBytes(time), Type.blob) \o TimeBytes(time)
           /\ TimeBytes(time) \in Seq(Octet) /\ Len(TimeBytes(time)) = RequiredBytes(time)
           /\ Len(AppendTimestampBlob(time))
                 = EstimateBlockHeader(RequiredBytes(time)) + RequiredBytes(time)
<1> DEFINE q == Quotient(time, Second)
           m == RequiredBytes(time)
           f == Fraction(time)
           a == Bytes(q \div 16, m - 2)
           b == Bytes((q % 16) * 4096 + f, 2)
           h == AppendBlockHeader(m, Type.blob)
<1>1. q \in Int /\ m \in 2 .. 7 /\ f \in Int
  BY TimeType
<1>2. AppendTimestampBlob(time) = (h \o a) \o b
  BY DEF AppendTimestampBlob, Fraction
<1>3. TimeBytes(time) = a \o b
  BY DEF TimeBytes
<1>4. Type.blob \in 0 .. 6
  BY TypeValues
<1> HIDE DEF q, m, f
<1> DEFINE x == q \div 16
           y == (q % 16) * 4096 + f
           k == m - 2
<1>5. x \in Int /\ y \in Int /\ k \in 0 .. 5
  BY <1>1
<1>14. m \in Nat /\ m = k + 2
  BY <1>1
<1> HIDE DEF x, y, k
<1>6. a \in Seq(Octet) /\ Len(a) = k
  BY <1>5, BytesWritten DEF x, k
<1>7. b \in Seq(Octet) /\ Len(b) = 2
  <2>1. Bytes(y, 2) \in Seq(Octet) /\ Len(Bytes(y, 2)) = 2
    BY <1>5, BytesWritten
  <2> QED BY <2>1 DEF y
<1>8. h \in Seq(Octet) /\ Len(h) = EstimateBlockHeader(m) /\ EstimateBlockHeader(m) \in Nat
  BY <1>4, <1>14, HeaderType
<1> HIDE DEF a, b, h
<1>9. a \o b \in Seq(Octet) /\ Len(a \o b) = m
  BY <1>5, <1>6, <1>7, <1>14, Joined
<1>10. (h \o a) \o b = h \o (a \o b)
  BY <1>6, <1>7, <1>8
<1> DEFINE c == a \o b
<1> HIDE DEF c
<1>11. c \in Seq(Octet) /\ Len(c) = m /\ AppendTimestampBlob(time) = h \o c
  BY <1>2, <1>9, <1>10 DEF c
<1>12. h \o c \in Seq(Octet) /\ Len(h \o c) = EstimateBlockHeader(m) + m
  BY <1>8, <1>11, Joined
<1> QED BY <1>3, <1>11, <1>12 DEF c, h, m

\* Of the first minute the seconds are all of the seconds.
LEMMA TimestampSize ==
    ASSUME NEW time \in Nat, time < 60 * Second
    PROVE  /\ Quotient(time, Second) \in 0 .. 59
           /\ RequiredBytes(time) = Required(Quotient(time, Second) \div 16)
           /\ Len(AppendTimestampBlob(time)) = EstimateTimestampBlob(time)
<1> DEFINE q == Quotient(time, Second)
<1>1. q \in 0 .. 59
  BY DEF Quotient, Second
<1>2. Remains(q, 60) = q
  <2> HIDE DEF q
  <2> QED BY <1>1 DEF Remains, Quotient
<1>3. RequiredBytes(time) = Required(q \div 16)
  BY <1>2 DEF RequiredBytes
<1>4. EstimateTimestampBlob(time) = EstimateBlockHeader(Required(q \div 16)) + Required(q \div 16)
  BY DEF EstimateTimestampBlob
<1> HIDE DEF q
<1> QED BY <1>1, <1>3, <1>4, TimestampWritten DEF q

\* An element is its header, what it encloses and a closing byte.
LEMMA ElementWritten ==
    ASSUME NEW dtag \in Nat, NEW bytes \in Seq(Octet)
    PROVE  /\ Element(dtag, bytes) \in Seq(Octet)
           /\ Len(Element(dtag, bytes)) = EstimateBlockHeader(dtag) + Len(bytes) + 1
           /\ EstimateBlockHeader(dtag) \in Nat /\ Len(bytes) \in Nat
<1> DEFINE h == AppendBlockHeader(dtag, Type.dtag)
           c == <<Close>>
<1>1. Type.dtag \in 0 .. 6
  BY TypeValues
<1>2. h \in Seq(Octet) /\ Len(h) = EstimateBlockHeader(dtag) /\ EstimateBlockHeader(dtag) \in Nat
  BY <1>1, HeaderType
<1>3. c \in Seq(Octet) /\ Len(c) = 1
  BY DEF Close, Octet
<1>4. Element(dtag, bytes) = (h \o bytes) \o c
  BY DEF Element
<1> HIDE DEF h, c
<1>5. h \o bytes \in Seq(Octet) /\ Len(h \o bytes) = EstimateBlockHeader(dtag) + Len(bytes)
  BY <1>2, Joined
<1>6. (h \o bytes) \o c \in Seq(Octet) /\ Len((h \o bytes) \o c) = EstimateBlockHeader(dtag) + Len(bytes) + 1
  BY <1>3, <1>5, Joined
<1> QED BY <1>2, <1>4, <1>6, Joined

\* A field that is there takes the bytes SizeIf says, and one that is not none.
LEMMA FieldWritten ==
    ASSUME NEW condition \in BOOLEAN, NEW dtag \in Nat, NEW bytes, NEW size,
           condition => bytes \in Seq(Octet) /\ Len(bytes) = size
    PROVE  /\ If(condition, Element(dtag, bytes)) \in Seq(Octet)
           /\ Len(If(condition, Element(dtag, bytes))) = SizeIf(condition, dtag, size)
           /\ SizeIf(condition, dtag, size) \in Nat
<1>1. CASE condition
  <2>1. If(condition, Element(dtag, bytes)) = Element(dtag, bytes)
    BY <1>1 DEF If
  <2>2. SizeIf(condition, dtag, size) = EstimateBlockHeader(dtag) + size + 1
    BY <1>1 DEF SizeIf
  <2>3. bytes \in Seq(Octet) /\ Len(bytes) = size
    BY <1>1
  <2> QED BY <2>1, <2>2, <2>3, ElementWritten
<1>2. CASE ~condition
  <2>1. If(condition, Element(dtag, bytes)) = << >> /\ SizeIf(condition, dtag, size) = 0
    BY <1>2 DEF If, SizeIf
  <2> QED BY <2>1
<1> QED BY <1>1, <1>2

-----------------------------------------------------------------------------
(* The parser *)

\* A set of positions has a first.
LEMMA Least ==
    ASSUME NEW K \in SUBSET Nat, K # {}
    PROVE  \E k \in K : \A j \in K : k <= j
<1> DEFINE Below == OpToRel(<, Nat)
<1>1. IsWellFoundedOn(Below, Nat)
  BY NatLessThanWellFounded
<1>2. PICK m \in K : \A k \in K : ~ (<<k, m>> \in Below)
  <2> HIDE DEF Below
  <2>1. \E x \in K : \A y \in K : ~ (<<y, x>> \in Below)
    BY <1>1, WFMin
  <2> QED BY <2>1
<1>3. ASSUME NEW j \in K
      PROVE  m <= j
  <2>1. ~(j < m)
    BY <1>2 DEF OpToRel
  <2> QED BY <2>1
<1> QED BY <1>3

\* Wherever it begins, the header of a block is read within the bytes.
LEMMA MarkerType ==
    ASSUME NEW d \in Seq(Octet), NEW at \in 1 .. Len(d) + 1
    PROVE  LET m == Marker(d, at)
           IN /\ m.value \in Nat /\ m.type \in 0 .. 7 /\ m.next \in at .. Len(d) + 1
              /\ at <= Len(d) => m.next > at
              /\ at = Len(d) + 1 => m.type = 0
<1> DEFINE High(k) == k \in at .. Len(d) /\ d[k] >= 128
           Reached(k) == High(k) /\ \A j \in at .. k - 1 : ~High(j)
           first == CHOOSE k \in at .. Len(d) : Reached(k)
           last == IF \E k \in at .. Len(d) : High(k) THEN first ELSE Len(d)
           B(k) == IF k < at THEN 0 ELSE d[k]
           value == ((B(last - 4) * 128 + B(last - 3)) * 128 + B(last - 2)) * 128 + B(last - 1)
<1>1. Marker(d, at) = [value |-> IF value < Beyond \div 16 THEN value * 16 + (B(last) % 128) \div 8
                                 ELSE Saturated(value, (B(last) % 128) \div 8),
                       type |-> B(last) % 8, next |-> last + 1]
  BY DEF Marker
<1>2. Len(d) \in Nat /\ at \in Nat \ {0} /\ at <= Len(d) + 1 /\ \A k \in 1 .. Len(d) : d[k] \in Octet
  OBVIOUS
<1>3. (\E k \in at .. Len(d) : High(k)) => first \in at .. Len(d)
  <2>1. ASSUME NEW k \in at .. Len(d), High(k)
        PROVE  \E e \in at .. Len(d) : Reached(e)
    <3> DEFINE K == {e \in at .. Len(d) : High(e)}
    <3>1. K \in SUBSET Nat /\ K # {}
      BY <2>1
    <3> HIDE DEF K
    <3>2. PICK e \in K : \A j \in K : e <= j
      BY <3>1, Least
    <3>3. e \in at .. Len(d) /\ High(e)
      BY <3>2 DEF K
    <3>4. ASSUME NEW j \in at .. e - 1
          PROVE  ~High(j)
      <4>1. j \in at .. Len(d) /\ ~(e <= j)
        BY <1>2, <3>3
      <4> QED BY <3>2, <4>1 DEF K
    <3> QED BY <3>3, <3>4
  <2> HIDE DEF Reached
  <2> QED BY <2>1
<1>4. last \in at - 1 .. Len(d) /\ (at <= Len(d) => last >= at)
  <2> HIDE DEF first
  <2> QED BY <1>2, <1>3
<1> HIDE DEF last
<1>5. ASSUME NEW k \in Int, k <= last
      PROVE  B(k) \in 0 .. 255
  <2>1. CASE k < at
    BY <2>1
  <2>2. CASE ~(k < at)
    <3>1. k \in 1 .. Len(d)
      BY <1>2, <1>4, <1>5, <2>2
    <3> QED BY <1>2, <2>2, <3>1 DEF Octet
  <2> QED BY <2>1, <2>2
<1> DEFINE b0 == B(last)
           b1 == B(last - 1)
           b2 == B(last - 2)
           b3 == B(last - 3)
           b4 == B(last - 4)
<1>6. last \in Int /\ last <= last /\ last - 1 <= last /\ last - 2 <= last /\ last - 3 <= last /\ last - 4 <= last
      /\ last - 1 \in Int /\ last - 2 \in Int /\ last - 3 \in Int /\ last - 4 \in Int
  BY <1>4
<1>7. b0 \in 0 .. 255 /\ b1 \in 0 .. 255 /\ b2 \in 0 .. 255 /\ b3 \in 0 .. 255 /\ b4 \in 0 .. 255
  <2> HIDE DEF B
  <2> QED BY <1>5, <1>6
<1>8. at = Len(d) + 1 => b0 = 0
  BY <1>2, <1>4
<1> HIDE DEF b0, b1, b2, b3, b4, B
<1>9. value = ((b4 * 128 + b3) * 128 + b2) * 128 + b1
  BY DEF b1, b2, b3, b4
<1> HIDE DEF value
<1>10. value \in Nat
  BY <1>7, <1>9
<1>11. (b0 % 128) \div 8 \in Nat /\ b0 % 8 \in 0 .. 7 /\ (b0 = 0 => b0 % 8 = 0)
  BY <1>7
<1>12. \A low : Saturated(value, low) \in Nat
  BY DEF Saturated, Full, Beyond
<1>13. Marker(d, at) = [value |-> IF value < Beyond \div 16 THEN value * 16 + (b0 % 128) \div 8
                                  ELSE Saturated(value, (b0 % 128) \div 8),
                        type |-> b0 % 8, next |-> last + 1]
  BY <1>1 DEF b0
<1> HIDE DEF Marker
<1> DEFINE l == (b0 % 128) \div 8
           c == value < Beyond \div 16
<1>14. l \in Nat
  BY <1>11
<1> HIDE DEF l, c
<1>15. (IF c THEN value * 16 + l ELSE Saturated(value, l)) \in Nat
  BY <1>10, <1>12, <1>14
<1>16. Marker(d, at).value = (IF c THEN value * 16 + l ELSE Saturated(value, l))
       /\ Marker(d, at).type = b0 % 8 /\ Marker(d, at).next = last + 1
  BY <1>13 DEF l, c
<1> QED BY <1>2, <1>4, <1>8, <1>11, <1>15, <1>16

\* The blocks from a position on depend on those from later positions only.
Behind(d, from, at) == [k \in at + 1 .. Len(d) + 1 |-> from[k]]

\* The blocks of all positions are well defined.
LEMMA AllBlocksLoop ==
    ASSUME NEW d, Len(d) \in Nat
    PROVE  \A at \in 1 .. Len(d) + 1 :
              AllBlocks(d)[at] = BlocksFrom(d, Behind(d, AllBlocks(d), at), at)
<1> DEFINE N == Len(d)
           Rounds(f, m) == \A at \in N + 2 - m .. N + 1 : f[at] = BlocksFrom(d, Behind(d, f, at), at)
           T == {m \in 0 .. N + 1 : \E f : Rounds(f, m)}
<1>0. N \in Nat
  OBVIOUS
<1> HIDE DEF N
<1>1. 0 \in T
  <2>1. Rounds(<< >>, 0)
    BY <1>0
  <2> HIDE DEF Rounds
  <2> QED BY <1>0, <2>1
<1>2. ASSUME NEW m \in 1 .. N + 1, m - 1 \in T
      PROVE  m \in T
  <2>1. PICK f : Rounds(f, m - 1)
    BY <1>2
  <2> DEFINE at0 == N + 2 - m
             g == [at \in at0 .. N + 1 |-> IF at = at0 THEN BlocksFrom(d, Behind(d, f, at0), at0)
                                           ELSE f[at]]
  <2>2. at0 \in 1 .. N + 1
    BY <1>0
  <2>3. ASSUME NEW at \in at0 .. N + 1
        PROVE  g[at] = BlocksFrom(d, Behind(d, g, at), at)
    <3>1. \A k \in at + 1 .. N + 1 : g[k] = f[k]
      BY <1>0, <2>2
    <3>2. Behind(d, g, at) = Behind(d, f, at)
      <4> HIDE DEF g
      <4> QED BY <3>1 DEF Behind, N
    <3>3. CASE at = at0
      <4>1. g[at] = BlocksFrom(d, Behind(d, f, at), at)
        BY <3>3
      <4> QED BY <3>2, <4>1
    <3>4. CASE at # at0
      <4>1. at \in N + 2 - (m - 1) .. N + 1
        BY <1>0, <2>2, <3>4
      <4>2. f[at] = BlocksFrom(d, Behind(d, f, at), at)
        BY <2>1, <4>1
      <4>3. g[at] = f[at]
        BY <3>4
      <4> QED BY <3>2, <4>2, <4>3
    <3> QED BY <3>3, <3>4
  <2>4. Rounds(g, m)
    BY <2>3
  <2> HIDE DEF Rounds
  <2> QED BY <1>0, <2>4
<1>3. T = 0 .. N + 1
  <2> DEFINE M == N + 1
  <2>1. M \in Nat
    BY <1>0
  <2> HIDE DEF M
  <2> HIDE DEF Rounds
  <2>2. T \in SUBSET (0 .. M) /\ \A i \in 1 .. M : i - 1 \in T => i \in T
    BY <1>2 DEF M
  <2>3. T = 0 .. M
    <3> HIDE DEF T
    <3> QED BY <1>1, <2>1, <2>2, UpToInduction
  <2> QED BY <2>3 DEF M
<1>4. PICK f : Rounds(f, N + 1)
  <2>1. N + 1 \in T
    <3> HIDE DEF T
    <3> QED BY <1>0, <1>3
  <2> HIDE DEF Rounds
  <2> QED BY <2>1
<1> DEFINE Is(h) == h = [at \in 1 .. Len(d) + 1 |-> BlocksFrom(d, [k \in at + 1 .. Len(d) + 1 |-> h[k]], at)]
           g == [at \in 1 .. N + 1 |-> f[at]]
           all == CHOOSE h : Is(h)
<1>5. Is(g)
  <2>1. ASSUME NEW at \in 1 .. N + 1
        PROVE  g[at] = BlocksFrom(d, Behind(d, g, at), at)
    <3>1. \A k \in at + 1 .. N + 1 : g[k] = f[k]
      BY <1>0
    <3>2. Behind(d, g, at) = Behind(d, f, at)
      <4> HIDE DEF g
      <4> QED BY <3>1 DEF Behind, N
    <3>3. f[at] = BlocksFrom(d, Behind(d, f, at), at)
      BY <1>0, <1>4
    <3> QED BY <3>2, <3>3
  <2>2. g = [at \in 1 .. N + 1 |-> BlocksFrom(d, Behind(d, g, at), at)]
    BY <2>1
  <2> QED BY <2>2 DEF Behind, N
<1>6. Is(all)
  <2> HIDE DEF Is, g
  <2> QED BY <1>5
<1>7. AllBlocks(d) = all
  BY DEF AllBlocks
<1> HIDE DEF all
<1>8. all = [at \in 1 .. N + 1 |-> BlocksFrom(d, Behind(d, all, at), at)]
  BY <1>6 DEF Behind, N
<1> QED BY <1>7, <1>8 DEF N

-----------------------------------------------------------------------------
(* Types *)

\* What is parsed of a position, with blocks from a set nested in the blocks.
Outcomes == {"end", "closed", "thrown", "undefined", "open"}

BlockRecords(S) == [type : 0 .. 6, dtag : Nat, data : Seq(Octet), nested : Seq(S)]

BlocksOf(S, d, at) == [outcome : Outcomes, blocks : Seq(S), next : at .. Len(d) + 1]

\* How a block is parsed, type by type.
LEMMA ParseBlockCases ==
    ASSUME NEW d, NEW later, NEW at
    PROVE  LET m == Marker(d, at)
               p == ParseBlock(d, later, at)
           IN /\ m.type = 5 => p = Text(d, m.next, 5, m.value)
              /\ m.type = 6 => p = Text(d, m.next, 6, m.value)
              /\ m.type = 1 => p = TagBlock(d, later, m.next, m.value)
              /\ m.type = 3 => p = Attr(d, m.next, m.value)
              /\ m.type = 2 => p = DtagBlock(later, m.next, m.value)
              /\ m.type = 4 => p = Dattr(d, m.next)
              /\ m.type = 0 => p = Ext(m.next)
              /\ m.type = 7 => p = Thrown
  BY TypeValues DEF ParseBlock, BlockBehind, Blob

\* Text is cut short, or is the bytes up to its length.
LEMMA TextType ==
    ASSUME NEW d \in Seq(Octet), NEW at \in 1 .. Len(d) + 1, NEW type \in 0 .. 6, NEW length \in Nat
    PROVE  LET t == Text(d, at, type, length)
           IN \/ t.outcome = "thrown"
              \/ /\ t.outcome = "parsed" /\ t.next = at + length /\ t.next \in at .. Len(d) + 1
                 /\ \E x \in Seq(Octet) : t.block = Leaf(type, x)
<1>1. CASE at + length - 1 > Len(d)
  BY <1>1 DEF Text, Thrown, Stop
<1>2. CASE ~(at + length - 1 > Len(d))
  <2> DEFINE x == SubSeq(d, at, at + length - 1)
  <2>1. Text(d, at, type, length) = Parsed(Leaf(type, x), at + length)
    BY <1>2 DEF Text
  <2>2. x \in Seq(Octet)
    <3>1. \A i \in at .. at + length - 1 : d[i] \in Octet
      <4>1. \A i \in at .. at + length - 1 : i \in 1 .. Len(d)
        BY <1>2
      <4> QED BY <4>1
    <3>2. at \in Int /\ at + length - 1 \in Int
      OBVIOUS
    <3> QED BY <3>1, <3>2, SubSeqProperties
  <2> HIDE DEF x
  <2>3. at + length \in at .. Len(d) + 1
    BY <1>2
  <2> QED BY <2>1, <2>2, <2>3 DEF Parsed
<1> QED BY <1>1, <1>2

\* Leaves and trees are blocks.
LEMMA LeafType ==
    ASSUME NEW S, NEW type \in 0 .. 6, NEW x \in Seq(Octet)
    PROVE  Leaf(type, x) \in BlockRecords(S) /\ Leaf(type, x).type = type
<1>1. << >> \in Seq(S)
  OBVIOUS
<1> QED BY <1>1 DEF Leaf, BlockRecords

\* Trees over blocks are blocks.
LEMMA TreeType ==
    ASSUME NEW S, NEW type \in 0 .. 6, NEW dtag \in Nat, NEW nested \in Seq(S)
    PROVE  Tree(type, dtag, nested) \in BlockRecords(S)
<1>1. << >> \in Seq(Octet)
  OBVIOUS
<1> QED BY <1>1 DEF Tree, BlockRecords

\* What is nested in an element are blocks that end within the bytes.
LEMMA NestedType ==
    ASSUME NEW S, NEW d, Len(d) \in Nat, NEW later, NEW k \in 1 .. Len(d) + 1, NEW dtag,
           \A c \in BOOLEAN : later[k][c] \in BlocksOf(S, d, k)
    PROVE  Nested(later, k, dtag) \in BlocksOf(S, d, k)
<1> DEFINE n == later[k][dtag = Dtag.ContentObject]
           s == n.blocks
           K == {i \in DOMAIN s : \A j \in 1 .. i : IsAttribute(s[j])}
           t == SubSeq(s, Cardinality(K) + 1, Len(s))
<1>1. n \in BlocksOf(S, d, k)
  OBVIOUS
<1>2. Nested(later, k, dtag) = [n EXCEPT !.blocks = t]
  BY DEF Nested
<1> HIDE DEF n
<1>3. s \in Seq(S)
  BY <1>1 DEF BlocksOf
<1>4. t \in Seq(S)
  <2>1. Len(s) \in Nat /\ DOMAIN s = 1 .. Len(s)
    BY <1>3
  <2>2. IsFiniteSet(K) /\ Cardinality(K) \in Nat
    <3>1. IsFiniteSet(1 .. Len(s))
      <4> DEFINE L == Len(s)
                 z == 1
      <4>1. z \in Int /\ L \in Int
        BY <2>1
      <4> HIDE DEF z, L
      <4>2. IsFiniteSet(z .. L)
        BY <4>1, FS_Interval
      <4> QED BY <4>2 DEF z, L
    <3>2. K \subseteq 1 .. Len(s)
      BY <2>1
    <3>3. IsFiniteSet(K)
      <4> HIDE DEF K
      <4> QED BY <3>1, <3>2, FS_Subset
    <3> QED BY <3>3, FS_CardinalityType
  <2> DEFINE c == Cardinality(K) + 1
  <2>3. c \in Int /\ c >= 1
    BY <2>2
  <2> HIDE DEF c
  <2>4. \A i \in c .. Len(s) : s[i] \in S
    <3>1. \A i \in c .. Len(s) : i \in 1 .. Len(s)
      BY <2>1, <2>3
    <3> HIDE DEF s
    <3> QED BY <1>3, <3>1
  <2>5. SubSeq(s, c, Len(s)) \in Seq(S)
    <3> HIDE DEF s
    <3>1. Len(s) \in Int
      BY <2>1
    <3> QED BY <2>3, <2>4, <3>1, SubSeqProperties
  <2> QED BY <2>5 DEF c
<1> HIDE DEF t
<1> QED BY <1>1, <1>2, <1>4 DEF BlocksOf

\* What is parsed of later positions is blocks.
Later(S, d, later, at) ==
    \A k \in at + 1 .. Len(d) + 1 : \A c \in BOOLEAN : later[k][c] \in BlocksOf(S, d, k)

\* A parse fails, or is a block that ends behind its beginning and within the bytes.
GoodParse(S, d, at, p) ==
    \/ p.outcome \in {"thrown", "undefined"}
    \/ p.outcome = "parsed" /\ p.block \in BlockRecords(S) /\ p.next \in at + 1 .. Len(d) + 1

\* Failures are good parses.
LEMMA StopIsGood ==
    ASSUME NEW S, NEW d, NEW at
    PROVE  /\ GoodParse(S, d, at, Thrown)
           /\ \A o \in {"thrown", "undefined"} : GoodParse(S, d, at, Stop(o))
  BY DEF GoodParse, Thrown, Stop

\* So is the parse of text,
LEMMA TextIsGood ==
    ASSUME NEW S, NEW d \in Seq(Octet), NEW at \in 1 .. Len(d), NEW k \in at + 1 .. Len(d) + 1,
           NEW type \in 0 .. 6, NEW length \in Nat
    PROVE  GoodParse(S, d, at, Text(d, k, type, length))
<1> DEFINE t == Text(d, k, type, length)
<1>1. k \in 1 .. Len(d) + 1
  OBVIOUS
<1>2. \/ t.outcome = "thrown"
      \/ /\ t.outcome = "parsed" /\ t.next = k + length /\ t.next \in k .. Len(d) + 1
         /\ \E x \in Seq(Octet) : t.block = Leaf(type, x)
  BY <1>1, TextType
<1> HIDE DEF t
<1>3. CASE t.outcome = "thrown"
  BY <1>3 DEF GoodParse, t
<1>4. CASE t.outcome = "parsed" /\ t.next \in k .. Len(d) + 1 /\ \E x \in Seq(Octet) : t.block = Leaf(type, x)
  <2>1. t.block \in BlockRecords(S)
    BY <1>4, LeafType
  <2>2. t.next \in at + 1 .. Len(d) + 1
    BY <1>4
  <2> QED BY <1>4, <2>1, <2>2 DEF GoodParse, t
<1> QED BY <1>2, <1>3, <1>4

\* of the value of an attribute,
LEMMA ValueIsGood ==
    ASSUME NEW S, NEW d \in Seq(Octet), NEW at \in 1 .. Len(d), NEW k \in at + 1 .. Len(d) + 1,
           NEW type \in 0 .. 6
    PROVE  GoodParse(S, d, at, Value(d, k, type))
<1> DEFINE m == Marker(d, k)
<1>1. k \in 1 .. Len(d) + 1
  OBVIOUS
<1>2. m.value \in Nat /\ m.next \in k .. Len(d) + 1
  BY <1>1, MarkerType
<1>3. Value(d, k, type) = IF m.type # Type.udata THEN Thrown ELSE Text(d, m.next, type, m.value)
  BY DEF Value
<1> DEFINE n == m.next
           v == m.value
<1>4. n \in at + 1 .. Len(d) + 1 /\ v \in Nat
  BY <1>2
<1>5. Value(d, k, type) = IF m.type # Type.udata THEN Thrown ELSE Text(d, n, type, v)
  BY <1>3
<1> HIDE DEF n, v, m
<1>6. GoodParse(S, d, at, Text(d, n, type, v))
  BY <1>4, TextIsGood
<1> QED BY <1>5, <1>6, StopIsGood

\* of an attribute,
LEMMA AttrIsGood ==
    ASSUME NEW S, NEW d \in Seq(Octet), NEW at \in 1 .. Len(d), NEW k \in at + 1 .. Len(d) + 1,
           NEW length \in Nat
    PROVE  GoodParse(S, d, at, Attr(d, k, length))
<1> DEFINE name == Text(d, k, Type.attr, OneMore(length))
           l == OneMore(length)
<1>1. Type.attr \in 0 .. 6 /\ l \in Nat /\ k \in 1 .. Len(d) + 1
  BY TypeValues DEF OneMore
<1>2. name = Text(d, k, Type.attr, l)
  OBVIOUS
<1>3. name.outcome = "parsed" => name.next = k + l /\ name.next \in k .. Len(d) + 1
  <2> HIDE DEF name, l
  <2> QED BY <1>1, <1>2, TextType
<1>4. Attr(d, k, length) = IF name.outcome # "parsed" THEN Thrown ELSE Value(d, name.next, Type.attr)
  BY DEF Attr
<1> HIDE DEF name
<1> DEFINE n == name.next
<1>5. CASE name.outcome = "parsed"
  <2>1. n \in at + 1 .. Len(d) + 1
    BY <1>3, <1>5
  <2>2. Attr(d, k, length) = Value(d, n, Type.attr)
    BY <1>4, <1>5
  <2> HIDE DEF n
  <2> QED BY <1>1, <2>1, <2>2, ValueIsGood
<1>6. CASE name.outcome # "parsed"
  BY <1>4, <1>6, StopIsGood
<1> QED BY <1>5, <1>6

\* of an element with a dtag,
LEMMA DtagIsGood ==
    ASSUME NEW S, NEW d \in Seq(Octet), NEW at \in 1 .. Len(d), NEW k \in at + 1 .. Len(d) + 1,
           NEW dtag \in Nat, NEW later, Later(S, d, later, at)
    PROVE  GoodParse(S, d, at, DtagBlock(later, k, dtag))
<1> DEFINE n == IF dtag = Dtag.Content THEN Blocks("open", << >>, k) ELSE Nested(later, k, dtag)
<1>1. n \in BlocksOf(S, d, k)
  <2>1. Blocks("open", << >>, k) \in BlocksOf(S, d, k)
    <3>1. << >> \in Seq(S) /\ k \in k .. Len(d) + 1 /\ "open" \in Outcomes
      BY DEF Outcomes
    <3> QED BY <3>1 DEF Blocks, BlocksOf
  <2>2. \A c \in BOOLEAN : later[k][c] \in BlocksOf(S, d, k)
    BY DEF Later
  <2>3. k \in 1 .. Len(d) + 1 /\ Len(d) \in Nat
    OBVIOUS
  <2>4. Nested(later, k, dtag) \in BlocksOf(S, d, k)
    BY <2>2, <2>3, NestedType
  <2> QED BY <2>1, <2>4
<1>2. \/ DtagBlock(later, k, dtag) \in {Thrown, Stop("undefined"), Stop("thrown")}
      \/ DtagBlock(later, k, dtag) = Parsed(Tree(Type.dtag, dtag, n.blocks), n.next)
  <2> DEFINE b == n
  <2>1. DtagBlock(later, k, dtag) =
           IF b.outcome \in {"thrown", "undefined"} THEN Stop(b.outcome)
           ELSE IF dtag = Dtag.ContentObject /\ b.blocks = << >> THEN Stop("undefined")
           ELSE IF b.outcome = "end" THEN Thrown
           ELSE Parsed(Tree(Type.dtag, dtag, b.blocks), b.next)
    BY DEF DtagBlock
  <2> HIDE DEF n, b
  <2> QED BY <2>1 DEF b
<1> HIDE DEF n
<1>3. n.blocks \in Seq(S) /\ n.next \in at + 1 .. Len(d) + 1
  <2>1. n.blocks \in Seq(S) /\ n.next \in k .. Len(d) + 1
    BY <1>1 DEF BlocksOf
  <2> QED BY <2>1
<1>4. Type.dtag \in 0 .. 6
  BY TypeValues
<1>5. Tree(Type.dtag, dtag, n.blocks) \in BlockRecords(S)
  BY <1>3, <1>4, TreeType
<1>6. GoodParse(S, d, at, Parsed(Tree(Type.dtag, dtag, n.blocks), n.next))
  BY <1>3, <1>5 DEF GoodParse, Parsed
<1> QED BY <1>2, <1>6, StopIsGood

\* of one with a tag,
LEMMA TagIsGood ==
    ASSUME NEW S, NEW d \in Seq(Octet), NEW at \in 1 .. Len(d), NEW k \in at + 1 .. Len(d) + 1,
           NEW length \in Nat, NEW later, Later(S, d, later, at)
    PROVE  GoodParse(S, d, at, TagBlock(d, later, k, length))
<1> DEFINE name == Text(d, k, Type.tag, OneMore(length))
           l == OneMore(length)
           b == name.next
           n == Nested(later, b, 0)
<1>1. Type.tag \in 0 .. 6 /\ l \in Nat /\ k \in 1 .. Len(d) + 1
  BY TypeValues DEF OneMore
<1>2. name.outcome = "parsed" => name.next = k + l /\ name.next \in k .. Len(d) + 1
  <2>1. name = Text(d, k, Type.tag, l)
    OBVIOUS
  <2> HIDE DEF name, l
  <2> QED BY <1>1, <2>1, TextType
<1>3. TagBlock(d, later, k, length) =
         IF name.outcome # "parsed" \/ n.outcome # "closed" THEN Thrown
         ELSE Parsed(Tree(Type.tag, 0, n.blocks), n.next)
  BY DEF TagBlock
<1> HIDE DEF name
<1>4. CASE name.outcome = "parsed"
  <2>1. b \in at + 1 .. Len(d) + 1 /\ b \in 1 .. Len(d) + 1 /\ Len(d) \in Nat
    BY <1>2, <1>4
  <2> HIDE DEF b
  <2>2. \A c \in BOOLEAN : later[b][c] \in BlocksOf(S, d, b)
    BY <2>1 DEF Later
  <2>3. n \in BlocksOf(S, d, b)
    BY <2>1, <2>2, NestedType
  <2> HIDE DEF n
  <2>4. n.blocks \in Seq(S) /\ n.next \in at + 1 .. Len(d) + 1
    <3>1. n.blocks \in Seq(S) /\ n.next \in b .. Len(d) + 1
      BY <2>3 DEF BlocksOf
    <3> QED BY <2>1, <3>1
  <2>5. Tree(Type.tag, 0, n.blocks) \in BlockRecords(S)
    BY <1>1, <2>4, TreeType
  <2>6. GoodParse(S, d, at, Parsed(Tree(Type.tag, 0, n.blocks), n.next))
    BY <2>4, <2>5 DEF GoodParse, Parsed
  <2> QED BY <1>3, <2>6, StopIsGood
<1>5. CASE name.outcome # "parsed"
  BY <1>3, <1>5, StopIsGood
<1> QED BY <1>4, <1>5

\* and so of every block.
LEMMA ParseBlockIsGood ==
    ASSUME NEW S, NEW d \in Seq(Octet), NEW at \in 1 .. Len(d), NEW later, Later(S, d, later, at)
    PROVE  GoodParse(S, d, at, ParseBlock(d, later, at))
<1> DEFINE p == ParseBlock(d, later, at)
           m == Marker(d, at)
           k == m.next
           v == m.value
<1>1. at \in 1 .. Len(d) + 1 /\ at <= Len(d)
  OBVIOUS
<1>2. m.value \in Nat /\ m.type \in 0 .. 7 /\ m.next \in at + 1 .. Len(d) + 1
  <2>1. m.value \in Nat /\ m.type \in 0 .. 7 /\ m.next \in at .. Len(d) + 1 /\ m.next > at
    BY <1>1, MarkerType
  <2> HIDE DEF m
  <2> QED BY <2>1
<1>3. /\ m.type = 5 => p = Text(d, k, 5, v)
      /\ m.type = 6 => p = Text(d, k, 6, v)
      /\ m.type = 1 => p = TagBlock(d, later, k, v)
      /\ m.type = 3 => p = Attr(d, k, v)
      /\ m.type = 2 => p = DtagBlock(later, k, v)
      /\ m.type = 4 => p = Dattr(d, k)
      /\ m.type = 0 => p = Ext(k)
      /\ m.type = 7 => p = Thrown
  BY ParseBlockCases
<1>4. k \in at + 1 .. Len(d) + 1 /\ v \in Nat
  BY <1>2
<1> HIDE DEF p, k, v
<1>5. CASE m.type \in {5, 6}
  <2>0. \A type \in 0 .. 6 : GoodParse(S, d, at, Text(d, k, type, v))
    BY <1>4, TextIsGood
  <2>1. GoodParse(S, d, at, Text(d, k, 5, v)) /\ GoodParse(S, d, at, Text(d, k, 6, v))
    BY <2>0
  <2> QED BY <1>3, <1>5, <2>1 DEF p
<1>6. CASE m.type = 1
  <2>1. GoodParse(S, d, at, TagBlock(d, later, k, v))
    BY <1>4, TagIsGood
  <2> QED BY <1>3, <1>6, <2>1 DEF p
<1>7. CASE m.type = 3
  <2>1. GoodParse(S, d, at, Attr(d, k, v))
    BY <1>4, AttrIsGood
  <2> QED BY <1>3, <1>7, <2>1 DEF p
<1>8. CASE m.type = 2
  <2>1. GoodParse(S, d, at, DtagBlock(later, k, v))
    BY <1>4, DtagIsGood
  <2> QED BY <1>3, <1>8, <2>1 DEF p
<1>9. CASE m.type = 4
  <2>1. Type.dattr \in 0 .. 6
    BY TypeValues
  <2>2. GoodParse(S, d, at, Value(d, k, Type.dattr))
    BY <1>4, <2>1, ValueIsGood
  <2> QED BY <1>3, <1>9, <2>2 DEF p, Dattr
<1>10. CASE m.type = 0
  <2>1. << >> \in Seq(Octet) /\ Type.ext \in 0 .. 6
    BY TypeValues
  <2>2. Leaf(Type.ext, << >>) \in BlockRecords(S)
    BY <2>1, LeafType
  <2>3. GoodParse(S, d, at, Ext(k))
    BY <1>4, <2>2 DEF Ext, Parsed, GoodParse
  <2> QED BY <1>3, <1>10, <2>3 DEF p
<1>11. CASE m.type = 7
  BY <1>3, <1>11, StopIsGood DEF p
<1>12. m.type \in {5, 6} \/ m.type = 1 \/ m.type = 3 \/ m.type = 2 \/ m.type = 4 \/ m.type = 0 \/ m.type = 7
  <2> HIDE DEF m
  <2> QED BY <1>2
<1> QED BY <1>5, <1>6, <1>7, <1>8, <1>9, <1>10, <1>11, <1>12

\* A parse looks at what is parsed of later positions, and of no other.
LEMMA ParseBlockAgrees ==
    ASSUME NEW d \in Seq(Octet), NEW at \in 1 .. Len(d), NEW later, NEW f,
           \A k \in at + 1 .. Len(d) + 1 : f[k] = later[k]
    PROVE  ParseBlock(d, f, at) = ParseBlock(d, later, at)
<1> DEFINE m == Marker(d, at)
           k == m.next
           v == m.value
<1>1. at \in 1 .. Len(d) + 1 /\ at <= Len(d)
  OBVIOUS
<1>2. m.value \in Nat /\ m.type \in 0 .. 7 /\ m.next \in at + 1 .. Len(d) + 1
  <2>1. m.value \in Nat /\ m.type \in 0 .. 7 /\ m.next \in at .. Len(d) + 1 /\ m.next > at
    BY <1>1, MarkerType
  <2> HIDE DEF m
  <2> QED BY <2>1
<1>3. \A l \in {later, f} : LET p == ParseBlock(d, l, at)
      IN /\ m.type = 5 => p = Text(d, k, 5, v)
         /\ m.type = 6 => p = Text(d, k, 6, v)
         /\ m.type = 1 => p = TagBlock(d, l, k, v)
         /\ m.type = 3 => p = Attr(d, k, v)
         /\ m.type = 2 => p = DtagBlock(l, k, v)
         /\ m.type = 4 => p = Dattr(d, k)
         /\ m.type = 0 => p = Ext(k)
         /\ m.type = 7 => p = Thrown
  BY ParseBlockCases
<1>4. k \in at + 1 .. Len(d) + 1 /\ v \in Nat
  BY <1>2
<1> HIDE DEF k, v
<1>5. m.type = 1 \/ m.type = 2 \/ m.type \in {0, 3, 4, 5, 6, 7}
  <2> HIDE DEF m
  <2> QED BY <1>2
<1> HIDE DEF m
<1>6. CASE m.type = 2
  <2>1. f[k] = later[k]
    BY <1>4
  <2>2. \A dtag : Nested(f, k, dtag) = Nested(later, k, dtag)
    BY <2>1 DEF Nested
  <2>3. DtagBlock(f, k, v) = DtagBlock(later, k, v)
    BY <2>2 DEF DtagBlock
  <2> QED BY <1>3, <1>6, <2>3
<1>7. CASE m.type = 1
  <2> DEFINE name == Text(d, k, Type.tag, OneMore(v))
             b == name.next
  <2>1. Type.tag \in 0 .. 6 /\ OneMore(v) \in Nat /\ k \in 1 .. Len(d) + 1
    BY <1>4, TypeValues DEF OneMore
  <2>2. name.outcome = "parsed" => b \in k .. Len(d) + 1
    BY <2>1, TextType
  <2>3. \A l \in {later, f} :
           TagBlock(d, l, k, v) = IF name.outcome # "parsed" \/ Nested(l, b, 0).outcome # "closed" THEN Thrown
                                  ELSE Parsed(Tree(Type.tag, 0, Nested(l, b, 0).blocks), Nested(l, b, 0).next)
    BY DEF TagBlock
  <2> HIDE DEF name
  <2>4. name.outcome = "parsed" => f[b] = later[b]
    BY <1>4, <2>2
  <2>5. name.outcome = "parsed" => Nested(f, b, 0) = Nested(later, b, 0)
    BY <2>4 DEF Nested
  <2> HIDE DEF b
  <2>6. TagBlock(d, f, k, v) = TagBlock(d, later, k, v)
    BY <2>3, <2>5
  <2> QED BY <1>3, <1>7, <2>6
<1>8. CASE m.type \in {0, 3, 4, 5, 6, 7}
  BY <1>3, <1>8
<1> QED BY <1>5, <1>6, <1>7, <1>8

\* What AllBlocks says of a position, from what it says of the later ones.
Here(d, all, at, c) ==
    LET p == ParseBlock(d, all, at)
        rest == all[p.next][c]
    IN IF IsEnd(d, at) THEN Blocks("end", << >>, at)
       ELSE IF d[at] = Close THEN Blocks("closed", << >>, at + 1)
       ELSE IF p.outcome # "parsed" THEN Blocks(p.outcome, << >>, at)
       ELSE IF c /\ p.block.dtag = Dtag.Content THEN Blocks("open", <<p.block>>, p.next)
       ELSE Blocks(rest.outcome, WithNested(p.block) \o rest.blocks, rest.next)

\* Here is what BlocksFrom says, once for each kind of element around it.
LEMMA BlocksFromHere ==
    ASSUME NEW d, NEW later, NEW at, NEW c \in BOOLEAN
    PROVE  BlocksFrom(d, later, at)[c] = Here(d, later, at, c)
  BY DEF BlocksFrom, Here

\* It is blocks when those of later positions are.
LEMMA HereType ==
    ASSUME NEW S, NEW d \in Seq(Octet), NEW at \in 1 .. Len(d) + 1, NEW later, NEW c \in BOOLEAN,
           Later(S, d, later, at), NEW R, S \subseteq R,
           LET p == ParseBlock(d, later, at) IN at <= Len(d) /\ p.outcome = "parsed" => p.block \in R
    PROVE  Here(d, later, at, c) \in BlocksOf(R, d, at)
<1> DEFINE p == ParseBlock(d, later, at)
           rest == later[p.next][c]
           h == Here(d, later, at, c)
<1>1. h = IF IsEnd(d, at) THEN Blocks("end", << >>, at)
          ELSE IF d[at] = Close THEN Blocks("closed", << >>, at + 1)
          ELSE IF p.outcome # "parsed" THEN Blocks(p.outcome, << >>, at)
          ELSE IF c /\ p.block.dtag = Dtag.Content THEN Blocks("open", <<p.block>>, p.next)
          ELSE Blocks(rest.outcome, WithNested(p.block) \o rest.blocks, rest.next)
  BY DEF Here
<1>2. Len(d) \in Nat
  OBVIOUS
<1>3. << >> \in Seq(R)
  OBVIOUS
<1>4. \A o \in Outcomes : Blocks(o, << >>, at) \in BlocksOf(R, d, at)
  BY <1>2, <1>3 DEF Blocks, BlocksOf
<1>5. CASE IsEnd(d, at)
  <2>1. h = Blocks("end", << >>, at)
    BY <1>1, <1>5
  <2> HIDE DEF h
  <2> QED BY <1>4, <2>1 DEF Outcomes, h
<1>6. CASE ~IsEnd(d, at)
  <2>1. at \in 1 .. Len(d)
    BY <1>2, <1>6 DEF IsEnd
  <2>2. GoodParse(S, d, at, p)
    BY <2>1, ParseBlockIsGood
  <2>3. h = IF d[at] = Close THEN Blocks("closed", << >>, at + 1)
            ELSE IF p.outcome # "parsed" THEN Blocks(p.outcome, << >>, at)
            ELSE IF c /\ p.block.dtag = Dtag.Content THEN Blocks("open", <<p.block>>, p.next)
            ELSE Blocks(rest.outcome, WithNested(p.block) \o rest.blocks, rest.next)
    BY <1>1, <1>6
  <2> HIDE DEF h
  <2>4. CASE d[at] = Close
    <3>1. h = Blocks("closed", << >>, at + 1) /\ at + 1 \in at .. Len(d) + 1 /\ "closed" \in Outcomes
      BY <2>1, <2>3, <2>4 DEF Outcomes
    <3> QED BY <1>3, <3>1 DEF Blocks, BlocksOf, h
  <2>5. CASE d[at] # Close /\ p.outcome # "parsed"
    <3>1. p.outcome \in Outcomes
      BY <2>2, <2>5 DEF GoodParse, Outcomes
    <3>2. h = Blocks(p.outcome, << >>, at)
      BY <2>3, <2>5
    <3> HIDE DEF p
    <3> QED BY <1>4, <3>1, <3>2 DEF h
  <2>6. CASE d[at] # Close /\ p.outcome = "parsed"
    <3>1. p.block \in R /\ p.next \in at + 1 .. Len(d) + 1
      BY <2>2, <2>6 DEF GoodParse
    <3>2. h = IF c /\ p.block.dtag = Dtag.Content THEN Blocks("open", <<p.block>>, p.next)
              ELSE Blocks(rest.outcome, WithNested(p.block) \o rest.blocks, rest.next)
      BY <2>3, <2>6
    <3>3. rest \in BlocksOf(S, d, p.next)
      <4> HIDE DEF p
      <4> QED BY <3>1 DEF Later
    <3> DEFINE x == p.block
               n == p.next
    <3> HIDE DEF p, rest, x, n
    <3>4. rest.outcome \in Outcomes /\ rest.blocks \in Seq(S) /\ rest.next \in at .. Len(d) + 1
      <4>1. rest.outcome \in Outcomes /\ rest.blocks \in Seq(S) /\ rest.next \in n .. Len(d) + 1
        BY <3>3 DEF BlocksOf, n
      <4> QED BY <1>2, <3>1, <4>1 DEF n
    <3>5. rest.blocks \in Seq(R) /\ <<x>> \in Seq(R)
      <4>1. <<x>> \in Seq(R)
        BY <3>1 DEF x
      <4> QED BY <3>4, <4>1, SeqMonotonic
    <3>10. WithNested(x) \in Seq(R)
      <4>1. x.nested \in Seq(S)
        BY <2>2, <2>6 DEF GoodParse, BlockRecords, x, p
      <4> DEFINE n1 == x.nested
      <4>2. n1 \in Seq(R)
        BY <4>1, SeqMonotonic
      <4>3. WithNested(x) = <<x>> \o (IF x.type = Type.tag THEN n1 ELSE << >>)
        BY DEF WithNested, If
      <4> HIDE DEF n1
      <4> QED BY <3>5, <4>2, <4>3
    <3> DEFINE b == WithNested(x) \o rest.blocks
    <3>6. b \in Seq(R)
      BY <3>5, <3>10
    <3> HIDE DEF b
    <3>7. h = IF c /\ x.dtag = Dtag.Content THEN Blocks("open", <<x>>, n)
              ELSE Blocks(rest.outcome, b, rest.next)
      BY <3>2 DEF x, n, b
    <3>8. Blocks("open", <<x>>, n) \in BlocksOf(R, d, at)
      <4>1. "open" \in Outcomes /\ n \in at .. Len(d) + 1
        BY <3>1 DEF Outcomes, n
      <4> QED BY <3>5, <4>1 DEF Blocks, BlocksOf
    <3>9. Blocks(rest.outcome, b, rest.next) \in BlocksOf(R, d, at)
      BY <3>4, <3>6 DEF Blocks, BlocksOf
    <3> QED BY <3>7, <3>8, <3>9 DEF h
  <2> QED BY <2>4, <2>5, <2>6
<1> QED BY <1>5, <1>6

\* With more blocks to nest there are more blocks.
LEMMA BlocksMonotone ==
    ASSUME NEW S, NEW R, S \subseteq R
    PROVE  /\ BlockRecords(S) \subseteq BlockRecords(R)
           /\ \A d, at : BlocksOf(S, d, at) \subseteq BlocksOf(R, d, at)
<1>1. Seq(S) \subseteq Seq(R)
  BY SeqMonotonic
<1> QED BY <1>1 DEF BlockRecords, BlocksOf

\* All that is parsed is blocks, with blocks nested in them.
LEMMA AllBlocksType ==
    ASSUME NEW d \in Seq(Octet)
    PROVE  \E S : /\ S \subseteq BlockRecords(S)
                  /\ \A at \in 1 .. Len(d) + 1 : \A c \in BOOLEAN :
                        AllBlocks(d)[at][c] \in BlocksOf(S, d, at)
<1> DEFINE N == Len(d)
           all == AllBlocks(d)
           Good(S, m) == /\ S \subseteq BlockRecords(S)
                         /\ \A at \in N + 2 - m .. N + 1 : \A c \in BOOLEAN :
                               all[at][c] \in BlocksOf(S, d, at)
           T == {m \in 0 .. N + 1 : \E S : Good(S, m)}
<1>0. N \in Nat
  OBVIOUS
<1>1. \A at \in 1 .. N + 1 : all[at] = BlocksFrom(d, Behind(d, all, at), at)
  BY <1>0, AllBlocksLoop
<1> HIDE DEF N, all
<1>2. 0 \in T
  <2>1. Good({}, 0)
    BY <1>0
  <2> HIDE DEF Good
  <2> QED BY <1>0, <2>1
<1>3. ASSUME NEW m \in 1 .. N + 1, m - 1 \in T
      PROVE  m \in T
  <2>1. PICK S : Good(S, m - 1)
    BY <1>3
  <2> DEFINE at == N + 2 - m
             later == Behind(d, all, at)
             p == ParseBlock(d, later, at)
             new == IF at <= N /\ p.outcome = "parsed" THEN {p.block} ELSE {}
             R == S \cup new
  <2>2. at \in 1 .. N + 1 /\ N + 2 - (m - 1) = at + 1
    BY <1>0
  <2> HIDE DEF at
  <2>3. Later(S, d, later, at)
    <3>1. \A k \in at + 1 .. N + 1 : later[k] = all[k]
      BY DEF Behind, N
    <3>2. \A k \in at + 1 .. N + 1 : \A c \in BOOLEAN : all[k][c] \in BlocksOf(S, d, k)
      BY <2>1, <2>2
    <3> HIDE DEF later
    <3> QED BY <3>1, <3>2 DEF Later, N
  <2> HIDE DEF later
  <2>4. new \subseteq BlockRecords(S)
    <3>1. CASE at <= N /\ p.outcome = "parsed"
      <4>1. at \in 1 .. Len(d)
        BY <1>0, <2>2, <3>1 DEF N
      <4>2. GoodParse(S, d, at, p)
        BY <2>3, <4>1, ParseBlockIsGood
      <4>3. p.block \in BlockRecords(S)
        BY <3>1, <4>2 DEF GoodParse
      <4> QED BY <4>3
    <3>2. CASE ~(at <= N /\ p.outcome = "parsed")
      BY <3>2
    <3> QED BY <3>1, <3>2
  <2>5. S \subseteq R /\ (at <= N /\ p.outcome = "parsed" => p.block \in R)
    OBVIOUS
  <2>9. R \subseteq BlockRecords(S)
    <3> HIDE DEF new
    <3> QED BY <2>1, <2>4
  <2> HIDE DEF new, R
  <2>6. R \subseteq BlockRecords(R)
    BY <2>5, <2>9, BlocksMonotone
  <2>7. ASSUME NEW k \in at .. N + 1, NEW c \in BOOLEAN
        PROVE  all[k][c] \in BlocksOf(R, d, k)
    <3>1. CASE k = at
      <4>1. all[at][c] = Here(d, later, at, c)
        BY <1>1, <2>2, BlocksFromHere DEF later
      <4>2. Here(d, later, at, c) \in BlocksOf(R, d, at)
        BY <2>2, <2>3, <2>5, HereType DEF N
      <4> QED BY <3>1, <4>1, <4>2
    <3>2. CASE k # at
      <4>1. k \in N + 2 - (m - 1) .. N + 1
        BY <2>2, <3>2
      <4>2. all[k][c] \in BlocksOf(S, d, k)
        BY <2>1, <4>1
      <4> QED BY <2>5, <4>2, BlocksMonotone
    <3> QED BY <3>1, <3>2
  <2>8. Good(R, m)
    BY <2>6, <2>7 DEF at
  <2> HIDE DEF Good
  <2> QED BY <1>0, <2>8
<1>4. N + 1 \in T
  <2> DEFINE M == N + 1
  <2>1. M \in Nat
    BY <1>0
  <2> HIDE DEF M
  <2> HIDE DEF Good
  <2>2. T \in SUBSET (0 .. M) /\ \A i \in 1 .. M : i - 1 \in T => i \in T
    BY <1>3 DEF M
  <2>3. T = 0 .. M
    <3> HIDE DEF T
    <3> QED BY <1>2, <2>1, <2>2, UpToInduction
  <2>4. M \in 0 .. M
    BY <2>1
  <2> HIDE DEF T
  <2> QED BY <2>3, <2>4 DEF M
<1>5. PICK S : Good(S, N + 1)
  <2> HIDE DEF Good
  <2> QED BY <1>4
<1>6. N + 2 - (N + 1) = 1
  BY <1>0
<1>7. S \subseteq BlockRecords(S) /\ \A at \in 1 .. N + 1 : \A c \in BOOLEAN : all[at][c] \in BlocksOf(S, d, at)
  BY <1>5, <1>6
<1> QED BY <1>7 DEF N, all

\* The blocks from a position on, from what is parsed there.
LEMMA AllBlocksHere ==
    ASSUME NEW d \in Seq(Octet), NEW at \in 1 .. Len(d) + 1, NEW c \in BOOLEAN
    PROVE  AllBlocks(d)[at][c] = Here(d, AllBlocks(d), at, c)
<1> DEFINE all == AllBlocks(d)
           later == Behind(d, all, at)
           p == ParseBlock(d, later, at)
           q == ParseBlock(d, all, at)
<1>1. Len(d) \in Nat
  OBVIOUS
<1>2. all[at] = BlocksFrom(d, later, at)
  BY <1>1, AllBlocksLoop
<1>3. PICK S : /\ S \subseteq BlockRecords(S)
               /\ \A k \in 1 .. Len(d) + 1 : \A b \in BOOLEAN : all[k][b] \in BlocksOf(S, d, k)
  BY AllBlocksType
<1> HIDE DEF all
<1>4. all[at][c] = Here(d, later, at, c)
  BY <1>2, BlocksFromHere
<1>5. \A k \in at + 1 .. Len(d) + 1 : all[k] = later[k]
  BY DEF Behind
<1> HIDE DEF later
<1>6. CASE IsEnd(d, at)
  BY <1>4, <1>6 DEF Here, all
<1>7. CASE ~IsEnd(d, at)
  <2>1. at \in 1 .. Len(d)
    BY <1>1, <1>7 DEF IsEnd
  <2>2. q = p
    BY <1>5, <2>1, ParseBlockAgrees
  <2>3. Later(S, d, later, at)
    BY <1>1, <1>3, <1>5, <2>1 DEF Later
  <2>4. GoodParse(S, d, at, p)
    BY <2>1, <2>3, ParseBlockIsGood
  <2> DEFINE h(rest) ==
             IF d[at] = Close THEN Blocks("closed", << >>, at + 1)
             ELSE IF p.outcome # "parsed" THEN Blocks(p.outcome, << >>, at)
             ELSE IF c /\ p.block.dtag = Dtag.Content THEN Blocks("open", <<p.block>>, p.next)
             ELSE Blocks(rest.outcome, WithNested(p.block) \o rest.blocks, rest.next)
  <2>5. Here(d, later, at, c) = h(later[p.next][c])
    BY <1>7 DEF Here
  <2>6. Here(d, all, at, c) = h(all[p.next][c])
    BY <1>7, <2>2 DEF Here
  <2>7. p.outcome = "parsed" => later[p.next][c] = all[p.next][c]
    <3> HIDE DEF p
    <3> QED BY <1>5, <2>4 DEF GoodParse
  <2>8. h(later[p.next][c]) = h(all[p.next][c])
    <3> HIDE DEF p
    <3> QED BY <2>7
  <2> QED BY <1>4, <2>5, <2>6, <2>8 DEF all
<1> QED BY <1>6, <1>7

-----------------------------------------------------------------------------
(* What is written is read *)

\* Sequences of something.
IsSequence(s) == \E S : s \in Seq(S)

\* Sequences are joined in any order.
LEMMA SequencesJoined ==
    ASSUME NEW a, NEW b, NEW c, IsSequence(a), IsSequence(b), IsSequence(c)
    PROVE  /\ IsSequence(a \o b)
           /\ (a \o b) \o c = a \o (b \o c)
           /\ << >> \o a = a /\ a \o << >> = a
<1>1. PICK A, B, C : a \in Seq(A) /\ b \in Seq(B) /\ c \in Seq(C)
  BY DEF IsSequence
<1> DEFINE U == (A \cup B) \cup C
<1>2. A \subseteq U /\ B \subseteq U /\ C \subseteq U
  OBVIOUS
<1> HIDE DEF U
<1>3. a \in Seq(U) /\ b \in Seq(U) /\ c \in Seq(U)
  BY <1>1, <1>2, SeqMonotonic
<1>4. a \o b \in Seq(U) /\ (a \o b) \o c = a \o (b \o c) /\ << >> \o a = a /\ a \o << >> = a
  BY <1>3, ConcatProperties, ConcatAssociative, ConcatEmptySeq
<1> QED BY <1>4 DEF IsSequence

\* Append to nothing.
LEMMA AppendedFirst ==
    ASSUME NEW x
    PROVE  Append(<< >>, x) = <<x>>
<1>1. << >> \in Seq({x}) /\ x \in {x}
  OBVIOUS
<1> QED BY <1>1, AppendIsConcat, ConcatEmptySeq

\* The leading digit is not zero.
LEMMA LeadingDigit ==
    ASSUME NEW N \in Nat \ {0}
    PROVE  InBase(128, N)[1] # 0
<1>1. PICK f : /\ f[0] = << >>
               /\ \A n \in 1 .. N : f[n] = Append(f[n \div 128], n % 128)
               /\ InBase(128, N) = f[N]
  BY InBaseLoop
<1> DEFINE D == 0 .. 127
           Good(k) == f[k] \in Seq(D) /\ (k # 0 => Len(f[k]) > 0 /\ f[k][1] # 0)
           T == {m \in 0 .. N : \A k \in 0 .. m : Good(k)}
<1>0. \A n \in 1 .. N : n \div 128 \in 0 .. n - 1 /\ n % 128 \in D /\ (n \div 128 = 0 => n % 128 # 0)
  OBVIOUS
<1> HIDE DEF D
<1>2. 0 \in T
  <2>1. Good(0)
    BY <1>1
  <2> HIDE DEF Good
  <2> QED BY <2>1
<1>3. ASSUME NEW m \in 1 .. N, m - 1 \in T
      PROVE  m \in T
  <2> DEFINE i == m \div 128
             l == m % 128
  <2>1. i \in 0 .. m - 1 /\ l \in D /\ (i = 0 => l # 0)
    BY <1>0
  <2>2. f[m] = Append(f[i], l)
    BY <1>1
  <2> HIDE DEF i, l
  <2>3. Good(i)
    BY <1>3, <2>1
  <2>4. Good(m)
    <3>1. CASE i = 0
      <4>1. f[m] = <<l>>
        BY <1>1, <2>2, <3>1, AppendedFirst
      <4> DEFINE s == <<l>>
      <4>2. s \in Seq(D) /\ Len(s) = 1 /\ s[1] = l
        BY <2>1
      <4> HIDE DEF s
      <4> QED BY <2>1, <3>1, <4>1, <4>2 DEF s
    <3>2. CASE i # 0
      <4> DEFINE s == f[i]
      <4>1. s \in Seq(D) /\ Len(s) > 0 /\ s[1] # 0 /\ f[m] = Append(s, l)
        BY <2>2, <2>3, <3>2
      <4> HIDE DEF s
      <4>2. Append(s, l) \in Seq(D) /\ Len(Append(s, l)) > 0 /\ Append(s, l)[1] = s[1]
        BY <2>1, <4>1, AppendProperties
      <4> QED BY <4>1, <4>2
    <3> QED BY <3>1, <3>2
  <2> HIDE DEF Good
  <2> QED BY <1>3, <2>4
<1>4. T = 0 .. N
  <2> HIDE DEF Good
  <2> QED BY <1>2, <1>3, UpToInduction
<1>5. Good(N)
  <2> HIDE DEF Good
  <2> QED BY <1>4
<1> QED BY <1>1, <1>5

\* A header does not begin with the closing byte.
LEMMA HeaderFirst ==
    ASSUME NEW v \in Nat, NEW t \in 0 .. 6
    PROVE  AppendBlockHeader(v, t)[1] # Close
<1> DEFINE q == v \div 16
           s == InBase(128, q)
           x == 128 + (v % 16) * 8 + t
<1>1. q \in Nat /\ x # 0
  OBVIOUS
<1>2. s \in Seq(0 .. 127) /\ (q # 0 => Len(s) > 0 /\ s[1] # 0)
  BY <1>1, InBaseType, LeadingDigit
<1>3. AppendBlockHeader(v, t) = Append(s, x)
  BY DEF AppendBlockHeader
<1>4. q = 0 => s = << >>
  <2>1. ASSUME q = 0
        PROVE  s = << >>
    <3>1. \E f : f[0] = << >> /\ InBase(128, 0) = f[0]
      BY InBaseLoop
    <3> QED BY <2>1, <3>1
  <2> QED BY <2>1
<1> HIDE DEF q, x
<1>5. CASE q = 0
  <2>1. Append(s, x) = <<x>>
    BY <1>4, <1>5, AppendedFirst
  <2> QED BY <1>1, <1>3, <2>1 DEF Close
<1>6. CASE q # 0
  <2> HIDE DEF s
  <2>1. Append(s, x)[1] = s[1]
    BY <1>2, <1>6
  <2> QED BY <1>2, <1>3, <1>6, <2>1 DEF Close
<1> QED BY <1>5, <1>6

\* Bytes that are there end within the packet.
LEMMA HasRange ==
    ASSUME NEW d \in Seq(Octet), NEW at \in 1 .. Len(d) + 1, NEW bytes \in Seq(Octet), HasAt(d, at, bytes)
    PROVE  /\ at + Len(bytes) \in at .. Len(d) + 1
           /\ Len(bytes) > 0 => at \in 1 .. Len(d) /\ d[at] = bytes[1]
<1>1. Len(bytes) \in Nat /\ Len(d) \in Nat
  OBVIOUS
<1>2. \A k \in 1 .. Len(bytes) : at + k - 1 \in 1 .. Len(d) /\ d[at + k - 1] = bytes[k]
  BY DEF HasAt
<1>3. CASE Len(bytes) = 0
  BY <1>1, <1>3
<1>4. CASE Len(bytes) > 0
  <2> DEFINE L == Len(bytes)
  <2>1. L \in 1 .. L /\ 1 \in 1 .. L
    BY <1>1, <1>4
  <2>2. at + L - 1 \in 1 .. Len(d) /\ at + 1 - 1 \in 1 .. Len(d) /\ d[at + 1 - 1] = bytes[1]
    BY <1>2, <2>1
  <2> HIDE DEF L
  <2>3. at + 1 - 1 = at /\ at + L \in at .. Len(d) + 1
    BY <1>1, <1>4, <2>2 DEF L
  <2> QED BY <2>2, <2>3 DEF L
<1> QED BY <1>1, <1>3, <1>4

\* Wherever these bytes are, the parser reads these blocks there, and goes on
\* behind them.
Begins(bytes, blocks) ==
    \A d \in Seq(Octet) : Len(d) < Beyond =>
        \A at \in 1 .. Len(d) + 1 : HasAt(d, at, bytes) =>
            \A c \in BOOLEAN :
                LET rest == AllBlocks(d)[at + Len(bytes)][c]
                IN AllBlocks(d)[at][c] = Blocks(rest.outcome, blocks \o rest.blocks, rest.next)

\* And as one block.
Reads(bytes, block) ==
    \A d \in Seq(Octet) : Len(d) < Beyond =>
        \A at \in 1 .. Len(d) : HasAt(d, at, bytes) =>
            ParseBlock(d, AllBlocks(d), at) = Parsed(block, at + Len(bytes))

\* What is parsed of a position is a sequence of blocks.
LEMMA Typed ==
    ASSUME NEW d \in Seq(Octet), NEW at \in 1 .. Len(d) + 1, NEW c \in BOOLEAN
    PROVE  LET here == AllBlocks(d)[at][c]
           IN IsSequence(here.blocks) /\ here = Blocks(here.outcome, here.blocks, here.next)
<1>1. PICK S : \A k \in 1 .. Len(d) + 1 : \A b \in BOOLEAN : AllBlocks(d)[k][b] \in BlocksOf(S, d, k)
  BY AllBlocksType
<1> DEFINE here == AllBlocks(d)[at][c]
<1>2. here \in BlocksOf(S, d, at)
  BY <1>1
<1> HIDE DEF here
<1>3. here.blocks \in Seq(S) /\ here = Blocks(here.outcome, here.blocks, here.next)
  BY <1>2 DEF BlocksOf, Blocks
<1> QED BY <1>3 DEF IsSequence, here

\* Of no bytes no blocks are read.
LEMMA BeginsNothing == Begins(<< >>, << >>)
<1>1. ASSUME NEW d \in Seq(Octet), NEW at \in 1 .. Len(d) + 1, NEW c \in BOOLEAN
      PROVE  LET rest == AllBlocks(d)[at + Len(<< >>)][c]
             IN AllBlocks(d)[at][c] = Blocks(rest.outcome, << >> \o rest.blocks, rest.next)
  <2> DEFINE here == AllBlocks(d)[at][c]
  <2>1. IsSequence(here.blocks) /\ here = Blocks(here.outcome, here.blocks, here.next)
    BY Typed
  <2>2. at + Len(<< >>) = at
    OBVIOUS
  <2>3. << >> \o here.blocks = here.blocks
    <3> HIDE DEF here
    <3> QED BY <2>1, SequencesJoined
  <2> HIDE DEF here
  <2> QED BY <2>1, <2>2, <2>3 DEF here
<1> QED BY <1>1 DEF Begins

\* Of joined bytes the blocks of both are read.
LEMMA BeginsJoined ==
    ASSUME NEW a \in Seq(Octet), NEW b \in Seq(Octet), NEW x, NEW y, IsSequence(x), IsSequence(y),
           Begins(a, x), Begins(b, y)
    PROVE  Begins(a \o b, x \o y)
<1>1. ASSUME NEW d \in Seq(Octet), Len(d) < Beyond, NEW at \in 1 .. Len(d) + 1, HasAt(d, at, a \o b),
             NEW c \in BOOLEAN
      PROVE  LET rest == AllBlocks(d)[at + Len(a \o b)][c]
             IN AllBlocks(d)[at][c] = Blocks(rest.outcome, (x \o y) \o rest.blocks, rest.next)
  <2> DEFINE all == AllBlocks(d)
             m == at + Len(a)
             e == at + Len(a \o b)
  <2>1. a \o b \in Seq(Octet) /\ Len(a \o b) = Len(a) + Len(b) /\ Len(a) \in Nat /\ Len(b) \in Nat
    BY Joined
  <2>2. HasAt(d, at, a) /\ HasAt(d, m, b)
    <3>1. at \in Nat
      OBVIOUS
    <3> QED BY <1>1, <3>1, HasParts
  <2>3. m \in 1 .. Len(d) + 1 /\ e = m + Len(b)
    <3>1. m \in at .. Len(d) + 1
      BY <2>2, HasRange
    <3> HIDE DEF m
    <3> QED BY <2>1, <3>1 DEF m
  <2>4. e \in 1 .. Len(d) + 1
    <3>1. m + Len(b) \in m .. Len(d) + 1
      BY <2>2, <2>3, HasRange
    <3> HIDE DEF m, e
    <3> QED BY <2>3, <3>1
  <2>5. all[at][c] = Blocks(all[m][c].outcome, x \o all[m][c].blocks, all[m][c].next)
    BY <1>1, <2>2 DEF Begins
  <2>6. all[m][c] = Blocks(all[e][c].outcome, y \o all[e][c].blocks, all[e][c].next)
    <3>1. all[m][c] = Blocks(all[m + Len(b)][c].outcome, y \o all[m + Len(b)][c].blocks, all[m + Len(b)][c].next)
      <4> HIDE DEF m, e
      <4> QED BY <1>1, <2>2, <2>3 DEF Begins
    <3> HIDE DEF m, e
    <3> QED BY <2>3, <3>1
  <2>7. IsSequence(all[e][c].blocks)
    <3> HIDE DEF e
    <3> QED BY <2>4, Typed
  <2> DEFINE r == all[e][c]
             n == all[m][c]
  <2> HIDE DEF all, m, e, r, n
  <2>8. n.outcome = r.outcome /\ n.blocks = y \o r.blocks /\ n.next = r.next
    BY <2>6 DEF Blocks, r, n
  <2>9. x \o (y \o r.blocks) = (x \o y) \o r.blocks
    <3>1. IsSequence(r.blocks)
      BY <2>7 DEF r, all, e
    <3> DEFINE s == r.blocks
    <3>2. IsSequence(s)
      BY <3>1
    <3> HIDE DEF s
    <3>3. (x \o y) \o s = x \o (y \o s)
      BY <3>2, SequencesJoined
    <3> QED BY <3>3 DEF s
  <2>10. all[at][c] = Blocks(r.outcome, (x \o y) \o r.blocks, r.next)
    BY <2>5, <2>8, <2>9 DEF n
  <2> QED BY <2>10 DEF r, e, all
<1> QED BY <1>1 DEF Begins

\* A block that is read, and does not end what it is in, is followed by the rest.
LEMMA ReadsBegins ==
    ASSUME NEW bytes \in Seq(Octet), Len(bytes) > 0, bytes[1] # Close,
           NEW block, block.dtag # Dtag.Content, block.type # Type.tag, Reads(bytes, block)
    PROVE  Begins(bytes, <<block>>)
<1>2. WithNested(block) = <<block>>
  BY DEF WithNested, If
<1>1. ASSUME NEW d \in Seq(Octet), Len(d) < Beyond, NEW at \in 1 .. Len(d) + 1, HasAt(d, at, bytes),
             NEW c \in BOOLEAN
      PROVE  LET rest == AllBlocks(d)[at + Len(bytes)][c]
             IN AllBlocks(d)[at][c] = Blocks(rest.outcome, <<block>> \o rest.blocks, rest.next)
  <2> DEFINE all == AllBlocks(d)
             e == at + Len(bytes)
             p == ParseBlock(d, all, at)
             rest == all[p.next][c]
  <2>1. at \in 1 .. Len(d) /\ d[at] # Close
    BY <1>1, HasRange
  <2>2. p = Parsed(block, e)
    BY <1>1, <2>1 DEF Reads
  <2>3. all[at][c] = IF IsEnd(d, at) THEN Blocks("end", << >>, at)
                     ELSE IF d[at] = Close THEN Blocks("closed", << >>, at + 1)
                     ELSE IF p.outcome # "parsed" THEN Blocks(p.outcome, << >>, at)
                     ELSE IF c /\ p.block.dtag = Dtag.Content THEN Blocks("open", <<p.block>>, p.next)
                     ELSE Blocks(rest.outcome, WithNested(p.block) \o rest.blocks, rest.next)
    BY AllBlocksHere DEF Here
  <2>4. ~IsEnd(d, at)
    BY <2>1 DEF IsEnd
  <2> HIDE DEF all, e, p
  <2>5. p.outcome = "parsed" /\ p.block = block /\ p.next = e
    BY <2>2 DEF Parsed
  <2>6. all[at][c] = Blocks(rest.outcome, <<block>> \o rest.blocks, rest.next)
    BY <1>2, <2>1, <2>3, <2>4, <2>5
  <2> QED BY <2>5, <2>6 DEF all, e
<1> QED BY <1>1 DEF Begins

\* Bytes that are there can be taken from there.
LEMMA ReadSub ==
    ASSUME NEW d \in Seq(Octet), NEW k \in 1 .. Len(d) + 1, NEW x \in Seq(Octet), HasAt(d, k, x)
    PROVE  SubSeq(d, k, k + Len(x) - 1) = x
<1> DEFINE e == k + Len(x) - 1
           s == SubSeq(d, k, e)
           L == Len(x)
<1>1. L \in Nat /\ Len(d) \in Nat /\ k + L \in k .. Len(d) + 1
  <2>1. k + Len(x) \in k .. Len(d) + 1
    BY HasRange
  <2>2. Len(x) \in Nat /\ Len(d) \in Nat
    OBVIOUS
  <2> QED BY <2>1, <2>2
<1>2. \A i \in 1 .. L : k + i - 1 \in 1 .. Len(d) /\ d[k + i - 1] = x[i]
  BY DEF HasAt
<1>5. e = k + L - 1
  OBVIOUS
<1> HIDE DEF L, e
<1>3. \A i \in k .. e : d[i] \in Octet
  <2>1. \A i \in k .. e : i \in 1 .. Len(d)
    BY <1>1, <1>5
  <2> QED BY <2>1
<1>4. k \in Int /\ e \in Int
  BY <1>1, <1>5
<1>6. /\ s \in Seq(Octet) /\ Len(s) = IF k <= e THEN e - k + 1 ELSE 0
      /\ \A i \in 1 .. e - k + 1 : s[i] = d[k + i - 1]
  BY <1>3, <1>4, SubSeqProperties
<1> HIDE DEF s
<1>7. Len(s) = L /\ e - k + 1 = L
  BY <1>1, <1>5, <1>6
<1>8. \A i \in 1 .. Len(s) : s[i] = x[i]
  BY <1>2, <1>6, <1>7
<1>9. s = x
  BY <1>6, <1>7, <1>8, SeqEqual DEF L
<1> QED BY <1>9 DEF s, e

\* Text behind its header is read as a leaf.
LEMMA TextReads ==
    ASSUME NEW x \in Seq(Octet), NEW type \in {5, 6}
    PROVE  Reads(AppendBlockHeader(Len(x), type) \o x, Leaf(type, x))
<1> DEFINE h == AppendBlockHeader(Len(x), type)
<1>1. ASSUME NEW d \in Seq(Octet), Len(d) < Beyond, NEW at \in 1 .. Len(d), HasAt(d, at, h \o x)
      PROVE  ParseBlock(d, AllBlocks(d), at) = Parsed(Leaf(type, x), at + Len(h \o x))
  <2> DEFINE k == at + Len(h)
             L == Len(x)
             m == Marker(d, at)
  <2>1. L \in Nat /\ type \in 0 .. 6
    OBVIOUS
  <2>2. h \in Seq(Octet) /\ Len(h) \in Nat \ {0}
    BY <2>1, HeaderType
  <2>3. HasAt(d, at, h) /\ HasAt(d, k, x)
    <3>1. at \in Nat
      OBVIOUS
    <3> HIDE DEF h
    <3> QED BY <1>1, <2>2, <3>1, HasParts
  <2>4. k \in at + 1 .. Len(d) + 1
    <3>1. at \in 1 .. Len(d) + 1
      OBVIOUS
    <3>2. k \in at .. Len(d) + 1
      <4> HIDE DEF h
      <4> QED BY <2>2, <2>3, <3>1, HasRange
    <3> HIDE DEF h
    <3> QED BY <2>2, <3>2
  <2>5. k + L \in k .. Len(d) + 1
    <3> HIDE DEF k
    <3>1. k \in 1 .. Len(d) + 1
      BY <2>4
    <3> QED BY <2>3, <3>1, HasRange
  <2>6. L < Beyond
    <3>1. Len(d) \in Nat /\ Beyond \in Nat
      BY DEF Beyond
    <3> HIDE DEF k, L
    <3> QED BY <1>1, <2>1, <2>4, <2>5, <3>1
  <2>7. m = [value |-> L, type |-> type, next |-> k]
    <3>1. at \in Nat \ {0}
      OBVIOUS
    <3> QED BY <2>1, <2>3, <2>6, <3>1, MarkerReads
  <2>8. m.value = L /\ m.type = type /\ m.next = k
    BY <2>7
  <2> HIDE DEF m
  <2>9. ParseBlock(d, AllBlocks(d), at) = Text(d, k, type, L)
    <3> DEFINE p == ParseBlock(d, AllBlocks(d), at)
    <3>1. /\ m.type = 5 => p = Text(d, m.next, 5, m.value)
          /\ m.type = 6 => p = Text(d, m.next, 6, m.value)
      BY ParseBlockCases DEF m
    <3> HIDE DEF p, k, L
    <3> QED BY <2>8, <3>1 DEF p
  <2>10. SubSeq(d, k, k + L - 1) = x
    <3> HIDE DEF k
    <3>1. k \in 1 .. Len(d) + 1
      BY <2>4
    <3> QED BY <2>3, <3>1, ReadSub
  <2>11. ~(k + L - 1 > Len(d))
    <3> HIDE DEF k, L
    <3> QED BY <2>1, <2>4, <2>5
  <2>12. Text(d, k, type, L) = Parsed(Leaf(type, x), k + L)
    <3> HIDE DEF k, L
    <3> QED BY <2>10, <2>11 DEF Text
  <2>13. at + Len(h \o x) = k + L
    <3> HIDE DEF h
    <3>1. Len(h \o x) = Len(h) + Len(x)
      BY <2>2, Joined
    <3> QED BY <2>1, <2>2, <3>1
  <2> QED BY <2>9, <2>12, <2>13
<1> QED BY <1>1 DEF Reads

\* And the blocks behind it follow.
LEMMA TextBegins ==
    ASSUME NEW x \in Seq(Octet), NEW type \in {5, 6}
    PROVE  Begins(AppendBlockHeader(Len(x), type) \o x, <<Leaf(type, x)>>)
<1> DEFINE h == AppendBlockHeader(Len(x), type)
<1>1. Len(x) \in Nat /\ type \in 0 .. 6
  OBVIOUS
<1>2. h \in Seq(Octet) /\ Len(h) \in Nat \ {0} /\ h[1] # Close
  BY <1>1, HeaderType, HeaderFirst
<1>3. Reads(h \o x, Leaf(type, x))
  BY TextReads
<1>4. Leaf(type, x).dtag # Dtag.Content /\ Leaf(type, x).type # Type.tag
  BY DtagValues, TypeValues DEF Leaf
<1> HIDE DEF h
<1>5. h \o x \in Seq(Octet) /\ Len(h \o x) > 0 /\ (h \o x)[1] = h[1]
  BY <1>1, <1>2
<1> QED BY <1>2, <1>3, <1>4, <1>5, ReadsBegins DEF h

\* No attributes at the beginning.
NoAttribute(blocks) == blocks = << >> \/ ~IsAttribute(blocks[1])

\* Without attributes at the beginning nothing is cut off.
LEMMA NoAttributes ==
    ASSUME NEW s, IsSequence(s), NoAttribute(s)
    PROVE  SubSeq(s, Cardinality({i \in DOMAIN s : \A j \in 1 .. i : IsAttribute(s[j])}) + 1, Len(s)) = s
<1> DEFINE K == {i \in DOMAIN s : \A j \in 1 .. i : IsAttribute(s[j])}
<1>1. PICK S : s \in Seq(S)
  BY DEF IsSequence
<1>2. K = {}
  <2>1. DOMAIN s = 1 .. Len(s) /\ Len(s) \in Nat /\ (s = << >> => DOMAIN s = {})
    BY <1>1
  <2>2. ASSUME NEW i \in DOMAIN s
        PROVE  \E j \in 1 .. i : ~IsAttribute(s[j])
    <3>1. 1 \in 1 .. i /\ s # << >>
      BY <2>1
    <3> QED BY <3>1 DEF NoAttribute
  <2> QED BY <2>2
<1>3. Cardinality(K) + 1 = 1
  BY <1>2, FS_EmptySet
<1>4. SubSeq(s, 1, Len(s)) = s
  BY <1>1, SubSeqFull
<1> HIDE DEF K
<1> QED BY <1>3, <1>4 DEF K

\* An element around bytes that are read is read, as a tree of their blocks.
LEMMA ElementReads ==
    ASSUME NEW bytes \in Seq(Octet), NEW blocks, IsSequence(blocks), NoAttribute(blocks),
           Begins(bytes, blocks),
           NEW dtag \in Nat, dtag < Beyond, dtag # Dtag.Content, dtag # Dtag.ContentObject
    PROVE  Reads(Element(dtag, bytes), Tree(Type.dtag, dtag, blocks))
<1> DEFINE h == AppendBlockHeader(dtag, Type.dtag)
           z == <<Close>>
           hb == h \o bytes
<1>8. Type.dtag \in 0 .. 6
  BY TypeValues
<1>1. h \in Seq(Octet) /\ Len(h) \in Nat \ {0} /\ Type.dtag \in 0 .. 6
  BY <1>8, HeaderType
<1>2. z \in Seq(Octet) /\ Len(z) = 1 /\ z[1] = Close
  BY DEF Close, Octet
<1>3. Element(dtag, bytes) = hb \o z
  BY DEF Element
<1> HIDE DEF h, z
<1>4. hb \in Seq(Octet) /\ Len(hb) = Len(h) + Len(bytes) /\ Len(bytes) \in Nat
  BY <1>1, Joined
<1>5. Len(hb \o z) = Len(h) + Len(bytes) + 1
  <2> HIDE DEF hb
  <2> QED BY <1>2, <1>4, Joined
<1>6. ASSUME NEW d \in Seq(Octet), Len(d) < Beyond, NEW at \in 1 .. Len(d), HasAt(d, at, hb \o z)
      PROVE  ParseBlock(d, AllBlocks(d), at)
                = Parsed(Tree(Type.dtag, dtag, blocks), at + Len(hb \o z))
  <2> DEFINE k == at + Len(h)
             e == k + Len(bytes)
             all == AllBlocks(d)
             m == Marker(d, at)
  <2>1. at \in Nat /\ at \in Nat \ {0} /\ at \in 1 .. Len(d) + 1 /\ Len(d) \in Nat
    OBVIOUS
  <2>2. HasAt(d, at, hb) /\ HasAt(d, at + Len(hb), z)
    <3> HIDE DEF hb
    <3> QED BY <1>2, <1>4, <1>6, <2>1, HasParts
  <2>3. HasAt(d, at, h) /\ HasAt(d, k, bytes)
    BY <1>1, <2>1, <2>2, HasParts
  <2>4. at + Len(hb) = e
    BY <1>1, <1>4
  <2>5. k \in at + 1 .. Len(d) + 1
    <3>1. k \in at .. Len(d) + 1
      BY <1>1, <2>1, <2>3, HasRange
    <3> QED BY <1>1, <3>1
  <2> HIDE DEF k
  <2>6. k \in 1 .. Len(d) + 1
    BY <2>5
  <2>7. e \in 1 .. Len(d) + 1
    <3>1. e \in k .. Len(d) + 1
      BY <2>3, <2>6, HasRange
    <3> HIDE DEF e
    <3> QED BY <2>6, <3>1
  <2>8. e \in 1 .. Len(d) /\ d[e] = Close
    <3> HIDE DEF e, hb
    <3>1. HasAt(d, e, z)
      BY <2>2, <2>4
    <3>2. Len(z) > 0
      BY <1>2
    <3> QED BY <1>2, <2>7, <3>1, <3>2, HasRange
  <2>9. all[e][FALSE] = Blocks("closed", << >>, e + 1)
    <3> HIDE DEF e
    <3>1. all[e][FALSE] = Here(d, all, e, FALSE)
      BY <2>7, AllBlocksHere
    <3>2. ~IsEnd(d, e)
      BY <2>8 DEF IsEnd
    <3> QED BY <2>8, <3>1, <3>2 DEF Here
  <2>10. blocks \o << >> = blocks
    BY SequencesJoined
  <2>11. all[k][FALSE] = Blocks("closed", blocks, e + 1)
    <3>1. all[k][FALSE] = Blocks(all[e][FALSE].outcome, blocks \o all[e][FALSE].blocks, all[e][FALSE].next)
      BY <1>6, <2>3, <2>6 DEF Begins
    <3> HIDE DEF e, all
    <3> QED BY <2>9, <2>10, <3>1 DEF Blocks
  <2> HIDE DEF all, e
  <2>12. Nested(all, k, dtag) = Blocks("closed", blocks, e + 1)
    <3> DEFINE n == all[k][dtag = Dtag.ContentObject]
               K == {i \in DOMAIN n.blocks : \A j \in 1 .. i : IsAttribute(n.blocks[j])}
    <3>1. (dtag = Dtag.ContentObject) = FALSE
      OBVIOUS
    <3>2. n = Blocks("closed", blocks, e + 1)
      BY <2>11, <3>1
    <3>3. Nested(all, k, dtag) = [n EXCEPT !.blocks = SubSeq(n.blocks, Cardinality(K) + 1, Len(n.blocks))]
      BY DEF Nested
    <3> HIDE DEF n
    <3>4. n.blocks = blocks
      BY <3>2 DEF Blocks
    <3>5. SubSeq(n.blocks, Cardinality(K) + 1, Len(n.blocks)) = blocks
      BY <3>4, NoAttributes
    <3> HIDE DEF K
    <3>6. Nested(all, k, dtag) = [n EXCEPT !.blocks = blocks]
      BY <3>3, <3>5
    <3> QED BY <3>2, <3>6 DEF Blocks
  <2>13. DtagBlock(all, k, dtag) = Parsed(Tree(Type.dtag, dtag, blocks), e + 1)
    <3> DEFINE n == Nested(all, k, dtag)
    <3>1. n.outcome = "closed" /\ n.blocks = blocks /\ n.next = e + 1
      BY <2>12 DEF Blocks
    <3> HIDE DEF n
    <3> QED BY <3>1 DEF DtagBlock, n
  <2>14. m = [value |-> dtag, type |-> Type.dtag, next |-> k]
    BY <1>1, <1>6, <2>1, <2>3, MarkerReads DEF h, k
  <2>15. m.value = dtag /\ m.type = 2 /\ m.next = k
    BY <2>14, TypeValues
  <2>16. ParseBlock(d, all, at) = DtagBlock(all, k, dtag)
    <3>1. m.type = 2 => ParseBlock(d, all, at) = DtagBlock(all, m.next, m.value)
      BY ParseBlockCases
    <3> HIDE DEF m
    <3> QED BY <2>15, <3>1
  <2>17. e + 1 = at + Len(hb \o z)
    <3> HIDE DEF hb
    <3> QED BY <1>1, <1>4, <1>5, <2>1 DEF e, k
  <2> QED BY <2>13, <2>16, <2>17 DEF all
<1>7. Reads(hb \o z, Tree(Type.dtag, dtag, blocks))
  <2> HIDE DEF hb
  <2> QED BY <1>6 DEF Reads
<1> QED BY <1>3, <1>7

\* And the blocks behind it follow.
LEMMA ElementBegins ==
    ASSUME NEW bytes \in Seq(Octet), NEW blocks, IsSequence(blocks), NoAttribute(blocks),
           Begins(bytes, blocks),
           NEW dtag \in Nat, dtag < Beyond, dtag # Dtag.Content, dtag # Dtag.ContentObject
    PROVE  Begins(Element(dtag, bytes), <<Tree(Type.dtag, dtag, blocks)>>)
<1> DEFINE h == AppendBlockHeader(dtag, Type.dtag)
           z == <<Close>>
<1>9. Type.dtag \in 0 .. 6
  BY TypeValues
<1>1. h \in Seq(Octet) /\ Len(h) \in Nat \ {0} /\ h[1] # Close
  BY <1>9, HeaderType, HeaderFirst
<1>2. Element(dtag, bytes) = (h \o bytes) \o z
  BY DEF Element
<1>3. z \in Seq(Octet) /\ Len(z) = 1
  BY DEF Close, Octet
<1> HIDE DEF h, z
<1>4. h \o bytes \in Seq(Octet) /\ Len(h \o bytes) > 0 /\ (h \o bytes)[1] = h[1]
  BY <1>1
<1> DEFINE hb == h \o bytes
<1> HIDE DEF hb
<1>5. hb \o z \in Seq(Octet) /\ Len(hb \o z) > 0 /\ (hb \o z)[1] = hb[1]
  BY <1>3, <1>4 DEF hb
<1>6. Tree(Type.dtag, dtag, blocks).dtag # Dtag.Content /\ Tree(Type.dtag, dtag, blocks).type # Type.tag
  BY TypeValues DEF Tree
<1>7. Reads(Element(dtag, bytes), Tree(Type.dtag, dtag, blocks))
  BY ElementReads
<1> DEFINE el == Element(dtag, bytes)
           tr == Tree(Type.dtag, dtag, blocks)
<1>8. el \in Seq(Octet) /\ Len(el) > 0 /\ el[1] # Close
  BY <1>1, <1>2, <1>4, <1>5 DEF hb
<1> HIDE DEF el, tr
<1> QED BY <1>6, <1>7, <1>8, ReadsBegins DEF el, tr

-----------------------------------------------------------------------------
(* Fields *)

\* What the parser makes of a blob and of a name.
BlobTrees(data) == If(data # << >>, <<Leaf(Type.blob, data)>>)

NameTrees(name) == [i \in DOMAIN name |-> Tree(Type.dtag, Dtag.Component, BlobTrees(name[i]))]

\* A sequence of one block.
LEMMA OneBlock ==
    ASSUME NEW block
    PROVE  /\ IsSequence(<<block>>) /\ <<block>> # << >> /\ Head(<<block>>) = block /\ Tail(<<block>>) = << >>
           /\ ~IsAttribute(block) => NoAttribute(<<block>>)
           /\ IsSequence(<< >>) /\ NoAttribute(<< >>)
<1> DEFINE s == <<block>>
<1>1. s \in Seq({block}) /\ << >> \in Seq({block}) /\ Len(s) = 1 /\ s[1] = block /\ s # << >>
  OBVIOUS
<1> HIDE DEF s
<1>2. IsSequence(s) /\ IsSequence(<< >>)
  BY <1>1 DEF IsSequence
<1>3. NoAttribute(<< >>) /\ (~IsAttribute(block) => NoAttribute(s))
  BY <1>1 DEF NoAttribute
<1>4. Head(s) = block
  BY <1>1
<1>5. Tail(s) \in Seq({block}) /\ Len(Tail(s)) = 0
  BY <1>1, HeadTailProperties
<1>6. Tail(s) = << >>
  BY <1>5, EmptySeq
<1> QED BY <1>1, <1>2, <1>3, <1>4, <1>6 DEF s

\* A number is read as a leaf with its digits,
LEMMA NumberBegins ==
    ASSUME NEW n \in Nat
    PROVE  Begins(AppendNumber(n), <<Leaf(Type.udata, Digits(n))>>)
<1>1. Digits(n) \in Seq(Octet) /\ Type.udata = 6
  BY DigitsType, TypeValues
<1>2. \A type \in {5, 6} : Begins(AppendBlockHeader(Len(Digits(n)), type) \o Digits(n), <<Leaf(type, Digits(n))>>)
  BY <1>1, TextBegins
<1> QED BY <1>1, <1>2 DEF AppendNumber

\* a duration as a leaf with its bytes,
LEMMA TimeBegins ==
    ASSUME NEW time \in Int
    PROVE  Begins(AppendTimestampBlob(time), <<Leaf(Type.blob, TimeBytes(time))>>)
<1> DEFINE x == TimeBytes(time)
<1>1. x \in Seq(Octet) /\ AppendTimestampBlob(time) = AppendBlockHeader(Len(x), Type.blob) \o x /\ Type.blob = 5
  BY TimestampWritten, TypeValues
<1> HIDE DEF x
<1>2. \A type \in {5, 6} : Begins(AppendBlockHeader(Len(x), type) \o x, <<Leaf(type, x)>>)
  BY <1>1, TextBegins
<1> QED BY <1>1, <1>2 DEF x

\* a blob as a leaf with its data, or as nothing when it is empty,
LEMMA BlobBegins ==
    ASSUME NEW data \in Seq(Octet)
    PROVE  LET bytes == If(data # << >>, AppendBlockHeader(Len(data), Type.blob) \o data)
           IN /\ bytes \in Seq(Octet) /\ Begins(bytes, BlobTrees(data))
              /\ IsSequence(BlobTrees(data)) /\ NoAttribute(BlobTrees(data))
<1> DEFINE h == AppendBlockHeader(Len(data), Type.blob)
<1>1. Type.blob \in 0 .. 6 /\ Type.blob = 5 /\ Len(data) \in Nat
  BY TypeValues
<1>2. h \in Seq(Octet)
  BY <1>1, HeaderType
<1>3. CASE data # << >>
  <2>1. BlobTrees(data) = <<Leaf(Type.blob, data)>> /\ If(data # << >>, h \o data) = h \o data
    BY <1>3 DEF BlobTrees, If
  <2>2. \A type \in {5, 6} : Begins(AppendBlockHeader(Len(data), type) \o data, <<Leaf(type, data)>>)
    BY TextBegins
  <2>3. Begins(h \o data, <<Leaf(Type.blob, data)>>)
    BY <1>1, <2>2
  <2>4. ~IsAttribute(Leaf(Type.blob, data))
    BY TypeValues DEF Leaf, IsAttribute
  <2> HIDE DEF h
  <2>5. h \o data \in Seq(Octet)
    BY <1>2
  <2> QED BY <2>1, <2>3, <2>4, <2>5, OneBlock DEF h
<1>4. CASE data = << >>
  <2>1. BlobTrees(data) = << >> /\ If(data # << >>, h \o data) = << >>
    BY <1>4 DEF BlobTrees, If
  <2>2. << >> \in Seq(Octet)
    OBVIOUS
  <2> QED BY <2>1, <2>2, OneBlock, BeginsNothing
<1> QED BY <1>3, <1>4

\* a tagged blob as an element around that,
LEMMA TaggedBlobBegins ==
    ASSUME NEW data \in Seq(Octet),
           NEW dtag \in Nat, dtag < Beyond, dtag # Dtag.Content, dtag # Dtag.ContentObject
    PROVE  Begins(AppendTaggedBlob(dtag, data), <<Tree(Type.dtag, dtag, BlobTrees(data))>>)
<1> DEFINE bytes == If(data # << >>, AppendBlockHeader(Len(data), Type.blob) \o data)
<1>1. /\ bytes \in Seq(Octet) /\ Begins(bytes, BlobTrees(data))
      /\ IsSequence(BlobTrees(data)) /\ NoAttribute(BlobTrees(data))
  BY BlobBegins
<1>2. AppendTaggedBlob(dtag, data) = Element(dtag, bytes)
  BY DEF AppendTaggedBlob, Element
<1> HIDE DEF bytes
<1> QED BY <1>1, <1>2, ElementBegins

\* a name as elements one behind the other,
LEMMA NameBegins ==
    ASSUME NEW name \in Seq(Seq(Octet))
    PROVE  /\ Begins(AppendNameComponents(name), NameTrees(name))
           /\ IsSequence(NameTrees(name)) /\ NoAttribute(NameTrees(name))
<1> DEFINE N == Len(name)
           piece(i) == AppendTaggedBlob(Dtag.Component, name[i])
           tree(i) == Tree(Type.dtag, Dtag.Component, BlobTrees(name[i]))
           s == [i \in DOMAIN name |-> piece(i)]
           t(n) == [i \in 1 .. n |-> tree(i)]
           U == {tree(i) : i \in 1 .. N}
<1>1. N \in Nat /\ DOMAIN name = 1 .. N /\ \A i \in 1 .. N : name[i] \in Seq(Octet)
  OBVIOUS
<1>2. \A i \in 1 .. N : piece(i) \in Seq(Octet) /\ Begins(piece(i), <<tree(i)>>)
  <2>1. Dtag.Component \in Nat /\ Dtag.Component < Beyond /\ Dtag.Component # Dtag.Content
        /\ Dtag.Component # Dtag.ContentObject
    BY DtagValues DEF Beyond
  <2>2. ASSUME NEW i \in 1 .. N
        PROVE  piece(i) \in Seq(Octet) /\ Begins(piece(i), <<tree(i)>>)
    BY <1>1, <2>1, TaggedBlobWritten, TaggedBlobBegins
  <2> QED BY <2>2
<1>3. NameTrees(name) = t(N)
  BY <1>1 DEF NameTrees
<1>4. AppendNameComponents(name) = FlattenSeq(s)
  BY DEF AppendNameComponents
<1>5. s \in [1 .. N -> Seq(Octet)] /\ \A i \in 1 .. N : s[i] = piece(i)
  BY <1>1, <1>2
<1>6. \A i \in 1 .. N : tree(i) \in U /\ ~IsAttribute(tree(i))
  <2>1. \A i \in 1 .. N : ~IsAttribute(tree(i))
    BY TypeValues DEF Tree, IsAttribute
  <2> QED BY <2>1
<1> HIDE DEF N, piece, tree, s, U
<1>7. s \in Seq(Seq(Octet)) /\ Len(s) = N
  BY <1>1, <1>5
<1>8. \A n \in 0 .. N : t(n) \in Seq(U) /\ Len(t(n)) = n
  <2>1. ASSUME NEW n \in 0 .. N
        PROVE  t(n) \in [1 .. n -> U]
    BY <1>1, <1>6
  <2>2. ASSUME NEW n \in 0 .. N
        PROVE  t(n) \in Seq(U) /\ Len(t(n)) = n
    <3> DEFINE x == t(n)
    <3>1. x \in [1 .. n -> U] /\ n \in Nat
      BY <1>1, <2>1
    <3> HIDE DEF x
    <3>2. x \in Seq(U) /\ Len(x) = n
      BY <3>1
    <3> QED BY <3>2 DEF x
  <2> QED BY <2>2
<1>9. \A n \in 1 .. N : t(n) = t(n - 1) \o <<tree(n)>>
  <2>1. ASSUME NEW n \in 1 .. N
        PROVE  t(n) = t(n - 1) \o <<tree(n)>>
    <3> DEFINE a == t(n - 1)
               b == <<tree(n)>>
               c == t(n)
    <3>1. n - 1 \in 0 .. N /\ n \in 0 .. N
      BY <1>1
    <3>2. a \in Seq(U) /\ Len(a) = n - 1 /\ c \in Seq(U) /\ Len(c) = n
      <4> HIDE DEF a, c
      <4> QED BY <1>8, <3>1 DEF a, c
    <3>3. b \in Seq(U) /\ Len(b) = 1 /\ b[1] = tree(n)
      BY <1>6
    <3>4. (\A i \in 1 .. n - 1 : a[i] = tree(i)) /\ \A i \in 1 .. n : c[i] = tree(i)
      BY <1>1
    <3> HIDE DEF a, b, c
    <3>8. Len(a) + Len(b) = n
      BY <1>1, <3>2, <3>3
    <3>5. a \o b \in Seq(U) /\ Len(a \o b) = Len(c)
          /\ \A i \in 1 .. Len(c) : (a \o b)[i] = IF i <= Len(a) THEN a[i] ELSE b[i - Len(a)]
      <4>1. /\ a \o b \in Seq(U) /\ Len(a \o b) = Len(a) + Len(b)
            /\ \A i \in 1 .. Len(a) + Len(b) : (a \o b)[i] = IF i <= Len(a) THEN a[i] ELSE b[i - Len(a)]
        BY <3>2, <3>3, ConcatProperties
      <4> QED BY <3>2, <3>8, <4>1
    <3>6. \A i \in 1 .. Len(c) : c[i] = (a \o b)[i]
      <4>1. ASSUME NEW i \in 1 .. Len(c)
            PROVE  c[i] = (a \o b)[i]
        <5>1. CASE i <= n - 1
          BY <1>1, <3>2, <3>4, <3>5, <5>1
        <5>2. CASE i = n
          <6>1. i - Len(a) = 1 /\ ~(i <= Len(a))
            BY <1>1, <3>2, <5>2
          <6> QED BY <3>2, <3>3, <3>4, <3>5, <5>2, <6>1
        <5>3. i \in 1 .. n /\ n \in Int
          BY <1>1, <3>2
        <5>4. i <= n - 1 \/ i = n
          BY <5>3
        <5> QED BY <5>1, <5>2, <5>4
      <4> QED BY <4>1
    <3>7. c = a \o b
      BY <3>2, <3>5, <3>6, SeqEqual
    <3> QED BY <3>7 DEF a, b, c
  <2> QED BY <2>1
<1>10. IsSequence(t(N)) /\ NoAttribute(t(N))
  <2> DEFINE x == t(N)
  <2>1. x \in Seq(U) /\ Len(x) = N
    <3> HIDE DEF x
    <3> QED BY <1>1, <1>8 DEF x
  <2>2. N # 0 => x[1] = tree(1) /\ 1 \in 1 .. N
    BY <1>1
  <2> HIDE DEF x
  <2>3. IsSequence(x) /\ (N = 0 => x = << >>)
    BY <2>1 DEF IsSequence
  <2>4. NoAttribute(x)
    BY <1>6, <2>2, <2>3 DEF NoAttribute
  <2> QED BY <2>3, <2>4 DEF x
<1>11. CASE N = 0
  <2>1. FlattenSeq(s) = s /\ s = << >>
    BY <1>7, <1>11, EmptySeq DEF FlattenSeq
  <2>2. t(N) = << >>
    <3> DEFINE x == t(N)
    <3>1. x \in Seq(U) /\ Len(x) = 0
      <4> HIDE DEF x
      <4> QED BY <1>1, <1>8, <1>11 DEF x
    <3> HIDE DEF x
    <3>2. x = << >>
      BY <3>1
    <3> QED BY <3>2 DEF x
  <2> HIDE DEF t
  <2> QED BY <1>3, <1>4, <1>10, <2>1, <2>2, BeginsNothing
<1>12. CASE N # 0
  <2>1. PICK f : /\ f[1] = s[1]
                 /\ \A n \in 2 .. N : f[n] = f[n - 1] \o s[n]
                 /\ FlattenSeq(s) = f[N]
    BY <1>1, <1>7, <1>12, FlattenLoop
  <2> DEFINE Holds(n) == f[n] \in Seq(Octet) /\ Begins(f[n], t(n))
             T == {n \in 0 .. N : n # 0 => Holds(n)}
  <2>2. 0 \in T
    BY <1>1
  <2>3. ASSUME NEW n \in 1 .. N, n - 1 \in T
        PROVE  n \in T
    <3>1. s[n] \in Seq(Octet) /\ Begins(s[n], <<tree(n)>>) /\ t(n) = t(n - 1) \o <<tree(n)>>
      <4> HIDE DEF t
      <4> QED BY <1>2, <1>5, <1>9
    <3>2. CASE n = 1
      <4>1. f[n] = s[n]
        BY <2>1, <3>2
      <4>2. t(n) = <<tree(n)>>
        <5>1. \A i \in 1 .. 1 : i = 1
          OBVIOUS
        <5> DEFINE x == t(n)
        <5>2. x \in Seq(U) /\ Len(x) = 1
          <6>1. n \in 0 .. N
            BY <1>1
          <6>2. t(n) \in Seq(U) /\ Len(t(n)) = n
            <7> HIDE DEF t
            <7> QED BY <1>8, <6>1
          <6> QED BY <3>2, <6>2
        <5>3. x[1] = tree(1)
          BY <3>2
        <5> HIDE DEF x
        <5>4. x = <<tree(1)>>
          BY <5>2, <5>3
        <5> QED BY <3>2, <5>4 DEF x
      <4>3. Holds(n)
        <5> HIDE DEF t
        <5> QED BY <3>1, <4>1, <4>2
      <4> HIDE DEF Holds
      <4> QED BY <4>3
    <3>3. CASE n # 1
      <4>1. n \in 2 .. N /\ Holds(n - 1)
        BY <1>1, <2>3, <3>3
      <4>2. f[n] = f[n - 1] \o s[n]
        BY <2>1, <4>1
      <4> DEFINE a == f[n - 1]
                 b == s[n]
                 x == t(n - 1)
                 y == <<tree(n)>>
      <4>3. IsSequence(x) /\ IsSequence(y)
        <5>1. n - 1 \in 0 .. N
          BY <1>1
        <5>2. x \in Seq(U)
          <6> HIDE DEF x
          <6> QED BY <1>8, <5>1 DEF x
        <5> HIDE DEF x
        <5>3. IsSequence(x)
          BY <5>2 DEF IsSequence
        <5> QED BY <5>3, OneBlock
      <4>4. a \in Seq(Octet) /\ b \in Seq(Octet) /\ Begins(a, x) /\ Begins(b, y)
        BY <3>1, <4>1
      <4>5. f[n] = a \o b /\ t(n) = x \o y
        <5> HIDE DEF t
        <5> QED BY <3>1, <4>2
      <4> HIDE DEF a, b, x, y
      <4>6. a \o b \in Seq(Octet) /\ Begins(a \o b, x \o y)
        BY <4>3, <4>4, Joined, BeginsJoined
      <4>7. Holds(n)
        <5> HIDE DEF t
        <5> QED BY <4>5, <4>6
      <4> HIDE DEF Holds
      <4> QED BY <4>7
    <3> QED BY <3>2, <3>3
  <2>4. T = 0 .. N
    <3> HIDE DEF Holds
    <3> QED BY <1>1, <2>2, <2>3, UpToInduction
  <2>5. Holds(N)
    <3> HIDE DEF Holds
    <3> QED BY <1>1, <1>12, <2>4
  <2> HIDE DEF t
  <2> QED BY <1>3, <1>4, <1>10, <2>1, <2>5
<1> QED BY <1>11, <1>12

\* and a field that is there as an element, one that is not as nothing.
LEMMA FieldBegins ==
    ASSUME NEW condition \in BOOLEAN, NEW bytes, NEW blocks, NEW dtag,
           dtag \in Nat, dtag < Beyond, dtag # Dtag.Content, dtag # Dtag.ContentObject,
           condition => /\ bytes \in Seq(Octet) /\ IsSequence(blocks) /\ NoAttribute(blocks)
                        /\ Begins(bytes, blocks)
    PROVE  LET tree == Tree(Type.dtag, dtag, blocks)
           IN /\ Begins(If(condition, Element(dtag, bytes)), If(condition, <<tree>>))
              /\ IsSequence(If(condition, <<tree>>))
<1> DEFINE tree == Tree(Type.dtag, dtag, blocks)
<1>1. CASE condition
  <2>1. If(condition, Element(dtag, bytes)) = Element(dtag, bytes) /\ If(condition, <<tree>>) = <<tree>>
    BY <1>1 DEF If
  <2>2. Begins(Element(dtag, bytes), <<tree>>)
    BY <1>1, ElementBegins
  <2> QED BY <2>1, <2>2, OneBlock
<1>2. CASE ~condition
  <2>1. If(condition, Element(dtag, bytes)) = << >> /\ If(condition, <<tree>>) = << >>
    BY <1>2 DEF If
  <2> QED BY <2>1, OneBlock, BeginsNothing
<1> QED BY <1>1, <1>2

-----------------------------------------------------------------------------
(* Sequences of sequences, and an Interest as one *)

\* FlattenSeq joins from the left.
LEMMA FlattenFromEmpty ==
    ASSUME NEW U, NEW s \in Seq(Seq(U))
    PROVE  \E f : /\ f[0] = << >>
                  /\ \A n \in 1 .. Len(s) : f[n] = f[n - 1] \o s[n]
                  /\ \A n \in 0 .. Len(s) : f[n] \in Seq(U)
                  /\ FlattenSeq(s) = f[Len(s)]
<1> DEFINE N == Len(s)
<1>1. N \in Nat /\ \A n \in 1 .. N : s[n] \in Seq(U)
  OBVIOUS
<1>2. CASE N = 0
  <2> DEFINE f == [n \in 0 .. 0 |-> << >>]
  <2>1. FlattenSeq(s) = s /\ s = << >>
    BY <1>2, EmptySeq DEF FlattenSeq
  <2>2. f[0] = << >> /\ << >> \in Seq(U)
    OBVIOUS
  <2> HIDE DEF f
  <2>3. (\A n \in 1 .. N : FALSE) /\ \A n \in 0 .. N : n = 0
    BY <1>2
  <2>4. \A n \in 0 .. N : f[n] \in Seq(U)
    BY <2>2, <2>3
  <2>5. FlattenSeq(s) = f[N]
    BY <1>2, <2>1, <2>2
  <2> HIDE DEF N
  <2> QED BY <2>2, <2>3, <2>4, <2>5 DEF N
<1>3. CASE N # 0
  <2>1. PICK g : /\ g[1] = s[1]
                 /\ \A n \in 2 .. N : g[n] = g[n - 1] \o s[n]
                 /\ FlattenSeq(s) = g[N]
    BY <1>1, <1>3, FlattenLoop
  <2> DEFINE f == [n \in 0 .. N |-> IF n = 0 THEN << >> ELSE g[n]]
  <2>2. f[0] = << >> /\ (\A n \in 1 .. N : f[n] = g[n]) /\ 0 \in 0 .. N /\ N \in 1 .. N
    BY <1>1, <1>3
  <2> HIDE DEF f, N
  <2>3. \A n \in 1 .. N : s[n] = << >> \o s[n]
    BY <1>1, ConcatEmptySeq
  <2>4. ASSUME NEW n \in 1 .. N
        PROVE  f[n] = f[n - 1] \o s[n]
    <3>1. CASE n = 1
      <4>1. n - 1 = 0
        BY <3>1
      <4> QED BY <2>1, <2>2, <2>3, <3>1, <4>1
    <3>2. CASE n # 1
      <4>1. n \in 2 .. N /\ n - 1 \in 1 .. N
        BY <1>1, <3>2
      <4> QED BY <2>1, <2>2, <4>1
    <3> QED BY <3>1, <3>2
  <2> DEFINE T == {n \in 0 .. N : f[n] \in Seq(U)}
  <2>5. 0 \in T
    <3>1. << >> \in Seq(U)
      OBVIOUS
    <3> QED BY <2>2, <3>1
  <2>6. ASSUME NEW n \in 1 .. N, n - 1 \in T
        PROVE  n \in T
    <3> DEFINE a == f[n - 1]
               b == s[n]
    <3>1. a \in Seq(U) /\ b \in Seq(U) /\ f[n] = a \o b
      BY <1>1, <2>4, <2>6
    <3> HIDE DEF a, b
    <3>2. a \o b \in Seq(U)
      BY <3>1, ConcatProperties
    <3>3. n \in 0 .. N
      BY <1>1
    <3> QED BY <3>1, <3>2, <3>3
  <2>7. T = 0 .. N
    BY <1>1, <2>5, <2>6, UpToInduction
  <2>8. \A n \in 0 .. N : f[n] \in Seq(U)
    BY <2>7
  <2>9. FlattenSeq(s) = f[N]
    BY <2>1, <2>2
  <2> QED BY <2>2, <2>4, <2>8, <2>9 DEF N
<1> QED BY <1>2, <1>3

\* Or from the right.
LEMMA FlattenTail ==
    ASSUME NEW U, NEW s \in Seq(Seq(U))
    PROVE  \E r : /\ r[Len(s)] = << >>
                  /\ \A n \in 1 .. Len(s) : r[n - 1] = s[n] \o r[n]
                  /\ \A n \in 0 .. Len(s) : r[n] \in Seq(U)
                  /\ FlattenSeq(s) = r[0]
<1> DEFINE N == Len(s)
<1>1. N \in Nat /\ \A n \in 1 .. N : s[n] \in Seq(U)
  OBVIOUS
<1>2. PICK f : /\ f[0] = << >>
               /\ \A n \in 1 .. N : f[n] = f[n - 1] \o s[n]
               /\ \A n \in 0 .. N : f[n] \in Seq(U)
               /\ FlattenSeq(s) = f[N]
  BY FlattenFromEmpty
<1> HIDE DEF N
<1> DEFINE Right(r, m) == /\ r[N] = << >>
                          /\ \A n \in N + 1 - m .. N : r[n - 1] = s[n] \o r[n]
                          /\ \A n \in N - m .. N : r[n] \in Seq(U) /\ f[n] \o r[n] = f[N]
           T == {m \in 0 .. N : \E r : Right(r, m)}
<1>3. 0 \in T
  <2> DEFINE r == [n \in N .. N |-> << >>]
  <2>1. r[N] = << >> /\ << >> \in Seq(U) /\ f[N] \o << >> = f[N]
    BY <1>1, <1>2, ConcatEmptySeq
  <2> HIDE DEF r
  <2>2. N + 1 - 0 = N + 1 /\ N - 0 = N /\ (\A n \in N + 1 .. N : FALSE) /\ \A n \in N .. N : n = N
    BY <1>1
  <2>3. \A n \in N .. N : r[n] \in Seq(U) /\ f[n] \o r[n] = f[N]
    BY <2>1, <2>2
  <2>4. Right(r, 0)
    BY <2>1, <2>2, <2>3
  <2> HIDE DEF Right
  <2> QED BY <1>1, <2>4
<1>4. ASSUME NEW m \in 1 .. N, m - 1 \in T
      PROVE  m \in T
  <2>1. PICK q : Right(q, m - 1)
    BY <1>4
  <2> DEFINE k == N + 1 - m
             r == [n \in k - 1 .. N |-> IF n = k - 1 THEN s[k] \o q[k] ELSE q[n]]
  <2>2. k \in 1 .. N /\ N - (m - 1) = k /\ N + 1 - (m - 1) = k + 1 /\ N - m = k - 1
    BY <1>1
  <2> HIDE DEF k
  <2>3. \A n \in k .. N : r[n] = q[n]
    BY <2>2
  <2>4. r[k - 1] = s[k] \o q[k]
    <3> DEFINE j == k - 1
    <3>1. j \in j .. N
      BY <1>1, <2>2
    <3> HIDE DEF j
    <3>2. r = [n \in j .. N |-> IF n = j THEN s[k] \o q[k] ELSE q[n]]
      BY DEF j
    <3> HIDE DEF r
    <3>3. r[j] = s[k] \o q[k]
      BY <3>1, <3>2
    <3> QED BY <3>3 DEF j
  <2> HIDE DEF r
  <2>5. q[k] \in Seq(U) /\ f[k] \o q[k] = f[N] /\ q[N] = << >>
    <3>1. k \in N - (m - 1) .. N
      BY <2>2
    <3> QED BY <2>1, <3>1
  <2>6. f[k] = f[k - 1] \o s[k] /\ s[k] \in Seq(U) /\ f[k - 1] \in Seq(U)
    <3>1. k - 1 \in 0 .. N
      BY <1>1, <2>2
    <3> QED BY <1>1, <1>2, <2>2, <3>1
  <2>7. r[k - 1] \in Seq(U) /\ f[k - 1] \o r[k - 1] = f[N]
    <3> DEFINE a == f[k - 1]
               b == s[k]
               c == q[k]
    <3>1. a \in Seq(U) /\ b \in Seq(U) /\ c \in Seq(U) /\ (a \o b) \o c = f[N] /\ r[k - 1] = b \o c
      BY <2>4, <2>5, <2>6
    <3> HIDE DEF a, b, c
    <3>2. b \o c \in Seq(U)
      BY <3>1, ConcatProperties
    <3>3. (a \o b) \o c = a \o (b \o c)
      <4>1. IsSequence(a) /\ IsSequence(b) /\ IsSequence(c)
        BY <3>1 DEF IsSequence
      <4> QED BY <4>1, SequencesJoined
    <3> QED BY <3>1, <3>2, <3>3 DEF a
  <2>8. \A n \in N + 1 - m .. N : r[n - 1] = s[n] \o r[n]
    <3>1. ASSUME NEW n \in k .. N
          PROVE  r[n - 1] = s[n] \o r[n]
      <4>1. CASE n = k
        BY <2>2, <2>3, <2>4, <4>1
      <4>2. CASE n # k
        <5>1. n \in N + 1 - (m - 1) .. N /\ n - 1 \in k .. N
          BY <1>1, <2>2, <4>2
        <5>2. q[n - 1] = s[n] \o q[n]
          BY <2>1, <5>1
        <5> QED BY <2>3, <5>1, <5>2
      <4> QED BY <4>1, <4>2
    <3> QED BY <2>2, <3>1 DEF k
  <2>9. \A n \in N - m .. N : r[n] \in Seq(U) /\ f[n] \o r[n] = f[N]
    <3>1. ASSUME NEW n \in k - 1 .. N
          PROVE  r[n] \in Seq(U) /\ f[n] \o r[n] = f[N]
      <4>1. CASE n = k - 1
        BY <2>7, <4>1
      <4>2. CASE n # k - 1
        <5>1. n \in N - (m - 1) .. N /\ n \in k .. N
          BY <1>1, <2>2, <4>2
        <5> QED BY <2>1, <2>3, <5>1
      <4> QED BY <4>1, <4>2
    <3> QED BY <2>2, <3>1
  <2>10. r[N] = << >>
    <3>1. N \in k .. N
      BY <1>1, <2>2
    <3> QED BY <2>3, <2>5, <3>1
  <2>11. Right(r, m)
    BY <2>8, <2>9, <2>10
  <2> HIDE DEF Right
  <2> QED BY <2>11
<1>5. T = 0 .. N
  <2> HIDE DEF Right
  <2> QED BY <1>1, <1>3, <1>4, UpToInduction
<1>6. PICK r : Right(r, N)
  <2>1. N \in T
    <3> HIDE DEF T
    <3> QED BY <1>1, <1>5
  <2> HIDE DEF Right
  <2> QED BY <2>1
<1>7. N + 1 - N = 1 /\ N - N = 0 /\ 0 \in 0 .. N
  BY <1>1
<1>8. /\ r[N] = << >> /\ \A n \in 1 .. N : r[n - 1] = s[n] \o r[n]
      /\ \A n \in 0 .. N : r[n] \in Seq(U) /\ f[n] \o r[n] = f[N]
  BY <1>6, <1>7
<1>9. << >> \o r[0] = r[0]
  <2> DEFINE x == r[0]
  <2>1. x \in Seq(U)
    BY <1>7, <1>8
  <2> HIDE DEF x
  <2>2. << >> \o x = x
    BY <2>1, ConcatEmptySeq
  <2> QED BY <2>2 DEF x
<1>10. FlattenSeq(s) = r[0]
  BY <1>2, <1>7, <1>8, <1>9
<1> QED BY <1>8, <1>10 DEF N

-----------------------------------------------------------------------------
(* An Interest as a list of fields. *)

\* Headers of Interests, and their fields as they are written.
HeadersNamed(names) ==
    [kind : {"interest"}, name : names, minSuffix : Int, maxSuffix : Int,
     exclude : Seq(Seq(Octet)), childSelector : BOOLEAN, answerOriginKind : BOOLEAN, scope : Int,
     lifetime : Int, nonce : {n \in Seq(Octet) : Len(n) = 4}, nack : Int]

InterestHeaders == HeadersNamed(Seq(Seq(Octet)))

\* Headers that are read, which may have no name.
ReadHeaders == HeadersNamed(Seq(Seq(Octet)) \cup {NoName})

Parts(h) ==
    <<Element(Dtag.Name, AppendNameComponents(h.name)),
      If(h.minSuffix >= 0, Element(Dtag.MinSuffixComponents, AppendNumber(h.minSuffix))),
      If(h.maxSuffix >= 0, Element(Dtag.MaxSuffixComponents, AppendNumber(h.maxSuffix))),
      If(h.exclude # << >>, Element(Dtag.Exclude, AppendNameComponents(h.exclude))),
      If(h.childSelector, Element(Dtag.ChildSelector, AppendNumber(1))),
      If(h.answerOriginKind, Element(Dtag.AnswerOriginKind, AppendNumber(1))),
      If(h.scope >= 0, Element(Dtag.Scope, AppendNumber(h.scope))),
      If(h.lifetime # 0, Element(Dtag.InterestLifetime, AppendTimestampBlob(h.lifetime))),
      If(h.nonce # <<0, 0, 0, 0>>, AppendTaggedBlob(Dtag.Nonce, h.nonce)),
      If(h.nack > 0, Element(Dtag.Nack, AppendNumber(h.nack)))>>

\* And what the parser makes of each.
Trees(h) ==
    <<<<Tree(Type.dtag, Dtag.Name, NameTrees(h.name))>>,
      If(h.minSuffix >= 0, <<Tree(Type.dtag, Dtag.MinSuffixComponents, <<Leaf(Type.udata, Digits(h.minSuffix))>>)>>),
      If(h.maxSuffix >= 0, <<Tree(Type.dtag, Dtag.MaxSuffixComponents, <<Leaf(Type.udata, Digits(h.maxSuffix))>>)>>),
      If(h.exclude # << >>, <<Tree(Type.dtag, Dtag.Exclude, NameTrees(h.exclude))>>),
      If(h.childSelector, <<Tree(Type.dtag, Dtag.ChildSelector, <<Leaf(Type.udata, Digits(1))>>)>>),
      If(h.answerOriginKind, <<Tree(Type.dtag, Dtag.AnswerOriginKind, <<Leaf(Type.udata, Digits(1))>>)>>),
      If(h.scope >= 0, <<Tree(Type.dtag, Dtag.Scope, <<Leaf(Type.udata, Digits(h.scope))>>)>>),
      If(h.lifetime # 0, <<Tree(Type.dtag, Dtag.InterestLifetime, <<Leaf(Type.blob, TimeBytes(h.lifetime))>>)>>),
      If(h.nonce # <<0, 0, 0, 0>>, <<Tree(Type.dtag, Dtag.Nonce, BlobTrees(h.nonce))>>),
      If(h.nack > 0, <<Tree(Type.dtag, Dtag.Nack, <<Leaf(Type.udata, Digits(h.nack))>>)>>)>>

\* A field that takes no more blocks than bytes, and is read.
PartGood(bytes, trees) ==
    /\ bytes \in Seq(Octet) /\ Begins(bytes, trees)
    /\ IsSequence(trees) /\ (trees = << >> \/ Len(trees) = 1) /\ Len(trees) <= Len(bytes)

\* A field is written and read.
LEMMA FieldGood ==
    ASSUME NEW condition \in BOOLEAN, NEW bytes, NEW blocks, NEW dtag \in Nat,
           dtag < Beyond, dtag # Dtag.Content, dtag # Dtag.ContentObject,
           condition => /\ bytes \in Seq(Octet) /\ IsSequence(blocks) /\ NoAttribute(blocks)
                        /\ Begins(bytes, blocks)
    PROVE  PartGood(If(condition, Element(dtag, bytes)), If(condition, <<Tree(Type.dtag, dtag, blocks)>>))
<1> DEFINE tree == Tree(Type.dtag, dtag, blocks)
           el == Element(dtag, bytes)
<1>1. Begins(If(condition, el), If(condition, <<tree>>)) /\ IsSequence(If(condition, <<tree>>))
  BY FieldBegins
<1>2. CASE condition
  <2>1. If(condition, el) = el /\ If(condition, <<tree>>) = <<tree>>
    BY <1>2 DEF If
  <2>2. el \in Seq(Octet) /\ Len(el) >= 1
    <3>1. el \in Seq(Octet) /\ Len(el) = EstimateBlockHeader(dtag) + Len(bytes) + 1
          /\ EstimateBlockHeader(dtag) \in Nat /\ Len(bytes) \in Nat
      BY <1>2, ElementWritten
    <3> QED BY <3>1
  <2>3. Len(<<tree>>) = 1
    OBVIOUS
  <2> HIDE DEF el, tree
  <2> QED BY <1>1, <2>1, <2>2, <2>3 DEF PartGood, el, tree
<1>3. CASE ~condition
  <2>1. If(condition, el) = << >> /\ If(condition, <<tree>>) = << >>
    BY <1>3 DEF If
  <2>2. << >> \in Seq(Octet) /\ Len(<< >>) <= Len(<< >>)
    OBVIOUS
  <2> HIDE DEF el, tree
  <2> QED BY <1>1, <2>1, <2>2 DEF PartGood, el, tree
<1> QED BY <1>2, <1>3

\* Text is no attribute.
LEMMA NoLeafAttribute ==
    \A data : ~IsAttribute(Leaf(Type.udata, data)) /\ ~IsAttribute(Leaf(Type.blob, data))
  BY TypeValues DEF Leaf, IsAttribute

\* A field with a number is written and read.
LEMMA NumberGood ==
    ASSUME NEW condition \in BOOLEAN, NEW n, condition => n \in Nat, NEW dtag \in Nat,
           dtag < Beyond, dtag # Dtag.Content, dtag # Dtag.ContentObject
    PROVE  PartGood(If(condition, Element(dtag, AppendNumber(n))),
                    If(condition, <<Tree(Type.dtag, dtag, <<Leaf(Type.udata, Digits(n))>>)>>))
<1> DEFINE block == Leaf(Type.udata, Digits(n))
<1>1. IsSequence(<<block>>) /\ NoAttribute(<<block>>)
  BY OneBlock, NoLeafAttribute
<1>2. condition => AppendNumber(n) \in Seq(Octet) /\ Begins(AppendNumber(n), <<block>>)
  BY NumberWritten, NumberBegins
<1> HIDE DEF block
<1>3. PartGood(If(condition, Element(dtag, AppendNumber(n))), If(condition, <<Tree(Type.dtag, dtag, <<block>>)>>))
  BY <1>1, <1>2, FieldGood
<1> QED BY <1>3 DEF block

\* The dtags fit into a header.
LEMMA KnownDtags ==
    /\ \A dtag \in 0 .. 300 : dtag \in Nat /\ dtag < Beyond
    /\ Dtag.Content = 19 /\ Dtag.ContentObject = 64
<1>1. 4096 * 4096 > 300
  OBVIOUS
<1> QED BY <1>1, DtagValues DEF Beyond

\* Every field of an Interest is written and read.
LEMMA PartsGood ==
    ASSUME NEW h \in InterestHeaders
    PROVE  \A k \in 1 .. 10 : PartGood(Parts(h)[k], Trees(h)[k])
<1>0. /\ h.name \in Seq(Seq(Octet)) /\ h.exclude \in Seq(Seq(Octet))
      /\ h.minSuffix \in Int /\ h.maxSuffix \in Int /\ h.scope \in Int /\ h.nack \in Int
      /\ h.childSelector \in BOOLEAN /\ h.answerOriginKind \in BOOLEAN
      /\ h.lifetime \in Int /\ h.nonce \in Seq(Octet)
  BY DEF InterestHeaders, HeadersNamed
<1>1. PartGood(Parts(h)[1], Trees(h)[1])
  <2>1. Dtag.Name \in Nat /\ Dtag.Name < Beyond /\ Dtag.Name # Dtag.Content /\ Dtag.Name # Dtag.ContentObject
    BY KnownDtags, DtagValues
  <2>2. AppendNameComponents(h.name) \in Seq(Octet)
    BY <1>0, NameWritten
  <2>3. Begins(AppendNameComponents(h.name), NameTrees(h.name)) /\ IsSequence(NameTrees(h.name)) /\ NoAttribute(NameTrees(h.name))
    BY <1>0, NameBegins
  <2>4. PartGood(If(TRUE, Element(Dtag.Name, AppendNameComponents(h.name))), If(TRUE, <<Tree(Type.dtag, Dtag.Name, NameTrees(h.name))>>))
    BY <2>1, <2>2, <2>3, FieldGood
  <2>5. If(TRUE, Element(Dtag.Name, AppendNameComponents(h.name))) = Element(Dtag.Name, AppendNameComponents(h.name)) /\ If(TRUE, <<Tree(Type.dtag, Dtag.Name, NameTrees(h.name))>>) = <<Tree(Type.dtag, Dtag.Name, NameTrees(h.name))>>
    BY DEF If
  <2>6. Parts(h)[1] = Element(Dtag.Name, AppendNameComponents(h.name)) /\ Trees(h)[1] = <<Tree(Type.dtag, Dtag.Name, NameTrees(h.name))>>
    BY DEF Parts, Trees
  <2> QED BY <2>4, <2>5, <2>6
<1>2. PartGood(Parts(h)[2], Trees(h)[2])
  <2>1. Dtag.MinSuffixComponents \in Nat /\ Dtag.MinSuffixComponents < Beyond /\ Dtag.MinSuffixComponents # Dtag.Content /\ Dtag.MinSuffixComponents # Dtag.ContentObject
    BY KnownDtags, DtagValues
  <2>2. (h.minSuffix >= 0) \in BOOLEAN /\ (h.minSuffix >= 0 => h.minSuffix \in Nat)
    BY <1>0
  <2>3. PartGood(If(h.minSuffix >= 0, Element(Dtag.MinSuffixComponents, AppendNumber(h.minSuffix))), If(h.minSuffix >= 0, <<Tree(Type.dtag, Dtag.MinSuffixComponents, <<Leaf(Type.udata, Digits(h.minSuffix))>>)>>))
    BY <2>1, <2>2, NumberGood
  <2>9. Parts(h)[2] = If(h.minSuffix >= 0, Element(Dtag.MinSuffixComponents, AppendNumber(h.minSuffix))) /\ Trees(h)[2] = If(h.minSuffix >= 0, <<Tree(Type.dtag, Dtag.MinSuffixComponents, <<Leaf(Type.udata, Digits(h.minSuffix))>>)>>)
    BY DEF Parts, Trees
  <2> QED BY <2>3, <2>9
<1>3. PartGood(Parts(h)[3], Trees(h)[3])
  <2>1. Dtag.MaxSuffixComponents \in Nat /\ Dtag.MaxSuffixComponents < Beyond /\ Dtag.MaxSuffixComponents # Dtag.Content /\ Dtag.MaxSuffixComponents # Dtag.ContentObject
    BY KnownDtags, DtagValues
  <2>2. (h.maxSuffix >= 0) \in BOOLEAN /\ (h.maxSuffix >= 0 => h.maxSuffix \in Nat)
    BY <1>0
  <2>3. PartGood(If(h.maxSuffix >= 0, Element(Dtag.MaxSuffixComponents, AppendNumber(h.maxSuffix))), If(h.maxSuffix >= 0, <<Tree(Type.dtag, Dtag.MaxSuffixComponents, <<Leaf(Type.udata, Digits(h.maxSuffix))>>)>>))
    BY <2>1, <2>2, NumberGood
  <2>9. Parts(h)[3] = If(h.maxSuffix >= 0, Element(Dtag.MaxSuffixComponents, AppendNumber(h.maxSuffix))) /\ Trees(h)[3] = If(h.maxSuffix >= 0, <<Tree(Type.dtag, Dtag.MaxSuffixComponents, <<Leaf(Type.udata, Digits(h.maxSuffix))>>)>>)
    BY DEF Parts, Trees
  <2> QED BY <2>3, <2>9
<1>4. PartGood(Parts(h)[4], Trees(h)[4])
  <2>1. Dtag.Exclude \in Nat /\ Dtag.Exclude < Beyond /\ Dtag.Exclude # Dtag.Content /\ Dtag.Exclude # Dtag.ContentObject
    BY KnownDtags, DtagValues
  <2>2. AppendNameComponents(h.exclude) \in Seq(Octet)
    BY <1>0, NameWritten
  <2>4. Begins(AppendNameComponents(h.exclude), NameTrees(h.exclude)) /\ IsSequence(NameTrees(h.exclude)) /\ NoAttribute(NameTrees(h.exclude))
    BY <1>0, NameBegins
  <2>5. (h.exclude # << >>) \in BOOLEAN
    OBVIOUS
  <2>3. PartGood(If(h.exclude # << >>, Element(Dtag.Exclude, AppendNameComponents(h.exclude))), If(h.exclude # << >>, <<Tree(Type.dtag, Dtag.Exclude, NameTrees(h.exclude))>>))
    BY <2>1, <2>2, <2>4, <2>5, FieldGood
  <2>9. Parts(h)[4] = If(h.exclude # << >>, Element(Dtag.Exclude, AppendNameComponents(h.exclude))) /\ Trees(h)[4] = If(h.exclude # << >>, <<Tree(Type.dtag, Dtag.Exclude, NameTrees(h.exclude))>>)
    BY DEF Parts, Trees
  <2> QED BY <2>3, <2>9
<1>5. PartGood(Parts(h)[5], Trees(h)[5])
  <2>1. Dtag.ChildSelector \in Nat /\ Dtag.ChildSelector < Beyond /\ Dtag.ChildSelector # Dtag.Content /\ Dtag.ChildSelector # Dtag.ContentObject
    BY KnownDtags, DtagValues
  <2>2. (h.childSelector) \in BOOLEAN /\ (h.childSelector => 1 \in Nat)
    BY <1>0
  <2>3. PartGood(If(h.childSelector, Element(Dtag.ChildSelector, AppendNumber(1))), If(h.childSelector, <<Tree(Type.dtag, Dtag.ChildSelector, <<Leaf(Type.udata, Digits(1))>>)>>))
    BY <2>1, <2>2, NumberGood
  <2>9. Parts(h)[5] = If(h.childSelector, Element(Dtag.ChildSelector, AppendNumber(1))) /\ Trees(h)[5] = If(h.childSelector, <<Tree(Type.dtag, Dtag.ChildSelector, <<Leaf(Type.udata, Digits(1))>>)>>)
    BY DEF Parts, Trees
  <2> QED BY <2>3, <2>9
<1>6. PartGood(Parts(h)[6], Trees(h)[6])
  <2>1. Dtag.AnswerOriginKind \in Nat /\ Dtag.AnswerOriginKind < Beyond /\ Dtag.AnswerOriginKind # Dtag.Content /\ Dtag.AnswerOriginKind # Dtag.ContentObject
    BY KnownDtags, DtagValues
  <2>2. (h.answerOriginKind) \in BOOLEAN /\ (h.answerOriginKind => 1 \in Nat)
    BY <1>0
  <2>3. PartGood(If(h.answerOriginKind, Element(Dtag.AnswerOriginKind, AppendNumber(1))), If(h.answerOriginKind, <<Tree(Type.dtag, Dtag.AnswerOriginKind, <<Leaf(Type.udata, Digits(1))>>)>>))
    BY <2>1, <2>2, NumberGood
  <2>9. Parts(h)[6] = If(h.answerOriginKind, Element(Dtag.AnswerOriginKind, AppendNumber(1))) /\ Trees(h)[6] = If(h.answerOriginKind, <<Tree(Type.dtag, Dtag.AnswerOriginKind, <<Leaf(Type.udata, Digits(1))>>)>>)
    BY DEF Parts, Trees
  <2> QED BY <2>3, <2>9
<1>7. PartGood(Parts(h)[7], Trees(h)[7])
  <2>1. Dtag.Scope \in Nat /\ Dtag.Scope < Beyond /\ Dtag.Scope # Dtag.Content /\ Dtag.Scope # Dtag.ContentObject
    BY KnownDtags, DtagValues
  <2>2. (h.scope >= 0) \in BOOLEAN /\ (h.scope >= 0 => h.scope \in Nat)
    BY <1>0
  <2>3. PartGood(If(h.scope >= 0, Element(Dtag.Scope, AppendNumber(h.scope))), If(h.scope >= 0, <<Tree(Type.dtag, Dtag.Scope, <<Leaf(Type.udata, Digits(h.scope))>>)>>))
    BY <2>1, <2>2, NumberGood
  <2>9. Parts(h)[7] = If(h.scope >= 0, Element(Dtag.Scope, AppendNumber(h.scope))) /\ Trees(h)[7] = If(h.scope >= 0, <<Tree(Type.dtag, Dtag.Scope, <<Leaf(Type.udata, Digits(h.scope))>>)>>)
    BY DEF Parts, Trees
  <2> QED BY <2>3, <2>9
<1>8. PartGood(Parts(h)[8], Trees(h)[8])
  <2>1. Dtag.InterestLifetime \in Nat /\ Dtag.InterestLifetime < Beyond /\ Dtag.InterestLifetime # Dtag.Content /\ Dtag.InterestLifetime # Dtag.ContentObject
    BY KnownDtags, DtagValues
  <2>2. AppendTimestampBlob(h.lifetime) \in Seq(Octet) /\ Begins(AppendTimestampBlob(h.lifetime), <<Leaf(Type.blob, TimeBytes(h.lifetime))>>)
    BY <1>0, TimestampWritten, TimeBegins
  <2>4. IsSequence(<<Leaf(Type.blob, TimeBytes(h.lifetime))>>) /\ NoAttribute(<<Leaf(Type.blob, TimeBytes(h.lifetime))>>)
    BY OneBlock, NoLeafAttribute
  <2>5. (h.lifetime # 0) \in BOOLEAN
    OBVIOUS
  <2>3. PartGood(If(h.lifetime # 0, Element(Dtag.InterestLifetime, AppendTimestampBlob(h.lifetime))), If(h.lifetime # 0, <<Tree(Type.dtag, Dtag.InterestLifetime, <<Leaf(Type.blob, TimeBytes(h.lifetime))>>)>>))
    BY <2>1, <2>2, <2>4, <2>5, FieldGood
  <2>9. Parts(h)[8] = If(h.lifetime # 0, Element(Dtag.InterestLifetime, AppendTimestampBlob(h.lifetime))) /\ Trees(h)[8] = If(h.lifetime # 0, <<Tree(Type.dtag, Dtag.InterestLifetime, <<Leaf(Type.blob, TimeBytes(h.lifetime))>>)>>)
    BY DEF Parts, Trees
  <2> QED BY <2>3, <2>9
<1>9. PartGood(Parts(h)[9], Trees(h)[9])
  <2>1. Dtag.Nonce \in Nat /\ Dtag.Nonce < Beyond /\ Dtag.Nonce # Dtag.Content /\ Dtag.Nonce # Dtag.ContentObject
    BY KnownDtags, DtagValues
  <2> DEFINE data == h.nonce
             bytes == If(data # << >>, AppendBlockHeader(Len(data), Type.blob) \o data)
  <2>2. bytes \in Seq(Octet) /\ Begins(bytes, BlobTrees(h.nonce)) /\ IsSequence(BlobTrees(h.nonce)) /\ NoAttribute(BlobTrees(h.nonce))
    BY <1>0, BlobBegins
  <2>4. AppendTaggedBlob(Dtag.Nonce, h.nonce) = Element(Dtag.Nonce, bytes)
    BY DEF AppendTaggedBlob, Element
  <2> HIDE DEF bytes
  <2>5. (h.nonce # <<0, 0, 0, 0>>) \in BOOLEAN
    OBVIOUS
  <2>6. PartGood(If(h.nonce # <<0, 0, 0, 0>>, Element(Dtag.Nonce, bytes)), If(h.nonce # <<0, 0, 0, 0>>, <<Tree(Type.dtag, Dtag.Nonce, BlobTrees(h.nonce))>>))
    BY <2>1, <2>2, <2>5, FieldGood
  <2>3. PartGood(If(h.nonce # <<0, 0, 0, 0>>, AppendTaggedBlob(Dtag.Nonce, h.nonce)), If(h.nonce # <<0, 0, 0, 0>>, <<Tree(Type.dtag, Dtag.Nonce, BlobTrees(h.nonce))>>))
    BY <2>4, <2>6
  <2>9. Parts(h)[9] = If(h.nonce # <<0, 0, 0, 0>>, AppendTaggedBlob(Dtag.Nonce, h.nonce)) /\ Trees(h)[9] = If(h.nonce # <<0, 0, 0, 0>>, <<Tree(Type.dtag, Dtag.Nonce, BlobTrees(h.nonce))>>)
    BY DEF Parts, Trees
  <2> QED BY <2>3, <2>9
<1>10. PartGood(Parts(h)[10], Trees(h)[10])
  <2>1. Dtag.Nack \in Nat /\ Dtag.Nack < Beyond /\ Dtag.Nack # Dtag.Content /\ Dtag.Nack # Dtag.ContentObject
    BY KnownDtags, DtagValues
  <2>2. (h.nack > 0) \in BOOLEAN /\ (h.nack > 0 => h.nack \in Nat)
    BY <1>0
  <2>3. PartGood(If(h.nack > 0, Element(Dtag.Nack, AppendNumber(h.nack))), If(h.nack > 0, <<Tree(Type.dtag, Dtag.Nack, <<Leaf(Type.udata, Digits(h.nack))>>)>>))
    BY <2>1, <2>2, NumberGood
  <2>9. Parts(h)[10] = If(h.nack > 0, Element(Dtag.Nack, AppendNumber(h.nack))) /\ Trees(h)[10] = If(h.nack > 0, <<Tree(Type.dtag, Dtag.Nack, <<Leaf(Type.udata, Digits(h.nack))>>)>>)
    BY DEF Parts, Trees
  <2> QED BY <2>3, <2>9
<1>11. \A k \in 1 .. 10 : k = 1 \/ k = 2 \/ k = 3 \/ k = 4 \/ k = 5 \/ k = 6 \/ k = 7 \/ k = 8 \/ k = 9 \/ k = 10
  OBVIOUS
<1> QED BY <1>1, <1>2, <1>3, <1>4, <1>5, <1>6, <1>7, <1>8, <1>9, <1>10, <1>11

\* Functions on an interval from one are sequences.
LEMMA SequenceOf ==
    ASSUME NEW n \in Nat, NEW S, NEW s \in [1 .. n -> S]
    PROVE  s \in Seq(S) /\ Len(s) = n
  OBVIOUS

\* A sequence is one of the set its elements are in.
LEMMA ElementsIn ==
    ASSUME NEW S, NEW s \in Seq(S), NEW U, \A i \in 1 .. Len(s) : s[i] \in U
    PROVE  s \in Seq(U)
<1>1. Len(s) \in Nat /\ s \in [1 .. Len(s) -> U]
  OBVIOUS
<1> QED BY <1>1, SequenceOf

\* There are ten fields.
LEMMA PartsAndTrees ==
    ASSUME NEW h \in InterestHeaders
    PROVE  /\ Parts(h) \in Seq(Seq(Octet)) /\ Len(Parts(h)) = 10
           /\ \E U : Trees(h) \in Seq(Seq(U)) /\ Len(Trees(h)) = 10
<1> DEFINE p == Parts(h)
           t == Trees(h)
           U == {t[k][1] : k \in 1 .. 10}
<1>1. /\ p \in [1 .. 10 -> {p[k] : k \in 1 .. 10}] /\ Len(p) = 10
      /\ t \in [1 .. 10 -> {t[k] : k \in 1 .. 10}] /\ Len(t) = 10
  BY DEF Parts, Trees
<1>2. \A k \in 1 .. 10 : PartGood(p[k], t[k])
  BY PartsGood
<1> HIDE DEF p, t
<1>3. ASSUME NEW k \in 1 .. 10
      PROVE  p[k] \in Seq(Octet) /\ t[k] \in Seq(U)
  <2>1. p[k] \in Seq(Octet) /\ IsSequence(t[k]) /\ (t[k] = << >> \/ Len(t[k]) = 1)
    BY <1>2 DEF PartGood
  <2>2. CASE t[k] = << >>
    BY <2>1, <2>2
  <2>3. CASE Len(t[k]) = 1
    <3> DEFINE s == t[k]
    <3>1. PICK S : s \in Seq(S)
      BY <2>1 DEF IsSequence
    <3>2. s[1] \in U
      OBVIOUS
    <3> HIDE DEF U, s
    <3>3. \A i \in 1 .. Len(s) : s[i] \in U
      <4>1. \A i \in 1 .. Len(s) : i = 1
        BY <2>3 DEF s
      <4> QED BY <3>2, <4>1
    <3>4. s \in Seq(U)
      BY <3>1, <3>3, ElementsIn
    <3> QED BY <2>1, <3>4 DEF s
  <2> QED BY <2>1, <2>2, <2>3
<1> HIDE DEF U
<1>4. p \in Seq(Seq(Octet)) /\ t \in Seq(Seq(U))
  <2>1. p \in [1 .. 10 -> Seq(Octet)] /\ t \in [1 .. 10 -> Seq(U)]
    BY <1>1, <1>3
  <2> DEFINE n == 10
  <2>2. n \in Nat /\ p \in [1 .. n -> Seq(Octet)] /\ t \in [1 .. n -> Seq(U)]
    BY <2>1
  <2> HIDE DEF n
  <2> QED BY <2>2, SequenceOf
<1> QED BY <1>1, <1>4 DEF p, t

\* The fields of an Interest are all of what its element encloses.
LEMMA InterestWritten ==
    ASSUME NEW h \in InterestHeaders
    PROVE  /\ SerializeInterest(h) = Element(Dtag.Interest, FlattenSeq(Parts(h)))
           /\ FlattenSeq(Parts(h)) \in Seq(Octet)
<1> DEFINE p == Parts(h)
           a == AppendBlockHeader(Dtag.Interest, Type.dtag)
           p1 == Element(Dtag.Name, AppendNameComponents(h.name))
           p2 == If(h.minSuffix >= 0, Element(Dtag.MinSuffixComponents, AppendNumber(h.minSuffix)))
           p3 == If(h.maxSuffix >= 0, Element(Dtag.MaxSuffixComponents, AppendNumber(h.maxSuffix)))
           p4 == If(h.exclude # << >>, Element(Dtag.Exclude, AppendNameComponents(h.exclude)))
           p5 == If(h.childSelector, Element(Dtag.ChildSelector, AppendNumber(1)))
           p6 == If(h.answerOriginKind, Element(Dtag.AnswerOriginKind, AppendNumber(1)))
           p7 == If(h.scope >= 0, Element(Dtag.Scope, AppendNumber(h.scope)))
           p8 == If(h.lifetime # 0, Element(Dtag.InterestLifetime, AppendTimestampBlob(h.lifetime)))
           p9 == If(h.nonce # <<0, 0, 0, 0>>, AppendTaggedBlob(Dtag.Nonce, h.nonce))
           p10 == If(h.nack > 0, Element(Dtag.Nack, AppendNumber(h.nack)))
<1>1. PICK f : /\ f[0] = << >>
               /\ \A n \in 1 .. 10 : f[n] = f[n - 1] \o p[n]
               /\ \A n \in 0 .. 10 : f[n] \in Seq(Octet)
               /\ FlattenSeq(p) = f[10]
  <2>1. p \in Seq(Seq(Octet)) /\ Len(p) = 10
    BY PartsAndTrees
  <2> HIDE DEF p
  <2>2. \E f : /\ f[0] = << >>
               /\ \A n \in 1 .. Len(p) : f[n] = f[n - 1] \o p[n]
               /\ \A n \in 0 .. Len(p) : f[n] \in Seq(Octet)
               /\ FlattenSeq(p) = f[Len(p)]
    BY <2>1, FlattenFromEmpty
  <2> QED BY <2>1, <2>2
<1>2. /\ p[1] = p1 /\ p1 \in Seq(Octet)
      /\ p[2] = p2 /\ p2 \in Seq(Octet)
      /\ p[3] = p3 /\ p3 \in Seq(Octet)
      /\ p[4] = p4 /\ p4 \in Seq(Octet)
      /\ p[5] = p5 /\ p5 \in Seq(Octet)
      /\ p[6] = p6 /\ p6 \in Seq(Octet)
      /\ p[7] = p7 /\ p7 \in Seq(Octet)
      /\ p[8] = p8 /\ p8 \in Seq(Octet)
      /\ p[9] = p9 /\ p9 \in Seq(Octet)
      /\ p[10] = p10 /\ p10 \in Seq(Octet)
  <2>1. /\ p[1] = p1
        /\ p[2] = p2
        /\ p[3] = p3
        /\ p[4] = p4
        /\ p[5] = p5
        /\ p[6] = p6
        /\ p[7] = p7
        /\ p[8] = p8
        /\ p[9] = p9
        /\ p[10] = p10
    BY DEF Parts
  <2>2. \A k \in 1 .. 10 : p[k] \in Seq(Octet)
    BY PartsGood DEF PartGood
  <2> HIDE DEF p, p1, p2, p3, p4, p5, p6, p7, p8, p9, p10
  <2>11. p1 \in Seq(Octet)
    <3>1. p[1] \in Seq(Octet)
      BY <2>2
    <3> QED BY <2>1, <3>1
  <2>12. p2 \in Seq(Octet)
    <3>1. p[2] \in Seq(Octet)
      BY <2>2
    <3> QED BY <2>1, <3>1
  <2>13. p3 \in Seq(Octet)
    <3>1. p[3] \in Seq(Octet)
      BY <2>2
    <3> QED BY <2>1, <3>1
  <2>14. p4 \in Seq(Octet)
    <3>1. p[4] \in Seq(Octet)
      BY <2>2
    <3> QED BY <2>1, <3>1
  <2>15. p5 \in Seq(Octet)
    <3>1. p[5] \in Seq(Octet)
      BY <2>2
    <3> QED BY <2>1, <3>1
  <2>16. p6 \in Seq(Octet)
    <3>1. p[6] \in Seq(Octet)
      BY <2>2
    <3> QED BY <2>1, <3>1
  <2>17. p7 \in Seq(Octet)
    <3>1. p[7] \in Seq(Octet)
      BY <2>2
    <3> QED BY <2>1, <3>1
  <2>18. p8 \in Seq(Octet)
    <3>1. p[8] \in Seq(Octet)
      BY <2>2
    <3> QED BY <2>1, <3>1
  <2>19. p9 \in Seq(Octet)
    <3>1. p[9] \in Seq(Octet)
      BY <2>2
    <3> QED BY <2>1, <3>1
  <2>20. p10 \in Seq(Octet)
    <3>1. p[10] \in Seq(Octet)
      BY <2>2
    <3> QED BY <2>1, <3>1
  <2> QED BY <2>1, <2>11, <2>12, <2>13, <2>14, <2>15, <2>16, <2>17, <2>18, <2>19, <2>20
<1>3. a \in Seq(Octet)
  <2>1. Type.dtag \in 0 .. 6 /\ Dtag.Interest \in Nat
    BY TypeValues, DtagValues
  <2> QED BY <2>1, HeaderType
<1>4. SerializeInterest(h) = (((((((((((a \o p1)  \o p2)  \o p3)  \o p4)  \o p5)  \o p6)  \o p7)  \o p8)  \o p9)  \o p10) \o <<Close>>)
  BY DEF SerializeInterest
<1> HIDE DEF a, p, p1, p2, p3, p4, p5, p6, p7, p8, p9, p10
<1>5. ASSUME NEW n \in 1 .. 10, NEW m, m = n - 1
      PROVE  (a \o f[m]) \o p[n] = a \o f[n]
  <2> DEFINE x == f[m]
             y == p[n]
  <2>0. m \in 0 .. 10
    BY <1>5
  <2>1. m \in 0 .. 10 /\ f[n] = x \o y
    <3>1. f[n] = f[n - 1] \o p[n]
      BY <1>1
    <3> QED BY <1>5, <2>0, <3>1
  <2>2. x \in Seq(Octet)
    BY <1>1, <2>1
  <2>3. y \in Seq(Octet)
    <3>1. \A k \in 1 .. 10 : p[k] \in Seq(Octet)
      BY PartsGood DEF PartGood, p
    <3> QED BY <3>1
  <2> HIDE DEF x, y
  <2>4. IsSequence(a) /\ IsSequence(x) /\ IsSequence(y)
    BY <1>3, <2>2, <2>3 DEF IsSequence
  <2>5. (a \o x) \o y = a \o (x \o y)
    BY <2>4, SequencesJoined
  <2> QED BY <2>1, <2>5 DEF x, y
<1>6. a \o f[0] = a
  BY <1>1, <1>3
<1> DEFINE y1 == a \o p1
           y2 == y1 \o p2
           y3 == y2 \o p3
           y4 == y3 \o p4
           y5 == y4 \o p5
           y6 == y5 \o p6
           y7 == y6 \o p7
           y8 == y7 \o p8
           y9 == y8 \o p9
           y10 == y9 \o p10
<1>11. y1 = a \o f[1]
  <2>1. 1 \in 1 .. 10 /\ 0 = 1 - 1
    OBVIOUS
  <2>2. (a \o f[0]) \o p[1] = a \o f[1]
    BY <1>5, <2>1
  <2> QED BY <1>2, <1>6, <2>2
<1> HIDE DEF y1
<1>12. y2 = a \o f[2]
  <2>1. 2 \in 1 .. 10 /\ 1 = 2 - 1
    OBVIOUS
  <2>2. (a \o f[1]) \o p[2] = a \o f[2]
    BY <1>5, <2>1
  <2> QED BY <1>2, <1>11, <2>2
<1> HIDE DEF y2
<1>13. y3 = a \o f[3]
  <2>1. 3 \in 1 .. 10 /\ 2 = 3 - 1
    OBVIOUS
  <2>2. (a \o f[2]) \o p[3] = a \o f[3]
    BY <1>5, <2>1
  <2> QED BY <1>2, <1>12, <2>2
<1> HIDE DEF y3
<1>14. y4 = a \o f[4]
  <2>1. 4 \in 1 .. 10 /\ 3 = 4 - 1
    OBVIOUS
  <2>2. (a \o f[3]) \o p[4] = a \o f[4]
    BY <1>5, <2>1
  <2> QED BY <1>2, <1>13, <2>2
<1> HIDE DEF y4
<1>15. y5 = a \o f[5]
  <2>1. 5 \in 1 .. 10 /\ 4 = 5 - 1
    OBVIOUS
  <2>2. (a \o f[4]) \o p[5] = a \o f[5]
    BY <1>5, <2>1
  <2> QED BY <1>2, <1>14, <2>2
<1> HIDE DEF y5
<1>16. y6 = a \o f[6]
  <2>1. 6 \in 1 .. 10 /\ 5 = 6 - 1
    OBVIOUS
  <2>2. (a \o f[5]) \o p[6] = a \o f[6]
    BY <1>5, <2>1
  <2> QED BY <1>2, <1>15, <2>2
<1> HIDE DEF y6
<1>17. y7 = a \o f[7]
  <2>1. 7 \in 1 .. 10 /\ 6 = 7 - 1
    OBVIOUS
  <2>2. (a \o f[6]) \o p[7] = a \o f[7]
    BY <1>5, <2>1
  <2> QED BY <1>2, <1>16, <2>2
<1> HIDE DEF y7
<1>18. y8 = a \o f[8]
  <2>1. 8 \in 1 .. 10 /\ 7 = 8 - 1
    OBVIOUS
  <2>2. (a \o f[7]) \o p[8] = a \o f[8]
    BY <1>5, <2>1
  <2> QED BY <1>2, <1>17, <2>2
<1> HIDE DEF y8
<1>19. y9 = a \o f[9]
  <2>1. 9 \in 1 .. 10 /\ 8 = 9 - 1
    OBVIOUS
  <2>2. (a \o f[8]) \o p[9] = a \o f[9]
    BY <1>5, <2>1
  <2> QED BY <1>2, <1>18, <2>2
<1> HIDE DEF y9
<1>20. y10 = a \o f[10]
  <2>1. 10 \in 1 .. 10 /\ 9 = 10 - 1
    OBVIOUS
  <2>2. (a \o f[9]) \o p[10] = a \o f[10]
    BY <1>5, <2>1
  <2> QED BY <1>2, <1>19, <2>2
<1> HIDE DEF y10
<1>21. SerializeInterest(h) = y10 \o <<Close>>
  BY <1>4 DEF y1, y2, y3, y4, y5, y6, y7, y8, y9, y10
<1>22. Element(Dtag.Interest, f[10]) = (a \o f[10]) \o <<Close>>
  BY DEF Element, a
<1> QED BY <1>1, <1>20, <1>21, <1>22 DEF p

\* The parser makes of an Interest one block, of the blocks of its fields.
LEMMA InterestParsed ==
    ASSUME NEW h \in InterestHeaders
    PROVE  /\ Reads(SerializeInterest(h), Tree(Type.dtag, Dtag.Interest, FlattenSeq(Trees(h))))
           /\ IsSequence(FlattenSeq(Trees(h)))
<1> DEFINE p == Parts(h)
           t == Trees(h)
           first == Tree(Type.dtag, Dtag.Name, NameTrees(h.name))
<1>1. p \in Seq(Seq(Octet)) /\ Len(p) = 10
  BY PartsAndTrees
<1>2. PICK U : t \in Seq(Seq(U)) /\ Len(t) = 10
  BY PartsAndTrees
<1>3. \A k \in 1 .. 10 : PartGood(p[k], t[k])
  BY PartsGood
<1>4. t[1] = <<first>>
  BY DEF Trees
<1>5. ~IsAttribute(first)
  BY TypeValues DEF Tree, IsAttribute
<1> HIDE DEF p, t, first
<1> DEFINE N == Len(p)
<1>6. N \in Nat /\ N = 10 /\ Len(t) = N
  BY <1>1, <1>2
<1>7. PICK f : /\ f[0] = << >>
               /\ \A n \in 1 .. N : f[n] = f[n - 1] \o p[n]
               /\ \A n \in 0 .. N : f[n] \in Seq(Octet)
               /\ FlattenSeq(p) = f[N]
  BY <1>1, FlattenFromEmpty
<1>8. PICK g : /\ g[0] = << >>
               /\ \A n \in 1 .. N : g[n] = g[n - 1] \o t[n]
               /\ \A n \in 0 .. N : g[n] \in Seq(U)
               /\ FlattenSeq(t) = g[N]
  <2>1. \E g : /\ g[0] = << >>
               /\ \A n \in 1 .. Len(t) : g[n] = g[n - 1] \o t[n]
               /\ \A n \in 0 .. Len(t) : g[n] \in Seq(U)
               /\ FlattenSeq(t) = g[Len(t)]
    BY <1>2, FlattenFromEmpty
  <2> HIDE DEF N
  <2> QED BY <1>6, <2>1
<1>9. PICK r : /\ \A n \in 1 .. N : r[n - 1] = t[n] \o r[n]
               /\ \A n \in 0 .. N : r[n] \in Seq(U)
               /\ FlattenSeq(t) = r[0]
  <2>1. \E r : /\ r[Len(t)] = << >>
               /\ \A n \in 1 .. Len(t) : r[n - 1] = t[n] \o r[n]
               /\ \A n \in 0 .. Len(t) : r[n] \in Seq(U)
               /\ FlattenSeq(t) = r[0]
    BY <1>2, FlattenTail
  <2> HIDE DEF N
  <2> QED BY <1>6, <2>1
<1> HIDE DEF N
<1>16. \A k \in 1 .. N : PartGood(p[k], t[k])
  BY <1>3, <1>6
<1> DEFINE T == {n \in 0 .. N : Begins(f[n], g[n])}
<1>10. 0 \in T
  <2>1. 0 \in 0 .. N
    BY <1>6
  <2>2. f[0] = << >> /\ g[0] = << >>
    BY <1>7, <1>8
  <2>3. Begins(f[0], g[0])
    BY <2>2, BeginsNothing
  <2> QED BY <2>1, <2>3
<1>11. ASSUME NEW n \in 1 .. N, n - 1 \in T
       PROVE  n \in T
  <2> DEFINE a == f[n - 1]
             b == p[n]
             x == g[n - 1]
             y == t[n]
  <2>0. n - 1 \in 0 .. N /\ n \in 0 .. N
    BY <1>6
  <2>1. a \in Seq(Octet) /\ b \in Seq(Octet) /\ Begins(a, x) /\ Begins(b, y)
    BY <1>7, <1>11, <1>16, <2>0 DEF PartGood
  <2>2. x \in Seq(U) /\ IsSequence(y)
    BY <1>8, <1>16, <2>0 DEF PartGood
  <2>3. IsSequence(x)
    <3> HIDE DEF x
    <3> QED BY <2>2 DEF IsSequence
  <2>4. f[n] = a \o b /\ g[n] = x \o y
    BY <1>7, <1>8
  <2> HIDE DEF a, b, x, y
  <2>5. Begins(a \o b, x \o y)
    BY <2>1, <2>2, <2>3, BeginsJoined
  <2> QED BY <2>0, <2>4, <2>5
<1>12. T = 0 .. N
  BY <1>6, <1>10, <1>11, UpToInduction
<1>13. Begins(f[N], g[N])
  <2>1. N \in 0 .. N
    BY <1>6
  <2> QED BY <1>12, <2>1
<1>14. IsSequence(g[N]) /\ NoAttribute(g[N])
  <2> DEFINE x == r[1]
  <2>1. r[0] = <<first>> \o x /\ x \in Seq(U)
    <3>1. 1 \in 1 .. N /\ 1 \in 0 .. N /\ 0 = 1 - 1
      BY <1>6
    <3>2. r[1 - 1] = t[1] \o r[1]
      BY <1>9, <3>1
    <3> QED BY <1>4, <1>9, <3>1, <3>2
  <2>2. g[N] = <<first>> \o x
    BY <1>8, <1>9, <2>1
  <2> HIDE DEF x
  <2>3. IsSequence(<<first>>) /\ IsSequence(x)
    BY <2>1, OneBlock DEF IsSequence
  <2>4. IsSequence(<<first>> \o x)
    BY <2>3, SequencesJoined
  <2>5. (<<first>> \o x)[1] = first
    BY <2>1
  <2> QED BY <1>5, <2>2, <2>4, <2>5 DEF NoAttribute
<1>15. SerializeInterest(h) = Element(Dtag.Interest, f[N]) /\ f[N] \in Seq(Octet)
  BY <1>7, InterestWritten DEF p
<1>17. Dtag.Interest \in Nat /\ Dtag.Interest < Beyond /\ Dtag.Interest # Dtag.Content
       /\ Dtag.Interest # Dtag.ContentObject
  BY KnownDtags, DtagValues
<1>18. Reads(Element(Dtag.Interest, f[N]), Tree(Type.dtag, Dtag.Interest, g[N]))
  BY <1>13, <1>14, <1>15, <1>17, ElementReads
<1>19. FlattenSeq(Trees(h)) = g[N]
  BY <1>8 DEF t
<1> QED BY <1>14, <1>15, <1>18, <1>19

-----------------------------------------------------------------------------
(* Visits *)

\* The rounds of a visit, and where it is after some of them.
VisitRounds(v, h, block, size) ==
    /\ v[0] = [todo |-> <<block>>, header |-> h]
    /\ \A n \in 1 .. size : v[n] = Visit(v[n - 1])

Reaches(v, bound, todo, h) ==
    \E n \in Nat : n <= bound /\ v[n] = [todo |-> todo, header |-> h]

\* The loop over the blocks is well defined.
LEMMA VisitedLoop ==
    ASSUME NEW h, NEW block, NEW size \in Nat
    PROVE  \E v : VisitRounds(v, h, block, size) /\ Visited(h, block, size) = v[size].header
<1> DEFINE M == size
           Rounds(f, m) == f = [n \in 0 .. m |-> IF n = 0 THEN [todo |-> <<block>>, header |-> h] ELSE Visit(f[n - 1])]
           T == {m \in 0 .. M : \E f : Rounds(f, m)}
<1>0. M \in Nat
  OBVIOUS
<1>1. 0 \in T
  <2>1. Rounds([n \in 0 .. 0 |-> [todo |-> <<block>>, header |-> h]], 0)
    OBVIOUS
  <2> HIDE DEF Rounds
  <2> QED BY <1>0, <2>1
<1>2. ASSUME NEW m \in 1 .. M, m - 1 \in T
      PROVE  m \in T
  <2>1. PICK f : Rounds(f, m - 1)
    BY <1>2
  <2> DEFINE g == [n \in 0 .. m |-> IF n = m THEN Visit(f[m - 1]) ELSE f[n]]
  <2>2. \A n \in 0 .. m - 1 : f[n] = IF n = 0 THEN [todo |-> <<block>>, header |-> h] ELSE Visit(f[n - 1])
    BY <2>1
  <2>3. \A n \in 0 .. m : g[n] = IF n = 0 THEN [todo |-> <<block>>, header |-> h] ELSE Visit(g[n - 1])
    BY <2>2
  <2>4. Rounds(g, m)
    BY <2>3
  <2> HIDE DEF Rounds
  <2> QED BY <2>4
<1>3. T = 0 .. M
  <2> HIDE DEF Rounds, M
  <2> QED BY <1>0, <1>1, <1>2, UpToInduction
<1>4. \E f : Rounds(f, M)
  <2>1. M \in T
    <3> HIDE DEF T, M
    <3> QED BY <1>0, <1>3
  <2> HIDE DEF Rounds, M
  <2> QED BY <2>1
<1> DEFINE f == CHOOSE f : Rounds(f, M)
<1>5. Rounds(f, M)
  BY <1>4
<1>6. Visited(h, block, size) = f[size].header
  BY DEF Visited
<1>7. f[0] = [todo |-> <<block>>, header |-> h] /\ \A n \in 1 .. M : f[n] = Visit(f[n - 1])
  <2> HIDE DEF f
  <2> QED BY <1>5
<1>8. VisitRounds(f, h, block, size)
  <2> HIDE DEF f
  <2> QED BY <1>7 DEF VisitRounds
<1> QED BY <1>6, <1>8

\* A visit with nothing to do stays where it is.
LEMMA VisitEnds ==
    ASSUME NEW v, NEW m \in Nat, NEW size \in Nat, m <= size,
           \A n \in 1 .. size : v[n] = Visit(v[n - 1]), v[m].todo = << >>
    PROVE  v[size] = v[m]
<1> DEFINE N == size - m
           T == {n \in 0 .. N : v[m + n] = v[m]}
<1>1. N \in Nat /\ m + 0 = m /\ m + N = size
  OBVIOUS
<1>2. 0 \in T
  BY <1>1
<1>3. ASSUME NEW n \in 1 .. N, n - 1 \in T
      PROVE  n \in T
  <2> DEFINE i == m + n
  <2>1. i \in 1 .. size /\ i - 1 = m + (n - 1) /\ n \in 0 .. N
    BY <1>1
  <2>2. v[i] = Visit(v[i - 1])
    <3> HIDE DEF i
    <3> QED BY <2>1
  <2>3. v[i - 1] = v[m]
    <3> HIDE DEF i
    <3> QED BY <1>3, <2>1
  <2> HIDE DEF i
  <2>4. Visit(v[m]) = v[m]
    BY DEF Visit
  <2> QED BY <2>1, <2>2, <2>3, <2>4 DEF i
<1> HIDE DEF N
<1>4. T = 0 .. N
  BY <1>1, <1>2, <1>3, UpToInduction
<1>5. N \in 0 .. N
  BY <1>1
<1> QED BY <1>1, <1>4, <1>5

\* A field that is there takes one round.
LEMMA FieldVisited ==
    ASSUME NEW v, NEW m \in Nat, NEW size \in Nat, NEW bound \in Nat, m <= bound, bound <= size,
           NEW trees, NEW rest, NEW h, NEW g, NEW tree,
           NEW k, NEW root, VisitRounds(v, k, root, size),
           v[m] = [todo |-> trees \o rest, header |-> h],
           IsSequence(rest), h.kind = "interest",
           \/ trees = << >> /\ g = h
           \/ /\ trees = <<tree>> /\ m < bound
              /\ tree.type = 2 /\ tree.dtag # Dtag.Interest
              /\ InterestVisitor(h, tree) = g
    PROVE  Reaches(v, bound, rest, g)
<1>1. CASE trees = << >> /\ g = h
  <2>1. << >> \o rest = rest
    BY SequencesJoined
  <2>2. m \in Nat /\ m <= bound /\ v[m] = [todo |-> rest, header |-> g]
    BY <1>1, <2>1
  <2> QED BY <2>2 DEF Reaches
<1>2. CASE trees = <<tree>> /\ m < bound /\ tree.type = 2 /\ tree.dtag # Dtag.Interest
           /\ InterestVisitor(h, tree) = g
  <2> DEFINE todo == <<tree>> \o rest
  <2>1. todo # << >> /\ Head(todo) = tree /\ Tail(todo) = rest
    <3>1. PICK S : rest \in Seq(S)
      BY DEF IsSequence
    <3> DEFINE R == S \cup {tree}
    <3>2. rest \in Seq(R) /\ tree \in R
      <4>1. S \subseteq R
        OBVIOUS
      <4> HIDE DEF R
      <4> QED BY <3>1, <4>1, SeqMonotonic DEF R
    <3> HIDE DEF R
    <3>3. todo \in Seq(R) /\ Len(todo) = Len(rest) + 1 /\ todo[1] = tree
          /\ \A i \in 1 .. Len(rest) : todo[i + 1] = rest[i]
      BY <3>2
    <3> HIDE DEF todo
    <3>4. Len(rest) \in Nat /\ todo # << >>
      BY <3>2, <3>3
    <3>5. Tail(todo) \in Seq(R) /\ Len(Tail(todo)) = Len(rest)
          /\ \A i \in 1 .. Len(rest) : Tail(todo)[i] = todo[i + 1]
      <4>1. Tail(todo) \in Seq(R) /\ Len(Tail(todo)) = Len(todo) - 1
            /\ \A i \in 1 .. Len(Tail(todo)) : Tail(todo)[i] = todo[i + 1]
        BY <3>3, <3>4, HeadTailProperties
      <4> QED BY <3>3, <3>4, <4>1
    <3>6. Tail(todo) = rest
      <4>1. \A i \in 1 .. Len(Tail(todo)) : Tail(todo)[i] = rest[i]
        BY <3>3, <3>5
      <4> QED BY <3>2, <3>5, <4>1, SeqEqual
    <3>7. Head(todo) = tree
      BY <3>3, <3>4
    <3> QED BY <3>4, <3>6, <3>7
  <2>2. ~Opens(h, tree)
    BY <1>2, TypeValues DEF Opens
  <2> HIDE DEF todo
  <2>3. Visit([todo |-> todo, header |-> h]) = [todo |-> rest, header |-> g]
    <3> DEFINE x == [todo |-> todo, header |-> h]
    <3>1. x.todo = todo /\ x.header = h /\ ~(x.todo = << >> \/ x.header.kind = "thrown")
      BY <2>1
    <3> HIDE DEF x
    <3>2. Visit(x) = [todo |-> Tail(x.todo), header |-> InterestVisitor(x.header, Head(x.todo))]
      BY <2>1, <2>2, <3>1 DEF Visit
    <3> QED BY <1>2, <2>1, <3>1, <3>2 DEF x
  <2>0. m < bound
    BY <1>2
  <2>4. m + 1 \in 1 .. size /\ (m + 1) - 1 = m /\ m + 1 <= bound
    BY <2>0
  <2>5. v[m + 1] = Visit(v[m])
    BY <2>4 DEF VisitRounds
  <2>6. v[m + 1] = [todo |-> rest, header |-> g]
    BY <1>2, <2>3, <2>5 DEF todo
  <2>7. m + 1 \in Nat
    OBVIOUS
  <2> QED BY <2>4, <2>6, <2>7 DEF Reaches
<1> QED BY <1>1, <1>2

-----------------------------------------------------------------------------
(* What is read of the fields *)

\* To keep every position is to keep the sequence.
LEMMA KeptWhole ==
    ASSUME NEW S, NEW s \in Seq(S)
    PROVE  Kept(s, DOMAIN s) = s
<1> DEFINE n == Len(s)
           K == 1 .. n
<1>1. n \in Nat /\ DOMAIN s = K /\ \A i \in 1 .. n : s[i] \in S
  OBVIOUS
<1> HIDE DEF n
<1>2. IsFiniteSet(K) /\ Cardinality(K) = n /\ K \in SUBSET Nat
  <2>1. IsFiniteSet(1 .. n) /\ Cardinality(1 .. n) = IF 1 > n THEN 0 ELSE n - 1 + 1
    BY <1>1, FS_Interval
  <2> QED BY <1>1, <2>1
<1>3. ASSUME NEW i \in 1 .. n
      PROVE  Rank(K, i) = i
  <2>1. {j \in K : j <= i} = 1 .. i
    BY <1>1
  <2>2. IsFiniteSet(1 .. i) /\ Cardinality(1 .. i) = IF 1 > i THEN 0 ELSE i - 1 + 1
    BY <1>1, FS_Interval
  <2> HIDE DEF K
  <2>3. i \in Nat /\ ~(1 > i) /\ i - 1 + 1 = i
    BY <1>1
  <2> QED BY <2>1, <2>2, <2>3 DEF Rank
<1>4. \A i \in K : Position(K, Rank(K, i)) = i
  <2> HIDE DEF K
  <2> QED BY <1>2, PositionHasRank
<1>5. \A i \in 1 .. n : Position(K, i) = i
  BY <1>3, <1>4
<1>6. Kept(s, K) = [k \in 1 .. n |-> s[k]]
  BY <1>2, <1>5 DEF Kept
<1>7. s = [k \in 1 .. n |-> s[k]]
  BY <1>1
<1> QED BY <1>1, <1>6, <1>7

\* The name that is read is the name that was written.
LEMMA NameRead ==
    ASSUME NEW name \in Seq(Seq(Octet) \ {<< >>})
    PROVE  NameComponents(NameTrees(name)) = [thrown |-> FALSE, name |-> name]
<1> DEFINE t == NameTrees(name)
           tree(i) == Tree(Type.dtag, Dtag.Component, BlobTrees(name[i]))
           U == {tree(i) : i \in DOMAIN name}
           n == Len(name)
<1>1. n \in Nat /\ DOMAIN name = 1 .. n /\ \A i \in 1 .. n : name[i] \in Seq(Octet) \ {<< >>}
  OBVIOUS
<1>2. t = [i \in 1 .. n |-> tree(i)]
  BY <1>1 DEF NameTrees
<1>3. ASSUME NEW i \in 1 .. n
      PROVE  tree(i).dtag = Dtag.Component /\ OnlyOne(tree(i)) /\ StringVisitor(tree(i)) = name[i]
  <2>1. BlobTrees(name[i]) = <<Leaf(Type.blob, name[i])>>
    BY <1>1 DEF BlobTrees, If
  <2>2. tree(i).nested = <<Leaf(Type.blob, name[i])>> /\ tree(i).dtag = Dtag.Component
    BY <2>1 DEF Tree
  <2>3. Leaf(Type.blob, name[i]).type = Type.blob /\ Leaf(Type.blob, name[i]).data = name[i]
    BY DEF Leaf
  <2> DEFINE leaf == Leaf(Type.blob, name[i])
             x == tree(i)
  <2>4. x.nested = <<leaf>> /\ leaf.type = Type.blob /\ leaf.data = name[i]
    BY <2>2, <2>3
  <2> HIDE DEF leaf, x
  <2>5. Len(x.nested) = 1 /\ x.nested[1] = leaf
    BY <2>4
  <2>6. OnlyOne(x) /\ StringVisitor(x) = name[i]
    BY <2>4, <2>5 DEF OnlyOne, StringVisitor
  <2> QED BY <2>2, <2>6 DEF x
<1>4. t \in Seq(U) /\ DOMAIN t = 1 .. n /\ \A i \in 1 .. n : t[i] = tree(i)
  <2>1. \A i \in 1 .. n : tree(i) \in U
    BY <1>1
  <2> HIDE DEF U, tree
  <2>2. t \in [1 .. n -> U] /\ \A i \in 1 .. n : t[i] = tree(i)
    BY <1>2, <2>1
  <2> HIDE DEF t, n
  <2> QED BY <1>1, <2>2, SequenceOf
<1> HIDE DEF t, tree, U, n
<1>5. {i \in DOMAIN t : t[i].dtag = Dtag.Component} = DOMAIN t
  BY <1>3, <1>4
<1>6. Kept(t, {i \in DOMAIN t : t[i].dtag = Dtag.Component}) = t
  BY <1>4, <1>5, KeptWhole
<1>7. NameComponents(t) = [thrown |-> \E i \in DOMAIN t : ~OnlyOne(t[i]),
                           name |-> [i \in DOMAIN t |-> IF OnlyOne(t[i]) THEN StringVisitor(t[i]) ELSE << >>]]
  BY <1>6 DEF NameComponents
<1>8. (\E i \in DOMAIN t : ~OnlyOne(t[i])) = FALSE
  BY <1>3, <1>4
<1>9. [i \in DOMAIN t |-> IF OnlyOne(t[i]) THEN StringVisitor(t[i]) ELSE << >>] = name
  <2>1. [i \in DOMAIN t |-> IF OnlyOne(t[i]) THEN StringVisitor(t[i]) ELSE << >>] = [i \in 1 .. n |-> name[i]]
    BY <1>3, <1>4
  <2>2. name = [i \in 1 .. n |-> name[i]]
    BY <1>1
  <2> QED BY <2>1, <2>2
<1> QED BY <1>7, <1>8, <1>9 DEF t

-----------------------------------------------------------------------------
(* Durations *)

\* What Timestamp makes of a blob when its seconds are known.
Duration(blob, sixteenths) ==
    LET size == Len(blob)
        combo == blob[size - 1]
        low == SignedByte(blob[size])
        fraction == IF low < 0 THEN low ELSE (combo % 16) * 256 + low
    IN (sixteenths * 16 + combo \div 16) * Second + Quotient(fraction * 15625, 64)

\* The loop over the bytes of the seconds is well defined.
LEMMA TimestampLoop ==
    ASSUME NEW blob, Len(blob) - 2 \in Nat
    PROVE  \E f : /\ f[0] = 0
                  /\ \A n \in 1 .. Len(blob) - 2 : f[n] = 256 * f[n - 1] + blob[n]
                  /\ Timestamp(blob) = Duration(blob, f[Len(blob) - 2])
<1> DEFINE M == Len(blob) - 2
           Rounds(f, m) == f = [n \in 0 .. m |-> IF n = 0 THEN 0 ELSE 256 * f[n - 1] + blob[n]]
           T == {m \in 0 .. M : \E f : Rounds(f, m)}
<1>0. M \in Nat
  OBVIOUS
<1>1. 0 \in T
  <2>1. Rounds([n \in 0 .. 0 |-> 0], 0)
    OBVIOUS
  <2> HIDE DEF Rounds
  <2> QED BY <1>0, <2>1
<1>2. ASSUME NEW m \in 1 .. M, m - 1 \in T
      PROVE  m \in T
  <2>1. PICK f : Rounds(f, m - 1)
    BY <1>2
  <2> DEFINE g == [n \in 0 .. m |-> IF n = m THEN 256 * f[m - 1] + blob[m] ELSE f[n]]
  <2>2. \A n \in 0 .. m - 1 : f[n] = IF n = 0 THEN 0 ELSE 256 * f[n - 1] + blob[n]
    BY <2>1
  <2>3. \A n \in 0 .. m : g[n] = IF n = 0 THEN 0 ELSE 256 * g[n - 1] + blob[n]
    BY <2>2
  <2>4. Rounds(g, m)
    BY <2>3
  <2> HIDE DEF Rounds
  <2> QED BY <2>4
<1>3. T = 0 .. M
  <2> HIDE DEF Rounds, M
  <2> QED BY <1>0, <1>1, <1>2, UpToInduction
<1>4. \E f : Rounds(f, M)
  <2>1. M \in T
    <3> HIDE DEF T, M
    <3> QED BY <1>0, <1>3
  <2> HIDE DEF Rounds, M
  <2> QED BY <2>1
<1> DEFINE f == CHOOSE f : Rounds(f, M)
<1>5. Rounds(f, M)
  BY <1>4
<1>6. Timestamp(blob) = Duration(blob, f[Len(blob) - 2])
  BY DEF Timestamp, Duration
<1>7. f[0] = 0 /\ \A n \in 1 .. M : f[n] = 256 * f[n - 1] + blob[n]
  <2> HIDE DEF f
  <2> QED BY <1>5
<1> QED BY <1>6, <1>7

\* The two bytes of a duration in whole seconds.
LEMMA TwoBytes ==
    ASSUME NEW w \in 0 .. 15
    PROVE  Bytes(w * 4096, 2) = <<w * 16, 0>>
<1>1. Shifted(w * 4096, 1) % 256 = w * 16 /\ Shifted(w * 4096, 0) % 256 = 0
  <2>1. Shifted(w * 4096, 1) = (w * 4096) \div 256 /\ Shifted(w * 4096, 0) = w * 4096
    BY DEF Shifted
  <2>2. (w * 4096) \div 256 = w * 16 /\ (w * 16) % 256 = w * 16 /\ (w * 4096) % 256 = 0
    OBVIOUS
  <2> QED BY <2>1, <2>2
<1>2. Bytes(w * 4096, 2) = [i \in 1 .. 2 |-> IF i = 1 THEN w * 16 ELSE 0]
  <2>1. \A i \in 1 .. 2 : (i = 1 /\ 2 - i = 1) \/ (i = 2 /\ 2 - i = 0)
    OBVIOUS
  <2>2. \A i \in 1 .. 2 : Shifted(w * 4096, 2 - i) % 256 = IF i = 1 THEN w * 16 ELSE 0
    BY <1>1, <2>1
  <2> QED BY <2>2 DEF Bytes
<1>3. [i \in 1 .. 2 |-> IF i = 1 THEN w * 16 ELSE 0] = <<w * 16, 0>>
  OBVIOUS
<1> QED BY <1>2, <1>3

\* What seconds below a minute require.
LEMMA SmallRequired ==
    ASSUME NEW u \in 0 .. 3
    PROVE  Required(u) = IF u = 0 THEN 2 ELSE 3
<1>1. \A k \in 0 .. 4 : Shifted(u, k) = IF k = 0 THEN u ELSE 0
  <2>1. u \div 256 = 0 /\ u \div 65536 = 0 /\ 0 \div 256 = 0 /\ 0 \div 65536 = 0
    OBVIOUS
  <2>2. \A k \in 0 .. 4 : k = 0 \/ k = 1 \/ k = 2 \/ k = 3 \/ k = 4
    OBVIOUS
  <2> QED BY <2>1, <2>2 DEF Shifted
<1> DEFINE K == {k \in 0 .. 4 : Shifted(u, k) # 0}
<1>2. CASE u = 0
  <2>1. K = {}
    BY <1>1, <1>2
  <2>2. Cardinality({}) = 0
    BY FS_EmptySet
  <2> QED BY <1>2, <2>1, <2>2 DEF Required
<1>3. CASE u # 0
  <2>1. K = {0}
    BY <1>1, <1>3
  <2>2. Cardinality({0}) = 1
    BY FS_Singleton
  <2> QED BY <1>3, <2>1, <2>2 DEF Required
<1> QED BY <1>2, <1>3

\* A duration below a minute and without a fraction comes back as it was.
LEMMA TimestampRead ==
    ASSUME NEW time \in Nat, Carried(time)
    PROVE  Len(TimeBytes(time)) >= 2 /\ Timestamp(TimeBytes(time)) = time
<1> DEFINE q == Quotient(time, Second)
           u == q \div 16
           w == q % 16
           blob == TimeBytes(time)
<1>0. blob = Bytes(u, RequiredBytes(time) - 2) \o Bytes(w * 4096 + Fraction(time), 2)
  BY DEF TimeBytes
<1> HIDE DEF blob
<1>1. time = q * Second /\ q \in 0 .. 59 /\ Remains(time, Second) = 0
  <2>1. q = time \div Second
    BY DEF Quotient
  <2>2. Second = 1000000
    BY DEF Second
  <2>3. time % Second = 0 /\ time < 60 * Second
    BY DEF Carried
  <2>4. q * Second = time /\ q \in 0 .. 59
    <3> HIDE DEF q
    <3> QED BY <2>1, <2>2, <2>3
  <2>5. Remains(time, Second) = time - Second * q
    BY DEF Remains
  <2> HIDE DEF q
  <2> QED BY <2>2, <2>4, <2>5
<1>2. RequiredBytes(time) = Required(u)
  <2>1. time < 60 * Second
    BY DEF Carried
  <2> QED BY <2>1, TimestampSize
<1>3. Fraction(time) = 0
  <2>1. 0 * 1600 + 195312 = 195312 /\ 195312 \div 390625 = 0
    OBVIOUS
  <2> QED BY <1>1, <2>1 DEF Fraction, Quotient
<1> HIDE DEF q
<1>4. u \in 0 .. 3 /\ w \in 0 .. 15 /\ q = u * 16 + w
  BY <1>1
<1> HIDE DEF u, w
<1>5. blob = Bytes(u, Required(u) - 2) \o <<w * 16, 0>>
  <2>1. w * 4096 + 0 = w * 4096
    BY <1>4
  <2>2. Bytes(w * 4096, 2) = <<w * 16, 0>>
    BY <1>4, TwoBytes
  <2> DEFINE x == w * 4096 + Fraction(time)
             y == RequiredBytes(time) - 2
  <2>3. x = w * 4096 /\ y = Required(u) - 2
    BY <1>2, <1>3, <2>1
  <2>4. blob = Bytes(u, y) \o Bytes(x, 2)
    BY <1>0
  <2>5. Bytes(x, 2) = <<w * 16, 0>>
    BY <2>2, <2>3
  <2>6. Bytes(u, y) = Bytes(u, Required(u) - 2)
    <3> DEFINE z == Required(u) - 2
    <3>1. y = z
      BY <2>3
    <3> HIDE DEF y, z
    <3> QED BY <3>1 DEF z
  <2> DEFINE c == Bytes(x, 2)
             e == Bytes(u, y)
  <2>7. blob = e \o c /\ c = <<w * 16, 0>> /\ e = Bytes(u, Required(u) - 2)
    BY <2>4, <2>5, <2>6
  <2> HIDE DEF c, e
  <2> QED BY <2>7
<1>6. /\ Len(blob) = Required(u) /\ Required(u) = IF u = 0 THEN 2 ELSE 3
      /\ blob[Required(u) - 1] = w * 16 /\ blob[Required(u)] = 0
      /\ u # 0 => blob[1] = u
  <2>1. Required(u) = IF u = 0 THEN 2 ELSE 3
    BY <1>4, SmallRequired
  <2>2. CASE u = 0
    <3>1. Required(u) - 2 = 0
      BY <2>1, <2>2
    <3>2. Bytes(u, 0) = << >>
      BY DEF Bytes
    <3> DEFINE x == w * 16
               b == <<x, 0>>
    <3>5. b \in Seq(Int)
      <4>1. x \in Int
        BY <1>4
      <4> HIDE DEF x
      <4> QED BY <4>1
    <3>3. blob = <<w * 16, 0>>
      <4> HIDE DEF b
      <4>1. << >> \o b = b
        BY <3>5, ConcatEmptySeq
      <4> QED BY <1>5, <3>1, <3>2, <4>1 DEF b
    <3>4. Len(blob) = 2 /\ blob[1] = w * 16 /\ blob[2] = 0
      BY <3>3
    <3> QED BY <2>1, <2>2, <3>4
  <2>3. CASE u # 0
    <3>1. Required(u) - 2 = 1
      BY <2>1, <2>3
    <3>2. Bytes(u, 1) = <<u>>
      <4>1. Shifted(u, 0) % 256 = u
        BY <1>4 DEF Shifted
      <4>2. \A i \in 1 .. 1 : 1 - i = 0
        OBVIOUS
      <4>3. Bytes(u, 1) = [i \in 1 .. 1 |-> u]
        BY <4>1, <4>2 DEF Bytes
      <4> QED BY <4>3
    <3> DEFINE x == w * 16
               a == <<u>>
               b == <<x, 0>>
    <3>3. a \in Seq(Int) /\ b \in Seq(Int) /\ Len(a) = 1 /\ Len(b) = 2 /\ a[1] = u /\ b[1] = x /\ b[2] = 0
      <4>1. x \in Int /\ u \in Int
        BY <1>4
      <4> HIDE DEF x
      <4> QED BY <4>1
    <3>4. Len(blob) = 3 /\ blob[1] = u /\ blob[2] = w * 16 /\ blob[3] = 0
      <4>1. blob = a \o b
        BY <1>5, <3>1, <3>2
      <4> HIDE DEF a, b
      <4>2. Len(a \o b) = Len(a) + Len(b)
            /\ \A i \in 1 .. Len(a) + Len(b) : (a \o b)[i] = IF i <= Len(a) THEN a[i] ELSE b[i - Len(a)]
        BY <3>3, ConcatProperties
      <4>3. 1 \in 1 .. 3 /\ 2 \in 1 .. 3 /\ 3 \in 1 .. 3 /\ 2 - 1 = 1 /\ 3 - 1 = 2 /\ 1 + 2 = 3
            /\ 1 <= 1 /\ ~(2 <= 1) /\ ~(3 <= 1)
        OBVIOUS
      <4>4. Len(a \o b) = 3 /\ (a \o b)[1] = a[1]
        BY <3>3, <4>2, <4>3
      <4>5. (a \o b)[2] = b[1] /\ (a \o b)[3] = b[2]
        BY <3>3, <4>2, <4>3
      <4> QED BY <3>3, <4>1, <4>4, <4>5
    <3> QED BY <2>1, <2>3, <3>4
  <2> QED BY <2>2, <2>3
<1> HIDE DEF blob
<1>7. Len(blob) - 2 \in Nat
  BY <1>6
<1>8. PICK f : /\ f[0] = 0
               /\ \A n \in 1 .. Len(blob) - 2 : f[n] = 256 * f[n - 1] + blob[n]
               /\ Timestamp(blob) = Duration(blob, f[Len(blob) - 2])
  BY <1>7, TimestampLoop
<1>9. f[Len(blob) - 2] = u
  <2>1. CASE u = 0
    <3>1. Len(blob) - 2 = 0
      BY <1>6, <2>1
    <3> QED BY <1>8, <2>1, <3>1
  <2>2. CASE u # 0
    <3>1. Len(blob) - 2 = 1 /\ 1 - 1 = 0
      BY <1>6, <2>2
    <3>3. 1 \in 1 .. Len(blob) - 2
      BY <3>1
    <3>2. f[1] = 256 * f[1 - 1] + blob[1]
      BY <1>8, <3>3
    <3> QED BY <1>4, <1>6, <1>8, <2>2, <3>1, <3>2
  <2> QED BY <2>1, <2>2
<1>10. Duration(blob, u) = q * Second
  <2> DEFINE combo == blob[Len(blob) - 1]
             last == blob[Len(blob)]
  <2>1. combo = w * 16 /\ last = 0
    BY <1>6
  <2>2. Duration(blob, u)
           = (u * 16 + combo \div 16) * Second
                 + Quotient((IF SignedByte(last) < 0 THEN SignedByte(last)
                             ELSE (combo % 16) * 256 + SignedByte(last)) * 15625, 64)
    BY DEF Duration
  <2> HIDE DEF combo, last
  <2>3. SignedByte(last) = 0
    BY <2>1 DEF SignedByte
  <2>4. (w * 16) \div 16 = w /\ (w * 16) % 16 = 0
    BY <1>4
  <2>5. Quotient((0 * 256 + 0) * 15625, 64) = 0
    BY DEF Quotient
  <2>6. (u * 16 + w) * Second \in Int
    BY <1>4 DEF Second
  <2>7. Duration(blob, u) = (u * 16 + w) * Second + 0
    BY <2>1, <2>2, <2>3, <2>4, <2>5
  <2> QED BY <1>4, <2>6, <2>7
<1>11. Len(blob) >= 2
  BY <1>6
<1> QED BY <1>1, <1>8, <1>9, <1>10, <1>11 DEF blob

-----------------------------------------------------------------------------
(* Every field of an Interest is read *)

\* The Interests that can come back as they were, but for their lifetimes.
ProperInterests ==
    {h \in InterestHeaders :
        /\ h.name \in Seq(Component) /\ h.exclude \in Seq(Component)
        /\ h.minSuffix >= -1 /\ h.maxSuffix >= -1 /\ h.scope \in -1 .. 127
        /\ h.lifetime >= 0 /\ h.nack >= 0}

\* The fields in the order they are written in.
Fields == <<"name", "minSuffix", "maxSuffix", "exclude", "childSelector", "answerOriginKind",
            "scope", "lifetime", "nonce", "nack">>

\* What the visitor has when it has passed the first fields.
Partial(h, n) ==
    [f \in DOMAIN NewInterest |->
        IF \E k \in 1 .. n : Fields[k] = f THEN h[f] ELSE NewInterest[f]]

\* These are all of the fields.
LEMMA FieldNames ==
    /\ \A n \in 1 .. 10 : Fields[n] \in DOMAIN NewInterest
    /\ \A f \in DOMAIN NewInterest : f = "kind" \/ \E n \in 1 .. 10 : Fields[n] = f
<1>1. DOMAIN NewInterest = {"kind", "name", "minSuffix", "maxSuffix", "exclude", "childSelector",
                            "answerOriginKind", "scope", "lifetime", "nonce", "nack"}
  BY DEF NewInterest
<1>2. /\ Fields[1] = "name" /\ Fields[2] = "minSuffix" /\ Fields[3] = "maxSuffix"
      /\ Fields[4] = "exclude" /\ Fields[5] = "childSelector" /\ Fields[6] = "answerOriginKind"
      /\ Fields[7] = "scope" /\ Fields[8] = "lifetime" /\ Fields[9] = "nonce" /\ Fields[10] = "nack"
  BY DEF Fields
<1>3. \A n \in 1 .. 10 : n = 1 \/ n = 2 \/ n = 3 \/ n = 4 \/ n = 5 \/ n = 6 \/ n = 7 \/ n = 8
                         \/ n = 9 \/ n = 10
  OBVIOUS
<1> QED BY <1>1, <1>2, <1>3

\* A field that is written is set.
LEMMA FieldSet ==
    ASSUME NEW h, NEW n \in 1 .. 10
    PROVE  [Partial(h, n - 1) EXCEPT ![Fields[n]] = h[Fields[n]]] = Partial(h, n)
<1> DEFINE D == DOMAIN NewInterest
           before == Partial(h, n - 1)
           after == Partial(h, n)
           f0 == Fields[n]
<1>1. f0 \in D
  BY FieldNames
<1>2. /\ before = [f \in D |-> IF \E k \in 1 .. n - 1 : Fields[k] = f THEN h[f] ELSE NewInterest[f]]
      /\ after = [f \in D |-> IF \E k \in 1 .. n : Fields[k] = f THEN h[f] ELSE NewInterest[f]]
  BY DEF Partial
<1>3. \A f \in D : (\E k \in 1 .. n : Fields[k] = f)
                       <=> f = f0 \/ \E k \in 1 .. n - 1 : Fields[k] = f
  OBVIOUS
<1> HIDE DEF D, before, after, f0
<1>4. [before EXCEPT ![f0] = h[f0]] = after
  BY <1>1, <1>2, <1>3
<1> QED BY <1>4 DEF before, after, f0

\* One that is not written has the value a new header has.
LEMMA FieldLeft ==
    ASSUME NEW h, NEW n \in 1 .. 10, h[Fields[n]] = NewInterest[Fields[n]]
    PROVE  Partial(h, n) = Partial(h, n - 1)
<1> DEFINE D == DOMAIN NewInterest
           f0 == Fields[n]
<1>1. \A f \in D : (\E k \in 1 .. n : Fields[k] = f)
                       <=> f = f0 \/ \E k \in 1 .. n - 1 : Fields[k] = f
  OBVIOUS
<1>2. h[f0] = NewInterest[f0]
  OBVIOUS
<1> HIDE DEF D, f0
<1>3. [f \in D |-> IF \E k \in 1 .. n : Fields[k] = f THEN h[f] ELSE NewInterest[f]]
      = [f \in D |-> IF \E k \in 1 .. n - 1 : Fields[k] = f THEN h[f] ELSE NewInterest[f]]
  BY <1>1, <1>2
<1> QED BY <1>3 DEF Partial, D

\* At first the visitor has a new header, and at last the one that was written.
LEMMA PartialEnds ==
    ASSUME NEW h \in InterestHeaders
    PROVE  /\ Partial(h, 0) = NewInterest /\ Partial(h, 10) = h
           /\ \A n \in Nat : Partial(h, n).kind = "interest"
<1> DEFINE D == DOMAIN NewInterest
           new == NewInterest
<1>1. DOMAIN h = D /\ h = [f \in D |-> h[f]] /\ h["kind"] = "interest"
  BY DEF InterestHeaders, HeadersNamed, NewInterest
<1>2. new = [f \in D |-> new[f]] /\ new["kind"] = "interest" /\ "kind" \in D
  BY DEF NewInterest
<1>3. \A n : Partial(h, n) = [f \in D |-> IF \E k \in 1 .. n : Fields[k] = f THEN h[f] ELSE new[f]]
  BY DEF Partial
<1>4. \A f \in D : f = "kind" \/ \E k \in 1 .. 10 : Fields[k] = f
  BY FieldNames
<1> HIDE DEF D, new
<1>5. Partial(h, 0) = new
  BY <1>2, <1>3
<1>6. Partial(h, 10) = h
  BY <1>1, <1>2, <1>3, <1>4
<1>7. ASSUME NEW n \in Nat
      PROVE  Partial(h, n).kind = "interest"
  <2>1. Partial(h, n)["kind"] = IF \E k \in 1 .. n : Fields[k] = "kind" THEN h["kind"] ELSE new["kind"]
    BY <1>2, <1>3
  <2> QED BY <1>1, <1>2, <2>1
<1> QED BY <1>5, <1>6, <1>7 DEF new

\* The same, field by field.
LEMMA FieldsSet ==
    ASSUME NEW h
    PROVE  /\ [Partial(h, 0) EXCEPT !.name = h.name] = Partial(h, 1)
           /\ [Partial(h, 1) EXCEPT !.minSuffix = h.minSuffix] = Partial(h, 2)
           /\ [Partial(h, 2) EXCEPT !.maxSuffix = h.maxSuffix] = Partial(h, 3)
           /\ [Partial(h, 3) EXCEPT !.exclude = h.exclude] = Partial(h, 4)
           /\ [Partial(h, 4) EXCEPT !.childSelector = h.childSelector] = Partial(h, 5)
           /\ [Partial(h, 5) EXCEPT !.answerOriginKind = h.answerOriginKind] = Partial(h, 6)
           /\ [Partial(h, 6) EXCEPT !.scope = h.scope] = Partial(h, 7)
           /\ [Partial(h, 7) EXCEPT !.lifetime = h.lifetime] = Partial(h, 8)
           /\ [Partial(h, 8) EXCEPT !.nonce = h.nonce] = Partial(h, 9)
           /\ [Partial(h, 9) EXCEPT !.nack = h.nack] = Partial(h, 10)
<1> DEFINE x(n) == Partial(h, n)
           Round(n) == [x(n - 1) EXCEPT ![Fields[n]] = h[Fields[n]]]
<1>1. \A n \in 1 .. 10 : Round(n) = x(n)
  BY FieldSet
<1>2. [x(0) EXCEPT !.name = h.name] = x(1)
  <2>1. Round(1) = x(1)
    BY <1>1
  <2>2. 1 - 1 = 0 /\ Fields[1] = "name"
    BY DEF Fields
  <2> HIDE DEF x
  <2> QED BY <2>1, <2>2
<1>3. [x(1) EXCEPT !.minSuffix = h.minSuffix] = x(2)
  <2>1. Round(2) = x(2)
    BY <1>1
  <2>2. 2 - 1 = 1 /\ Fields[2] = "minSuffix"
    BY DEF Fields
  <2> HIDE DEF x
  <2> QED BY <2>1, <2>2
<1>4. [x(2) EXCEPT !.maxSuffix = h.maxSuffix] = x(3)
  <2>1. Round(3) = x(3)
    BY <1>1
  <2>2. 3 - 1 = 2 /\ Fields[3] = "maxSuffix"
    BY DEF Fields
  <2> HIDE DEF x
  <2> QED BY <2>1, <2>2
<1>5. [x(3) EXCEPT !.exclude = h.exclude] = x(4)
  <2>1. Round(4) = x(4)
    BY <1>1
  <2>2. 4 - 1 = 3 /\ Fields[4] = "exclude"
    BY DEF Fields
  <2> HIDE DEF x
  <2> QED BY <2>1, <2>2
<1>6. [x(4) EXCEPT !.childSelector = h.childSelector] = x(5)
  <2>1. Round(5) = x(5)
    BY <1>1
  <2>2. 5 - 1 = 4 /\ Fields[5] = "childSelector"
    BY DEF Fields
  <2> HIDE DEF x
  <2> QED BY <2>1, <2>2
<1>7. [x(5) EXCEPT !.answerOriginKind = h.answerOriginKind] = x(6)
  <2>1. Round(6) = x(6)
    BY <1>1
  <2>2. 6 - 1 = 5 /\ Fields[6] = "answerOriginKind"
    BY DEF Fields
  <2> HIDE DEF x
  <2> QED BY <2>1, <2>2
<1>8. [x(6) EXCEPT !.scope = h.scope] = x(7)
  <2>1. Round(7) = x(7)
    BY <1>1
  <2>2. 7 - 1 = 6 /\ Fields[7] = "scope"
    BY DEF Fields
  <2> HIDE DEF x
  <2> QED BY <2>1, <2>2
<1>9. [x(7) EXCEPT !.lifetime = h.lifetime] = x(8)
  <2>1. Round(8) = x(8)
    BY <1>1
  <2>2. 8 - 1 = 7 /\ Fields[8] = "lifetime"
    BY DEF Fields
  <2> HIDE DEF x
  <2> QED BY <2>1, <2>2
<1>10. [x(8) EXCEPT !.nonce = h.nonce] = x(9)
  <2>1. Round(9) = x(9)
    BY <1>1
  <2>2. 9 - 1 = 8 /\ Fields[9] = "nonce"
    BY DEF Fields
  <2> HIDE DEF x
  <2> QED BY <2>1, <2>2
<1>11. [x(9) EXCEPT !.nack = h.nack] = x(10)
  <2>1. Round(10) = x(10)
    BY <1>1
  <2>2. 10 - 1 = 9 /\ Fields[10] = "nack"
    BY DEF Fields
  <2> HIDE DEF x
  <2> QED BY <2>1, <2>2
<1> QED BY <1>2, <1>3, <1>4, <1>5, <1>6, <1>7, <1>8, <1>9, <1>10, <1>11

\* And of those that are not written.
LEMMA FieldsLeft ==
    ASSUME NEW h
    PROVE  /\ h.minSuffix = -1 => Partial(h, 2) = Partial(h, 1)
           /\ h.maxSuffix = -1 => Partial(h, 3) = Partial(h, 2)
           /\ h.exclude = << >> => Partial(h, 4) = Partial(h, 3)
           /\ h.childSelector = FALSE => Partial(h, 5) = Partial(h, 4)
           /\ h.answerOriginKind = FALSE => Partial(h, 6) = Partial(h, 5)
           /\ h.scope = -1 => Partial(h, 7) = Partial(h, 6)
           /\ h.lifetime = 0 => Partial(h, 8) = Partial(h, 7)
           /\ h.nonce = <<0, 0, 0, 0>> => Partial(h, 9) = Partial(h, 8)
           /\ h.nack = 0 => Partial(h, 10) = Partial(h, 9)
<1> DEFINE x(n) == Partial(h, n)
<1>1. \A n \in 1 .. 10 : h[Fields[n]] = NewInterest[Fields[n]] => x(n) = x(n - 1)
  BY FieldLeft
<1> HIDE DEF x
<1>3. h.minSuffix = -1 => x(2) = x(1)
  <2>1. 2 - 1 = 1 /\ Fields[2] = "minSuffix" /\ NewInterest.minSuffix = -1
    BY DEF Fields, NewInterest
  <2> QED BY <1>1, <2>1
<1>4. h.maxSuffix = -1 => x(3) = x(2)
  <2>1. 3 - 1 = 2 /\ Fields[3] = "maxSuffix" /\ NewInterest.maxSuffix = -1
    BY DEF Fields, NewInterest
  <2> QED BY <1>1, <2>1
<1>5. h.exclude = << >> => x(4) = x(3)
  <2>1. 4 - 1 = 3 /\ Fields[4] = "exclude" /\ NewInterest.exclude = << >>
    BY DEF Fields, NewInterest
  <2> QED BY <1>1, <2>1
<1>6. h.childSelector = FALSE => x(5) = x(4)
  <2> DEFINE left == h.childSelector
             new == NewInterest.childSelector
  <2>1. 5 - 1 = 4 /\ Fields[5] = "childSelector"
    BY DEF Fields
  <2>2. new = FALSE
    BY DEF NewInterest
  <2>3. left = new => x(5) = x(4)
    BY <1>1, <2>1
  <2> HIDE DEF left, new
  <2>4. left = FALSE => x(5) = x(4)
    BY <2>2, <2>3
  <2> QED BY <2>4 DEF left
<1>7. h.answerOriginKind = FALSE => x(6) = x(5)
  <2> DEFINE left == h.answerOriginKind
             new == NewInterest.answerOriginKind
  <2>1. 6 - 1 = 5 /\ Fields[6] = "answerOriginKind"
    BY DEF Fields
  <2>2. new = FALSE
    BY DEF NewInterest
  <2>3. left = new => x(6) = x(5)
    BY <1>1, <2>1
  <2> HIDE DEF left, new
  <2>4. left = FALSE => x(6) = x(5)
    BY <2>2, <2>3
  <2> QED BY <2>4 DEF left
<1>8. h.scope = -1 => x(7) = x(6)
  <2>1. 7 - 1 = 6 /\ Fields[7] = "scope" /\ NewInterest.scope = -1
    BY DEF Fields, NewInterest
  <2> QED BY <1>1, <2>1
<1>9. h.lifetime = 0 => x(8) = x(7)
  <2>1. 8 - 1 = 7 /\ Fields[8] = "lifetime" /\ NewInterest.lifetime = 0
    BY DEF Fields, NewInterest
  <2> QED BY <1>1, <2>1
<1>10. h.nonce = <<0, 0, 0, 0>> => x(9) = x(8)
  <2>1. 9 - 1 = 8 /\ Fields[9] = "nonce" /\ NewInterest.nonce = <<0, 0, 0, 0>>
    BY DEF Fields, NewInterest
  <2> QED BY <1>1, <2>1
<1>11. h.nack = 0 => x(10) = x(9)
  <2>1. 10 - 1 = 9 /\ Fields[10] = "nack" /\ NewInterest.nack = 0
    BY DEF Fields, NewInterest
  <2> QED BY <1>1, <2>1
<1> QED BY <1>3, <1>4, <1>5, <1>6, <1>7, <1>8, <1>9, <1>10, <1>11 DEF x

\* A round of the visit takes what is written of a field.
RoundReads(h, g, trees) ==
    \/ trees = << >> /\ g = h
    \/ \E tree : /\ trees = <<tree>> /\ tree.type = 2 /\ tree.dtag # Dtag.Interest
                 /\ InterestVisitor(h, tree) = g

\* The visitor takes the number that was written,
LEMMA NumberVisited ==
    ASSUME NEW h, NEW dtag \in NumberFields, NEW n \in Nat
    PROVE  LET tree == Tree(Type.dtag, dtag, <<Leaf(Type.udata, Digits(n))>>)
           IN /\ tree.type = 2 /\ tree.dtag # Dtag.Interest
              /\ InterestVisitor(h, tree) = NumberField(h, dtag, n)
<1> DEFINE leaf == Leaf(Type.udata, Digits(n))
           tree == Tree(Type.dtag, dtag, <<leaf>>)
<1>1. leaf.type = Type.udata /\ leaf.data = Digits(n)
  BY DEF Leaf
<1> HIDE DEF leaf
<1>2. tree.type = 2 /\ tree.dtag = dtag /\ tree.nested = <<leaf>>
  BY TypeValues DEF Tree
<1> HIDE DEF tree
<1>3. Len(tree.nested) = 1 /\ tree.nested[1] = leaf
  BY <1>2
<1>4. OnlyText(tree, Type.udata) /\ tree.nested[1].data = Digits(n)
  BY <1>1, <1>3 DEF OnlyText
<1>5. dtag \notin {Dtag.Name, Dtag.Exclude} /\ dtag # Dtag.Interest
  BY DtagValues DEF NumberFields
<1>9. Dtag.InterestLifetime \notin NumberFields /\ Dtag.Nonce \notin NumberFields
  BY DtagValues DEF NumberFields
<1>8. tree.dtag \in NumberFields /\ tree.dtag \notin {Dtag.Name, Dtag.Exclude} /\ tree.dtag = dtag
      /\ tree.dtag # Dtag.InterestLifetime /\ tree.dtag # Dtag.Nonce
  BY <1>2, <1>5, <1>9
<1>6. InterestVisitor(h, tree) = NumberField(h, dtag, NonNegativeInteger(tree.nested[1].data))
  BY <1>4, <1>8 DEF InterestVisitor
<1>7. NonNegativeInteger(Digits(n)) = n
  BY DigitsRead
<1> QED BY <1>2, <1>4, <1>5, <1>6, <1>7 DEF tree, leaf

\* the blob,
LEMMA BlobVisited ==
    ASSUME NEW h, NEW dtag \in {Dtag.InterestLifetime, Dtag.Nonce}, NEW data
    PROVE  LET tree == Tree(Type.dtag, dtag, <<Leaf(Type.blob, data)>>)
           IN /\ tree.type = 2 /\ tree.dtag # Dtag.Interest
              /\ dtag = Dtag.InterestLifetime /\ Len(data) >= 2 =>
                    InterestVisitor(h, tree) = [h EXCEPT !.lifetime = Timestamp(data)]
              /\ dtag = Dtag.Nonce /\ Len(data) >= 4 =>
                    InterestVisitor(h, tree) = [h EXCEPT !.nonce = SubSeq(data, 1, 4)]
<1> DEFINE leaf == Leaf(Type.blob, data)
           tree == Tree(Type.dtag, dtag, <<leaf>>)
<1>1. leaf.type = Type.blob /\ leaf.data = data
  BY DEF Leaf
<1> HIDE DEF leaf
<1>2. tree.type = 2 /\ tree.dtag = dtag /\ tree.nested = <<leaf>>
  BY TypeValues DEF Tree
<1> HIDE DEF tree
<1>3. Len(tree.nested) = 1 /\ tree.nested[1] = leaf
  BY <1>2
<1>4. OnlyText(tree, Type.blob) /\ tree.nested[1].data = data
  BY <1>1, <1>3 DEF OnlyText
<1>5. dtag \notin {Dtag.Name, Dtag.Exclude} /\ dtag # Dtag.Interest /\ dtag \notin NumberFields
      /\ Dtag.InterestLifetime # Dtag.Nonce
  BY DtagValues DEF NumberFields
<1>6. dtag = Dtag.InterestLifetime /\ Len(data) >= 2 =>
          InterestVisitor(h, tree) = [h EXCEPT !.lifetime = Timestamp(data)]
  BY <1>2, <1>4, <1>5 DEF InterestVisitor
<1>7. dtag = Dtag.Nonce /\ Len(data) >= 4 =>
          InterestVisitor(h, tree) = [h EXCEPT !.nonce = SubSeq(data, 1, 4)]
  BY <1>2, <1>4, <1>5 DEF InterestVisitor, HoldsNonce
<1> QED BY <1>2, <1>5, <1>6, <1>7 DEF tree, leaf

\* and the name.
LEMMA NameVisited ==
    ASSUME NEW h, NEW dtag \in {Dtag.Name, Dtag.Exclude}, NEW name \in Seq(Component)
    PROVE  LET tree == Tree(Type.dtag, dtag, NameTrees(name))
           IN /\ tree.type = 2 /\ tree.dtag # Dtag.Interest
              /\ InterestVisitor(h, tree) =
                    IF dtag = Dtag.Name THEN [h EXCEPT !.name = name] ELSE [h EXCEPT !.exclude = name]
<1> DEFINE trees == NameTrees(name)
           tree == Tree(Type.dtag, dtag, trees)
<1>1. NameComponents(trees) = [thrown |-> FALSE, name |-> name]
  <2>1. name \in Seq(Seq(Octet) \ {<< >>})
    BY DEF Component
  <2> QED BY <2>1, NameRead
<1> HIDE DEF trees
<1>2. tree.type = 2 /\ tree.dtag = dtag /\ tree.nested = trees
  BY TypeValues DEF Tree
<1>3. dtag # Dtag.Interest
  BY DtagValues
<1> HIDE DEF tree
<1>5. NameComponents(tree.nested).thrown = FALSE /\ NameComponents(tree.nested).name = name
      /\ tree.dtag \in {Dtag.Name, Dtag.Exclude} /\ tree.dtag = dtag
  BY <1>1, <1>2
<1>6. tree.dtag \notin NumberFields /\ tree.dtag # Dtag.InterestLifetime /\ tree.dtag # Dtag.Nonce
  BY <1>5, DtagValues DEF NumberFields
<1>4. InterestVisitor(h, tree) =
          IF dtag = Dtag.Name THEN [h EXCEPT !.name = name] ELSE [h EXCEPT !.exclude = name]
  BY <1>5, <1>6 DEF InterestVisitor
<1> QED BY <1>2, <1>3, <1>4 DEF tree, trees

\* Field by field, what is written of an Interest is taken from it.
LEMMA FieldRead ==
    ASSUME NEW h \in ProperInterests, Carried(h.lifetime)
    PROVE  \A n \in 1 .. 10 : RoundReads(Partial(h, n - 1), Partial(h, n), Trees(h)[n])
<1>0. /\ h.name \in Seq(Component) /\ h.exclude \in Seq(Component)
      /\ h.minSuffix \in Int /\ h.minSuffix >= -1 /\ h.maxSuffix \in Int /\ h.maxSuffix >= -1
      /\ h.scope \in Int /\ h.scope >= -1 /\ h.scope <= 127 /\ h.lifetime \in Nat /\ h.nack \in Nat
      /\ h.childSelector \in BOOLEAN /\ h.answerOriginKind \in BOOLEAN
      /\ h.nonce \in Seq(Octet) /\ Len(h.nonce) = 4
  <2>1. h \in InterestHeaders /\ h.scope \in -1 .. 127
    BY DEF ProperInterests
  <2>2. h.scope \in Int /\ h.scope >= -1 /\ h.scope <= 127
    <3> DEFINE x == h.scope
               m == -1
    <3>1. x \in m .. 127 /\ m \in Int
      BY <2>1
    <3> HIDE DEF x, m
    <3>2. x \in Int /\ x >= m /\ x <= 127
      BY <3>1
    <3> QED BY <3>2 DEF x, m
  <2> QED BY <2>1, <2>2 DEF ProperInterests, InterestHeaders, HeadersNamed
<1>1. RoundReads(Partial(h, 0), Partial(h, 1), Trees(h)[1])
  <2> DEFINE tree == Tree(Type.dtag, Dtag.Name, NameTrees(h.name))
  <2>1. Trees(h)[1] = <<tree>>
    BY DEF Trees
  <2>2. /\ tree.type = 2 /\ tree.dtag # Dtag.Interest
        /\ InterestVisitor(Partial(h, 0), tree) = [Partial(h, 0) EXCEPT !.name = h.name]
    BY <1>0, NameVisited
  <2> HIDE DEF tree
  <2>3. [Partial(h, 0) EXCEPT !.name = h.name] = Partial(h, 1)
    BY FieldsSet
  <2> QED BY <2>1, <2>2, <2>3 DEF RoundReads
<1>2. RoundReads(Partial(h, 1), Partial(h, 2), Trees(h)[2])
  <2>1. CASE h.minSuffix >= 0
    <3> DEFINE tree == Tree(Type.dtag, Dtag.MinSuffixComponents, <<Leaf(Type.udata, Digits(h.minSuffix))>>)
    <3>1. Trees(h)[2] = <<tree>>
      BY <2>1 DEF Trees, If
    <3>2. h.minSuffix \in Nat /\ Dtag.MinSuffixComponents \in NumberFields
      BY <1>0, <2>1 DEF NumberFields
    <3>3. /\ tree.type = 2 /\ tree.dtag # Dtag.Interest
          /\ InterestVisitor(Partial(h, 1), tree) = NumberField(Partial(h, 1), Dtag.MinSuffixComponents, h.minSuffix)
      BY <3>2, NumberVisited
    <3> HIDE DEF tree
    <3>6. NumberField(Partial(h, 1), Dtag.MinSuffixComponents, h.minSuffix) = [Partial(h, 1) EXCEPT !.minSuffix = h.minSuffix]
      BY DtagValues DEF NumberField
    <3>4. NumberField(Partial(h, 1), Dtag.MinSuffixComponents, h.minSuffix) = Partial(h, 2)
      BY <3>6, FieldsSet
    <3> QED BY <3>1, <3>3, <3>4 DEF RoundReads
  <2>2. CASE ~(h.minSuffix >= 0)
    <3>1. Trees(h)[2] = << >>
      BY <2>2 DEF Trees, If
    <3>2. h.minSuffix = -1
      BY <1>0, <2>2
    <3>3. Partial(h, 2) = Partial(h, 1)
      BY <3>2, FieldsLeft
    <3> QED BY <3>1, <3>3 DEF RoundReads
  <2> QED BY <2>1, <2>2
<1>3. RoundReads(Partial(h, 2), Partial(h, 3), Trees(h)[3])
  <2>1. CASE h.maxSuffix >= 0
    <3> DEFINE tree == Tree(Type.dtag, Dtag.MaxSuffixComponents, <<Leaf(Type.udata, Digits(h.maxSuffix))>>)
    <3>1. Trees(h)[3] = <<tree>>
      BY <2>1 DEF Trees, If
    <3>2. h.maxSuffix \in Nat /\ Dtag.MaxSuffixComponents \in NumberFields
      BY <1>0, <2>1 DEF NumberFields
    <3>3. /\ tree.type = 2 /\ tree.dtag # Dtag.Interest
          /\ InterestVisitor(Partial(h, 2), tree) = NumberField(Partial(h, 2), Dtag.MaxSuffixComponents, h.maxSuffix)
      BY <3>2, NumberVisited
    <3> HIDE DEF tree
    <3>6. NumberField(Partial(h, 2), Dtag.MaxSuffixComponents, h.maxSuffix) = [Partial(h, 2) EXCEPT !.maxSuffix = h.maxSuffix]
      BY DtagValues DEF NumberField
    <3>4. NumberField(Partial(h, 2), Dtag.MaxSuffixComponents, h.maxSuffix) = Partial(h, 3)
      BY <3>6, FieldsSet
    <3> QED BY <3>1, <3>3, <3>4 DEF RoundReads
  <2>2. CASE ~(h.maxSuffix >= 0)
    <3>1. Trees(h)[3] = << >>
      BY <2>2 DEF Trees, If
    <3>2. h.maxSuffix = -1
      BY <1>0, <2>2
    <3>3. Partial(h, 3) = Partial(h, 2)
      BY <3>2, FieldsLeft
    <3> QED BY <3>1, <3>3 DEF RoundReads
  <2> QED BY <2>1, <2>2
<1>4. RoundReads(Partial(h, 3), Partial(h, 4), Trees(h)[4])
  <2>1. CASE h.exclude # << >>
    <3> DEFINE tree == Tree(Type.dtag, Dtag.Exclude, NameTrees(h.exclude))
    <3>1. Trees(h)[4] = <<tree>>
      BY <2>1 DEF Trees, If
    <3>4. Dtag.Exclude # Dtag.Name /\ Dtag.Exclude \in {Dtag.Name, Dtag.Exclude}
      BY DtagValues
    <3>5. /\ tree.type = 2 /\ tree.dtag # Dtag.Interest
          /\ InterestVisitor(Partial(h, 3), tree) =
                IF Dtag.Exclude = Dtag.Name THEN [Partial(h, 3) EXCEPT !.name = h.exclude]
                ELSE [Partial(h, 3) EXCEPT !.exclude = h.exclude]
      BY <1>0, <3>4, NameVisited
    <3>2. /\ tree.type = 2 /\ tree.dtag # Dtag.Interest
          /\ InterestVisitor(Partial(h, 3), tree) = [Partial(h, 3) EXCEPT !.exclude = h.exclude]
      BY <3>4, <3>5
    <3> HIDE DEF tree
    <3>3. [Partial(h, 3) EXCEPT !.exclude = h.exclude] = Partial(h, 4)
      BY FieldsSet
    <3> QED BY <3>1, <3>2, <3>3 DEF RoundReads
  <2>2. CASE ~(h.exclude # << >>)
    <3>1. Trees(h)[4] = << >>
      BY <2>2 DEF Trees, If
    <3>2. h.exclude = << >>
      BY <1>0, <2>2
    <3>3. Partial(h, 4) = Partial(h, 3)
      BY <3>2, FieldsLeft
    <3> QED BY <3>1, <3>3 DEF RoundReads
  <2> QED BY <2>1, <2>2
<1>5. RoundReads(Partial(h, 4), Partial(h, 5), Trees(h)[5])
  <2>1. CASE h.childSelector
    <3> DEFINE tree == Tree(Type.dtag, Dtag.ChildSelector, <<Leaf(Type.udata, Digits(1))>>)
    <3>1. Trees(h)[5] = <<tree>>
      BY <2>1 DEF Trees, If
    <3>2. 1 \in Nat /\ Dtag.ChildSelector \in NumberFields
      BY <1>0, <2>1 DEF NumberFields
    <3>3. /\ tree.type = 2 /\ tree.dtag # Dtag.Interest
          /\ InterestVisitor(Partial(h, 4), tree) = NumberField(Partial(h, 4), Dtag.ChildSelector, 1)
      BY <3>2, NumberVisited
    <3> HIDE DEF tree
    <3>7. NumberField(Partial(h, 4), Dtag.ChildSelector, 1) = [Partial(h, 4) EXCEPT !.childSelector = (1 = 1)]
      BY DtagValues DEF NumberField
    <3>6. NumberField(Partial(h, 4), Dtag.ChildSelector, 1) = [Partial(h, 4) EXCEPT !.childSelector = TRUE]
      BY <3>7
    <3>5. h.childSelector = TRUE
      BY <1>0, <2>1
    <3>4. NumberField(Partial(h, 4), Dtag.ChildSelector, 1) = Partial(h, 5)
      BY <3>5, <3>6, FieldsSet
    <3> QED BY <3>1, <3>3, <3>4 DEF RoundReads
  <2>2. CASE ~(h.childSelector)
    <3>1. Trees(h)[5] = << >>
      BY <2>2 DEF Trees, If
    <3>2. h.childSelector = FALSE
      BY <1>0, <2>2
    <3>3. Partial(h, 5) = Partial(h, 4)
      BY <3>2, FieldsLeft
    <3> QED BY <3>1, <3>3 DEF RoundReads
  <2> QED BY <2>1, <2>2
<1>6. RoundReads(Partial(h, 5), Partial(h, 6), Trees(h)[6])
  <2>1. CASE h.answerOriginKind
    <3> DEFINE tree == Tree(Type.dtag, Dtag.AnswerOriginKind, <<Leaf(Type.udata, Digits(1))>>)
    <3>1. Trees(h)[6] = <<tree>>
      BY <2>1 DEF Trees, If
    <3>2. 1 \in Nat /\ Dtag.AnswerOriginKind \in NumberFields
      BY <1>0, <2>1 DEF NumberFields
    <3>3. /\ tree.type = 2 /\ tree.dtag # Dtag.Interest
          /\ InterestVisitor(Partial(h, 5), tree) = NumberField(Partial(h, 5), Dtag.AnswerOriginKind, 1)
      BY <3>2, NumberVisited
    <3> HIDE DEF tree
    <3>7. NumberField(Partial(h, 5), Dtag.AnswerOriginKind, 1) = [Partial(h, 5) EXCEPT !.answerOriginKind = (1 = 1)]
      BY DtagValues DEF NumberField
    <3>6. NumberField(Partial(h, 5), Dtag.AnswerOriginKind, 1) = [Partial(h, 5) EXCEPT !.answerOriginKind = TRUE]
      BY <3>7
    <3>5. h.answerOriginKind = TRUE
      BY <1>0, <2>1
    <3>4. NumberField(Partial(h, 5), Dtag.AnswerOriginKind, 1) = Partial(h, 6)
      BY <3>5, <3>6, FieldsSet
    <3> QED BY <3>1, <3>3, <3>4 DEF RoundReads
  <2>2. CASE ~(h.answerOriginKind)
    <3>1. Trees(h)[6] = << >>
      BY <2>2 DEF Trees, If
    <3>2. h.answerOriginKind = FALSE
      BY <1>0, <2>2
    <3>3. Partial(h, 6) = Partial(h, 5)
      BY <3>2, FieldsLeft
    <3> QED BY <3>1, <3>3 DEF RoundReads
  <2> QED BY <2>1, <2>2
<1>7. RoundReads(Partial(h, 6), Partial(h, 7), Trees(h)[7])
  <2>1. CASE h.scope >= 0
    <3> DEFINE tree == Tree(Type.dtag, Dtag.Scope, <<Leaf(Type.udata, Digits(h.scope))>>)
    <3>1. Trees(h)[7] = <<tree>>
      BY <2>1 DEF Trees, If
    <3>2. h.scope \in Nat /\ Dtag.Scope \in NumberFields
      BY <1>0, <2>1 DEF NumberFields
    <3>3. /\ tree.type = 2 /\ tree.dtag # Dtag.Interest
          /\ InterestVisitor(Partial(h, 6), tree) = NumberField(Partial(h, 6), Dtag.Scope, h.scope)
      BY <3>2, NumberVisited
    <3> HIDE DEF tree
    <3>5. SignedByte(h.scope % 256) = h.scope
      <4> DEFINE x == h.scope
      <4>2. x \in Int /\ x >= 0 /\ x <= 127
        BY <1>0, <2>1
      <4> HIDE DEF x
      <4>3. x \in 0 .. 127 /\ x % 256 = x
        BY <4>2
      <4>1. h.scope \in 0 .. 127 /\ h.scope % 256 = h.scope
        BY <4>3 DEF x
      <4> QED BY <4>1 DEF SignedByte
    <3>6. NumberField(Partial(h, 6), Dtag.Scope, h.scope) = [Partial(h, 6) EXCEPT !.scope = h.scope]
      BY <3>5, DtagValues DEF NumberField
    <3>4. NumberField(Partial(h, 6), Dtag.Scope, h.scope) = Partial(h, 7)
      BY <3>6, FieldsSet
    <3> QED BY <3>1, <3>3, <3>4 DEF RoundReads
  <2>2. CASE ~(h.scope >= 0)
    <3>1. Trees(h)[7] = << >>
      BY <2>2 DEF Trees, If
    <3>2. h.scope = -1
      BY <1>0, <2>2
    <3>3. Partial(h, 7) = Partial(h, 6)
      BY <3>2, FieldsLeft
    <3> QED BY <3>1, <3>3 DEF RoundReads
  <2> QED BY <2>1, <2>2
<1>8. RoundReads(Partial(h, 7), Partial(h, 8), Trees(h)[8])
  <2>1. CASE h.lifetime # 0
    <3> DEFINE tree == Tree(Type.dtag, Dtag.InterestLifetime, <<Leaf(Type.blob, TimeBytes(h.lifetime))>>)
    <3>1. Trees(h)[8] = <<tree>>
      BY <2>1 DEF Trees, If
    <3>4. Len(TimeBytes(h.lifetime)) >= 2 /\ Timestamp(TimeBytes(h.lifetime)) = h.lifetime
      BY <1>0, TimestampRead
    <3>5. tree.type = 2 /\ tree.dtag # Dtag.Interest
      BY BlobVisited
    <3>6. InterestVisitor(Partial(h, 7), tree) = [Partial(h, 7) EXCEPT !.lifetime = Timestamp(TimeBytes(h.lifetime))]
      BY <3>4, BlobVisited
    <3>2. /\ tree.type = 2 /\ tree.dtag # Dtag.Interest
          /\ InterestVisitor(Partial(h, 7), tree) = [Partial(h, 7) EXCEPT !.lifetime = h.lifetime]
      BY <3>4, <3>5, <3>6
    <3> HIDE DEF tree
    <3>3. [Partial(h, 7) EXCEPT !.lifetime = h.lifetime] = Partial(h, 8)
      BY FieldsSet
    <3> QED BY <3>1, <3>2, <3>3 DEF RoundReads
  <2>2. CASE ~(h.lifetime # 0)
    <3>1. Trees(h)[8] = << >>
      BY <2>2 DEF Trees, If
    <3>2. h.lifetime = 0
      BY <1>0, <2>2
    <3>3. Partial(h, 8) = Partial(h, 7)
      BY <3>2, FieldsLeft
    <3> QED BY <3>1, <3>3 DEF RoundReads
  <2> QED BY <2>1, <2>2
<1>9. RoundReads(Partial(h, 8), Partial(h, 9), Trees(h)[9])
  <2>1. CASE h.nonce # <<0, 0, 0, 0>>
    <3> DEFINE tree == Tree(Type.dtag, Dtag.Nonce, <<Leaf(Type.blob, h.nonce)>>)
    <3>8. h.nonce # << >>
      <4> DEFINE s == h.nonce
      <4>1. Len(s) = 4
        BY <1>0
      <4> HIDE DEF s
      <4>2. s # << >>
        BY <4>1
      <4> QED BY <4>2 DEF s
    <3>1. Trees(h)[9] = <<tree>>
      BY <2>1, <3>8 DEF Trees, If, BlobTrees
    <3>4. SubSeq(h.nonce, 1, 4) = h.nonce
      <4> DEFINE s == h.nonce
      <4>1. s \in Seq(Octet) /\ Len(s) = 4
        BY <1>0
      <4> HIDE DEF s
      <4>2. SubSeq(s, 1, Len(s)) = s
        BY <4>1
      <4> QED BY <4>1, <4>2 DEF s
    <3>5. tree.type = 2 /\ tree.dtag # Dtag.Interest
      BY BlobVisited
    <3>6. InterestVisitor(Partial(h, 8), tree) = [Partial(h, 8) EXCEPT !.nonce = SubSeq(h.nonce, 1, 4)]
      <4>1. Len(h.nonce) >= 4
        BY <1>0
      <4> QED BY <4>1, BlobVisited
    <3>2. /\ tree.type = 2 /\ tree.dtag # Dtag.Interest
          /\ InterestVisitor(Partial(h, 8), tree) = [Partial(h, 8) EXCEPT !.nonce = h.nonce]
      BY <3>4, <3>5, <3>6
    <3> HIDE DEF tree
    <3>3. [Partial(h, 8) EXCEPT !.nonce = h.nonce] = Partial(h, 9)
      BY FieldsSet
    <3> QED BY <3>1, <3>2, <3>3 DEF RoundReads
  <2>2. CASE ~(h.nonce # <<0, 0, 0, 0>>)
    <3>1. Trees(h)[9] = << >>
      BY <2>2 DEF Trees, If
    <3>2. h.nonce = <<0, 0, 0, 0>>
      BY <1>0, <2>2
    <3>3. Partial(h, 9) = Partial(h, 8)
      BY <3>2, FieldsLeft
    <3> QED BY <3>1, <3>3 DEF RoundReads
  <2> QED BY <2>1, <2>2
<1>10. RoundReads(Partial(h, 9), Partial(h, 10), Trees(h)[10])
  <2>1. CASE h.nack > 0
    <3> DEFINE tree == Tree(Type.dtag, Dtag.Nack, <<Leaf(Type.udata, Digits(h.nack))>>)
    <3>1. Trees(h)[10] = <<tree>>
      BY <2>1 DEF Trees, If
    <3>2. h.nack \in Nat /\ Dtag.Nack \in NumberFields
      BY <1>0, <2>1 DEF NumberFields
    <3>3. /\ tree.type = 2 /\ tree.dtag # Dtag.Interest
          /\ InterestVisitor(Partial(h, 9), tree) = NumberField(Partial(h, 9), Dtag.Nack, h.nack)
      BY <3>2, NumberVisited
    <3> HIDE DEF tree
    <3>6. NumberField(Partial(h, 9), Dtag.Nack, h.nack) = [Partial(h, 9) EXCEPT !.nack = h.nack]
      BY DtagValues DEF NumberField
    <3>4. NumberField(Partial(h, 9), Dtag.Nack, h.nack) = Partial(h, 10)
      BY <3>6, FieldsSet
    <3> QED BY <3>1, <3>3, <3>4 DEF RoundReads
  <2>2. CASE ~(h.nack > 0)
    <3>1. Trees(h)[10] = << >>
      BY <2>2 DEF Trees, If
    <3>2. h.nack = 0
      BY <1>0, <2>2
    <3>3. Partial(h, 10) = Partial(h, 9)
      BY <3>2, FieldsLeft
    <3> QED BY <3>1, <3>3 DEF RoundReads
  <2> QED BY <2>1, <2>2
<1> SUFFICES ASSUME NEW n \in 1 .. 10
             PROVE  RoundReads(Partial(h, n - 1), Partial(h, n), Trees(h)[n])
  OBVIOUS
<1>11. n = 1 \/ n = 2 \/ n = 3 \/ n = 4 \/ n = 5 \/ n = 6 \/ n = 7 \/ n = 8 \/ n = 9 \/ n = 10
  OBVIOUS
<1>12. 1 - 1 = 0 /\ 2 - 1 = 1 /\ 3 - 1 = 2 /\ 4 - 1 = 3 /\ 5 - 1 = 4 /\ 6 - 1 = 5 /\ 7 - 1 = 6
       /\ 8 - 1 = 7 /\ 9 - 1 = 8 /\ 10 - 1 = 9
  OBVIOUS
<1> QED BY <1>1, <1>2, <1>3, <1>4, <1>5, <1>6, <1>7, <1>8, <1>9, <1>10, <1>11, <1>12

(***************************************************************************)
(* DeserializeInterest takes from every packet which begins with what      *)
(* SerializeInterest has written the header that was written: each of its  *)
(* fields, whatever follows in the packet.                                 *)
(***************************************************************************)
THEOREM InterestRead ==
    ASSUME NEW h \in ProperInterests, Carried(h.lifetime),
           NEW d \in Seq(Octet), Len(d) < Beyond, HasAt(d, 1, SerializeInterest(h))
    PROVE  DeserializeInterest(d) = h
<1> DEFINE p == Parts(h)
           t == Trees(h)
           bytes == SerializeInterest(h)
           tree == Tree(Type.dtag, Dtag.Interest, FlattenSeq(t))
           size == Len(d)
           N == Len(p)
<1>1. h \in InterestHeaders
  BY DEF ProperInterests
<1>2. p \in Seq(Seq(Octet)) /\ N \in Nat /\ N = 10
  BY <1>1, PartsAndTrees
<1>3. PICK U : t \in Seq(Seq(U)) /\ Len(t) = 10
  BY <1>1, PartsAndTrees
<1>4. \A n \in 1 .. N : PartGood(p[n], t[n])
  BY <1>1, <1>2, PartsGood
<1>5. \A n \in 1 .. N : RoundReads(Partial(h, n - 1), Partial(h, n), t[n])
  BY <1>2, FieldRead
<1>6. Reads(bytes, tree) /\ IsSequence(FlattenSeq(t))
  BY <1>1, InterestParsed
<1>7. bytes = Element(Dtag.Interest, FlattenSeq(p)) /\ FlattenSeq(p) \in Seq(Octet)
  BY <1>1, InterestWritten
<1>8. size \in Nat
  OBVIOUS
<1>9. /\ bytes \in Seq(Octet) /\ Len(FlattenSeq(p)) \in Nat
      /\ Len(bytes) \in Nat /\ Len(bytes) >= Len(FlattenSeq(p)) + 1
  <2>1. Dtag.Interest \in Nat
    BY DtagValues
  <2>2. /\ bytes \in Seq(Octet) /\ Len(FlattenSeq(p)) \in Nat
        /\ Len(bytes) = EstimateBlockHeader(Dtag.Interest) + Len(FlattenSeq(p)) + 1
        /\ EstimateBlockHeader(Dtag.Interest) \in Nat
    BY <1>7, <2>1, ElementWritten
  <2> QED BY <2>2
<1>10. HasAt(d, 1, bytes)
  OBVIOUS
<1> HIDE DEF p, t, bytes, tree, size, N
<1>11. Len(bytes) <= size /\ 1 \in 1 .. Len(d)
  <2>0. Len(d) \in Nat
    OBVIOUS
  <2>1. 1 \in 1 .. Len(d) + 1
    BY <2>0
  <2>2. 1 + Len(bytes) \in 1 .. Len(d) + 1
    BY <1>9, <1>10, <2>1, HasRange
  <2> QED BY <1>9, <2>0, <2>2 DEF size
<1>12. SyntaxTree(d) = Parsed(tree, 1 + Len(bytes))
  BY <1>6, <1>10, <1>11 DEF Reads, SyntaxTree
<1>13. DeserializeInterest(d) = Visited(NewInterest, tree, size)
  <2>1. SyntaxTree(d).outcome = "parsed" /\ SyntaxTree(d).block = tree
    BY <1>12 DEF Parsed
  <2> QED BY <2>1 DEF DeserializeInterest, Deserialize, HeaderRead, size
<1>14. PICK v : VisitRounds(v, NewInterest, tree, size) /\ Visited(NewInterest, tree, size) = v[size].header
  BY <1>8, VisitedLoop
<1>26. /\ v[0] = [todo |-> <<tree>>, header |-> NewInterest]
       /\ \A n \in 1 .. size : v[n] = Visit(v[n - 1])
  BY <1>14 DEF VisitRounds
<1>15. PICK f : /\ f[0] = << >>
                /\ \A n \in 1 .. N : f[n] = f[n - 1] \o p[n]
                /\ \A n \in 0 .. N : f[n] \in Seq(Octet)
                /\ FlattenSeq(p) = f[N]
  <2>1. \E f : /\ f[0] = << >>
               /\ \A n \in 1 .. Len(p) : f[n] = f[n - 1] \o p[n]
               /\ \A n \in 0 .. Len(p) : f[n] \in Seq(Octet)
               /\ FlattenSeq(p) = f[Len(p)]
    BY <1>2, FlattenFromEmpty
  <2> QED BY <2>1 DEF N
<1>16. PICK r : /\ r[N] = << >>
                /\ \A n \in 1 .. N : r[n - 1] = t[n] \o r[n]
                /\ \A n \in 0 .. N : r[n] \in Seq(U)
                /\ FlattenSeq(t) = r[0]
  <2>1. \E r : /\ r[Len(t)] = << >>
               /\ \A n \in 1 .. Len(t) : r[n - 1] = t[n] \o r[n]
               /\ \A n \in 0 .. Len(t) : r[n] \in Seq(U)
               /\ FlattenSeq(t) = r[0]
    BY <1>3, FlattenTail
  <2>2. Len(t) = N
    BY <1>2, <1>3
  <2> QED BY <2>1, <2>2
<1> DEFINE length(n) == Len(f[n])
<1>17. \A n \in 0 .. N : length(n) \in Nat
  BY <1>15
<1>18. \A n \in 1 .. N : length(n) = length(n - 1) + Len(p[n]) /\ Len(p[n]) \in Nat
                         /\ Len(t[n]) <= Len(p[n])
  <2> SUFFICES ASSUME NEW n \in 1 .. N
               PROVE  length(n) = length(n - 1) + Len(p[n]) /\ Len(p[n]) \in Nat
                      /\ Len(t[n]) <= Len(p[n])
    OBVIOUS
  <2> DEFINE a == f[n - 1]
             b == p[n]
  <2>1. n - 1 \in 0 .. N
    BY <1>2
  <2>2. a \in Seq(Octet) /\ b \in Seq(Octet) /\ f[n] = a \o b /\ Len(t[n]) <= Len(b)
    BY <1>4, <1>15, <2>1 DEF PartGood
  <2> HIDE DEF a, b
  <2>3. Len(a \o b) = Len(a) + Len(b) /\ Len(b) \in Nat
    BY <2>2, Joined
  <2> QED BY <2>2, <2>3 DEF a, b
<1>19. \A n \in 0 .. N : 1 + length(n) <= size
  <2> DEFINE T == {k \in 0 .. N : length(N - k) <= length(N)}
  <2>1. 0 \in T
    <3>1. N - 0 = N /\ 0 \in 0 .. N /\ N \in 0 .. N
      BY <1>2
    <3>2. length(N) \in Nat
      BY <1>17, <3>1
    <3> HIDE DEF length
    <3> QED BY <3>1, <3>2
  <2>2. ASSUME NEW k \in 1 .. N, k - 1 \in T
        PROVE  k \in T
    <3> DEFINE n == N - (k - 1)
    <3>1. n \in 1 .. N /\ n - 1 = N - k /\ k \in 0 .. N /\ N - k \in 0 .. N /\ n \in 0 .. N /\ N \in 0 .. N
      BY <1>2
    <3>2. length(n) <= length(N)
      BY <2>2
    <3> HIDE DEF n
    <3>3. length(n) = length(n - 1) + Len(p[n]) /\ Len(p[n]) \in Nat
      BY <1>18, <3>1
    <3>4. length(n - 1) \in Nat /\ length(N) \in Nat /\ length(n) \in Nat
      BY <1>17, <3>1
    <3> HIDE DEF length
    <3>5. length(n - 1) <= length(N)
      BY <3>2, <3>3, <3>4
    <3> QED BY <3>1, <3>5
  <2>3. T = 0 .. N
    <3> HIDE DEF length
    <3> QED BY <1>2, <2>1, <2>2, UpToInduction
  <2> SUFFICES ASSUME NEW n \in 0 .. N
               PROVE  1 + length(n) <= size
    OBVIOUS
  <2>4. N - n \in 0 .. N /\ N - (N - n) = n /\ N \in 0 .. N
    BY <1>2
  <2>5. N - n \in T
    BY <2>3, <2>4
  <2>6. length(n) <= length(N)
    <3> HIDE DEF length
    <3> QED BY <2>4, <2>5
  <2>7. length(N) + 1 <= size
    BY <1>7, <1>8, <1>9, <1>11, <1>15
  <2>8. length(n) \in Nat /\ length(N) \in Nat
    BY <1>17, <2>4
  <2> HIDE DEF length
  <2> QED BY <1>8, <2>6, <2>7, <2>8
<1> DEFINE T == {n \in 0 .. N : \E m \in Nat : /\ m <= 1 + length(n)
                                              /\ v[m] = [todo |-> r[n], header |-> Partial(h, n)]}
<1>20. 0 \in T
  <2>1. ~(<<tree>> = << >>) /\ Head(<<tree>>) = tree /\ Tail(<<tree>>) = << >>
    BY OneBlock
  <2>2. tree.type = 2 /\ tree.dtag = Dtag.Interest /\ tree.nested = r[0]
    BY <1>16, TypeValues DEF tree, Tree
  <2>3. NewInterest.kind = "interest"
    BY DEF NewInterest
  <2>4. Opens(NewInterest, tree)
    BY <2>2, <2>3 DEF Opens
  <2>5. r[0] \o << >> = r[0]
    <3>1. IsSequence(r[0])
      BY <1>6, <1>16
    <3> QED BY <3>1, SequencesJoined
  <2>6. Visit(v[0]) = [todo |-> r[0], header |-> NewInterest]
    <3> DEFINE x == v[0]
               todo == <<tree>>
               hd == NewInterest
    <3>1. x.todo = todo /\ x.header = hd /\ x = [todo |-> todo, header |-> hd]
      BY <1>26
    <3>2. todo # << >> /\ hd.kind # "thrown" /\ Head(todo) = tree /\ Tail(todo) = << >>
      BY <2>1, <2>3
    <3>3. Opens(hd, tree)
      BY <2>4
    <3> HIDE DEF x, todo, hd
    <3>4. Visit(x) = [x EXCEPT !.todo = tree.nested \o Tail(todo)]
      BY <3>1, <3>2, <3>3 DEF Visit
    <3>5. tree.nested \o Tail(todo) = r[0]
      BY <2>2, <2>5, <3>2
    <3>6. [x EXCEPT !.todo = r[0]] = [todo |-> r[0], header |-> hd]
      BY <3>1
    <3> QED BY <3>4, <3>5, <3>6 DEF x, hd
  <2>7. 1 \in 1 .. size /\ 1 - 1 = 0 /\ 1 \in Nat /\ 0 \in 0 .. N
    BY <1>2, <1>11 DEF size
  <2>8. v[1] = [todo |-> r[0], header |-> NewInterest]
    BY <1>26, <2>6, <2>7
  <2>9. Partial(h, 0) = NewInterest
    BY <1>1, PartialEnds
  <2>10. 1 <= 1 + length(0)
    <3>1. length(0) \in Nat
      BY <1>17, <2>7
    <3> HIDE DEF length
    <3> QED BY <3>1
  <2> QED BY <2>7, <2>8, <2>9, <2>10
<1>21. ASSUME NEW n \in 1 .. N, n - 1 \in T
       PROVE  n \in T
  <2>0. n - 1 \in 0 .. N /\ n \in 0 .. N
    BY <1>2
  <2> DEFINE trees == t[n]
             rest == r[n]
             x == Partial(h, n - 1)
             y == Partial(h, n)
             bound == 1 + length(n)
  <2>1. PICK m \in Nat : /\ m <= 1 + length(n - 1)
                         /\ v[m] = [todo |-> r[n - 1], header |-> x]
    BY <1>21
  <2>2. v[m] = [todo |-> trees \o rest, header |-> x] /\ x.kind = "interest"
    <3>1. r[n - 1] = trees \o rest
      BY <1>16
    <3>2. x.kind = "interest"
      BY <1>1, <2>0, PartialEnds
    <3> QED BY <2>1, <3>1, <3>2
  <2>3. IsSequence(rest)
    <3>1. rest \in Seq(U)
      BY <1>16, <2>0
    <3> HIDE DEF rest
    <3> QED BY <3>1 DEF IsSequence
  <2>4. length(n) = length(n - 1) + Len(p[n]) /\ Len(p[n]) \in Nat /\ Len(trees) <= Len(p[n])
    BY <1>18
  <2>5. length(n) \in Nat /\ length(n - 1) \in Nat
    BY <1>17, <2>0
  <2>6. bound \in Nat /\ m <= bound /\ bound <= size /\ (Len(trees) = 1 => m < bound)
    <3>1. 1 + length(n) <= size
      BY <1>19, <2>0
    <3> DEFINE a == length(n)
               b == length(n - 1)
               c == Len(p[n])
               e == Len(trees)
    <3>2. bound = 1 + a /\ m <= 1 + b /\ a = b + c /\ c \in Nat /\ e <= c /\ a \in Nat /\ b \in Nat
          /\ 1 + a <= size
      BY <2>1, <2>4, <2>5, <3>1
    <3> HIDE DEF a, b, c, e, bound
    <3>3. bound \in Nat /\ m <= bound /\ bound <= size
      BY <3>2
    <3>4. e = 1 => m < bound
      BY <3>2
    <3> QED BY <3>3, <3>4 DEF e
  <2>7. RoundReads(x, y, trees)
    BY <1>5
  <2> HIDE DEF trees, rest, x, y, bound
  <2>8. Reaches(v, bound, rest, y)
    <3>1. CASE trees = << >> /\ y = x
      BY <1>8, <1>14, <2>2, <2>3, <2>6, <3>1, FieldVisited
    <3>2. CASE \E b : /\ trees = <<b>> /\ b.type = 2 /\ b.dtag # Dtag.Interest
                      /\ InterestVisitor(x, b) = y
      <4>1. PICK b : /\ trees = <<b>> /\ b.type = 2 /\ b.dtag # Dtag.Interest
                     /\ InterestVisitor(x, b) = y
        BY <3>2
      <4>2. Len(trees) = 1
        BY <4>1
      <4>3. m < bound
        BY <2>6, <4>2
      <4>4. /\ trees = <<b>> /\ m < bound
            /\ b.type = 2 /\ b.dtag # Dtag.Interest
            /\ InterestVisitor(x, b) = y
        BY <4>1, <4>3
      <4> QED BY <1>8, <1>14, <2>2, <2>3, <2>6, <4>4, FieldVisited
    <3> QED BY <2>7, <3>1, <3>2 DEF RoundReads
  <2> QED BY <2>0, <2>8 DEF Reaches, bound, rest, y
<1>22. N \in T
  <2> HIDE DEF length
  <2>1. T = 0 .. N
    BY <1>2, <1>20, <1>21, UpToInduction
  <2>2. N \in 0 .. N
    BY <1>2
  <2> QED BY <2>1, <2>2
<1>23. PICK m \in Nat : m <= 1 + length(N) /\ v[m] = [todo |-> << >>, header |-> Partial(h, N)]
  BY <1>16, <1>22
<1>24. v[size] = v[m]
  <2>1. m <= size
    <3>1. N \in 0 .. N
      BY <1>2
    <3>2. 1 + length(N) <= size /\ length(N) \in Nat
      BY <1>17, <1>19, <3>1
    <3> HIDE DEF length
    <3> QED BY <1>8, <1>23, <3>2
  <2>2. v[m].todo = << >>
    BY <1>23
  <2> QED BY <1>8, <1>26, <2>1, <2>2, VisitEnds
<1>25. v[m].header = h
  <2>1. Partial(h, 10) = h
    BY <1>1, PartialEnds
  <2>2. v[m].header = Partial(h, N)
    BY <1>23
  <2> QED BY <1>2, <2>1, <2>2
<1> QED BY <1>13, <1>14, <1>24, <1>25

-----------------------------------------------------------------------------
(* Contents *)

\* Headers of contents with names that can come back as they were.
ContentHeaders == [kind : {"content"}, name : Seq(Component)]

\* What a content encloses before its payload, and what the parser makes of it.
ContentParts(h) ==
    Element(Dtag.Signature, AppendTaggedBlob(Dtag.SignatureBits, << >>))
        \o (Element(Dtag.Name, AppendNameComponents(h.name))
            \o Element(Dtag.SignedInfo, AppendTaggedBlob(Dtag.PublisherPublicKeyDigest, << >>)))

\* The trees of its fields.
EmptyField(dtag, inner) == Tree(Type.dtag, dtag, <<Tree(Type.dtag, inner, << >>)>>)
SignatureTree == EmptyField(Dtag.Signature, Dtag.SignatureBits)
SignedInfoTree == EmptyField(Dtag.SignedInfo, Dtag.PublisherPublicKeyDigest)
NameTree(name) == Tree(Type.dtag, Dtag.Name, NameTrees(name))
ContentTree == Tree(Type.dtag, Dtag.Content, << >>)

\* Names are sequences of sequences of bytes.
LEMMA NamesAreSequences ==
    ASSUME NEW name \in Seq(Component)
    PROVE  name \in Seq(Seq(Octet))
<1>1. Component \subseteq Seq(Octet)
  BY DEF Component
<1>2. Len(name) \in Nat /\ name \in [1 .. Len(name) -> Seq(Octet)]
  BY <1>1
<1> QED BY <1>2, SequenceOf

\* An empty blob in two elements, as of the signature.
LEMMA EmptyFieldBegins ==
    ASSUME NEW dtag \in Nat, dtag < Beyond, dtag # Dtag.Content, dtag # Dtag.ContentObject,
           NEW inner \in Nat, inner < Beyond, inner # Dtag.Content, inner # Dtag.ContentObject
    PROVE  LET bytes == Element(dtag, AppendTaggedBlob(inner, << >>))
           IN /\ bytes \in Seq(Octet) /\ Begins(bytes, <<EmptyField(dtag, inner)>>)
              /\ Len(bytes) = SizeIf(TRUE, dtag, EstimateTaggedBlob(inner, 0))
<1> DEFINE blob == AppendTaggedBlob(inner, << >>)
           tree == Tree(Type.dtag, inner, << >>)
<1>1. << >> \in Seq(Octet) /\ BlobTrees(<< >>) = << >> /\ Len(<< >>) = 0
  BY DEF BlobTrees, If
<1>2. Begins(blob, <<tree>>)
  BY <1>1, TaggedBlobBegins
<1>3. blob \in Seq(Octet) /\ Len(blob) = EstimateTaggedBlob(inner, 0)
  <2>1. blob \in Seq(Octet) /\ Len(blob) = EstimateTaggedBlob(inner, Len(<< >>))
    BY <1>1, TaggedBlobWritten
  <2> QED BY <1>1, <2>1
<1>4. IsSequence(<<tree>>) /\ NoAttribute(<<tree>>)
  <2>1. ~IsAttribute(tree)
    BY TypeValues DEF Tree, IsAttribute
  <2> HIDE DEF tree
  <2> QED BY <2>1, OneBlock
<1> HIDE DEF blob, tree
<1>5. Begins(Element(dtag, blob), <<Tree(Type.dtag, dtag, <<tree>>)>>)
  BY <1>2, <1>3, <1>4, ElementBegins
<1>6. Element(dtag, blob) \in Seq(Octet) /\ Len(Element(dtag, blob)) = EstimateBlockHeader(dtag) + Len(blob) + 1
  BY <1>3, ElementWritten
<1> QED BY <1>3, <1>5, <1>6 DEF EmptyField, blob, tree, SizeIf

\* A content is its header, three fields, and the header of the payload, of the
\* size GetContentSize says.
LEMMA ContentWritten ==
    ASSUME NEW h \in ContentHeaders
    PROVE  LET a == AppendBlockHeader(Dtag.ContentObject, Type.dtag)
               z == AppendBlockHeader(Dtag.Content, Type.dtag)
           IN /\ SerializeContent(h) = (a \o ContentParts(h)) \o z
              /\ a \in Seq(Octet) /\ Len(a) > 0 /\ z \in Seq(Octet) /\ Len(z) > 0
              /\ ContentParts(h) \in Seq(Octet) /\ Len(ContentParts(h)) >= 3
              /\ Begins(ContentParts(h), <<SignatureTree>> \o (<<NameTree(h.name)>> \o <<SignedInfoTree>>))
              /\ Len(SerializeContent(h)) = GetContentSize(h)
              /\ SerializeContent(h) \in Seq(Octet)
<1> DEFINE a == AppendBlockHeader(Dtag.ContentObject, Type.dtag)
           p1 == Element(Dtag.Signature, AppendTaggedBlob(Dtag.SignatureBits, << >>))
           p2 == Element(Dtag.Name, AppendNameComponents(h.name))
           p3 == Element(Dtag.SignedInfo, AppendTaggedBlob(Dtag.PublisherPublicKeyDigest, << >>))
           z == AppendBlockHeader(Dtag.Content, Type.dtag)
           ea == EstimateBlockHeader(Dtag.ContentObject)
           e1 == SizeIf(TRUE, Dtag.Signature, EstimateTaggedBlob(Dtag.SignatureBits, 0))
           e2 == SizeIf(TRUE, Dtag.Name, EstimateNameComponents(h.name))
           e3 == SizeIf(TRUE, Dtag.SignedInfo, EstimateTaggedBlob(Dtag.PublisherPublicKeyDigest, 0))
           ez == EstimateBlockHeader(Dtag.Content)
<1>1. a \in Seq(Octet) /\ Len(a) = ea /\ ea \in Nat \ {0} /\ z \in Seq(Octet) /\ Len(z) = ez /\ ez \in Nat \ {0}
  <2>1. Type.dtag \in 0 .. 6 /\ Dtag.ContentObject \in Nat /\ Dtag.Content \in Nat
    BY TypeValues, DtagValues
  <2> QED BY <2>1, HeaderType
<1>2. p1 \in Seq(Octet) /\ Begins(p1, <<SignatureTree>>) /\ Len(p1) = e1
  <2>1. /\ Dtag.Signature \in Nat /\ Dtag.Signature < Beyond
        /\ Dtag.Signature # Dtag.Content /\ Dtag.Signature # Dtag.ContentObject
        /\ Dtag.SignatureBits \in Nat /\ Dtag.SignatureBits < Beyond
        /\ Dtag.SignatureBits # Dtag.Content /\ Dtag.SignatureBits # Dtag.ContentObject
    BY KnownDtags, DtagValues
  <2> QED BY <2>1, EmptyFieldBegins DEF SignatureTree
<1>3. p3 \in Seq(Octet) /\ Begins(p3, <<SignedInfoTree>>) /\ Len(p3) = e3
  <2>1. /\ Dtag.SignedInfo \in Nat /\ Dtag.SignedInfo < Beyond
        /\ Dtag.SignedInfo # Dtag.Content /\ Dtag.SignedInfo # Dtag.ContentObject
        /\ Dtag.PublisherPublicKeyDigest \in Nat /\ Dtag.PublisherPublicKeyDigest < Beyond
        /\ Dtag.PublisherPublicKeyDigest # Dtag.Content /\ Dtag.PublisherPublicKeyDigest # Dtag.ContentObject
    BY KnownDtags, DtagValues
  <2> QED BY <2>1, EmptyFieldBegins DEF SignedInfoTree
<1>4. p2 \in Seq(Octet) /\ Begins(p2, <<NameTree(h.name)>>) /\ Len(p2) = e2
  <2> DEFINE name == h.name
             bytes == AppendNameComponents(name)
             blocks == NameTrees(name)
  <2>1. name \in Seq(Seq(Octet))
    BY NamesAreSequences DEF ContentHeaders
  <2> HIDE DEF name
  <2>2. bytes \in Seq(Octet) /\ Len(bytes) = EstimateNameComponents(name)
    BY <2>1, NameWritten
  <2>3. Begins(bytes, blocks) /\ IsSequence(blocks) /\ NoAttribute(blocks)
    BY <2>1, NameBegins
  <2>4. Dtag.Name \in Nat /\ Dtag.Name < Beyond /\ Dtag.Name # Dtag.Content /\ Dtag.Name # Dtag.ContentObject
    BY KnownDtags, DtagValues
  <2> HIDE DEF bytes, blocks
  <2>5. Begins(Element(Dtag.Name, bytes), <<Tree(Type.dtag, Dtag.Name, blocks)>>)
    BY <2>2, <2>3, <2>4, ElementBegins
  <2>6. /\ Element(Dtag.Name, bytes) \in Seq(Octet)
        /\ Len(Element(Dtag.Name, bytes)) = EstimateBlockHeader(Dtag.Name) + Len(bytes) + 1
    BY <2>2, <2>4, ElementWritten
  <2> QED BY <2>2, <2>5, <2>6 DEF NameTree, SizeIf, bytes, blocks, name
<1>5. SerializeContent(h) = (((a \o p1) \o p2) \o p3) \o z
  BY DEF SerializeContent
<1>6. ContentParts(h) = p1 \o (p2 \o p3) /\ GetContentSize(h) = ((((ea + e1) + e2) + e3) + ez)
  BY DEF ContentParts, GetContentSize
<1>7. Len(p1) >= 1 /\ Len(p2) >= 1 /\ Len(p3) >= 1 /\ e1 \in Nat /\ e2 \in Nat /\ e3 \in Nat
  <2>2. \A dtag \in Nat, bytes \in Seq(Octet) : Len(Element(dtag, bytes)) >= 1
    <3> SUFFICES ASSUME NEW dtag \in Nat, NEW bytes \in Seq(Octet)
                 PROVE  Len(Element(dtag, bytes)) >= 1
      OBVIOUS
    <3>1. /\ Len(Element(dtag, bytes)) = EstimateBlockHeader(dtag) + Len(bytes) + 1
          /\ EstimateBlockHeader(dtag) \in Nat /\ Len(bytes) \in Nat
      BY ElementWritten
    <3> QED BY <3>1
  <2>3. Dtag.Signature \in Nat /\ Dtag.Name \in Nat /\ Dtag.SignedInfo \in Nat
    BY DtagValues
  <2>4. AppendTaggedBlob(Dtag.SignatureBits, << >>) \in Seq(Octet)
        /\ AppendTaggedBlob(Dtag.PublisherPublicKeyDigest, << >>) \in Seq(Octet)
    <3>1. << >> \in Seq(Octet) /\ Dtag.SignatureBits \in Nat /\ Dtag.PublisherPublicKeyDigest \in Nat
      BY DtagValues
    <3> QED BY <3>1, TaggedBlobWritten
  <2>5. AppendNameComponents(h.name) \in Seq(Octet)
    <3>1. h.name \in Seq(Seq(Octet))
      BY NamesAreSequences DEF ContentHeaders
    <3> QED BY <3>1, NameWritten
  <2>6. Len(p1) >= 1 /\ Len(p2) >= 1 /\ Len(p3) >= 1
    BY <2>2, <2>3, <2>4, <2>5
  <2> HIDE DEF p1, p2, p3, e1, e2, e3
  <2>7. Len(p1) \in Nat /\ Len(p2) \in Nat /\ Len(p3) \in Nat
    BY <1>2, <1>3, <1>4
  <2> QED BY <1>2, <1>3, <1>4, <2>6, <2>7
<1> HIDE DEF a, p1, p2, p3, z, ea, e1, e2, e3, ez
<1>8. /\ p2 \o p3 \in Seq(Octet) /\ Len(p2 \o p3) = e2 + e3
      /\ p1 \o (p2 \o p3) \in Seq(Octet) /\ Len(p1 \o (p2 \o p3)) = e1 + (e2 + e3)
  <2>1. p2 \o p3 \in Seq(Octet) /\ Len(p2 \o p3) = e2 + e3
    BY <1>2, <1>3, <1>4, Joined
  <2> DEFINE q == p2 \o p3
  <2>2. q \in Seq(Octet)
    BY <2>1
  <2> HIDE DEF q
  <2>3. p1 \o q \in Seq(Octet) /\ Len(p1 \o q) = Len(p1) + Len(q)
    BY <1>2, <2>2, Joined
  <2> QED BY <1>2, <2>1, <2>3 DEF q
<1>9. Begins(p1 \o (p2 \o p3), <<SignatureTree>> \o (<<NameTree(h.name)>> \o <<SignedInfoTree>>))
  <2> DEFINE x1 == <<SignatureTree>>
             x2 == <<NameTree(h.name)>>
             x3 == <<SignedInfoTree>>
             q == p2 \o p3
             y == x2 \o x3
  <2>1. IsSequence(x1) /\ IsSequence(x2) /\ IsSequence(x3)
    BY OneBlock
  <2>2. Begins(p1, x1) /\ Begins(p2, x2) /\ Begins(p3, x3)
    BY <1>2, <1>3, <1>4
  <2> HIDE DEF x1, x2, x3
  <2>3. Begins(q, y)
    BY <1>3, <1>4, <2>1, <2>2, BeginsJoined
  <2>4. IsSequence(y) /\ q \in Seq(Octet)
    BY <1>8, <2>1, SequencesJoined
  <2> HIDE DEF q, y
  <2>5. Begins(p1 \o q, x1 \o y)
    BY <1>2, <2>1, <2>2, <2>3, <2>4, BeginsJoined
  <2> QED BY <2>5 DEF q, y, x1, x2, x3
<1>10. (((a \o p1) \o p2) \o p3) = a \o (p1 \o (p2 \o p3))
  <2>1. IsSequence(a) /\ IsSequence(p1) /\ IsSequence(p2) /\ IsSequence(p3)
    BY <1>1, <1>2, <1>3, <1>4 DEF IsSequence
  <2> DEFINE q == p2 \o p3
             b == a \o p1
  <2>2. IsSequence(q) /\ IsSequence(b)
    BY <2>1, SequencesJoined
  <2>3. (b \o p2) \o p3 = b \o q
    <3> HIDE DEF b
    <3> QED BY <2>1, <2>2, SequencesJoined
  <2>4. b \o q = a \o (p1 \o q)
    <3> HIDE DEF q
    <3> QED BY <2>1, <2>2, SequencesJoined
  <2> QED BY <2>3, <2>4
<1> DEFINE parts == p1 \o (p2 \o p3)
<1>11. parts \in Seq(Octet) /\ Len(parts) = e1 + (e2 + e3) /\ ContentParts(h) = parts
       /\ SerializeContent(h) = (a \o parts) \o z
  BY <1>5, <1>6, <1>8, <1>10
<1> HIDE DEF parts
<1>12. SerializeContent(h) \in Seq(Octet) /\ Len(SerializeContent(h)) = (Len(a) + Len(parts)) + Len(z)
  <2> DEFINE b == a \o parts
  <2>1. b \in Seq(Octet) /\ Len(b) = Len(a) + Len(parts)
    BY <1>1, <1>11, Joined
  <2> HIDE DEF b
  <2>2. b \o z \in Seq(Octet) /\ Len(b \o z) = Len(b) + Len(z)
    BY <1>1, <2>1, Joined
  <2> QED BY <1>11, <2>1, <2>2 DEF b
<1>13. Len(SerializeContent(h)) = GetContentSize(h)
  <2> DEFINE g == GetContentSize(h)
             l == Len(SerializeContent(h))
  <2>1. g = ((((ea + e1) + e2) + e3) + ez) /\ l = (ea + (e1 + (e2 + e3))) + ez
    BY <1>1, <1>6, <1>11, <1>12
  <2> HIDE DEF g, l
  <2>2. g = l
    BY <1>1, <1>7, <2>1
  <2> QED BY <2>2 DEF g, l
<1>14. Len(parts) >= 3
  BY <1>2, <1>3, <1>4, <1>7, <1>11
<1>15. Begins(parts, <<SignatureTree>> \o (<<NameTree(h.name)>> \o <<SignedInfoTree>>))
  BY <1>9 DEF parts
<1> QED BY <1>1, <1>11, <1>12, <1>13, <1>14, <1>15 DEF a, z

\* The parser makes one block of a content, and stops where the payload begins.
LEMMA ContentParsed ==
    ASSUME NEW h \in ContentHeaders,
           NEW d \in Seq(Octet), Len(d) < Beyond, HasAt(d, 1, SerializeContent(h))
    PROVE  LET nested == (<<SignatureTree>> \o (<<NameTree(h.name)>> \o <<SignedInfoTree>>)) \o <<ContentTree>>
           IN /\ SyntaxTree(d).outcome = "parsed"
              /\ SyntaxTree(d).block = Tree(Type.dtag, Dtag.ContentObject, nested)
<1> DEFINE a == AppendBlockHeader(Dtag.ContentObject, Type.dtag)
           z == AppendBlockHeader(Dtag.Content, Type.dtag)
           parts == ContentParts(h)
           ap == a \o parts
           blocks == <<SignatureTree>> \o (<<NameTree(h.name)>> \o <<SignedInfoTree>>)
           last == <<ContentTree>>
           nested == blocks \o last
           all == AllBlocks(d)
           k == 1 + Len(a)
           e == k + Len(parts)
           q == e + Len(z)
<1>1. /\ a \in Seq(Octet) /\ Len(a) > 0 /\ z \in Seq(Octet) /\ Len(z) > 0
      /\ parts \in Seq(Octet) /\ Len(parts) >= 3
      /\ Begins(parts, blocks) /\ SerializeContent(h) = ap \o z
  BY ContentWritten
<1>2. IsSequence(blocks) /\ IsSequence(last) /\ NoAttribute(nested)
  <2> DEFINE x1 == <<SignatureTree>>
             x2 == <<NameTree(h.name)>>
             x3 == <<SignedInfoTree>>
             y == (x2 \o x3) \o last
  <2>1. IsSequence(x1) /\ IsSequence(x2) /\ IsSequence(x3) /\ IsSequence(last)
    BY OneBlock
  <2>2. ~IsAttribute(SignatureTree)
    BY TypeValues DEF SignatureTree, EmptyField, Tree, IsAttribute
  <2> HIDE DEF x2, x3, last
  <2>3. IsSequence(x2 \o x3)
    BY <2>1, SequencesJoined
  <2>4. IsSequence(blocks) /\ IsSequence(y)
    <3> HIDE DEF x1
    <3> DEFINE x == x2 \o x3
    <3>1. IsSequence(x)
      BY <2>3
    <3> HIDE DEF x
    <3>2. IsSequence(x1 \o x) /\ IsSequence(x \o last)
      BY <2>1, <3>1, SequencesJoined
    <3> QED BY <3>2 DEF x, x1, x2, x3
  <2>5. nested = x1 \o y
    <3> DEFINE x == x2 \o x3
    <3>1. IsSequence(x)
      BY <2>3
    <3> HIDE DEF x1, x
    <3>2. (x1 \o x) \o last = x1 \o (x \o last)
      BY <2>1, <3>1, SequencesJoined
    <3> QED BY <3>2 DEF x, x1, x2, x3
  <2>6. (x1 \o y)[1] = SignatureTree
    <3> HIDE DEF y
    <3>1. PICK S : y \in Seq(S)
      BY <2>4 DEF IsSequence
    <3> QED BY <3>1
  <2>7. NoAttribute(x1 \o y)
    BY <2>2, <2>6 DEF NoAttribute
  <2> HIDE DEF x1, y, nested, blocks
  <2> QED BY <2>1, <2>4, <2>5, <2>7
<1>3. IsSequence(nested)
  <2> HIDE DEF blocks, last
  <2> QED BY <1>2, SequencesJoined
<1> HIDE DEF a, z, parts, ap, blocks, last, nested
<1>4. ap \in Seq(Octet) /\ Len(ap) = Len(a) + Len(parts)
      /\ Len(a) \in Nat /\ Len(parts) \in Nat /\ Len(z) \in Nat
  BY <1>1, Joined DEF ap
<1>5. HasAt(d, 1, ap) /\ HasAt(d, 1 + Len(ap), z)
  BY <1>1, <1>4, HasParts
<1>6. HasAt(d, 1, a) /\ HasAt(d, k, parts) /\ HasAt(d, e, z)
  <2>1. HasAt(d, 1, a) /\ HasAt(d, k, parts)
    BY <1>1, <1>5, HasParts DEF ap
  <2>2. 1 + Len(ap) = e
    BY <1>4
  <2> HIDE DEF e
  <2> QED BY <1>5, <2>1, <2>2
<1>7. Len(d) \in Nat /\ 1 \in 1 .. Len(d) + 1
  OBVIOUS
<1>8. k \in 1 .. Len(d) + 1 /\ 1 \in 1 .. Len(d)
  <2>1. k \in 1 .. Len(d) + 1
    BY <1>1, <1>6, <1>7, HasRange
  <2>2. 1 \in 1 .. Len(d)
    <3> HIDE DEF k
    <3> QED BY <1>1, <1>6, <1>7, HasRange
  <2> QED BY <2>1, <2>2
<1>9. e \in 1 .. Len(d) + 1
  <2> HIDE DEF k
  <2>1. e \in k .. Len(d) + 1
    BY <1>1, <1>6, <1>8, HasRange
  <2> HIDE DEF e
  <2> QED BY <1>7, <1>8, <2>1
<1> HIDE DEF k, e
<1>10. e \in 1 .. Len(d) /\ d[e] # Close
  <2>1. e \in 1 .. Len(d) /\ d[e] = z[1]
    BY <1>1, <1>6, <1>9, HasRange
  <2>2. Type.dtag \in 0 .. 6 /\ Dtag.Content \in Nat
    BY TypeValues, DtagValues
  <2>3. z[1] # Close
    BY <2>2, HeaderFirst DEF z
  <2> QED BY <2>1, <2>3
<1>11. ParseBlock(d, all, e) = Parsed(ContentTree, q)
  <2> DEFINE m == Marker(d, e)
  <2>1. Type.dtag \in 0 .. 6 /\ Dtag.Content \in Nat /\ Dtag.Content < Beyond /\ e \in Nat \ {0}
    <3>1. Dtag.Content \in 0 .. 300
      BY DtagValues
    <3> QED BY <1>10, <3>1, TypeValues, KnownDtags
  <2>2. m = [value |-> Dtag.Content, type |-> Type.dtag, next |-> q]
    BY <1>6, <2>1, MarkerReads DEF z, q
  <2>3. m.value = Dtag.Content /\ m.type = 2 /\ m.next = q
    BY <2>2, TypeValues
  <2>4. m.type = 2 => ParseBlock(d, all, e) = DtagBlock(all, m.next, m.value)
    BY ParseBlockCases
  <2> HIDE DEF m, all, q
  <2>5. ParseBlock(d, all, e) = DtagBlock(all, q, Dtag.Content)
    BY <2>3, <2>4
  <2> DEFINE n == Blocks("open", << >>, q)
  <2>6. n.outcome = "open" /\ n.blocks = << >> /\ n.next = q
    BY DEF Blocks
  <2>7. Dtag.Content # Dtag.ContentObject
    BY DtagValues
  <2> HIDE DEF n
  <2>8. DtagBlock(all, q, Dtag.Content) = Parsed(Tree(Type.dtag, Dtag.Content, << >>), q)
    BY <2>6, <2>7 DEF DtagBlock, n
  <2> QED BY <2>5, <2>8 DEF ContentTree
<1>12. all[e][TRUE] = Blocks("open", last, q)
  <2>1. all[e][TRUE] = Here(d, all, e, TRUE)
    BY <1>9, AllBlocksHere
  <2>2. ~IsEnd(d, e)
    BY <1>10 DEF IsEnd
  <2> DEFINE p == ParseBlock(d, all, e)
  <2>3. p.outcome = "parsed" /\ p.block = ContentTree /\ p.next = q
    BY <1>11 DEF Parsed
  <2>4. ContentTree.dtag = Dtag.Content
    BY DEF ContentTree, Tree
  <2> HIDE DEF p, all, q
  <2>5. Here(d, all, e, TRUE) = Blocks("open", <<p.block>>, p.next)
    BY <1>10, <2>2, <2>3, <2>4 DEF Here, p
  <2> QED BY <2>1, <2>3, <2>5 DEF last
<1>13. all[k][TRUE] = Blocks("open", nested, q)
  <2>1. all[k][TRUE] = Blocks(all[k + Len(parts)][TRUE].outcome, blocks \o all[k + Len(parts)][TRUE].blocks,
                              all[k + Len(parts)][TRUE].next)
    BY <1>1, <1>6, <1>8 DEF Begins
  <2>2. k + Len(parts) = e
    BY DEF e
  <2> DEFINE r == all[e][TRUE]
  <2>3. r.outcome = "open" /\ r.blocks = last /\ r.next = q
    BY <1>12 DEF Blocks
  <2>4. all[k][TRUE] = Blocks(r.outcome, blocks \o r.blocks, r.next)
    BY <2>1, <2>2
  <2> HIDE DEF r, all, q
  <2> QED BY <2>3, <2>4 DEF nested
<1>14. DtagBlock(all, k, Dtag.ContentObject) = Parsed(Tree(Type.dtag, Dtag.ContentObject, nested), q)
  <2> DEFINE n == all[k][Dtag.ContentObject = Dtag.ContentObject]
             K == {i \in DOMAIN n.blocks : \A j \in 1 .. i : IsAttribute(n.blocks[j])}
             o == Nested(all, k, Dtag.ContentObject)
  <2>1. (Dtag.ContentObject = Dtag.ContentObject) = TRUE
    OBVIOUS
  <2>2. n = Blocks("open", nested, q)
    BY <1>13, <2>1
  <2>3. o = [n EXCEPT !.blocks = SubSeq(n.blocks, Cardinality(K) + 1, Len(n.blocks))]
    BY DEF Nested
  <2> HIDE DEF n, o, q, all
  <2>4. n.blocks = nested
    BY <2>2 DEF Blocks
  <2>5. SubSeq(n.blocks, Cardinality(K) + 1, Len(n.blocks)) = nested
    BY <1>2, <1>3, <2>4, NoAttributes
  <2> HIDE DEF K
  <2>6. o = Blocks("open", nested, q)
    <3>1. o = [n EXCEPT !.blocks = nested]
      BY <2>3, <2>5
    <3> QED BY <2>2, <3>1 DEF Blocks
  <2>7. o.outcome = "open" /\ o.blocks = nested /\ o.next = q
    BY <2>6 DEF Blocks
  <2>8. Dtag.ContentObject # Dtag.Content
    BY DtagValues
  <2>9. nested # << >>
    <3>1. nested = blocks \o last
      BY DEF nested
    <3>2. PICK S : blocks \in Seq(S)
      BY <1>2 DEF IsSequence
    <3>3. last \in Seq({ContentTree}) /\ Len(last) = 1
      BY DEF last
    <3> DEFINE R == S \cup {ContentTree}
    <3>6. blocks \in Seq(R) /\ last \in Seq(R)
      <4>1. S \subseteq R /\ {ContentTree} \subseteq R
        OBVIOUS
      <4> HIDE DEF R
      <4> QED BY <3>2, <3>3, <4>1, SeqMonotonic
    <3> HIDE DEF R
    <3>7. Len(blocks) \in Nat
      BY <3>6
    <3>8. Len(blocks \o last) = Len(blocks) + Len(last)
      BY <3>6, ConcatProperties
    <3>4. Len(blocks \o last) = Len(blocks) + 1 /\ Len(blocks) \in Nat
      BY <3>3, <3>7, <3>8
    <3>5. Len(nested) # 0
      BY <3>1, <3>4
    <3> QED BY <3>5
  <2> QED BY <2>7, <2>8, <2>9 DEF DtagBlock, o
<1>15. SyntaxTree(d) = Parsed(Tree(Type.dtag, Dtag.ContentObject, nested), q)
  <2> DEFINE m == Marker(d, 1)
  <2>1. Type.dtag \in 0 .. 6 /\ Dtag.ContentObject \in Nat /\ Dtag.ContentObject < Beyond /\ 1 \in Nat \ {0}
    <3>1. Dtag.ContentObject \in 0 .. 300
      BY DtagValues
    <3> QED BY <3>1, TypeValues, KnownDtags
  <2>2. m = [value |-> Dtag.ContentObject, type |-> Type.dtag, next |-> k]
    BY <1>6, <2>1, MarkerReads DEF a, k
  <2>3. m.value = Dtag.ContentObject /\ m.type = 2 /\ m.next = k
    BY <2>2, TypeValues
  <2>4. m.type = 2 => ParseBlock(d, all, 1) = DtagBlock(all, m.next, m.value)
    BY ParseBlockCases
  <2>5. SyntaxTree(d) = ParseBlock(d, all, 1)
    BY DEF SyntaxTree
  <2> HIDE DEF m, all, q
  <2> QED BY <1>14, <2>3, <2>4, <2>5
<1>16. SyntaxTree(d).outcome = "parsed" /\ SyntaxTree(d).block = Tree(Type.dtag, Dtag.ContentObject, nested)
  BY <1>15 DEF Parsed
<1> QED BY <1>16 DEF nested, blocks, last

\* The first of the blocks to visit.
LEMMA FirstOf ==
    ASSUME NEW b, NEW rest, IsSequence(rest)
    PROVE  LET todo == <<b>> \o rest
           IN todo # << >> /\ Head(todo) = b /\ Tail(todo) = rest /\ IsSequence(todo)
<1> DEFINE todo == <<b>> \o rest
<1>1. PICK S : rest \in Seq(S)
  BY DEF IsSequence
<1> DEFINE R == S \cup {b}
<1>2. rest \in Seq(R) /\ b \in R
  <2>1. S \subseteq R
    OBVIOUS
  <2> HIDE DEF R
  <2> QED BY <1>1, <2>1, SeqMonotonic DEF R
<1> HIDE DEF R
<1>3. todo \in Seq(R) /\ Len(todo) = Len(rest) + 1 /\ todo[1] = b
      /\ \A i \in 1 .. Len(rest) : todo[i + 1] = rest[i]
  BY <1>2
<1> HIDE DEF todo
<1>4. Len(rest) \in Nat /\ todo # << >>
  BY <1>2, <1>3
<1>5. Tail(todo) \in Seq(R) /\ Len(Tail(todo)) = Len(rest)
      /\ \A i \in 1 .. Len(rest) : Tail(todo)[i] = todo[i + 1]
  <2>1. Tail(todo) \in Seq(R) /\ Len(Tail(todo)) = Len(todo) - 1
        /\ \A i \in 1 .. Len(Tail(todo)) : Tail(todo)[i] = todo[i + 1]
    BY <1>3, <1>4, HeadTailProperties
  <2> QED BY <1>3, <1>4, <2>1
<1>6. Tail(todo) = rest
  <2>1. \A i \in 1 .. Len(Tail(todo)) : Tail(todo)[i] = rest[i]
    BY <1>3, <1>5
  <2> QED BY <1>2, <1>5, <2>1, SeqEqual
<1>7. Head(todo) = b
  BY <1>3, <1>4
<1>8. IsSequence(todo)
  BY <1>3 DEF IsSequence
<1> QED BY <1>4, <1>6, <1>7, <1>8 DEF todo

\* A visit to a field of a content.
LEMMA ContentVisit ==
    ASSUME NEW h, h.kind = "content", NEW b, b.type = 2, b.dtag # Dtag.ContentObject,
           NEW rest, IsSequence(rest), NEW visit, visit = [todo |-> <<b>> \o rest, header |-> h]
    PROVE  Visit(visit) = [todo |-> rest, header |-> ContentObjectVisitor(h, b)]
<1> DEFINE todo == <<b>> \o rest
<1>1. todo # << >> /\ Head(todo) = b /\ Tail(todo) = rest
  BY FirstOf
<1>2. ~Opens(h, b)
  BY TypeValues DEF Opens
<1>3. visit.todo = todo /\ visit.header = h /\ ~(visit.todo = << >> \/ visit.header.kind = "thrown")
  BY <1>1
<1> HIDE DEF todo
<1>4. Visit(visit) = [todo |-> Tail(visit.todo), header |-> ContentObjectVisitor(visit.header, Head(visit.todo))]
  BY <1>1, <1>2, <1>3 DEF Visit
<1> QED BY <1>1, <1>3, <1>4

(***************************************************************************)
(* And so does DeserializeContent: the parser stops where the payload      *)
(* begins, so nothing of it gets into the header.                          *)
(***************************************************************************)
THEOREM ContentRead ==
    ASSUME NEW h \in ContentHeaders,
           NEW d \in Seq(Octet), Len(d) < Beyond, HasAt(d, 1, SerializeContent(h))
    PROVE  DeserializeContent(d) = h
<1> DEFINE b1 == SignatureTree
           b2 == NameTree(h.name)
           b3 == SignedInfoTree
           b4 == ContentTree
           y4 == <<b4>>
           y3 == <<b3>> \o y4
           y2 == <<b2>> \o y3
           y1 == <<b1>> \o y2
           nested == (<<b1>> \o (<<b2>> \o <<b3>>)) \o <<b4>>
           root == Tree(Type.dtag, Dtag.ContentObject, nested)
           size == Len(d)
<1>1. SyntaxTree(d).outcome = "parsed" /\ SyntaxTree(d).block = root
  BY ContentParsed
<1>2. size \in Nat /\ 5 <= size
  <2> DEFINE a == AppendBlockHeader(Dtag.ContentObject, Type.dtag)
             z == AppendBlockHeader(Dtag.Content, Type.dtag)
             parts == ContentParts(h)
             bytes == SerializeContent(h)
  <2>1. /\ a \in Seq(Octet) /\ Len(a) > 0 /\ z \in Seq(Octet) /\ Len(z) > 0
        /\ parts \in Seq(Octet) /\ Len(parts) >= 3 /\ bytes = (a \o parts) \o z /\ bytes \in Seq(Octet)
    BY ContentWritten
  <2>2. Len(d) \in Nat /\ 1 \in 1 .. Len(d) + 1
    OBVIOUS
  <2>3. 1 + Len(bytes) \in 1 .. Len(d) + 1
    <3> HIDE DEF bytes
    <3> QED BY <2>1, <2>2, HasRange DEF bytes
  <2> HIDE DEF a, z, parts, bytes
  <2> DEFINE c == a \o parts
  <2>4. c \in Seq(Octet) /\ Len(c) = Len(a) + Len(parts) /\ Len(a) \in Nat /\ Len(parts) \in Nat
    BY <2>1, Joined
  <2> HIDE DEF c
  <2>5. Len(c \o z) = Len(c) + Len(z) /\ Len(z) \in Nat
    BY <2>1, <2>4, Joined
  <2>6. Len(bytes) = (Len(a) + Len(parts)) + Len(z)
    BY <2>1, <2>4, <2>5 DEF c
  <2>7. 1 + Len(bytes) <= Len(d) + 1
    BY <2>2, <2>3
  <2> QED BY <2>1, <2>2, <2>4, <2>5, <2>6, <2>7
<1>3. IsSequence(y4) /\ IsSequence(y3) /\ IsSequence(y2) /\ IsSequence(y1)
      /\ y4 = <<b4>> \o << >> /\ IsSequence(<< >>)
  <2> HIDE DEF b1, b2, b3, b4
  <2>1. IsSequence(y4) /\ IsSequence(<< >>)
    BY OneBlock
  <2>2. y4 = <<b4>> \o << >>
    <3> HIDE DEF y4
    <3>1. y4 \o << >> = y4
      BY <2>1, SequencesJoined
    <3> QED BY <3>1 DEF y4
  <2> HIDE DEF y4
  <2>3. IsSequence(y3)
    BY <2>1, FirstOf
  <2> HIDE DEF y3
  <2>4. IsSequence(y2)
    BY <2>3, FirstOf
  <2> HIDE DEF y2
  <2>5. IsSequence(y1)
    BY <2>4, FirstOf
  <2> QED BY <2>1, <2>2, <2>3, <2>4, <2>5
<1>4. nested = y1
  <2> DEFINE x1 == <<b1>>
             x2 == <<b2>>
             x3 == <<b3>>
             x4 == <<b4>>
             x == x2 \o x3
  <2>1. IsSequence(x1) /\ IsSequence(x2) /\ IsSequence(x3) /\ IsSequence(x4)
    BY OneBlock
  <2> HIDE DEF x1, x2, x3, x4
  <2>2. IsSequence(x) /\ x \o x4 = x2 \o (x3 \o x4)
    BY <2>1, SequencesJoined
  <2> HIDE DEF x
  <2>3. (x1 \o x) \o x4 = x1 \o (x \o x4)
    <3>1. IsSequence(x)
      BY <2>2
    <3> QED BY <2>1, <3>1, SequencesJoined
  <2>4. (x1 \o x) \o x4 = x1 \o (x2 \o (x3 \o x4))
    BY <2>2, <2>3
  <2>5. nested = (x1 \o x) \o x4 /\ y1 = x1 \o (x2 \o (x3 \o x4))
    BY DEF x, x1, x2, x3, x4
  <2> HIDE DEF nested, y1
  <2> QED BY <2>4, <2>5
<1>5. /\ b1.type = 2 /\ b1.dtag = Dtag.Signature
      /\ b2.type = 2 /\ b2.dtag = Dtag.Name /\ b2.nested = NameTrees(h.name)
      /\ b3.type = 2 /\ b3.dtag = Dtag.SignedInfo
      /\ b4.type = 2 /\ b4.dtag = Dtag.Content
      /\ root.type = 2 /\ root.dtag = Dtag.ContentObject /\ root.nested = nested
  <2> HIDE DEF nested
  <2>1. \A dtag, blocks : LET t == Tree(Type.dtag, dtag, blocks)
                          IN t.type = 2 /\ t.dtag = dtag /\ t.nested = blocks
    BY TypeValues DEF Tree
  <2> QED BY <2>1 DEF SignatureTree, NameTree, SignedInfoTree, ContentTree, EmptyField
<1>6. /\ Dtag.Signature # Dtag.ContentObject /\ Dtag.Name # Dtag.ContentObject
      /\ Dtag.SignedInfo # Dtag.ContentObject /\ Dtag.Content # Dtag.ContentObject
      /\ Dtag.Signature # Dtag.Name /\ Dtag.SignedInfo # Dtag.Name /\ Dtag.Content # Dtag.Name
  BY DtagValues
<1>7. NewContent.kind = "content" /\ h.kind = "content" /\ [NewContent EXCEPT !.name = h.name] = h
  <2>1. h = [kind |-> "content", name |-> h.name]
    BY DEF ContentHeaders
  <2> QED BY <2>1 DEF NewContent
<1>8. NameComponents(NameTrees(h.name)) = [thrown |-> FALSE, name |-> h.name]
  <2>1. h.name \in Seq(Seq(Octet) \ {<< >>})
    BY DEF ContentHeaders, Component
  <2> QED BY <2>1, NameRead
<1>9. /\ ContentObjectVisitor(NewContent, b1) = NewContent
      /\ ContentObjectVisitor(NewContent, b2) = h
      /\ ContentObjectVisitor(h, b3) = h
      /\ ContentObjectVisitor(h, b4) = h
  <2> HIDE DEF b1, b2, b3, b4
  <2>1. ContentObjectVisitor(NewContent, b1) = NewContent
    BY <1>5, <1>6 DEF ContentObjectVisitor
  <2>2. ContentObjectVisitor(NewContent, b2) = [NewContent EXCEPT !.name = h.name]
    <3>1. NameComponents(b2.nested).thrown = FALSE /\ NameComponents(b2.nested).name = h.name
      BY <1>5, <1>8
    <3> QED BY <1>5, <3>1 DEF ContentObjectVisitor
  <2>3. ContentObjectVisitor(h, b3) = h /\ ContentObjectVisitor(h, b4) = h
    BY <1>5, <1>6 DEF ContentObjectVisitor
  <2> QED BY <1>7, <2>1, <2>2, <2>3
<1> HIDE DEF b1, b2, b3, b4, nested, root, size
<1>10. DeserializeContent(d) = Visited(NewContent, root, size)
  BY <1>1 DEF DeserializeContent, Deserialize, HeaderRead, size
<1>11. PICK v : VisitRounds(v, NewContent, root, size) /\ Visited(NewContent, root, size) = v[size].header
  BY <1>2, VisitedLoop
<1>12. v[0] = [todo |-> <<root>>, header |-> NewContent] /\ \A n \in 1 .. size : v[n] = Visit(v[n - 1])
  BY <1>11 DEF VisitRounds
<1>13. v[1] = Visit(v[0]) /\ v[2] = Visit(v[1]) /\ v[3] = Visit(v[2]) /\ v[4] = Visit(v[3]) /\ v[5] = Visit(v[4])
  <2>1. \A n \in 1 .. 5 : n \in 1 .. size
    BY <1>2
  <2>2. \A n \in 1 .. 5 : v[n] = Visit(v[n - 1])
    BY <1>12, <2>1
  <2>3. 1 - 1 = 0 /\ 2 - 1 = 1 /\ 3 - 1 = 2 /\ 4 - 1 = 3 /\ 5 - 1 = 4
    OBVIOUS
  <2> QED BY <2>2, <2>3
<1> HIDE DEF y1, y2, y3, y4
<1>14. v[1] = [todo |-> y1, header |-> NewContent]
  <2> DEFINE x == v[0]
             todo == <<root>>
             hd == NewContent
  <2>1. x.todo = todo /\ x.header = hd /\ x = [todo |-> todo, header |-> hd]
    BY <1>12
  <2>2. todo # << >> /\ hd.kind # "thrown" /\ Head(todo) = root /\ Tail(todo) = << >>
    BY <1>7, OneBlock
  <2>3. Opens(hd, root)
    BY <1>5, <1>7 DEF Opens
  <2> HIDE DEF x, todo, hd
  <2>4. Visit(x) = [x EXCEPT !.todo = root.nested \o Tail(todo)]
    BY <2>1, <2>2, <2>3 DEF Visit
  <2>5. root.nested \o Tail(todo) = y1
    <3>1. y1 \o << >> = y1
      BY <1>3, SequencesJoined
    <3> QED BY <1>4, <1>5, <2>2, <3>1
  <2>6. [x EXCEPT !.todo = y1] = [todo |-> y1, header |-> hd]
    BY <2>1
  <2> QED BY <1>13, <2>4, <2>5, <2>6 DEF x, hd
<1>15. v[2] = [todo |-> y2, header |-> NewContent]
  <2>1. v[1] = [todo |-> <<b1>> \o y2, header |-> NewContent]
    BY <1>14 DEF y1
  <2>2. Visit(v[1]) = [todo |-> y2, header |-> ContentObjectVisitor(NewContent, b1)]
    <3> DEFINE hd == NewContent
               x == v[1]
    <3>1. hd.kind = "content"
      BY <1>7
    <3>2. b1.type = 2 /\ b1.dtag # Dtag.ContentObject
      BY <1>5, <1>6
    <3>3. IsSequence(y2)
      BY <1>3
    <3> HIDE DEF hd, x
    <3>4. x = [todo |-> <<b1>> \o y2, header |-> hd]
      BY <2>1 DEF hd, x
    <3>5. Visit(x) = [todo |-> y2, header |-> ContentObjectVisitor(hd, b1)]
      BY <3>1, <3>2, <3>3, <3>4, ContentVisit
    <3> QED BY <3>5 DEF hd, x
  <2> QED BY <1>9, <1>13, <2>2
<1>16. v[3] = [todo |-> y3, header |-> h]
  <2>1. v[2] = [todo |-> <<b2>> \o y3, header |-> NewContent]
    BY <1>15 DEF y2
  <2>2. Visit(v[2]) = [todo |-> y3, header |-> ContentObjectVisitor(NewContent, b2)]
    <3> DEFINE hd == NewContent
               x == v[2]
    <3>1. hd.kind = "content"
      BY <1>7
    <3>2. b2.type = 2 /\ b2.dtag # Dtag.ContentObject
      BY <1>5, <1>6
    <3>3. IsSequence(y3)
      BY <1>3
    <3> HIDE DEF hd, x
    <3>4. x = [todo |-> <<b2>> \o y3, header |-> hd]
      BY <2>1 DEF hd, x
    <3>5. Visit(x) = [todo |-> y3, header |-> ContentObjectVisitor(hd, b2)]
      BY <3>1, <3>2, <3>3, <3>4, ContentVisit
    <3> QED BY <3>5 DEF hd, x
  <2> QED BY <1>9, <1>13, <2>2
<1>17. v[4] = [todo |-> y4, header |-> h]
  <2>1. v[3] = [todo |-> <<b3>> \o y4, header |-> h]
    BY <1>16 DEF y3
  <2>2. Visit(v[3]) = [todo |-> y4, header |-> ContentObjectVisitor(h, b3)]
    <3> DEFINE hd == h
               x == v[3]
    <3>1. hd.kind = "content"
      BY <1>7
    <3>2. b3.type = 2 /\ b3.dtag # Dtag.ContentObject
      BY <1>5, <1>6
    <3>3. IsSequence(y4)
      BY <1>3
    <3> HIDE DEF hd, x
    <3>4. x = [todo |-> <<b3>> \o y4, header |-> hd]
      BY <2>1 DEF hd, x
    <3>5. Visit(x) = [todo |-> y4, header |-> ContentObjectVisitor(hd, b3)]
      BY <3>1, <3>2, <3>3, <3>4, ContentVisit
    <3> QED BY <3>5 DEF hd, x
  <2> QED BY <1>9, <1>13, <2>2
<1>18. v[5] = [todo |-> << >>, header |-> h]
  <2>1. v[4] = [todo |-> <<b4>> \o << >>, header |-> h]
    BY <1>3, <1>17
  <2>2. Visit(v[4]) = [todo |-> << >>, header |-> ContentObjectVisitor(h, b4)]
    <3> DEFINE hd == h
               x == v[4]
    <3>1. hd.kind = "content"
      BY <1>7
    <3>2. b4.type = 2 /\ b4.dtag # Dtag.ContentObject
      BY <1>5, <1>6
    <3>3. IsSequence(<< >>)
      BY <1>3
    <3> HIDE DEF hd, x
    <3>4. x = [todo |-> <<b4>> \o << >>, header |-> hd]
      BY <2>1 DEF hd, x
    <3>5. Visit(x) = [todo |-> << >>, header |-> ContentObjectVisitor(hd, b4)]
      BY <3>1, <3>2, <3>3, <3>4, ContentVisit
    <3> QED BY <3>5 DEF hd, x
  <2> QED BY <1>9, <1>13, <2>2
<1>19. v[size] = v[5]
  <2>1. v[5].todo = << >>
    BY <1>18
  <2> QED BY <1>2, <1>12, <2>1, VisitEnds
<1> QED BY <1>10, <1>11, <1>18, <1>19

-----------------------------------------------------------------------------
(* What a packet is *)

\* Numbers of one digit.
LEMMA OneDigit ==
    ASSUME NEW n \in 1 .. 127
    PROVE  InBase(128, n) = <<n>>
<1>1. n \in Nat /\ n \in 1 .. n /\ n \div 128 = 0 /\ n % 128 = n
  OBVIOUS
<1>2. PICK f : /\ f[0] = << >>
               /\ \A k \in 1 .. n : f[k] = Append(f[k \div 128], k % 128)
               /\ InBase(128, n) = f[n]
  BY <1>1, InBaseLoop
<1>3. f[n] = Append(f[n \div 128], n % 128)
  BY <1>1, <1>2
<1>4. f[n] = Append(<< >>, n)
  BY <1>1, <1>2, <1>3
<1> QED BY <1>2, <1>4, AppendedFirst

\* Two bytes one behind the other.
LEMMA TwoAppended ==
    ASSUME NEW x, NEW y
    PROVE  Append(<<x>>, y) = <<x, y>>
<1> DEFINE S == {x, y}
           s == Append(<<x>>, y)
           t == <<x, y>>
<1>1. s \in Seq(S) /\ Len(s) = 2 /\ s[1] = x /\ s[2] = y
  OBVIOUS
<1>2. t \in Seq(S) /\ Len(t) = 2 /\ t[1] = x /\ t[2] = y
  OBVIOUS
<1> HIDE DEF s, t
<1>3. \A i \in 1 .. Len(s) : s[i] = t[i]
  <2>1. \A i \in 1 .. 2 : i = 1 \/ i = 2
    OBVIOUS
  <2> QED BY <1>1, <1>2, <2>1
<1>4. s = t
  BY <1>1, <1>2, <1>3, SeqEqual
<1> QED BY <1>4 DEF s, t

\* The first two bytes of the headers are those GetHeaderType looks at.
LEMMA FirstBytes ==
    /\ AppendBlockHeader(Dtag.Interest, Type.dtag) = <<1, 210>>
    /\ AppendBlockHeader(Dtag.ContentObject, Type.dtag) = <<4, 130>>
<1>1. 26 \div 16 = 1 /\ 128 + (26 % 16) * 8 + 2 = 210 /\ 64 \div 16 = 4 /\ 128 + (64 % 16) * 8 + 2 = 130
  OBVIOUS
<1>2. InBase(128, 1) = <<1>> /\ InBase(128, 4) = <<4>>
  BY OneDigit
<1>3. Append(<<1>>, 210) = <<1, 210>> /\ Append(<<4>>, 130) = <<4, 130>>
  BY TwoAppended
<1>4. \A v : AppendBlockHeader(v, 2) = Append(InBase(128, v \div 16), 128 + (v % 16) * 8 + 2)
  BY DEF AppendBlockHeader
<1>5. AppendBlockHeader(26, 2) = <<1, 210>>
  <2> DEFINE x == 26 \div 16
             y == 128 + (26 % 16) * 8 + 2
  <2>1. AppendBlockHeader(26, 2) = Append(InBase(128, x), y)
    BY <1>4
  <2>2. x = 1 /\ y = 210
    BY <1>1
  <2> HIDE DEF x, y
  <2> QED BY <1>2, <1>3, <2>1, <2>2
<1>6. AppendBlockHeader(64, 2) = <<4, 130>>
  <2> DEFINE x == 64 \div 16
             y == 128 + (64 % 16) * 8 + 2
  <2>1. AppendBlockHeader(64, 2) = Append(InBase(128, x), y)
    BY <1>4
  <2>2. x = 4 /\ y = 130
    BY <1>1
  <2> HIDE DEF x, y
  <2> QED BY <1>2, <1>3, <2>1, <2>2
<1> QED BY <1>5, <1>6, TypeValues, DtagValues

\* A packet that begins with bytes has the first two of them.
LEMMA StartsWith ==
    ASSUME NEW a, NEW b, NEW tail \in Seq(Octet), NEW d \in Seq(Octet), HasAt(d, 1, <<a, b>> \o tail),
           a \in Octet, b \in Octet
    PROVE  1 \in DOMAIN d /\ 2 \in DOMAIN d /\ d[1] = a /\ d[2] = b
<1> DEFINE s == <<a, b>>
<1>1. s \in Seq(Octet) /\ Len(s) = 2 /\ s[1] = a /\ s[2] = b
  OBVIOUS
<1> HIDE DEF s
<1>2. HasAt(d, 1, s)
  <2>1. HasAt(d, 1, s \o tail)
    BY DEF s
  <2> QED BY <1>1, <2>1, HasParts
<1>3. \A k \in 1 .. 2 : 1 + k - 1 \in 1 .. Len(d) /\ d[1 + k - 1] = s[k]
  BY <1>1, <1>2 DEF HasAt
<1>4. 1 + 1 - 1 = 1 /\ 1 + 2 - 1 = 2 /\ 1 \in 1 .. 2 /\ 2 \in 1 .. 2 /\ DOMAIN d = 1 .. Len(d)
  OBVIOUS
<1> QED BY <1>1, <1>3, <1>4

\* What the header of a packet says it is.
LEMMA InterestIsInterest ==
    ASSUME NEW h \in InterestHeaders,
           NEW d \in Seq(Octet), HasAt(d, 1, SerializeInterest(h))
    PROVE  /\ HeaderOf(d) = DeserializeInterest(d)
           /\ Len(d) > 0 /\ SerializeInterest(h) \in Seq(Octet)
<1> DEFINE bytes == SerializeInterest(h)
           parts == FlattenSeq(Parts(h))
           a == AppendBlockHeader(Dtag.Interest, Type.dtag)
           z == <<Close>>
           tail == parts \o z
<1>1. bytes = Element(Dtag.Interest, parts) /\ parts \in Seq(Octet)
  BY InterestWritten
<1>2. a = <<1, 210>> /\ a \in Seq(Octet) /\ z \in Seq(Octet)
  <2>1. a = <<1, 210>>
    BY FirstBytes
  <2>2. <<1, 210>> \in Seq(Octet)
    BY DEF Octet
  <2>3. z \in Seq(Octet)
    BY DEF Close, Octet
  <2> QED BY <2>1, <2>2, <2>3
<1>3. bytes = (a \o parts) \o z
  BY <1>1 DEF Element
<1> HIDE DEF bytes, parts, a, z
<1>4. tail \in Seq(Octet) /\ bytes = a \o tail
  <2>1. IsSequence(a) /\ IsSequence(parts) /\ IsSequence(z)
    BY <1>1, <1>2 DEF IsSequence
  <2>2. (a \o parts) \o z = a \o (parts \o z)
    BY <2>1, SequencesJoined
  <2>3. tail \in Seq(Octet)
    BY <1>1, <1>2, Joined
  <2> QED BY <1>3, <2>2, <2>3
<1>5. bytes \in Seq(Octet)
  BY <1>2, <1>4, Joined
<1>6. HasAt(d, 1, <<1, 210>> \o tail)
  BY <1>2, <1>4 DEF bytes
<1>7. 1 \in Octet /\ 210 \in Octet
  BY DEF Octet
<1>8. 1 \in DOMAIN d /\ 2 \in DOMAIN d /\ d[1] = 1 /\ d[2] = 210
  <2> HIDE DEF tail
  <2> QED BY <1>4, <1>6, <1>7, StartsWith
<1>9. GetHeaderType(d) = "interest"
  BY <1>8 DEF GetHeaderType
<1> QED BY <1>5, <1>8, <1>9 DEF HeaderOf, bytes

\* A packet that begins with a content is taken for one.
LEMMA ContentIsContent ==
    ASSUME NEW h \in ContentHeaders,
           NEW d \in Seq(Octet), HasAt(d, 1, SerializeContent(h))
    PROVE  HeaderOf(d) = DeserializeContent(d)
<1> DEFINE bytes == SerializeContent(h)
           parts == ContentParts(h)
           a == AppendBlockHeader(Dtag.ContentObject, Type.dtag)
           z == AppendBlockHeader(Dtag.Content, Type.dtag)
           tail == parts \o z
<1>1. bytes = (a \o parts) \o z /\ parts \in Seq(Octet) /\ a \in Seq(Octet) /\ z \in Seq(Octet)
  BY ContentWritten
<1>2. a = <<4, 130>>
  BY FirstBytes
<1> HIDE DEF bytes, parts, a, z
<1>4. tail \in Seq(Octet) /\ bytes = a \o tail
  <2>1. IsSequence(a) /\ IsSequence(parts) /\ IsSequence(z)
    BY <1>1 DEF IsSequence
  <2>2. (a \o parts) \o z = a \o (parts \o z)
    BY <2>1, SequencesJoined
  <2>3. tail \in Seq(Octet)
    BY <1>1, Joined
  <2> QED BY <1>1, <2>2, <2>3
<1>6. HasAt(d, 1, <<4, 130>> \o tail)
  BY <1>2, <1>4 DEF bytes
<1>7. 4 \in Octet /\ 130 \in Octet
  BY DEF Octet
<1>8. 1 \in DOMAIN d /\ 2 \in DOMAIN d /\ d[1] = 4 /\ d[2] = 130
  <2> HIDE DEF tail
  <2> QED BY <1>4, <1>6, <1>7, StartsWith
<1>9. GetHeaderType(d) = "content"
  BY <1>8 DEF GetHeaderType
<1> QED BY <1>9 DEF HeaderOf

-----------------------------------------------------------------------------
(* Whatever the bytes *)

\* Signed bytes are numbers.
LEMMA SignedByteType ==
    \A n \in Int : SignedByte(n) \in Int
  BY DEF SignedByte

\* Whatever the bytes, a duration is a number,
LEMMA TimestampType ==
    ASSUME NEW blob \in Seq(Octet), Len(blob) >= 2
    PROVE  Timestamp(blob) \in Int
<1> DEFINE N == Len(blob) - 2
           T(f) == {m \in 0 .. N : f[m] \in Int}
<1>1. Len(blob) \in Nat /\ N \in Nat /\ \A n \in 1 .. Len(blob) : blob[n] \in Int
  <2>1. \A n \in 1 .. Len(blob) : blob[n] \in Octet
    OBVIOUS
  <2> QED BY <2>1, Octets
<1>2. PICK f : /\ f[0] = 0
               /\ \A n \in 1 .. N : f[n] = 256 * f[n - 1] + blob[n]
               /\ Timestamp(blob) = Duration(blob, f[N])
  BY <1>1, TimestampLoop
<1>3. 0 \in T(f)
  BY <1>1, <1>2
<1>4. ASSUME NEW m \in 1 .. N, m - 1 \in T(f)
      PROVE  m \in T(f)
  <2>1. m \in 1 .. Len(blob)
    BY <1>1
  <2>2. f[m] = 256 * f[m - 1] + blob[m] /\ blob[m] \in Int /\ f[m - 1] \in Int
    BY <1>1, <1>2, <1>4, <2>1
  <2> QED BY <2>2
<1>5. f[N] \in Int
  <2> HIDE DEF N
  <2> DEFINE U == T(f)
  <2>1. U = 0 .. N
    BY <1>1, <1>3, <1>4, UpToInduction
  <2>2. N \in U
    <3> HIDE DEF U
    <3> QED BY <1>1, <2>1
  <2> QED BY <2>2
<1>6. Duration(blob, f[N]) \in Int
  <2> DEFINE size == Len(blob)
             combo == blob[size - 1]
             low == SignedByte(blob[size])
             fraction == IF low < 0 THEN low ELSE (combo % 16) * 256 + low
             seconds == f[N]
             x == fraction * 15625
             q == Quotient(x, 64)
  <2>1. combo \in Int /\ blob[size] \in Int
    <3>1. size - 1 \in 1 .. Len(blob) /\ size \in 1 .. Len(blob)
      BY <1>1
    <3> QED BY <1>1, <3>1
  <2>2. low \in Int
    BY <2>1, SignedByteType
  <2>3. x \in Int
    <3> HIDE DEF combo, low
    <3> QED BY <2>1, <2>2
  <2>4. q \in Int
    <3> HIDE DEF x
    <3> QED BY <2>3, QuotientType
  <2>5. seconds \in Int
    BY <1>5
  <2>6. Duration(blob, f[N]) = (seconds * 16 + combo \div 16) * Second + q
    BY DEF Duration
  <2> HIDE DEF seconds, combo, q
  <2> QED BY <2>1, <2>4, <2>5, <2>6 DEF Second
<1> QED BY <1>2, <1>6

\* and a name a sequence of sequences of bytes.
LEMMA ComponentsType ==
    ASSUME NEW S, S \subseteq BlockRecords(S), NEW blocks \in Seq(S)
    PROVE  NameComponents(blocks).name \in Seq(Seq(Octet))
<1> DEFINE K == {i \in DOMAIN blocks : blocks[i].dtag = Dtag.Component}
           c == Kept(blocks, K)
           name == [i \in DOMAIN c |-> IF OnlyOne(c[i]) THEN StringVisitor(c[i]) ELSE << >>]
<1>1. K \in SUBSET (1 .. Len(blocks))
  OBVIOUS
<1>2. c \in Seq(S)
  <2> HIDE DEF K
  <2> QED BY <1>1, KeptElements
<1>3. NameComponents(blocks).name = name
  BY DEF NameComponents
<1> HIDE DEF c
<1>4. ASSUME NEW i \in DOMAIN c
      PROVE  (IF OnlyOne(c[i]) THEN StringVisitor(c[i]) ELSE << >>) \in Seq(Octet)
  <2>1. c[i] \in S
    BY <1>2
  <2>2. c[i].nested \in Seq(S)
    BY <2>1 DEF BlockRecords
  <2>3. CASE OnlyOne(c[i])
    <3>1. Len(c[i].nested) = 1
      BY <2>3 DEF OnlyOne
    <3>2. c[i].nested[1] \in S
      BY <2>2, <3>1
    <3>3. c[i].nested[1].data \in Seq(Octet)
      BY <3>2 DEF BlockRecords
    <3> QED BY <2>3, <3>3 DEF StringVisitor
  <2>4. CASE ~OnlyOne(c[i])
    BY <2>4
  <2> QED BY <2>3, <2>4
<1>5. DOMAIN c = 1 .. Len(c) /\ Len(c) \in Nat
  BY <1>2
<1>6. name \in [1 .. Len(c) -> Seq(Octet)]
  BY <1>4, <1>5
<1> HIDE DEF name
<1>7. name \in Seq(Seq(Octet))
  BY <1>5, <1>6, SequenceOf
<1> QED BY <1>3, <1>7

\* A field of an Interest has the type of its field whatever is nested in it.
LEMMA FieldType ==
    ASSUME NEW S, S \subseteq BlockRecords(S), NEW block \in S, NEW h \in ReadHeaders
    PROVE  InterestVisitor(h, block) \in ReadHeaders \cup {Refused}
<1>1. block.dtag \in Nat /\ block.nested \in Seq(S)
  BY DEF BlockRecords
<1> DEFINE dtag == block.dtag
           nested == block.nested
           data == nested[1].data
           result == InterestVisitor(h, block)
<1>2. ASSUME Len(nested) = 1
      PROVE  data \in Seq(Octet)
  <2>1. nested[1] \in S
    BY <1>1, <1>2
  <2> QED BY <2>1 DEF BlockRecords
<1>3. CASE dtag \in {Dtag.Name, Dtag.Exclude}
  <2> DEFINE n == NameComponents(nested)
  <2>1. n.name \in Seq(Seq(Octet))
    BY <1>1, ComponentsType
  <2>2. result = IF n.thrown THEN Refused
                 ELSE IF dtag = Dtag.Name THEN [h EXCEPT !.name = n.name]
                 ELSE [h EXCEPT !.exclude = n.name]
    <3>1. dtag \notin NumberFields /\ dtag # Dtag.InterestLifetime /\ dtag # Dtag.Nonce
      BY <1>3, DtagValues DEF NumberFields
    <3> QED BY <1>3, <3>1 DEF InterestVisitor
  <2> DEFINE name == n.name
  <2> HIDE DEF n, result, name
  <2>3. [h EXCEPT !.name = name] \in ReadHeaders /\ [h EXCEPT !.exclude = name] \in ReadHeaders
    BY <2>1 DEF ReadHeaders, HeadersNamed, name
  <2> QED BY <2>2, <2>3 DEF result, name
<1>4. CASE dtag \in NumberFields
  <2> DEFINE n == NonNegativeInteger(data)
  <2>1. result = IF OnlyText(block, Type.udata) THEN NumberField(h, dtag, n) ELSE Refused
    <3>1. dtag \notin {Dtag.Name, Dtag.Exclude}
      BY <1>4, DtagValues DEF NumberFields
    <3>2. dtag # Dtag.InterestLifetime /\ dtag # Dtag.Nonce
      BY <1>4, DtagValues DEF NumberFields
    <3> QED BY <1>4, <3>1, <3>2 DEF InterestVisitor
  <2>2. CASE OnlyText(block, Type.udata)
    <3>1. n \in Int
      <4>1. data \in Seq(Octet)
        BY <1>2, <2>2 DEF OnlyText
      <4> HIDE DEF data
      <4> QED BY <4>1, NumberType
    <3> HIDE DEF n, result
    <3> DEFINE b == (n = 1)
               x == SignedByte(n % 256)
    <3>2. b \in BOOLEAN /\ x \in Int
      <4>1. n % 256 \in Int
        BY <3>1
      <4> QED BY <4>1, SignedByteType
    <3> HIDE DEF b, x
    <3>3. /\ [h EXCEPT !.minSuffix = n] \in ReadHeaders
          /\ [h EXCEPT !.maxSuffix = n] \in ReadHeaders
          /\ [h EXCEPT !.childSelector = b] \in ReadHeaders
          /\ [h EXCEPT !.answerOriginKind = b] \in ReadHeaders
          /\ [h EXCEPT !.scope = x] \in ReadHeaders
          /\ [h EXCEPT !.nack = n] \in ReadHeaders
      BY <3>1, <3>2 DEF ReadHeaders, HeadersNamed
    <3>4. NumberField(h, dtag, n) \in ReadHeaders
      <4>1. CASE dtag = Dtag.MinSuffixComponents
        BY <3>3, <4>1, DtagValues DEF NumberField
      <4>2. CASE dtag = Dtag.MaxSuffixComponents
        BY <3>3, <4>2, DtagValues DEF NumberField
      <4>3. CASE dtag = Dtag.ChildSelector
        BY <3>3, <4>3, DtagValues DEF NumberField, b
      <4>4. CASE dtag = Dtag.AnswerOriginKind
        BY <3>3, <4>4, DtagValues DEF NumberField, b
      <4>5. CASE dtag = Dtag.Scope
        BY <3>3, <4>5, DtagValues DEF NumberField, x
      <4>6. CASE dtag = Dtag.Nack
        BY <3>3, <4>6, DtagValues DEF NumberField
      <4> QED BY <1>4, <4>1, <4>2, <4>3, <4>4, <4>5, <4>6 DEF NumberFields
    <3> QED BY <2>1, <2>2, <3>4 DEF result
  <2>3. CASE ~OnlyText(block, Type.udata)
    BY <2>1, <2>3
  <2> QED BY <2>2, <2>3
<1>5. CASE dtag = Dtag.InterestLifetime
  <2>1. result = IF OnlyText(block, Type.blob) /\ Len(data) >= 2
                 THEN [h EXCEPT !.lifetime = Timestamp(data)] ELSE Refused
    <3>1. dtag \notin {Dtag.Name, Dtag.Exclude} /\ dtag \notin NumberFields /\ dtag # Dtag.Nonce
      BY <1>5, DtagValues DEF NumberFields
    <3> QED BY <1>5, <3>1 DEF InterestVisitor
  <2>2. CASE OnlyText(block, Type.blob) /\ Len(data) >= 2
    <3> DEFINE x == Timestamp(data)
    <3>1. x \in Int
      <4>1. data \in Seq(Octet)
        BY <1>2, <2>2 DEF OnlyText
      <4> HIDE DEF data
      <4> QED BY <2>2, <4>1, TimestampType
    <3> HIDE DEF x, result
    <3>2. [h EXCEPT !.lifetime = x] \in ReadHeaders
      BY <3>1 DEF ReadHeaders, HeadersNamed
    <3> QED BY <2>1, <2>2, <3>2 DEF x, result
  <2>3. CASE ~(OnlyText(block, Type.blob) /\ Len(data) >= 2)
    BY <2>1, <2>3
  <2> QED BY <2>2, <2>3
<1>6. CASE dtag = Dtag.Nonce
  <2>1. result = IF OnlyText(block, Type.blob) /\ Len(data) >= 4
                 THEN [h EXCEPT !.nonce = SubSeq(data, 1, 4)] ELSE Refused
    <3>1. dtag \notin {Dtag.Name, Dtag.Exclude} /\ dtag \notin NumberFields /\ dtag # Dtag.InterestLifetime
      BY <1>6, DtagValues DEF NumberFields
    <3> QED BY <1>6, <3>1 DEF InterestVisitor, HoldsNonce
  <2>2. CASE OnlyText(block, Type.blob) /\ Len(data) >= 4
    <3> DEFINE x == SubSeq(data, 1, 4)
    <3>1. x \in {n \in Seq(Octet) : Len(n) = 4}
      <4>1. data \in Seq(Octet)
        BY <1>2, <2>2 DEF OnlyText
      <4> HIDE DEF data
      <4>2. Len(data) >= 4
        BY <2>2
      <4> QED BY <4>1, <4>2
    <3> HIDE DEF x, result
    <3>2. [h EXCEPT !.nonce = x] \in ReadHeaders
      BY <3>1 DEF ReadHeaders, HeadersNamed
    <3> QED BY <2>1, <2>2, <3>2 DEF x, result
  <2>3. CASE ~(OnlyText(block, Type.blob) /\ Len(data) >= 4)
    BY <2>1, <2>3
  <2> QED BY <2>2, <2>3
<1>7. CASE dtag \notin {Dtag.Name, Dtag.Exclude} \cup NumberFields \cup {Dtag.InterestLifetime, Dtag.Nonce}
  <2>1. result = h
    BY <1>7 DEF InterestVisitor
  <2> QED BY <2>1
<1> QED BY <1>3, <1>4, <1>5, <1>6, <1>7

\* The types of a visit.
VisitTyped(S, visit) ==
    visit.todo \in Seq(S) /\ visit.header \in ReadHeaders \cup {Refused}

\* A round of the visit keeps these types.
LEMMA VisitKeepsType ==
    ASSUME NEW S, S \subseteq BlockRecords(S), NEW visit, VisitTyped(S, visit)
    PROVE  VisitTyped(S, Visit(visit))
<1> DEFINE done == visit.todo = << >> \/ visit.header.kind = "thrown"
           block == Head(visit.todo)
           rest == Tail(visit.todo)
           h == visit.header
<1>1. CASE done
  BY <1>1 DEF Visit
<1>2. CASE ~done
  <2>1. h \in ReadHeaders /\ h.kind = "interest"
    BY <1>2 DEF VisitTyped, Refused, ReadHeaders, HeadersNamed
  <2>2. block \in S /\ rest \in Seq(S)
    BY <1>2 DEF VisitTyped
  <2>3. block.nested \in Seq(S)
    BY <2>2 DEF BlockRecords
  <2>4. InterestVisitor(h, block) \in ReadHeaders \cup {Refused}
    BY <2>1, <2>2, FieldType
  <2> DEFINE todo == block.nested \o rest
             g == InterestVisitor(h, block)
  <2>5. todo \in Seq(S)
    BY <2>2, <2>3
  <2>6. CASE Opens(h, block)
    <3>1. Visit(visit) = [visit EXCEPT !.todo = todo]
      BY <1>2, <2>6 DEF Visit
    <3> HIDE DEF todo
    <3>2. Visit(visit).todo \in Seq(S) /\ Visit(visit).header = visit.header
      BY <2>5, <3>1
    <3> QED BY <3>2 DEF VisitTyped
  <2>7. CASE ~Opens(h, block)
    <3>1. Visit(visit) = [todo |-> rest, header |-> g]
      BY <1>2, <2>1, <2>7 DEF Visit
    <3> HIDE DEF rest, g
    <3> QED BY <2>2, <2>4, <3>1 DEF VisitTyped, g
  <2> QED BY <2>6, <2>7
<1> QED BY <1>1, <1>2

\* What is taken for an Interest has the fields of one, or is refused.
LEMMA DeserializeType ==
    ASSUME NEW d \in Seq(Octet), Len(d) > 0
    PROVE  DeserializeInterest(d) \in ReadHeaders \cup {Refused, [kind |-> "undefined"]}
<1> DEFINE p == SyntaxTree(d)
           all == AllBlocks(d)
           N == Len(d)
<1>1. N \in Nat /\ 1 \in 1 .. Len(d)
  OBVIOUS
<1>2. PICK S : /\ S \subseteq BlockRecords(S)
               /\ \A at \in 1 .. Len(d) + 1 : \A c \in BOOLEAN : all[at][c] \in BlocksOf(S, d, at)
  BY AllBlocksType
<1>3. Later(S, d, all, 1)
  BY <1>1, <1>2 DEF Later
<1> HIDE DEF all
<1>4. GoodParse(S, d, 1, p)
  <2>1. GoodParse(S, d, 1, ParseBlock(d, all, 1))
    BY <1>1, <1>3, ParseBlockIsGood
  <2> QED BY <2>1 DEF SyntaxTree, all
<1>5. DeserializeInterest(d) = IF p.outcome # "parsed" THEN [kind |-> p.outcome] ELSE Visited(NewInterest, p.block, N)
  BY DEF DeserializeInterest, Deserialize, HeaderRead
<1> HIDE DEF p, N
<1>6. CASE p.outcome # "parsed"
  <2>1. p.outcome = "thrown" \/ p.outcome = "undefined"
    BY <1>4, <1>6 DEF GoodParse
  <2> QED BY <1>5, <1>6, <2>1 DEF Refused
<1>7. CASE p.outcome = "parsed"
  <2> DEFINE block == p.block
             R == S \cup {block}
  <2>1. block \in BlockRecords(S)
    BY <1>4, <1>7 DEF GoodParse
  <2> HIDE DEF block
  <2>2. R \subseteq BlockRecords(R) /\ block \in R
    <3>1. S \subseteq R /\ R \subseteq BlockRecords(S)
      BY <1>2, <2>1
    <3>2. block \in R
      OBVIOUS
    <3> HIDE DEF R
    <3> QED BY <3>1, <3>2, BlocksMonotone
  <2> HIDE DEF R
  <2>3. PICK v : VisitRounds(v, NewInterest, block, N) /\ Visited(NewInterest, block, N) = v[N].header
    BY <1>1, VisitedLoop
  <2>4. v[0] = [todo |-> <<block>>, header |-> NewInterest] /\ \A n \in 1 .. N : v[n] = Visit(v[n - 1])
    BY <2>3 DEF VisitRounds
  <2> DEFINE T == {n \in 0 .. N : VisitTyped(R, v[n])}
  <2>5. 0 \in T
    <3>1. NewInterest \in ReadHeaders
      <4>1. -1 \in Int /\ << >> \in Seq(Seq(Octet)) /\ NoName \in {NoName} /\ <<0, 0, 0, 0>> \in {n \in Seq(Octet) : Len(n) = 4}
        BY DEF Octet
      <4> QED BY <4>1 DEF NewInterest, ReadHeaders, HeadersNamed
    <3> DEFINE x == v[0]
               todo == <<block>>
               hd == NewInterest
    <3>2. x = [todo |-> todo, header |-> hd] /\ todo \in Seq(R)
      BY <2>2, <2>4
    <3> HIDE DEF x, todo, hd
    <3>3. VisitTyped(R, x)
      BY <3>1, <3>2 DEF VisitTyped, hd
    <3> QED BY <1>1, <3>3 DEF x
  <2>6. ASSUME NEW n \in 1 .. N, n - 1 \in T
        PROVE  n \in T
    <3>1. v[n] = Visit(v[n - 1]) /\ VisitTyped(R, v[n - 1]) /\ n \in 0 .. N
      BY <1>1, <2>4, <2>6
    <3>2. VisitTyped(R, v[n])
      <4> DEFINE x == v[n - 1]
      <4>1. VisitTyped(R, x)
        BY <3>1
      <4> HIDE DEF x
      <4>2. VisitTyped(R, Visit(x))
        BY <2>2, <4>1, VisitKeepsType
      <4> QED BY <3>1, <4>2 DEF x
    <3> QED BY <3>1, <3>2
  <2>7. N \in T
    <3>1. T = 0 .. N
      BY <1>1, <2>5, <2>6, UpToInduction
    <3> HIDE DEF T
    <3> QED BY <1>1, <3>1
  <2>8. v[N].header \in ReadHeaders \cup {Refused}
    BY <2>7 DEF VisitTyped
  <2> QED BY <1>5, <1>7, <2>3, <2>8 DEF block
<1> QED BY <1>6, <1>7

\* What is taken for a content is no Interest.
ContentKinds == {"content", "thrown", "undefined"}

\* A packet that begins as a content is not read as an Interest.
LEMMA ContentKind ==
    ASSUME NEW d \in Seq(Octet), Len(d) > 0
    PROVE  DeserializeContent(d).kind # "interest"
<1> DEFINE p == SyntaxTree(d)
           N == Len(d)
<1>1. N \in Nat /\ 1 \in 1 .. Len(d)
  OBVIOUS
<1>2. p.outcome # "parsed" => p.outcome \in ContentKinds
  <2>1. PICK S : /\ S \subseteq BlockRecords(S)
                 /\ \A at \in 1 .. Len(d) + 1 : \A c \in BOOLEAN : AllBlocks(d)[at][c] \in BlocksOf(S, d, at)
    BY AllBlocksType
  <2>2. Later(S, d, AllBlocks(d), 1)
    BY <1>1, <2>1 DEF Later
  <2>3. GoodParse(S, d, 1, ParseBlock(d, AllBlocks(d), 1))
    BY <1>1, <2>2, ParseBlockIsGood
  <2> QED BY <2>3 DEF GoodParse, SyntaxTree, ContentKinds
<1>3. DeserializeContent(d) = IF p.outcome # "parsed" THEN [kind |-> p.outcome] ELSE Visited(NewContent, p.block, N)
  BY DEF DeserializeContent, Deserialize, HeaderRead
<1> HIDE DEF p, N
<1>4. CASE p.outcome # "parsed"
  <2>1. DeserializeContent(d).kind = p.outcome
    BY <1>3, <1>4
  <2> QED BY <1>2, <1>4, <2>1 DEF ContentKinds
<1>5. CASE p.outcome = "parsed"
  <2> DEFINE block == p.block
             Good(h) == h = Refused \/ \E name : h = [kind |-> "content", name |-> name]
  <2>1. ASSUME NEW h, Good(h), NEW b
        PROVE  h = Refused \/ Good(ContentObjectVisitor(h, b))
    <3> DEFINE n == NameComponents(b.nested)
    <3>1. CASE h = Refused
      BY <3>1
    <3>2. ASSUME NEW name, h = [kind |-> "content", name |-> name]
          PROVE  Good(ContentObjectVisitor(h, b))
      <4>1. ContentObjectVisitor(h, b) = h \/ ContentObjectVisitor(h, b) = Refused
            \/ ContentObjectVisitor(h, b) = [h EXCEPT !.name = n.name]
        BY DEF ContentObjectVisitor
      <4> DEFINE x == n.name
      <4>2. ContentObjectVisitor(h, b) = h \/ ContentObjectVisitor(h, b) = Refused
            \/ ContentObjectVisitor(h, b) = [h EXCEPT !.name = x]
        BY <4>1
      <4> HIDE DEF x
      <4>3. [h EXCEPT !.name = x] = [kind |-> "content", name |-> x]
        BY <3>2
      <4> QED BY <3>2, <4>2, <4>3
    <3> QED BY <2>1, <3>1, <3>2
  <2>2. ASSUME NEW visit, Good(visit.header)
        PROVE  Good(Visit(visit).header)
    <3> DEFINE h == visit.header
               b == Head(visit.todo)
               more == b.nested \o Tail(visit.todo)
    <3>1. CASE visit.todo = << >> \/ h.kind = "thrown"
      BY <2>2, <3>1 DEF Visit
    <3>2. CASE ~(visit.todo = << >> \/ h.kind = "thrown")
      <4>1. h.kind = "content" /\ h # Refused
        <5>1. \A x : Good(x) => x = Refused \/ x.kind = "content"
          OBVIOUS
        <5>2. Good(h) /\ h.kind # "thrown" /\ Refused.kind = "thrown"
          BY <2>2, <3>2 DEF Refused
        <5> HIDE DEF h, Good
        <5> QED BY <5>1, <5>2
      <4>2. CASE Opens(h, b)
        <5>1. Visit(visit) = [visit EXCEPT !.todo = more]
          BY <3>2, <4>2 DEF Visit
        <5> HIDE DEF more
        <5>2. Visit(visit).header = h
          BY <5>1
        <5> QED BY <2>2, <5>2
      <4>3. CASE ~Opens(h, b)
        <5>1. Visit(visit).header = ContentObjectVisitor(h, b)
          BY <3>2, <4>1, <4>3 DEF Visit
        <5> HIDE DEF h, b, Good
        <5>2. Good(ContentObjectVisitor(h, b))
          BY <2>1, <2>2, <4>1 DEF h
        <5> QED BY <5>1, <5>2
      <4> QED BY <4>2, <4>3
    <3> QED BY <3>1, <3>2
  <2>3. PICK v : VisitRounds(v, NewContent, block, N) /\ Visited(NewContent, block, N) = v[N].header
    BY <1>1, VisitedLoop
  <2>4. v[0].header = NewContent /\ \A n \in 1 .. N : v[n] = Visit(v[n - 1])
    BY <2>3 DEF VisitRounds
  <2> DEFINE T == {n \in 0 .. N : Good(v[n].header)}
  <2>9. \A h : Good(h) => h.kind # "interest"
    BY DEF Refused
  <2>5. 0 \in T
    <3>1. \A name : Good([kind |-> "content", name |-> name])
      OBVIOUS
    <3>2. Good(NewContent)
      BY <3>1 DEF NewContent
    <3> HIDE DEF Good
    <3> QED BY <1>1, <2>4, <3>2
  <2> HIDE DEF Good
  <2>6. ASSUME NEW n \in 1 .. N, n - 1 \in T
        PROVE  n \in T
    <3>1. v[n] = Visit(v[n - 1]) /\ Good(v[n - 1].header) /\ n \in 0 .. N
      BY <1>1, <2>4, <2>6
    <3> QED BY <2>2, <3>1
  <2>7. N \in T
    <3>1. T = 0 .. N
      BY <1>1, <2>5, <2>6, UpToInduction
    <3> HIDE DEF T
    <3> QED BY <1>1, <3>1
  <2>8. Good(v[N].header)
    BY <2>7
  <2> QED BY <1>3, <1>5, <2>3, <2>8, <2>9
<1> QED BY <1>4, <1>5

-----------------------------------------------------------------------------
(* Names as they are typed *)

\* A character more of a name.
Splits(s, c) ==
    CASE c \in 9 .. 13 \cup {32} -> s
      [] c = 47 -> [name |-> s.name \o If(s.part # << >>, <<s.part>>), part |-> << >>]
      [] OTHER -> [s EXCEPT !.part = Append(@, c)]

\* The loop over the characters is well defined.
LEMMA NameLoop ==
    ASSUME NEW text, Len(text) \in Nat
    PROVE  \E f : /\ f[0] = [name |-> << >>, part |-> << >>]
                  /\ \A n \in 1 .. Len(text) : f[n] = Splits(f[n - 1], text[n])
                  /\ NameOf(text) = f[Len(text)].name \o If(f[Len(text)].part # << >>, <<f[Len(text)].part>>)
<1> DEFINE M == Len(text)
           Pieces(s) == s.name \o If(s.part # << >>, <<s.part>>)
           step(s, n) == CASE n = 0 -> [name |-> << >>, part |-> << >>]
                           [] n # 0 /\ text[n] \in 9 .. 13 \cup {32} -> s
                           [] n # 0 /\ text[n] = 47 -> [name |-> Pieces(s), part |-> << >>]
                           [] OTHER -> [s EXCEPT !.part = Append(@, text[n])]
           Rounds(f, m) == f = [n \in 0 .. m |-> step(f[n - 1], n)]
           T == {m \in 0 .. M : \E f : Rounds(f, m)}
<1>0. M \in Nat
  OBVIOUS
<1>8. \A s : step(s, 0) = [name |-> << >>, part |-> << >>]
  OBVIOUS
<1>9. \A s : \A n \in 1 .. M : step(s, n) = Splits(s, text[n])
  <2> SUFFICES ASSUME NEW s, NEW n \in 1 .. M
               PROVE  step(s, n) = Splits(s, text[n])
    OBVIOUS
  <2>1. n # 0
    BY <1>0
  <2>2. CASE text[n] \in 9 .. 13 \cup {32}
    BY <2>1, <2>2 DEF Splits
  <2>3. CASE text[n] = 47
    BY <2>1, <2>3 DEF Splits
  <2>4. CASE text[n] \notin 9 .. 13 \cup {32} /\ text[n] # 47
    BY <2>1, <2>4 DEF Splits
  <2> QED BY <2>2, <2>3, <2>4
<1>6. LET f == CHOOSE f : Rounds(f, M)
      IN NameOf(text) = f[M].name \o If(f[M].part # << >>, <<f[M].part>>)
  BY DEF NameOf
<1> HIDE DEF step
<1>1. 0 \in T
  <2> DEFINE g == [n \in 0 .. 0 |-> step(0, 0)]
  <2>0. \A s, t : step(s, 0) = step(t, 0)
    BY <1>8
  <2>2. \A n \in 0 .. 0 : g[n] = step(g[n - 1], n)
    BY <2>0
  <2>1. Rounds(g, 0)
    BY <2>2
  <2> HIDE DEF Rounds
  <2> QED BY <1>0, <2>1
<1>2. ASSUME NEW m \in 1 .. M, m - 1 \in T
      PROVE  m \in T
  <2>1. PICK f : Rounds(f, m - 1)
    BY <1>2
  <2> DEFINE g == [n \in 0 .. m |-> IF n = m THEN step(f[m - 1], m) ELSE f[n]]
  <2>0. \A s, t : step(s, 0) = step(t, 0)
    BY <1>8
  <2>2. \A n \in 0 .. m - 1 : f[n] = step(f[n - 1], n)
    BY <2>1
  <2>3. \A n \in 0 .. m : g[n] = step(g[n - 1], n)
    <3> SUFFICES ASSUME NEW n \in 0 .. m
                 PROVE  g[n] = step(g[n - 1], n)
      OBVIOUS
    <3>1. CASE n = 0
      <4>1. g[0] = f[0] /\ f[0] = step(f[0 - 1], 0)
        BY <2>2
      <4> QED BY <2>0, <3>1, <4>1
    <3>2. CASE n = m
      <4>1. g[m] = step(f[m - 1], m) /\ g[m - 1] = f[m - 1]
        OBVIOUS
      <4> QED BY <3>2, <4>1
    <3>3. CASE n # 0 /\ n # m
      <4>1. g[n] = f[n] /\ f[n] = step(f[n - 1], n) /\ g[n - 1] = f[n - 1]
        BY <2>2, <3>3
      <4> QED BY <4>1
    <3> QED BY <3>1, <3>2, <3>3
  <2>4. Rounds(g, m)
    BY <2>3
  <2> HIDE DEF Rounds
  <2> QED BY <2>4
<1>3. T = 0 .. M
  <2> HIDE DEF Rounds, M
  <2> QED BY <1>0, <1>1, <1>2, UpToInduction
<1>4. \E f : Rounds(f, M)
  <2>1. M \in T
    <3> HIDE DEF T, M
    <3> QED BY <1>0, <1>3
  <2> HIDE DEF Rounds, M
  <2> QED BY <2>1
<1> DEFINE f == CHOOSE f : Rounds(f, M)
<1>5. Rounds(f, M)
  BY <1>4
<1>7. f[0] = [name |-> << >>, part |-> << >>] /\ \A n \in 1 .. M : f[n] = Splits(f[n - 1], text[n])
  <2> HIDE DEF f
  <2>1. \A n \in 0 .. M : f[n] = step(f[n - 1], n)
    BY <1>5
  <2>2. \A n \in 1 .. M : n \in 0 .. M
    BY <1>0
  <2>3. 0 \in 0 .. M
    BY <1>0
  <2> QED BY <1>8, <1>9, <2>1, <2>2, <2>3
<1> QED BY <1>6, <1>7

\* A name that is typed has no empty component.
LEMMA NameOfType ==
    ASSUME NEW text \in Seq(Octet)
    PROVE  NameOf(text) \in Seq(Component)
<1> DEFINE M == Len(text)
           Good(s) == s = [name |-> s.name, part |-> s.part] /\ s.name \in Seq(Component) /\ s.part \in Seq(Octet)
           Joins(s) == s.name \o If(s.part # << >>, <<s.part>>)
<1>1. M \in Nat /\ \A n \in 1 .. M : text[n] \in Octet
  OBVIOUS
<1>2. PICK f : /\ f[0] = [name |-> << >>, part |-> << >>]
               /\ \A n \in 1 .. M : f[n] = Splits(f[n - 1], text[n])
               /\ NameOf(text) = Joins(f[M])
  BY <1>1, NameLoop
<1>3. ASSUME NEW s, Good(s)
      PROVE  Joins(s) \in Seq(Component)
  <2> DEFINE x == s.name
             y == s.part
  <2>1. x \in Seq(Component) /\ y \in Seq(Octet)
    BY <1>3
  <2>2. Joins(s) = x \o (IF y # << >> THEN <<y>> ELSE << >>)
    BY DEF If
  <2> HIDE DEF x, y, Joins
  <2>3. CASE y = << >>
    BY <2>1, <2>2, <2>3
  <2>4. CASE y # << >>
    <3>1. y \in Component /\ Joins(s) = x \o <<y>>
      BY <2>1, <2>2, <2>4 DEF Component
    <3> QED BY <2>1, <3>1
  <2> QED BY <2>3, <2>4
<1>4. ASSUME NEW s, Good(s), NEW c \in Octet
      PROVE  Good(Splits(s, c))
  <2> DEFINE x == s.name
             y == s.part
             z == Joins(s)
  <2>1. s = [name |-> x, part |-> y] /\ x \in Seq(Component) /\ y \in Seq(Octet) /\ z \in Seq(Component)
    BY <1>3, <1>4
  <2>2. CASE c \in 9 .. 13 \cup {32}
    BY <1>4, <2>2 DEF Splits
  <2>3. CASE c = 47
    <3>1. Splits(s, c) = [name |-> z, part |-> << >>]
      BY <2>3 DEF Splits
    <3> HIDE DEF z
    <3> QED BY <2>1, <3>1
  <2>4. CASE c \notin 9 .. 13 \cup {32} /\ c # 47
    <3>1. Splits(s, c) = [s EXCEPT !.part = Append(y, c)]
      BY <2>4 DEF Splits
    <3> DEFINE w == Append(y, c)
    <3>2. w \in Seq(Octet)
      BY <2>1
    <3> HIDE DEF x, y, w
    <3>3. [s EXCEPT !.part = w] = [name |-> x, part |-> w]
      BY <2>1
    <3>4. Splits(s, c) = [name |-> x, part |-> w]
      BY <3>1, <3>3 DEF w, y
    <3> QED BY <2>1, <3>2, <3>4
  <2> QED BY <2>2, <2>3, <2>4
<1> DEFINE T == {n \in 0 .. M : Good(f[n])}
<1>5. 0 \in T
  <2> DEFINE x == f[0]
  <2>1. x = [name |-> << >>, part |-> << >>]
    BY <1>2
  <2> HIDE DEF x
  <2>2. Good(x)
    BY <2>1
  <2> HIDE DEF Good
  <2> QED BY <1>1, <2>2 DEF x
<1> HIDE DEF Good, Joins
<1>6. ASSUME NEW n \in 1 .. M, n - 1 \in T
      PROVE  n \in T
  <2>1. f[n] = Splits(f[n - 1], text[n]) /\ Good(f[n - 1]) /\ text[n] \in Octet /\ n \in 0 .. M
    BY <1>1, <1>2, <1>6
  <2> QED BY <1>4, <2>1
<1>7. M \in T
  <2> HIDE DEF M
  <2>1. T = 0 .. M
    BY <1>1, <1>5, <1>6, UpToInduction
  <2> HIDE DEF T
  <2> QED BY <1>1, <2>1
<1> QED BY <1>2, <1>3, <1>7

-----------------------------------------------------------------------------
(* What is left in a socket *)

\* The messages of a socket one behind the other, first to last.
LEMMA FlattenPrefixes ==
    ASSUME NEW s \in Seq(Seq(Octet))
    PROVE  \E f : /\ f[0] = << >>
                  /\ \A n \in 1 .. Len(s) : f[n] = f[n - 1] \o s[n]
                  /\ \A n \in 0 .. Len(s) : f[n] \in Seq(Octet) /\ FlattenSeq([i \in 1 .. n |-> s[i]]) = f[n]
<1> DEFINE N == Len(s)
<1>1. N \in Nat /\ \A i \in 1 .. N : s[i] \in Seq(Octet)
  OBVIOUS
<1>2. PICK f : /\ f[0] = << >>
               /\ \A n \in 1 .. N : f[n] = f[n - 1] \o s[n]
               /\ \A n \in 0 .. N : f[n] \in Seq(Octet)
  BY FlattenFromEmpty
<1> HIDE DEF N
<1>3. ASSUME NEW n \in 0 .. N
      PROVE  FlattenSeq([i \in 1 .. n |-> s[i]]) = f[n]
  <2> DEFINE p == [i \in 1 .. n |-> s[i]]
             R == Seq(Octet)
  <2>1. n \in Nat /\ \A i \in 1 .. n : i \in 1 .. N
    BY <1>1
  <2>2. p \in Seq(R) /\ Len(p) = n /\ \A i \in 1 .. n : p[i] = s[i]
    <3>0. \A i \in 1 .. n : s[i] \in R
      BY <1>1, <2>1
    <3> HIDE DEF R
    <3>1. p \in [1 .. n -> R] /\ \A i \in 1 .. n : p[i] = s[i]
      BY <3>0
    <3> HIDE DEF p
    <3> QED BY <2>1, <3>1, SequenceOf
  <2> HIDE DEF p
  <2>3. PICK g : /\ g[0] = << >>
                 /\ \A k \in 1 .. n : g[k] = g[k - 1] \o p[k]
                 /\ FlattenSeq(p) = g[n]
    <3>1. p \in Seq(Seq(Octet))
      BY <2>2
    <3>2. \E g : /\ g[0] = << >>
                 /\ \A k \in 1 .. Len(p) : g[k] = g[k - 1] \o p[k]
                 /\ \A k \in 0 .. Len(p) : g[k] \in Seq(Octet)
                 /\ FlattenSeq(p) = g[Len(p)]
      BY <3>1, FlattenFromEmpty
    <3> QED BY <2>2, <3>2
  <2> DEFINE T == {k \in 0 .. n : g[k] = f[k]}
  <2>4. 0 \in T
    BY <1>2, <2>1, <2>3
  <2>5. ASSUME NEW k \in 1 .. n, k - 1 \in T
        PROVE  k \in T
    <3>1. g[k] = g[k - 1] \o p[k] /\ f[k] = f[k - 1] \o s[k] /\ p[k] = s[k] /\ g[k - 1] = f[k - 1]
      BY <1>2, <2>1, <2>2, <2>3, <2>5
    <3>2. k \in 0 .. n
      BY <2>1
    <3> QED BY <3>1, <3>2
  <2>6. T = 0 .. n
    BY <2>1, <2>4, <2>5, UpToInduction
  <2>7. n \in T
    <3> HIDE DEF T
    <3> QED BY <2>1, <2>6
  <2> QED BY <2>3, <2>7 DEF p
<1> QED BY <1>2, <1>3 DEF N

\* The messages that are read whole are the first ones.
LEMMA WholeRead ==
    ASSUME NEW N \in Nat, NEW f, \A n \in 0 .. N : f[n] \in Nat,
           \A n \in 1 .. N : f[n - 1] <= f[n], NEW read \in Nat, f[0] = 0
    PROVE  LET whole == Cardinality({n \in 1 .. N : f[n] <= read})
           IN whole \in 0 .. N /\ f[whole] <= read
<1> DEFINE K == {n \in 1 .. N : f[n] <= read}
           T == {m \in 0 .. N : \E w \in 0 .. m : /\ {n \in 1 .. m : f[n] <= read} = 1 .. w
                                                  /\ f[w] <= read
                                                  /\ w < m => f[m] > read}
<1>1. 0 \in T
  <2>1. {n \in 1 .. 0 : f[n] <= read} = 1 .. 0 /\ f[0] <= read /\ ~(0 < 0) /\ 0 \in 0 .. 0
    OBVIOUS
  <2> QED BY <2>1
<1>2. ASSUME NEW m \in 1 .. N, m - 1 \in T
      PROVE  m \in T
  <2>1. PICK w \in 0 .. m - 1 : /\ {n \in 1 .. m - 1 : f[n] <= read} = 1 .. w
                                /\ f[w] <= read
                                /\ w < m - 1 => f[m - 1] > read
    BY <1>2
  <2>2. f[m - 1] \in Nat /\ f[m] \in Nat /\ f[m - 1] <= f[m] /\ m \in Nat /\ m \in 0 .. N /\ w \in Nat
    BY <1>2
  <2>3. CASE f[m] <= read
    <3>1. w = m - 1
      BY <2>1, <2>2, <2>3
    <3>2. {n \in 1 .. m : f[n] <= read} = 1 .. m
      <4>1. \A n \in 1 .. m - 1 : f[n] <= read
        BY <2>1, <3>1
      <4>2. \A n \in 1 .. m : f[n] <= read
        BY <2>2, <2>3, <4>1
      <4> QED BY <4>2
    <3>3. m \in 0 .. m /\ ~(m < m)
      BY <2>2
    <3> QED BY <2>2, <2>3, <3>2, <3>3
  <2>4. CASE f[m] > read
    <3>1. {n \in 1 .. m : f[n] <= read} = {n \in 1 .. m - 1 : f[n] <= read}
      BY <2>2, <2>4
    <3>2. w \in 0 .. m
      BY <2>2
    <3> QED BY <2>1, <2>2, <2>4, <3>1, <3>2
  <2> QED BY <2>2, <2>3, <2>4
<1>3. N \in T
  <2>1. T = 0 .. N
    BY <1>1, <1>2, UpToInduction
  <2> HIDE DEF T
  <2> QED BY <2>1
<1>4. PICK w \in 0 .. N : K = 1 .. w /\ f[w] <= read
  BY <1>3
<1>5. Cardinality(1 .. w) = w
  <2> DEFINE z == 1
  <2>1. z \in Int /\ w \in Int /\ w >= 0
    BY DEF z
  <2> HIDE DEF z
  <2>2. Cardinality(z .. w) = IF z > w THEN 0 ELSE w - z + 1
    BY <2>1, FS_Interval
  <2> QED BY <2>1, <2>2 DEF z
<1> QED BY <1>4, <1>5

\* What is left of the messages in a socket is messages, and the rest of one.
LEMMA AfterType ==
    ASSUME NEW messages, IsSequence(messages),
           \A i \in 1 .. Len(messages) : messages[i].bytes \in Seq(Octet),
           NEW read \in Nat
    PROVE  LET left == After(messages, read)
           IN /\ IsSequence(left)
              /\ \A i \in 1 .. Len(left) : \E j \in 1 .. Len(messages) :
                    \/ left[i] = messages[j]
                    \/ \E k \in Nat : left[i] = Rest(messages[j], k)
<1> DEFINE N == Len(messages)
           s == [i \in 1 .. N |-> messages[i].bytes]
           Until(n) == Len(FlattenSeq([i \in 1 .. n |-> messages[i].bytes]))
           K == {n \in DOMAIN messages : Until(n) <= read}
           whole == Cardinality(K)
           left == SubSeq(messages, whole + 1, N)
           k == read - Until(whole)
           result == After(messages, read)
<1>1. N \in Nat /\ DOMAIN messages = 1 .. N
  BY DEF IsSequence
<1>2. s \in Seq(Seq(Octet)) /\ Len(s) = N /\ \A i \in 1 .. N : s[i] = messages[i].bytes
  <2> DEFINE R == Seq(Octet)
  <2>0. \A i \in 1 .. N : messages[i].bytes \in R
    OBVIOUS
  <2> HIDE DEF R
  <2>1. s \in [1 .. N -> R] /\ \A i \in 1 .. N : s[i] = messages[i].bytes
    BY <2>0
  <2> HIDE DEF s, N
  <2>2. s \in Seq(R) /\ Len(s) = N
    BY <1>1, <2>1, SequenceOf
  <2> QED BY <2>1, <2>2 DEF R
<1> HIDE DEF s
<1>3. PICK f : /\ f[0] = << >>
               /\ \A n \in 1 .. N : f[n] = f[n - 1] \o s[n]
               /\ \A n \in 0 .. N : f[n] \in Seq(Octet) /\ FlattenSeq([i \in 1 .. n |-> s[i]]) = f[n]
  <2> HIDE DEF N
  <2>1. \E f : /\ f[0] = << >>
               /\ \A n \in 1 .. Len(s) : f[n] = f[n - 1] \o s[n]
               /\ \A n \in 0 .. Len(s) : f[n] \in Seq(Octet) /\ FlattenSeq([i \in 1 .. n |-> s[i]]) = f[n]
    BY <1>2, FlattenPrefixes
  <2> QED BY <1>2, <2>1
<1>4. \A n \in 0 .. N : Until(n) = Len(f[n])
  <2> SUFFICES ASSUME NEW n \in 0 .. N
               PROVE  Until(n) = Len(f[n])
    OBVIOUS
  <2>1. \A i \in 1 .. n : s[i] = messages[i].bytes
    BY <1>1, <1>2
  <2>2. [i \in 1 .. n |-> messages[i].bytes] = [i \in 1 .. n |-> s[i]]
    BY <2>1
  <2> QED BY <1>3, <2>2
<1> HIDE DEF Until
<1> DEFINE g == [n \in 0 .. N |-> Len(f[n])]
<1>5. whole \in 0 .. N /\ Until(whole) <= read /\ Until(whole) \in Nat
  <2>1. \A n \in 0 .. N : g[n] = Len(f[n]) /\ g[n] \in Nat
    BY <1>3
  <2>2. ASSUME NEW n \in 1 .. N
        PROVE  g[n - 1] <= g[n]
    <3>1. n \in 0 .. N /\ n - 1 \in 0 .. N
      BY <1>1
    <3>2. f[n] = f[n - 1] \o s[n] /\ f[n - 1] \in Seq(Octet) /\ s[n] \in Seq(Octet)
      BY <1>2, <1>3, <3>1
    <3> DEFINE x == f[n - 1]
               y == s[n]
    <3>3. Len(x \o y) = Len(x) + Len(y) /\ Len(x) \in Nat /\ Len(y) \in Nat
      BY <3>2, Joined
    <3>4. g[n] = Len(x \o y) /\ g[n - 1] = Len(x)
      BY <2>1, <3>1, <3>2
    <3> HIDE DEF g, x, y
    <3> QED BY <3>3, <3>4
  <2>3. g[0] = 0
    <3>1. Len(<< >>) = 0 /\ 0 \in 0 .. N
      BY <1>1
    <3> QED BY <1>3, <2>1, <3>1
  <2>4. K = {n \in 1 .. N : g[n] <= read}
    <3>1. \A n \in 1 .. N : Until(n) = g[n]
      <4>1. \A n \in 1 .. N : n \in 0 .. N
        BY <1>1
      <4> QED BY <1>4, <2>1, <4>1
    <3> QED BY <1>1, <3>1
  <2> HIDE DEF g, N
  <2>5. LET w == Cardinality({n \in 1 .. N : g[n] <= read})
        IN w \in 0 .. N /\ g[w] <= read
    BY <1>1, <2>1, <2>2, <2>3, WholeRead
  <2>6. whole \in 0 .. N /\ g[whole] <= read
    BY <2>4, <2>5
  <2> HIDE DEF whole
  <2> QED BY <1>4, <2>1, <2>6
<1> HIDE DEF K
<1>6. result = IF left = << >> \/ read = Until(whole) THEN left
               ELSE [left EXCEPT ![1] = Rest(left[1], k)]
  BY DEF After, Until, K
<1>7. k \in Nat
  <2> HIDE DEF whole
  <2> QED BY <1>5
<1> HIDE DEF k, whole, result
<1>8. PICK S : messages \in Seq(S)
  BY DEF IsSequence
<1>9. /\ left \in Seq(S) /\ Len(left) \in Nat
      /\ \A i \in 1 .. Len(left) : \E j \in 1 .. N : left[i] = messages[j]
  <2>1. left \in Seq(S) /\ Len(left) = N - whole /\ \A i \in 1 .. N - whole : left[i] = messages[whole + i]
    <3> DEFINE w == whole + 1
    <3>0. w = whole + 1 /\ N \in Nat /\ whole \in Int /\ 0 <= whole /\ whole <= N
      BY <1>1, <1>5
    <3>5. w \in Int /\ N \in Int /\ N - w + 1 = N - whole /\ N - whole \in Nat
      <4> HIDE DEF w, N
      <4> QED BY <3>0
    <3>6. (IF w <= N THEN N - w + 1 ELSE 0) = N - whole
      <4> HIDE DEF w, N
      <4> QED BY <3>0
    <3>7. \A i \in w .. N : i \in 1 .. N
      <4> HIDE DEF w, N
      <4> QED BY <3>0
    <3>8. \A i \in 1 .. N - whole : w + i - 1 = whole + i
      <4> HIDE DEF w, N
      <4> QED BY <3>0
    <3>1. /\ w \in Int /\ N \in Int /\ N - w + 1 = N - whole /\ N - whole \in Nat
          /\ (IF w <= N THEN N - w + 1 ELSE 0) = N - whole
          /\ \A i \in w .. N : i \in 1 .. N
          /\ \A i \in 1 .. N - whole : w + i - 1 = whole + i
      BY <3>5, <3>6, <3>7, <3>8
    <3>2. \A i \in w .. N : messages[i] \in S
      BY <1>8, <3>1
    <3>3. left = SubSeq(messages, w, N)
      OBVIOUS
    <3> HIDE DEF left, w, N
    <3>4. /\ left \in Seq(S)
          /\ Len(left) = IF w <= N THEN N - w + 1 ELSE 0
          /\ \A i \in 1 .. N - w + 1 : left[i] = messages[w + i - 1]
      BY <3>1, <3>2, <3>3, SubSeqProperties
    <3> QED BY <3>1, <3>4
  <2>2. \A i \in 1 .. N - whole : whole + i \in 1 .. N
    BY <1>1, <1>5
  <2>3. N - whole \in Nat
    BY <1>1, <1>5
  <2> HIDE DEF left
  <2> QED BY <2>1, <2>2, <2>3
<1> HIDE DEF left
<1>10. CASE left = << >> \/ read = Until(whole)
  <2>1. result = left
    BY <1>6, <1>10
  <2> QED BY <1>9, <2>1 DEF IsSequence, result
<1>11. CASE ~(left = << >> \/ read = Until(whole))
  <2> DEFINE r == Rest(left[1], k)
             R == S \cup {r}
  <2>1. result = [left EXCEPT ![1] = r]
    BY <1>6, <1>11
  <2>2. r \in R /\ S \subseteq R
    OBVIOUS
  <2>3. 1 \in 1 .. Len(left)
    BY <1>9, <1>11
  <2>4. PICK j \in 1 .. N : r = Rest(messages[j], k)
    <3>1. PICK j \in 1 .. N : left[1] = messages[j]
      BY <1>9, <2>3
    <3> QED BY <3>1
  <2>5. \A i \in 1 .. Len(left) : left[i] \in S
    BY <1>9
  <2> HIDE DEF r, R
  <2> DEFINE n == Len(left)
  <2>6. DOMAIN left = 1 .. n
    BY <1>9
  <2>7. \A i \in 1 .. n : result[i] = IF i = 1 THEN r ELSE left[i]
    BY <2>1, <2>6
  <2>8. result \in [1 .. n -> R]
    <3>1. DOMAIN result = 1 .. n /\ result = [i \in 1 .. n |-> result[i]]
      BY <2>1, <2>6
    <3>2. \A i \in 1 .. n : result[i] \in R
      BY <2>2, <2>5, <2>7
    <3> QED BY <3>1, <3>2
  <2>9. result \in Seq(R) /\ Len(result) = n
    <3>1. n \in Nat
      BY <1>9
    <3> HIDE DEF n
    <3> QED BY <2>8, <3>1, SequenceOf
  <2>10. \A i \in 1 .. n : \E l \in 1 .. N : result[i] = messages[l] \/ \E q \in Nat : result[i] = Rest(messages[l], q)
    BY <1>7, <1>9, <2>4, <2>7
  <2> HIDE DEF n
  <2> QED BY <2>9, <2>10 DEF IsSequence, result
<1> QED BY <1>10, <1>11

-----------------------------------------------------------------------------
(* Messages *)

\* Every packet that begins with these bytes is read as this header.
Means(bytes, h) ==
    \A d \in Seq(Octet) : Len(d) < Beyond /\ HasAt(d, 1, bytes) => HeaderOf(d) = h

\* No packet that begins with these bytes is read as a content.
NoContent(bytes) ==
    \A d \in Seq(Octet) : Len(d) < Beyond /\ HasAt(d, 1, bytes) => HeaderOf(d).kind # "content"

\* What is known of a message.
GoodMessage(m) ==
    /\ m = Message(m.header, m.bytes, m.payload, m.hops)
    /\ m.bytes \in Seq(Octet)
    /\ m.header.kind # "none" => Len(m.bytes) <= BufferLength
    /\ m.header.kind = "interest" =>
          /\ m.header \in ProperInterests \/ (m.header.name = NoName /\ Means(m.bytes, m.header))
          /\ NoContent(m.bytes)
    /\ m.header.kind = "content" =>
          /\ m.header \in ContentHeaders /\ m.payload \in Seq(Octet)
          /\ m.bytes = SerializeContent(m.header) \o m.payload
    /\ m.header.kind # "none" /\ (m.header.kind = "interest" => Carried(m.header.lifetime)) =>
          Means(m.bytes, m.header)

\* What is said of the messages of other programs is so.
ForeignAsSaid ==
    \A m \in Foreign : m.header.kind # "none" =>
        /\ m.header.kind = "interest" /\ m.header.name # NoName => m.header \in ProperInterests
        /\ m.header.kind # "content" /\ Len(m.bytes) <= BufferLength
        /\ Means(m.bytes, m.header)

\* The fields of a message.
LEMMA MessageFields ==
    ASSUME NEW h, NEW bytes, NEW payload, NEW hops
    PROVE  LET m == Message(h, bytes, payload, hops)
           IN m.header = h /\ m.bytes = bytes /\ m.payload = payload /\ m.hops = hops
  BY DEF Message

\* A message of which nothing is said is good,
LEMMA NothingMessage ==
    ASSUME NEW bytes \in Seq(Octet), NEW payload, NEW hops
    PROVE  GoodMessage(Message(Nothing, bytes, payload, hops))
<1> DEFINE m == Message(Nothing, bytes, payload, hops)
<1>1. m.header = Nothing /\ m.bytes = bytes /\ m.payload = payload /\ m.hops = hops
  BY MessageFields
<1>2. m = Message(Nothing, bytes, payload, hops)
  OBVIOUS
<1> HIDE DEF m
<1>3. Nothing.kind = "none"
  BY DEF Nothing
<1>4. GoodMessage(m)
  BY <1>1, <1>2, <1>3 DEF GoodMessage
<1> QED BY <1>4 DEF m

\* an Interest that fits into the buffer,
LEMMA InterestMessage ==
    ASSUME NEW h \in InterestHeaders, NEW original \in ProperInterests,
           Carried(original.lifetime) => original = h,
           NEW hops, Len(Serialize(h) \o << >>) <= BufferLength
    PROVE  GoodMessage(Message(original, Serialize(h) \o << >>, << >>, hops))
<1> DEFINE bytes == Serialize(h) \o << >>
           m == Message(original, bytes, << >>, hops)
<1>1. m.header = original /\ m.bytes = bytes /\ m.payload = << >> /\ m.hops = hops
  BY MessageFields
<1>2. m = Message(original, bytes, << >>, hops)
  OBVIOUS
<1>3. Serialize(h) = SerializeInterest(h)
  BY DEF Serialize, InterestHeaders, HeadersNamed
<1>4. bytes = SerializeInterest(h) /\ bytes \in Seq(Octet)
  <2>1. SerializeInterest(h) \in Seq(Octet)
    <3>1. SerializeInterest(h) = Element(Dtag.Interest, FlattenSeq(Parts(h))) /\ FlattenSeq(Parts(h)) \in Seq(Octet)
      BY InterestWritten
    <3>2. Dtag.Interest \in Nat
      BY DtagValues
    <3> QED BY <3>1, <3>2, ElementWritten
  <2> DEFINE s == SerializeInterest(h)
  <2>2. s \in Seq(Octet)
    BY <2>1
  <2>3. bytes = s \o << >>
    BY <1>3
  <2> HIDE DEF s, bytes
  <2> QED BY <2>2, <2>3 DEF s
<1>5. ASSUME NEW d \in Seq(Octet), Len(d) < Beyond, HasAt(d, 1, bytes)
      PROVE  /\ HeaderOf(d) = DeserializeInterest(d)
             /\ HeaderOf(d) \in ReadHeaders \cup {Refused, [kind |-> "undefined"]}
  <2>1. HasAt(d, 1, SerializeInterest(h))
    BY <1>4, <1>5
  <2>2. HeaderOf(d) = DeserializeInterest(d) /\ Len(d) > 0
    BY <2>1, InterestIsInterest
  <2> QED BY <2>2, DeserializeType
<1>6. NoContent(bytes)
  <2> SUFFICES ASSUME NEW d \in Seq(Octet), Len(d) < Beyond, HasAt(d, 1, bytes)
               PROVE  HeaderOf(d).kind # "content"
    BY DEF NoContent
  <2>1. HeaderOf(d) \in ReadHeaders \cup {Refused, [kind |-> "undefined"]}
    BY <1>5
  <2>2. \A g \in ReadHeaders \cup {Refused, [kind |-> "undefined"]} : g.kind # "content"
    BY DEF ReadHeaders, HeadersNamed, Refused
  <2> QED BY <2>1, <2>2
<1>7. ASSUME Carried(original.lifetime)
      PROVE  Means(bytes, original)
  <2> SUFFICES ASSUME NEW d \in Seq(Octet), Len(d) < Beyond, HasAt(d, 1, bytes)
               PROVE  HeaderOf(d) = original
    BY DEF Means
  <2>1. h \in ProperInterests /\ Carried(h.lifetime) /\ original = h
    BY <1>7
  <2>2. HasAt(d, 1, SerializeInterest(h))
    BY <1>4
  <2>3. DeserializeInterest(d) = h
    BY <2>1, <2>2, InterestRead
  <2> QED BY <1>5, <2>1, <2>3
<1>8. original.kind = "interest"
  BY DEF ProperInterests, InterestHeaders, HeadersNamed
<1> HIDE DEF m
<1>9. GoodMessage(m)
  <2>1. Len(bytes) <= BufferLength
    OBVIOUS
  <2> HIDE DEF bytes
  <2> QED BY <1>1, <1>2, <1>4, <1>6, <1>7, <1>8, <2>1 DEF GoodMessage
<1> QED BY <1>9 DEF m

\* a content with its payload that fits,
LEMMA ContentMessage ==
    ASSUME NEW h \in ContentHeaders, NEW payload \in Seq(Octet), NEW hops,
           Len(Serialize(h) \o payload) <= BufferLength
    PROVE  GoodMessage(Message(h, Serialize(h) \o payload, payload, hops))
<1> DEFINE s == SerializeContent(h)
           bytes == Serialize(h) \o payload
           m == Message(h, bytes, payload, hops)
<1>1. m.header = h /\ m.bytes = bytes /\ m.payload = payload /\ m.hops = hops
  <2> HIDE DEF bytes
  <2> QED BY MessageFields
<1>2. m = Message(h, bytes, payload, hops)
  OBVIOUS
<1>3. h.kind = "content" /\ Serialize(h) = s
  BY DEF Serialize, ContentHeaders
<1>4. bytes = s \o payload
  BY <1>3
<1>5. s \in Seq(Octet)
  BY ContentWritten
<1>6. Len(bytes) <= BufferLength
  OBVIOUS
<1> HIDE DEF m, bytes
<1>7. bytes \in Seq(Octet)
  <2> HIDE DEF s
  <2> QED BY <1>4, <1>5, Joined
<1>8. Means(bytes, h)
  <2> SUFFICES ASSUME NEW d \in Seq(Octet), Len(d) < Beyond, HasAt(d, 1, bytes)
               PROVE  HeaderOf(d) = h
    BY DEF Means
  <2>1. HasAt(d, 1, s)
    <3> HIDE DEF s
    <3> QED BY <1>4, <1>5, HasParts
  <2>2. HeaderOf(d) = DeserializeContent(d)
    BY <2>1, ContentIsContent
  <2>3. DeserializeContent(d) = h
    BY <2>1, ContentRead
  <2> QED BY <2>2, <2>3
<1>9. GoodMessage(m)
  <2> HIDE DEF s
  <2>1. bytes = SerializeContent(h) \o payload
    BY <1>4 DEF s
  <2> QED BY <1>1, <1>2, <1>3, <1>6, <1>7, <1>8, <2>1 DEF GoodMessage
<1> QED BY <1>9 DEF m, bytes

\* what another program says of its message if it is so,
LEMMA ForeignMessage ==
    ASSUME ForeignAsSaid, NEW f \in Foreign
    PROVE  GoodMessage(Message(f.header, f.bytes, << >>, 0))
<1> DEFINE m == Message(f.header, f.bytes, << >>, 0)
<1>1. m.header = f.header /\ m.bytes = f.bytes /\ m.payload = << >> /\ m.hops = 0
  BY MessageFields
<1>2. m = Message(f.header, f.bytes, << >>, 0)
  OBVIOUS
<1> HIDE DEF m
<1>3. f.bytes \in Seq(Octet)
  BY ExchangeAssumption DEF Component
<1>4. f.header.kind # "none" =>
        /\ f.header.kind = "interest" /\ f.header.name # NoName => f.header \in ProperInterests
        /\ f.header.kind # "content" /\ Len(f.bytes) <= BufferLength
        /\ Means(f.bytes, f.header)
  BY DEF ForeignAsSaid
<1>5. ASSUME f.header.kind = "interest"
      PROVE  NoContent(f.bytes)
  <2> SUFFICES ASSUME NEW d \in Seq(Octet), Len(d) < Beyond, HasAt(d, 1, f.bytes)
               PROVE  HeaderOf(d).kind # "content"
    BY DEF NoContent
  <2>1. HeaderOf(d) = f.header
    BY <1>4, <1>5 DEF Means
  <2> QED BY <1>5, <2>1
<1>6. GoodMessage(m)
  BY <1>1, <1>2, <1>3, <1>4, <1>5 DEF GoodMessage
<1> QED BY <1>6 DEF m

\* and the rest of a good message.
LEMMA RestMessage ==
    ASSUME NEW m, GoodMessage(m), NEW k \in Nat
    PROVE  GoodMessage(Rest(m, k))
<1> DEFINE bytes == SubSeq(m.bytes, k + 1, Len(m.bytes))
           b == m.bytes
<1>1. bytes \in Seq(Octet)
  <2>1. b \in Seq(Octet) /\ Len(b) \in Nat /\ k + 1 \in Int
    BY DEF GoodMessage
  <2>2. \A i \in k + 1 .. Len(b) : b[i] \in Octet
    <3>1. \A i \in k + 1 .. Len(b) : i \in 1 .. Len(b)
      BY <2>1
    <3> QED BY <2>1, <3>1
  <2>3. bytes = SubSeq(b, k + 1, Len(b))
    OBVIOUS
  <2> HIDE DEF bytes, b
  <2> QED BY <2>1, <2>2, <2>3, SubSeqProperties
<1> HIDE DEF bytes
<1>2. Rest(m, k) = [m EXCEPT !.bytes = bytes, !.header = Nothing]
  BY DEF Rest, bytes
<1>3. m = Message(m.header, m.bytes, m.payload, m.hops)
  BY DEF GoodMessage
<1> DEFINE x == m.header
           y == m.bytes
           p == m.payload
           n == m.hops
<1> HIDE DEF x, y, p, n
<1>4. m = [bytes |-> y, header |-> x, payload |-> p, hops |-> n]
  BY <1>3 DEF Message, x, y, p, n
<1>5. Rest(m, k) = [bytes |-> bytes, header |-> Nothing, payload |-> p, hops |-> n]
  BY <1>2, <1>4
<1>6. Rest(m, k) = Message(Nothing, bytes, p, n)
  BY <1>5 DEF Message
<1> QED BY <1>1, <1>6, NothingMessage

-----------------------------------------------------------------------------
(* The invariant *)

\* The inductive invariant.
IInv ==
    /\ IsSequence(socket) /\ \A i \in 1 .. Len(socket) : GoodMessage(socket[i])
    /\ packet.data \in Seq(Octet) /\ Len(packet.data) <= BufferLength /\ GoodMessage(packet.message)
    /\ BeginsWithHeader => HasAt(packet.data, 1, packet.message.bytes)
    /\ header = Nothing \/ (packet.data # << >> /\ header = HeaderOf(packet.data))

\* The buffer is shorter than the parser can reckon.
LEMMA BufferFits ==
    BufferLength \in Nat /\ BufferLength < Beyond /\ 1 <= BufferLength
<1> DEFINE b == Beyond
<1>1. b \in Nat
  BY DEF Beyond
<1> HIDE DEF b
<1>2. BufferLength \in 1 .. b - 1
  BY ExchangeAssumption DEF b
<1> QED BY <1>1, <1>2 DEF b

\* What a header is that was taken from a packet whose message is known.
LEMMA HeaderTaken ==
    ASSUME IInv, header.kind # "none", BeginsWithHeader
    PROVE  /\ (packet.message.header.kind = "interest" => Carried(packet.message.header.lifetime))
                 => header = packet.message.header
           /\ packet.message.header.kind = "interest" =>
                 /\ header.kind # "content"
                 /\ packet.message.header \in ProperInterests \/ header = packet.message.header
<1> DEFINE d == packet.data
           m == packet.message
<1>1. header = HeaderOf(d)
  BY DEF IInv, Nothing
<1>2. d \in Seq(Octet) /\ Len(d) < Beyond
  <2>1. d \in Seq(Octet) /\ Len(d) <= BufferLength
    BY DEF IInv
  <2> DEFINE b == Beyond
  <2>2. BufferLength \in Nat /\ BufferLength < b /\ b \in Int
    <3>1. b \in Int
      BY DEF Beyond
    <3> QED BY <3>1, BufferFits
  <2> HIDE DEF b, d
  <2>3. Len(d) < b
    <3>1. Len(d) \in Nat
      BY <2>1
    <3> QED BY <2>1, <2>2, <3>1
  <2> QED BY <2>1, <2>3 DEF b
<1>3. HasAt(d, 1, m.bytes) /\ GoodMessage(m) /\ m.header.kind # "none"
  BY DEF IInv, BeginsWithHeader
<1> HIDE DEF d, m
<1>4. ASSUME m.header.kind = "interest" => Carried(m.header.lifetime)
      PROVE  header = m.header
  <2>1. Means(m.bytes, m.header)
    BY <1>3, <1>4 DEF GoodMessage
  <2> QED BY <1>1, <1>2, <1>3, <2>1 DEF Means
<1>5. ASSUME m.header.kind = "interest"
      PROVE  header.kind # "content" /\ (m.header \in ProperInterests \/ header = m.header)
  <2>1. NoContent(m.bytes) /\ (m.header \in ProperInterests \/ Means(m.bytes, m.header))
    BY <1>3, <1>5 DEF GoodMessage
  <2> QED BY <1>1, <1>2, <1>3, <2>1 DEF NoContent, Means
<1> QED BY <1>4, <1>5 DEF m

\* A good message more in the socket.
LEMMA GoodAppended ==
    ASSUME NEW m, GoodMessage(m), IsSequence(socket), \A i \in 1 .. Len(socket) : GoodMessage(socket[i])
    PROVE  LET more == Append(socket, m)
           IN IsSequence(more) /\ \A i \in 1 .. Len(more) : GoodMessage(more[i])
<1> DEFINE more == Append(socket, m)
<1>1. PICK S : socket \in Seq(S)
  BY DEF IsSequence
<1> DEFINE R == S \cup {m}
<1>2. socket \in Seq(R) /\ m \in R
  <2>1. S \subseteq R
    OBVIOUS
  <2>2. m \in R
    OBVIOUS
  <2> HIDE DEF R
  <2> QED BY <1>1, <2>1, <2>2, SeqMonotonic
<1> HIDE DEF R
<1>3. more \in Seq(R) /\ Len(more) = Len(socket) + 1
      /\ \A i \in 1 .. Len(socket) + 1 : more[i] = IF i = Len(socket) + 1 THEN m ELSE socket[i]
  BY <1>2
<1>4. Len(socket) \in Nat
  BY <1>1
<1> HIDE DEF more
<1>5. IsSequence(more)
  BY <1>3 DEF IsSequence
<1>6. ASSUME NEW i \in 1 .. Len(more)
      PROVE  GoodMessage(more[i])
  <2>1. i \in 1 .. Len(socket) + 1 /\ more[i] = IF i = Len(socket) + 1 THEN m ELSE socket[i]
    BY <1>3
  <2>2. CASE i = Len(socket) + 1
    BY <2>1, <2>2
  <2>3. CASE i # Len(socket) + 1
    <3>1. i \in 1 .. Len(socket)
      BY <1>4, <2>1, <2>3
    <3> QED BY <2>1, <2>3, <3>1
  <2> QED BY <2>2, <2>3
<1> QED BY <1>5, <1>6 DEF more

\* A message that is written is one more of its kind in the socket.
LEMMA WriteKeeps ==
    ASSUME IInv, NEW h, NEW payload, NEW original, NEW hops, Write(h, payload, original, hops),
           Len(Serialize(h) \o payload) <= BufferLength =>
               GoodMessage(Message(original, Serialize(h) \o payload, payload, hops)),
           Len(Serialize(h) \o payload) \in Nat
    PROVE  IInv'
<1> DEFINE bytes == Serialize(h) \o payload
           m == Message(original, bytes, payload, hops)
<1>1. packet' = packet /\ header' = header
      /\ (socket' = socket \/ (Len(bytes) <= BufferLength /\ socket' = Append(socket, m)))
  <2>1. Len(bytes) \in Nat /\ BufferLength \in Nat
    BY BufferFits
  <2>2. packet' = packet /\ header' = header
        /\ (socket' = socket \/ (~(Len(bytes) > BufferLength) /\ socket' = Append(socket, m)))
    BY DEF Write
  <2> HIDE DEF bytes, m
  <2> QED BY <2>1, <2>2
<1>2. Len(bytes) <= BufferLength => GoodMessage(m)
  OBVIOUS
<1> HIDE DEF bytes, m
<1>3. CASE socket' = socket
  BY <1>1, <1>3 DEF IInv, BeginsWithHeader
<1>4. CASE Len(bytes) <= BufferLength /\ socket' = Append(socket, m)
  <2>1. IsSequence(Append(socket, m)) /\ \A k \in 1 .. Len(Append(socket, m)) : GoodMessage(Append(socket, m)[k])
    BY <1>2, <1>4, GoodAppended DEF IInv
  <2> QED BY <1>1, <1>4, <2>1 DEF IInv, BeginsWithHeader
<1> QED BY <1>1, <1>3, <1>4

\* A name that has been read is one.
LEMMA NamesAreNot == NoName \notin Seq(Seq(Octet))
<1>1. SUFFICES ASSUME NoName \in Seq(Seq(Octet))
               PROVE  FALSE
  OBVIOUS
<1>2. Len(NoName) = 1 /\ NoName[1] = <<-1>>
  BY DEF NoName
<1>3. NoName[1] \in Seq(Octet)
  BY <1>1, <1>2
<1>4. Len(<<-1>>) = 1 /\ <<-1>>[1] = -1
  OBVIOUS
<1>5. <<-1>>[1] \in Octet
  BY <1>2, <1>3, <1>4
<1> QED BY <1>4, <1>5 DEF Octet

\* An Interest with these fields.
Interest(name, minSuffix, maxSuffix, exclude, childSelector, answerOriginKind, scope, lifetime, nonce, nack) ==
    [kind |-> "interest", name |-> name, minSuffix |-> minSuffix, maxSuffix |-> maxSuffix,
     exclude |-> exclude, childSelector |-> childSelector, answerOriginKind |-> answerOriginKind,
     scope |-> scope, lifetime |-> lifetime, nonce |-> nonce, nack |-> nack]

\* An Interest without a payload is bytes.
LEMMA InterestLength ==
    ASSUME NEW h \in InterestHeaders
    PROVE  Serialize(h) \o << >> \in Seq(Octet) /\ Len(Serialize(h) \o << >>) \in Nat
<1>1. Serialize(h) = SerializeInterest(h)
  BY DEF Serialize, InterestHeaders, HeadersNamed
<1>2. SerializeInterest(h) \in Seq(Octet)
  <2>1. SerializeInterest(h) = Element(Dtag.Interest, FlattenSeq(Parts(h))) /\ FlattenSeq(Parts(h)) \in Seq(Octet)
    BY InterestWritten
  <2>2. Dtag.Interest \in Nat
    BY DtagValues
  <2> QED BY <2>1, <2>2, ElementWritten
<1> DEFINE s == SerializeInterest(h)
<1> HIDE DEF s
<1>3. s \in Seq(Octet) /\ << >> \in Seq(Octet)
  BY <1>2 DEF s
<1>4. s \o << >> \in Seq(Octet) /\ Len(s \o << >>) \in Nat
  BY <1>3
<1> QED BY <1>1, <1>4 DEF s

\* An Interest of an application: what it is made of is proper.
LEMMA SendInterestKeeps ==
    ASSUME IInv, SendInterest
    PROVE  IInv'
<1>1. PICK text \in Names, s \in Selectors, child \in BOOLEAN, lifetime \in Lifetimes, nonce \in Nonces :
          LET h == [NewInterest EXCEPT
                        !.name = NameOf(text), !.nonce = nonce, !.lifetime = lifetime,
                        !.childSelector = child, !.exclude = s.exclude,
                        !.maxSuffix = s.maxSuffix, !.minSuffix = s.minSuffix,
                        !.answerOriginKind = s.answerOriginKind, !.scope = s.scope]
          IN Write(h, << >>, h, 0)
  BY DEF SendInterest
<1> DEFINE name == NameOf(text)
           exclude == s.exclude
           maxSuffix == s.maxSuffix
           minSuffix == s.minSuffix
           kinds == s.answerOriginKind
           scope == s.scope
           h == [NewInterest EXCEPT
                     !.name = name, !.nonce = nonce, !.lifetime = lifetime,
                     !.childSelector = child, !.exclude = exclude,
                     !.maxSuffix = maxSuffix, !.minSuffix = minSuffix,
                     !.answerOriginKind = kinds, !.scope = scope]
<1>2. name \in Seq(Component)
  <2>1. text \in Seq(Octet)
    BY ExchangeAssumption
  <2> QED BY <2>1, NameOfType
<1>3. /\ exclude \in Seq(Component) /\ kinds \in BOOLEAN
      /\ maxSuffix \in Int /\ maxSuffix >= -1 /\ minSuffix \in Int /\ minSuffix >= -1
      /\ scope \in Int /\ scope \in -1 .. 127
  <2>1. s \in [minSuffix : -1 .. MaxNumber, maxSuffix : -1 .. MaxNumber,
               exclude : Seq(Component), answerOriginKind : BOOLEAN, scope : -1 .. 127]
    BY ExchangeAssumption
  <2>2. /\ exclude \in Seq(Component) /\ kinds \in BOOLEAN
        /\ maxSuffix \in -1 .. MaxNumber /\ minSuffix \in -1 .. MaxNumber /\ scope \in -1 .. 127
    BY <2>1
  <2>3. MaxNumber \in Int
    BY DEF MaxNumber
  <2> HIDE DEF exclude, kinds, maxSuffix, minSuffix, scope
  <2> QED BY <2>2, <2>3
<1>4. lifetime \in Nat /\ nonce \in {n \in Seq(Octet) : Len(n) = 4}
  BY ExchangeAssumption
<1>5. Write(h, << >>, h, 0)
  BY <1>1
<1>6. h \in ProperInterests
  <2> HIDE DEF name, exclude, kinds, maxSuffix, minSuffix, scope
  <2>1. h = Interest(name, minSuffix, maxSuffix, exclude, child, kinds, scope, lifetime, nonce, 0)
    <3> DEFINE a == << >>
               w == NoName
               b == -1
               f == FALSE
               z == 0
               n == <<0, 0, 0, 0>>
    <3>1. NewInterest = [kind |-> "interest", name |-> w, minSuffix |-> b, maxSuffix |-> b,
                         exclude |-> a, childSelector |-> f, answerOriginKind |-> f, scope |-> b,
                         lifetime |-> z, nonce |-> n, nack |-> z]
      BY DEF NewInterest
    <3> HIDE DEF a, w, b, f, z, n
    <3> DEFINE h0 == NewInterest
               h1 == [h0 EXCEPT !.name = name]
               h2 == [h1 EXCEPT !.nonce = nonce]
               h3 == [h2 EXCEPT !.lifetime = lifetime]
               h4 == [h3 EXCEPT !.childSelector = child]
               h5 == [h4 EXCEPT !.exclude = exclude]
               h6 == [h5 EXCEPT !.maxSuffix = maxSuffix]
               h7 == [h6 EXCEPT !.minSuffix = minSuffix]
               h8 == [h7 EXCEPT !.answerOriginKind = kinds]
               h9 == [h8 EXCEPT !.scope = scope]
    <3>2. h = h9
      OBVIOUS
    <3>3. h0 = Interest(w, b, b, a, f, f, b, z, n, z)
      BY <3>1 DEF Interest
    <3> HIDE DEF h, h0
    <3>4. h1 = Interest(name, b, b, a, f, f, b, z, n, z)
      BY <3>3 DEF Interest
    <3> HIDE DEF h1
    <3>5. h2 = Interest(name, b, b, a, f, f, b, z, nonce, z)
      BY <3>4 DEF Interest
    <3> HIDE DEF h2
    <3>6. h3 = Interest(name, b, b, a, f, f, b, lifetime, nonce, z)
      BY <3>5 DEF Interest
    <3> HIDE DEF h3
    <3>7. h4 = Interest(name, b, b, a, child, f, b, lifetime, nonce, z)
      BY <3>6 DEF Interest
    <3> HIDE DEF h4
    <3>8. h5 = Interest(name, b, b, exclude, child, f, b, lifetime, nonce, z)
      BY <3>7 DEF Interest
    <3> HIDE DEF h5
    <3>9. h6 = Interest(name, b, maxSuffix, exclude, child, f, b, lifetime, nonce, z)
      BY <3>8 DEF Interest
    <3> HIDE DEF h6
    <3>10. h7 = Interest(name, minSuffix, maxSuffix, exclude, child, f, b, lifetime, nonce, z)
      BY <3>9 DEF Interest
    <3> HIDE DEF h7
    <3>11. h8 = Interest(name, minSuffix, maxSuffix, exclude, child, kinds, b, lifetime, nonce, z)
      BY <3>10 DEF Interest
    <3> HIDE DEF h8
    <3>12. h9 = Interest(name, minSuffix, maxSuffix, exclude, child, kinds, scope, lifetime, nonce, z)
      BY <3>11 DEF Interest
    <3> HIDE DEF h9
    <3> QED BY <3>2, <3>12 DEF z, h
  <2>2. name \in Seq(Seq(Octet)) /\ exclude \in Seq(Seq(Octet))
    BY <1>2, <1>3, NamesAreSequences
  <2> DEFINE zero == 0
  <2>3. zero \in Int /\ zero >= 0
    OBVIOUS
  <2> HIDE DEF h, zero
  <2>4. h = Interest(name, minSuffix, maxSuffix, exclude, child, kinds, scope, lifetime, nonce, zero)
    BY <2>1 DEF zero
  <2>5. h \in InterestHeaders
    BY <1>3, <1>4, <2>2, <2>3, <2>4 DEF Interest, InterestHeaders, HeadersNamed
  <2>6. /\ h.name = name /\ h.exclude = exclude /\ h.minSuffix = minSuffix /\ h.maxSuffix = maxSuffix
        /\ h.scope = scope /\ h.lifetime = lifetime /\ h.nack = zero
    BY <2>4 DEF Interest
  <2>7. lifetime >= 0
    BY <1>4
  <2> QED BY <1>2, <1>3, <2>3, <2>5, <2>6, <2>7 DEF ProperInterests
<1> HIDE DEF h
<1>7. h \in InterestHeaders
  BY <1>6 DEF ProperInterests
<1>8. Len(Serialize(h) \o << >>) <= BufferLength =>
          GoodMessage(Message(h, Serialize(h) \o << >>, << >>, 0))
  BY <1>6, <1>7, InterestMessage
<1>9. Len(Serialize(h) \o << >>) \in Nat
  BY <1>7, InterestLength
<1> QED BY <1>5, <1>8, <1>9, WriteKeeps

\* A content of an application.
LEMMA SendContentKeeps ==
    ASSUME IInv, SendContent
    PROVE  IInv'
<1>1. PICK text \in Names, payload \in Payloads :
          LET h == [NewContent EXCEPT !.name = NameOf(text)] IN Write(h, payload, h, 0)
  BY DEF SendContent
<1> DEFINE name == NameOf(text)
           h == [NewContent EXCEPT !.name = name]
<1>2. name \in Seq(Component) /\ payload \in Seq(Octet)
  <2>1. text \in Seq(Octet) /\ payload \in Seq(Octet)
    BY ExchangeAssumption
  <2> QED BY <2>1, NameOfType
<1>3. Write(h, payload, h, 0)
  BY <1>1
<1>4. h \in ContentHeaders
  <2> HIDE DEF name
  <2> QED BY <1>2 DEF NewContent, ContentHeaders
<1> HIDE DEF h
<1>5. Len(Serialize(h) \o payload) \in Nat
  <2>1. Serialize(h) = SerializeContent(h) /\ SerializeContent(h) \in Seq(Octet)
    BY <1>4, ContentWritten DEF Serialize, ContentHeaders
  <2> DEFINE x == SerializeContent(h)
  <2>2. x \in Seq(Octet)
    BY <2>1
  <2> HIDE DEF x
  <2>3. Len(x \o payload) \in Nat
    BY <1>2, <2>2
  <2> QED BY <2>1, <2>3 DEF x
<1>6. Len(Serialize(h) \o payload) <= BufferLength =>
          GoodMessage(Message(h, Serialize(h) \o payload, payload, 0))
  BY <1>2, <1>4, ContentMessage
<1> QED BY <1>3, <1>5, <1>6, WriteKeeps

\* A message of another program.
LEMMA SendForeignKeeps ==
    ASSUME IInv, ForeignAsSaid, SendForeign
    PROVE  IInv'
<1>1. PICK f \in Foreign : socket' = Append(socket, Message(f.header, f.bytes, << >>, 0))
  BY DEF SendForeign
<1>2. packet' = packet /\ header' = header
  BY DEF SendForeign
<1> DEFINE m == Message(f.header, f.bytes, << >>, 0)
<1>3. GoodMessage(m)
  BY ForeignMessage
<1>4. IsSequence(Append(socket, m)) /\ \A i \in 1 .. Len(Append(socket, m)) : GoodMessage(Append(socket, m)[i])
  BY <1>3, GoodAppended DEF IInv
<1> QED BY <1>1, <1>2, <1>4 DEF IInv, BeginsWithHeader

\* The packet begins with the first message, as far as it fits.
LEMMA ReadKeeps ==
    ASSUME IInv, Read
    PROVE  IInv'
<1> DEFINE s == [i \in DOMAIN socket |-> socket[i].bytes]
           waiting == FlattenSeq(s)
           length == IF Len(waiting) < BufferLength THEN Len(waiting) ELSE BufferLength
           data == SubSeq(waiting, 1, length)
           m == socket[1]
           N == Len(socket)
<1>1. /\ packet' = [data |-> data, message |-> Head(socket)]
      /\ socket' = After(socket, Len(data))
      /\ header' = Nothing /\ socket # << >>
  BY DEF Read
<1>2. /\ IsSequence(socket) /\ N \in Nat /\ DOMAIN socket = 1 .. N /\ 1 \in 1 .. N /\ Head(socket) = m
      /\ \A i \in 1 .. N : GoodMessage(socket[i])
  BY <1>1 DEF IInv, IsSequence
<1>3. \A i \in 1 .. N : socket[i].bytes \in Seq(Octet)
  BY <1>2 DEF GoodMessage
<1>4. s \in Seq(Seq(Octet)) /\ Len(s) = N /\ s[1] = m.bytes
  <2> DEFINE R == Seq(Octet)
  <2>1. \A i \in 1 .. N : socket[i].bytes \in R
    BY <1>3
  <2> HIDE DEF R
  <2>2. s \in [1 .. N -> R] /\ s[1] = m.bytes
    BY <1>2, <2>1
  <2> HIDE DEF s, N
  <2>3. s \in Seq(R) /\ Len(s) = N
    BY <1>2, <2>2, SequenceOf
  <2> QED BY <2>2, <2>3 DEF R
<1> HIDE DEF s
<1>5. PICK rest \in Seq(Octet) : waiting = m.bytes \o rest /\ waiting \in Seq(Octet)
  <2>1. PICK r : /\ r[Len(s)] = << >>
                 /\ \A n \in 1 .. Len(s) : r[n - 1] = s[n] \o r[n]
                 /\ \A n \in 0 .. Len(s) : r[n] \in Seq(Octet)
                 /\ FlattenSeq(s) = r[0]
    BY <1>4, FlattenTail
  <2>2. 1 \in 1 .. Len(s) /\ 1 \in 0 .. Len(s) /\ 0 \in 0 .. Len(s) /\ 1 - 1 = 0
    <3> HIDE DEF N
    <3> QED BY <1>2, <1>4
  <2>3. r[0] = s[1] \o r[1] /\ r[1] \in Seq(Octet) /\ r[0] \in Seq(Octet)
    BY <2>1, <2>2
  <2> QED BY <1>4, <2>1, <2>3
<1> HIDE DEF waiting
<1>6. Len(waiting) \in Nat /\ length \in Nat /\ length <= Len(waiting) /\ length <= BufferLength
  BY <1>5, BufferFits
<1>7. /\ data \in Seq(Octet) /\ Len(data) = length
      /\ \A i \in 1 .. length : data[i] = waiting[i]
  <2>1. \A i \in 1 .. length : waiting[i] \in Octet
    <3>1. \A i \in 1 .. length : i \in 1 .. Len(waiting)
      BY <1>6
    <3> QED BY <1>5, <3>1
  <2>2. length - 1 + 1 = length /\ (IF 1 <= length THEN length - 1 + 1 ELSE 0) = length
        /\ \A i \in 1 .. length : 1 + i - 1 = i
    BY <1>6
  <2> DEFINE one == 1
  <2>3. one \in Int /\ length \in Int
    BY <1>6
  <2>4. data = SubSeq(waiting, one, length)
    OBVIOUS
  <2> HIDE DEF data, length, one
  <2>5. /\ data \in Seq(Octet)
        /\ Len(data) = IF one <= length THEN length - one + 1 ELSE 0
        /\ \A i \in 1 .. length - one + 1 : data[i] = waiting[one + i - 1]
    <3>1. \A i \in one .. length : waiting[i] \in Octet
      BY <2>1 DEF one
    <3> QED BY <2>3, <2>4, <3>1, SubSeqProperties
  <2> QED BY <2>2, <2>5 DEF one
<1> HIDE DEF data, length
<1>8. IsSequence(socket') /\ \A i \in 1 .. Len(socket') : GoodMessage(socket'[i])
  <2> DEFINE left == After(socket, Len(data))
  <2>1. Len(data) \in Nat
    BY <1>6, <1>7
  <2>2. /\ IsSequence(left)
        /\ \A i \in 1 .. Len(left) : \E j \in 1 .. N :
              left[i] = socket[j] \/ \E k \in Nat : left[i] = Rest(socket[j], k)
    <3>1. IsSequence(socket) /\ \A i \in 1 .. Len(socket) : socket[i].bytes \in Seq(Octet)
      BY <1>2, <1>3
    <3> DEFINE read == Len(data)
    <3> HIDE DEF read
    <3>2. read \in Nat
      BY <2>1 DEF read
    <3>3. LET rests == After(socket, read)
          IN /\ IsSequence(rests)
             /\ \A i \in 1 .. Len(rests) : \E j \in 1 .. Len(socket) :
                   rests[i] = socket[j] \/ \E k \in Nat : rests[i] = Rest(socket[j], k)
      BY <3>1, <3>2, AfterType
    <3> QED BY <3>3 DEF read
  <2> HIDE DEF left
  <2>3. ASSUME NEW i \in 1 .. Len(left)
        PROVE  GoodMessage(left[i])
    <3>1. PICK j \in 1 .. N : left[i] = socket[j] \/ \E k \in Nat : left[i] = Rest(socket[j], k)
      BY <2>2
    <3>2. GoodMessage(socket[j])
      BY <1>2
    <3>3. CASE left[i] = socket[j]
      BY <3>2, <3>3
    <3>4. ASSUME NEW k \in Nat, left[i] = Rest(socket[j], k)
          PROVE  GoodMessage(left[i])
      BY <3>2, <3>4, RestMessage
    <3> QED BY <3>1, <3>3, <3>4
  <2> QED BY <1>1, <2>2, <2>3 DEF left
<1>9. packet'.data = data /\ packet'.message = m
  BY <1>1, <1>2
<1>10. m.header.kind # "none" => HasAt(data, 1, m.bytes)
  <2> SUFFICES ASSUME m.header.kind # "none", NEW k \in 1 .. Len(m.bytes)
               PROVE  1 + k - 1 \in 1 .. Len(data) /\ data[1 + k - 1] = m.bytes[k]
    BY DEF HasAt
  <2> DEFINE b == m.bytes
  <2>1. b \in Seq(Octet) /\ Len(b) <= BufferLength
    BY <1>2 DEF GoodMessage
  <2> HIDE DEF b
  <2>2. waiting = b \o rest
    BY <1>5 DEF b
  <2>3. k \in 1 .. Len(b)
    BY DEF b
  <2>4. Len(waiting) = Len(b) + Len(rest) /\ Len(b) \in Nat /\ Len(rest) \in Nat /\ waiting[k] = b[k]
    BY <1>5, <2>1, <2>2, <2>3
  <2>5. k <= length
    <3>1. Len(b) <= length
      BY <1>6, <2>1, <2>4, BufferFits DEF length
    <3> QED BY <1>6, <2>3, <2>4, <3>1
  <2>6. k \in 1 .. length /\ 1 + k - 1 = k
    BY <1>6, <2>3, <2>4, <2>5
  <2>7. data[k] = b[k]
    BY <1>7, <2>4, <2>6
  <2> QED BY <1>7, <2>6, <2>7 DEF b
<1>11. GoodMessage(m)
  BY <1>2
<1> HIDE DEF m
<1>12. packet'.data \in Seq(Octet) /\ Len(packet'.data) <= BufferLength
  BY <1>6, <1>7, <1>9
<1> QED BY <1>1, <1>8, <1>9, <1>10, <1>11, <1>12 DEF IInv, BeginsWithHeader

\* The header is taken from the packet at hand.
LEMMA GetHeaderKeeps ==
    ASSUME IInv, GetHeader
    PROVE  IInv'
<1>1. socket' = socket /\ packet' = packet /\ packet.data # << >>
  BY DEF GetHeader
<1>2. header' = HeaderOf(packet.data)
  BY DEF GetHeader
<1> QED BY <1>1, <1>2 DEF IInv, BeginsWithHeader

\* The header that is sent on is proper whatever the packet was, and the original
\* one but for the Nack if that was proper.
LEMMA SendOnKeeps ==
    ASSUME IInv, SendOn
    PROVE  IInv'
<1> DEFINE g == packet.message.header
<1>1. PICK nack \in {0, 10, 12} :
          Write([header EXCEPT !.nack = nack], << >>,
                IF g.kind = "interest" THEN [g EXCEPT !.nack = nack] ELSE Nothing,
                packet.message.hops + 1)
  <2>1. PICK nack \in (IF header.nack = 0 THEN {10, 12} ELSE {0}) :
            Write([header EXCEPT !.nack = nack], << >>,
                  IF g.kind = "interest" THEN [g EXCEPT !.nack = nack] ELSE Nothing,
                  packet.message.hops + 1)
    BY DEF SendOn
  <2>2. nack \in {0, 10, 12}
    OBVIOUS
  <2> QED BY <2>1, <2>2
<1>2. header.kind = "interest" /\ header.name # NoName
  BY DEF SendOn
<1> DEFINE h == [header EXCEPT !.nack = nack]
           original == IF g.kind = "interest" THEN [g EXCEPT !.nack = nack] ELSE Nothing
           hops == packet.message.hops + 1
<1>3. header \in InterestHeaders
  <2> DEFINE d == packet.data
  <2>1. header = HeaderOf(d) /\ d \in Seq(Octet) /\ d # << >>
    BY <1>2 DEF IInv, Nothing
  <2> HIDE DEF d
  <2>2. Len(d) > 0
    BY <2>1
  <2>3. DeserializeInterest(d) \in ReadHeaders \cup {Refused, [kind |-> "undefined"]}
    BY <2>1, <2>2, DeserializeType
  <2>4. header \in ReadHeaders => header \in InterestHeaders
    BY <1>2 DEF ReadHeaders, InterestHeaders, HeadersNamed
  <2>5. CASE GetHeaderType(d) = "interest"
    <3>1. header = DeserializeInterest(d)
      BY <2>1, <2>5 DEF HeaderOf
    <3> QED BY <1>2, <2>3, <2>4, <3>1 DEF Refused
  <2>6. CASE GetHeaderType(d) = "content"
    <3>1. header = DeserializeContent(d)
      BY <2>1, <2>6 DEF HeaderOf
    <3>2. DeserializeContent(d).kind # "interest"
      BY <2>1, <2>2, ContentKind
    <3> QED BY <1>2, <3>1, <3>2
  <2>7. CASE GetHeaderType(d) # "interest" /\ GetHeaderType(d) # "content"
    <3>1. header = [kind |-> "unknown"]
      BY <2>1, <2>7 DEF HeaderOf
    <3> QED BY <1>2, <3>1
  <2> QED BY <2>5, <2>6, <2>7
<1>4. nack \in Int /\ nack >= 0
  OBVIOUS
<1>5. ASSUME NEW x \in InterestHeaders
      PROVE  /\ [x EXCEPT !.nack = nack] \in InterestHeaders
             /\ [x EXCEPT !.nack = nack].lifetime = x.lifetime
             /\ x \in ProperInterests => [x EXCEPT !.nack = nack] \in ProperInterests
  <2> DEFINE y == [x EXCEPT !.nack = nack]
  <2>1. y \in InterestHeaders
    BY <1>4 DEF InterestHeaders, HeadersNamed
  <2>2. /\ y.name = x.name /\ y.exclude = x.exclude /\ y.minSuffix = x.minSuffix /\ y.maxSuffix = x.maxSuffix
        /\ y.scope = x.scope /\ y.lifetime = x.lifetime /\ y.nack = nack
    BY DEF InterestHeaders, HeadersNamed
  <2> HIDE DEF y
  <2>3. x \in ProperInterests => y \in ProperInterests
    BY <1>4, <2>1, <2>2 DEF ProperInterests
  <2> QED BY <2>1, <2>2, <2>3 DEF y
<1>6. h \in InterestHeaders
  BY <1>3, <1>5
<1>7. Write(h, << >>, original, hops)
  BY <1>1
<1>8. Len(Serialize(h) \o << >>) <= BufferLength =>
          GoodMessage(Message(original, Serialize(h) \o << >>, << >>, hops))
  <2>1. CASE g.kind = "interest"
    <3>1. g \in ProperInterests
      <4>1. BeginsWithHeader /\ header.kind # "none"
        BY <1>2, <2>1 DEF BeginsWithHeader
      <4>2. g \in ProperInterests \/ header = g
        BY <2>1, <4>1, HeaderTaken
      <4>3. g \in ProperInterests \/ g.name = NoName
        BY <2>1 DEF IInv, GoodMessage
      <4> QED BY <1>2, <4>2, <4>3
    <3>2. original = [g EXCEPT !.nack = nack]
      BY <2>1
    <3>3. g \in InterestHeaders
      BY <3>1 DEF ProperInterests
    <3>4. original \in ProperInterests /\ original.lifetime = g.lifetime
      BY <1>5, <3>1, <3>2, <3>3
    <3>5. Carried(original.lifetime) => original = h
      <4>1. Carried(g.lifetime) => header = g
        <5>1. BeginsWithHeader
          BY <2>1 DEF BeginsWithHeader
        <5>2. header.kind # "none"
          BY <1>2
        <5> QED BY <5>1, <5>2, HeaderTaken
      <4> QED BY <3>2, <3>4, <4>1
    <3> HIDE DEF h, original, hops
    <3> QED BY <1>6, <3>4, <3>5, InterestMessage
  <2>2. CASE g.kind # "interest"
    <3>1. original = Nothing
      BY <2>2
    <3> HIDE DEF h, original, hops
    <3>2. Serialize(h) \o << >> \in Seq(Octet)
      BY <1>6, InterestLength
    <3> DEFINE bytes == Serialize(h) \o << >>
    <3> HIDE DEF bytes
    <3>3. GoodMessage(Message(Nothing, bytes, << >>, hops))
      BY <3>2, NothingMessage DEF bytes
    <3> QED BY <3>1, <3>3 DEF bytes
  <2> QED BY <2>1, <2>2
<1>9. Len(Serialize(h) \o << >>) \in Nat
  <2> HIDE DEF h
  <2> QED BY <1>6, InterestLength
<1> HIDE DEF h, original, hops
<1> QED BY <1>7, <1>8, <1>9, WriteKeeps

\* IInv holds at first,
LEMMA InitHolds ==
    ASSUME Init
    PROVE  IInv
<1>1. << >> \in Seq(Octet) /\ << >> \in Seq({}) /\ Len(<< >>) = 0
  OBVIOUS
<1>2. GoodMessage(Message(Nothing, << >>, << >>, 0))
  BY <1>1, NothingMessage
<1>3. packet.data = << >> /\ packet.message = Message(Nothing, << >>, << >>, 0) /\ header = Nothing /\ socket = << >>
  BY DEF Init, NoPacket
<1>4. ~BeginsWithHeader
  <2>1. packet.message.header = Nothing
    BY <1>3, MessageFields
  <2> QED BY <2>1 DEF BeginsWithHeader, Nothing
<1>5. IsSequence(socket) /\ Len(socket) = 0
  BY <1>1, <1>3 DEF IsSequence
<1>6. Len(packet.data) <= BufferLength
  BY <1>1, <1>3, BufferFits
<1>7. \A i \in 1 .. Len(socket) : GoodMessage(socket[i])
  BY <1>5
<1> QED BY <1>1, <1>2, <1>3, <1>4, <1>5, <1>6, <1>7 DEF IInv

\* and every step keeps it.
LEMMA NextKeeps ==
    ASSUME ForeignAsSaid, IInv, [Next]_vars
    PROVE  IInv'
<1>1. CASE SendInterest
  BY <1>1, SendInterestKeeps
<1>2. CASE SendContent
  BY <1>2, SendContentKeeps
<1>3. CASE SendForeign
  BY <1>3, SendForeignKeeps
<1>4. CASE Read
  BY <1>4, ReadKeeps
<1>5. CASE GetHeader
  BY <1>5, GetHeaderKeeps
<1>6. CASE SendOn
  BY <1>6, SendOnKeeps
<1>8. CASE Uncaught
  BY <1>8 DEF Uncaught, IInv, BeginsWithHeader
<1>7. CASE UNCHANGED vars
  BY <1>7 DEF vars, IInv, BeginsWithHeader
<1> QED BY <1>1, <1>2, <1>3, <1>4, <1>5, <1>6, <1>7, <1>8 DEF Next

\* Behind a header that is read there is its payload.
LEMMA PayloadBehindHeader ==
    ASSUME IInv
    PROVE  PayloadFound
<1> SUFFICES ASSUME header.kind = "content", BeginsWithHeader
             PROVE  LET found == SubSeq(packet.data, GetSize(header) + 1, Len(packet.data))
                    IN /\ IsPrefix(found, packet.message.payload) \/ IsPrefix(packet.message.payload, found)
                       /\ packet.data = packet.message.bytes => found = packet.message.payload
  BY DEF PayloadFound
<1> DEFINE d == packet.data
           m == packet.message
           p == m.payload
           s == SerializeContent(header)
           size == GetSize(header)
           found == SubSeq(d, size + 1, Len(d))
<1>1. header = m.header
  BY HeaderTaken
<1>2. /\ header \in ContentHeaders /\ p \in Seq(Octet) /\ m.bytes = s \o p
      /\ d \in Seq(Octet) /\ HasAt(d, 1, m.bytes)
  BY <1>1 DEF IInv, GoodMessage
<1>3. s \in Seq(Octet) /\ size = Len(s)
  BY <1>2, ContentWritten DEF GetSize, ContentHeaders
<1>4. Len(s) \in Nat /\ Len(p) \in Nat /\ Len(d) \in Nat
  <2> HIDE DEF s, p, d
  <2> QED BY <1>2, <1>3
<1>5. HasAt(d, 1 + Len(s), p) /\ HasAt(d, 1, m.bytes)
  <2> HIDE DEF s, p, d
  <2> QED BY <1>2, <1>3, HasParts
<1> HIDE DEF d, p, s, size
<1>6. \A k \in 1 .. Len(p) : Len(s) + k \in 1 .. Len(d) /\ d[Len(s) + k] = p[k]
  <2>1. \A k \in 1 .. Len(p) : 1 + Len(s) + k - 1 = Len(s) + k
    BY <1>4
  <2> QED BY <1>5, <2>1 DEF HasAt
<1>7. Len(s) + Len(p) <= Len(d)
  <2>1. 1 + Len(m.bytes) \in 1 .. Len(d) + 1
    <3> DEFINE b == m.bytes
    <3>1. b \in Seq(Octet) /\ 1 \in 1 .. Len(d) + 1
      BY <1>2, <1>3, <1>4, Joined
    <3>2. HasAt(d, 1, b)
      BY <1>5
    <3> HIDE DEF b
    <3>3. 1 + Len(b) \in 1 .. Len(d) + 1
      BY <1>2, <3>1, <3>2, HasRange
    <3> QED BY <3>3 DEF b
  <2>2. Len(m.bytes) = Len(s) + Len(p)
    BY <1>2, <1>3, Joined
  <2> QED BY <1>4, <2>1, <2>2
<1>8. /\ found \in Seq(Octet) /\ Len(found) = Len(d) - Len(s)
      /\ \A i \in 1 .. Len(d) - Len(s) : found[i] = d[Len(s) + i]
  <2> DEFINE a == size + 1
             n == Len(d)
  <2>1. a = Len(s) + 1 /\ a \in Int /\ n \in Int /\ n - a + 1 = n - Len(s)
        /\ (IF a <= n THEN n - a + 1 ELSE 0) = n - Len(s)
    BY <1>3, <1>4, <1>7
  <2>2. \A i \in 1 .. n - Len(s) : a + i - 1 = Len(s) + i
    BY <1>4, <2>1
  <2>3. \A i \in a .. n : d[i] \in Octet
    <3>1. \A i \in a .. n : i \in 1 .. n
      BY <1>4, <2>1
    <3> QED BY <1>2, <3>1
  <2>4. found = SubSeq(d, a, n)
    OBVIOUS
  <2> HIDE DEF found, a, n
  <2>5. /\ found \in Seq(Octet) /\ Len(found) = (IF a <= n THEN n - a + 1 ELSE 0)
        /\ \A i \in 1 .. n - a + 1 : found[i] = d[a + i - 1]
    BY <2>1, <2>3, <2>4, SubSeqProperties
  <2> QED BY <2>1, <2>2, <2>5 DEF n
<1> HIDE DEF found
<1>9. Len(p) <= Len(found)
  BY <1>4, <1>7, <1>8
<1>10. \A k \in 1 .. Len(p) : found[k] = p[k]
  <2>1. \A k \in 1 .. Len(p) : k \in 1 .. Len(d) - Len(s)
    BY <1>4, <1>7
  <2> QED BY <1>6, <1>8, <2>1
<1>11. IsPrefix(p, found)
  <2>1. SubSeq(p, 1, Len(p)) = SubSeq(found, 1, Len(p))
    <3>1. Len(p) \in Nat
      BY <1>4
    <3> DEFINE n == Len(p)
    <3>2. \A i \in 1 .. (1 + n - 1) : p[i + 1 - 1] = found[i + 1 - 1]
      <4>1. \A i \in 1 .. (1 + n - 1) : i \in 1 .. n /\ i + 1 - 1 = i
        BY <3>1
      <4> QED BY <1>10, <4>1
    <3> QED BY <1>2, <1>4, <1>8, <1>9, <1>10
  <2> QED BY <1>9, <2>1 DEF IsPrefix
<1>12. ASSUME d = m.bytes
       PROVE  found = p
  <2>1. Len(d) = Len(s) + Len(p)
    BY <1>2, <1>3, <1>12, Joined
  <2>2. Len(found) = Len(p)
    BY <1>4, <1>8, <2>1
  <2> QED BY <1>2, <1>8, <1>10, <2>2, SeqEqual
<1> QED BY <1>11, <1>12 DEF found, d, p, size

(***************************************************************************)
(* RoundTrip: the header that is taken from a packet which begins with a   *)
(* message is the one the message was given, by AddHeader or, at a later   *)
(* hop, by the copy of the header that is sent on; of Interests, when the  *)
(* format can carry their lifetime.  What other programs say of their      *)
(* messages must be so.                                                    *)
(***************************************************************************)
THEOREM HeaderSurvives == ForeignAsSaid => (Spec => []RoundTrip)
<1> SUFFICES ASSUME ForeignAsSaid
             PROVE  Spec => []RoundTrip
  OBVIOUS
<1>1. Init => IInv
  BY InitHolds
<1>2. IInv /\ [Next]_vars => IInv'
  BY NextKeeps
<1>3. IInv => RoundTrip
  BY HeaderTaken DEF RoundTrip
<1> QED BY <1>1, <1>2, <1>3, PTL DEF Spec

(***************************************************************************)
(* PayloadFound: behind as many bytes as GetSize makes of the name it has  *)
(* read, a consumer finds the payload, or as much of it as the packet      *)
(* holds.                                                                  *)
(***************************************************************************)
THEOREM PayloadSurvives == ForeignAsSaid => (Spec => []PayloadFound)
<1> SUFFICES ASSUME ForeignAsSaid
             PROVE  Spec => []PayloadFound
  OBVIOUS
<1>1. Init => IInv
  BY InitHolds
<1>2. IInv /\ [Next]_vars => IInv'
  BY NextKeeps
<1>3. IInv => PayloadFound
  BY PayloadBehindHeader
<1> QED BY <1>1, <1>2, <1>3, PTL DEF Spec
=============================================================================
