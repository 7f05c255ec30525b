-------------------------- MODULE LLNomPolicyProofs --------------------------
(***************************************************************************)
(* Theorems about the link-layer policy, for every set of names, nonces    *)
(* and places, every limit of transmissions and any number of packets.     *)
(***************************************************************************)
EXTENDS LLNomPolicy, SubsequenceLemmas

-----------------------------------------------------------------------------
(* The pending packets as a list. *)

ElementsOf(s) == {s[i] : i \in 1..Len(s)}

UniqueNames(s) ==
    \A i, j \in 1..Len(s) : s[i].packet.name = s[j].packet.name => i = j

\* A table: typed, and its names are those of one element each.
Table(s) == s \in Seq(Element) /\ UniqueNames(s)

LEMMA OneOfAName ==
    ASSUME NEW s, Table(s), NEW d \in ElementsOf(s), NEW e \in ElementsOf(s),
           d.packet.name = e.packet.name
    PROVE  d = e
  BY DEF Table, UniqueNames, ElementsOf

LEMMA ElementOfTable ==
    ASSUME NEW s, Table(s), NEW e \in ElementsOf(s)
    PROVE  e \in Element
  BY DEF Table, ElementsOf

\* Erasing elements keeps the others.
LEMMA WithoutTable ==
    ASSUME NEW s, Table(s), NEW gone
    PROVE  /\ Table(Without(s, gone))
           /\ ElementsOf(Without(s, gone)) = ElementsOf(s) \ gone
<1> DEFINE K == {i \in 1..Len(s) : s[i] \notin gone}
           t == Kept(s, K)
           n == Cardinality(K)
<1>1. s \in Seq(Element) /\ UniqueNames(s) /\ K \in SUBSET (1..Len(s))
  BY DEF Table
<1>2. /\ t \in Seq(Element) /\ Len(t) = n /\ n \in Nat
      /\ \A k \in 1..n : Position(K, k) \in K /\ t[k] = s[Position(K, k)]
      /\ \A i \in K : \E k \in 1..n : t[k] = s[i]
      /\ \A j, k \in 1..n : Position(K, j) = Position(K, k) => j = k
  <2> HIDE DEF K
  <2> QED BY <1>1, KeptElements
<1> HIDE DEF t, n
<1>3. UniqueNames(t)
  <2> SUFFICES ASSUME NEW j \in 1..n, NEW k \in 1..n, t[j].packet.name = t[k].packet.name
               PROVE  j = k
    BY <1>2 DEF UniqueNames
  <2>1. Position(K, j) \in 1..Len(s) /\ Position(K, k) \in 1..Len(s)
    BY <1>2
  <2>2. s[Position(K, j)].packet.name = s[Position(K, k)].packet.name
    BY <1>2
  <2>3. Position(K, j) = Position(K, k)
    BY <1>1, <2>1, <2>2 DEF UniqueNames
  <2> QED BY <1>2, <2>3
<1>4. ElementsOf(t) = ElementsOf(s) \ gone
  <2>1. ASSUME NEW k \in 1..n
        PROVE  t[k] \in ElementsOf(s) \ gone
    BY <1>2 DEF ElementsOf
  <2>2. ASSUME NEW i \in 1..Len(s), s[i] \notin gone
        PROVE  s[i] \in ElementsOf(t)
    <3>1. i \in K
      BY <2>2
    <3> HIDE DEF K
    <3>2. PICK k \in 1..n : t[k] = s[i]
      BY <1>2, <3>1
    <3> QED BY <1>2, <3>2 DEF ElementsOf
  <2>3. ElementsOf(t) \subseteq ElementsOf(s) \ gone
    <3>1. ElementsOf(t) = {t[k] : k \in 1..n}
      BY <1>2 DEF ElementsOf
    <3> QED BY <2>1, <3>1
  <2>4. ElementsOf(s) \ gone \subseteq ElementsOf(t)
    BY <2>2 DEF ElementsOf
  <2> QED BY <2>3, <2>4
<1> QED BY <1>2, <1>3, <1>4 DEF Table, Without, t

\* Inserting an element keeps the others, wherever it goes.
LEMMA InsertedElements ==
    ASSUME NEW S, NEW s \in Seq(S), NEW e \in S, NEW i \in 0..Len(s)
    PROVE  /\ InsertedAt(s, i, e) \in Seq(S)
           /\ Len(InsertedAt(s, i, e)) = Len(s) + 1
           /\ \A j \in 1..Len(s) + 1 :
                 InsertedAt(s, i, e)[j] = IF j <= i THEN s[j]
                                          ELSE IF j = i + 1 THEN e ELSE s[j - 1]
<1> DEFINE a == SubSeq(s, 1, i)
           b == SubSeq(s, i + 1, Len(s))
<1>1. a \in Seq(S) /\ Len(a) = i /\ \A j \in 1..i : a[j] = s[j]
  OBVIOUS
<1>2. b \in Seq(S) /\ Len(b) = Len(s) - i /\ \A j \in 1..Len(s) - i : b[j] = s[i + j]
  OBVIOUS
<1> HIDE DEF a, b
<1>3. /\ a \o <<e>> \in Seq(S) /\ Len(a \o <<e>>) = i + 1
      /\ \A j \in 1..i + 1 : (a \o <<e>>)[j] = IF j <= i THEN a[j] ELSE e
  BY <1>1
<1> DEFINE c == a \o <<e>>
<1> HIDE DEF c
<1>4. /\ c \o b \in Seq(S) /\ Len(c \o b) = Len(s) + 1
      /\ \A j \in 1..Len(s) + 1 : (c \o b)[j] = IF j <= i + 1 THEN c[j] ELSE b[j - (i + 1)]
  BY <1>2, <1>3 DEF c
<1>5. ASSUME NEW j \in 1..Len(s) + 1
      PROVE  (c \o b)[j] = IF j <= i THEN s[j] ELSE IF j = i + 1 THEN e ELSE s[j - 1]
  <2>1. CASE j <= i
    BY <1>1, <1>3, <1>4, <2>1 DEF c
  <2>2. CASE j = i + 1
    BY <1>3, <1>4, <2>2 DEF c
  <2>3. CASE j > i + 1
    <3> DEFINE k == j - (i + 1)
    <3>1. k \in 1..Len(s) - i /\ i + k = j - 1
      BY <2>3
    <3>2. (c \o b)[j] = b[k]
      BY <1>4, <2>3
    <3> HIDE DEF k
    <3>3. b[k] = s[j - 1]
      BY <1>2, <3>1
    <3> QED BY <2>3, <3>2, <3>3
  <2>4. j <= i \/ j = i + 1 \/ j > i + 1
    <3>1. i \in Int /\ j \in Int
      OBVIOUS
    <3> QED BY <3>1
  <2> QED BY <2>1, <2>2, <2>3, <2>4
<1>6. InsertedAt(s, i, e) = c \o b
  BY DEF InsertedAt, a, b, c
<1> QED BY <1>4, <1>5, <1>6

LEMMA InsertedTable ==
    ASSUME NEW s, Table(s), NEW e \in Element, NEW i \in 0..Len(s),
           \A d \in ElementsOf(s) : d.packet.name # e.packet.name
    PROVE  /\ Table(InsertedAt(s, i, e))
           /\ ElementsOf(InsertedAt(s, i, e)) = ElementsOf(s) \cup {e}
<1> DEFINE t == InsertedAt(s, i, e)
<1>1. s \in Seq(Element) /\ UniqueNames(s) /\ i \in Int /\ Len(s) \in Int
  BY DEF Table
<1>2. /\ t \in Seq(Element) /\ Len(t) = Len(s) + 1
      /\ \A j \in 1..Len(s) + 1 :
            t[j] = IF j <= i THEN s[j] ELSE IF j = i + 1 THEN e ELSE s[j - 1]
  <2>1. s \in Seq(Element)
    BY <1>1
  <2>2. /\ InsertedAt(s, i, e) \in Seq(Element) /\ Len(InsertedAt(s, i, e)) = Len(s) + 1
        /\ \A j \in 1..Len(s) + 1 : InsertedAt(s, i, e)[j]
              = IF j <= i THEN s[j] ELSE IF j = i + 1 THEN e ELSE s[j - 1]
    <3> HIDE DEF t
    <3> QED BY <2>1, InsertedElements
  <2> QED BY <2>2
<1> HIDE DEF t
\* Where an element of t comes from.
<1> DEFINE Old(j) == IF j <= i THEN j ELSE j - 1
<1>3. ASSUME NEW j \in 1..Len(s) + 1, j # i + 1
      PROVE  Old(j) \in 1..Len(s) /\ t[j] = s[Old(j)]
  BY <1>1, <1>2, <1>3
<1>4. \A j \in 1..Len(s) + 1 : \A k \in 1..Len(s) + 1 :
          j # i + 1 /\ k # i + 1 /\ Old(j) = Old(k) => j = k
  BY <1>1
<1>5. t[i + 1] = e
  BY <1>1, <1>2
<1>6. ASSUME NEW j \in 1..Len(s) + 1, j # i + 1
      PROVE  t[j] \in ElementsOf(s)
  BY <1>3, <1>6 DEF ElementsOf
<1>7. UniqueNames(t)
  <2> SUFFICES ASSUME NEW j \in 1..Len(s) + 1, NEW k \in 1..Len(s) + 1,
                      t[j].packet.name = t[k].packet.name
               PROVE  j = k
    BY <1>2 DEF UniqueNames
  <2>1. CASE j # i + 1 /\ k # i + 1
    <3>1. Old(j) \in 1..Len(s) /\ Old(k) \in 1..Len(s) /\ t[j] = s[Old(j)] /\ t[k] = s[Old(k)]
      BY <1>3, <2>1
    <3> HIDE DEF Old
    <3>2. Old(j) = Old(k)
      BY <1>1, <3>1 DEF UniqueNames
    <3> QED BY <1>4, <2>1, <3>2
  <2>2. CASE j = i + 1 \/ k = i + 1
    BY <1>5, <1>6, <2>2
  <2> QED BY <2>1, <2>2
<1>8. ElementsOf(t) = ElementsOf(s) \cup {e}
  <2>1. ElementsOf(t) \subseteq ElementsOf(s) \cup {e}
    <3>1. ASSUME NEW j \in 1..Len(s) + 1
          PROVE  t[j] \in ElementsOf(s) \cup {e}
      BY <1>5, <1>6
    <3> QED BY <1>2, <3>1 DEF ElementsOf
  <2>2. e \in ElementsOf(t)
    <3>1. i + 1 \in 1..Len(t)
      BY <1>1, <1>2
    <3> QED BY <1>5, <3>1 DEF ElementsOf
  <2>3. ASSUME NEW k \in 1..Len(s)
        PROVE  s[k] \in ElementsOf(t)
    <3>1. CASE k <= i
      <4>1. k \in 1..Len(s) + 1 /\ t[k] = s[k]
        BY <1>1, <1>2, <3>1
      <4> QED BY <1>2, <4>1 DEF ElementsOf
    <3>2. CASE k > i
      <4> DEFINE l == k + 1
      <4>1. l \in 1..Len(s) + 1 /\ ~ (l <= i) /\ l # i + 1 /\ l - 1 = k
        BY <1>1, <3>2
      <4> HIDE DEF l
      <4>2. t[l] = s[k]
        BY <1>2, <4>1
      <4> QED BY <1>2, <4>1, <4>2 DEF ElementsOf
    <3> QED BY <1>1, <3>1, <3>2
  <2>4. ElementsOf(s) \subseteq ElementsOf(t)
    BY <2>3 DEF ElementsOf
  <2> QED BY <2>1, <2>2, <2>4
<1> QED BY <1>2, <1>7, <1>8 DEF Table, t

\* What stays when the head of the timer index is taken from it.
LEMMA TailTable ==
    ASSUME NEW s, Table(s), s # << >>
    PROVE  /\ Head(s) \in ElementsOf(s) /\ Table(Tail(s))
           /\ ElementsOf(Tail(s)) = ElementsOf(s) \ {Head(s)}
<1>1. s \in Seq(Element) /\ UniqueNames(s)
  BY DEF Table
<1>2. Len(s) >= 1 /\ Len(s) \in Nat /\ Head(s) = s[1] /\ 1 \in 1..Len(s)
  BY <1>1
<1>3. /\ Tail(s) \in Seq(Element) /\ Len(Tail(s)) = Len(s) - 1
      /\ \A j \in 1..Len(s) - 1 : Tail(s)[j] = s[j + 1]
  BY <1>1
<1>4. UniqueNames(Tail(s))
  BY <1>1, <1>2, <1>3 DEF UniqueNames
<1>5. ASSUME NEW k \in 1..Len(s)
      PROVE  s[k] = s[1] <=> k = 1
  BY <1>1, <1>2 DEF UniqueNames
<1>6. ElementsOf(Tail(s)) \subseteq ElementsOf(s) \ {Head(s)}
  <2>1. ASSUME NEW j \in 1..Len(s) - 1
        PROVE  Tail(s)[j] \in ElementsOf(s) /\ Tail(s)[j] # s[1]
    <3> DEFINE k == j + 1
    <3>1. k \in 1..Len(s) /\ k # 1
      BY <1>2
    <3>2. Tail(s)[j] = s[k]
      BY <1>3
    <3> HIDE DEF k
    <3> QED BY <1>5, <3>1, <3>2 DEF ElementsOf
  <2> QED BY <1>2, <1>3, <2>1 DEF ElementsOf
<1>7. ElementsOf(s) \ {Head(s)} \subseteq ElementsOf(Tail(s))
  <2>1. ASSUME NEW k \in 1..Len(s), s[k] # s[1]
        PROVE  s[k] \in ElementsOf(Tail(s))
    <3> DEFINE j == k - 1
    <3>1. j \in 1..Len(s) - 1 /\ j + 1 = k
      BY <1>2, <2>1
    <3> HIDE DEF j
    <3>2. Tail(s)[j] = s[k]
      BY <1>3, <3>1
    <3> QED BY <1>3, <3>1, <3>2 DEF ElementsOf
  <2> QED BY <1>2, <2>1 DEF ElementsOf
<1> QED BY <1>2, <1>3, <1>4, <1>6, <1>7 DEF Table, ElementsOf

\* An element of a name the table lacks goes to its end.
LEMMA AppendedTable ==
    ASSUME NEW s, Table(s), NEW e \in Element,
           \A d \in ElementsOf(s) : d.packet.name # e.packet.name
    PROVE  /\ Table(Append(s, e))
           /\ ElementsOf(Append(s, e)) = ElementsOf(s) \cup {e}
<1>1. s \in Seq(Element) /\ UniqueNames(s) /\ Len(s) \in Nat
  BY DEF Table
<1> DEFINE t == Append(s, e)
           n == Len(s) + 1
<1>2. /\ t \in Seq(Element) /\ Len(t) = n
      /\ \A j \in 1..n : t[j] = IF j = n THEN e ELSE s[j]
  BY <1>1
<1>3. n \in 1..n /\ \A j \in 1..n : j = n \/ j \in 1..Len(s)
  BY <1>1
<1>4. 1..Len(s) \subseteq 1..n /\ n \notin 1..Len(s)
  BY <1>1
<1> HIDE DEF t, n
<1>5. UniqueNames(t)
  BY <1>1, <1>2, <1>3, <1>4 DEF UniqueNames, ElementsOf
<1>6. ElementsOf(t) = ElementsOf(s) \cup {e}
  BY <1>2, <1>3, <1>4 DEF ElementsOf
<1> QED BY <1>2, <1>5, <1>6 DEF Table, t

-----------------------------------------------------------------------------
(* What the actions do to the table. *)

\* The packets in the table come from the daemon.
Offered == \A e \in Stored : e.packet \in known

\* insertPkt keeps the names apart, whatever the kinds of the packets.
WellTyped == TypeOK /\ UniqueNames(storage)

PolicyInv == WellTyped /\ BroadcastsBounded /\ Offered /\ NothingHidden /\ AnsweredNotAsked

LEMMA StoredIsTable ==
    ASSUME WellTyped
    PROVE  /\ Table(storage) /\ Stored = ElementsOf(storage)
           /\ \A e \in Stored : e \in Element
           /\ \A d, e \in Stored : d.packet.name = e.packet.name => d = e
<1>1. Table(storage) /\ Stored = ElementsOf(storage)
  BY DEF WellTyped, TypeOK, Table, UniqueNames, Stored, ElementsOf
<1>2. \A e \in Stored : e \in Element
  BY <1>1, ElementOfTable
<1>3. \A d, e \in Stored : d.packet.name = e.packet.name => d = e
  BY <1>1, OneOfAName
<1> QED BY <1>1, <1>2, <1>3

LEMMA MatchingElements ==
    ASSUME NEW s, NEW n
    PROVE  Matching(s, n) = {e \in ElementsOf(s) : PrefixOf(e.packet.name, n)}
  BY DEF Matching, ElementsOf

\* A position of this node can be recorded in an element.
LEMMA PreviousHopType ==
    ASSUME place \in Place \cup {NoFix}, NEW meta
    PROVE  PreviousHop(meta) \in Place \cup {Origin}
  BY DEF PreviousHop, Here

\* insertPkt: the packet is stored with all its transmissions to come, or
\* its name is taken.
Stores(kept, p) ==
    \E new \in Element :
        /\ new.packet = p /\ new.tries = 1
        /\ ElementsOf(storage)' = kept \cup {new}
        /\ \A d \in kept : d.packet.name # p.name
        /\ air' = [air EXCEPT ![p] = 0]

LEMMA StoreDoes ==
    ASSUME NEW s, Table(s), NEW p \in NDNPacket, NEW meta, place \in Place \cup {NoFix},
           Store(s, p, meta)
    PROVE  /\ Table(storage)'
           /\ \/ Stores(ElementsOf(s), p)
              \/ ElementsOf(storage)' = ElementsOf(s) /\ air' = air
<1>1. CASE Conflict(s, p) /\ storage' = s /\ UNCHANGED air
  BY <1>1
<1>2. CASE /\ ~ Conflict(s, p)
           /\ \E i \in 0..Len(s) :
                 storage' = InsertedAt(s, i, [packet |-> p, tries |-> 1,
                                              previous |-> PreviousHop(meta)])
           /\ air' = [air EXCEPT ![p] = 0]
  <2> DEFINE new == [packet |-> p, tries |-> 1, previous |-> PreviousHop(meta)]
  <2>1. new \in Element /\ new.packet = p /\ new.tries = 1
    BY BoundAssumption, PreviousHopType DEF Element
  <2>2. PICK i \in 0..Len(s) : storage' = InsertedAt(s, i, new)
    BY <1>2
  <2>3. \A d \in ElementsOf(s) : d.packet.name # p.name
    BY <1>2 DEF Conflict, ElementsOf
  <2> HIDE DEF new
  <2>4. /\ Table(InsertedAt(s, i, new))
        /\ ElementsOf(InsertedAt(s, i, new)) = ElementsOf(s) \cup {new}
    BY <2>1, <2>3, InsertedTable
  <2>5. Table(storage)' /\ ElementsOf(storage)' = ElementsOf(s) \cup {new}
    BY <2>2, <2>4 DEF Table, UniqueNames, ElementsOf
  <2> QED BY <1>2, <2>1, <2>3, <2>5 DEF Stores
<1> QED BY <1>1, <1>2 DEF Store

\* addOutgoingPkt: a content first settles what it answers.
Settled(p) == IF p.kind = "content" THEN {e \in Stored : PrefixOf(e.packet.name, p.name)} ELSE {}

LEMMA OfferDoes ==
    ASSUME WellTyped, NEW p \in NDNPacket, NEW meta, AddOutgoingPkt(p, meta)
    PROVE  /\ Table(storage)'
           /\ \/ Stores(Stored \ Settled(p), p)
              \/ ElementsOf(storage)' = Stored \ Settled(p) /\ air' = air
<1> DEFINE settled == IF p.kind = "content" THEN Matching(storage, p.name) ELSE {}
           s == Without(storage, settled)
<1>1. Table(storage) /\ Stored = ElementsOf(storage)
  BY StoredIsTable
<1>2. settled = Settled(p)
  BY <1>1, MatchingElements DEF Settled
<1>3. Store(s, p, meta)
  BY DEF AddOutgoingPkt
<1>4. Table(s) /\ ElementsOf(s) = Stored \ Settled(p)
  <2> HIDE DEF settled
  <2> QED BY <1>1, <1>2, WithoutTable
<1> HIDE DEF s
<1> QED BY <1>3, <1>4, StoreDoes DEF WellTyped, TypeOK

\* pktFromNetwork: what is acknowledged or answered leaves the table.
LEMMA InterestDoes ==
    ASSUME WellTyped, NEW p, NEW from, InterestFromNetwork(p, from)
    PROVE  Table(storage)' /\ ElementsOf(storage)' = Stored \ Acked(p, from)
<1>1. Table(storage) /\ Stored = ElementsOf(storage)
  BY StoredIsTable
<1> DEFINE s == Without(storage, Acked(p, from))
<1>2. Table(s) /\ ElementsOf(s) = Stored \ Acked(p, from)
  BY <1>1, WithoutTable
<1>3. storage' = s
  BY DEF InterestFromNetwork
<1> HIDE DEF s
<1> QED BY <1>2, <1>3 DEF Table, UniqueNames, ElementsOf

\* What an overheard content is looked up among.
Answered(p, from) ==
    {e \in Stored \ Acked(p, from) : PrefixOf(e.packet.name, p.name)}

LEMMA ContentDoes ==
    ASSUME WellTyped, NEW p, NEW from, ContentFromNetwork(p, from)
    PROVE  /\ Table(storage)'
           /\ ElementsOf(storage)' = (Stored \ Acked(p, from)) \ FirstOf(Answered(p, from))
           /\ freed' = (freed \/ Cardinality(Answered(p, from)) > 1)
           /\ up' \in BOOLEAN
<1>1. Table(storage) /\ Stored = ElementsOf(storage)
  BY StoredIsTable
<1> DEFINE rest == Without(storage, Acked(p, from))
<1>2. Table(rest) /\ ElementsOf(rest) = Stored \ Acked(p, from)
  BY <1>1, WithoutTable
<1> DEFINE matching == Matching(rest, p.name)
<1>3. /\ storage' = Without(rest, FirstOf(matching))
      /\ freed' = (freed \/ Cardinality(matching) > 1)
      /\ up' \in BOOLEAN
  BY DEF ContentFromNetwork
<1> HIDE DEF rest
<1>4. matching = Answered(p, from)
  BY <1>2, MatchingElements DEF Answered
<1> HIDE DEF matching
<1> DEFINE s == Without(rest, FirstOf(matching))
<1>5. Table(s) /\ ElementsOf(s) = ElementsOf(rest) \ FirstOf(matching)
  BY <1>2, WithoutTable
<1> HIDE DEF s
<1>6. storage' = s
  BY <1>3 DEF s
<1>7. Table(storage)' /\ ElementsOf(storage)' = ElementsOf(s)
  BY <1>5, <1>6 DEF Table, UniqueNames, ElementsOf
<1> QED BY <1>2, <1>3, <1>4, <1>5, <1>7

\* getPktForRetransmission: the head of the timer index.
LEMMA SendDoes ==
    ASSUME WellTyped, GetPktForRetransmission
    PROVE  \E e \in Stored :
             /\ event' = [op |-> "send", packet |-> e.packet, from |-> place, up |-> FALSE]
             /\ air' = [air EXCEPT ![e.packet] = Counted(@)]
             /\ Table(storage)'
             /\ \/ e.tries >= Limit /\ ElementsOf(storage)' = Stored \ {e}
                \/ /\ ~ (e.tries >= Limit)
                   /\ \E again \in Element :
                         /\ again.packet = e.packet /\ again.tries = e.tries + 1
                         /\ ElementsOf(storage)' = (Stored \ {e}) \cup {again}
<1>1. Table(storage) /\ Stored = ElementsOf(storage)
      /\ \A d, f \in Stored : d.packet.name = f.packet.name => d = f
      /\ Stored \subseteq Element
  BY StoredIsTable
<1> DEFINE e == Head(storage)
           rest == Tail(storage)
<1>2. e \in Stored /\ Table(rest) /\ ElementsOf(rest) = Stored \ {e}
  BY <1>1, TailTable DEF GetPktForRetransmission
<1>3. /\ event' = [op |-> "send", packet |-> e.packet, from |-> place, up |-> FALSE]
      /\ air' = [air EXCEPT ![e.packet] = Counted(@)]
      /\ storage' = IF IsLast(e) THEN rest ELSE Append(rest, NextTry(e))
  BY DEF GetPktForRetransmission
<1> HIDE DEF e, rest
<1>4. CASE IsLast(e)
  <2>1. Table(storage)' /\ ElementsOf(storage)' = ElementsOf(rest)
    BY <1>2, <1>3, <1>4 DEF Table, UniqueNames, ElementsOf
  <2> QED BY <1>2, <1>3, <1>4, <2>1 DEF IsLast
<1>5. CASE ~ IsLast(e)
  <2>1. e \in Element
    BY <1>1, <1>2
  <2> DEFINE again == NextTry(e)
  <2>2. again \in Element /\ again.packet = e.packet /\ again.tries = e.tries + 1
    BY <1>5, <2>1, BoundAssumption DEF NextTry, IsLast, Element
  <2> HIDE DEF again
  <2>3. \A d \in ElementsOf(rest) : d.packet.name # again.packet.name
    BY <1>1, <1>2, <2>2
  <2>4. Table(Append(rest, again)) /\ ElementsOf(Append(rest, again)) = ElementsOf(rest) \cup {again}
    BY <1>2, <2>2, <2>3, AppendedTable
  <2>5. storage' = Append(rest, again)
    BY <1>3, <1>5 DEF again
  <2>6. Table(storage)' /\ ElementsOf(storage)' = ElementsOf(rest) \cup {again}
    BY <2>4, <2>5 DEF Table, UniqueNames, ElementsOf
  <2> QED BY <1>2, <1>3, <1>5, <2>2, <2>6 DEF IsLast
<1> QED BY <1>4, <1>5

-----------------------------------------------------------------------------
(* Each part of the invariant is preserved. *)

\* The handlers, with the packets and positions they are called for.
LEMMA NextCases ==
    ASSUME Next
    PROVE  \/ \E p \in NDNPacket, meta \in Place \cup {NoFix, NoMetadata} : AddOutgoingPkt(p, meta)
           \/ \E p \in NDNPacket, from \in Place \cup {NoFix} : InterestFromNetwork(p, from)
           \/ \E p \in NDNPacket, from \in Place \cup {NoFix} : ContentFromNetwork(p, from)
           \/ GetPktForRetransmission
           \/ Move
  BY DEF Next

LEMMA TypeStep ==
    ASSUME WellTyped, Next
    PROVE  WellTyped'
<1>0. /\ up \in BOOLEAN /\ freed \in BOOLEAN
      /\ place \in Place \cup {NoFix} /\ known \subseteq NDNPacket
      /\ air \in [NDNPacket -> 0..Limit + 1] /\ packets \in 0..MaxPackets
  BY DEF WellTyped, TypeOK
<1>1. ASSUME Table(storage)', up' \in BOOLEAN, freed' \in BOOLEAN,
             place' \in Place \cup {NoFix}, known' \subseteq NDNPacket,
             air' \in [NDNPacket -> 0..Limit + 1], packets' \in 0..MaxPackets
      PROVE  WellTyped'
  BY <1>1 DEF WellTyped, TypeOK, Table, UniqueNames
<1>2. ASSUME CanHandle, packets' = packets + 1
      PROVE  packets' \in 0..MaxPackets
  BY <1>0, <1>2, BoundAssumption DEF CanHandle
<1>3. ASSUME NEW p \in NDNPacket, NEW meta, AddOutgoingPkt(p, meta)
      PROVE  WellTyped'
  <2>1. /\ CanHandle /\ packets' = packets + 1 /\ known' = known \cup {p}
        /\ UNCHANGED <<up, freed, place>>
    BY <1>3 DEF AddOutgoingPkt
  <2>2. Table(storage)' /\ (air' = air \/ air' = [air EXCEPT ![p] = 0])
    BY <1>3, OfferDoes DEF Stores
  <2>3. air' \in [NDNPacket -> 0..Limit + 1]
    BY <1>0, <2>2, BoundAssumption
  <2> QED BY <1>0, <1>1, <1>2, <2>1, <2>2, <2>3
<1>4. ASSUME NEW p, NEW from, InterestFromNetwork(p, from)
      PROVE  WellTyped'
  <2>1. CanHandle /\ packets' = packets + 1 /\ UNCHANGED <<up, freed, place, known, air>>
    BY <1>4 DEF InterestFromNetwork, Heard
  <2>2. Table(storage)'
    BY <1>4, InterestDoes
  <2> QED BY <1>0, <1>1, <1>2, <2>1, <2>2
<1>5. ASSUME NEW p, NEW from, ContentFromNetwork(p, from)
      PROVE  WellTyped'
  <2>1. CanHandle /\ packets' = packets + 1 /\ UNCHANGED <<place, known, air>>
    BY <1>5 DEF ContentFromNetwork, Heard
  <2>2. Table(storage)' /\ up' \in BOOLEAN /\ freed' \in BOOLEAN
    BY <1>0, <1>5, ContentDoes
  <2> QED BY <1>0, <1>1, <1>2, <2>1, <2>2
<1>6. CASE GetPktForRetransmission
  <2>1. PICK e \in Stored : Table(storage)' /\ air' = [air EXCEPT ![e.packet] = Counted(@)]
    BY <1>6, SendDoes
  <2>2. \A n \in 0..Limit + 1 : Counted(n) \in 0..Limit + 1
    BY BoundAssumption DEF Counted
  <2>3. air' \in [NDNPacket -> 0..Limit + 1]
    BY <1>0, <2>1, <2>2
  <2>4. UNCHANGED <<up, freed, place, known, packets>>
    BY <1>6 DEF GetPktForRetransmission
  <2> QED BY <1>0, <1>1, <2>1, <2>3, <2>4
<1>7. CASE Move
  <2>1. /\ CanHandle /\ packets' = packets + 1 /\ place' \in Place \cup {NoFix}
        /\ UNCHANGED <<up, freed, storage, known, air>>
    BY <1>7 DEF Move
  <2>2. Table(storage)'
    BY <2>1, StoredIsTable DEF Table, UniqueNames
  <2> QED BY <1>0, <1>1, <1>2, <2>1, <2>2
<1> QED BY <1>3, <1>4, <1>5, <1>6, <1>7, NextCases

\* The counter of a pending packet is what has been on the air.
LEMMA BroadcastsStep ==
    ASSUME WellTyped, BroadcastsBounded, Next
    PROVE  BroadcastsBounded'
<1>0. /\ \A e \in Stored : e \in Element /\ e.packet \in NDNPacket
                           /\ e.tries \in Nat /\ e.tries <= Limit
      /\ \A d, e \in Stored : d.packet.name = e.packet.name => d = e
      /\ Limit \in Nat /\ air \in [NDNPacket -> 0..Limit + 1]
  BY StoredIsTable, BoundAssumption DEF Element, WellTyped, TypeOK
<1>1. /\ \A e \in Stored : e.tries = air[e.packet] + 1
      /\ \A p \in NDNPacket : air[p] <= Limit
  BY DEF BroadcastsBounded
<1>2. ElementsOf(storage)' = Stored'
  BY DEF ElementsOf, Stored
<1>3. ASSUME Stored' \subseteq Stored, air' = air
      PROVE  BroadcastsBounded'
  <2>1. \A e \in Stored' : e.tries = air'[e.packet] + 1
    BY <1>1, <1>3
  <2> QED BY <1>1, <1>3, <2>1 DEF BroadcastsBounded
<1>4. ASSUME NEW p \in NDNPacket, NEW meta, AddOutgoingPkt(p, meta)
      PROVE  BroadcastsBounded'
  <2> DEFINE kept == Stored \ Settled(p)
  <2>1. kept \subseteq Stored
    OBVIOUS
  <2> HIDE DEF kept
  <2>2. CASE Stores(kept, p)
    <3>1. PICK new \in Element :
             /\ new.packet = p /\ new.tries = 1 /\ Stored' = kept \cup {new}
             /\ \A d \in kept : d.packet.name # p.name
             /\ air' = [air EXCEPT ![p] = 0]
      BY <1>2, <2>2 DEF Stores
    <3>2. \A q \in NDNPacket : air'[q] = IF q = p THEN 0 ELSE air[q]
      BY <1>0, <3>1
    <3>3. \A d \in kept : d.packet # p /\ d.packet \in NDNPacket
      BY <1>0, <2>1, <3>1
    <3>4. \A d \in kept : d.tries = air'[d.packet] + 1
      BY <1>1, <2>1, <3>2, <3>3
    <3>5. \A e \in Stored' : e.tries = air'[e.packet] + 1
      BY <3>1, <3>2, <3>4
    <3>6. \A q \in NDNPacket : air'[q] <= Limit
      BY <1>0, <1>1, <3>2
    <3> QED BY <3>5, <3>6 DEF BroadcastsBounded
  <2> QED BY <1>2, <1>3, <1>4, <2>1, <2>2, OfferDoes DEF kept
<1>5. ASSUME NEW p, NEW from, InterestFromNetwork(p, from)
      PROVE  BroadcastsBounded'
  <2>1. air' = air
    BY <1>5 DEF InterestFromNetwork, Heard
  <2>2. Stored' \subseteq Stored
    BY <1>2, <1>5, InterestDoes
  <2> QED BY <1>3, <2>1, <2>2
<1>6. ASSUME NEW p, NEW from, ContentFromNetwork(p, from)
      PROVE  BroadcastsBounded'
  <2>1. air' = air
    BY <1>6 DEF ContentFromNetwork, Heard
  <2>2. Stored' \subseteq Stored
    BY <1>2, <1>6, ContentDoes
  <2> QED BY <1>3, <2>1, <2>2
<1>7. CASE GetPktForRetransmission
  <2>1. PICK e \in Stored :
          /\ air' = [air EXCEPT ![e.packet] = Counted(@)]
          /\ \/ e.tries >= Limit /\ Stored' = Stored \ {e}
             \/ /\ ~ (e.tries >= Limit)
                /\ \E again \in Element :
                      /\ again.packet = e.packet /\ again.tries = e.tries + 1
                      /\ Stored' = (Stored \ {e}) \cup {again}
    BY <1>2, <1>7, SendDoes
  <2>2. e.packet \in NDNPacket /\ e.tries = air[e.packet] + 1 /\ e.tries <= Limit
        /\ air[e.packet] \in Int
    BY <1>0, <1>1
  <2>3. Counted(air[e.packet]) = e.tries
    BY <1>0, <2>2 DEF Counted
  <2>4. \A q \in NDNPacket : air'[q] = IF q = e.packet THEN e.tries ELSE air[q]
    BY <1>0, <2>1, <2>2, <2>3
  <2>5. \A q \in NDNPacket : air'[q] <= Limit
    BY <1>1, <2>2, <2>4
  <2>6. \A d \in Stored \ {e} : d.packet # e.packet /\ d.packet \in NDNPacket
    BY <1>0
  <2>7. \A d \in Stored \ {e} : d.tries = air'[d.packet] + 1
    BY <1>1, <2>4, <2>6
  <2>8. \A d \in Stored' : d.tries = air'[d.packet] + 1
    BY <2>1, <2>2, <2>4, <2>7
  <2> QED BY <2>5, <2>8 DEF BroadcastsBounded
<1>8. CASE Move
  BY <1>3, <1>8 DEF Move, Stored
<1> QED BY <1>4, <1>5, <1>6, <1>7, <1>8, NextCases

\* The daemon has offered what is pending, and so what is kept from it.
LEMMA HiddenStep ==
    ASSUME WellTyped, Offered, Next
    PROVE  Offered' /\ NothingHidden'
<1>1. ElementsOf(storage)' = Stored'
  BY DEF ElementsOf, Stored
<1>2. \A e \in Stored : e.packet \in known
  BY DEF Offered
<1>3. ASSUME NEW p \in NDNPacket, NEW meta, AddOutgoingPkt(p, meta)
      PROVE  Offered' /\ NothingHidden'
  <2>1. /\ known' = known \cup {p}
        /\ event' = [op |-> "offer", packet |-> p, from |-> meta, up |-> FALSE]
    BY <1>3 DEF AddOutgoingPkt
  <2>2. \A e \in Stored' : e \in Stored \/ e.packet = p
    BY <1>1, <1>3, OfferDoes DEF Stores
  <2> QED BY <1>2, <2>1, <2>2 DEF Offered, NothingHidden
<1>4. ASSUME NEW p, NEW from, Heard(p, from), Stored' \subseteq Stored
      PROVE  Offered' /\ NothingHidden'
  <2>1. /\ known' = known
        /\ event' = [op |-> "hear", packet |-> p, from |-> from, up |-> Acked(p, from) = {}]
    BY <1>4 DEF Heard
  <2>2. Acked(p, from) # {} => p \in known
    BY <1>2 DEF Acked, Pending
  <2>3. event'.packet = p /\ (~ event'.up => Acked(p, from) # {})
    BY <2>1
  <2> QED BY <1>2, <1>4, <2>1, <2>2, <2>3 DEF Offered, NothingHidden
<1>5. ASSUME NEW p, NEW from, InterestFromNetwork(p, from)
      PROVE  Offered' /\ NothingHidden'
  BY <1>1, <1>4, <1>5, InterestDoes DEF InterestFromNetwork
<1>6. ASSUME NEW p, NEW from, ContentFromNetwork(p, from)
      PROVE  Offered' /\ NothingHidden'
  BY <1>1, <1>4, <1>6, ContentDoes DEF ContentFromNetwork
<1>7. CASE GetPktForRetransmission
  <2>1. PICK e \in Stored :
          /\ event' = [op |-> "send", packet |-> e.packet, from |-> place, up |-> FALSE]
          /\ \A d \in Stored' : d \in Stored \/ d.packet = e.packet
    BY <1>1, <1>7, SendDoes
  <2>2. known' = known
    BY <1>7 DEF GetPktForRetransmission
  <2> QED BY <1>2, <2>1, <2>2 DEF Offered, NothingHidden
<1>8. CASE Move
  BY <1>2, <1>8 DEF Move, Stored, Offered, NothingHidden, NoEvent
<1> QED BY <1>3, <1>5, <1>6, <1>7, <1>8, NextCases

\* Of at most one element, the first is all.
LEMMA FirstOfOne ==
    ASSUME NEW M, IsFiniteSet(M), ~ (Cardinality(M) > 1),
           \A e \in M : Len(e.packet.name) \in Nat
    PROVE  FirstOf(M) = M
<1>1. Cardinality(M) = 0 \/ Cardinality(M) = 1
  BY FS_CardinalityType
<1>2. CASE Cardinality(M) = 0
  BY <1>2, FS_EmptySet DEF FirstOf
<1>3. CASE Cardinality(M) = 1
  <2>1. PICK e : M = {e}
    BY <1>3, FS_Singleton
  <2> QED BY <2>1 DEF FirstOf
<1> QED BY <1>1, <1>2, <1>3

LEMMA StoredIsFinite ==
    ASSUME WellTyped
    PROVE  IsFiniteSet(Stored)
<1> DEFINE n == Len(storage)
           f == [i \in 1..n |-> storage[i]]
<1>1. n \in Nat
  BY DEF WellTyped, TypeOK
<1> HIDE DEF n
<1>2. IsFiniteSet(1..n)
  BY <1>1, FS_Interval
<1>3. f \in Surjection(1..n, Stored)
  BY DEF Stored, Surjection, n
<1> HIDE DEF f
<1> QED BY <1>2, <1>3, FS_Surjection

LEMMA AnsweredStep ==
    ASSUME WellTyped, AnsweredNotAsked, Next
    PROVE  AnsweredNotAsked'
<1>1. ElementsOf(storage)' = Stored'
  BY DEF ElementsOf, Stored
<1>2. ASSUME NEW p \in NDNPacket, NEW meta, AddOutgoingPkt(p, meta)
      PROVE  AnsweredNotAsked'
  <2>1. event' = [op |-> "offer", packet |-> p, from |-> meta, up |-> FALSE]
    BY <1>2 DEF AddOutgoingPkt
  <2>2. \A e \in Stored' : e \in Stored \ Settled(p) \/ e.packet = p
    BY <1>1, <1>2, OfferDoes DEF Stores
  <2>3. p.kind = "content" =>
           \A e \in Stored' : PrefixOf(e.packet.name, p.name) => e.packet.kind = "content"
    BY <2>2 DEF Settled
  <2> QED BY <2>1, <2>3 DEF AnsweredNotAsked
<1>3. ASSUME NEW p, NEW from, InterestFromNetwork(p, from)
      PROVE  AnsweredNotAsked'
  <2>1. event'.packet = p /\ p.kind = "interest"
    BY <1>3 DEF InterestFromNetwork, Heard
  <2> QED BY <2>1 DEF AnsweredNotAsked
<1>4. ASSUME NEW p, NEW from, ContentFromNetwork(p, from)
      PROVE  AnsweredNotAsked'
  <2>1. event'.packet = p
    BY <1>4 DEF ContentFromNetwork, Heard
  <2>2. SUFFICES ASSUME ~ freed'
                 PROVE  \A e \in Stored' : ~ PrefixOf(e.packet.name, p.name)
    BY <2>1 DEF AnsweredNotAsked
  <2> DEFINE M == Answered(p, from)
  <2>3. ~ (Cardinality(M) > 1) /\ Stored' = (Stored \ Acked(p, from)) \ FirstOf(M)
    BY <1>1, <1>4, <2>2, ContentDoes
  <2>4. IsFiniteSet(M)
    <3>1. M \in SUBSET Stored
      BY DEF Answered
    <3> HIDE DEF M
    <3> QED BY <3>1, StoredIsFinite, FS_Subset
  <2>5. \A e \in M : Len(e.packet.name) \in Nat
    <3>1. \A e \in Stored : e.packet.name \in Seq(Component)
      BY StoredIsTable, NameAssumption DEF Element, NDNPacket
    <3> QED BY <3>1 DEF Answered
  <2> HIDE DEF M
  <2>6. FirstOf(M) = M
    BY <2>3, <2>4, <2>5, FirstOfOne
  <2> QED BY <2>3, <2>6 DEF M, Answered
<1>5. CASE GetPktForRetransmission
  <2>1. event'.op = "send"
    BY <1>5 DEF GetPktForRetransmission
  <2> QED BY <2>1 DEF AnsweredNotAsked
<1>6. CASE Move
  BY <1>6 DEF Move, AnsweredNotAsked, NoEvent
<1> QED BY <1>2, <1>3, <1>4, <1>5, <1>6, NextCases

\* An Interest leaves the table for one of the reasons only.
LEMMA PersistsStep ==
    ASSUME WellTyped, BroadcastsBounded, [Next]_vars
    PROVE  InterestPersistsStep
<1>0. ElementsOf(storage)' = Stored'
  BY DEF ElementsOf, Stored
<1> SUFFICES ASSUME NEW e \in Stored, e.packet.kind = "interest",
                    \A d \in Stored' : d.packet # e.packet
             PROVE  \/ event'.op = "send" /\ event'.packet = e.packet /\ air'[event'.packet] = Limit
                    \/ /\ event'.op = "hear" /\ event'.packet = e.packet
                       /\ Beyond(e, event'.from)
                    \/ /\ event'.packet.kind = "content"
                       /\ PrefixOf(e.packet.name, event'.packet.name)
  BY DEF InterestPersistsStep
<1>1. e \notin Stored'
  OBVIOUS
<1>2. ASSUME NEW p \in NDNPacket, NEW meta, AddOutgoingPkt(p, meta)
      PROVE  /\ event'.packet.kind = "content"
             /\ PrefixOf(e.packet.name, event'.packet.name)
  <2>1. event'.packet = p
    BY <1>2 DEF AddOutgoingPkt
  <2>2. Stored \ Settled(p) \subseteq Stored'
    BY <1>0, <1>2, OfferDoes DEF Stores
  <2>3. e \in Settled(p)
    BY <1>1, <2>2
  <2> QED BY <2>1, <2>3 DEF Settled
<1>3. ASSUME NEW p, NEW from \in Place \cup {NoFix}, Heard(p, from), e \in Acked(p, from)
      PROVE  event'.op = "hear" /\ event'.packet = e.packet /\ Beyond(e, event'.from)
  <2>1. event'.op = "hear" /\ event'.packet = p /\ event'.from = from
    BY <1>3 DEF Heard
  <2>2. e.packet = p /\ IsAck(e, from)
    BY <1>3 DEF Acked, Pending
  <2>3. Beyond(e, from)
    BY <1>3, <2>2 DEF IsAck, Beyond
  <2> QED BY <2>1, <2>2, <2>3
<1>4. ASSUME NEW p, NEW from \in Place \cup {NoFix}, InterestFromNetwork(p, from)
      PROVE  event'.op = "hear" /\ event'.packet = e.packet /\ Beyond(e, event'.from)
  <2>1. e \in Acked(p, from)
    BY <1>0, <1>1, <1>4, InterestDoes
  <2> QED BY <1>3, <1>4, <2>1 DEF InterestFromNetwork
<1>5. ASSUME NEW p, NEW from \in Place \cup {NoFix}, ContentFromNetwork(p, from)
      PROVE  \/ event'.op = "hear" /\ event'.packet = e.packet /\ Beyond(e, event'.from)
             \/ /\ event'.packet.kind = "content"
                /\ PrefixOf(e.packet.name, event'.packet.name)
  <2>1. Heard(p, from) /\ p.kind = "content" /\ event'.packet = p
    BY <1>5 DEF ContentFromNetwork, Heard
  <2>2. e \in Acked(p, from) \/ e \in FirstOf(Answered(p, from))
    BY <1>0, <1>1, <1>5, ContentDoes
  <2>3. CASE e \in FirstOf(Answered(p, from))
    BY <2>1, <2>3 DEF FirstOf, Answered
  <2> QED BY <1>3, <2>1, <2>2, <2>3
<1>6. ASSUME GetPktForRetransmission
      PROVE  event'.op = "send" /\ event'.packet = e.packet /\ air'[event'.packet] = Limit
  <2>1. PICK d \in Stored :
          /\ event' = [op |-> "send", packet |-> d.packet, from |-> place, up |-> FALSE]
          /\ air' = [air EXCEPT ![d.packet] = Counted(@)]
          /\ \/ d.tries >= Limit /\ Stored' = Stored \ {d}
             \/ \E again \in Element :
                   again.packet = d.packet /\ Stored' = (Stored \ {d}) \cup {again}
    BY <1>0, <1>6, SendDoes
  <2>2. d = e /\ e.tries >= Limit
    BY <1>1, <2>1
  <2>3. /\ e.packet \in NDNPacket /\ e.tries \in Nat /\ e.tries <= Limit /\ Limit \in Nat
        /\ air \in [NDNPacket -> 0..Limit + 1]
    BY StoredIsTable, BoundAssumption DEF Element, WellTyped, TypeOK
  <2>4. e.tries = air[e.packet] + 1 /\ air[e.packet] \in Int
    BY <2>3 DEF BroadcastsBounded
  <2>5. Counted(air[e.packet]) = Limit
    BY <2>2, <2>3, <2>4 DEF Counted
  <2>6. air'[e.packet] = Limit
    BY <2>1, <2>2, <2>3, <2>5
  <2> QED BY <2>1, <2>2, <2>6
<1>7. ASSUME Move \/ UNCHANGED vars
      PROVE  FALSE
  BY <1>1, <1>7 DEF Move, vars, Stored
<1> QED BY <1>2, <1>4, <1>5, <1>6, <1>7, NextCases

-----------------------------------------------------------------------------
(* The theorems. *)

LEMMA PolicyInit == Init => PolicyInv
<1> SUFFICES ASSUME Init
             PROVE  PolicyInv
  OBVIOUS
<1>1. Stored = {}
  BY DEF Init, Stored
<1>2. air \in [NDNPacket -> 0..Limit + 1] /\ \A p \in NDNPacket : air[p] <= Limit
  BY BoundAssumption DEF Init
<1>3. storage = << >> /\ Len(storage) = 0
  BY DEF Init
<1>4. WellTyped
  <2>1. storage \in Seq(Element) /\ 1..Len(storage) = {}
    BY <1>3
  <2>2. packets \in 0..MaxPackets
    BY BoundAssumption DEF Init
  <2>3. UniqueNames(storage)
    BY <2>1 DEF UniqueNames
  <2> QED BY <1>2, <2>1, <2>2, <2>3 DEF Init, WellTyped, TypeOK
<1> QED BY <1>1, <1>2, <1>4 DEF Init, PolicyInv, BroadcastsBounded, Offered, NothingHidden,
                                AnsweredNotAsked, NoEvent

LEMMA PolicyStep == PolicyInv /\ [Next]_vars => PolicyInv'
<1>1. ASSUME PolicyInv, Next
      PROVE  PolicyInv'
  BY <1>1, TypeStep, BroadcastsStep, HiddenStep, AnsweredStep DEF PolicyInv
<1>2. ASSUME PolicyInv, UNCHANGED vars
      PROVE  PolicyInv'
  BY <1>2 DEF PolicyInv, vars, WellTyped, TypeOK, BroadcastsBounded, Offered, NothingHidden,
              AnsweredNotAsked, Stored
<1> QED BY <1>1, <1>2

LEMMA PolicyAlways == Spec => []PolicyInv
  BY PolicyInit, PolicyStep, PTL DEF Spec

(***************************************************************************)
(* The table of pending packets is well formed: every packet in it has     *)
(* transmissions left and the position of a hop to compare with            *)
(* (PacketStorage::insertPkt).                                             *)
(***************************************************************************)
THEOREM TableTypeCorrect == Spec => []TypeOK
<1>1. PolicyInv => TypeOK
  BY DEF PolicyInv, WellTyped
<1> QED BY <1>1, PolicyAlways, PTL

(***************************************************************************)
(* However a packet is offered again, overheard or reordered, it is        *)
(* broadcast at most Limit times for each time it was stored               *)
(* (getPktForRetransmission).                                              *)
(***************************************************************************)
THEOREM ChannelNotFlooded == Spec => []BroadcastsBounded
<1>1. PolicyInv => BroadcastsBounded
  BY DEF PolicyInv
<1> QED BY <1>1, PolicyAlways, PTL

(***************************************************************************)
(* A packet overheard and not passed up is one the daemon had offered      *)
(* itself, nonce and all (pktFromNetwork).                                 *)
(***************************************************************************)
THEOREM DaemonHearsWhatItLacks == Spec => []NothingHidden
<1>1. PolicyInv => NothingHidden
  BY DEF PolicyInv
<1> QED BY <1>1, PolicyAlways, PTL

(***************************************************************************)
(* Once a content has been offered or overheard, no Interest it answers is *)
(* pending, as long as no freed element has been read.                     *)
(***************************************************************************)
THEOREM NothingAskedTwice == Spec => []AnsweredNotAsked
<1>1. PolicyInv => AnsweredNotAsked
  BY DEF PolicyInv
<1> QED BY <1>1, PolicyAlways, PTL

(***************************************************************************)
(* An Interest is given up only after Limit broadcasts, for a copy from    *)
(* farther along its way, or for a content that answers it.                *)
(***************************************************************************)
THEOREM InterestsGivenUpForAReason == Spec => InterestPersists
<1>1. PolicyInv /\ [Next]_vars => InterestPersistsStep
  BY PersistsStep DEF PolicyInv
<1> QED BY <1>1, PolicyAlways, PTL DEF Spec, InterestPersists
=============================================================================
