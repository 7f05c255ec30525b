------------------------- MODULE DeviceAdapterProofs -------------------------
(***************************************************************************)
(* Theorems about the device adapter, for descriptor tables of every size, *)
(* any number of failures, any map and any reports of gpsd.                *)
(*                                                                         *)
(* First the road map, for map files of every length and a globe of every  *)
(* grid: what the loading of a map makes, and what the searches find in    *)
(* it.  A loop of the code is a recursive function here.  Each has a lemma *)
(* that it is well defined (its rounds exist, and CHOOSE finds them); what *)
(* the rounds keep then follows from a minimal counterexample among their  *)
(* numbers (UpToInduction).  Then the adapter around it.                   *)
(***************************************************************************)
EXTENDS DeviceAdapter, SubsequenceLemmas, SequenceTheorems

-----------------------------------------------------------------------------
\* The loop over the lines of the file with the junctions is well defined.
LEMMA NodesAddedLoop ==
    ASSUME NEW records, Len(records) \in Nat
    PROVE  \E f : /\ f[0] = [map |-> NoMap, ids |-> << >>]
                  /\ \A n \in 1 .. Len(records) : f[n] = AddNode(f[n - 1], records[n])
                  /\ NodesAdded(records) = f[Len(records)]
<1> DEFINE base == [map |-> NoMap, ids |-> << >>]
           Rounds(f, m) == f = [n \in 0 .. m |->
                                   IF n = 0 THEN base ELSE AddNode(f[n - 1], records[n])]
           N == Len(records)
           T == {m \in 0 .. N : \E f : Rounds(f, m)}
<1> HIDE DEF base
<1>1. 0 \in T
  <2>1. Rounds([n \in 0 .. 0 |-> base], 0)
    OBVIOUS
  <2> HIDE DEF Rounds
  <2> QED BY <2>1
<1>2. ASSUME NEW m \in 1 .. N, m - 1 \in T
      PROVE  m \in T
  <2>1. PICK f : Rounds(f, m - 1)
    BY <1>2
  <2> DEFINE g == [n \in 0 .. m |-> IF n = m THEN AddNode(f[m - 1], records[m]) ELSE f[n]]
  <2>2. \A n \in 0 .. m - 1 : f[n] = IF n = 0 THEN base ELSE AddNode(f[n - 1], records[n])
    BY <2>1
  <2>3. \A n \in 0 .. m : g[n] = IF n = 0 THEN base ELSE AddNode(g[n - 1], records[n])
    BY <2>2
  <2>4. Rounds(g, m)
    BY <2>3
  <2> HIDE DEF Rounds
  <2> QED BY <2>4
<1>3. T = 0 .. N
  <2> HIDE DEF Rounds
  <2> QED BY <1>1, <1>2, UpToInduction
<1>4. \E f : Rounds(f, N)
  BY <1>3
<1> DEFINE f == CHOOSE f : Rounds(f, N)
<1>5. Rounds(f, N)
  BY <1>4
<1>6. NodesAdded(records) = f[N]
  BY DEF NodesAdded, base
<1>7. f[0] = base /\ \A n \in 1 .. N : f[n] = AddNode(f[n - 1], records[n])
  <2> HIDE DEF f
  <2> QED BY <1>5
<1> QED BY <1>6, <1>7 DEF base

\* And so is the loop over the lines of the file with the streets.
LEMMA EdgesAddedLoop ==
    ASSUME NEW nodes, NEW records, Len(records) \in Nat
    PROVE  \E f : /\ f[0] = nodes
                  /\ \A n \in 1 .. Len(records) : f[n] = AddEdge(f[n - 1], records[n])
                  /\ EdgesAdded(nodes, records) = f[Len(records)]
<1> DEFINE Rounds(f, m) == f = [n \in 0 .. m |->
                                   IF n = 0 THEN nodes ELSE AddEdge(f[n - 1], records[n])]
           N == Len(records)
           T == {m \in 0 .. N : \E f : Rounds(f, m)}
<1>1. 0 \in T
  <2>1. Rounds([n \in 0 .. 0 |-> nodes], 0)
    OBVIOUS
  <2> HIDE DEF Rounds
  <2> QED BY <2>1
<1>2. ASSUME NEW m \in 1 .. N, m - 1 \in T
      PROVE  m \in T
  <2>1. PICK f : Rounds(f, m - 1)
    BY <1>2
  <2> DEFINE g == [n \in 0 .. m |-> IF n = m THEN AddEdge(f[m - 1], records[m]) ELSE f[n]]
  <2>2. \A n \in 0 .. m - 1 : f[n] = IF n = 0 THEN nodes ELSE AddEdge(f[n - 1], records[n])
    BY <2>1
  <2>3. \A n \in 0 .. m : g[n] = IF n = 0 THEN nodes ELSE AddEdge(g[n - 1], records[n])
    BY <2>2
  <2>4. Rounds(g, m)
    BY <2>3
  <2> HIDE DEF Rounds
  <2> QED BY <2>4
<1>3. T = 0 .. N
  <2> HIDE DEF Rounds
  <2> QED BY <1>1, <1>2, UpToInduction
<1>4. \E f : Rounds(f, N)
  BY <1>3
<1> DEFINE f == CHOOSE f : Rounds(f, N)
<1>5. Rounds(f, N)
  BY <1>4
<1>6. EdgesAdded(nodes, records) = f[N]
  BY DEF EdgesAdded
<1>7. f[0] = nodes /\ \A n \in 1 .. N : f[n] = AddEdge(f[n - 1], records[n])
  <2> HIDE DEF f
  <2> QED BY <1>5
<1> QED BY <1>6, <1>7

-----------------------------------------------------------------------------
(* Loading the map.                                                        *)

Coordinate == {c \in [lat : Int, lon : Int] : CoordinateInRange(c)}

MapFields == {"nodes", "links", "lookupNode", "minLat", "maxLat", "minLon", "maxLon"}

\* The graph of a map: see Closed.
Graph(m) ==
    /\ DOMAIN m = MapFields
    /\ IsFiniteSet(DOMAIN m.nodes) /\ DOMAIN m.nodes \subseteq Coordinate
    /\ \A j \in DOMAIN m.nodes :
          /\ m.nodes[j] \in Seq(DOMAIN m.links)
          /\ \A id \in DOMAIN m.links :
                id \in ToSet(m.nodes[j]) <=> j = m.links[id][1] \/ j = m.links[id][2]
          /\ \A i, k \in DOMAIN m.nodes[j] : m.nodes[j][i] = m.nodes[j][k] => i = k
    /\ \A id \in DOMAIN m.links : \E a, b \in DOMAIN m.nodes : m.links[id] = <<a, b>>

\* What the loops keep: the graph, and identities that are those of junctions.
Loading(st) ==
    /\ DOMAIN st = {"map", "ids"}
    /\ Graph(st.map)
    /\ \A k \in DOMAIN st.ids : st.ids[k] \in DOMAIN st.map.nodes

LEMMA StartLoads == Loading([map |-> NoMap, ids |-> << >>])
<1>1. DOMAIN << >> = {}
  OBVIOUS
<1>2. IsFiniteSet({})
  BY FS_EmptySet
<1> QED BY <1>1, <1>2 DEF Loading, Graph, NoMap, MapFields

LEMMA NodeLoads ==
    ASSUME NEW st, Loading(st), NEW n \in [id : STRING, lat : Int, lon : Int],
           NodeRead(n) => CoordinateInRange(n)
    PROVE  Loading(AddNode(st, n))
<1> DEFINE c == [lat |-> n.lat, lon |-> n.lon]
           m == st.map
           added == AddNode(st, n)
<1>1. CASE ~NodeRead(n)
  BY <1>1 DEF AddNode
<1>2. CASE NodeRead(n)
  <2>1. c \in Coordinate
    BY <1>2 DEF Coordinate, CoordinateInRange, LatitudeInRange, LongitudeInRange
  <2>2. DOMAIN m = MapFields /\ DOMAIN st = {"map", "ids"}
    BY DEF Loading, Graph
  <2>3. /\ added.map.links = m.links
        /\ DOMAIN added.map = MapFields
        /\ added.map.nodes = IF c \in DOMAIN m.nodes THEN m.nodes
                             ELSE [k \in DOMAIN m.nodes \cup {c} |-> IF k = c THEN << >> ELSE m.nodes[k]]
    BY <1>2, <2>2 DEF AddNode, MapFields
  <2>4. /\ DOMAIN added = {"map", "ids"}
        /\ added.ids = IF n.id \in DOMAIN st.ids THEN st.ids
                       ELSE [k \in DOMAIN st.ids \cup {n.id} |-> IF k = n.id THEN c ELSE st.ids[k]]
    BY <1>2 DEF AddNode
  <2>5. DOMAIN added.map.nodes = DOMAIN m.nodes \cup {c}
    BY <2>3
  <2>6. IsFiniteSet(DOMAIN added.map.nodes) /\ DOMAIN added.map.nodes \subseteq Coordinate
    <3>1. IsFiniteSet(DOMAIN m.nodes) /\ DOMAIN m.nodes \subseteq Coordinate
      BY DEF Loading, Graph
    <3> QED BY <2>1, <2>5, <3>1, FS_AddElement
  <2>7. ASSUME NEW j \in DOMAIN added.map.nodes
        PROVE  /\ added.map.nodes[j] \in Seq(DOMAIN m.links)
               /\ \A id \in DOMAIN m.links :
                     id \in ToSet(added.map.nodes[j]) <=> j = m.links[id][1] \/ j = m.links[id][2]
               /\ \A i, k \in DOMAIN added.map.nodes[j] :
                     added.map.nodes[j][i] = added.map.nodes[j][k] => i = k
    <3>1. CASE j \in DOMAIN m.nodes
      <4>1. added.map.nodes[j] = m.nodes[j]
        BY <3>1, <2>3, <2>5
      <4> QED BY <3>1, <4>1 DEF Loading, Graph
    <3>2. CASE j \notin DOMAIN m.nodes
      <4>1. added.map.nodes[j] = << >> /\ j = c
        BY <3>2, <2>3, <2>5
      <4>2. \A id \in DOMAIN m.links : j # m.links[id][1] /\ j # m.links[id][2]
        <5>1. \A id \in DOMAIN m.links : \E a, b \in DOMAIN m.nodes : m.links[id] = <<a, b>>
          BY DEF Loading, Graph
        <5> QED BY <3>2, <5>1
      <4>3. DOMAIN << >> = {} /\ ToSet(<< >>) = {} /\ << >> \in Seq(DOMAIN m.links)
        BY DEF ToSet
      <4> QED BY <4>1, <4>2, <4>3
    <3> QED BY <3>1, <3>2
  <2>8. \A id \in DOMAIN m.links : \E a, b \in DOMAIN added.map.nodes : m.links[id] = <<a, b>>
    <3>1. \A id \in DOMAIN m.links : \E a, b \in DOMAIN m.nodes : m.links[id] = <<a, b>>
      BY DEF Loading, Graph
    <3> QED BY <2>5, <3>1
  <2>9. \A k \in DOMAIN added.ids : added.ids[k] \in DOMAIN added.map.nodes
    <3>1. \A k \in DOMAIN st.ids : st.ids[k] \in DOMAIN m.nodes
      BY DEF Loading
    <3> QED BY <2>4, <2>5, <3>1
  <2> HIDE DEF added
  <2>10. Graph(added.map)
    <3> DEFINE nodes == added.map.nodes
               links == added.map.links
    <3>1. links = m.links
      BY <2>3
    <3> HIDE DEF links, m, nodes
    <3>2. /\ \A j \in DOMAIN nodes :
                /\ nodes[j] \in Seq(DOMAIN links)
                /\ \A id \in DOMAIN links :
                      id \in ToSet(nodes[j]) <=> j = links[id][1] \/ j = links[id][2]
                /\ \A i, k \in DOMAIN nodes[j] : nodes[j][i] = nodes[j][k] => i = k
          /\ \A id \in DOMAIN links : \E p, q \in DOMAIN nodes : links[id] = <<p, q>>
      BY <2>7, <2>8, <3>1 DEF nodes
    <3> QED BY <2>3, <2>6, <3>2 DEF Graph, nodes, links
  <2>11. Loading(added)
    BY <2>4, <2>9, <2>10 DEF Loading
  <2> QED BY <2>11 DEF added
<1> QED BY <1>1, <1>2

LEMMA EdgeLoads ==
    ASSUME NEW st, Loading(st), NEW e
    PROVE  Loading(AddEdge(st, e))
<1> DEFINE m == st.map
           added == AddEdge(st, e)
           a == st.ids[e.from]
           b == st.ids[e.to]
           new == LinkId(a, b)
           nodes == added.map.nodes
           links == added.map.links
<1>1. CASE ~({e.from, e.to} \subseteq DOMAIN st.ids) \/ new \in DOMAIN m.links
  BY <1>1 DEF AddEdge
<1>2. CASE {e.from, e.to} \subseteq DOMAIN st.ids /\ new \notin DOMAIN m.links
  <2>1. a \in DOMAIN m.nodes /\ b \in DOMAIN m.nodes
    BY <1>2 DEF Loading
  <2>2. DOMAIN m = MapFields /\ DOMAIN st = {"map", "ids"}
    BY DEF Loading, Graph
  <2> HIDE DEF new
  <2>3. /\ DOMAIN added = {"map", "ids"} /\ added.ids = st.ids
        /\ DOMAIN added.map = MapFields
        /\ nodes = [k \in DOMAIN m.nodes |->
                       IF k \in {a, b} THEN addLinkId(m.nodes[k], new) ELSE m.nodes[k]]
        /\ links = [k \in DOMAIN m.links \cup {new} |-> IF k = new THEN <<a, b>> ELSE m.links[k]]
    BY <1>2, <2>2 DEF AddEdge, MapFields, new
  <2> HIDE DEF added, a, b
  <2>4. /\ DOMAIN nodes = DOMAIN m.nodes
        /\ DOMAIN links = DOMAIN m.links \cup {new}
        /\ links[new] = <<a, b>>
        /\ \A id \in DOMAIN m.links : links[id] = m.links[id]
    BY <1>2, <2>3
  <2>5. ASSUME NEW j \in DOMAIN nodes
        PROVE  /\ nodes[j] \in Seq(DOMAIN links)
               /\ \A id \in DOMAIN links :
                     id \in ToSet(nodes[j]) <=> j = links[id][1] \/ j = links[id][2]
               /\ \A i, k \in DOMAIN nodes[j] : nodes[j][i] = nodes[j][k] => i = k
    <3> DEFINE s == m.nodes[j]
    <3>1. /\ s \in Seq(DOMAIN m.links)
          /\ \A id \in DOMAIN m.links :
                id \in ToSet(s) <=> j = m.links[id][1] \/ j = m.links[id][2]
          /\ \A i, k \in DOMAIN s : s[i] = s[k] => i = k
      BY <2>4 DEF Loading, Graph
    <3> HIDE DEF s
    <3>2. new \notin ToSet(s)
      BY <1>2, <3>1 DEF ToSet
    <3>3. CASE j \notin {a, b}
      <4>1. nodes[j] = s
        BY <2>3, <2>4, <3>3 DEF s
      <4>2. j # links[new][1] /\ j # links[new][2]
        BY <2>4, <3>3
      <4>3. s \in Seq(DOMAIN links)
        BY <2>4, <3>1
      <4> QED BY <2>4, <3>1, <3>2, <4>1, <4>2, <4>3
    <3>4. CASE j \in {a, b}
      <4>1. nodes[j] = Append(s, new)
        BY <2>3, <2>4, <3>2, <3>4 DEF s, addLinkId
      <4>2. j = links[new][1] \/ j = links[new][2]
        BY <2>4, <3>4
      <4>3. s \in Seq(DOMAIN links) /\ Append(s, new) \in Seq(DOMAIN links)
        BY <2>4, <3>1
      <4>4. Len(s) \in Nat /\ DOMAIN s = 1 .. Len(s) /\ DOMAIN Append(s, new) = 1 .. Len(s) + 1
        BY <4>3
      <4>5. \A i \in 1 .. Len(s) : Append(s, new)[i] = s[i]
        BY <4>3
      <4>6. Append(s, new)[Len(s) + 1] = new
        BY <4>3
      <4>7. ToSet(Append(s, new)) = ToSet(s) \cup {new}
        BY <4>4, <4>5, <4>6 DEF ToSet
      <4>8. \A i, k \in DOMAIN Append(s, new) : Append(s, new)[i] = Append(s, new)[k] => i = k
        <5>1. \A i \in 1 .. Len(s) : s[i] # new
          BY <3>2, <4>4 DEF ToSet
        <5> QED BY <3>1, <4>4, <4>5, <4>6, <5>1
      <4> QED BY <2>4, <3>1, <3>2, <4>1, <4>2, <4>3, <4>7, <4>8
    <3> QED BY <3>3, <3>4
  <2>6. \A id \in DOMAIN links : \E p, q \in DOMAIN nodes : links[id] = <<p, q>>
    <3>1. \A id \in DOMAIN m.links : \E p, q \in DOMAIN m.nodes : m.links[id] = <<p, q>>
      BY DEF Loading, Graph
    <3> QED BY <2>1, <2>4, <3>1
  <2>7. IsFiniteSet(DOMAIN nodes) /\ DOMAIN nodes \subseteq Coordinate
    BY <2>4 DEF Loading, Graph
  <2>8. Graph(added.map)
    BY <2>3, <2>5, <2>6, <2>7 DEF Graph
  <2>9. \A k \in DOMAIN added.ids : added.ids[k] \in DOMAIN nodes
    BY <2>3, <2>4 DEF Loading
  <2> QED BY <2>3, <2>8, <2>9 DEF Loading, added
<1> QED BY <1>1, <1>2

-----------------------------------------------------------------------------
(* The list sorted by latitude.                                            *)

\* Each element has a place of its own, and every place is taken.
LEMMA SortedList ==
    ASSUME NEW D, IsFiniteSet(D), D \subseteq [lat : Int, lon : Int]
    PROVE  /\ Cardinality(D) \in Nat
           /\ Sorted(D) \in Seq(D) /\ Len(Sorted(D)) = Cardinality(D)
           /\ \A j \in D : \E i \in 1 .. Cardinality(D) : Sorted(D)[i] = j
           /\ \A i, k \in 1 .. Cardinality(D) : i < k => Sorted(D)[i].lat <= Sorted(D)[k].lat
           /\ \A i, k \in 1 .. Cardinality(D) : Sorted(D)[i] = Sorted(D)[k] => i = k
<1> DEFINE Before(j) == {k \in D : ByLatitude(k, j)}
           place(j) == Cardinality(Before(j)) + 1
           n == Cardinality(D)
<1>1. n \in Nat
  BY FS_CardinalityType
<1>2. ASSUME NEW j \in D
      PROVE  /\ IsFiniteSet(Before(j)) /\ Cardinality(Before(j)) \in Nat
             /\ Cardinality(Before(j)) < n
  <2>1. ~ByLatitude(j, j)
    BY DEF ByLatitude
  <2>2. IsFiniteSet(Before(j)) /\ Cardinality(Before(j)) <= n
        /\ (Cardinality(Before(j)) = n => Before(j) = D)
    BY FS_Subset
  <2>3. Cardinality(Before(j)) \in Nat
    BY <2>2, FS_CardinalityType
  <2>4. Cardinality(Before(j)) # n
    BY <2>1, <2>2
  <2> HIDE DEF Before, n
  <2> QED BY <1>1, <2>2, <2>3, <2>4
<1>3. ASSUME NEW j \in D, NEW k \in D, ByLatitude(j, k)
      PROVE  place(j) < place(k)
  <2>1. ~ByLatitude(j, j)
    BY DEF ByLatitude
  <2>2. \A l \in D : ByLatitude(l, j) => ByLatitude(l, k)
    <3>1. ASSUME NEW l \in D, ByLatitude(l, j)
          PROVE  ByLatitude(l, k)
      <4>1. l.lat \in Int /\ l.lon \in Int /\ j.lat \in Int /\ j.lon \in Int /\ k.lat \in Int /\ k.lon \in Int
        OBVIOUS
      <4> QED BY <1>3, <3>1, <4>1 DEF ByLatitude
    <3> QED BY <3>1
  <2>3. Before(j) \in SUBSET Before(k) /\ j \in Before(k) /\ j \notin Before(j)
    BY <1>3, <2>1, <2>2
  <2>4. IsFiniteSet(Before(k))
    BY <1>2
  <2>5. Cardinality(Before(j)) <= Cardinality(Before(k))
        /\ (Cardinality(Before(j)) = Cardinality(Before(k)) => Before(j) = Before(k))
    BY <2>3, <2>4, FS_Subset
  <2>6. Cardinality(Before(j)) \in Nat /\ Cardinality(Before(k)) \in Nat
    BY <1>2
  <2>7. Cardinality(Before(j)) # Cardinality(Before(k))
    BY <2>3, <2>5
  <2> HIDE DEF Before
  <2> QED BY <2>5, <2>6, <2>7
<1>4. \A j \in D : place(j) \in 1 .. n
  <2> HIDE DEF Before, n
  <2> QED BY <1>1, <1>2
<1>5. \A j, k \in D : place(j) = place(k) => j = k
  <2>1. ASSUME NEW j \in D, NEW k \in D, place(j) = place(k)
        PROVE  j = k
    <3>1. ~ByLatitude(j, k) /\ ~ByLatitude(k, j)
      <4>1. place(j) \in Int /\ place(k) \in Int
        BY <1>4
      <4> HIDE DEF place
      <4> QED BY <1>3, <2>1, <4>1
    <3>2. j.lat = k.lat /\ j.lon = k.lon
      <4>1. j.lat \in Int /\ j.lon \in Int /\ k.lat \in Int /\ k.lon \in Int
        OBVIOUS
      <4> QED BY <3>1, <4>1 DEF ByLatitude
    <3>3. j = [lat |-> j.lat, lon |-> j.lon] /\ k = [lat |-> k.lat, lon |-> k.lon]
      OBVIOUS
    <3> QED BY <3>2, <3>3
  <2> QED BY <2>1
<1> DEFINE places == [j \in D |-> place(j)]
<1>6. places \in Injection(D, 1 .. n)
  <2> HIDE DEF place, n
  <2> QED BY <1>4, <1>5 DEF Injection, IsInjective
<1>7. IsFiniteSet(1 .. n) /\ Cardinality(1 .. n) = n
  <2> HIDE DEF n
  <2>1. IsFiniteSet(1..n) /\ Cardinality(1..n) = IF 1 > n THEN 0 ELSE n - 1 + 1
    BY <1>1, FS_Interval
  <2> QED BY <1>1, <2>1
<1>8. places \in Surjection(D, 1 .. n)
  <2> HIDE DEF places
  <2> QED BY <1>6, <1>7, FS_Injection
<1>9. \A i \in 1 .. n : \E j \in D : place(j) = i
  <2> HIDE DEF place, n
  <2> QED BY <1>8 DEF Surjection
<1> DEFINE s == Sorted(D)
<1>10. s = [i \in 1 .. n |-> CHOOSE j \in D : Cardinality(Before(j)) = i - 1]
  BY DEF Sorted
<1>11. \A i \in 1 .. n : s[i] \in D /\ place(s[i]) = i
  <2> SUFFICES ASSUME NEW i \in 1 .. n
               PROVE  s[i] \in D /\ place(s[i]) = i
    OBVIOUS
  <2>1. PICK j \in D : place(j) = i
    BY <1>9
  <2>2. Cardinality(Before(j)) = i - 1
    <3>1. Cardinality(Before(j)) \in Nat
      BY <1>2
    <3> HIDE DEF Before, n
    <3> QED BY <1>1, <2>1, <3>1
  <2>3. s[i] = CHOOSE k \in D : Cardinality(Before(k)) = i - 1
    <3> HIDE DEF Before, n, s
    <3> QED BY <1>10
  <2>4. s[i] \in D /\ Cardinality(Before(s[i])) = i - 1
    <3> HIDE DEF Before, n, s
    <3> QED BY <2>2, <2>3
  <2> HIDE DEF Before, n, s
  <2> QED BY <1>1, <2>4
<1> HIDE DEF s, n, place
<1>12. s \in Seq(D) /\ Len(s) = n
  <2>1. s \in [1 .. n -> D]
    BY <1>10, <1>11
  <2> QED BY <1>1, <2>1
<1>13. \A j \in D : \E i \in 1 .. n : s[i] = j
  BY <1>4, <1>5, <1>11
<1>14. ASSUME NEW i \in 1 .. n, NEW k \in 1 .. n, i < k
       PROVE  s[i].lat <= s[k].lat
  <2>1. s[i] \in D /\ s[k] \in D /\ place(s[i]) = i /\ place(s[k]) = k
    BY <1>11
  <2>2. ~ByLatitude(s[k], s[i])
    BY <1>1, <1>3, <1>14, <2>1
  <2>3. s[i].lat \in Int /\ s[k].lat \in Int
    BY <2>1
  <2> QED BY <2>2, <2>3 DEF ByLatitude
<1>15. \A i, k \in 1 .. n : s[i] = s[k] => i = k
  BY <1>11
<1> QED BY <1>1, <1>12, <1>13, <1>14, <1>15 DEF s, n

-----------------------------------------------------------------------------
(* The map that is loaded.                                                 *)

GoodMap(m) == Graph(m) /\ m.lookupNode = Sorted(DOMAIN m.nodes)

LEMMA RecordsOfFile ==
    ASSUME NEW S, NEW file \in Seq(S)
    PROVE  Records(file) \in Seq(S) /\ \A i \in DOMAIN Records(file) :
                                          \E k \in DOMAIN file : Records(file)[i] = file[k]
<1>1. CASE file = << >>
  BY <1>1 DEF Records
<1>2. CASE file # << >>
  <2>1. Len(file) \in Nat /\ Len(file) # 0 /\ DOMAIN file = 1 .. Len(file)
    BY <1>2, EmptySeq
  <2>2. Last(file) = file[Len(file)] /\ Len(file) \in DOMAIN file
    BY <2>1 DEF Last
  <2>3. Records(file) = Append(file, Last(file)) /\ Last(file) \in S
    BY <1>2, <2>1, <2>2 DEF Records
  <2>4. DOMAIN Append(file, Last(file)) = 1 .. Len(file) + 1
    BY <2>1, <2>3
  <2>5. /\ \A i \in 1 .. Len(file) : Append(file, Last(file))[i] = file[i]
        /\ Append(file, Last(file))[Len(file) + 1] = Last(file)
    BY <2>3
  <2>6. Append(file, Last(file)) \in Seq(S)
    BY <2>3
  <2> QED BY <2>1, <2>2, <2>3, <2>4, <2>5, <2>6
<1> QED BY <1>1, <1>2

NodeLine == [id : STRING, lat : Int, lon : Int]

LEMMA NodesLoaded ==
    ASSUME NEW records \in Seq(NodeLine),
           \A i \in DOMAIN records : NodeRead(records[i]) => CoordinateInRange(records[i])
    PROVE  Loading(NodesAdded(records))
<1> DEFINE N == Len(records)
<1>1. N \in Nat /\ \A i \in 1 .. N : /\ records[i] \in NodeLine
                                     /\ NodeRead(records[i]) => CoordinateInRange(records[i])
  OBVIOUS
<1>2. PICK f : /\ f[0] = [map |-> NoMap, ids |-> << >>]
               /\ \A n \in 1 .. N : f[n] = AddNode(f[n - 1], records[n])
               /\ NodesAdded(records) = f[N]
  BY <1>1, NodesAddedLoop
<1> DEFINE T == {n \in 0 .. N : Loading(f[n])}
<1> HIDE DEF N
<1>3. 0 \in T
  BY <1>1, <1>2, StartLoads
<1>4. ASSUME NEW i \in 1 .. N, i - 1 \in T
      PROVE  i \in T
  <2>1. Loading(f[i - 1])
    BY <1>4
  <2>2. Loading(AddNode(f[i - 1], records[i]))
    BY <1>1, <2>1, NodeLoads DEF NodeLine
  <2>3. f[i] = AddNode(f[i - 1], records[i])
    BY <1>2
  <2> QED BY <2>2, <2>3
<1>5. T = 0 .. N
  BY <1>1, <1>3, <1>4, UpToInduction
<1>6. N \in T
  BY <1>1, <1>5
<1> QED BY <1>2, <1>6

LEMMA EdgesLoaded ==
    ASSUME NEW nodes, Loading(nodes), NEW S, NEW records \in Seq(S)
    PROVE  Loading(EdgesAdded(nodes, records))
<1> DEFINE N == Len(records)
<1>1. N \in Nat
  OBVIOUS
<1>2. PICK f : /\ f[0] = nodes
               /\ \A n \in 1 .. N : f[n] = AddEdge(f[n - 1], records[n])
               /\ EdgesAdded(nodes, records) = f[N]
  BY <1>1, EdgesAddedLoop
<1> DEFINE T == {n \in 0 .. N : Loading(f[n])}
<1> HIDE DEF N
<1>3. 0 \in T
  BY <1>1, <1>2
<1>4. ASSUME NEW i \in 1 .. N, i - 1 \in T
      PROVE  i \in T
  <2>1. Loading(AddEdge(f[i - 1], records[i]))
    BY <1>4, EdgeLoads
  <2>2. f[i] = AddEdge(f[i - 1], records[i])
    BY <1>2
  <2> QED BY <2>1, <2>2
<1>5. T = 0 .. N
  BY <1>1, <1>3, <1>4, UpToInduction
<1>6. N \in T
  BY <1>1, <1>5
<1> QED BY <1>2, <1>6

LEMMA MapLoaded ==
    ASSUME NEW files, NEW S, files.nodes \in Seq(NodeLine), files.edges \in Seq(S),
           \A i \in DOMAIN files.nodes :
               NodeRead(files.nodes[i]) => CoordinateInRange(files.nodes[i])
    PROVE  GoodMap(LoadMap(files))
<1>1. CASE ~files.found
  <2>1. LoadMap(files) = NoMap
    BY <1>1 DEF LoadMap
  <2>2. Graph(NoMap)
    BY StartLoads DEF Loading
  <2>3. DOMAIN NoMap.nodes = {} /\ NoMap.lookupNode = << >>
    BY DEF NoMap
  <2>4. IsFiniteSet({}) /\ Cardinality({}) = 0
    BY FS_EmptySet
  <2>5. Sorted({}) \in Seq({}) /\ Len(Sorted({})) = 0
    BY <2>4, SortedList
  <2>6. Sorted({}) = << >>
    BY <2>5, EmptySeq
  <2> QED BY <2>1, <2>2, <2>3, <2>6 DEF GoodMap
<1>2. CASE files.found
  <2> DEFINE m == EdgesAdded(NodesAdded(Records(files.nodes)), Records(files.edges)).map
  <2>1. LoadMap(files) = [m EXCEPT !.lookupNode = Sorted(DOMAIN m.nodes)]
    BY <1>2 DEF LoadMap
  <2>2. \A i \in DOMAIN Records(files.nodes) :
            NodeRead(Records(files.nodes)[i]) => CoordinateInRange(Records(files.nodes)[i])
    <3>1. \A i \in DOMAIN Records(files.nodes) :
              \E k \in DOMAIN files.nodes : Records(files.nodes)[i] = files.nodes[k]
      BY RecordsOfFile
    <3> QED BY <3>1
  <2>3. Loading(NodesAdded(Records(files.nodes)))
    <3>1. Records(files.nodes) \in Seq(NodeLine)
      BY RecordsOfFile
    <3> QED BY <2>2, <3>1, NodesLoaded
  <2>4. Graph(m)
    <3>1. Records(files.edges) \in Seq(S)
      BY RecordsOfFile
    <3>2. Loading(EdgesAdded(NodesAdded(Records(files.nodes)), Records(files.edges)))
      BY <2>3, <3>1, EdgesLoaded
    <3> QED BY <3>2 DEF Loading
  <2> HIDE DEF m
  <2> DEFINE full == [m EXCEPT !.lookupNode = Sorted(DOMAIN m.nodes)]
  <2>5. /\ DOMAIN full = MapFields
        /\ full.nodes = m.nodes /\ full.links = m.links
        /\ full.lookupNode = Sorted(DOMAIN m.nodes)
    BY <2>4 DEF Graph, MapFields
  <2> HIDE DEF full
  <2>6. GoodMap(full)
    BY <2>4, <2>5 DEF GoodMap, Graph
  <2> QED BY <2>1, <2>6 DEF full
<1> QED BY <1>1, <1>2

LEMMA GoodMapClosed ==
    ASSUME NEW m, GoodMap(m)
    PROVE  Closed(m)
<1>1. ASSUME NEW id \in DOMAIN m.links
      PROVE  ToSet(m.links[id]) = {m.links[id][1], m.links[id][2]}
             /\ ToSet(m.links[id]) \subseteq DOMAIN m.nodes
  <2>1. PICK a \in DOMAIN m.nodes, b \in DOMAIN m.nodes : m.links[id] = <<a, b>>
    BY DEF GoodMap, Graph
  <2>2. DOMAIN <<a, b>> = {1, 2} /\ <<a, b>>[1] = a /\ <<a, b>>[2] = b
    OBVIOUS
  <2>3. ToSet(<<a, b>>) = {a, b}
    BY <2>2 DEF ToSet
  <2> QED BY <2>1, <2>2, <2>3
<1>2. ASSUME NEW j \in DOMAIN m.nodes
      PROVE  /\ ToSet(m.nodes[j]) = {id \in DOMAIN m.links : j \in ToSet(m.links[id])}
             /\ \A i, k \in DOMAIN m.nodes[j] : m.nodes[j][i] = m.nodes[j][k] => i = k
  <2>1. /\ m.nodes[j] \in Seq(DOMAIN m.links)
        /\ \A id \in DOMAIN m.links :
              id \in ToSet(m.nodes[j]) <=> j = m.links[id][1] \/ j = m.links[id][2]
        /\ \A i, k \in DOMAIN m.nodes[j] : m.nodes[j][i] = m.nodes[j][k] => i = k
    BY DEF GoodMap, Graph
  <2>2. ToSet(m.nodes[j]) \subseteq DOMAIN m.links
    BY <2>1 DEF ToSet
  <2>3. \A id \in DOMAIN m.links : j \in ToSet(m.links[id]) <=> id \in ToSet(m.nodes[j])
    BY <1>1, <2>1
  <2> QED BY <2>1, <2>2, <2>3
<1>3. ToSet(m.lookupNode) = DOMAIN m.nodes
  <2> DEFINE D == DOMAIN m.nodes
             s == m.lookupNode
  <2>1. /\ s \in Seq(D) /\ Len(s) = Cardinality(D)
        /\ \A j \in D : \E i \in 1 .. Cardinality(D) : s[i] = j
    <3>1. IsFiniteSet(D) /\ D \subseteq [lat : Int, lon : Int] /\ s = Sorted(D)
      BY DEF GoodMap, Graph, Coordinate
    <3> HIDE DEF D, s
    <3> QED BY <3>1, SortedList
  <2> HIDE DEF D, s
  <2>2. DOMAIN s = 1 .. Cardinality(D)
    BY <2>1
  <2>3. ToSet(s) = D
    BY <2>1, <2>2 DEF ToSet
  <2> QED BY <2>3 DEF D, s
<1> QED BY <1>1, <1>2, <1>3 DEF Closed

-----------------------------------------------------------------------------
(* Searching the map.                                                      *)

\* The bound divides the list by latitude.
LEMMA BoundDivides ==
    ASSUME NEW m, GoodMap(m), NEW c \in Coordinate
    PROVE  /\ m.lookupNode \in Seq(DOMAIN m.nodes)
           /\ \A j \in DOMAIN m.nodes : \E i \in 1 .. Len(m.lookupNode) : m.lookupNode[i] = j
           /\ lowerBound(m, c) \in 1 .. Len(m.lookupNode) + 1
           /\ \A i \in 1 .. Len(m.lookupNode) : m.lookupNode[i].lat < c.lat <=> i < lowerBound(m, c)
<1> DEFINE s == m.lookupNode
           n == Len(s)
           D == DOMAIN m.nodes
           P == {i \in DOMAIN s : s[i].lat < c.lat}
           Below == OpToRel(<, Nat)
           Q == (1 .. n + 1) \ P
<1>1. D \subseteq Coordinate /\ IsFiniteSet(D) /\ s = Sorted(D)
  BY DEF GoodMap, Graph
<1>2. D \subseteq [lat : Int, lon : Int] /\ c.lat \in Int
  BY <1>1 DEF Coordinate
<1> HIDE DEF D
<1>3. /\ s \in Seq(D) /\ n \in Nat
      /\ \A j \in D : \E i \in 1 .. n : s[i] = j
      /\ \A i, k \in 1 .. n : i < k => s[i].lat <= s[k].lat
  <2>1. Cardinality(D) \in Nat /\ Len(Sorted(D)) = Cardinality(D)
    BY <1>1, <1>2, SortedList
  <2>2. n = Cardinality(D)
    BY <1>1, <2>1
  <2> HIDE DEF n, s
  <2> QED BY <1>1, <1>2, <2>1, <2>2, SortedList
<1> HIDE DEF s
<1>4. DOMAIN s = 1 .. n
  BY <1>3
<1>5. \A i \in 1 .. n : s[i].lat \in Int
  <2>1. \A i \in 1 .. n : s[i] \in D
    BY <1>3
  <2>2. \A j \in D : j.lat \in Int
    BY <1>2
  <2> HIDE DEF n
  <2> QED BY <2>1, <2>2
<1> HIDE DEF n
<1>6. Q \subseteq Nat /\ n + 1 \in Q
  BY <1>3, <1>4
<1>7. PICK b \in Q : \A k \in Q : ~ (<<k, b>> \in Below)
  <2> HIDE DEF Below, Q
  <2>1. IsWellFoundedOn(OpToRel(<, Nat), Nat)
    BY NatLessThanWellFounded
  <2>2. \E x \in Q : \A y \in Q : ~ (<<y, x>> \in Below)
    BY <1>6, <2>1, WFMin DEF Below
  <2> QED BY <2>2
<1>8. \A k \in 1 .. n + 1 : k < b => k \in P
  <2> SUFFICES ASSUME NEW k \in 1 .. n + 1, k < b, k \notin P
               PROVE  FALSE
    OBVIOUS
  <2>1. k \in Q /\ k \in Nat /\ b \in Nat
    BY <1>6
  <2>2. <<k, b>> \in Below
    BY <2>1 DEF OpToRel
  <2> QED BY <1>7, <2>1, <2>2
<1>9. b \in 1 .. n + 1 /\ b \notin P
  BY <1>7
<1>10. \A k \in P : k < b
  <2> SUFFICES ASSUME NEW k \in P, ~(k < b)
               PROVE  FALSE
    OBVIOUS
  <2>1. k \in 1 .. n /\ s[k].lat < c.lat /\ b <= k
    BY <1>3, <1>4, <1>9
  <2>2. b \in 1 .. n /\ s[b].lat <= s[k].lat
    BY <1>3, <1>5, <1>9, <2>1
  <2>3. s[b].lat < c.lat
    BY <1>2, <1>5, <2>1, <2>2
  <2> QED BY <1>4, <1>9, <2>2, <2>3
<1>11. P = 1 .. b - 1
  <2>1. \A k \in P : k \in 1 .. b - 1
    BY <1>3, <1>4, <1>9, <1>10
  <2>2. \A k \in 1 .. b - 1 : k \in P
    BY <1>3, <1>8, <1>9
  <2> HIDE DEF P
  <2> QED BY <2>1, <2>2
<1>12. Cardinality(P) = b - 1
  <2>1. b \in Int /\ 1 <= b
    BY <1>3, <1>9
  <2>2. Cardinality(1 .. b - 1) = IF 1 > b - 1 THEN 0 ELSE b - 1 - 1 + 1
    BY <2>1, FS_Interval
  <2> HIDE DEF P
  <2> QED BY <1>11, <2>1, <2>2
<1>13. lowerBound(m, c) = b
  <2>1. lowerBound(m, c) = Cardinality(P) + 1
    BY DEF lowerBound, s
  <2> HIDE DEF P
  <2> QED BY <1>3, <1>9, <1>12, <2>1
<1>14. \A i \in 1 .. n : s[i].lat < c.lat <=> i < b
  <2>1. \A i \in 1 .. n : i \in P <=> i < b
    BY <1>3, <1>8, <1>10
  <2>2. \A i \in 1 .. n : i \in P <=> s[i].lat < c.lat
    BY <1>4
  <2> HIDE DEF P
  <2> QED BY <2>1, <2>2
<1> QED BY <1>3, <1>9, <1>13, <1>14 DEF n, s, D

\* A search looks at junctions, and at all of the band that are not the
\* southernmost, or are not south of the point.
LEMMA ExaminedJunctions ==
    ASSUME NEW m, GoodMap(m), NEW c \in Coordinate
    PROVE  /\ Examined(m, c) \in Seq(DOMAIN m.nodes)
           /\ \A j \in Visible(m, c) : InBand(j, c) =>
                 \E i \in DOMAIN Examined(m, c) : Examined(m, c)[i] = j
<1> DEFINE s == m.lookupNode
           n == Len(s)
           lb == lowerBound(m, c)
           D == DOMAIN m.nodes
           KN == {i \in lb .. n : s[i].lat <= c.lat + ResearchBox}
           KS == {i \in 2 .. n : i <= lb /\ s[i].lat >= c.lat - ResearchBox}
           N == Kept(s, KN)
           S == Kept(s, KS)
<1>1. /\ s \in Seq(D) /\ n \in Nat
      /\ \A j \in D : \E i \in 1 .. n : s[i] = j
      /\ lb \in 1 .. n + 1
      /\ \A i \in 1 .. n : s[i].lat < c.lat <=> i < lb
  <2>1. /\ s \in Seq(D)
        /\ \A j \in D : \E i \in 1 .. n : s[i] = j
        /\ lb \in 1 .. n + 1
        /\ \A i \in 1 .. n : s[i].lat < c.lat <=> i < lb
    BY BoundDivides
  <2>2. n \in Nat
    BY <2>1
  <2> QED BY <2>1, <2>2
<1>2. Examined(m, c) = N \o Reverse(S)
  BY DEF Examined, North, South
<1>3. D \subseteq [lat : Int, lon : Int] /\ c.lat \in Int /\ ResearchBox \in Nat
  BY GridAssumption DEF GoodMap, Graph, Coordinate
<1>4. \A j \in Visible(m, c) : j \in D /\ (j = s[1] => c.lat <= j.lat)
  <2>1. D # {} => Head(s) = s[1]
    <3>1. D # {} => n # 0
      BY <1>1
    <3>2. D # {} => s # << >>
      BY <1>1, <3>1, EmptySeq
    <3> HIDE DEF s
    <3> QED BY <1>1, <3>2
  <2> QED BY <2>1 DEF Visible
<1> HIDE DEF s, n, lb, D
<1>5. KN \in SUBSET (1 .. Len(s)) /\ KS \in SUBSET (1 .. Len(s))
  BY <1>1 DEF n
<1>6. /\ N \in Seq(D) /\ Len(N) = Cardinality(KN)
      /\ \A i \in KN : \E k \in 1 .. Cardinality(KN) : N[k] = s[i]
  <2> HIDE DEF KN
  <2> QED BY <1>1, <1>5, KeptElements
<1>7. /\ S \in Seq(D) /\ Len(S) = Cardinality(KS)
      /\ \A i \in KS : \E k \in 1 .. Cardinality(KS) : S[k] = s[i]
  <2> HIDE DEF KS
  <2> QED BY <1>1, <1>5, KeptElements
<1> HIDE DEF N, S
<1>8. /\ Len(N) \in Nat /\ Len(S) \in Nat
      /\ Reverse(S) = [i \in 1 .. Len(S) |-> S[Len(S) - i + 1]]
  BY <1>6, <1>7 DEF Reverse
<1>9. Reverse(S) \in Seq(D) /\ Len(Reverse(S)) = Len(S)
  <2>1. \A i \in 1 .. Len(S) : S[Len(S) - i + 1] \in D
    BY <1>7, <1>8
  <2> DEFINE l == Len(S)
             r == Reverse(S)
  <2>2. r \in [1 .. l -> D] /\ l \in Nat
    BY <1>8, <2>1
  <2>3. r \in Seq(D) /\ Len(r) = l
    <3> HIDE DEF l, r
    <3> QED BY <2>2
  <2> QED BY <2>3
<1>10. Examined(m, c) \in Seq(D)
  BY <1>2, <1>6, <1>9
<1>11. \A k \in 1 .. Len(N) : k \in DOMAIN Examined(m, c) /\ Examined(m, c)[k] = N[k]
  BY <1>2, <1>6, <1>9
<1>12. \A k \in 1 .. Len(S) : \E i \in DOMAIN Examined(m, c) : Examined(m, c)[i] = S[k]
  <2> SUFFICES ASSUME NEW k \in 1 .. Len(S)
               PROVE  \E i \in DOMAIN Examined(m, c) : Examined(m, c)[i] = S[k]
    OBVIOUS
  <2> DEFINE l == Len(S) - k + 1
  <2>1. l \in 1 .. Len(S) /\ Reverse(S)[l] = S[k]
    BY <1>8
  <2>2. Len(N) + l \in DOMAIN Examined(m, c) /\ Examined(m, c)[Len(N) + l] = Reverse(S)[l]
    BY <1>2, <1>6, <1>8, <1>9, <2>1
  <2> QED BY <2>1, <2>2
<1>13. ASSUME NEW j \in Visible(m, c), InBand(j, c)
       PROVE  \E i \in DOMAIN Examined(m, c) : Examined(m, c)[i] = j
  <2>1. PICK i \in 1 .. n : s[i] = j
    BY <1>1, <1>4
  <2>2. j.lat \in Int /\ c.lat - ResearchBox <= j.lat /\ j.lat <= c.lat + ResearchBox
    BY <1>3, <1>4, <1>13 DEF InBand
  <2>3. CASE lb <= i
    <3>1. i \in KN
      BY <1>1, <2>1, <2>2, <2>3
    <3> HIDE DEF KN
    <3> QED BY <1>6, <1>11, <2>1, <3>1
  <2>4. CASE i < lb
    <3>1. i # 1
      BY <1>1, <1>3, <1>4, <2>1, <2>2, <2>4
    <3>2. i \in KS
      BY <1>1, <2>1, <2>2, <2>4, <3>1
    <3> HIDE DEF KS
    <3> QED BY <1>7, <1>12, <2>1, <3>2
  <2> QED BY <1>1, <2>3, <2>4
<1> QED BY <1>10, <1>13 DEF D

-----------------------------------------------------------------------------
(* Comparing distances.                                                    *)

Fractions == Nat \X (Nat \ {0})

LEMMA ProductMonotone ==
    ASSUME NEW x \in Int, NEW y \in Int, NEW k \in Nat, x <= y
    PROVE  x * k <= y * k
<1>1. (y - x) * k >= 0
  <2>1. y - x \in Nat
    OBVIOUS
  <2> QED BY <2>1
<1>2. (y - x) * k = y * k - x * k
  OBVIOUS
<1> QED BY <1>1, <1>2

LEMMA ProductCancels ==
    ASSUME NEW x \in Int, NEW y \in Int, NEW k \in Nat \ {0}, x * k <= y * k
    PROVE  x <= y
<1>1. SUFFICES ASSUME y + 1 <= x
               PROVE  FALSE
  OBVIOUS
<1>2. (y + 1) * k <= x * k
  BY <1>1, ProductMonotone
<1>3. (y + 1) * k = y * k + k
  OBVIOUS
<1>4. x * k \in Int /\ y * k \in Int
  OBVIOUS
<1> QED BY <1>2, <1>3, <1>4

\* Not being less is an order of the fractions.
LEMMA NotLessTransitive ==
    ASSUME NEW p \in Fractions, NEW q \in Fractions, NEW r \in Fractions,
           ~Less(p, q), ~Less(q, r)
    PROVE  ~Less(p, r)
<1> DEFINE a == p[1]
           b == p[2]
           c == q[1]
           d == q[2]
           e == r[1]
           f == r[2]
<1>1. /\ a \in Nat /\ b \in Nat \ {0} /\ c \in Nat /\ d \in Nat \ {0}
      /\ e \in Nat /\ f \in Nat \ {0}
  BY DEF Fractions
<1>2. ~(a * d < c * b) /\ ~(c * f < e * d)
  BY DEF Less
<1>3. Less(p, r) <=> a * f < e * b
  BY DEF Less
<1> HIDE DEF a, b, c, d, e, f
<1>4. a * d \in Int /\ c * b \in Int /\ c * f \in Int /\ e * d \in Int /\ e * b \in Int /\ a * f \in Int
  BY <1>1
<1>5. c * b <= a * d /\ e * d <= c * f
  BY <1>2, <1>4
<1>6. (c * b) * f <= (a * d) * f
  BY <1>1, <1>4, <1>5, ProductMonotone
<1>7. (e * d) * b <= (c * f) * b
  BY <1>1, <1>4, <1>5, ProductMonotone
<1>8. (c * b) * f = (c * f) * b /\ (e * d) * b = (e * b) * d /\ (a * d) * f = (a * f) * d
  BY <1>1
<1>9. (e * b) * d <= (a * f) * d
  <2>1. (c * b) * f \in Int /\ (a * d) * f \in Int /\ (e * d) * b \in Int
    BY <1>1, <1>4
  <2> QED BY <1>6, <1>7, <1>8, <2>1
<1>10. e * b <= a * f
  BY <1>1, <1>4, <1>9, ProductCancels
<1> QED BY <1>3, <1>4, <1>10

LEMMA LessIsStrict ==
    ASSUME NEW p \in Fractions, NEW q \in Fractions, Less(p, q)
    PROVE  ~Less(q, p)
<1>1. p[1] * q[2] \in Int /\ q[1] * p[2] \in Int
  BY DEF Fractions
<1> QED BY <1>1 DEF Less

\* The loop over the elements is well defined.
Nearer(map, c, best, el) ==
    IF best # Null /\ ~Less(ElementDistance(map, el, c), ElementDistance(map, best, c))
    THEN best ELSE el

LEMMA FirstClosestLoop ==
    ASSUME NEW map, NEW c, NEW elements, Len(elements) \in Nat
    PROVE  \E f : /\ f[0] = Null
                  /\ \A n \in 1 .. Len(elements) : f[n] = Nearer(map, c, f[n - 1], elements[n])
                  /\ FirstClosest(map, c, elements) = f[Len(elements)]
<1> DEFINE Rounds(f, m) == f = [n \in 0 .. m |->
                                   IF n = 0 THEN Null ELSE Nearer(map, c, f[n - 1], elements[n])]
           N == Len(elements)
           T == {m \in 0 .. N : \E f : Rounds(f, m)}
<1>1. 0 \in T
  <2>1. Rounds([n \in 0 .. 0 |-> Null], 0)
    OBVIOUS
  <2> HIDE DEF Rounds
  <2> QED BY <2>1
<1>2. ASSUME NEW m \in 1 .. N, m - 1 \in T
      PROVE  m \in T
  <2>1. PICK f : Rounds(f, m - 1)
    BY <1>2
  <2> DEFINE g == [n \in 0 .. m |-> IF n = m THEN Nearer(map, c, f[m - 1], elements[m]) ELSE f[n]]
  <2>2. \A n \in 0 .. m - 1 : f[n] = IF n = 0 THEN Null ELSE Nearer(map, c, f[n - 1], elements[n])
    BY <2>1
  <2>3. \A n \in 0 .. m : g[n] = IF n = 0 THEN Null ELSE Nearer(map, c, g[n - 1], elements[n])
    BY <2>2
  <2>4. Rounds(g, m)
    BY <2>3
  <2> HIDE DEF Rounds
  <2> QED BY <2>4
<1>3. T = 0 .. N
  <2> HIDE DEF Rounds
  <2> QED BY <1>1, <1>2, UpToInduction
<1>4. \E f : Rounds(f, N)
  BY <1>3
<1> DEFINE f == CHOOSE f : Rounds(f, N)
<1>5. Rounds(f, N)
  BY <1>4
<1>6. FirstClosest(map, c, elements) = f[N]
  BY DEF FirstClosest, Nearer
<1>7. f[0] = Null /\ \A n \in 1 .. N : f[n] = Nearer(map, c, f[n - 1], elements[n])
  <2> HIDE DEF f
  <2> QED BY <1>5
<1> QED BY <1>6, <1>7

LEMMA FirstClosestIsElement ==
    ASSUME NEW map, NEW c, NEW E, NEW elements \in Seq(E)
    PROVE  \/ FirstClosest(map, c, elements) = Null
           \/ FirstClosest(map, c, elements) \in E
<1> DEFINE N == Len(elements)
<1>1. N \in Nat /\ \A i \in 1 .. N : elements[i] \in E
  OBVIOUS
<1>2. PICK f : /\ f[0] = Null
               /\ \A n \in 1 .. N : f[n] = Nearer(map, c, f[n - 1], elements[n])
               /\ FirstClosest(map, c, elements) = f[N]
  BY <1>1, FirstClosestLoop
<1> DEFINE T == {n \in 0 .. N : f[n] = Null \/ f[n] \in E}
<1> HIDE DEF N
<1>3. 0 \in T
  BY <1>1, <1>2
<1>4. ASSUME NEW i \in 1 .. N, i - 1 \in T
      PROVE  i \in T
  <2>1. f[i] = Nearer(map, c, f[i - 1], elements[i])
    BY <1>2
  <2>2. f[i] = f[i - 1] \/ f[i] = elements[i]
    BY <2>1 DEF Nearer
  <2> QED BY <1>1, <1>4, <2>2
<1>5. T = 0 .. N
  BY <1>1, <1>3, <1>4, UpToInduction
<1>6. N \in T
  BY <1>1, <1>5
<1> QED BY <1>2, <1>6

\* No element is nearer than the one that is found.
LEMMA FirstClosestIsClosest ==
    ASSUME NEW map, NEW c, NEW E, NEW elements \in Seq(E), Null \notin E,
           \A e \in E : ElementDistance(map, e, c) \in Fractions
    PROVE  \A i \in 1 .. Len(elements) :
               /\ FirstClosest(map, c, elements) \in E
               /\ ~Less(ElementDistance(map, elements[i], c),
                        ElementDistance(map, FirstClosest(map, c, elements), c))
<1> DEFINE N == Len(elements)
           Dist(e) == ElementDistance(map, e, c)
<1> HIDE DEF Dist
<1>1. N \in Nat /\ \A i \in 1 .. N : elements[i] \in E
  OBVIOUS
<1>2. PICK f : /\ f[0] = Null
               /\ \A n \in 1 .. N : f[n] = Nearer(map, c, f[n - 1], elements[n])
               /\ FirstClosest(map, c, elements) = f[N]
  BY <1>1, FirstClosestLoop
<1>3. \A e \in E : Dist(e) \in Fractions
  BY DEF Dist
<1> DEFINE Closest(n) == \A i \in 1 .. n : f[n] \in E /\ ~Less(Dist(elements[i]), Dist(f[n]))
           T == {n \in 0 .. N : (n = 0 => f[n] = Null) /\ (n # 0 => f[n] \in E) /\ Closest(n)}
<1> HIDE DEF N
<1>4. 0 \in T
  BY <1>1, <1>2
<1>5. ASSUME NEW i \in 1 .. N, i - 1 \in T
      PROVE  i \in T
  <2> DEFINE best == f[i - 1]
             e == elements[i]
  <2>1. /\ best \in E \/ (i = 1 /\ best = Null)
        /\ \A k \in 1 .. i - 1 : best \in E /\ ~Less(Dist(elements[k]), Dist(best))
    BY <1>1, <1>5
  <2>2. f[i] = IF best # Null /\ ~Less(Dist(e), Dist(best)) THEN best ELSE e
    BY <1>2 DEF Nearer, Dist
  <2>3. e \in E /\ \A k \in 1 .. N : elements[k] \in E
    BY <1>1
  <2>4. ~Less(Dist(e), Dist(e))
    BY <1>3, <2>3, LessIsStrict
  <2> HIDE DEF best, e
  <2>5. CASE best # Null /\ ~Less(Dist(e), Dist(best))
    <3>1. f[i] = best /\ best \in E
      BY <2>1, <2>2, <2>5
    <3>2. \A k \in 1 .. i : ~Less(Dist(elements[k]), Dist(best))
      BY <1>1, <2>1, <2>5 DEF e
    <3> QED BY <1>1, <3>1, <3>2
  <2>6. CASE best # Null /\ Less(Dist(e), Dist(best))
    <3>1. f[i] = e /\ best \in E
      BY <2>1, <2>2, <2>6
    <3>2. ~Less(Dist(best), Dist(e))
      BY <1>3, <2>3, <2>6, <3>1, LessIsStrict
    <3>3. ASSUME NEW k \in 1 .. i
          PROVE  ~Less(Dist(elements[k]), Dist(e))
      <4>1. CASE k = i
        BY <2>4, <4>1 DEF e
      <4>2. CASE k # i
        <5>1. k \in 1 .. i - 1 /\ k \in 1 .. N
          BY <1>1, <4>2
        <5>2. ~Less(Dist(elements[k]), Dist(best)) /\ elements[k] \in E
          BY <2>1, <2>3, <5>1
        <5> QED BY <1>3, <2>3, <3>1, <3>2, <5>2, NotLessTransitive
      <4> QED BY <4>1, <4>2
    <3> QED BY <1>1, <2>3, <3>1, <3>3
  <2>7. CASE best = Null
    <3>1. i = 1 /\ f[i] = e
      BY <2>1, <2>2, <2>7
    <3>2. \A k \in 1 .. i : ~Less(Dist(elements[k]), Dist(e))
      BY <2>4, <3>1 DEF e
    <3> QED BY <1>1, <2>3, <3>1, <3>2
  <2> QED BY <2>5, <2>6, <2>7
<1>6. T = 0 .. N
  <2> HIDE DEF Closest
  <2> QED BY <1>1, <1>4, <1>5, UpToInduction
<1>7. N \in T
  BY <1>1, <1>6
<1>8. \A i \in 1 .. N : f[N] \in E /\ ~Less(Dist(elements[i]), Dist(f[N]))
  BY <1>7
<1> QED BY <1>2, <1>8 DEF N, Dist

-----------------------------------------------------------------------------
(* The links of the junctions a search looks at.                           *)

\* A flat list has the elements of the lists in it, and no other.
LEMMA FlattenElements ==
    ASSUME NEW S, NEW s \in Seq(Seq(S))
    PROVE  /\ FlattenSeq(s) \in Seq(S)
           /\ \A i \in 1 .. Len(s) : \A k \in DOMAIN s[i] :
                 \E l \in 1 .. Len(FlattenSeq(s)) : FlattenSeq(s)[l] = s[i][k]
<1> DEFINE N == Len(s)
<1>1. N \in Nat /\ \A i \in 1 .. N : s[i] \in Seq(S)
  OBVIOUS
<1>2. CASE N = 0
  <2>1. s = << >>
    BY <1>2, EmptySeq
  <2>2. FlattenSeq(s) = s
    BY <1>2 DEF FlattenSeq
  <2>3. << >> \in Seq(S)
    OBVIOUS
  <2>4. 1 .. Len(s) = {}
    BY <1>2
  <2> QED BY <2>1, <2>2, <2>3, <2>4
<1>3. CASE N # 0
  <2>1. PICK f : /\ f[1] = s[1]
                 /\ \A n \in 2 .. N : f[n] = f[n - 1] \o s[n]
                 /\ FlattenSeq(s) = f[N]
    BY <1>1, <1>3, FlattenLoop
  <2> DEFINE Holds(n) == /\ f[n] \in Seq(S)
                         /\ \A i \in 1 .. n : \A k \in DOMAIN s[i] :
                               \E l \in 1 .. Len(f[n]) : f[n][l] = s[i][k]
             T == {n \in 0 .. N : n # 0 => Holds(n)}
  <2> HIDE DEF N
  <2>2. 0 \in T
    BY <1>1
  <2>3. ASSUME NEW n \in 1 .. N, n - 1 \in T
        PROVE  n \in T
    <3>1. CASE n = 1
      <4>1. f[n] = s[1] /\ s[1] \in Seq(S)
        BY <1>1, <2>1, <3>1
      <4>2. DOMAIN s[1] = 1 .. Len(s[1])
        BY <4>1
      <4>3. \A i \in 1 .. n : i = 1
        BY <3>1
      <4>4. \A i \in 1 .. n : \A k \in DOMAIN s[i] : k \in 1 .. Len(f[n]) /\ f[n][k] = s[i][k]
        BY <4>1, <4>2, <4>3
      <4>5. Holds(n)
        BY <4>1, <4>4
      <4> HIDE DEF Holds
      <4> QED BY <1>1, <4>5
    <3>2. CASE n # 1
      <4>1. n \in 2 .. N /\ n - 1 \in 1 .. N /\ Holds(n - 1)
        BY <1>1, <2>3, <3>2
      <4> DEFINE a == f[n - 1]
                 b == s[n]
                 c == f[n]
      <4>2. c = a \o b /\ a \in Seq(S) /\ b \in Seq(S)
        BY <1>1, <2>1, <4>1
      <4>3. \A i \in 1 .. n - 1 : \A k \in DOMAIN s[i] : \E l \in 1 .. Len(a) : a[l] = s[i][k]
        BY <4>1
      <4> HIDE DEF a, b, c
      <4>4. /\ c \in Seq(S) /\ Len(c) = Len(a) + Len(b) /\ Len(a) \in Nat /\ Len(b) \in Nat
            /\ \A l \in 1 .. Len(a) : c[l] = a[l]
            /\ \A k \in 1 .. Len(b) : c[Len(a) + k] = b[k]
            /\ DOMAIN b = 1 .. Len(b)
        BY <4>2
      <4>5. ASSUME NEW i \in 1 .. n, NEW k \in DOMAIN s[i]
            PROVE  \E l \in 1 .. Len(c) : c[l] = s[i][k]
        <5>1. CASE i = n
          <6>1. s[i] = b /\ k \in 1 .. Len(b)
            BY <4>4, <4>5, <5>1 DEF b
          <6>2. Len(a) + k \in 1 .. Len(c) /\ c[Len(a) + k] = b[k]
            BY <4>4, <6>1
          <6> QED BY <6>1, <6>2
        <5>2. CASE i # n
          <6>1. i \in 1 .. n - 1
            BY <1>1, <5>2
          <6>2. PICK l \in 1 .. Len(a) : a[l] = s[i][k]
            BY <4>3, <4>5, <6>1
          <6>3. l \in 1 .. Len(c) /\ c[l] = a[l]
            BY <4>4
          <6> QED BY <6>2, <6>3
        <5> QED BY <5>1, <5>2
      <4> QED BY <4>4, <4>5 DEF c
    <3> QED BY <3>1, <3>2
  <2>4. T = 0 .. N
    <3> HIDE DEF Holds
    <3> QED BY <1>1, <2>2, <2>3, UpToInduction
  <2>5. N \in T
    <3> HIDE DEF T
    <3> QED BY <1>1, <2>4
  <2>6. Holds(N)
    BY <1>1, <1>3, <2>5
  <2> QED BY <2>1, <2>6 DEF N
<1> QED BY <1>2, <1>3

LinksOfJunctions(m, junctions) ==
    FlattenSeq([i \in DOMAIN junctions |-> LinksOf(m, junctions[i])])

MapLinks(m) == {Link(id) : id \in DOMAIN m.links}

LEMMA LinksListed ==
    ASSUME NEW m, GoodMap(m), NEW junctions \in Seq(DOMAIN m.nodes)
    PROVE  /\ LinksOfJunctions(m, junctions) \in Seq(MapLinks(m))
           /\ \A i \in DOMAIN junctions : \A id \in ToSet(m.nodes[junctions[i]]) :
                 \E l \in 1 .. Len(LinksOfJunctions(m, junctions)) :
                     LinksOfJunctions(m, junctions)[l] = Link(id)
<1> DEFINE s == [i \in DOMAIN junctions |-> LinksOf(m, junctions[i])]
<1>1. DOMAIN junctions = 1 .. Len(junctions) /\ Len(junctions) \in Nat
  OBVIOUS
<1>2. ASSUME NEW i \in DOMAIN junctions
      PROVE  /\ s[i] \in Seq(MapLinks(m))
             /\ \A id \in ToSet(m.nodes[junctions[i]]) : \E k \in DOMAIN s[i] : s[i][k] = Link(id)
  <2> DEFINE t == m.nodes[junctions[i]]
             n == Len(t)
             u == s[i]
  <2>1. t \in Seq(DOMAIN m.links)
    BY DEF GoodMap, Graph
  <2>2. u = [k \in DOMAIN t |-> Link(t[k])]
    BY DEF LinksOf
  <2> HIDE DEF t, s, u
  <2>3. n \in Nat /\ DOMAIN t = 1 .. n /\ \A k \in 1 .. n : t[k] \in DOMAIN m.links
    BY <2>1
  <2> HIDE DEF n
  <2>4. \A k \in 1 .. n : Link(t[k]) \in MapLinks(m)
    BY <2>3 DEF MapLinks
  <2>5. u \in [1 .. n -> MapLinks(m)]
    BY <2>2, <2>3, <2>4
  <2>6. u \in Seq(MapLinks(m)) /\ DOMAIN u = 1 .. n
    BY <2>3, <2>5
  <2>7. \A id \in ToSet(t) : \E k \in DOMAIN u : u[k] = Link(id)
    BY <2>2, <2>3, <2>6 DEF ToSet
  <2> QED BY <2>6, <2>7 DEF t, u
<1>3. s \in Seq(Seq(MapLinks(m))) /\ Len(s) = Len(junctions)
  <2> DEFINE n == Len(junctions)
  <2>1. s \in [1 .. n -> Seq(MapLinks(m))]
    BY <1>1, <1>2
  <2> HIDE DEF s, n
  <2>2. n \in Nat
    BY <1>1 DEF n
  <2>3. s \in Seq(Seq(MapLinks(m))) /\ Len(s) = n
    BY <2>1, <2>2
  <2> QED BY <2>3 DEF n
<1>4. LinksOfJunctions(m, junctions) = FlattenSeq(s)
  BY DEF LinksOfJunctions
<1> HIDE DEF s
<1>5. /\ FlattenSeq(s) \in Seq(MapLinks(m))
      /\ \A i \in 1 .. Len(s) : \A k \in DOMAIN s[i] :
            \E l \in 1 .. Len(FlattenSeq(s)) : FlattenSeq(s)[l] = s[i][k]
  BY <1>3, FlattenElements
<1>6. ASSUME NEW i \in DOMAIN junctions, NEW id \in ToSet(m.nodes[junctions[i]])
      PROVE  \E l \in 1 .. Len(FlattenSeq(s)) : FlattenSeq(s)[l] = Link(id)
  <2>1. PICK k \in DOMAIN s[i] : s[i][k] = Link(id)
    BY <1>2
  <2>2. i \in 1 .. Len(s)
    BY <1>1, <1>3
  <2> QED BY <1>5, <2>1, <2>2
<1> QED BY <1>4, <1>5, <1>6

-----------------------------------------------------------------------------
(* Distances. *)

\* The points that UTM coordinates can be compared for.
InOneZone(S) == S \subseteq Coordinate /\ OneZone(S)

LEMMA SquareType ==
    ASSUME NEW n \in Int
    PROVE  Squared(n) \in Nat /\ Squared(-n) = Squared(n) /\ (n # 0 => Squared(n) > 0)
<1>1. n * n \in Int /\ n * n >= 0 /\ (n # 0 => n * n > 0) /\ (-n) * (-n) = n * n
  OBVIOUS
<1> QED BY <1>1 DEF Squared

\* Squares of numbers of which one is further from zero.
LEMMA SquareGrows ==
    ASSUME NEW n \in Int, NEW k \in Nat, n >= k \/ n <= -k
    PROVE  Squared(n) >= Squared(k)
<1>1. CASE n >= k
  <2>1. n * n >= k * k
    <3>1. (n - k) * (n + k) >= 0
      <4>1. n - k \in Nat /\ n + k \in Nat
        BY <1>1
      <4> QED BY <4>1
    <3>2. (n - k) * (n + k) = n * n - k * k
      OBVIOUS
    <3>3. n * n \in Int /\ k * k \in Int
      OBVIOUS
    <3> QED BY <3>1, <3>2, <3>3
  <2> QED BY <2>1 DEF Squared
<1>2. CASE n <= -k
  <2>1. n * n >= k * k
    <3>1. (-n - k) * (-n + k) >= 0
      <4>1. -n - k \in Nat /\ -n + k \in Nat
        BY <1>2
      <4> QED BY <4>1
    <3>2. (-n - k) * (-n + k) = n * n - k * k
      OBVIOUS
    <3>3. n * n \in Int /\ k * k \in Int
      OBVIOUS
    <3> QED BY <3>1, <3>2, <3>3
  <2> QED BY <2>1 DEF Squared
<1> QED BY <1>1, <1>2

\* In one zone UTM differs from latitude and longitude by a constant.
LEMMA ZoneIsFlat ==
    ASSUME NEW S, InOneZone(S), NEW a \in S, NEW b \in S
    PROVE  /\ LLtoUTM(a).easting \in Int /\ LLtoUTM(a).northing \in Int
           /\ LLtoUTM(a).easting - LLtoUTM(b).easting = a.lon - b.lon
           /\ LLtoUTM(a).northing - LLtoUTM(b).northing = a.lat - b.lat
<1>1. ASSUME NEW p \in S
      PROVE  /\ p.lat \in Int /\ p.lon \in Int
             /\ WrappedLongitude(p.lon) = p.lon + MaxLongitude
             /\ ZoneNumber(p) \in Int
  <2>1. /\ p.lat \in Int /\ p.lon \in Int /\ MaxLongitude \in Nat \ {0}
        /\ 0 <= p.lon + MaxLongitude /\ p.lon + MaxLongitude < 2 * MaxLongitude
    BY GridAssumption DEF InOneZone, OneZone, Coordinate, CoordinateInRange, LongitudeInRange
  <2> DEFINE x == p.lon + MaxLongitude
             k == 2 * MaxLongitude
  <2>2. x \in Int /\ k \in Nat \ {0} /\ 0 <= x /\ x < k
    BY <2>1
  <2> HIDE DEF x, k
  <2>3. x % k = x
    BY <2>2
  <2>4. WrappedLongitude(p.lon) = x
    BY <2>3 DEF WrappedLongitude, x, k
  <2>5. x \div ZoneWidth \in Int
    BY <2>2, GridAssumption
  <2> QED BY <2>1, <2>4, <2>5 DEF ZoneNumber, x
<1>2. ZoneNumber(a) = ZoneNumber(b) /\ (a.lat >= 0 <=> b.lat >= 0)
  BY DEF InOneZone, OneZone
<1>3. (ZoneNumber(a) - 1) * ZoneWidth \in Int
  BY <1>1, GridAssumption
<1>4. LLtoUTM(a).easting \in Int /\ LLtoUTM(a).easting - LLtoUTM(b).easting = a.lon - b.lon
  BY <1>1, <1>2, <1>3, GridAssumption DEF LLtoUTM
<1>5. LLtoUTM(a).northing \in Int /\ LLtoUTM(a).northing - LLtoUTM(b).northing = a.lat - b.lat
  BY <1>1, <1>2, GridAssumption DEF LLtoUTM
<1> QED BY <1>4, <1>5

LEMMA PointDistance ==
    ASSUME NEW a \in Coordinate, NEW b \in Coordinate
    PROVE  /\ twoPointsDistance(a, b) \in Nat
           /\ Fraction(twoPointsDistance(a, b)) \in Fractions
           /\ twoPointsDistance(a, b) = twoPointsDistance(b, a)
           /\ a # b => twoPointsDistance(a, b) > 0
           /\ a = b => twoPointsDistance(a, b) = 0
<1>1. /\ a \in [lat : Int, lon : Int] /\ b \in [lat : Int, lon : Int]
      /\ a.lat \in Int /\ a.lon \in Int /\ b.lat \in Int /\ b.lon \in Int
  BY DEF Coordinate
<1>2. /\ Squared(a.lat - b.lat) \in Nat /\ Squared(a.lon - b.lon) \in Nat
      /\ Squared(a.lat - b.lat) = Squared(b.lat - a.lat)
      /\ Squared(a.lon - b.lon) = Squared(b.lon - a.lon)
      /\ a.lat # b.lat => Squared(a.lat - b.lat) > 0
      /\ a.lon # b.lon => Squared(a.lon - b.lon) > 0
  <2>1. /\ a.lat - b.lat \in Int /\ a.lon - b.lon \in Int
        /\ -(a.lat - b.lat) = b.lat - a.lat /\ -(a.lon - b.lon) = b.lon - a.lon
        /\ a.lat # b.lat => a.lat - b.lat # 0
        /\ a.lon # b.lon => a.lon - b.lon # 0
    BY <1>1
  <2> QED BY <2>1, SquareType
<1>3. a # b => a.lat # b.lat \/ a.lon # b.lon
  BY <1>1
<1>4. twoPointsDistance(a, b) = Squared(a.lat - b.lat) + Squared(a.lon - b.lon)
      /\ twoPointsDistance(b, a) = Squared(b.lat - a.lat) + Squared(b.lon - a.lon)
  BY DEF twoPointsDistance, haversineFormula
<1>5. twoPointsDistance(a, b) \in Nat
  BY <1>2, <1>4
<1>6. a = b => twoPointsDistance(a, b) = 0
  BY <1>1, <1>4 DEF Squared
<1>7. Fraction(twoPointsDistance(a, b)) \in Fractions
  BY <1>5 DEF Fraction, Fractions
<1> QED BY <1>2, <1>3, <1>4, <1>5, <1>6, <1>7

\* Lagrange's identity and the law of cosines.
LEMMA Plane ==
    ASSUME NEW x \in Int, NEW y \in Int, NEW v \in Int, NEW w \in Int
    PROVE  /\ (v * v + w * w) * (x * x + y * y) - (v * x + w * y) * (v * x + w * y)
                  = (y * v - x * w) * (y * v - x * w)
           /\ (x - v) * (x - v) + (y - w) * (y - w)
                  = (v * v + w * w) - 2 * (v * x + w * y) + (x * x + y * y)
  OBVIOUS

SameFraction(p, q) == p[1] * q[2] = q[1] * p[2]

\* What the code computes for a street in one zone is the distance to it.
LEMMA SegmentDistance ==
    ASSUME NEW S, InOneZone(S), NEW a \in S, NEW b \in S, NEW c \in S, a # b
    PROVE  /\ pointToSegmentDistUTM(c, a, b) \in Fractions
           /\ TrueDistance(c, a, b) \in Fractions
           /\ SameFraction(pointToSegmentDistUTM(c, a, b), TrueDistance(c, a, b))
<1> DEFINE x == b.lat - a.lat
           y == b.lon - a.lon
           v == c.lat - a.lat
           w == c.lon - a.lon
           A == LLtoUTM(a)
           B == LLtoUTM(b)
           C == LLtoUTM(c)
           along == v * x + w * y
           len == x * x + y * y
           ac == v * v + w * w
           bc == (x - v) * (x - v) + (y - w) * (y - w)
           k == y * v - x * w
<1>1. a \in Coordinate /\ b \in Coordinate /\ c \in Coordinate
  BY DEF InOneZone
<1>2. x \in Int /\ y \in Int /\ v \in Int /\ w \in Int
  BY <1>1 DEF Coordinate
<1>3. /\ A.easting \in Int /\ A.northing \in Int /\ B.easting \in Int /\ B.northing \in Int
      /\ C.easting \in Int /\ C.northing \in Int
      /\ B.easting - A.easting = y /\ B.northing - A.northing = x
      /\ C.easting - A.easting = w /\ C.northing - A.northing = v
      /\ C.easting - B.easting = w - y /\ C.northing - B.northing = v - x
      /\ A.easting - B.easting = -y /\ A.northing - B.northing = -x
      /\ A.easting - C.easting = -w /\ A.northing - C.northing = -v
      /\ B.easting - C.easting = y - w /\ B.northing - C.northing = x - v
  BY ZoneIsFlat, <1>1 DEF Coordinate
<1>4. /\ twoPointsDistance(a, b) = len /\ twoPointsDistance(a, c) = ac
      /\ twoPointsDistance(b, c) = bc
  <2>1. /\ a.lat - b.lat = -x /\ a.lon - b.lon = -y /\ a.lat - c.lat = -v
        /\ a.lon - c.lon = -w /\ b.lat - c.lat = x - v /\ b.lon - c.lon = y - w
    BY <1>1 DEF Coordinate
  <2> HIDE DEF x, y, v, w
  <2>2. (-x) * (-x) = x * x /\ (-y) * (-y) = y * y /\ (-v) * (-v) = v * v /\ (-w) * (-w) = w * w
    BY <1>2
  <2> QED BY <2>1, <2>2 DEF twoPointsDistance, haversineFormula, Squared
<1>5. len \in Nat \ {0} /\ ac \in Nat /\ bc \in Nat
  BY <1>1, <1>4, PointDistance
<1>6. /\ dot(A, B, C) = along - len /\ dot(B, A, C) = -along
      /\ cross(A, B, C) = k
      /\ distance(A, B) = len /\ distance(A, C) = ac /\ distance(B, C) = bc
  <2>1. /\ dot(A, B, C) = y * (w - y) + x * (v - x) /\ dot(B, A, C) = (-y) * w + (-x) * v
        /\ cross(A, B, C) = y * v - x * w
        /\ distance(A, B) = (-y) * (-y) + (-x) * (-x)
        /\ distance(A, C) = (-w) * (-w) + (-v) * (-v)
        /\ distance(B, C) = (y - w) * (y - w) + (x - v) * (x - v)
    <3> HIDE DEF A, B, C, x, y, v, w
    <3> QED BY <1>3 DEF dot, cross, distance, Squared
  <2> HIDE DEF A, B, C, x, y, v, w
  <2>2. /\ y * (w - y) + x * (v - x) = along - len /\ (-y) * w + (-x) * v = -along
        /\ (-y) * (-y) + (-x) * (-x) = len /\ (-w) * (-w) + (-v) * (-v) = ac
        /\ (y - w) * (y - w) + (x - v) * (x - v) = bc
    BY <1>2
  <2> QED BY <2>1, <2>2
<1>7. /\ along \in Int /\ k \in Int
      /\ ac * len - along * along = k * k
      /\ bc = ac - 2 * along + len
  <2> HIDE DEF x, y, v, w
  <2> QED BY <1>2, Plane
<1>8. TrueDistance(c, a, b) =
          IF along <= 0 THEN Fraction(ac) ELSE IF along >= len THEN Fraction(bc)
          ELSE <<ac * len - along * along, len>>
  <2>1. (c.lat - a.lat) * (b.lat - a.lat) + (c.lon - a.lon) * (b.lon - a.lon) = along
    OBVIOUS
  <2> HIDE DEF along, len, ac, bc
  <2> QED BY <1>4, <2>1 DEF TrueDistance, Squared
<1>9. pointToSegmentDistUTM(c, a, b) =
          IF along - len > 0 THEN Fraction(bc) ELSE IF -along > 0 THEN Fraction(ac)
          ELSE <<k * k, len>>
  <2> HIDE DEF along, len, ac, bc, k, A, B, C
  <2> QED BY <1>6 DEF pointToSegmentDistUTM, linePointDist, Squared, A, B, C
<1> HIDE DEF along, len, ac, bc, k, A, B, C, x, y, v, w
<1>10. k * k \in Nat /\ len * 1 = len
  <2>1. k * k \in Int /\ k * k >= 0
    BY <1>7
  <2> QED BY <2>1, <1>5
<1>11. CASE along < 0
  <2>1. pointToSegmentDistUTM(c, a, b) = Fraction(ac) /\ TrueDistance(c, a, b) = Fraction(ac)
    BY <1>5, <1>7, <1>8, <1>9, <1>11
  <2> QED BY <2>1, <1>5 DEF Fraction, Fractions, SameFraction
<1>12. CASE along = 0
  <2>1. pointToSegmentDistUTM(c, a, b) = <<k * k, len>> /\ TrueDistance(c, a, b) = <<ac, 1>>
    BY <1>5, <1>7, <1>8, <1>9, <1>12 DEF Fraction
  <2>2. k * k = ac * len
    <3>1. ac * len \in Int
      BY <1>5
    <3> QED BY <1>7, <1>12, <3>1
  <2> QED BY <2>1, <2>2, <1>5, <1>10 DEF Fractions, SameFraction
<1>13. CASE 0 < along /\ along < len
  <2>1. pointToSegmentDistUTM(c, a, b) = <<k * k, len>> /\ TrueDistance(c, a, b) = <<k * k, len>>
    BY <1>5, <1>7, <1>8, <1>9, <1>13
  <2> QED BY <2>1, <1>5, <1>10 DEF Fractions, SameFraction
<1>14. CASE along = len
  <2>1. pointToSegmentDistUTM(c, a, b) = <<k * k, len>> /\ TrueDistance(c, a, b) = <<bc, 1>>
    BY <1>5, <1>7, <1>8, <1>9, <1>14 DEF Fraction
  <2>2. k * k = bc * len
    <3>1. bc = ac - len
      BY <1>5, <1>7, <1>14
    <3>2. (ac - len) * len = ac * len - len * len
      BY <1>5
    <3> QED BY <1>7, <1>14, <3>1, <3>2
  <2> QED BY <2>1, <2>2, <1>5, <1>10 DEF Fractions, SameFraction
<1>15. CASE along > len
  <2>1. pointToSegmentDistUTM(c, a, b) = Fraction(bc) /\ TrueDistance(c, a, b) = Fraction(bc)
    BY <1>5, <1>7, <1>8, <1>9, <1>15
  <2> QED BY <2>1, <1>5 DEF Fraction, Fractions, SameFraction
<1> QED BY <1>5, <1>7, <1>11, <1>12, <1>13, <1>14, <1>15


LEMMA SameOrder ==
    ASSUME NEW p \in Fractions, NEW q \in Fractions, NEW r \in Fractions, NEW s \in Fractions,
           SameFraction(p, r), SameFraction(q, s), ~Less(p, q)
    PROVE  ~Less(r, s)
<1>1. ASSUME NEW u \in Fractions, NEW v \in Fractions, SameFraction(u, v)
      PROVE  ~Less(u, v) /\ ~Less(v, u)
  <2>1. u[1] * v[2] \in Int /\ v[1] * u[2] \in Int /\ u[1] * v[2] = v[1] * u[2]
    BY <1>1 DEF SameFraction, Fractions
  <2> QED BY <2>1 DEF Less
<1>2. ~Less(r, p) /\ ~Less(q, s)
  BY <1>1
<1>3. ~Less(r, q)
  BY <1>2, NotLessTransitive
<1> QED BY <1>2, <1>3, NotLessTransitive

-----------------------------------------------------------------------------
(* What the searches return. *)

MapJunctions(m) == {Junction(j) : j \in DOMAIN m.nodes}

\* The junctions of a list, as elements.
LEMMA JunctionsListed ==
    ASSUME NEW m, GoodMap(m), NEW c \in Coordinate
    PROVE  /\ [i \in DOMAIN Examined(m, c) |-> Junction(Examined(m, c)[i])] \in Seq(MapJunctions(m))
           /\ \A j \in Visible(m, c) : InBand(j, c) =>
                 \E i \in 1 .. Len([i \in DOMAIN Examined(m, c) |-> Junction(Examined(m, c)[i])]) :
                     [k \in DOMAIN Examined(m, c) |-> Junction(Examined(m, c)[k])][i] = Junction(j)
<1> DEFINE e == Examined(m, c)
           n == Len(e)
           js == [i \in DOMAIN e |-> Junction(e[i])]
<1>1. /\ e \in Seq(DOMAIN m.nodes)
      /\ \A j \in Visible(m, c) : InBand(j, c) => \E i \in DOMAIN e : e[i] = j
  BY ExaminedJunctions
<1> HIDE DEF e
<1>2. n \in Nat /\ DOMAIN e = 1 .. n /\ \A i \in 1 .. n : e[i] \in DOMAIN m.nodes
  BY <1>1
<1> HIDE DEF n
<1>3. js \in [1 .. n -> MapJunctions(m)]
  BY <1>2 DEF MapJunctions
<1>4. js \in Seq(MapJunctions(m)) /\ Len(js) = n
  <2> HIDE DEF js
  <2> QED BY <1>2, <1>3
<1>5. \A j \in Visible(m, c) : InBand(j, c) => \E i \in 1 .. n : js[i] = Junction(j)
  BY <1>1, <1>2
<1> QED BY <1>4, <1>5 DEF e

LEMMA JunctionFound ==
    ASSUME NEW m, GoodMap(m), NEW c \in Coordinate, NEW el \in findClosestJunction(m, c)
    PROVE  el \in {Null, Crash} \cup MapJunctions(m)
<1> DEFINE lb == lowerBound(m, c)
           js == [i \in DOMAIN Examined(m, c) |-> Junction(Examined(m, c)[i])]
<1>1. /\ m.lookupNode \in Seq(DOMAIN m.nodes) /\ Len(m.lookupNode) \in Nat
      /\ lb \in 1 .. Len(m.lookupNode) + 1
  <2>1. m.lookupNode \in Seq(DOMAIN m.nodes) /\ lb \in 1 .. Len(m.lookupNode) + 1
    BY BoundDivides
  <2> QED BY <2>1
<1>2. js \in Seq(MapJunctions(m))
  BY JunctionsListed
<1>3. FirstClosest(m, c, js) = Null \/ FirstClosest(m, c, js) \in MapJunctions(m)
  <2> HIDE DEF js
  <2> QED BY <1>2, FirstClosestIsElement
<1>4. lb <= Len(m.lookupNode) => m.lookupNode[lb] \in DOMAIN m.nodes
  <2> HIDE DEF lb
  <2> QED BY <1>1
<1>5. \/ el \in {Null, Crash} \cup MapJunctions(m)
      \/ lb <= Len(m.lookupNode) /\ el = Junction(m.lookupNode[lb])
      \/ el = FirstClosest(m, c, js)
  <2>1. el \in IF lb > Len(m.lookupNode) THEN {Null, Crash} \cup MapJunctions(m)
               ELSE IF CoordinateHash(m.lookupNode[lb]) = CoordinateHash(c)
                    THEN {Junction(m.lookupNode[lb])}
               ELSE {FirstClosest(m, c, js)}
    BY DEF findClosestJunction, MapJunctions
  <2> HIDE DEF lb, js
  <2> QED BY <1>1, <2>1
<1> QED BY <1>3, <1>4, <1>5 DEF MapJunctions

LEMMA LinkFound ==
    ASSUME NEW m, GoodMap(m), NEW c \in Coordinate, NEW el \in findClosestLink(m, c)
    PROVE  /\ el \in {Null, Crash} \cup MapLinks(m)
           /\ lowerBound(m, c) <= Len(m.lookupNode) =>
                 el = FirstClosest(m, c, LinksOfJunctions(m, Examined(m, c)))
<1> DEFINE links == LinksOfJunctions(m, Examined(m, c))
           l == lowerBound(m, c)
           n == Len(m.lookupNode)
<1>1. links \in Seq(MapLinks(m))
  BY ExaminedJunctions, LinksListed
<1>2. FirstClosest(m, c, links) = Null \/ FirstClosest(m, c, links) \in MapLinks(m)
  <2> HIDE DEF links
  <2> QED BY <1>1, FirstClosestIsElement
<1>3. l \in Int /\ n \in Int
  <2>1. m.lookupNode \in Seq(DOMAIN m.nodes) /\ l \in 1 .. n + 1
    BY BoundDivides
  <2>2. n \in Nat
    BY <2>1
  <2> HIDE DEF n, l
  <2> QED BY <2>1, <2>2
<1>4. el \in IF l > n /\ m.lookupNode # << >> THEN {Null, Crash} \cup MapLinks(m)
             ELSE {FirstClosest(m, c, links)}
  BY DEF findClosestLink, LinksOfJunctions, MapLinks
<1> HIDE DEF links, l, n
<1>5. l <= n => el = FirstClosest(m, c, links)
  BY <1>3, <1>4
<1>6. el \in {Null, Crash} \cup MapLinks(m)
  BY <1>2, <1>4
<1> QED BY <1>5, <1>6 DEF links, l, n

\* What the node is put on is a junction or a link of the map.
LEMMA ElementFound ==
    ASSUME NEW m, GoodMap(m), NEW c \in Coordinate, NEW el \in findLocationInMap(m, c),
           el \notin {Null, Crash}
    PROVE  el \in MapJunctions(m) \cup MapLinks(m) /\ el.kind \in {"junction", "link"}
<1>1. PICK j \in findClosestJunction(m, c) :
          el \in IF j = Crash THEN {Crash}
                 ELSE IF j # Null /\ twoPointsDistance(c, j.at) < Squared(IntersectionSize) THEN {j}
                 ELSE findClosestLink(m, c)
  BY DEF findLocationInMap
<1>2. el = j \/ el \in findClosestLink(m, c)
  BY <1>1
<1>3. el \in MapJunctions(m) \cup MapLinks(m)
  BY <1>2, JunctionFound, LinkFound
<1> QED BY <1>3 DEF MapJunctions, MapLinks, Junction, Link


\* What RightPlace excludes: a point north of the map, several zones, equal
\* hash codes, and a street from a junction to itself.
Searchable(m, c) ==
    /\ \E j \in DOMAIN m.nodes : j.lat >= c.lat
    /\ OneZone({c} \cup DOMAIN m.nodes) /\ NoCollision(c, {c} \cup DOMAIN m.nodes) /\ NoLoop(m)

LEMMA BoundInList ==
    ASSUME NEW m, GoodMap(m), NEW c \in Coordinate, Searchable(m, c)
    PROVE  lowerBound(m, c) \in 1 .. Len(m.lookupNode)
<1> DEFINE l == lowerBound(m, c)
           n == Len(m.lookupNode)
<1>1. /\ m.lookupNode \in Seq(DOMAIN m.nodes)
      /\ \A j \in DOMAIN m.nodes : \E i \in 1 .. n : m.lookupNode[i] = j
      /\ l \in 1 .. n + 1
      /\ \A i \in 1 .. n : m.lookupNode[i].lat < c.lat <=> i < l
  BY BoundDivides
<1>2. n \in Nat
  BY <1>1
<1>3. PICK j \in DOMAIN m.nodes : j.lat >= c.lat
  BY DEF Searchable
<1>4. j.lat \in Int /\ c.lat \in Int
  BY DEF GoodMap, Graph, Coordinate
<1> HIDE DEF l, n
<1>5. PICK i \in 1 .. n : m.lookupNode[i] = j
  BY <1>1
<1>6. ~(i < l)
  BY <1>1, <1>3, <1>4, <1>5
<1> QED BY <1>1, <1>2, <1>6 DEF l, n

LEMMA OutOfBandIsFar ==
    ASSUME NEW j \in Coordinate, NEW c \in Coordinate, ~InBand(j, c)
    PROVE  twoPointsDistance(c, j) >= Squared(IntersectionSize)
<1> DEFINE d == c.lat - j.lat
<1>1. /\ c.lat \in Int /\ j.lat \in Int /\ c.lon \in Int /\ j.lon \in Int
      /\ IntersectionSize \in Nat /\ ResearchBox \in Nat /\ IntersectionSize <= ResearchBox
  BY GridAssumption DEF Coordinate
<1>2. d \in Int /\ (d >= IntersectionSize \/ d <= -IntersectionSize)
  BY <1>1 DEF InBand
<1>3. Squared(d) >= Squared(IntersectionSize)
  <2> HIDE DEF d
  <2> QED BY <1>1, <1>2, SquareGrows
<1>4. Squared(c.lon - j.lon) \in Nat /\ Squared(d) \in Nat /\ Squared(IntersectionSize) \in Nat
  BY <1>1, <1>2, SquareType
<1> QED BY <1>3, <1>4 DEF twoPointsDistance, haversineFormula

LEMMA JunctionDistance ==
    ASSUME NEW m, NEW c, NEW j
    PROVE  ElementDistance(m, Junction(j), c) = Fraction(twoPointsDistance(c, j))
  BY DEF ElementDistance, Junction

LEMMA LinkDistance ==
    ASSUME NEW m, NEW c, NEW id
    PROVE  ElementDistance(m, Link(id), c) =
               pointToSegmentDistUTM(c, m.links[id][1], m.links[id][2])
  BY DEF ElementDistance, Link

\* The search of a junction finds the nearest of those it can see in the band.
LEMMA NearestJunction ==
    ASSUME NEW m, GoodMap(m), NEW c \in Coordinate, Searchable(m, c),
           NEW el \in findClosestJunction(m, c)
    PROVE  /\ el # Crash
           /\ \A q \in Visible(m, c) : InBand(q, c) =>
                 \E j \in DOMAIN m.nodes :
                     el = Junction(j) /\ twoPointsDistance(c, q) >= twoPointsDistance(c, j)
<1> DEFINE lb == lowerBound(m, c)
           J == MapJunctions(m)
           js == [i \in DOMAIN Examined(m, c) |-> Junction(Examined(m, c)[i])]
           first == FirstClosest(m, c, js)
<1>1. lb \in 1 .. Len(m.lookupNode) /\ Len(m.lookupNode) \in Nat
      /\ m.lookupNode \in Seq(DOMAIN m.nodes)
  <2>1. m.lookupNode \in Seq(DOMAIN m.nodes)
    BY BoundDivides
  <2> QED BY <2>1, BoundInList
<1>2. m.lookupNode[lb] \in DOMAIN m.nodes /\ ~(lb > Len(m.lookupNode))
  <2> HIDE DEF lb
  <2> QED BY <1>1
<1>3. DOMAIN m.nodes \subseteq Coordinate
  BY DEF GoodMap, Graph
<1>4. \A q \in DOMAIN m.nodes :
          twoPointsDistance(c, q) \in Nat /\ Fraction(twoPointsDistance(c, q)) \in Fractions
  BY <1>3, PointDistance
<1>5. el \in IF CoordinateHash(m.lookupNode[lb]) = CoordinateHash(c)
             THEN {Junction(m.lookupNode[lb])} ELSE {first}
  BY <1>2 DEF findClosestJunction
<1>6. CASE CoordinateHash(m.lookupNode[lb]) = CoordinateHash(c)
  <2>1. el = Junction(m.lookupNode[lb])
    BY <1>5, <1>6
  <2>2. m.lookupNode[lb] = c
    BY <1>2, <1>6 DEF Searchable, NoCollision
  <2>3. twoPointsDistance(c, c) = 0
    BY PointDistance
  <2>4. \A q \in Visible(m, c) : twoPointsDistance(c, q) >= twoPointsDistance(c, c)
    BY <1>4, <2>3 DEF Visible
  <2> QED BY <1>2, <2>1, <2>2, <2>4 DEF Junction, Crash
<1>7. CASE CoordinateHash(m.lookupNode[lb]) # CoordinateHash(c)
  <2>1. el = first
    BY <1>5, <1>7
  <2>2. js \in Seq(J)
    BY JunctionsListed
  <2>3. \A j \in Visible(m, c) : InBand(j, c) => \E i \in 1 .. Len(js) : js[i] = Junction(j)
    BY JunctionsListed
  <2>4. Null \notin J /\ Crash \notin J /\ Crash # Null
    BY DEF MapJunctions, Junction, Null, Crash
  <2>5. \A e \in J : ElementDistance(m, e, c) \in Fractions
    BY <1>4, JunctionDistance DEF MapJunctions
  <2> HIDE DEF js
  <2>6. first = Null \/ first \in J
    BY <2>2, FirstClosestIsElement
  <2>7. \A i \in 1 .. Len(js) :
            first \in J /\ ~Less(ElementDistance(m, js[i], c), ElementDistance(m, first, c))
    <3> HIDE DEF J
    <3> QED BY <2>2, <2>4, <2>5, FirstClosestIsClosest
  <2> HIDE DEF first
  <2>8. ASSUME NEW q \in Visible(m, c), InBand(q, c)
        PROVE  \E j \in DOMAIN m.nodes :
                   first = Junction(j) /\ twoPointsDistance(c, q) >= twoPointsDistance(c, j)
    <3>1. /\ first \in J
          /\ ~Less(ElementDistance(m, Junction(q), c), ElementDistance(m, first, c))
      BY <2>3, <2>7, <2>8
    <3>2. PICK j \in DOMAIN m.nodes : first = Junction(j)
      BY <3>1 DEF MapJunctions
    <3>3. ~Less(Fraction(twoPointsDistance(c, q)), Fraction(twoPointsDistance(c, j)))
      BY <3>1, <3>2, JunctionDistance
    <3>4. twoPointsDistance(c, q) \in Nat /\ twoPointsDistance(c, j) \in Nat
      BY <1>4 DEF Visible
    <3>5. twoPointsDistance(c, q) >= twoPointsDistance(c, j)
      BY <3>3, <3>4 DEF Less, Fraction
    <3> QED BY <3>2, <3>5
  <2> QED BY <2>1, <2>4, <2>6, <2>8
<1> QED BY <1>6, <1>7

\* Of the links of the junctions around a point the search finds the nearest.
LEMMA NearestLink ==
    ASSUME NEW m, GoodMap(m), NEW c \in Coordinate, Searchable(m, c),
           NEW el \in findClosestLink(m, c), el # Null
    PROVE  \E near \in DOMAIN m.links :
              /\ el = Link(near)
              /\ \A q \in Visible(m, c) : InBand(q, c) =>
                    \A id \in ToSet(m.nodes[q]) :
                       ~Less(TrueDistance(c, m.links[id][1], m.links[id][2]),
                             TrueDistance(c, m.links[near][1], m.links[near][2]))
<1> DEFINE S == {c} \cup DOMAIN m.nodes
           L == MapLinks(m)
           links == LinksOfJunctions(m, Examined(m, c))
           Exact(id) == TrueDistance(c, m.links[id][1], m.links[id][2])
           Computed(id) == ElementDistance(m, Link(id), c)
<1>1. InOneZone(S)
  BY DEF GoodMap, Graph, Searchable, InOneZone
<1>2. ASSUME NEW id \in DOMAIN m.links
      PROVE  /\ Computed(id) \in Fractions /\ Exact(id) \in Fractions
             /\ SameFraction(Computed(id), Exact(id))
  <2>1. PICK a \in DOMAIN m.nodes, b \in DOMAIN m.nodes : m.links[id] = <<a, b>>
    BY DEF GoodMap, Graph
  <2>2. m.links[id][1] = a /\ m.links[id][2] = b /\ a # b
    BY <2>1 DEF Searchable, NoLoop
  <2>3. a \in S /\ b \in S /\ c \in S
    OBVIOUS
  <2>4. Computed(id) = pointToSegmentDistUTM(c, a, b) /\ Exact(id) = TrueDistance(c, a, b)
    BY <2>2, LinkDistance
  <2> HIDE DEF S
  <2> QED BY <1>1, <2>2, <2>3, <2>4, SegmentDistance
<1>3. /\ links \in Seq(L)
      /\ \A i \in DOMAIN Examined(m, c) : \A id \in ToSet(m.nodes[Examined(m, c)[i]]) :
            \E l \in 1 .. Len(links) : links[l] = Link(id)
  BY ExaminedJunctions, LinksListed
<1>4. Null \notin L
  BY DEF MapLinks, Link, Null
<1>5. \A e \in L : ElementDistance(m, e, c) \in Fractions
  BY <1>2 DEF MapLinks
<1>6. el = FirstClosest(m, c, links)
  <2>1. lowerBound(m, c) <= Len(m.lookupNode)
    BY BoundInList
  <2> QED BY <2>1, LinkFound
<1> HIDE DEF links, L
<1>7. \A l \in 1 .. Len(links) : ~Less(ElementDistance(m, links[l], c), ElementDistance(m, el, c))
  BY <1>3, <1>4, <1>5, <1>6, FirstClosestIsClosest
<1>8. el \in L
  BY <1>3, <1>6, FirstClosestIsElement
<1>9. PICK near \in DOMAIN m.links : el = Link(near)
  BY <1>8 DEF L, MapLinks
<1> HIDE DEF Exact, Computed
<1>10. ASSUME NEW q \in Visible(m, c), InBand(q, c), NEW id \in ToSet(m.nodes[q])
       PROVE  ~Less(Exact(id), Exact(near))
  <2>1. PICK i \in DOMAIN Examined(m, c) : Examined(m, c)[i] = q
    BY <1>10, ExaminedJunctions
  <2>2. PICK l \in 1 .. Len(links) : links[l] = Link(id)
    BY <1>3, <1>10, <2>1
  <2>3. ~Less(Computed(id), Computed(near))
    BY <1>7, <1>9, <2>2 DEF Computed
  <2>4. id \in DOMAIN m.links
    <3>1. m.nodes[q] \in Seq(DOMAIN m.links)
      BY DEF GoodMap, Graph, Visible
    <3> QED BY <3>1, <1>10 DEF ToSet
  <2> QED BY <1>2, <2>3, <2>4, SameOrder
<1> QED BY <1>9, <1>10 DEF Exact

\* The element found is the right one.
LEMMA RightElementFound ==
    ASSUME NEW m, GoodMap(m), NEW c \in Coordinate, Searchable(m, c),
           NEW el \in findLocationInMap(m, c), el \notin {Null, Crash}
    PROVE  RightElement(m, c, el)
<1>1. PICK found \in findClosestJunction(m, c) :
          el \in IF found = Crash THEN {Crash}
                 ELSE IF found # Null /\ twoPointsDistance(c, found.at) < Squared(IntersectionSize)
                      THEN {found}
                 ELSE findClosestLink(m, c)
  BY DEF findLocationInMap
<1>2. /\ found # Crash
      /\ \A q \in Visible(m, c) : InBand(q, c) =>
            \E j \in DOMAIN m.nodes :
                found = Junction(j) /\ twoPointsDistance(c, q) >= twoPointsDistance(c, j)
  BY NearestJunction
<1>3. /\ Squared(IntersectionSize) \in Nat
      /\ \A q \in DOMAIN m.nodes : q \in Coordinate /\ twoPointsDistance(c, q) \in Nat
  <2>1. DOMAIN m.nodes \subseteq Coordinate
    BY DEF GoodMap, Graph
  <2> QED BY <2>1, PointDistance, GridAssumption, SquareType
<1>4. \A q \in Visible(m, c) : q \in DOMAIN m.nodes
      /\ (~InBand(q, c) => twoPointsDistance(c, q) >= Squared(IntersectionSize))
  BY <1>3, OutOfBandIsFar DEF Visible
<1>5. CASE found # Null /\ twoPointsDistance(c, found.at) < Squared(IntersectionSize)
  <2>1. el = found
    BY <1>1, <1>2, <1>5
  <2>2. found \in MapJunctions(m)
    BY <1>2, <1>5, JunctionFound
  <2>3. PICK j \in DOMAIN m.nodes : found = Junction(j)
    BY <2>2 DEF MapJunctions
  <2>4. el.kind = "junction" /\ el.at = j
    BY <2>1, <2>3 DEF Junction
  <2>5. twoPointsDistance(c, j) < Squared(IntersectionSize)
    BY <1>5, <2>1, <2>4
  <2>6. ASSUME NEW q \in Visible(m, c)
        PROVE  twoPointsDistance(c, q) >= twoPointsDistance(c, j)
    <3>1. CASE InBand(q, c)
      <4>1. PICK k \in DOMAIN m.nodes :
                found = Junction(k) /\ twoPointsDistance(c, q) >= twoPointsDistance(c, k)
        BY <1>2, <3>1
      <4>2. k = j
        BY <2>3, <4>1 DEF Junction
      <4> QED BY <4>1, <4>2
    <3>2. CASE ~InBand(q, c)
      BY <1>3, <1>4, <2>5, <3>2
    <3> QED BY <3>1, <3>2
  <2> QED BY <2>4, <2>5, <2>6 DEF RightElement
<1>6. CASE ~(found # Null /\ twoPointsDistance(c, found.at) < Squared(IntersectionSize))
  <2>1. el \in findClosestLink(m, c)
    BY <1>1, <1>2, <1>6
  <2>2. PICK near \in DOMAIN m.links :
           /\ el = Link(near)
           /\ \A q \in Visible(m, c) : InBand(q, c) =>
                 \A id \in ToSet(m.nodes[q]) :
                    ~Less(TrueDistance(c, m.links[id][1], m.links[id][2]),
                          TrueDistance(c, m.links[near][1], m.links[near][2]))
    BY <2>1, NearestLink
  <2>3. el.kind # "junction" /\ el.id = near
    BY <2>2 DEF Link
  <2>4. ASSUME NEW q \in Visible(m, c)
        PROVE  twoPointsDistance(c, q) >= Squared(IntersectionSize)
    <3>1. CASE InBand(q, c)
      <4>1. PICK k \in DOMAIN m.nodes :
                found = Junction(k) /\ twoPointsDistance(c, q) >= twoPointsDistance(c, k)
        BY <1>2, <3>1
      <4>2. found # Null /\ found.at = k
        BY <4>1 DEF Junction, Null
      <4> QED BY <1>3, <1>4, <1>6, <4>1, <4>2
    <3>2. CASE ~InBand(q, c)
      BY <1>4, <3>2
    <3> QED BY <3>1, <3>2
  <2> QED BY <2>2, <2>3, <2>4 DEF RightElement
<1> QED BY <1>5, <1>6

-----------------------------------------------------------------------------
(* The inductive invariant. *)

\* The type invariant without the contents of the location service.
Shape ==
    /\ pc \in Stage
    /\ fds \in [Number -> Owner]
    /\ raw \in [fd : Number \cup {None}, device : BOOLEAN, destination : BOOLEAN]
    /\ gpsdSocket \in Number \cup {None}
    /\ maxfd \in Number \cup {None}
    /\ ready \subseteq Number
    /\ DOMAIN loc = {"map", "position", "element"}
    /\ failures \in 0 .. MaxFailures
    /\ {replaced, refused, restarted, strayed} \subseteq BOOLEAN

\* A raw socket exists where start() uses it.
Equipped == Running => raw.fd \in Number

Looping == pc \in {"redial", "regreet", "select", "expired", "network", "daemon", "gps"}

(***************************************************************************)
(* In the loop maxfd covers the descriptors that select watches; the       *)
(* number of a connection just made is added when the request is sent.     *)
(***************************************************************************)
Covered ==
    Looping /\ ~replaced =>
        /\ raw.fd <= maxfd /\ outgoingEventFd <= maxfd
        /\ pc # "regreet" => gpsdSocket <= maxfd

\* The first adapter makes the first raw socket of the process.
FirstSocket ==
    ~restarted /\ pc = "create" =>
        gpsdSocket = None /\ \A n \in Number : fds[n] # "raw"

\* select is entered without gpsd only after a failed attempt to connect.
Reported ==
    /\ pc = "regreet" => gpsdSocket # None
    /\ pc \in {"select", "expired", "network", "daemon", "gps"} /\ gpsdSocket = None
          /\ ~refused => loc.position = NoFix

AdapterInv == Shape /\ Equipped /\ Covered /\ FirstSocket /\ OwnDescriptors /\ Reported

-----------------------------------------------------------------------------
(* The descriptor table. *)

\* The lowest free number is free, if there is one.
LEMMA LowestIsFree ==
    ASSUME FreeNumbers # {}
    PROVE  Lowest \in FreeNumbers
<1> DEFINE Below == OpToRel(<, Nat)
<1>1. FreeNumbers \subseteq Nat
  BY AdapterAssumption DEF FreeNumbers, Number
<1>2. IsWellFoundedOn(Below, Nat)
  BY NatLessThanWellFounded
<1>3. PICK n \in FreeNumbers : \A k \in FreeNumbers : ~ (<<k, n>> \in Below)
  <2> HIDE DEF Below
  <2>1. \E x \in FreeNumbers : \A y \in FreeNumbers : ~ (<<y, x>> \in Below)
    BY <1>1, <1>2, WFMin
  <2> QED BY <2>1
<1>4. ASSUME NEW k \in FreeNumbers
      PROVE  n <= k
  <2>1. ~ (k < n)
    <3>1. << k, n >> \notin Below
      BY <1>3
    <3> QED BY <3>1, <1>1 DEF OpToRel
  <2> QED BY <1>1, <2>1
<1> QED BY <1>4 DEF Lowest

\* What opening and closing a number do to the table.
LEMMA OpenedTable ==
    ASSUME fds \in [Number -> Owner], FreeNumbers # {}, NEW owner \in Owner
    PROVE  /\ Lowest \in Number /\ fds[Lowest] = "free"
           /\ Opened(owner) \in [Number -> Owner]
           /\ \A n \in Number : Opened(owner)[n] = IF n = Lowest THEN owner ELSE fds[n]
<1>1. Lowest \in Number /\ fds[Lowest] = "free"
  BY LowestIsFree DEF FreeNumbers
<1> QED BY <1>1 DEF Opened

LEMMA ClosedTable ==
    ASSUME NEW table \in [Number -> Owner], NEW k \in Number \cup {None}
    PROVE  /\ Closed1(table, k) \in [Number -> Owner]
           /\ \A n \in Number : Closed1(table, k)[n] = IF n = k THEN "free" ELSE table[n]
  BY DEF Closed1, Owner

-----------------------------------------------------------------------------
(* What the parts of the actions do. *)

\* RawSocketFails leaves at most one number taken.
LEMMA RawSocketFailsDoes ==
    ASSUME Shape, RawSocketFails
    PROVE  /\ failures' \in 0 .. MaxFailures
           /\ \/ fds' = fds
              \/ FreeNumbers # {} /\ fds' = Opened("raw")
  BY AdapterAssumption DEF Shape, RawSocketFails, Fails, MayFail

\* Replacing the raw socket: done, or the adapter dies.
Replaced(next) ==
    /\ FreeNumbers # {} /\ raw' = ReadySocket(Lowest)
    /\ fds' = Closed1(Opened("raw"), raw.fd)
    /\ replaced' = TRUE /\ pc' = next

ReplacingFailed ==
    /\ pc' = "dead" /\ raw' = raw /\ replaced' = replaced
    /\ \/ fds' = fds
       \/ FreeNumbers # {} /\ fds' = Opened("raw")

LEMMA ConnectDoes ==
    ASSUME Shape, NEW next, connectToNDNSocket(next)
    PROVE  failures' \in 0 .. MaxFailures /\ (Replaced(next) \/ ReplacingFailed)
<1>1. CASE RawSocketFails /\ pc' = "dead" /\ UNCHANGED <<raw, replaced>>
  BY <1>1, RawSocketFailsDoes DEF ReplacingFailed
<1>2. CASE /\ FreeNumbers # {} /\ MayFail
           /\ failures' = failures + 1
           /\ raw' = ReadySocket(Lowest)
           /\ fds' = Closed1(Opened("raw"), raw.fd)
           /\ replaced' = TRUE
           /\ pc' = next
  BY <1>2, AdapterAssumption DEF Replaced, MayFail, Shape
<1> QED BY <1>1, <1>2 DEF connectToNDNSocket

LEMMA SendDoes ==
    ASSUME Shape, NEW next, Send(next)
    PROVE  /\ failures' \in 0 .. MaxFailures
           /\ \/ pc' = next /\ raw' = raw /\ fds' = fds /\ replaced' = replaced
              \/ Replaced(next) \/ ReplacingFailed
  BY ConnectDoes DEF Send, Shape

\* The request is sent, or the socket closed.
LEMMA RequestDoes ==
    ASSUME Shape, NEW max \in Number, gpsdSocket \in Number, RequestSent(max)
    PROVE  /\ maxfd' \in Number /\ max <= maxfd'
           /\ \/ gpsdSocket' = gpsdSocket /\ fds' = fds /\ refused' = FALSE /\ gpsdSocket <= maxfd'
              \/ gpsdSocket' = None /\ fds' = Closed1(fds, gpsdSocket) /\ refused' = TRUE
  BY AdapterAssumption DEF RequestSent, Greater, Number

\* A number just obtained can be stored, whatever becomes of the old one.
LEMMA ReplacedType ==
    ASSUME Shape, NEW next, Replaced(next)
    PROVE  /\ Lowest \in Number /\ fds[Lowest] = "free"
           /\ raw' = [fd |-> Lowest, device |-> TRUE, destination |-> TRUE]
           /\ fds' \in [Number -> Owner]
           /\ \A n \in Number : fds'[n] = IF n = raw.fd THEN "free"
                                          ELSE IF n = Lowest THEN "raw" ELSE fds[n]
<1>1. fds \in [Number -> Owner] /\ FreeNumbers # {} /\ "raw" \in Owner
      /\ raw.fd \in Number \cup {None}
  BY DEF Shape, Replaced, Owner
<1>2. /\ Lowest \in Number /\ fds[Lowest] = "free"
      /\ Opened("raw") \in [Number -> Owner]
      /\ \A n \in Number : Opened("raw")[n] = IF n = Lowest THEN "raw" ELSE fds[n]
  BY <1>1, OpenedTable
<1>3. /\ Closed1(Opened("raw"), raw.fd) \in [Number -> Owner]
      /\ \A n \in Number : Closed1(Opened("raw"), raw.fd)[n]
                             = IF n = raw.fd THEN "free" ELSE Opened("raw")[n]
  BY <1>1, <1>2, ClosedTable
<1> QED BY <1>2, <1>3 DEF Replaced, ReadySocket

LEMMA ReplacingFailedType ==
    ASSUME Shape, ReplacingFailed
    PROVE  fds' \in [Number -> Owner]
  BY OpenedTable DEF Shape, ReplacingFailed, Owner

\* A connection to gpsd takes a free number, or none.
LEMMA DialDoes ==
    ASSUME Shape, NEW stage, NEW connected, NEW failed, NEW located,
           Dial(stage, connected, failed, located)
    PROVE  /\ pc = stage /\ fds' \in [Number -> Owner]
           /\ UNCHANGED <<raw, maxfd, ready, failures, replaced, refused, restarted, strayed>>
           /\ \A n \in Number : \/ fds'[n] = fds[n]
                                \/ fds[n] = "free" /\ fds'[n] = "gpsd"
           /\ \/ pc' = failed /\ loc' = located /\ gpsdSocket' = gpsdSocket
              \/ /\ pc' = connected /\ loc' = loc
                 /\ gpsdSocket' \in Number /\ fds'[gpsdSocket'] = "gpsd"
<1> DEFINE Taken == /\ fds' \in [Number -> Owner]
                    /\ \A n \in Number : \/ fds'[n] = fds[n]
                                         \/ fds[n] = "free" /\ fds'[n] = "gpsd"
           Outcome == \/ pc' = failed /\ loc' = located /\ gpsdSocket' = gpsdSocket
                      \/ /\ pc' = connected /\ loc' = loc
                         /\ gpsdSocket' \in Number /\ fds'[gpsdSocket'] = "gpsd"
<1>1. /\ pc = stage
      /\ UNCHANGED <<raw, maxfd, ready, failures, replaced, refused, restarted, strayed>>
  BY DEF Dial, history
<1>2. CASE FreeNumbers = {} /\ pc' = failed /\ loc' = located /\ UNCHANGED <<fds, gpsdSocket>>
  <2>1. Taken
    BY <1>2 DEF Shape
  <2>2. Outcome
    BY <1>2
  <2> QED BY <1>1, <2>1, <2>2
<1>3. CASE /\ FreeNumbers # {} /\ fds' = Opened("gpsd")
           /\ \/ pc' = failed /\ loc' = located /\ UNCHANGED gpsdSocket
              \/ pc' = connected /\ gpsdSocket' = Lowest /\ UNCHANGED loc
  <2>1. /\ Lowest \in Number /\ fds[Lowest] = "free"
        /\ fds' \in [Number -> Owner]
        /\ \A n \in Number : fds'[n] = IF n = Lowest THEN "gpsd" ELSE fds[n]
    BY <1>3, OpenedTable DEF Shape, Owner
  <2>2. Taken
    BY <2>1
  <2>3. Outcome
    BY <1>3, <2>1
  <2> QED BY <1>1, <2>2, <2>3
<1> QED BY <1>2, <1>3 DEF Dial

\* The outcomes of a report keep the shape of the location service.
LEMMA UpdateShape ==
    ASSUME DOMAIN loc = {"map", "position", "element"}, NEW report \in Reports,
           NEW new \in updatePosition(loc, report), new # Crash
    PROVE  DOMAIN new = {"map", "position", "element"}
<1>1. report.kind \in {"other", "cut", "fix"}
  BY ReportAssumption
<1>2. CASE report.kind = "other"
  BY <1>2 DEF updatePosition
<1>3. CASE report.kind = "cut"
  BY <1>3 DEF updatePosition
<1>4. CASE report.kind = "fix"
  BY <1>4 DEF updatePosition, updateMapInfo
<1> QED BY <1>1, <1>2, <1>3, <1>4

-----------------------------------------------------------------------------
(* Each part of the inductive invariant is preserved by every step. *)

LEMMA ShapeStep ==
    ASSUME Shape, Equipped, Next
    PROVE  Shape' /\ Equipped'
<1>0. /\ pc \in Stage /\ fds \in [Number -> Owner]
      /\ raw \in [fd : Number \cup {None}, device : BOOLEAN, destination : BOOLEAN]
      /\ gpsdSocket \in Number \cup {None}
      /\ maxfd \in Number \cup {None}
      /\ ready \subseteq Number
      /\ DOMAIN loc = {"map", "position", "element"}
      /\ failures \in 0 .. MaxFailures
      /\ {replaced, refused, restarted, strayed} \subseteq BOOLEAN
      /\ Running => raw.fd \in Number
  BY DEF Shape, Equipped
<1>1. 1 \in Number /\ 2 \in Number /\ None \notin Number /\ None \notin FreeNumbers
  BY AdapterAssumption DEF Number, None, FreeNumbers
<1>2. CASE Create
  <2>1. CASE FreeNumbers # {} /\ raw' = ReadySocket(Lowest) /\ fds' = Opened("raw") /\ pc' = "dial" /\ UNCHANGED failures
    <3>1. Lowest \in Number /\ fds' \in [Number -> Owner]
      BY <1>0, <2>1, OpenedTable DEF Owner
    <3>2. raw' \in [fd : Number \cup {None}, device : BOOLEAN, destination : BOOLEAN] /\ raw'.fd \in Number
      BY <2>1, <3>1 DEF ReadySocket
    <3> QED BY <1>0, <1>2, <2>1, <3>1, <3>2 DEF Create, history, Shape, Equipped, Stage
  <2>2. CASE RawSocketFails /\ pc' = "exited" /\ UNCHANGED raw
    <3>1. failures' \in 0 .. MaxFailures /\ fds' \in [Number -> Owner]
      BY <1>0, <2>2, RawSocketFailsDoes, OpenedTable DEF Owner
    <3> QED BY <1>0, <1>2, <2>2, <3>1 DEF Create, history, Shape, Equipped, Stage, Running
  <2> QED BY <1>2, <2>1, <2>2 DEF Create
<1>3. ASSUME DialFirst \/ Redial
      PROVE  Shape' /\ Equipped'
  <2>1. PICK stage \in {"dial", "redial"}, connected \in {"greet", "regreet"},
             failed \in {"start", "select"}, located \in {loc, noValidData(loc)} :
             Dial(stage, connected, failed, located)
    BY <1>3 DEF DialFirst, Redial
  <2>2. /\ pc = stage /\ fds' \in [Number -> Owner]
        /\ UNCHANGED <<raw, maxfd, ready, failures, replaced, refused, restarted, strayed>>
        /\ \/ pc' = failed /\ loc' = located /\ gpsdSocket' = gpsdSocket
           \/ pc' = connected /\ loc' = loc /\ gpsdSocket' \in Number
    BY <2>1, DialDoes
  <2>3. DOMAIN loc' = {"map", "position", "element"}
    BY <1>0, <2>2 DEF noValidData
  <2>4. Running /\ pc' \in Stage /\ gpsdSocket' \in Number \cup {None}
    BY <1>0, <2>2 DEF Running, Stage
  <2> QED BY <1>0, <2>2, <2>3, <2>4 DEF Shape, Equipped
<1>4. CASE GreetFirst
  <2>1. /\ pc = "greet" /\ pc' = "start" /\ loc' = loc
        /\ gpsdSocket' \in {gpsdSocket, None}
        /\ UNCHANGED <<fds, raw, maxfd, ready, failures, replaced, refused, restarted, strayed>>
    BY <1>4 DEF GreetFirst, ReadGreeting, history
  <2> QED BY <1>0, <2>1 DEF Shape, Equipped, Running, Stage
<1>5. CASE Start
  <2>1. /\ pc = "start" /\ pc' \in {"redial", "select"}
        /\ UNCHANGED <<raw, ready, loc, failures, replaced, restarted, strayed>>
    BY <1>5 DEF Start
  <2>2. Running /\ raw.fd \in Number
    BY <1>0, <2>1 DEF Running
  <2>3. Greater(raw.fd, outgoingEventFd) \in Number
    BY <1>1, <2>2 DEF Greater, outgoingEventFd
  <2>4. /\ maxfd' \in Number /\ refused' \in BOOLEAN
        /\ fds' \in [Number -> Owner] /\ gpsdSocket' \in Number \cup {None}
    <3>1. CASE gpsdSocket = None
      BY <1>0, <1>5, <2>3, <3>1 DEF Start
    <3>2. CASE gpsdSocket # None
      <4>1. RequestSent(Greater(raw.fd, outgoingEventFd)) /\ gpsdSocket \in Number
        BY <1>0, <1>5, <3>2 DEF Start
      <4>2. /\ maxfd' \in Number
            /\ \/ gpsdSocket' = gpsdSocket /\ fds' = fds /\ refused' = FALSE
               \/ gpsdSocket' = None /\ fds' = Closed1(fds, gpsdSocket) /\ refused' = TRUE
        BY <2>3, <4>1, RequestDoes
      <4>3. Closed1(fds, gpsdSocket) \in [Number -> Owner]
        BY <1>0, ClosedTable
      <4> QED BY <1>0, <4>2, <4>3
    <3> QED BY <3>1, <3>2
  <2> QED BY <1>0, <2>1, <2>2, <2>4 DEF Shape, Equipped, Stage
<1>6. CASE Regreet
  <2>1. /\ pc = "regreet" /\ pc' = "select" /\ Running
        /\ UNCHANGED <<raw, ready, failures, replaced, restarted, strayed>>
        /\ \/ RequestSent(maxfd) /\ UNCHANGED loc
           \/ /\ gpsdSocket' = None /\ loc' = noValidData(loc)
              /\ refused' = FALSE /\ UNCHANGED <<fds, maxfd>>
    BY <1>6 DEF Regreet, Running
  <2>2. CASE RequestSent(maxfd) /\ UNCHANGED loc
    <3>1. maxfd' \in Number \cup {None} /\ refused' \in BOOLEAN
          /\ gpsdSocket' \in Number \cup {None} /\ fds' \in [Number -> Owner]
      <4>1. Closed1(fds, gpsdSocket) \in [Number -> Owner]
        BY <1>0, ClosedTable
      <4>2. Greater(maxfd, gpsdSocket) \in {maxfd, gpsdSocket}
        BY DEF Greater
      <4> QED BY <1>0, <2>2, <4>1, <4>2 DEF RequestSent
    <3> QED BY <1>0, <2>1, <2>2, <3>1 DEF Shape, Equipped, Stage
  <2>3. CASE /\ gpsdSocket' = None /\ loc' = noValidData(loc)
             /\ refused' = FALSE /\ UNCHANGED <<fds, maxfd>>
    <3>1. DOMAIN loc' = {"map", "position", "element"}
      BY <1>0, <2>3 DEF noValidData
    <3> QED BY <1>0, <2>1, <2>3, <3>1 DEF Shape, Equipped, Stage
  <2> QED BY <2>1, <2>2, <2>3
<1>7. CASE SelectFails \/ Select
  <2>1. /\ pc = "select" /\ pc' \in {"dead", "network", "expired"} /\ ready' \subseteq Number
        /\ UNCHANGED <<fds, raw, gpsdSocket, maxfd, loc, failures, replaced, refused, restarted, strayed>>
    <3>1. Seen \subseteq Number
      <4>1. raw.fd \in Number /\ (gpsdSocket > 0 => gpsdSocket \in Number)
        BY <1>0, <1>7 DEF SelectFails, Select, Running, None
      <4> QED BY <1>1, <4>1 DEF Seen, Watched, outgoingEventFd
    <3> QED BY <1>0, <1>7, <3>1 DEF SelectFails, Select, history
  <2>2. Running
    BY <2>1 DEF Running
  <2> QED BY <1>0, <2>1, <2>2 DEF Shape, Equipped, Stage
<1>8. ASSUME NEW next \in {"gps", "daemon"}, Send(next) \/ connectToNDNSocket(next), Running,
             UNCHANGED <<gpsdSocket, maxfd, ready, loc, refused, restarted>>, strayed' \in BOOLEAN
      PROVE  Shape' /\ Equipped'
  <2>1. /\ failures' \in 0 .. MaxFailures
        /\ \/ pc' = next /\ raw' = raw /\ fds' = fds /\ replaced' = replaced
           \/ Replaced(next) \/ ReplacingFailed
    BY <1>8, SendDoes, ConnectDoes
  <2>2. CASE pc' = next /\ raw' = raw /\ fds' = fds /\ replaced' = replaced
    BY <1>0, <1>8, <2>1, <2>2 DEF Shape, Equipped, Stage
  <2>3. CASE Replaced(next)
    <3>1. /\ raw' \in [fd : Number \cup {None}, device : BOOLEAN, destination : BOOLEAN]
          /\ raw'.fd \in Number /\ fds' \in [Number -> Owner]
      <4>1. /\ Lowest \in Number /\ fds' \in [Number -> Owner]
            /\ raw' = [fd |-> Lowest, device |-> TRUE, destination |-> TRUE]
        BY <1>8, <2>3, ReplacedType
      <4> QED BY <4>1
    <3>2. pc' = next /\ replaced' = TRUE
      BY <2>3 DEF Replaced
    <3> QED BY <1>0, <1>8, <2>1, <3>1, <3>2 DEF Shape, Equipped, Stage
  <2>4. CASE ReplacingFailed
    <3>1. pc' = "dead" /\ raw' = raw /\ replaced' = replaced /\ fds' \in [Number -> Owner]
      BY <2>4, ReplacingFailedType DEF ReplacingFailed
    <3> QED BY <1>0, <1>8, <2>1, <3>1 DEF Shape, Equipped, Stage
  <2> QED BY <2>1, <2>2, <2>3, <2>4
<1>9. CASE Retransmit
  BY <1>0, <1>8, <1>9 DEF Retransmit, Running
<1>10. CASE FromNetwork
  <2>1. pc = "network" /\ Running /\ UNCHANGED <<gpsdSocket, maxfd, ready, loc, refused, restarted>>
    BY <1>10 DEF FromNetwork, Running
  <2>2. CASE connectToNDNSocket("daemon") /\ UNCHANGED strayed
    BY <1>0, <1>8, <2>1, <2>2
  <2>3. CASE UNCHANGED <<raw, fds, failures, replaced>> /\ pc' \in {"daemon", "dead"} /\ strayed' \in BOOLEAN
    BY <1>0, <2>1, <2>3 DEF Shape, Equipped, Stage
  <2>4. \/ connectToNDNSocket("daemon") /\ UNCHANGED strayed
        \/ UNCHANGED <<raw, fds, failures, replaced>> /\ pc' \in {"daemon", "dead"} /\ strayed' \in BOOLEAN
    BY <1>0, <1>10 DEF FromNetwork, GoUp, Touch
  <2> QED BY <2>2, <2>3, <2>4
<1>11. CASE FromDaemon
  <2>1. pc = "daemon" /\ Running /\ UNCHANGED <<gpsdSocket, maxfd, ready, loc, refused, restarted>>
    BY <1>11 DEF FromDaemon, Running
  <2>2. CASE Send("gps") /\ strayed' \in BOOLEAN
    BY <1>0, <1>8, <2>1, <2>2
  <2>3. CASE UNCHANGED <<raw, fds, failures, replaced>> /\ pc' \in {"gps", "dead"} /\ strayed' \in BOOLEAN
    BY <1>0, <2>1, <2>3 DEF Shape, Equipped, Stage
  <2>4. \/ Send("gps") /\ strayed' \in BOOLEAN
        \/ UNCHANGED <<raw, fds, failures, replaced>> /\ pc' \in {"gps", "dead"} /\ strayed' \in BOOLEAN
    BY <1>0, <1>11 DEF FromDaemon, Touch
  <2> QED BY <2>2, <2>3, <2>4
<1>12. CASE FromGpsd
  <2>1. /\ pc = "gps" /\ Running /\ ready' = {}
        /\ UNCHANGED <<raw, maxfd, failures, replaced, refused, restarted, strayed>>
    BY <1>12 DEF FromGpsd, Running, history
  <2>2. /\ pc' \in {"redial", "select", "crashed"} /\ DOMAIN loc' = {"map", "position", "element"}
        /\ gpsdSocket' \in Number \cup {None} /\ fds' \in [Number -> Owner]
    <3>1. CASE gpsdSocket \notin ready
      BY <1>0, <1>12, <3>1 DEF FromGpsd
    <3>2. CASE fds' = Closed1(fds, gpsdSocket) /\ gpsdSocket' = None /\ pc' = "redial" /\ UNCHANGED loc
      BY <1>0, <3>2, ClosedTable
    <3>3. CASE \E report \in Reports : \E new \in updatePosition(loc, report) :
                  /\ IF new = Crash THEN pc' = "crashed" /\ UNCHANGED loc
                     ELSE pc' = "select" /\ loc' = new
                  /\ UNCHANGED <<fds, gpsdSocket>>
      BY <1>0, <3>3, UpdateShape
    <3> QED BY <1>12, <3>1, <3>2, <3>3 DEF FromGpsd
  <2> QED BY <1>0, <2>1, <2>2 DEF Shape, Equipped, Stage
<1>13. CASE Restart
  <2>1. /\ pc' = "create" /\ raw' = NoSocket /\ gpsdSocket' = None /\ maxfd' = None /\ ready' = {}
        /\ loc' = [loc EXCEPT !.position = NoFix, !.element = Unset]
        /\ replaced' = FALSE /\ refused' = FALSE /\ restarted' = TRUE /\ failures' = failures
        /\ strayed' \in BOOLEAN
        /\ fds' = Closed1(Closed1(Closed1(fds, raw.fd), incomingEventFd), outgoingEventFd)
    BY <1>0, <1>13 DEF Restart
  <2>2. fds' \in [Number -> Owner]
    <3>1. Closed1(fds, raw.fd) \in [Number -> Owner]
      BY <1>0, ClosedTable
    <3>2. Closed1(Closed1(fds, raw.fd), incomingEventFd) \in [Number -> Owner]
      BY <1>1, <3>1, ClosedTable DEF incomingEventFd
    <3> QED BY <1>1, <2>1, <3>2, ClosedTable DEF outgoingEventFd
  <2> QED BY <1>0, <2>1, <2>2 DEF Shape, Equipped, Stage, NoSocket, Running
<1>14. CASE OthersOpen \/ OthersClose
  <2>1. UNCHANGED <<pc, raw, gpsdSocket, maxfd, ready, loc, failures, replaced, refused, restarted, strayed>>
    BY <1>14 DEF OthersOpen, OthersClose, history
  <2>2. fds' \in [Number -> Owner]
    BY <1>0, <1>14, OpenedTable, ClosedTable DEF OthersOpen, OthersClose, Owner
  <2> QED BY <1>0, <2>1, <2>2 DEF Shape, Equipped, Running
<1> QED BY <1>2, <1>3, <1>4, <1>5, <1>6, <1>7, <1>9, <1>10, <1>11, <1>12, <1>13, <1>14 DEF Next, Thread

\* maxfd follows the connections to gpsd until the raw socket is replaced.
LEMMA CoveredStep ==
    ASSUME Shape, Equipped, Covered, Next
    PROVE  Covered'
<1>0. /\ raw.fd \in Int /\ gpsdSocket \in Int /\ maxfd \in Int /\ gpsdSocket >= -1
      /\ gpsdSocket # None => gpsdSocket \in Number
      /\ Running => raw.fd \in Number
      /\ outgoingEventFd = 2 /\ None = -1 /\ Number \subseteq Int /\ \A n \in Number : n >= 0
  BY AdapterAssumption DEF Shape, Equipped, Number, None, outgoingEventFd
<1>1. ASSUME UNCHANGED <<raw, maxfd, gpsdSocket, replaced>>,
             Looping' => Looping /\ pc # "regreet"
      PROVE  Covered'
  BY <1>1 DEF Covered
<1>2. ASSUME ~ Looping'
      PROVE  Covered'
  BY <1>2 DEF Covered
<1>3. CASE Create \/ GreetFirst \/ SelectFails \/ Restart
  BY <1>2, <1>3 DEF Create, GreetFirst, ReadGreeting, SelectFails, Restart, Looping
<1>4. CASE DialFirst
  <2>1. pc' = "start" \/ pc' = "greet"
    BY <1>4, DialDoes DEF DialFirst
  <2> QED BY <1>2, <2>1 DEF Looping
<1>5. CASE Start
  <2> DEFINE max == Greater(raw.fd, outgoingEventFd)
  <2>1. max \in Number /\ raw.fd <= max /\ outgoingEventFd <= max /\ UNCHANGED raw
    <3>1. pc = "start" /\ UNCHANGED raw
      BY <1>5 DEF Start
    <3>2. raw.fd \in Number /\ 2 \in Number
      BY <1>0, <3>1, AdapterAssumption DEF Running, Number
    <3> QED BY <1>0, <3>1, <3>2 DEF Greater
  <2>2. CASE gpsdSocket = None
    <3>1. maxfd' = max /\ gpsdSocket' = None
      BY <1>5, <2>2 DEF Start
    <3>2. max \in Int /\ None <= max
      <4> HIDE DEF max
      <4> QED BY <1>0, <2>1
    <3> HIDE DEF max
    <3> QED BY <2>1, <3>1, <3>2 DEF Covered
  <2>3. CASE gpsdSocket # None
    <3>1. RequestSent(max) /\ gpsdSocket \in Number
      BY <1>0, <1>5, <2>3 DEF Start
    <3>2. /\ maxfd' \in Number /\ max <= maxfd'
          /\ gpsdSocket' = None \/ (gpsdSocket' = gpsdSocket /\ gpsdSocket <= maxfd')
      BY <2>1, <3>1, RequestDoes
    <3> HIDE DEF max
    <3>3. raw.fd <= maxfd' /\ outgoingEventFd <= maxfd' /\ gpsdSocket' <= maxfd'
      BY <1>0, <2>1, <3>2
    <3> QED BY <2>1, <3>3 DEF Covered
  <2> QED BY <2>2, <2>3
<1>6. CASE Redial
  <2>1. /\ pc = "redial" /\ UNCHANGED <<raw, maxfd, replaced>>
        /\ pc' = "regreet" \/ gpsdSocket' = gpsdSocket
    BY <1>6, DialDoes DEF Redial
  <2> QED BY <2>1 DEF Covered, Looping
<1>7. CASE Regreet
  <2>1. /\ pc = "regreet" /\ UNCHANGED <<raw, replaced>>
        /\ \/ RequestSent(maxfd)
           \/ gpsdSocket' = None /\ maxfd' = maxfd
    BY <1>7 DEF Regreet
  <2>2. /\ maxfd' \in Int /\ maxfd <= maxfd'
        /\ gpsdSocket' = None \/ gpsdSocket' <= maxfd'
    BY <1>0, <2>1 DEF RequestSent, Greater
  <2>3. ~replaced => raw.fd <= maxfd' /\ outgoingEventFd <= maxfd'
    BY <1>0, <2>1, <2>2 DEF Covered, Looping
  <2>4. outgoingEventFd <= maxfd' => None <= maxfd'
    BY <1>0, <2>2
  <2> QED BY <2>1, <2>2, <2>3, <2>4 DEF Covered
<1>8. CASE Select
  BY <1>1, <1>8 DEF Select, history, Looping
<1>9. ASSUME NEW next \in {"gps", "daemon"}, Send(next) \/ connectToNDNSocket(next),
             UNCHANGED <<gpsdSocket, maxfd>>, Looping, pc # "regreet"
      PROVE  Covered'
  <2>1. \/ raw' = raw /\ replaced' = replaced
        \/ Replaced(next) \/ ReplacingFailed
    BY <1>9, SendDoes, ConnectDoes
  <2> QED BY <1>1, <1>2, <1>9, <2>1 DEF Replaced, ReplacingFailed, Covered, Looping
<1>10. CASE Retransmit
  BY <1>9, <1>10 DEF Retransmit, Looping
<1>11. CASE FromNetwork
  <2>1. pc = "network" /\ UNCHANGED <<gpsdSocket, maxfd>>
    BY <1>11 DEF FromNetwork
  <2>2. connectToNDNSocket("daemon") \/ UNCHANGED <<raw, replaced>>
    BY <1>11 DEF FromNetwork, GoUp
  <2> QED BY <1>1, <1>9, <2>1, <2>2 DEF Looping
<1>12. CASE FromDaemon
  <2>1. pc = "daemon" /\ UNCHANGED <<gpsdSocket, maxfd>>
    BY <1>12 DEF FromDaemon
  <2>2. Send("gps") \/ UNCHANGED <<raw, replaced>>
    BY <1>12 DEF FromDaemon
  <2> QED BY <1>1, <1>9, <2>1, <2>2 DEF Looping
<1>13. CASE FromGpsd
  <2>1. pc = "gps" /\ UNCHANGED <<raw, maxfd, replaced>>
    BY <1>13 DEF FromGpsd, history
  <2>2. gpsdSocket' = gpsdSocket \/ gpsdSocket' = None
    BY <1>13 DEF FromGpsd
  <2>3. outgoingEventFd <= maxfd => None <= maxfd
    BY <1>0
  <2> QED BY <2>1, <2>2, <2>3 DEF Covered, Looping
<1>14. CASE OthersOpen \/ OthersClose
  <2>1. UNCHANGED <<pc, raw, maxfd, gpsdSocket, replaced>>
    BY <1>14 DEF OthersOpen, OthersClose, history
  <2> QED BY <2>1 DEF Covered, Looping
<1> QED BY <1>3, <1>4, <1>5, <1>6, <1>7, <1>8, <1>10, <1>11, <1>12, <1>13, <1>14 DEF Next, Thread

\* Without gpsd, the loop has been through a failed attempt to connect.
LEMMA ReportedStep ==
    ASSUME Shape, Reported, Next
    PROVE  Reported'
<1> DEFINE After == {"select", "expired", "network", "daemon", "gps"}
<1>0. None \notin ready /\ DOMAIN loc = {"map", "position", "element"}
  BY DEF Shape, Number, None
<1>1. noValidData(loc).position = NoFix
  BY <1>0 DEF noValidData
<1>2. ASSUME pc' \notin After, pc' # "regreet"
      PROVE  Reported'
  BY <1>2 DEF Reported
<1>3. ASSUME UNCHANGED <<gpsdSocket, refused, loc>>, pc' \in After => pc \in After,
             pc' = "regreet" => pc = "regreet"
      PROVE  Reported'
  BY <1>3 DEF Reported
<1>4. CASE Create \/ GreetFirst \/ SelectFails \/ Restart
  BY <1>2, <1>4 DEF Create, GreetFirst, ReadGreeting, SelectFails, Restart
<1>5. CASE DialFirst
  <2>1. pc' = "start" \/ pc' = "greet"
    BY <1>5, DialDoes DEF DialFirst
  <2> QED BY <1>2, <2>1
<1>6. CASE Start
  <2>1. pc' = "redial" \/ gpsdSocket' # None
    BY <1>6 DEF Start
  <2> QED BY <1>2, <2>1 DEF Reported
<1>7. CASE Redial
  <2>1. \/ pc' = "regreet" /\ gpsdSocket' \in Number
        \/ pc' = "select" /\ loc' = noValidData(loc)
    BY <1>7, DialDoes DEF Redial
  <2> QED BY <1>1, <2>1 DEF Reported, Number, None
<1>8. CASE Regreet
  <2>1. /\ pc = "regreet" /\ pc' = "select"
        /\ \/ gpsdSocket' = gpsdSocket
           \/ refused' = TRUE
           \/ loc' = noValidData(loc)
    BY <1>8 DEF Regreet, RequestSent
  <2>2. CASE gpsdSocket' = gpsdSocket
    BY <2>1, <2>2 DEF Reported
  <2> QED BY <1>1, <2>1, <2>2 DEF Reported
<1>9. CASE Select \/ Retransmit \/ FromNetwork \/ FromDaemon \/ OthersOpen \/ OthersClose
  <2>1. UNCHANGED <<gpsdSocket, refused, loc>>
    BY <1>9 DEF Select, Retransmit, FromNetwork, FromDaemon, OthersOpen, OthersClose, history
  <2>2. CASE OthersOpen \/ OthersClose
    BY <1>3, <2>1, <2>2 DEF OthersOpen, OthersClose
  <2>3. CASE Select \/ Retransmit \/ FromNetwork \/ FromDaemon
    <3>1. ASSUME NEW next \in {"gps", "daemon"}, Send(next) \/ connectToNDNSocket(next)
          PROVE  pc' # "regreet"
      BY <3>1 DEF Send, connectToNDNSocket
    <3>2. pc \in After
      BY <2>3 DEF Select, Retransmit, FromNetwork, FromDaemon
    <3>3. pc' # "regreet"
      BY <2>3, <3>1 DEF Select, Retransmit, FromNetwork, GoUp, FromDaemon
    <3> QED BY <1>3, <2>1, <3>2, <3>3
  <2> QED BY <1>9, <2>2, <2>3
<1>10. CASE FromGpsd
  <2>1. pc' # "regreet" /\ (pc' \notin After \/ gpsdSocket' # None)
    BY <1>0, <1>10 DEF FromGpsd
  <2> QED BY <2>1 DEF Reported
<1> QED BY <1>4, <1>5, <1>6, <1>7, <1>8, <1>9, <1>10 DEF Next, Thread

\* The first adapter touches its own descriptors only.
LEMMA OwnStep ==
    ASSUME Shape, Equipped, OwnDescriptors, FirstSocket, Reported, Next
    PROVE  OwnDescriptors' /\ FirstSocket'
<1> DEFINE Raws == {n \in Number : fds[n] = "raw"}
<1>0. /\ fds \in [Number -> Owner] /\ raw.fd \in Number \cup {None}
      /\ gpsdSocket \in Number \cup {None} /\ None \notin Number
      /\ Running => raw.fd \in Number
      /\ 1 \in Number /\ 2 \in Number /\ incomingEventFd = 1 /\ outgoingEventFd = 2
      /\ strayed \in BOOLEAN /\ restarted \in BOOLEAN
  BY AdapterAssumption DEF Shape, Equipped, Number, None, incomingEventFd, outgoingEventFd
<1>1. ~restarted =>
        /\ ~strayed
        /\ fds[1] = "incoming" /\ fds[2] = "outgoing"
        /\ gpsdSocket # None => fds[gpsdSocket] = "gpsd"
        /\ Running => Raws = {raw.fd} /\ raw.device /\ raw.destination
  BY <1>0 DEF OwnDescriptors
<1>2. ASSUME restarted'
      PROVE  OwnDescriptors' /\ FirstSocket'
  BY <1>2 DEF OwnDescriptors, FirstSocket
<1>3. ASSUME /\ ~strayed'
             /\ fds'[1] = "incoming" /\ fds'[2] = "outgoing"
             /\ gpsdSocket' # None => fds'[gpsdSocket'] = "gpsd",
             Running' => {n \in Number : fds'[n] = "raw"} = {raw'.fd}
                         /\ raw'.device /\ raw'.destination
      PROVE  OwnDescriptors'
  BY <1>0, <1>3 DEF OwnDescriptors
\* A step that takes a free number for gpsd or an application, or gives one back.
<1>4. ASSUME \A n \in Number : \/ fds'[n] = fds[n]
                               \/ fds[n] = "free" /\ fds'[n] \in {"gpsd", "other"}
                               \/ fds[n] \in {"gpsd", "other"} /\ fds'[n] = "free",
             ~restarted, ~strayed', raw' = raw, Running' => Running,
             gpsdSocket' # None => fds'[gpsdSocket'] = "gpsd"
      PROVE  OwnDescriptors'
  <2>1. fds'[1] = "incoming" /\ fds'[2] = "outgoing"
    BY <1>0, <1>1, <1>4
  <2>2. {n \in Number : fds'[n] = "raw"} = Raws
    BY <1>4
  <2>3. ASSUME Running'
        PROVE  {n \in Number : fds'[n] = "raw"} = {raw'.fd} /\ raw'.device /\ raw'.destination
    <3> HIDE DEF Raws
    <3> QED BY <1>1, <1>4, <2>2, <2>3
  <2> QED BY <1>3, <1>4, <2>1, <2>3
<1>5. ASSUME ~restarted, fds' = fds, raw' = raw, gpsdSocket' \in {gpsdSocket, None},
             ~strayed', Running' => Running
      PROVE  OwnDescriptors'
  BY <1>1, <1>4, <1>5
<1>6. ASSUME pc' # "create"
      PROVE  FirstSocket'
  BY <1>6 DEF FirstSocket
<1>7. CASE Create /\ ~restarted
  <2>1. /\ pc = "create" /\ restarted' = restarted /\ strayed' = strayed
        /\ gpsdSocket' = None /\ Raws = {} /\ FirstSocket'
    BY <1>6, <1>7 DEF Create, history, FirstSocket
  <2>2. CASE FreeNumbers # {} /\ raw' = ReadySocket(Lowest) /\ fds' = Opened("raw")
    <3>1. /\ Lowest \in Number /\ fds[Lowest] = "free"
          /\ \A n \in Number : fds'[n] = IF n = Lowest THEN "raw" ELSE fds[n]
      BY <1>0, <2>2, OpenedTable DEF Owner
    <3> HIDE DEF Raws
    <3>2. fds'[1] = "incoming" /\ fds'[2] = "outgoing"
      BY <1>0, <1>1, <1>7, <3>1
    <3>3. {n \in Number : fds'[n] = "raw"} = {Lowest}
      BY <2>1, <3>1 DEF Raws
    <3>4. raw'.fd = Lowest /\ raw'.device /\ raw'.destination
      BY <2>2 DEF ReadySocket
    <3> QED BY <1>1, <1>3, <1>7, <2>1, <3>2, <3>3, <3>4
  <2>3. CASE RawSocketFails /\ pc' = "exited"
    <3>1. \A n \in Number : fds'[n] = fds[n] \/ (fds[n] = "free" /\ fds'[n] = "raw")
      BY <1>0, <2>3, RawSocketFailsDoes, OpenedTable DEF Owner
    <3>2. fds'[1] = "incoming" /\ fds'[2] = "outgoing"
      BY <1>0, <1>1, <1>7, <3>1
    <3> QED BY <1>1, <1>3, <1>7, <2>1, <2>3, <3>2 DEF Running
  <2> QED BY <1>7, <2>1, <2>2, <2>3 DEF Create
<1>8. ASSUME DialFirst \/ Redial, ~restarted
      PROVE  OwnDescriptors' /\ FirstSocket'
  <2>1. PICK stage \in {"dial", "redial"}, connected \in {"greet", "regreet"},
             failed \in {"start", "select"},
             located \in {loc, noValidData(loc)} :
             Dial(stage, connected, failed, located)
    BY <1>8 DEF DialFirst, Redial
  <2>2. /\ pc = stage /\ pc' \in {connected, failed}
        /\ UNCHANGED <<raw, restarted, strayed>>
        /\ \A n \in Number : \/ fds'[n] = fds[n]
                             \/ fds[n] = "free" /\ fds'[n] = "gpsd"
        /\ \/ gpsdSocket' = gpsdSocket
           \/ gpsdSocket' \in Number /\ fds'[gpsdSocket'] = "gpsd"
    BY <2>1, DialDoes
  <2>3. gpsdSocket' # None => fds'[gpsdSocket'] = "gpsd"
    BY <1>0, <1>1, <1>8, <2>2
  <2>4. Running
    BY <2>2 DEF Running
  <2> QED BY <1>1, <1>4, <1>6, <1>8, <2>2, <2>3, <2>4
<1>9. ASSUME GreetFirst \/ Start \/ Regreet \/ SelectFails \/ Select \/ FromGpsd, ~restarted
      PROVE  OwnDescriptors' /\ FirstSocket'
  <2>1. UNCHANGED <<raw, restarted, strayed>> /\ pc' # "create" /\ Running
    BY <1>9 DEF GreetFirst, ReadGreeting, Start, Regreet, SelectFails, Select, FromGpsd,
                history, Running
  <2>2. \/ fds' = fds /\ gpsdSocket' \in {gpsdSocket, None}
        \/ gpsdSocket # None /\ fds' = Closed1(fds, gpsdSocket) /\ gpsdSocket' = None
    <3>1. pc = "regreet" => gpsdSocket # None
      BY DEF Reported
    <3>2. gpsdSocket \in ready => gpsdSocket # None
      BY <1>0 DEF Shape
    <3> QED BY <1>9, <3>1, <3>2 DEF GreetFirst, ReadGreeting, Start, Regreet, RequestSent,
                                   SelectFails, Select, FromGpsd, history
  <2>3. CASE fds' = fds /\ gpsdSocket' \in {gpsdSocket, None}
    BY <1>1, <1>5, <1>6, <1>9, <2>1, <2>3
  <2>4. CASE gpsdSocket # None /\ fds' = Closed1(fds, gpsdSocket) /\ gpsdSocket' = None
    <3>1. \A n \in Number : fds'[n] = IF n = gpsdSocket THEN "free" ELSE fds[n]
      BY <1>0, <2>4, ClosedTable
    <3>2. \A n \in Number : \/ fds'[n] = fds[n]
                            \/ fds[n] \in {"gpsd", "other"} /\ fds'[n] = "free"
      BY <1>1, <1>9, <2>4, <3>1
    <3> QED BY <1>1, <1>4, <1>6, <1>9, <2>1, <2>4, <3>2
  <2> QED BY <2>2, <2>3, <2>4
<1>10. ASSUME NEW next \in {"gps", "daemon"}, Send(next) \/ connectToNDNSocket(next),
              Running, UNCHANGED <<gpsdSocket, restarted>>, ~strayed', ~restarted
       PROVE  OwnDescriptors' /\ FirstSocket'
  <2>1. \/ pc' = next /\ raw' = raw /\ fds' = fds
        \/ Replaced(next) \/ ReplacingFailed
    BY <1>10, SendDoes, ConnectDoes
  <2>2. CASE pc' = next /\ raw' = raw /\ fds' = fds
    BY <1>5, <1>6, <1>10, <2>2
  <2>3. CASE Replaced(next)
    <3>1. /\ Lowest \in Number /\ fds[Lowest] = "free"
          /\ raw' = [fd |-> Lowest, device |-> TRUE, destination |-> TRUE]
          /\ \A n \in Number : fds'[n] = IF n = raw.fd THEN "free"
                                         ELSE IF n = Lowest THEN "raw" ELSE fds[n]
      BY <2>3, ReplacedType
    <3>2. Raws = {raw.fd} /\ raw.fd \in Number /\ fds[raw.fd] = "raw"
      BY <1>0, <1>1, <1>10
    <3>3. {n \in Number : fds'[n] = "raw"} = {Lowest}
      BY <3>1, <3>2
    <3>4. fds'[1] = "incoming" /\ fds'[2] = "outgoing"
      BY <1>0, <1>1, <1>10, <3>1, <3>2
    <3>5. gpsdSocket' # None => fds'[gpsdSocket'] = "gpsd"
      BY <1>0, <1>1, <1>10, <3>1, <3>2
    <3>6. pc' # "create"
      BY <1>10, <2>3 DEF Replaced
    <3>7. raw'.fd = Lowest /\ raw'.device /\ raw'.destination
      BY <3>1
    <3> QED BY <1>3, <1>6, <1>10, <3>3, <3>4, <3>5, <3>6, <3>7
  <2>4. CASE ReplacingFailed
    <3>1. /\ \A n \in Number : fds'[n] = fds[n] \/ (fds[n] = "free" /\ fds'[n] = "raw")
          /\ pc' = "dead"
      BY <1>0, <2>4, OpenedTable DEF ReplacingFailed, Owner
    <3>2. fds'[1] = "incoming" /\ fds'[2] = "outgoing"
      BY <1>0, <1>1, <1>10, <3>1
    <3>3. gpsdSocket' # None => fds'[gpsdSocket'] = "gpsd"
      BY <1>0, <1>1, <1>10, <3>1
    <3> QED BY <1>3, <1>6, <1>10, <3>1, <3>2, <3>3 DEF Running
  <2> QED BY <2>1, <2>2, <2>3, <2>4
<1>11. CASE Retransmit /\ ~restarted
  BY <1>1, <1>10, <1>11 DEF Retransmit, Running
<1>12. CASE FromNetwork /\ ~restarted
  <2>1. /\ pc = "network" /\ Running /\ UNCHANGED <<gpsdSocket, restarted>>
        /\ pc' # "create"
    BY <1>12 DEF FromNetwork, GoUp, connectToNDNSocket, Running
  <2>2. ~strayed'
    BY <1>0, <1>1, <1>12 DEF FromNetwork, GoUp, Touch
  <2>3. connectToNDNSocket("daemon") \/ UNCHANGED <<raw, fds>>
    BY <1>12 DEF FromNetwork, GoUp
  <2> QED BY <1>5, <1>6, <1>10, <1>12, <2>1, <2>2, <2>3
<1>13. CASE FromDaemon /\ ~restarted
  <2>1. /\ pc = "daemon" /\ Running /\ UNCHANGED <<gpsdSocket, restarted>>
        /\ pc' # "create"
    BY <1>13 DEF FromDaemon, Send, connectToNDNSocket, Running
  <2>2. ~strayed'
    BY <1>0, <1>1, <1>13 DEF FromDaemon, Touch
  <2>3. Send("gps") \/ UNCHANGED <<raw, fds>>
    BY <1>13 DEF FromDaemon
  <2> QED BY <1>5, <1>6, <1>10, <1>13, <2>1, <2>2, <2>3
<1>14. CASE Restart
  BY <1>2, <1>14 DEF Restart
<1>15. CASE (OthersOpen \/ OthersClose) /\ ~restarted
  <2>1. UNCHANGED <<pc, raw, gpsdSocket, restarted, strayed>>
    BY <1>15 DEF OthersOpen, OthersClose, history
  <2>2. \A n \in Number : \/ fds'[n] = fds[n]
                          \/ fds[n] = "free" /\ fds'[n] = "other"
                          \/ fds[n] = "other" /\ fds'[n] = "free"
    <3>1. CASE OthersOpen
      BY <1>0, <3>1, OpenedTable DEF OthersOpen, Owner
    <3>2. CASE OthersClose
      BY <1>0, <3>2, ClosedTable DEF OthersClose
    <3> QED BY <1>15, <3>1, <3>2
  <2>3. gpsdSocket' # None => fds'[gpsdSocket'] = "gpsd"
    BY <1>0, <1>1, <1>15, <2>1, <2>2
  <2>4. FirstSocket'
    BY <2>1, <2>2 DEF FirstSocket
  <2>5. Running' => Running
    BY <2>1 DEF Running
  <2> QED BY <1>1, <1>4, <1>15, <2>1, <2>2, <2>3, <2>4, <2>5
<1>16. CASE restarted
  <2>1. restarted'
    <3>1. ASSUME Dial("dial", "greet", "start", loc)
                 \/ Dial("redial", "regreet", "select", noValidData(loc))
          PROVE  restarted' = restarted
      BY <3>1 DEF Dial, history
    <3> QED BY <1>16, <3>1 DEF Next, Thread, Create, DialFirst, GreetFirst, ReadGreeting, Start,
               Redial, Regreet, SelectFails, Select, Retransmit, FromNetwork, FromDaemon,
               FromGpsd, Restart, OthersOpen, OthersClose, history
  <2> QED BY <1>2, <2>1
<1> QED BY <1>7, <1>8, <1>9, <1>11, <1>12, <1>13, <1>14, <1>15, <1>16 DEF Next, Thread

-----------------------------------------------------------------------------
(* The theorems. *)

LEMMA AdapterInit == Init => AdapterInv
<1> SUFFICES ASSUME Init
             PROVE  AdapterInv
  OBVIOUS
<1>1. 0 \in Number /\ 1 \in Number /\ 2 \in Number /\ 0 \in 0 .. MaxFailures
  BY AdapterAssumption DEF Number
<1>2. fds = [n \in Number |-> CASE n = 0 -> "std" [] n = 1 -> "incoming"
                                [] n = 2 -> "outgoing" [] OTHER -> "free"]
  BY DEF Init, incomingEventFd, outgoingEventFd
<1>3. fds \in [Number -> Owner] /\ \A n \in Number : fds[n] # "raw"
  BY <1>2 DEF Owner
<1>4. fds[1] = "incoming" /\ fds[2] = "outgoing"
  BY <1>1, <1>2
<1>5. DOMAIN loc = {"map", "position", "element"}
  BY DEF Init, NewLocationService
<1>6. Shape
  BY <1>1, <1>3, <1>5 DEF Init, Shape, Stage, NoSocket
<1>7. Equipped /\ Covered /\ FirstSocket /\ Reported
  BY <1>3 DEF Init, Equipped, Covered, FirstSocket, Reported, Running, Looping
<1>8. OwnDescriptors
  BY <1>4 DEF Init, OwnDescriptors, Running, incomingEventFd, outgoingEventFd
<1> QED BY <1>6, <1>7, <1>8 DEF AdapterInv

LEMMA AdapterStep == AdapterInv /\ [Next]_vars => AdapterInv'
<1>1. CASE Next
  BY <1>1, ShapeStep, CoveredStep, ReportedStep, OwnStep DEF AdapterInv
<1>2. CASE UNCHANGED vars
  BY <1>2 DEF vars, AdapterInv, Shape, Equipped, Covered, FirstSocket, OwnDescriptors,
              Reported, Running, Looping
<1> QED BY <1>1, <1>2

LEMMA AdapterAlways == Spec => []AdapterInv
  BY AdapterInit, AdapterStep, PTL DEF Spec

(***************************************************************************)
(* Until the raw socket is replaced, select sees every descriptor the loop *)
(* depends on, whatever numbers the other threads of the process leave to  *)
(* the connections to gpsd.                                                *)
(***************************************************************************)
THEOREM SelectSeesAll == Spec => []WatchesAll
<1>1. AdapterInv => WatchesAll
  BY DEF AdapterInv, Covered, WatchesAll, Looping, Seen, Watched
<1> QED BY <1>1, AdapterAlways, PTL

(***************************************************************************)
(* The first adapter reads, writes and closes its own descriptors only,    *)
(* however often its raw socket or gpsd fails and whatever the other       *)
(* threads of the process open and close in between.                       *)
(***************************************************************************)
THEOREM FirstAdapterKeepsToItself == Spec => []OwnDescriptors
<1>1. AdapterInv => OwnDescriptors
  BY DEF AdapterInv
<1> QED BY <1>1, AdapterAlways, PTL

(***************************************************************************)
(* Whenever the loop waits without gpsd, the node claims no position.      *)
(***************************************************************************)
THEOREM NoStalePosition == Spec => []PositionIsReported
<1>1. AdapterInv => PositionIsReported
  BY DEF AdapterInv, Reported, PositionIsReported
<1> QED BY <1>1, AdapterAlways, PTL

-----------------------------------------------------------------------------
(***************************************************************************)
(* The position and the element of the map: the map is the one that was    *)
(* loaded, a position is on the globe or none, and the element is what the *)
(* search has found for it.                                                *)
(***************************************************************************)
Located ==
    /\ GoodMap(loc.map)
    /\ loc.position \in Coordinate \/ loc.position = NoFix
    /\ loc.element.kind \in {"unset", "junction", "link"}
    /\ CoordinateInRange(loc.position) =>
          loc.element \in findLocationInMap(loc.map, loc.position) \ {Null, Crash}

LEMMA NoFixIsNoCoordinate ==
    /\ ~CoordinateInRange(NoFix)
    /\ \A c \in Coordinate : CoordinateInRange(c)
    /\ [lat |-> 0, lon |-> 0] \in Coordinate
  BY GridAssumption DEF NoFix, Coordinate, CoordinateInRange, LatitudeInRange, LongitudeInRange

\* What a step does to the location service: nothing, a position is given up
\* with or without its element, or gpsd reports.
LEMMA LocationChanges ==
    ASSUME Next
    PROVE  \/ loc' = loc \/ loc' = noValidData(loc)
           \/ loc' = [loc EXCEPT !.position = NoFix, !.element = Unset]
           \/ \E report \in Reports : loc' \in updatePosition(loc, report) \ {Crash}
<1>1. CASE Create \/ Start \/ SelectFails \/ Select \/ Retransmit \/ FromNetwork \/ FromDaemon
  BY <1>1 DEF Create, Start, SelectFails, Select, Retransmit, FromNetwork, FromDaemon
<1>2. CASE DialFirst \/ Redial
  BY <1>2 DEF DialFirst, Redial, Dial
<1>3. CASE GreetFirst \/ Regreet
  BY <1>3 DEF GreetFirst, ReadGreeting, Regreet
<1>4. CASE FromGpsd
  BY <1>4 DEF FromGpsd
<1>5. CASE Restart
  BY <1>5 DEF Restart
<1>6. CASE OthersOpen \/ OthersClose
  BY <1>6 DEF OthersOpen, OthersClose
<1> QED BY <1>1, <1>2, <1>3, <1>4, <1>5, <1>6 DEF Next, Thread

\* A fix puts the node where the search finds it, one without a coordinate
\* where it finds the origin.
LEMMA FixLocates ==
    ASSUME DOMAIN loc = {"map", "position", "element"}, Located,
           NEW report \in Reports, report.kind = "fix",
           NEW new \in updatePosition(loc, report), new # Crash
    PROVE  /\ GoodMap(new.map)
           /\ new.position \in Coordinate \/ new.position = NoFix
           /\ new.element.kind \in {"unset", "junction", "link"}
           /\ CoordinateInRange(new.position) =>
                 new.element \in findLocationInMap(new.map, new.position) \ {Null, Crash}
<1> DEFINE c == getCoordinate(report.at)
           moved == [loc EXCEPT !.position = report.at]
<1>1. report.at \in Coordinate \/ report.at = NoFix
  BY ReportAssumption DEF Coordinate
<1>2. c \in Coordinate /\ (CoordinateInRange(report.at) => c = report.at)
  BY <1>1, NoFixIsNoCoordinate DEF getCoordinate
<1>3. new \in updateMapInfo(moved)
  BY DEF updatePosition
<1>4. moved.map = loc.map /\ moved.position = report.at
      /\ DOMAIN moved = {"map", "position", "element"}
  OBVIOUS
<1>5. PICK el \in findLocationInMap(loc.map, c) :
          new = IF el \in {Null, Crash} THEN Crash ELSE [moved EXCEPT !.element = el]
  <2> HIDE DEF moved
  <2> QED BY <1>3, <1>4 DEF updateMapInfo
<1>6. el \notin {Null, Crash} /\ new = [moved EXCEPT !.element = el]
  BY <1>5
<1>7. new.map = loc.map /\ new.position = report.at /\ new.element = el
  <2> HIDE DEF moved
  <2> QED BY <1>4, <1>6
<1>8. GoodMap(loc.map)
  BY DEF Located
<1>9. el.kind \in {"junction", "link"}
  <2> HIDE DEF c
  <2> QED BY <1>2, <1>6, <1>8, ElementFound
<1> HIDE DEF c
<1> QED BY <1>1, <1>2, <1>6, <1>7, <1>8, <1>9

LEMMA LocatedStep ==
    ASSUME Shape, Located, Next
    PROVE  Located'
<1>1. /\ DOMAIN loc = {"map", "position", "element"} /\ GoodMap(loc.map)
      /\ loc.element.kind \in {"unset", "junction", "link"}
  BY DEF Shape, Located
<1>2. CASE loc' = loc
  BY <1>2 DEF Located
<1>3. CASE loc' = noValidData(loc)
  <2>1. loc'.map = loc.map /\ loc'.position = NoFix /\ loc'.element = loc.element
    BY <1>1, <1>3 DEF noValidData
  <2> QED BY <1>1, <2>1, NoFixIsNoCoordinate DEF Located
<1>4. CASE loc' = [loc EXCEPT !.position = NoFix, !.element = Unset]
  <2>1. loc'.map = loc.map /\ loc'.position = NoFix /\ loc'.element.kind = "unset"
    BY <1>1, <1>4 DEF Unset
  <2> QED BY <1>1, <2>1, NoFixIsNoCoordinate DEF Located
<1>5. ASSUME NEW report \in Reports, loc' \in updatePosition(loc, report) \ {Crash}
      PROVE  Located'
  <2>1. CASE report.kind = "fix"
    BY <1>1, <1>5, <2>1, FixLocates DEF Located
  <2>2. CASE report.kind # "fix"
    <3>1. report.kind \in {"other", "cut"}
      BY <2>2, ReportAssumption
    <3>2. loc' = loc
      BY <1>5, <3>1 DEF updatePosition
    <3> QED BY <1>2, <3>2
  <2> QED BY <2>1, <2>2
<1> QED BY <1>2, <1>3, <1>4, <1>5, LocationChanges

LEMMA LocatedAlways == Spec => [](AdapterInv /\ Located)
<1>1. Init => Located
  <2> SUFFICES ASSUME Init
               PROVE  Located
    OBVIOUS
  <2>1. PICK files \in MapFiles : loc = NewLocationService(files)
    BY DEF Init
  <2>2. loc.map = LoadMap(files) /\ loc.position = NoFix /\ loc.element.kind = "unset"
    BY <2>1 DEF NewLocationService, Unset
  <2>3. GoodMap(LoadMap(files))
    BY MapAssumption, MapLoaded DEF NodeLine
  <2> QED BY <2>2, <2>3, NoFixIsNoCoordinate DEF Located
<1>2. AdapterInv /\ Located /\ [Next]_vars => Located'
  <2>1. CASE UNCHANGED vars
    BY <2>1 DEF vars, Located
  <2>2. AdapterInv => Shape
    BY DEF AdapterInv
  <2> QED BY <2>1, <2>2, LocatedStep
<1> QED BY <1>1, <1>2, AdapterInit, AdapterStep, PTL DEF Spec

(***************************************************************************)
(* Every variable keeps its type; the element of the map a node is on is a *)
(* junction or a link, never what a failed search leaves.                  *)
(***************************************************************************)
THEOREM AdapterTypeCorrect == Spec => []TypeOK
<1>1. AdapterInv /\ Located => TypeOK
  BY NoFixIsNoCoordinate DEF AdapterInv, Shape, Located, TypeOK
<1> QED BY <1>1, LocatedAlways, PTL

(***************************************************************************)
(* The map a node has loaded is a graph, whatever the lines of the two     *)
(* files and however many: each junction lists the links that end at it,   *)
(* once, and no other, and the list sorted by latitude holds them all.     *)
(***************************************************************************)
THEOREM MapAlwaysClosed == Spec => []MapClosed
<1>1. Located => MapClosed
  BY GoodMapClosed DEF Located, MapClosed
<1> QED BY <1>1, LocatedAlways, PTL

(***************************************************************************)
(* On every map, at every position, the bounded search puts the node on    *)
(* the nearest junction or the nearest street, by the exact distance to    *)
(* the segment and with the exclusions RightPlace names.                   *)
(***************************************************************************)
THEOREM AlwaysRightPlace == Spec => []RightPlace
<1>1. Located => RightPlace
  <2> SUFFICES ASSUME Located, pc = "select", CoordinateInRange(loc.position),
                      Searchable(loc.map, loc.position)
               PROVE  RightElement(loc.map, loc.position, loc.element)
    BY DEF RightPlace, Searchable
  <2>1. loc.position \in Coordinate
    BY NoFixIsNoCoordinate DEF Located
  <2> QED BY <2>1, RightElementFound DEF Located
<1> QED BY <1>1, LocatedAlways, PTL
=============================================================================
