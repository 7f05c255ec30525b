------------------------------ MODULE RoadMap ------------------------------
(***************************************************************************)
(* The road map of utils/geo: coordinates and their distances, junctions,  *)
(* links, the loading of the two map files and the searches of the         *)
(* junction and of the link closest to a point.                            *)
(*                                                                         *)
(* Latitudes and longitudes are integers (cells of a grid); the ellipsoid  *)
(* is flat inside a UTM zone.  The identity of a junction is its           *)
(* coordinate (the code prints it to a string), that of a link the         *)
(* exclusive or of two hashes, as in the code.                             *)
(***************************************************************************)
EXTENDS Integers, Sequences, FiniteSets, SequencesExt, Subsequences

CONSTANTS
    MaxLatitude,        \* 90 degrees, in cells
    MaxLongitude,       \* 180 degrees, in cells
    ZoneWidth,          \* 6 degrees, in cells
    FalseNorthing,      \* what UTM adds south of the equator
    ResearchBox,        \* 0.001 degrees, in cells
    IntersectionSize,   \* SIZEOFINTERSECTION, in cells
    KeyHash             \* boost::hash of the printed identity of a junction

ASSUME GridAssumption ==
    /\ MaxLatitude \in Nat /\ MaxLongitude \in Nat \ {0}
    /\ ZoneWidth \in Nat \ {0} /\ FalseNorthing \in Int
    /\ IntersectionSize \in Nat /\ ResearchBox \in Nat /\ IntersectionSize <= ResearchBox

\* No element of the map: a NULL pointer.
Null == [kind |-> "null"]
\* What dereferencing the end of a list can also do.
Crash == [kind |-> "crash"]
\* A pointer that nothing has initialised.
Unset == [kind |-> "unset"]

-----------------------------------------------------------------------------
(* Coordinates *)

LatitudeInRange(lat) == -MaxLatitude <= lat /\ lat <= MaxLatitude
LongitudeInRange(lon) == -MaxLongitude <= lon /\ lon <= MaxLongitude
\* The constructor throws when this is false.
CoordinateInRange(c) == LatitudeInRange(c.lat) /\ LongitudeInRange(c.lon)

Bit(n, i) == (n \div 2^i) % 2

\* The exclusive or of two hash codes of HashBits bits.
HashBits == 0 .. 9
Xor(a, b) ==
    FoldLeft(LAMBDA sum, i : sum + 2^i * ((Bit(a, i) + Bit(b, i)) % 2),
             0, [k \in 1 .. Cardinality(HashBits) |-> k - 1])

\* Two coordinates have the same hash code far more often than they are equal.
CoordinateHash(c) == Xor(c.lat + MaxLatitude, c.lon + MaxLongitude)

\* Longitude 180 is longitude -180: zones start there.
WrappedLongitude(lon) == (lon + MaxLongitude) % (2 * MaxLongitude)
ZoneNumber(c) == WrappedLongitude(c.lon) \div ZoneWidth + 1

LLtoUTM(c) ==
    [zone     |-> ZoneNumber(c),
     easting  |-> WrappedLongitude(c.lon) - (ZoneNumber(c) - 1) * ZoneWidth,
     northing |-> IF c.lat < 0 THEN c.lat + FalseNorthing ELSE c.lat]

(* Squared distances; a distance to a line is a fraction <<num, den>>. *)

Squared(n) == n * n

haversineFormula(a, b) == Squared(a.lat - b.lat) + Squared(a.lon - b.lon)
twoPointsDistance(a, b) == haversineFormula(a, b)

Fraction(n) == <<n, 1>>
Less(p, q) == p[1] * q[2] < q[1] * p[2]

distance(a, b) == Squared(a.easting - b.easting) + Squared(a.northing - b.northing)

\* AB . BC
dot(a, b, c) ==
    (b.easting - a.easting) * (c.easting - b.easting)
        + (b.northing - a.northing) * (c.northing - b.northing)

\* AB x AC
cross(a, b, c) ==
    (b.easting - a.easting) * (c.northing - a.northing)
        - (b.northing - a.northing) * (c.easting - a.easting)

\* Mutant: the distance to the line, not to the segment.
lineDist(a, b, c) == <<Squared(cross(a, b, c)), distance(a, b)>>

linePointDist(a, b, c) ==
    IF dot(a, b, c) > 0 THEN Fraction(distance(b, c))
    ELSE IF dot(b, a, c) > 0 THEN Fraction(distance(a, c))
    ELSE <<Squared(cross(a, b, c)), distance(a, b)>>

\* The zones of the three points are not compared.
pointToSegmentDistUTM(c, start, end) ==
    IF start = end THEN Fraction(0)
    ELSE linePointDist(LLtoUTM(start), LLtoUTM(end), LLtoUTM(c))

-----------------------------------------------------------------------------
(* Elements of the map *)

Junction(c) == [kind |-> "junction", at |-> c]
Link(id) == [kind |-> "link", id |-> id]

\* The same for a street and for the street in the other direction.
LinkId(a, b) == Xor(KeyHash[a], KeyHash[b])

NoMap == [nodes |-> << >>, links |-> << >>, lookupNode |-> << >>,
          minLat |-> {}, maxLat |-> {}, minLon |-> {}, maxLon |-> {}]

-----------------------------------------------------------------------------
(* Loading the map *)

\* A record that is half zero (a node on the equator) is taken for a bad line.
NodeRead(n) == n.id # "" /\ n.lat # 0 /\ n.lon # 0

\* A bound is a set, empty until it is set.
LowerBoundOf(min, x) == IF \A m \in min : x < m THEN {x} ELSE min

\* A value that becomes the minimum is not considered for the maximum.
UpperBoundOf(min, max, x) ==
    IF \A m \in min : x < m THEN max
    ELSE IF \A m \in max : m < x THEN {x} ELSE max

\* state: the map and the identities of the file that are known
AddNode(state, n) ==
    LET m == state.map
        c == [lat |-> n.lat, lon |-> n.lon]
    IN IF ~NodeRead(n) THEN state
       ELSE [map |-> [m EXCEPT
                !.nodes = IF c \in DOMAIN @ THEN @
                          ELSE [k \in DOMAIN @ \cup {c} |-> IF k = c THEN << >> ELSE @[k]],
                !.minLat = LowerBoundOf(@, n.lat),
                !.maxLat = UpperBoundOf(m.minLat, @, n.lat),
                !.minLon = LowerBoundOf(@, n.lon),
                !.maxLon = UpperBoundOf(m.minLon, @, n.lon)],
             ids |-> IF n.id \in DOMAIN state.ids THEN state.ids
                     ELSE [k \in DOMAIN state.ids \cup {n.id} |->
                              IF k = n.id THEN c ELSE state.ids[k]]]

addLinkId(list, id) == IF id \in ToSet(list) THEN list ELSE Append(list, id)

\* Mutant: only the start of a street lists it.
AddEdgeAtStart(state, e) ==
    IF ~({e.from, e.to} \subseteq DOMAIN state.ids) THEN state
    ELSE LET a == state.ids[e.from]
             b == state.ids[e.to]
         IN [state EXCEPT
               !.map.links = [k \in DOMAIN @ \cup {LinkId(a, b)} |->
                                 IF k = LinkId(a, b) THEN <<a, b>> ELSE @[k]],
               !.map.nodes[a] = addLinkId(@, LinkId(a, b))]

AddEdge(state, e) ==
    IF ~({e.from, e.to} \subseteq DOMAIN state.ids) THEN state
    ELSE LET a == state.ids[e.from]
             b == state.ids[e.to]
             id == LinkId(a, b)
         IN IF id \in DOMAIN state.map.links THEN state
            ELSE [state EXCEPT
                    !.map.links = [k \in DOMAIN @ \cup {id} |-> IF k = id THEN <<a, b>> ELSE @[k]],
                    !.map.nodes = [k \in DOMAIN @ |->
                        IF k \in {a, b} THEN addLinkId(@[k], id) ELSE @[k]]]

\* The loop tests for the end of the file after reading past it: the last
\* record is processed twice.
Records(file) == IF file = << >> THEN << >> ELSE Append(file, Last(file))

\* Junction::operator< compares latitudes; among equals the list keeps the
\* order of the table, which is that of the identities.
ByLatitude(a, b) == a.lat < b.lat \/ (a.lat = b.lat /\ a.lon < b.lon)

\* Each junction comes after as many as there are south of it.
Sorted(junctions) ==
    [i \in 1 .. Cardinality(junctions) |->
        CHOOSE j \in junctions : Cardinality({k \in junctions : ByLatitude(k, j)}) = i - 1]

\* The loops over the lines of the two files.
NodesAdded(records) ==
    LET added[n \in 0 .. Len(records)] ==
            IF n = 0 THEN [map |-> NoMap, ids |-> << >>] ELSE AddNode(added[n - 1], records[n])
    IN added[Len(records)]

EdgesAdded(nodes, records) ==
    LET added[n \in 0 .. Len(records)] ==
            IF n = 0 THEN nodes ELSE AddEdge(added[n - 1], records[n])
    IN added[Len(records)]

\* "Failed to open nodes file, returning without a map"
LoadMap(files) ==
    IF ~files.found THEN NoMap
    ELSE LET map == EdgesAdded(NodesAdded(Records(files.nodes)), Records(files.edges)).map
         IN [map EXCEPT !.lookupNode = Sorted(DOMAIN map.nodes)]

-----------------------------------------------------------------------------
(* Searching the map *)

ElementDistance(map, el, c) ==
    IF el.kind = "junction" THEN Fraction(twoPointsDistance(c, el.at))
    ELSE pointToSegmentDistUTM(c, map.links[el.id][1], map.links[el.id][2])

\* The position of the first junction that is not south of c, past the end if none.
lowerBound(map, c) ==
    Cardinality({i \in DOMAIN map.lookupNode : map.lookupNode[i].lat < c.lat}) + 1

\* The junctions a search looks at, in its order: north from the bound, then
\* south from it.  The first of the list ends the second loop unseen.
North(map, c) ==
    Kept(map.lookupNode, {i \in lowerBound(map, c) .. Len(map.lookupNode) :
                             map.lookupNode[i].lat <= c.lat + ResearchBox})
South(map, c) ==
    Kept(map.lookupNode, {i \in 2 .. Len(map.lookupNode) :
                             i <= lowerBound(map, c) /\ map.lookupNode[i].lat >= c.lat - ResearchBox})
Examined(map, c) == North(map, c) \o Reverse(South(map, c))

\* Of the elements, the first at the least distance from c.
FirstClosest(map, c, elements) ==
    LET closest[n \in 0 .. Len(elements)] ==
            IF n = 0 THEN Null
            ELSE LET best == closest[n - 1]
                 IN IF best # Null
                          /\ ~Less(ElementDistance(map, elements[n], c), ElementDistance(map, best, c))
                    THEN best ELSE elements[n]
    IN closest[Len(elements)]

\* Every function here returns the set of its outcomes: a search that starts
\* past the end of the list reads memory that is no junction.
findClosestJunction(map, c) ==
    LET lb == lowerBound(map, c)
        junctions == [i \in DOMAIN Examined(map, c) |-> Junction(Examined(map, c)[i])]
    IN IF lb > Len(map.lookupNode) THEN {Null, Crash} \cup {Junction(j) : j \in DOMAIN map.nodes}
       ELSE IF CoordinateHash(map.lookupNode[lb]) = CoordinateHash(c)
            THEN {Junction(map.lookupNode[lb])}
       ELSE {FirstClosest(map, c, junctions)}

LinksOf(map, j) == [i \in DOMAIN map.nodes[j] |-> Link(map.nodes[j][i])]

findClosestLink(map, c) ==
    LET junctions == Examined(map, c)
        links == FlattenSeq([i \in DOMAIN junctions |-> LinksOf(map, junctions[i])])
    IN IF lowerBound(map, c) > Len(map.lookupNode) /\ map.lookupNode # << >>
       THEN {Null, Crash} \cup {Link(id) : id \in DOMAIN map.links}
       ELSE {FirstClosest(map, c, links)}
=============================================================================
