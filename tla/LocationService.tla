-------------------------- MODULE LocationService --------------------------
(***************************************************************************)
(* geo::LocationService: the node's last position and the element of the   *)
(* map it is on.  An instance is a record; an operation returns the set of *)
(* its outcomes, Crash among them where the code dereferences a pointer    *)
(* that may be NULL or memory that is no object.                           *)
(***************************************************************************)
EXTENDS RoadMap

\* What noValidData stores: DEFAULT_COORDINATE_DOUBLE in every field.
NoFix == [lat |-> MaxLatitude + 1, lon |-> MaxLongitude + 1]

\* Out of range coordinates are caught, and (0, 0) is returned for them.
getCoordinate(position) ==
    IF CoordinateInRange(position) THEN position ELSE [lat |-> 0, lon |-> 0]

NewLocationService(files) ==
    [map |-> LoadMap(files), position |-> NoFix, element |-> Unset]

\* Mutant: the longitude stays.
noValidLatitude(loc) == [loc EXCEPT !.position.lat = MaxLatitude + 1]

noValidData(loc) == [loc EXCEPT !.position = NoFix]

findLocationInMap(map, c) ==
    UNION { IF j = Crash THEN {Crash}
            ELSE IF j # Null /\ twoPointsDistance(c, j.at) < Squared(IntersectionSize) THEN {j}
            ELSE findClosestLink(map, c) : j \in findClosestJunction(map, c) }

\* updateMapInfo(el) leaves the old element for a NULL one, but its caller
\* asks for the neighbours of the element in any case.
updateMapInfo(loc) ==
    { IF el \in {Null, Crash} THEN Crash ELSE [loc EXCEPT !.element = el] :
        el \in findLocationInMap(loc.map, getCoordinate(loc.position)) }

\* A report of gpsd: of a class other than TPV, without time, latitude or
\* longitude, cut before the comma that ends a field, or a fix.
Fix(c) == [kind |-> "fix", at |-> c]
OtherReport == [kind |-> "other"]
CutReport == [kind |-> "cut"]

\* parseData and updatePosition: a field without its comma is copied with a
\* length that is a difference of a null pointer.
updatePosition(loc, report) ==
    CASE report.kind = "other" -> {loc}
      [] report.kind = "cut" -> {Crash}
      [] report.kind = "fix" -> updateMapInfo([loc EXCEPT !.position = report.at])

-----------------------------------------------------------------------------
(* What the map and the position should be *)

\* The square of the distance from c to the segment ab.
TrueDistance(c, a, b) ==
    LET along == (c.lat - a.lat) * (b.lat - a.lat) + (c.lon - a.lon) * (b.lon - a.lon)
        len == twoPointsDistance(a, b)
    IN IF along <= 0 THEN Fraction(twoPointsDistance(a, c))
       ELSE IF along >= len THEN Fraction(twoPointsDistance(b, c))
       ELSE <<twoPointsDistance(a, c) * len - Squared(along), len>>

\* UTM coordinates of the points can be compared, and no point is on the
\* longitude of 180 degrees, which is also that of -180.
OneZone(S) ==
    /\ \A p \in S : p.lon < MaxLongitude
    /\ \A p, q \in S : ZoneNumber(p) = ZoneNumber(q)
    /\ \A p, q \in S : p.lat >= 0 <=> q.lat >= 0

NoCollision(c, S) == \A p \in S : CoordinateHash(p) = CoordinateHash(c) => p = c

\* No street begins where it ends: every point would be at distance 0 from it.
NoLoop(map) == \A id \in DOMAIN map.links : map.links[id][1] # map.links[id][2]

\* The junctions a search can find: the southernmost is found from the south only.
Visible(map, c) ==
    {j \in DOMAIN map.nodes : j = Head(map.lookupNode) => c.lat <= j.lat}

InBand(j, c) == c.lat - ResearchBox <= j.lat /\ j.lat <= c.lat + ResearchBox

RightElement(map, c, el) ==
    IF el.kind = "junction"
    THEN /\ twoPointsDistance(c, el.at) < Squared(IntersectionSize)
         /\ \A j \in Visible(map, c) : twoPointsDistance(c, j) >= twoPointsDistance(c, el.at)
    ELSE LET Dist(id) == TrueDistance(c, map.links[id][1], map.links[id][2])
         IN /\ \A j \in Visible(map, c) : twoPointsDistance(c, j) >= Squared(IntersectionSize)
            /\ \A j \in Visible(map, c) : InBand(j, c) =>
                   \A id \in ToSet(map.nodes[j]) : ~Less(Dist(id), Dist(el.id))

\* Each junction lists the links that end at it, once, and no other.
Closed(map) ==
    /\ \A j \in DOMAIN map.nodes :
          /\ ToSet(map.nodes[j]) = {id \in DOMAIN map.links : j \in ToSet(map.links[id])}
          /\ \A i, k \in DOMAIN map.nodes[j] : map.nodes[j][i] = map.nodes[j][k] => i = k
    /\ \A id \in DOMAIN map.links : ToSet(map.links[id]) \subseteq DOMAIN map.nodes
    /\ ToSet(map.lookupNode) = DOMAIN map.nodes
=============================================================================
