-------------------------- MODULE MCDeviceAdapter --------------------------
(* A small town and the places around it, for TLC. *)
EXTENDS DeviceAdapter

At(lat, lon) == [lat |-> lat, lon |-> lon]
Node(id, lat, lon) == [id |-> id, lat |-> lat, lon |-> lon]
Edge(from, to) == [from |-> from, to |-> to]

\* A junction's hash: no two pairs of junctions of these maps collide.
MCKeyHash == [c \in {At(lat, lon) : lat \in -8 .. 8, lon \in -16 .. 16} |->
                 (31 * (c.lat + 8) + 7 * (c.lon + 16)) % 512]

\* A corner, a street apart from it that points between its two roads, a node
\* on the equator, a street in both directions, and one whose end is unknown.
Town == [found |-> TRUE,
         nodes |-> <<Node("a", 2, 3), Node("b", 6, 3), Node("c", 6, 6), Node("", 4, 4),
                     Node("d", 1, 5), Node("e", 0, 3), Node("f", 2, 5)>>,
         edges |-> <<Edge("a", "b"), Edge("b", "c"), Edge("b", "a"), Edge("c", "x"),
                     Edge("d", "f"), Edge("a", "e")>>]

NoFile == [found |-> FALSE, nodes |-> << >>, edges |-> << >>]

MCMapFiles == {Town, NoFile}

\* At a junction, near a road, between three streets, north of the town, out
\* of range.
MCReports == {OtherReport, CutReport, Fix(NoFix)} \cup
    {Fix(c) : c \in {At(2, 3), At(4, 2), At(3, 5), At(4, 6), At(7, 3)}}
=============================================================================
