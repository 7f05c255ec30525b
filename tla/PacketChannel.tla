---------------------------- MODULE PacketChannel ----------------------------
(***************************************************************************)
(* What the shared memory between ndnd and its device thread promises: two *)
(* bounded first-in first-out channels, one for each direction.  A packet  *)
(* may be refused, and when the device thread dies some of the last ones   *)
(* may be lost; none is delivered twice, damaged or out of order.  Packets *)
(* are numbered in the order they are offered.                             *)
(***************************************************************************)
EXTENDS Integers, Sequences

CONSTANTS Direction, Capacity, MaxPackets

VARIABLES
    queue,     \* packets on their way
    delivered  \* the last packet delivered, 0 before the first

vars == <<queue, delivered>>

Newest(d) == IF queue[d] = << >> THEN delivered[d] ELSE queue[d][Len(queue[d])]

Init ==
    /\ queue = [d \in Direction |-> << >>]
    /\ delivered = [d \in Direction |-> 0]

Accept(d) ==
    /\ Len(queue[d]) < Capacity
    /\ \E x \in Newest(d) + 1 .. MaxPackets :
          queue' = [queue EXCEPT ![d] = Append(@, x)]
    /\ UNCHANGED delivered

Deliver(d) ==
    /\ queue[d] # << >>
    /\ delivered' = [delivered EXCEPT ![d] = Head(queue[d])]
    /\ queue' = [queue EXCEPT ![d] = Tail(@)]

Lose ==
    /\ \E kept \in [Direction -> 0..Capacity] :
          /\ \A d \in Direction : kept[d] <= Len(queue[d])
          /\ queue' = [d \in Direction |-> SubSeq(queue[d], 1, kept[d])]
    /\ UNCHANGED delivered

Next == Lose \/ \E d \in Direction : Accept(d) \/ Deliver(d)

Spec == Init /\ [][Next]_vars
=============================================================================
