----------------------------- MODULE LLNomPolicy -----------------------------
(***************************************************************************)
(* The link-layer policy of an adhoc device (LLNomPolicy) with its table   *)
(* of pending packets (PacketStorage) and its acknowledgement manager      *)
(* (LALAckManagerByDistance), driven by the select loop of the device      *)
(* adapter.  A packet of the daemon is broadcast up to Limit times, until  *)
(* a copy is overheard from farther along its way, or a content comes that *)
(* an Interest asked for.                                                  *)
(*                                                                         *)
(* Positions are points of a road.  Time is the order of the deadlines:    *)
(* storage is the timer index.  A first transmission is due a few          *)
(* milliseconds after the packet came, anywhere among the others; the next *)
(* one half a second after the last, behind all others.  A node without a  *)
(* GPS fix takes itself to be at Origin and says NoFix in its headers.     *)
(***************************************************************************)
EXTENDS NDNNames, Subsequences, Integers, FiniteSets

CONSTANTS
    Component,    \* what names are made of
    Name,         \* names of Interests and contents
    Nonce,
    NoNonce,      \* what contents have instead
    Place,        \* points of the road
    Origin,       \* the point Coordinate (0, 0)
    NoFix,        \* DEFAULT_COORDINATE: no GPS data
    NoMetadata,   \* the packet does not come from this device
    Limit,        \* maxRetransmissionNumber
    MaxPackets    \* bound: packets offered and overheard, and moves

ASSUME NameAssumption == Name \subseteq Seq(Component) /\ IsFiniteSet(Name)
ASSUME PlaceAssumption ==
    /\ Place \subseteq Int /\ Origin \in Int
    /\ NoFix \notin Int /\ NoMetadata \notin Place \cup {NoFix}
ASSUME BoundAssumption == Limit \in Nat \ {0} /\ MaxPackets \in Nat
ASSUME NonceAssumption == NoNonce \notin Nonce

VARIABLES
    up,       \* the process is alive
    freed,    \* history: a freed element has been read
    storage,  \* the pending packets, the next deadline first
    place,    \* where the GPS says this node is
    event,    \* history: the last packet handled, and how
    known,    \* history: packets the daemon has offered
    air,      \* history: transmissions of a packet since it was stored
    packets   \* packets and moves so far

vars == <<up, freed, storage, place, event, known, air, packets>>

Kind == {"interest", "content"}

NDNPacket == [kind : {"interest"}, name : Name, nonce : Nonce] \cup
             [kind : {"content"}, name : Name, nonce : {NoNonce}]

(* tries is the number of the transmission to come, previous the position  *)
(* of the previous hop, or this node's when the packet is its own.         *)
Element == [packet : NDNPacket, tries : 1..Limit, previous : Place \cup {Origin}]

Stored == {storage[i] : i \in 1..Len(storage)}

NoEvent == [op |-> "none"]

Init ==
    /\ up = TRUE
    /\ freed = FALSE
    /\ storage = << >>
    /\ place = NoFix
    /\ event = NoEvent
    /\ known = {}
    /\ air = [p \in NDNPacket |-> 0]
    /\ packets = 0

-----------------------------------------------------------------------------
(* Positions and acknowledgements. *)

Here == IF place = NoFix THEN Origin ELSE place

Distance(x, y) == IF x <= y THEN y - x ELSE x - y

(* Mutant: that the previous hop had no fix is not noticed. *)
PreviousHopAsSent(meta) == IF meta = NoMetadata THEN Here ELSE meta

(* A forwarded packet has a previous hop, unless that one had no fix. *)
PreviousHop(meta) == IF meta \in Place THEN meta ELSE Here

(* Mutant: every copy is an acknowledgement. *)
AnyCopy(e, from) == TRUE

(* receivedRetransmission: the copy comes from farther than this node. *)
IsAck(e, from) ==
    from # NoFix /\ Distance(e.previous, from) > Distance(e.previous, Here)

-----------------------------------------------------------------------------
(* PacketStorage. *)

Without(s, gone) == Kept(s, {i \in 1..Len(s) : s[i] \notin gone})

(* Packets of either kind conflict: the index of prefixes is unique too. *)
Conflict(s, p) == \E i \in 1..Len(s) : s[i].packet.name = p.name

(* searchByPrefixMatch: what is stored under the prefixes of n, contents   *)
(* included.  Mutant: only what is stored under n itself.                  *)
MatchingExactly(s, n) == {s[i] : i \in {j \in 1..Len(s) : s[j].packet.name = n}}

Matching(s, n) == {s[i] : i \in {j \in 1..Len(s) : PrefixOf(s[j].packet.name, n)}}

(* They come with the longest prefix first. *)
FirstOf(M) == {e \in M : \A d \in M : Len(d.packet.name) <= Len(e.packet.name)}

InsertedAt(s, i, e) == SubSeq(s, 1, i) \o <<e>> \o SubSeq(s, i + 1, Len(s))

(* Mutant: the nonce of an Interest is not compared. *)
PendingAnyNonce(p) ==
    {e \in Stored : e.packet.kind = p.kind /\ e.packet.name = p.name}

(* The stored element that an overheard packet is a copy of. *)
Pending(p) == {e \in Stored : e.packet = p}

CanHandle == up /\ packets < MaxPackets

-----------------------------------------------------------------------------
(***************************************************************************)
(* addOutgoingPkt.  A content settles what is pending for it, itself       *)
(* included; then the packet is stored, unless its name is taken.          *)
(***************************************************************************)
Store(s, p, meta) ==
    \/ /\ ~ Conflict(s, p)
       /\ \E i \in 0..Len(s) :
             storage' = InsertedAt(s, i, [packet |-> p, tries |-> 1,
                                          previous |-> PreviousHop(meta)])
       /\ air' = [air EXCEPT ![p] = 0]
    \/ /\ Conflict(s, p)
       /\ storage' = s /\ UNCHANGED air

AddOutgoingPkt(p, meta) ==
    LET settled == IF p.kind = "content" THEN Matching(storage, p.name) ELSE {}
    IN
    /\ CanHandle
    /\ Store(Without(storage, settled), p, meta)
    /\ known' = known \cup {p}
    /\ event' = [op |-> "offer", packet |-> p, from |-> meta, up |-> FALSE]
    /\ packets' = packets + 1
    /\ UNCHANGED <<up, freed, place>>

(***************************************************************************)
(* pktFromNetwork.  A copy of a pending packet from farther along the way  *)
(* settles it and goes no further; everything else goes up to the daemon.  *)
(***************************************************************************)
Acked(p, from) == {e \in Pending(p) : IsAck(e, from)}

Heard(p, from) ==
    /\ event' = [op |-> "hear", packet |-> p, from |-> from,
                 up |-> Acked(p, from) = {}]
    /\ packets' = packets + 1
    /\ UNCHANGED <<place, known, air>>

InterestFromNetwork(p, from) ==
    /\ CanHandle /\ p.kind = "interest"
    /\ storage' = Without(storage, Acked(p, from))
    /\ Heard(p, from)
    /\ UNCHANGED <<up, freed>>

(***************************************************************************)
(* A content settles what is pending under its name as well.  The loop     *)
(* does not step on: from the second match on it reads the name of the     *)
(* element it deleted first, which deletes nothing, if it returns at all.  *)
(***************************************************************************)
ContentFromNetwork(p, from) ==
    LET rest == Without(storage, Acked(p, from))
        matching == Matching(rest, p.name)
    IN
    /\ CanHandle /\ p.kind = "content"
    /\ storage' = Without(rest, FirstOf(matching))
    /\ Heard(p, from)
    /\ freed' = (freed \/ Cardinality(matching) > 1)
    /\ up' \in IF Cardinality(matching) > 1 THEN BOOLEAN ELSE {TRUE}

-----------------------------------------------------------------------------
(***************************************************************************)
(* getPktForRetransmission, when select times out: the packet at the head  *)
(* of the timer index is sent, and deleted if it was for the last time.    *)
(***************************************************************************)
(* The count of transmissions, as far as it can tell that they were too many. *)
Counted(n) == IF n > Limit THEN n ELSE n + 1

(* Mutant: one transmission too many. *)
IsPastLimit(e) == e.tries > Limit

IsLast(e) == e.tries >= Limit

(* Mutant: the counter is not increased. *)
SameTry(e) == e

NextTry(e) == [e EXCEPT !.tries = @ + 1]

GetPktForRetransmission ==
    /\ up /\ storage # << >>
    /\ LET e == Head(storage)
       IN  /\ storage' = IF IsLast(e) THEN Tail(storage)
                         ELSE Append(Tail(storage), NextTry(e))
           /\ air' = [air EXCEPT ![e.packet] = Counted(@)]
           /\ event' = [op |-> "send", packet |-> e.packet, from |-> place,
                        up |-> FALSE]
    /\ UNCHANGED <<up, freed, place, known, packets>>

(* gpsd reports a position, or is lost. *)
Move ==
    /\ CanHandle
    /\ place' \in (Place \cup {NoFix}) \ {place}
    /\ event' = NoEvent
    /\ packets' = packets + 1
    /\ UNCHANGED <<up, freed, storage, known, air>>

Next ==
    \/ \E p \in NDNPacket :
          \/ \E meta \in Place \cup {NoFix, NoMetadata} : AddOutgoingPkt(p, meta)
          \/ \E from \in Place \cup {NoFix} :
                InterestFromNetwork(p, from) \/ ContentFromNetwork(p, from)
    \/ GetPktForRetransmission
    \/ Move

(* Deadlines pass, and select times out when nothing comes in between. *)
Fairness == WF_vars(GetPktForRetransmission)

Spec == Init /\ [][Next]_vars

FairSpec == Spec /\ Fairness

-----------------------------------------------------------------------------
(* Types; a pending packet has transmissions left and a previous hop. *)
TypeOK ==
    /\ up \in BOOLEAN /\ freed \in BOOLEAN
    /\ storage \in Seq(Element)
    /\ place \in Place \cup {NoFix}
    /\ known \subseteq NDNPacket
    /\ air \in [NDNPacket -> 0..Limit + 1]
    /\ packets \in 0..MaxPackets

(***************************************************************************)
(* The channel is not flooded: however a packet is offered again, overheard*)
(* or reordered, it is broadcast at most Limit times for each time it was  *)
(* stored, and the counter of the pending table agrees with the air.       *)
(***************************************************************************)
BroadcastsBounded ==
    /\ \A e \in Stored : e.tries = air[e.packet] + 1
    /\ \A p \in NDNPacket : air[p] <= Limit

(***************************************************************************)
(* An Interest is given up for a reason only: it was broadcast Limit times,*)
(* or the same Interest was overheard from farther along its way, or a     *)
(* content for it was overheard or offered.                                *)
(***************************************************************************)
Beyond(e, from) ==
    from \in Place /\ Distance(e.previous, from) > Distance(e.previous, Here)

InterestPersistsStep ==
    \A e \in Stored :
        (e.packet.kind = "interest" /\ \A d \in Stored' : d.packet # e.packet) =>
            LET p == event'.packet
            IN  \/ event'.op = "send" /\ p = e.packet /\ air'[p] = Limit
                \/ event'.op = "hear" /\ p = e.packet /\ Beyond(e, event'.from)
                \/ p.kind = "content" /\ PrefixOf(e.packet.name, p.name)

InterestPersists == [][InterestPersistsStep]_vars

(***************************************************************************)
(* A node does not go on asking for what it has: once a content has been   *)
(* offered or overheard, no Interest it answers is pending, as long as no  *)
(* freed element has been read.                                            *)
(***************************************************************************)
AnsweredNotAsked ==
    (event.op \in {"offer", "hear"} /\ ~freed) =>
        (event.packet.kind = "content" =>
            \A e \in Stored : PrefixOf(e.packet.name, event.packet.name) =>
                e.packet.kind = "content")

(***************************************************************************)
(* The policy hides nothing from the daemon: a packet overheard and not    *)
(* passed up is one the daemon had offered itself, nonce and all.          *)
(***************************************************************************)
NothingHidden == (event.op = "hear" /\ ~event.up) => event.packet \in known

(* Every pending packet is settled or given up in the end. *)
StorageDrains == <>[](~up \/ storage = << >>)

-----------------------------------------------------------------------------
(* What a comment of the repository says of this code. *)

(***************************************************************************)
(* PacketStorage::insertPkt: "To avoid conflicts between interest and      *)
(* content with the same name, the type of the packet has to be attached   *)
(* to the name".  An Interest that is offered is pending afterwards, or    *)
(* another Interest of its name is.                                        *)
(***************************************************************************)
OfferedIsPending ==
    (event.op = "offer" /\ event.packet.kind = "interest") =>
        \E e \in Stored : e.packet.kind = "interest" /\ e.packet.name = event.packet.name
=============================================================================
