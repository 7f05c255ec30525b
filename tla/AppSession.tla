----------------------------- MODULE AppSession -----------------------------
(***************************************************************************)
(* NDNConsumer, NDNProducer and NDNAppSocket: what an application sees of  *)
(* its daemon, and, between the daemon of one consumer and those of the    *)
(* producers, a network that loses, delays and reorders.                   *)
(*                                                                         *)
(* NDNL3Protocol models the daemons.  Here they are what the applications  *)
(* can tell of them: a content reaches the consumer once for an Interest   *)
(* that is pending, and may come from the content store.                   *)
(***************************************************************************)
EXTENDS Integers, Sequences, FiniteSets, SequencesExt

CONSTANTS
    Producers,   \* cars with a producer: their identifiers, none of them 0
    MaxFaults    \* bound: losses, evictions, stray Interests, moves and restarts

ASSUME SessionAssumption ==
    Producers \subseteq Nat \ {0} /\ IsFiniteSet(Producers) /\ MaxFaults \in Nat

VARIABLES
    consumer,    \* the application that asks, photo-consumer or traffic-consumer
    producer,    \* of each car, the application that answers
    retransmits, \* the first argument of the consumer is not -1
    daemon,      \* the daemon of the consumer runs
    asked,       \* names pending there for the consumer
    stored,      \* contents there
    socket,      \* messages for the consumer, not yet read
    routed,      \* producers whose daemon sends them these Interests
    heard,       \* the Interests each producer has not yet read
    air,         \* contents under way
    faults,      \* what has gone wrong around the programs so far
    mishaps      \* history: "resent", "merged", "restarted", "sick"

daemons == <<daemon, asked, stored>>
network == <<routed, heard, air>>
session == <<retransmits, daemons, socket, network, faults, mishaps>>

Content(name, piece) == [kind |-> "content", name |-> name, piece |-> piece]
NoName == [kind |-> "none"]
\* Bytes that are no part of what was asked.
Junk == [kind |-> "junk"]
StrayInterest == [kind |-> "interest"]
\* The rest of a message whose beginning has been read.
Remainder == [kind |-> "rest"]
EndOfFile == [kind |-> "eof"]

Fault(n) == faults + n <= MaxFaults /\ faults' = faults + n

SessionInit ==
    /\ retransmits \in BOOLEAN
    /\ daemon = TRUE
    /\ asked = {} /\ stored = {} /\ socket = << >>
    /\ routed = Producers /\ heard = [p \in Producers |-> {}] /\ air = {}
    /\ faults = 0
    /\ mishaps = {}

-----------------------------------------------------------------------------
(* The consumer's side *)

Cached(name) == {c \in stored : c.name = name}

\* SendPacket: the daemon answers from its content store, or the Interest
\* spreads and reaches some of the producers.
SendPacket(name) ==
    IF Cached(name) # {}
    THEN /\ socket' = socket \o SetToSeq(Cached(name))
         /\ UNCHANGED <<daemons, network, faults>>
    ELSE /\ asked' = asked \cup {name}
         /\ \E lost \in SUBSET routed :
               /\ Fault(Cardinality(lost))
               /\ heard' = [p \in Producers |->
                               IF p \in routed \ lost THEN heard[p] \cup {name} ELSE heard[p]]
         /\ UNCHANGED <<daemon, stored, socket, routed, air>>

(***************************************************************************)
(* Packet::InitFromFD is one read of a stream: everything that waits, up   *)
(* to the size of a buffer, is one packet, and the header is that of the   *)
(* first message.  What did not fit is read next.                          *)
(***************************************************************************)
Reads ==
    IF socket = << >> THEN {[first |-> EndOfFile, more |-> FALSE, left |-> << >>]}
    ELSE IF Len(socket) = 1 THEN {[first |-> socket[1], more |-> FALSE, left |-> << >>]}
    ELSE {[first |-> socket[1], more |-> TRUE, left |-> cut \o SubSeq(socket, k + 1, Len(socket))] :
             k \in 2 .. Len(socket), cut \in {<< >>, <<Remainder>>}}

Readable == socket # << >> \/ ~daemon

\* Mutant: a second content with the same name is stored besides the first.
AfterStoringBoth(c) == stored \cup {c}

\* What the content store keeps of a content it may already have.
AfterStoring(c) == IF Cached(c.name) = {} THEN stored \cup {c} ELSE stored

\* Mutant: an answered Interest stays pending.
DeliverAgain ==
    /\ daemon
    /\ \E c \in air :
          /\ air' = air \ {c}
          /\ stored' = AfterStoring(c)
          /\ socket' = IF c.name \in asked THEN Append(socket, c) ELSE socket
    /\ UNCHANGED <<daemon, asked, routed, heard, faults>>

\* A content arrives.  Nobody may be waiting for it: it is stored all the same.
Deliver ==
    /\ daemon
    /\ \E c \in air :
          /\ air' = air \ {c}
          /\ stored' = AfterStoring(c)
          /\ IF c.name \in asked
             THEN asked' = asked \ {c.name} /\ socket' = Append(socket, c)
             ELSE UNCHANGED <<asked, socket>>
    /\ UNCHANGED <<daemon, routed, heard, faults>>

LoseContent ==
    /\ Fault(1)
    /\ \E c \in air : air' = air \ {c}
    /\ UNCHANGED <<daemons, socket, routed, heard>>

\* The least recently used content makes room for those of other consumers.
Forget ==
    /\ Fault(1)
    /\ \E c \in stored : stored' = stored \ {c}
    /\ UNCHANGED <<daemon, asked, socket, network>>

\* The lifetime of the Interests ends.
Expire ==
    /\ asked # {} /\ asked' = {}
    /\ Fault(1)
    /\ UNCHANGED <<daemon, stored, socket, network>>

\* A prefix may have been registered for the face with the consumer's number.
SendStrayInterest ==
    /\ daemon /\ Fault(1)
    /\ socket' = Append(socket, StrayInterest)
    /\ UNCHANGED <<daemons, network>>

DaemonStops ==
    /\ Fault(1)
    /\ daemon /\ daemon' = FALSE /\ asked' = {} /\ stored' = {}
    /\ UNCHANGED <<socket, network>>

World ==
    /\ \/ Deliver \/ LoseContent \/ Forget \/ Expire \/ SendStrayInterest \/ DaemonStops
    /\ UNCHANGED <<retransmits, consumer, producer>>
    /\ mishaps' = IF daemon' THEN mishaps ELSE mishaps \cup {"sick"}

-----------------------------------------------------------------------------
(* A producer's side *)

\* Several Interests that wait are read as one packet, which is the first.
ReadInterest(p, name) ==
    /\ name \in heard[p]
    /\ \E merged \in SUBSET (heard[p] \ {name}) :
          heard' = [heard EXCEPT ![p] = @ \ ({name} \cup merged)]

sendContent(name, piece) == air' = air \cup {Content(name, piece)}

\* registerName and the management daemon behind it.
registerName(p) == routed' = routed \cup {p}

-----------------------------------------------------------------------------
(* How a producer fails *)

Sick == Fault(1) /\ mishaps' = mishaps \cup {"sick"}

Ends(p, pc) == producer' = [producer EXCEPT ![p].pc = pc] /\ UNCHANGED air

Dropped == UNCHANGED <<air, producer, faults, mishaps>>

\* The car is elsewhere.  The line that is logged follows the pointer to the
\* element of the map it is on, which the first report of gpsd will set.
WrongPosition(p) ==
    \/ Dropped
    \/ /\ ~producer[p].located
       /\ Ends(p, "crashed")
       /\ mishaps' = mishaps \cup {"sick"}
       /\ UNCHANGED faults

SessionTypeOK ==
    /\ {retransmits, daemon} \subseteq BOOLEAN
    /\ \A c \in stored \cup air : c.kind = "content"
    /\ \A c, d \in stored : c.name = d.name => c = d
    /\ routed \subseteq Producers
    /\ DOMAIN heard = Producers
    /\ faults \in 0 .. MaxFaults
    /\ mishaps \subseteq {"resent", "merged", "restarted", "sick"}
=============================================================================
