--------------------------- MODULE HeaderExchange ---------------------------
(***************************************************************************)
(* Packets with their headers on their way through a socket: an application*)
(* or a face writes them, another reads what there is as one packet, takes *)
(* the header from it, finds the payload behind the header, and may send   *)
(* the header on in another packet, as the daemon does with a Nack.        *)
(***************************************************************************)
EXTENDS CcnbParser

CONSTANTS
    Names,         \* names as they are typed: sequences of characters
    Selectors,     \* what an Interest may ask for besides
    Lifetimes,     \* of Interests, in microseconds
    Nonces,        \* of Interests: four bytes
    Payloads,      \* of contents: sequences of bytes
    Foreign,       \* messages of other programs, with what is to be read there
    BufferLength,  \* BUFLEN
    MaxWaiting,    \* bound: messages in the socket
    MaxHops        \* bound: times a header is sent on

Component == Seq(Octet) \ {<< >>}
MaxNumber == 2147483647   \* the largest int

\* A component is never empty, a buffer shorter than the parser can reckon
\* (BUFLEN is 1501), and what Foreign says of its messages is that they are
\* bytes; the runs and theorems say what else.
ASSUME ExchangeAssumption ==
    /\ BufferLength \in 1 .. Beyond - 1 /\ MaxWaiting \in Nat \ {0} /\ MaxHops \in Nat
    /\ Names \subseteq Seq(Octet) /\ Payloads \subseteq Seq(Octet)
    /\ Selectors \subseteq [minSuffix : -1 .. MaxNumber, maxSuffix : -1 .. MaxNumber,
                             exclude : Seq(Component), answerOriginKind : BOOLEAN, scope : -1 .. 127]
    /\ Lifetimes \subseteq Nat
    /\ \A n \in Nonces : n \in Seq(Octet) /\ Len(n) = 4
    /\ \A m \in Foreign : m.bytes \in Component

VARIABLES
    socket,   \* messages written and not yet read
    packet,   \* the packet at hand
    header,   \* what GetHeader has made of it
    running   \* no assertion has failed, and nothing was thrown that is not caught

vars == <<socket, packet, header, running>>

\* A message: its bytes, and what its header and payload were at first.
Message(h, bytes, payload, hops) ==
    [bytes |-> bytes, header |-> h, payload |-> payload, hops |-> hops]

Nothing == [kind |-> "none"]
NoPacket == [data |-> << >>, message |-> Message(Nothing, << >>, << >>, 0)]

\* The rest of a message whose beginning has been read.
Rest(m, read) ==
    [m EXCEPT !.bytes = SubSeq(m.bytes, read + 1, Len(m.bytes)), !.header = Nothing]

Init == socket = << >> /\ packet = NoPacket /\ header = Nothing /\ running = TRUE

-----------------------------------------------------------------------------
\* operator >>: the parts between slashes, without the empty ones and white space.
NameOf(text) ==
    LET Slash == 47
        Space == 9 .. 13 \cup {32}
        Parts(s) == s.name \o If(s.part # << >>, <<s.part>>)
        split[n \in 0 .. Len(text)] ==
            LET s == split[n - 1]
            IN CASE n = 0 -> [name |-> << >>, part |-> << >>]
                 [] n # 0 /\ text[n] \in Space -> s
                 [] n # 0 /\ text[n] = Slash -> [name |-> Parts(s), part |-> << >>]
                 [] OTHER -> [s EXCEPT !.part = Append(@, text[n])]
    IN Parts(split[Len(text)])

\* AddHeader and AddPayload: the buffer has room, or the program aborts.
Write(h, payload, original, hops) ==
    LET bytes == Serialize(h) \o payload
    IN /\ Len(socket) < MaxWaiting
       /\ IF Len(bytes) > BufferLength
          THEN running' = FALSE /\ UNCHANGED socket
          ELSE /\ socket' = Append(socket, Message(original, bytes, payload, hops))
               /\ UNCHANGED running
       /\ UNCHANGED <<packet, header>>

\* Bound: what applications send is sent before the first packet is read.
Unread == packet.data = << >>

SendInterest ==
    /\ Unread
    /\ \E text \in Names, s \in Selectors, child \in BOOLEAN, lifetime \in Lifetimes, nonce \in Nonces :
          LET h == [NewInterest EXCEPT
                        !.name = NameOf(text), !.nonce = nonce, !.lifetime = lifetime,
                        !.childSelector = child, !.exclude = s.exclude,
                        !.maxSuffix = s.maxSuffix, !.minSuffix = s.minSuffix,
                        !.answerOriginKind = s.answerOriginKind, !.scope = s.scope]
          IN Write(h, << >>, h, 0)

SendContent ==
    /\ Unread
    /\ \E text \in Names, payload \in Payloads :
          LET h == [NewContent EXCEPT !.name = NameOf(text)] IN Write(h, payload, h, 0)

\* Another program has its own ways with the format.
SendForeign ==
    /\ Unread /\ Len(socket) < MaxWaiting
    /\ \E m \in Foreign : socket' = Append(socket, Message(m.header, m.bytes, << >>, 0))
    /\ UNCHANGED <<packet, header, running>>

\* The messages of which something is left when so many bytes are read.
After(messages, read) ==
    LET Until(n) == Len(FlattenSeq([i \in 1 .. n |-> messages[i].bytes]))
        whole == Cardinality({n \in DOMAIN messages : Until(n) <= read})
        left == SubSeq(messages, whole + 1, Len(messages))
    IN IF left = << >> \/ read = Until(whole) THEN left
       ELSE [left EXCEPT ![1] = Rest(@, read - Until(whole))]

\* InitFromFD: everything that waits is one packet, as far as it fits.
Read ==
    /\ socket # << >>
    /\ LET waiting == FlattenSeq([i \in DOMAIN socket |-> socket[i].bytes])
           data == SubSeq(waiting, 1, IF Len(waiting) < BufferLength THEN Len(waiting) ELSE BufferLength)
       IN /\ packet' = [data |-> data, message |-> Head(socket)]
          /\ socket' = After(socket, Len(data))
    /\ header' = Nothing
    /\ UNCHANGED running

\* GetHeaderType and GetHeader.
HeaderOf(d) ==
    CASE GetHeaderType(d) = "interest" -> DeserializeInterest(d)
      [] GetHeaderType(d) = "content" -> DeserializeContent(d)
      [] OTHER -> [kind |-> "unknown"]

GetHeader ==
    /\ packet.data # << >> /\ header.kind = "none"
    /\ header' = HeaderOf(packet.data)
    /\ UNCHANGED <<socket, packet, running>>

\* handleDuplicateInterest, GiveUpInterest and OnNack: a copy of the header,
\* with another kind of Nack, in a packet of its own.
SendOn ==
    /\ header.kind = "interest" /\ packet.message.hops < MaxHops /\ header.name # NoName
    /\ \E nack \in (IF header.nack = 0 THEN {10, 12} ELSE {0}) :
          Write([header EXCEPT !.nack = nack], << >>,
                IF packet.message.header.kind = "interest"
                THEN [packet.message.header EXCEPT !.nack = nack] ELSE Nothing,
                packet.message.hops + 1)

\* Receive of the daemon catches neither what the parser throws nor what GetName
\* throws where there is no name; the policy of the link layer catches the first,
\* and reads on.
Uncaught ==
    /\ \/ header.kind = "thrown"
       \/ header.kind \in {"interest", "content"} /\ header.name = NoName
    /\ running' = FALSE
    /\ UNCHANGED <<socket, packet, header>>

Next ==
    running /\ (SendInterest \/ SendContent \/ SendForeign \/ Read \/ GetHeader \/ SendOn \/ Uncaught)

Spec == Init /\ [][Next]_vars

-----------------------------------------------------------------------------
\* The packet begins with a message, not with a part of one.
BeginsWithHeader == packet.message.header.kind # "none"

\* Lifetimes the format and its code can carry.
Carried(time) == time % Second = 0 /\ time < 60 * Second

(***************************************************************************)
(* The header that is taken from a packet is the one it was given, after   *)
(* any number of hops and whatever follows in the packet.  (Of lifetimes   *)
(* this is so below a minute and without a fraction: from a minute on the  *)
(* seconds do not fit, and of some fractions the sign gets lost.)  What    *)
(* another program writes in its own way is read or refused just as well.  *)
(***************************************************************************)
RoundTrip ==
    /\ header.kind # "none" /\ BeginsWithHeader
    /\ packet.message.header.kind = "interest" => Carried(packet.message.header.lifetime)
    => header = packet.message.header

(***************************************************************************)
(* What a consumer takes for the payload, from the size it works out of    *)
(* the name it has read, is the payload: no byte of the header, none less, *)
(* and as much of it as is in the packet.  (Of a packet that begins with a *)
(* message.  A header that was cut short takes what follows it in the same *)
(* packet for its own rest: nothing is the payload of that.)               *)
(***************************************************************************)
PayloadFound ==
    header.kind = "content" /\ BeginsWithHeader =>
        LET found == SubSeq(packet.data, GetSize(header) + 1, Len(packet.data))
        IN /\ IsPrefix(found, packet.message.payload) \/ IsPrefix(packet.message.payload, found)
           /\ packet.data = packet.message.bytes => found = packet.message.payload

(***************************************************************************)
(* A header of which the end is missing is refused: if a packet begins     *)
(* with what this program writes of a header, then no header is taken from *)
(* fewer of its bytes than that, when nothing follows them.                *)
(***************************************************************************)
CutRefused ==
    header.kind \in {"interest", "content"} /\ IsPrefix(Serialize(header), packet.data) =>
        \A n \in 1 .. GetSize(header) - 1 :
            HeaderOf(SubSeq(packet.data, 1, n)).kind \notin {"interest", "content"}
=============================================================================
