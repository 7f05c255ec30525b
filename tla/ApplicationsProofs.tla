------------------------- MODULE ApplicationsProofs -------------------------
(***************************************************************************)
(* Theorems about the applications, for any number of cars, requests,      *)
(* photos and faults: a consumer that reads answers without looking at     *)
(* their names still gets the answer to what it asked, and one photo of    *)
(* one car, while no Interest is sent twice, no messages merge and no      *)
(* producer restarts.                                                      *)
(***************************************************************************)
EXTENDS Applications, SequenceTheorems, FiniteSetTheorems, TLAPS

-----------------------------------------------------------------------------
(* The inductive invariant. *)

Cars == Producers \cup {AnyCar}

PhotoNames == [kind : {"photo"}, when : Requests, car : Cars, chunk : Nat]
TrafficNames == [kind : {"traffic"}, when : Minutes]
Names == IF service = "photo" THEN PhotoNames ELSE TrafficNames

PhotoPieces ==
    [kind : {"piece"}, from : Producers, picture : 0 .. MaxPictures, chunk : Nat,
     car : Cars, required : Sizes \cup {0}] \cup {Junk}
Speeds == [kind : {"speed"}, from : Producers, offset : Int]
Pieces == IF service = "photo" THEN PhotoPieces ELSE Speeds

Contents == [kind : {"content"}, name : Names, piece : Pieces]
Messages == Contents \cup {StrayInterest, Remainder}

Photos == [picture : 0 .. MaxPictures, size : Sizes \cup {0}, header : BOOLEAN]

SessionTyped ==
    /\ service \in {"photo", "traffic"}
    /\ retransmits \in BOOLEAN /\ daemon \in BOOLEAN
    /\ asked \subseteq Names
    /\ stored \subseteq Contents /\ air \subseteq Contents
    /\ \A c, d \in stored : c.name = d.name => c = d
    /\ socket \in Seq(Messages)
    /\ routed \subseteq Producers
    /\ heard \in [Producers -> SUBSET Names]
    /\ faults \in 0 .. MaxFaults
    /\ mishaps \subseteq {"resent", "merged", "restarted", "sick"}

Consumers ==
    [pc : {"new", "send", "wait", "exited"}, overdue : BOOLEAN,
     when : Requests \cup Minutes \cup {StartMinute}, ask : Names \cup {NoName},
     chunk : Nat, required : Sizes \cup {Unknown, 0}, car : Cars,
     file : Seq(Pieces \cup {Junk}), answers : 0 .. MaxAnswers[service]]

ConsumerTyped ==
    /\ consumer \in Consumers
    /\ consumer.pc \in {"send", "wait"} =>
          consumer.ask \in Names /\ (service = "photo" => consumer.when \in Requests)

ProducerStates ==
    [pc : {"start", "serving", "stuck", "crashed"}, near : BOOLEAN, located : BOOLEAN,
     pictures : 0 .. MaxPictures, fileSize : Sizes \cup {0},
     photoStorage : [Requests -> Photos]]

ProducersTyped ==
    /\ producer \in [Producers -> ProducerStates]
    /\ \A p \in Producers : producer[p].pictures > 0 => producer[p].fileSize \in Sizes

(***************************************************************************)
(* While no Interest is sent twice and no messages merge, at most one      *)
(* content waits for the consumer, and it answers the last Interest.       *)
(***************************************************************************)
InStep ==
    mishaps \cap {"resent", "merged"} = {} =>
        /\ asked \subseteq {consumer.ask}
        /\ \A i \in DOMAIN socket : socket[i].kind = "content" =>
              /\ socket[i].name = consumer.ask
              /\ asked = {}
              /\ consumer.pc \notin {"new", "send"}
              /\ \A j \in DOMAIN socket : socket[j].kind = "content" => i = j
        /\ consumer.pc \in {"new", "send"} => asked = {}

\* A photo a producer holds, with the header in its first chunk.
Held(p, when) == producer[p].photoStorage[when]
Whole(p, when) == Held(p, when) # NotTaken /\ Held(p, when).header /\ Held(p, when).size \in Sizes

\* An Interest for the beginning of any photo, or for the rest of one that is held.
GoodName(name) ==
    IF name.car = AnyCar THEN name.chunk = 0
    ELSE Whole(name.car, name.when) /\ name.chunk < Held(name.car, name.when).size

\* A content that is the chunk it is named for, of the car it is named for.
GoodContent(c) ==
    LET p == c.piece.from
        photo == Held(p, c.name.when)
    IN  /\ c.piece # Junk
        /\ Whole(p, c.name.when)
        /\ c.name.car \in {p, AnyCar}
        /\ c.piece.picture = photo.picture
        /\ c.piece.chunk = c.name.chunk
        /\ c.name.chunk = 0 => c.piece.car = p /\ c.piece.required = photo.size

\* The file is the beginning of a photo of the car the consumer asks on.
Growing ==
    /\ consumer.chunk = Len(consumer.file)
    /\ consumer.ask = PhotoName(consumer.when, consumer.car, consumer.chunk)
    /\ GoodName(consumer.ask)
    /\ (consumer.car = AnyCar) <=> (consumer.chunk = 0)
    /\ consumer.chunk > 0 =>
          /\ consumer.required = Held(consumer.car, consumer.when).size
          /\ \A i \in DOMAIN consumer.file :
                /\ consumer.file[i].kind = "piece"
                /\ consumer.file[i].chunk = i - 1
                /\ consumer.file[i].from = consumer.car
                /\ consumer.file[i].picture = Held(consumer.car, consumer.when).picture

OnePhoto ==
    \A i \in DOMAIN consumer.file :
        /\ consumer.file[i].kind = "piece" /\ consumer.file[i].chunk = i - 1
        /\ consumer.file[i].from = consumer.file[1].from
        /\ consumer.file[i].picture = consumer.file[1].picture

StorageGood == \A p \in Producers, r \in Requests : Held(p, r) # NotTaken => Whole(p, r)

TrafficGood ==
    /\ \A p \in Producers : \A name \in heard[p] : GoodName(name)
    /\ \A c \in stored \cup air : GoodContent(c)
    /\ \A i \in DOMAIN socket : socket[i].kind = "content" => GoodContent(socket[i])

FileGood == (consumer.pc \in {"send", "wait"} => Growing) /\ OnePhoto

Smooth == service = "photo" /\ mishaps \cap {"resent", "merged", "restarted"} = {}

PhotoSound == Smooth => StorageGood /\ TrafficGood /\ FileGood

Typed == SessionTyped /\ ConsumerTyped /\ ProducersTyped
AppInv == Typed /\ InStep /\ PhotoSound

-----------------------------------------------------------------------------
(* Sequences, and what one read of the stream may find. *)

LEMMA OneToSeq ==
    ASSUME NEW x
    PROVE  SetToSeq({x}) = <<x>>
<1>1. Cardinality({x}) = 1
  BY FS_Singleton
<1> DEFINE one == [i \in 1..1 |-> x]
<1>2. one \in [1..1 -> {x}] /\ IsInjective(one)
  BY DEF IsInjective
<1>3. SetToSeq({x}) \in [1..1 -> {x}]
  BY <1>1, <1>2 DEF SetToSeq
<1> DEFINE f == SetToSeq({x})
<1> HIDE DEF f
<1>4. f \in [1..1 -> {x}]
  BY <1>3 DEF f
<1>5. f \in Seq({x}) /\ Len(f) = 1
  BY <1>4
<1>6. f[1] = x
  BY <1>4
<1>7. f = <<x>>
  BY <1>5, <1>6
<1> QED BY <1>7 DEF f

\* The store has at most one content of a name.
LEMMA CachedIsOne ==
    ASSUME SessionTyped, NEW name, Cached(name) # {}
    PROVE  \E c \in stored : /\ c.name = name
                             /\ SetToSeq(Cached(name)) = <<c>>
<1>1. PICK c \in stored : c.name = name
  BY DEF Cached
<1>2. Cached(name) = {c}
  BY <1>1 DEF Cached, SessionTyped
<1> QED BY <1>1, <1>2, OneToSeq

\* Packet::InitFromFD: one message, the end of the stream, or several as one.
LEMMA ReadsFind ==
    ASSUME SessionTyped, NEW m \in Reads
    PROVE  /\ m.left \in Seq(Messages)
           /\ m.more \in BOOLEAN
           /\ m.more = FALSE =>
                 \/ socket = << >> /\ m.first = EndOfFile /\ m.left = << >>
                 \/ Len(socket) = 1 /\ m.first = socket[1] /\ m.left = << >>
           /\ m.first \in Messages \cup {EndOfFile}
<1>0. socket \in Seq(Messages)
  BY DEF SessionTyped
<1>1. CASE socket = << >>
  <2>1. m = [first |-> EndOfFile, more |-> FALSE, left |-> << >>]
    BY <1>1 DEF Reads
  <2>2. << >> \in Seq(Messages)
    OBVIOUS
  <2> QED BY <1>1, <2>1, <2>2
<1>2. CASE socket # << >> /\ Len(socket) = 1
  <2>1. socket[1] \in Messages
    BY <1>0, <1>2
  <2>2. m = [first |-> socket[1], more |-> FALSE, left |-> << >>]
    BY <1>2 DEF Reads
  <2>3. << >> \in Seq(Messages)
    OBVIOUS
  <2> QED BY <1>2, <2>1, <2>2, <2>3
<1>3. CASE socket # << >> /\ Len(socket) # 1
  <2>1. PICK k \in 2 .. Len(socket), cut \in {<< >>, <<Remainder>>} :
             m = [first |-> socket[1], more |-> TRUE,
                  left |-> cut \o SubSeq(socket, k + 1, Len(socket))]
    BY <1>3 DEF Reads
  <2>2. socket[1] \in Messages
    BY <1>0, <1>3
  <2>3. SubSeq(socket, k + 1, Len(socket)) \in Seq(Messages)
    BY <1>0
  <2>4. cut \in Seq(Messages)
    <3>1. Remainder \in Messages
      BY DEF Messages
    <3>2. <<Remainder>> \in Seq(Messages)
      BY <3>1
    <3>3. << >> \in Seq(Messages)
      OBVIOUS
    <3> QED BY <3>2, <3>3
  <2>5. cut \o SubSeq(socket, k + 1, Len(socket)) \in Seq(Messages)
    BY <2>3, <2>4
  <2> QED BY <2>1, <2>2, <2>5
<1> QED BY <1>1, <1>2, <1>3

LEMMA SameNames ==
    ASSUME service' = service
    PROVE  Names' = Names /\ Pieces' = Pieces /\ Contents' = Contents /\ Messages' = Messages
<1>1. Names' = Names /\ Pieces' = Pieces
  BY DEF Names, Pieces
<1>2. Contents' = Contents
  BY <1>1 DEF Contents
<1> QED BY <1>1, <1>2 DEF Messages

-----------------------------------------------------------------------------
(* Types: the consumer. *)

LEMMA PhotoNamed ==
    ASSUME service = "photo", NEW when \in Requests, NEW car \in Cars, NEW chunk \in Nat
    PROVE  PhotoName(when, car, chunk) \in Names
  BY DEF PhotoName, Names, PhotoNames

\* What is written to the file, and what a header found in it says.
LEMMA PieceSays ==
    ASSUME service = "photo", NEW piece \in Pieces \cup {Junk}, NEW h \in HeaderIn(piece)
    PROVE  h.car \in Cars /\ h.required \in Sizes \cup {0}
<1>1. CASE piece.kind = "piece"
  <2>1. piece \in PhotoPieces \ {Junk}
    BY <1>1 DEF Pieces, PhotoPieces, Junk
  <2> QED BY <1>1, <2>1 DEF HeaderIn, PhotoPieces
<1>2. CASE piece.kind # "piece"
  BY <1>2 DEF HeaderIn, Cars
<1> QED BY <1>1, <1>2

LEMMA AskTyped ==
    ASSUME Typed, Asking, Ask
    PROVE  ConsumerTyped'
<1>0. 0 \in Nat /\ AnyCar \in Cars /\ << >> \in Seq(Pieces \cup {Junk})
  BY DEF Cars
<1>1. Names' = Names /\ Pieces' = Pieces /\ service' = service
  BY SameNames DEF Ask
<1>2. CASE service = "photo" /\ NewPhoto
  <2>1. PICK r \in Requests :
          consumer' = [consumer EXCEPT !.pc = "send", !.overdue = FALSE,
                          !.when = r, !.ask = PhotoName(r, AnyCar, 0), !.chunk = 0,
                          !.required = Unknown, !.car = AnyCar, !.file = << >>]
    BY <1>2 DEF NewPhoto
  <2>2. PhotoName(r, AnyCar, 0) \in Names
    BY <1>0, <1>2, PhotoNamed
  <2> QED BY <1>0, <1>1, <2>1, <2>2 DEF Typed, ConsumerTyped, Consumers
<1>3. CASE service = "traffic" /\ NewTraffic
  <2>1. PICK r \in Minutes :
          consumer' = [consumer EXCEPT !.pc = "send", !.overdue = FALSE,
                          !.when = r, !.ask = TrafficName(r), !.file = << >>]
    BY <1>3 DEF NewTraffic
  <2>2. TrafficName(r) \in Names
    BY <1>3 DEF TrafficName, Names, TrafficNames
  <2> QED BY <1>0, <1>1, <1>3, <2>1, <2>2 DEF Typed, ConsumerTyped, Consumers
<1> QED BY <1>2, <1>3 DEF Ask

\* A consumer that goes to another place in its loop, with its timer as it may be.
LEMMA TurnTyped ==
    ASSUME Typed, service' = service,
           NEW pc \in {"new", "send", "wait", "exited"}, NEW late \in BOOLEAN,
           pc \in {"send", "wait"} => consumer.pc \in {"send", "wait"},
           \/ consumer' = [consumer EXCEPT !.pc = pc]
           \/ consumer' = [consumer EXCEPT !.pc = pc, !.overdue = late]
    PROVE  ConsumerTyped'
<1>1. Names' = Names /\ Pieces' = Pieces
  BY SameNames
<1> QED BY <1>1 DEF Typed, ConsumerTyped, Consumers

LEMMA TwoSingles ==
    ASSUME NEW S, NEW x \in S, NEW y \in S
    PROVE  /\ <<x>> \o << >> = <<x>> /\ <<x>> \o <<y>> = <<x, y>>
           /\ <<x>> \in Seq(S) /\ <<x, y>> \in Seq(S)
           /\ <<x>>[1] = x /\ <<x, y>>[1] = x
<1>1. <<x>> \in Seq(S) /\ <<y>> \in Seq(S) /\ <<x, y>> \in Seq(S)
  OBVIOUS
<1>2. <<x>> \o << >> = <<x>>
  BY <1>1, ConcatEmptySeq
<1>3. <<x>> \o <<y>> = <<x, y>>
  <2>1. <<x>> \o <<y>> \in Seq(S) /\ Len(<<x>> \o <<y>>) = 2
    BY <1>1
  <2>2. (<<x>> \o <<y>>)[1] = x /\ (<<x>> \o <<y>>)[2] = y
    BY <1>1
  <2>3. Len(<<x, y>>) = 2 /\ <<x, y>>[1] = x /\ <<x, y>>[2] = y
    OBVIOUS
  <2>4. \A i \in 1 .. 2 : (<<x>> \o <<y>>)[i] = <<x, y>>[i]
    BY <2>2, <2>3
  <2> QED BY <1>1, <2>1, <2>3, <2>4, SeqEqual
<1> QED BY <1>1, <1>2, <1>3

\* The bytes of a message, which are no Interest and no end of the stream.
LEMMA BytesTyped ==
    ASSUME Typed, NEW m \in Reads, m.first.kind = "content",
           NEW bytes, bytes = <<m.first.piece>> \o (IF m.more THEN <<Junk>> ELSE << >>)
    PROVE  /\ m.first \in Contents
           /\ m.first.piece \in Pieces
           /\ bytes \in Seq(Pieces \cup {Junk})
           /\ bytes[1] = m.first.piece
           /\ m.more = FALSE => bytes = <<m.first.piece>>
<1>1. m.first \in Contents
  <2>1. m.first \in Messages \cup {EndOfFile}
    BY ReadsFind DEF Typed
  <2> QED BY <2>1 DEF Messages, EndOfFile, StrayInterest, Remainder
<1>2. m.first.piece \in Pieces
  BY <1>1 DEF Contents
<1> DEFINE p == m.first.piece
<1>3. p \in Pieces \cup {Junk} /\ Junk \in Pieces \cup {Junk}
  BY <1>2
<1> HIDE DEF p
<1>4. <<p>> \o << >> = <<p>> /\ <<p>> \o <<Junk>> = <<p, Junk>>
  BY <1>3, TwoSingles
<1>5. bytes = IF m.more THEN <<p, Junk>> ELSE <<p>>
  BY <1>4 DEF p
<1>6. bytes \in Seq(Pieces \cup {Junk}) /\ bytes[1] = p
  <2>1. <<p>> \in Seq(Pieces \cup {Junk}) /\ <<p, Junk>> \in Seq(Pieces \cup {Junk})
       /\ <<p>>[1] = p /\ <<p, Junk>>[1] = p
    BY <1>3, TwoSingles
  <2> QED BY <1>5, <2>1
<1>7. m.more = FALSE => bytes = <<p>>
  BY <1>5
<1> QED BY <1>1, <1>2, <1>6, <1>7 DEF p

\* The consumer after a chunk has been written to its file.
LEMMA ChunkedIs ==
    ASSUME service = "photo", NEW c \in Consumers, c.when \in Requests,
           c.answers + 1 \in 0 .. MaxAnswers[service],
           NEW done \in BOOLEAN, NEW d, d = Chunked(c, done)
    PROVE  /\ d \in Consumers
           /\ d.pc = IF done THEN "new" ELSE "send"
           /\ d.when = c.when /\ d.chunk = c.chunk + 1
           /\ d.ask = PhotoName(c.when, c.car, c.chunk + 1)
           /\ d.ask \in Names
           /\ d.car = c.car /\ d.required = c.required /\ d.file = c.file
<1> DEFINE answers == IF done THEN c.answers + 1 ELSE c.answers
           name == PhotoName(c.when, c.car, c.chunk + 1)
<1>3. c.chunk + 1 \in Nat /\ name \in Names
  BY PhotoNamed DEF Consumers
<1>4. answers \in 0 .. MaxAnswers[service]
  BY DEF Consumers
<1>5. d = [c EXCEPT !.chunk = c.chunk + 1, !.overdue = FALSE,
                    !.pc = IF done THEN "new" ELSE "send", !.answers = answers, !.ask = name]
  BY DEF Chunked
<1> HIDE DEF answers, name
<1>7. /\ d \in Consumers
      /\ d.pc = IF done THEN "new" ELSE "send"
      /\ d.when = c.when /\ d.chunk = c.chunk + 1
      /\ d.ask = name
      /\ d.car = c.car /\ d.required = c.required /\ d.file = c.file
  BY <1>3, <1>4, <1>5 DEF Consumers
<1> QED BY <1>3, <1>7 DEF name

LEMMA ReadTyped ==
    ASSUME Typed, Asking, Read
    PROVE  ConsumerTyped'
<1>1. Names' = Names /\ Pieces' = Pieces /\ service' = service
  BY SameNames DEF Read
<1>2. consumer.pc = "wait"
  BY DEF Read
<1>3. PICK m \in Reads :
         \/ m.first.kind = "content" /\ Store(m)
         \/ NothingRead \/ ReadFailed
  BY DEF Read
<1>4. CASE NothingRead \/ ReadFailed
  BY <1>1, <1>2, <1>4, TurnTyped DEF NothingRead, ReadFailed, AfterReading, Typed, SessionTyped
<1>5. CASE m.first.kind = "content" /\ Store(m)
  <2> DEFINE bytes == <<m.first.piece>> \o (IF m.more THEN <<Junk>> ELSE << >>)
  <2>1. bytes \in Seq(Pieces \cup {Junk}) /\ bytes[1] \in Pieces
    BY <1>5, BytesTyped
  <2>2. IF service = "photo" THEN StoreChunk(bytes) ELSE ShowAnswer(bytes)
    BY <1>5 DEF Store
  <2> HIDE DEF bytes
  <2>3. consumer.answers + 1 \in 0 .. MaxAnswers[service]
    BY AnswersAssumption DEF Asking, Typed, ConsumerTyped, Consumers, SessionTyped
  <2>4. CASE service # "photo"
    <3>1. consumer' = [consumer EXCEPT !.pc = "new", !.file = bytes,
                                       !.answers = consumer.answers + 1]
      BY <2>2, <2>4 DEF ShowAnswer
    <3> QED BY <1>1, <2>1, <2>3, <3>1 DEF Typed, ConsumerTyped, Consumers
  <2>5. CASE service = "photo"
    <3>1. consumer.file \o bytes \in Seq(Pieces \cup {Junk})
      BY <2>1 DEF Typed, ConsumerTyped, Consumers
    <3>2. PICK car \in Cars, required \in Sizes \cup {Unknown, 0}, done \in BOOLEAN :
             consumer' = Chunked([consumer EXCEPT !.file = consumer.file \o bytes,
                                                  !.car = car, !.required = required], done)
      <4>1. CASE consumer.chunk = 0
        <5>1. PICK h \in HeaderIn(bytes[1]) :
                 consumer' = Chunked([[consumer EXCEPT !.file = @ \o bytes]
                                        EXCEPT !.car = h.car, !.required = h.required],
                                     h.required = 1)
          BY <2>2, <2>5, <4>1 DEF StoreChunk
        <5>2. h.car \in Cars /\ h.required \in Sizes \cup {0}
          BY <2>1, <2>5, PieceSays
        <5> QED BY <5>1, <5>2 DEF Typed, ConsumerTyped, Consumers
      <4>2. CASE consumer.chunk # 0
        <5>1. consumer' = Chunked([consumer EXCEPT !.file = @ \o bytes],
                                  consumer.required = consumer.chunk + 1)
          BY <2>2, <2>5, <4>2 DEF StoreChunk
        <5> QED BY <5>1 DEF Typed, ConsumerTyped, Consumers
      <4> QED BY <4>1, <4>2
    <3>3. PhotoName(consumer.when, car, consumer.chunk + 1) \in Names /\ consumer.when \in Requests
      BY <1>2, <2>5, PhotoNamed DEF Typed, ConsumerTyped, Consumers
    <3>4. /\ consumer' \in Consumers
          /\ consumer'.ask \in Names /\ consumer'.when = consumer.when
      <4> DEFINE c == [consumer EXCEPT !.file = consumer.file \o bytes,
                                       !.car = car, !.required = required]
                 d == consumer'
      <4>1. d = Chunked(c, done)
        BY <3>2
      <4>2. /\ c \in Consumers /\ c.when = consumer.when /\ c.when \in Requests
            /\ c.answers = consumer.answers
        BY <3>1, <3>3 DEF Typed, ConsumerTyped, Consumers
      <4> HIDE DEF c, d
      <4>3. d \in Consumers /\ d.ask \in Names /\ d.when = consumer.when
        BY <2>3, <2>5, <4>1, <4>2, ChunkedIs
      <4> QED BY <4>3 DEF d
    <3>5. Consumers' = Consumers
      BY <1>1 DEF Consumers
    <3> QED BY <1>1, <3>3, <3>4, <3>5 DEF ConsumerTyped
  <2> QED BY <2>4, <2>5
<1> QED BY <1>3, <1>4, <1>5

-----------------------------------------------------------------------------
(* Types: daemons and network. *)

LEMMA ExpressTyped ==
    ASSUME Typed, Express
    PROVE  SessionTyped'
<1>1. Names' = Names /\ Contents' = Contents /\ Messages' = Messages /\ service' = service
  BY SameNames DEF Express
<1>2. consumer.ask \in Names
  BY DEF Express, Typed, ConsumerTyped
<1>3. CASE ~daemon
  BY <1>1, <1>3 DEF Express, session, daemons, network, Typed, SessionTyped
<1>4. CASE daemon /\ Cached(consumer.ask) # {}
  <2>1. /\ socket' = socket \o SetToSeq(Cached(consumer.ask))
        /\ UNCHANGED <<daemons, network, faults, retransmits, mishaps>>
    BY <1>4 DEF Express, SendPacket
  <2>2. PICK c \in stored : SetToSeq(Cached(consumer.ask)) = <<c>>
    BY <1>4, CachedIsOne DEF Typed
  <2>3. c \in Messages
    BY DEF Typed, SessionTyped, Messages
  <2>4. socket \o <<c>> \in Seq(Messages)
    BY <2>3 DEF Typed, SessionTyped
  <2> QED BY <1>1, <2>1, <2>2, <2>4 DEF daemons, network, Typed, SessionTyped
<1>5. CASE daemon /\ Cached(consumer.ask) = {}
  <2>1. PICK lost \in SUBSET routed :
           /\ Fault(Cardinality(lost))
           /\ heard' = [p \in Producers |->
                           IF p \in routed \ lost THEN heard[p] \cup {consumer.ask} ELSE heard[p]]
    BY <1>5 DEF Express, SendPacket
  <2>2. /\ asked' = asked \cup {consumer.ask}
        /\ UNCHANGED <<daemon, stored, socket, routed, air, retransmits, mishaps>>
    BY <1>5 DEF Express, SendPacket
  <2>3. Cardinality(lost) \in Nat
    BY FS_Subset, FS_CardinalityType, SessionAssumption DEF Typed, SessionTyped
  <2>4. faults' \in 0 .. MaxFaults
    BY <2>1, <2>3, SessionAssumption DEF Fault, Typed, SessionTyped
  <2>5. heard' \in [Producers -> SUBSET Names]
    BY <1>2, <2>1 DEF Typed, SessionTyped
  <2> QED BY <1>1, <1>2, <2>2, <2>4, <2>5 DEF Typed, SessionTyped
<1> QED BY <1>3, <1>4, <1>5

LEMMA ReadLeavesTyped ==
    ASSUME Typed, Read
    PROVE  SessionTyped'
<1>1. Names' = Names /\ Contents' = Contents /\ Messages' = Messages
      /\ UNCHANGED <<retransmits, daemons, network, service>>
  BY SameNames DEF Read
<1>2. PICK m \in Reads :
         /\ socket' = m.left
         /\ mishaps' = mishaps \cup (IF m.more THEN {"merged"} ELSE {})
                               \cup (IF m.first \in {Remainder, EndOfFile} THEN {"resent"} ELSE {})
         /\ UNCHANGED faults \/ NothingRead \/ ReadFailed
  BY DEF Read
<1>3. socket' \in Seq(Messages)
  BY <1>2, ReadsFind DEF Typed
<1>4. faults' \in 0 .. MaxFaults
  BY <1>2, SessionAssumption DEF NothingRead, ReadFailed, AfterReading, Fault, Typed, SessionTyped
<1> QED BY <1>1, <1>2, <1>3, <1>4 DEF daemons, network, Typed, SessionTyped

\* Daemons and network, one move at a time.
LEMMA WorldTyped ==
    ASSUME Typed, World, UNCHANGED service
    PROVE  SessionTyped'
<1>1. Names' = Names /\ Contents' = Contents /\ Messages' = Messages
      /\ UNCHANGED <<retransmits, service>>
      /\ mishaps' \subseteq mishaps \cup {"sick"}
  BY SameNames DEF World
<1>2. CASE Deliver
  <2>1. PICK c \in air :
          /\ air' = air \ {c}
          /\ stored' = AfterStoring(c)
          /\ IF c.name \in asked
             THEN asked' = asked \ {c.name} /\ socket' = Append(socket, c)
             ELSE UNCHANGED <<asked, socket>>
    BY <1>2 DEF Deliver
  <2>2. c \in Contents /\ c \in Messages
    BY DEF Typed, SessionTyped, Messages
  <2>3. socket' \in Seq(Messages) /\ asked' \subseteq asked
    BY <2>1, <2>2 DEF Typed, SessionTyped
  <2>4. stored' \subseteq Contents /\ \A d, e \in stored' : d.name = e.name => d = e
    BY <2>1, <2>2 DEF AfterStoring, Cached, Typed, SessionTyped
  <2>5. UNCHANGED <<daemon, routed, heard, faults>> /\ air' \subseteq air
    BY <1>2, <2>1 DEF Deliver
  <2> QED BY <1>1, <2>3, <2>4, <2>5 DEF Typed, SessionTyped
<1>3. CASE LoseContent \/ Forget \/ Expire \/ DaemonStops
  <2>1. /\ faults' = faults + 1 /\ faults + 1 <= MaxFaults
        /\ air' \subseteq air /\ stored' \subseteq stored /\ asked' \subseteq asked
        /\ daemon' \in {daemon, FALSE}
        /\ UNCHANGED <<socket, routed, heard>>
    BY <1>3 DEF LoseContent, Forget, Expire, DaemonStops, Fault, daemons, network
  <2>2. faults' \in 0 .. MaxFaults
    BY <2>1, SessionAssumption DEF Typed, SessionTyped
  <2>3. daemon' \in BOOLEAN /\ \A d, e \in stored' : d.name = e.name => d = e
    BY <2>1 DEF Typed, SessionTyped
  <2> QED BY <1>1, <2>1, <2>2, <2>3 DEF Typed, SessionTyped
<1>4. CASE SendStrayInterest
  <2>1. StrayInterest \in Messages
    BY DEF Messages
  <2>2. Append(socket, StrayInterest) \in Seq(Messages)
    BY <2>1 DEF Typed, SessionTyped
  <2>3. /\ faults' = faults + 1 /\ faults + 1 <= MaxFaults
        /\ socket' = Append(socket, StrayInterest)
        /\ UNCHANGED <<daemons, network>>
    BY <1>4 DEF SendStrayInterest, Fault
  <2> QED BY <1>1, <2>2, <2>3, SessionAssumption DEF daemons, network, Typed, SessionTyped
<1> QED BY <1>2, <1>3, <1>4 DEF World

-----------------------------------------------------------------------------
(* Types: the producers. *)

LEMMA ReplyTyped ==
    ASSUME Typed, service = "photo", NEW p \in Producers, NEW name \in Names,
           NEW photo \in Photos, Reply(p, name, photo)
    PROVE  air' \subseteq Contents
<1>1. name.chunk \in Nat
  BY DEF Names, PhotoNames
<1>2. Chunk(p, photo, name.chunk) \in Pieces
  <2>1. AnyCar \in Cars /\ p \in Cars
    BY DEF Cars
  <2> QED BY <1>1, <2>1 DEF Chunk, Piece, Pieces, PhotoPieces, Photos
<1>3. CASE name.chunk > photo.size
  BY <1>3 DEF Reply, Typed, SessionTyped
<1>4. CASE ~ (name.chunk > photo.size)
  <2>1. air' = air \cup {Content(name, Chunk(p, photo, name.chunk))}
    BY <1>4 DEF Reply, sendContent
  <2>2. Content(name, Chunk(p, photo, name.chunk)) \in Contents
    BY <1>2 DEF Content, Contents
  <2> QED BY <2>1, <2>2 DEF Typed, SessionTyped
<1> QED BY <1>3, <1>4

LEMMA SpeedTyped ==
    ASSUME Typed, service # "photo", NEW p \in Producers, NEW name \in Names
    PROVE  Content(name, Speed(p, Offset(name.when))) \in Contents
<1>1. name.when \in Nat
  BY TrafficAssumption DEF Names, TrafficNames
<1>2. Offset(name.when) \in Int
  BY <1>1, TrafficAssumption DEF Offset
<1>3. Speed(p, Offset(name.when)) \in Pieces
  BY <1>2 DEF Speed, Pieces, Speeds
<1> QED BY <1>3 DEF Content, Contents

\* A picture is new, or the file of the last one.
LEMMA PicturesTyped ==
    ASSUME Typed, NEW p \in Producers, NEW taken \in Pictures(p)
    PROVE  /\ taken.picture \in 1 .. MaxPictures
           /\ taken.size \in Sizes
<1>1. /\ producer[p].pictures \in 0 .. MaxPictures
      /\ producer[p].pictures > 0 => producer[p].fileSize \in Sizes
  BY DEF Typed, ProducersTyped, ProducerStates
<1>2. CASE /\ producer[p].pictures < MaxPictures
           /\ \E s \in Sizes : taken = [picture |-> producer[p].pictures + 1, size |-> s]
  BY <1>1, <1>2, PhotoAssumption
<1>3. CASE /\ producer[p].pictures > 0
           /\ taken = [picture |-> producer[p].pictures, size |-> producer[p].fileSize]
  BY <1>1, <1>3, PhotoAssumption
<1> QED BY <1>2, <1>3 DEF Pictures

\* photo-producer takes a photo and answers with one of its chunks.
LEMMA TakeDoes ==
    ASSUME Typed, service = "photo", NEW p \in Producers, NEW name \in Names, TakePhoto(p, name)
    PROVE  \E photo \in Photos :
              /\ photo # NotTaken /\ photo.size \in Sizes
              /\ photo.header = (name.chunk = 0)
              /\ Reply(p, name, photo)
              /\ ProducersTyped'
              /\ \A q \in Producers, r \in Requests :
                    Held(q, r)' = IF q = p /\ r = name.when THEN photo ELSE Held(q, r)
<1>1. PICK taken \in Pictures(p) :
         /\ Reply(p, name, [picture |-> taken.picture, size |-> taken.size,
                            header |-> name.chunk = 0])
         /\ producer' = [producer EXCEPT
               ![p].pictures = taken.picture, ![p].fileSize = taken.size,
               ![p].photoStorage[name.when] =
                  [picture |-> taken.picture, size |-> taken.size, header |-> name.chunk = 0]]
  BY DEF TakePhoto
<1>2. /\ taken.picture \in 1 .. MaxPictures
      /\ taken.size \in Sizes
  BY PicturesTyped
<1> DEFINE photo == [picture |-> taken.picture, size |-> taken.size, header |-> name.chunk = 0]
<1>3. photo \in Photos /\ photo # NotTaken /\ photo.size \in Sizes
      /\ photo.header = (name.chunk = 0)
  BY <1>2, PhotoAssumption DEF Photos, NotTaken
<1>4. Reply(p, name, photo)
  BY <1>1
<1>5. producer' = [producer EXCEPT ![p].pictures = taken.picture, ![p].fileSize = taken.size,
                                   ![p].photoStorage[name.when] = photo]
  BY <1>1
<1> HIDE DEF photo
<1>6. name.when \in Requests
  BY DEF Names, PhotoNames
<1>7. ProducersTyped'
  <2> DEFINE storage == [producer[p].photoStorage EXCEPT ![name.when] = photo]
             one == [producer[p] EXCEPT !.pictures = taken.picture, !.fileSize = taken.size,
                                        !.photoStorage = storage]
  <2>1. storage \in [Requests -> Photos]
    BY <1>3, <1>6 DEF Typed, ProducersTyped, ProducerStates
  <2>2. producer' = [producer EXCEPT ![p] = one]
    BY <1>5 DEF Typed, ProducersTyped, ProducerStates
  <2> HIDE DEF storage
  <2>3. one \in ProducerStates /\ one.fileSize \in Sizes
    <3>1. taken.picture \in 0 .. MaxPictures /\ taken.size \in Sizes \cup {0}
      BY <1>2
    <3>2. producer[p] \in ProducerStates
      BY DEF Typed, ProducersTyped, ProducerStates
    <3> QED BY <1>2, <2>1, <3>1, <3>2 DEF ProducerStates
  <2> HIDE DEF one
  <2> QED BY <2>2, <2>3 DEF Typed, ProducersTyped, ProducerStates
<1>8. \A q \in Producers, r \in Requests :
         Held(q, r)' = IF q = p /\ r = name.when THEN photo ELSE Held(q, r)
  BY <1>5, <1>6 DEF Held, Typed, ProducersTyped, ProducerStates
<1> QED BY <1>3, <1>4, <1>7, <1>8

LEMMA ServeTyped ==
    ASSUME Typed, NEW p \in Producers, Serve(p)
    PROVE  SessionTyped' /\ ProducersTyped'
<1>1. Names' = Names /\ Contents' = Contents /\ Messages' = Messages
      /\ UNCHANGED <<retransmits, daemons, socket, routed, service>>
  BY SameNames DEF Serve
<1>2. PICK name \in heard[p] :
         /\ ReadInterest(p, name)
         /\ IF service = "photo" THEN AnswerPhoto(p, name) ELSE AnswerTraffic(p, name)
  BY DEF Serve
<1>3. name \in Names
  BY DEF Typed, SessionTyped
<1>4. heard' \in [Producers -> SUBSET Names]
  BY <1>2 DEF ReadInterest, Typed, SessionTyped
<1> DEFINE Goal == /\ air' \subseteq Contents
                   /\ faults' \in 0 .. MaxFaults
                   /\ mishaps' \subseteq {"resent", "merged", "restarted", "sick"}
                   /\ ProducersTyped'
<1>5. air \subseteq Contents /\ faults \in 0 .. MaxFaults /\ ProducersTyped
      /\ mishaps \subseteq {"resent", "merged", "restarted", "sick"}
  BY DEF Typed, SessionTyped
<1>6. ASSUME NEW pc \in {"stuck", "crashed"}, Ends(p, pc)
      PROVE  ProducersTyped' /\ air' = air
  BY <1>5, <1>6 DEF Ends, ProducersTyped, ProducerStates
<1>7. ASSUME WrongPosition(p)
      PROVE  Goal
  BY <1>5, <1>6, <1>7 DEF WrongPosition, Dropped, ProducersTyped, ProducerStates
<1>8. ASSUME Sick
      PROVE  faults' \in 0 .. MaxFaults /\ mishaps' = mishaps \cup {"sick"}
  BY <1>5, <1>8, SessionAssumption DEF Sick, Fault
<1>9. CASE service = "photo"
  <2>1. ASSUME Dropped
       PROVE  Goal
    BY <1>5, <2>1 DEF Dropped, ProducersTyped, ProducerStates
  <2>2. ASSUME Reply(p, name, Held(p, name.when)) /\ UNCHANGED <<producer, faults, mishaps>>
       PROVE  Goal
    <3>1. name.when \in Requests
      BY <1>3, <1>9 DEF Names, PhotoNames
    <3>2. Held(p, name.when) \in Photos
      BY <1>5, <3>1 DEF Held, ProducersTyped, ProducerStates
    <3> QED BY <1>3, <1>5, <1>9, <2>2, <3>2, ReplyTyped DEF ProducersTyped, ProducerStates
  <2>3. ASSUME WrongPosition(p)
       PROVE  Goal
    BY <1>7, <2>3
  <2>4. ASSUME TakePhoto(p, name) /\ UNCHANGED <<faults, mishaps>>
       PROVE  Goal
    BY <1>3, <1>5, <1>9, <2>4, TakeDoes, ReplyTyped
  <2>5. ASSUME Sick /\ UNCHANGED <<air, producer>>
       PROVE  Goal
    BY <1>5, <1>8, <2>5 DEF ProducersTyped, ProducerStates
  <2>6. ASSUME Sick /\ Ends(p, "stuck")
       PROVE  Goal
    BY <1>5, <1>6, <1>8, <2>6
  <2>7. Goal
    BY <1>2, <1>9, <2>1, <2>2, <2>3, <2>4, <2>5, <2>6 DEF AnswerPhoto, Held
  <2> QED BY <1>1, <1>4, <2>7 DEF daemons, Typed, SessionTyped
<1>10. CASE service # "photo"
  <2>1. ASSUME WrongPosition(p)
       PROVE  Goal
    BY <1>7, <2>1
  <2>2. ASSUME /\ air' = air \cup {Content(name, Speed(p, Offset(name.when)))}
             /\ UNCHANGED <<producer, faults, mishaps>>
       PROVE  Goal
    BY <1>3, <1>5, <1>10, <2>2, SpeedTyped DEF ProducersTyped, ProducerStates
  <2>3. Goal
    BY <1>2, <1>10, <2>1, <2>2 DEF AnswerTraffic, sendContent
  <2> QED BY <1>1, <1>4, <2>3 DEF daemons, Typed, SessionTyped
<1> QED BY <1>9, <1>10

LEMMA ServeLeaves ==
    ASSUME NEW p, Serve(p)
    PROVE  UNCHANGED <<retransmits, daemons, socket, routed, consumer, service>>
  BY DEF Serve

\* A program that starts, stops or hears of gpsd, and a route that is added.
LEMMA LifeTyped ==
    ASSUME Typed, NEW p \in Producers, Start(p) \/ AddRoute(p) \/ Report(p) \/ Stop(p)
    PROVE  SessionTyped' /\ ProducersTyped' /\ UNCHANGED <<consumer, service>>
<1>1. UNCHANGED <<retransmits, daemons, socket, air, consumer, service>>
  BY DEF Start, AddRoute, Report, Stop, network
<1>2. Names' = Names /\ Contents' = Contents /\ Messages' = Messages
  BY <1>1, SameNames
<1>3. routed' \subseteq Producers /\ heard' \in [Producers -> SUBSET Names]
  BY DEF Start, AddRoute, Report, Stop, network, registerName, Typed, SessionTyped
<1>4. faults' \in 0 .. MaxFaults /\ mishaps' \subseteq {"resent", "merged", "restarted", "sick"}
  <2>1. /\ faults' = faults \/ Fault(1)
        /\ mishaps' \subseteq mishaps \cup {"restarted", "sick"}
    BY DEF Start, AddRoute, Report, Stop, Sick
  <2>2. faults' \in 0 .. MaxFaults
    BY <2>1, SessionAssumption DEF Fault, Typed, SessionTyped
  <2> QED BY <2>1, <2>2 DEF Typed, SessionTyped
<1>5. ProducersTyped'
  <2>1. EmptyStorage \in [Requests -> Photos]
    BY PhotoAssumption DEF EmptyStorage, NotTaken, Photos
  <2>2. producer \in [Producers -> ProducerStates]
        /\ producer[p] \in ProducerStates
        /\ \A q \in Producers : producer[q].pictures > 0 => producer[q].fileSize \in Sizes
    BY DEF Typed, ProducersTyped
  <2>3. \/ producer' = producer
        \/ producer' = [producer EXCEPT ![p] = [producer[p] EXCEPT !.pc = "serving"]]
        \/ \E near \in BOOLEAN :
              producer' = [producer EXCEPT ![p] =
                              [producer[p] EXCEPT !.near = near, !.located = TRUE]]
        \/ producer' = [producer EXCEPT ![p] =
              [producer[p] EXCEPT !.pc = "start", !.near = FALSE, !.located = FALSE,
                                  !.photoStorage = EmptyStorage]]
    BY <2>2 DEF Start, AddRoute, Report, Stop, ProducerStates
  <2>4. \E one \in ProducerStates :
           /\ one.pictures = producer[p].pictures /\ one.fileSize = producer[p].fileSize
           /\ producer' = [producer EXCEPT ![p] = one]
    <3>1. CASE producer' = producer
      <4>1. producer' = [producer EXCEPT ![p] = producer[p]]
        BY <2>2, <3>1
      <4> QED BY <2>2, <4>1
    <3>2. CASE producer' = [producer EXCEPT ![p] = [producer[p] EXCEPT !.pc = "serving"]]
      BY <2>2, <3>2 DEF ProducerStates
    <3>3. CASE \E near \in BOOLEAN :
                  producer' = [producer EXCEPT ![p] =
                                  [producer[p] EXCEPT !.near = near, !.located = TRUE]]
      BY <2>2, <3>3 DEF ProducerStates
    <3>4. CASE producer' = [producer EXCEPT ![p] =
                 [producer[p] EXCEPT !.pc = "start", !.near = FALSE, !.located = FALSE,
                                     !.photoStorage = EmptyStorage]]
      BY <2>1, <2>2, <3>4 DEF ProducerStates
    <3> QED BY <2>3, <3>1, <3>2, <3>3, <3>4
  <2> QED BY <2>2, <2>4 DEF ProducersTyped
<1> QED BY <1>1, <1>2, <1>3, <1>4, <1>5 DEF daemons, Typed, SessionTyped

LEMMA TypedInit == ASSUME Init PROVE Typed
<1>1. SessionTyped
  BY SessionAssumption DEF Init, SessionInit, SessionTyped
<1>2. ConsumerTyped
  <2>1. << >> \in Seq(Pieces \cup {Junk}) /\ AnyCar \in Cars
    BY DEF Cars
  <2> QED BY <2>1, AnswersAssumption DEF Init, ConsumerTyped, Consumers
<1>3. ProducersTyped
  <2>1. EmptyStorage \in [Requests -> Photos]
    BY PhotoAssumption DEF EmptyStorage, NotTaken, Photos
  <2>2. MaxPictures \in Nat
    BY PhotoAssumption
  <2> QED BY <2>1, <2>2 DEF Init, ProducersTyped, ProducerStates
<1> QED BY <1>1, <1>2, <1>3 DEF Typed

LEMMA TypedStep ==
    ASSUME Typed, [Next]_vars
    PROVE  Typed'
<1>0. service' = service
  BY DEF Next, Consumer, Ask, Express, Timeout, Expired, SelectFails, Read, Start, AddRoute, Report,
         Serve, Stop, vars
<1>1. Names' = Names /\ Pieces' = Pieces /\ Contents' = Contents /\ Messages' = Messages
      /\ Consumers' = Consumers
  BY <1>0, SameNames DEF Consumers
<1>2. ASSUME UNCHANGED session
      PROVE  SessionTyped'
  BY <1>0, <1>1, <1>2 DEF session, daemons, network, Typed, SessionTyped
<1>3. ASSUME UNCHANGED consumer
      PROVE  ConsumerTyped'
  BY <1>0, <1>1, <1>3 DEF Typed, ConsumerTyped
<1>4. ASSUME UNCHANGED producer
      PROVE  ProducersTyped'
  BY <1>4 DEF Typed, ProducersTyped
<1>5. CASE Asking /\ Ask
  BY <1>2, <1>4, <1>5, AskTyped DEF Ask, Typed
<1>6. CASE Express
  <2>1. ConsumerTyped'
    BY <1>0, <1>6, TurnTyped DEF Express
  <2> QED BY <1>4, <1>6, <2>1, ExpressTyped DEF Express, Typed
<1>7. CASE Timeout
  <2>1. ConsumerTyped'
    BY <1>0, <1>7, TurnTyped DEF Timeout, Expired
  <2>2. SessionTyped'
    BY <1>0, <1>1, <1>7 DEF Timeout, daemons, network, Typed, SessionTyped
  <2> QED BY <1>4, <1>7, <2>1, <2>2 DEF Timeout, Typed
<1>8. CASE SelectFails
  <2>1. ConsumerTyped'
    BY <1>0, <1>8, TurnTyped DEF SelectFails
  <2> QED BY <1>2, <1>4, <1>8, <2>1 DEF SelectFails, Typed
<1>9. CASE Asking /\ Read
  BY <1>4, <1>9, ReadTyped, ReadLeavesTyped DEF Read, Typed
<1>10. ASSUME NEW p \in Producers, Start(p) \/ AddRoute(p) \/ Report(p) \/ Stop(p)
       PROVE  Typed'
  <2>1. SessionTyped' /\ ProducersTyped' /\ UNCHANGED consumer
    BY <1>10, LifeTyped
  <2> QED BY <1>3, <2>1 DEF Typed
<1>11. ASSUME NEW p \in Producers, Serve(p)
       PROVE  Typed'
  <2>1. SessionTyped' /\ ProducersTyped' /\ UNCHANGED consumer
    BY <1>11, ServeTyped, ServeLeaves
  <2> QED BY <1>3, <2>1 DEF Typed
<1>12. CASE World
  BY <1>0, <1>3, <1>4, <1>12, WorldTyped DEF World, Typed
<1>13. CASE UNCHANGED vars
  BY <1>2, <1>3, <1>4, <1>13 DEF vars, Typed
<1> QED BY <1>5, <1>6, <1>7, <1>8, <1>9, <1>10, <1>11, <1>12, <1>13 DEF Next, Consumer

-----------------------------------------------------------------------------
(* Questions and answers keep in step. *)

LEMMA MishapsRemain ==
    ASSUME [Next]_vars
    PROVE  mishaps \subseteq mishaps'
<1>1. CASE Consumer
  BY <1>1 DEF Consumer, Ask, Express, Timeout, SelectFails, Read, session
<1>2. CASE \E p \in Producers : Start(p) \/ AddRoute(p) \/ Report(p) \/ Serve(p) \/ Stop(p)
  <2>1. ASSUME NEW p \in Producers, Serve(p)
        PROVE  mishaps \subseteq mishaps'
    BY <2>1 DEF Serve, AnswerPhoto, AnswerTraffic, Dropped, WrongPosition, Sick
  <2>2. ASSUME NEW p \in Producers, Start(p) \/ AddRoute(p) \/ Report(p) \/ Stop(p)
        PROVE  mishaps \subseteq mishaps'
    BY <2>2 DEF Start, AddRoute, Report, Stop, Sick
  <2> QED BY <1>2, <2>1, <2>2
<1>3. CASE World
  BY <1>3 DEF World
<1> QED BY <1>1, <1>2, <1>3 DEF Next, vars, session

\* A read that is no mishap: there was one message, and it is not cut.
LEMMA PlainRead ==
    ASSUME Typed, Read, mishaps' \cap {"resent", "merged"} = {}
    PROVE  /\ Len(socket) = 1 /\ socket' = << >>
           /\ \/ /\ socket[1].kind = "content"
                 /\ Store([first |-> socket[1], more |-> FALSE, left |-> << >>])
              \/ socket[1].kind # "content" /\ NothingRead
<1>1. PICK m \in Reads :
         /\ socket' = m.left
         /\ mishaps' = mishaps \cup (IF m.more THEN {"merged"} ELSE {})
                               \cup (IF m.first \in {Remainder, EndOfFile} THEN {"resent"} ELSE {})
         /\ \/ m.first.kind = "content" /\ Store(m)
            \/ m.first.kind = "interest" /\ NothingRead
            \/ m.first.kind \in {"rest", "eof"} /\ ReadFailed
  BY DEF Read
<1>2. ~ m.more /\ m.first \notin {Remainder, EndOfFile}
  BY <1>1
<1>3. m.more = FALSE
  BY <1>2, ReadsFind DEF Typed
<1>4. /\ Len(socket) = 1 /\ m.first = socket[1] /\ m.left = << >>
      /\ m.first \in Messages \cup {EndOfFile}
  BY <1>2, <1>3, ReadsFind DEF Typed
<1>5. m.first.kind \notin {"rest", "eof"}
  BY <1>2, <1>4 DEF Messages, Contents, StrayInterest, Remainder, EndOfFile
<1>6. Store(m) => Store([first |-> socket[1], more |-> FALSE, left |-> << >>])
  BY <1>3, <1>4 DEF Store
<1> QED BY <1>1, <1>4, <1>5, <1>6

\* One content or one Interest more in the stream.
LEMMA Longer ==
    ASSUME SessionTyped, NEW x \in Messages
    PROVE  /\ Append(socket, x) \in Seq(Messages)
           /\ DOMAIN Append(socket, x) = 1 .. Len(socket) + 1
           /\ socket \o <<x>> = Append(socket, x)
           /\ \A i \in DOMAIN Append(socket, x) :
                 \/ i \in DOMAIN socket /\ Append(socket, x)[i] = socket[i]
                 \/ i = Len(socket) + 1 /\ Append(socket, x)[i] = x
  BY DEF SessionTyped

LEMMA InStepStep ==
    ASSUME Typed, InStep, [Next]_vars
    PROVE  InStep'
<1> SUFFICES ASSUME mishaps' \cap {"resent", "merged"} = {}
             PROVE  /\ asked' \subseteq {consumer'.ask}
                    /\ \A i \in DOMAIN socket' : socket'[i].kind = "content" =>
                          /\ socket'[i].name = consumer'.ask
                          /\ asked' = {}
                          /\ consumer'.pc \notin {"new", "send"}
                          /\ \A j \in DOMAIN socket' : socket'[j].kind = "content" => i = j
                    /\ consumer'.pc \in {"new", "send"} => asked' = {}
  BY DEF InStep
<1>1. /\ asked \subseteq {consumer.ask}
      /\ \A i \in DOMAIN socket : socket[i].kind = "content" =>
            /\ socket[i].name = consumer.ask
            /\ asked = {}
            /\ consumer.pc \notin {"new", "send"}
            /\ \A j \in DOMAIN socket : socket[j].kind = "content" => i = j
      /\ consumer.pc \in {"new", "send"} => asked = {}
  BY MishapsRemain DEF InStep
<1>2. CASE UNCHANGED <<asked, socket>> /\ consumer'.ask = consumer.ask /\ consumer'.pc = consumer.pc
  BY <1>1, <1>2
<1>3. CASE Ask
  BY <1>1, <1>3 DEF Ask, session, daemons
<1>4. CASE Express
  <2>0. consumer'.ask = consumer.ask /\ consumer'.pc \in {"wait", "exited"} /\ consumer.pc = "send"
    BY <1>4 DEF Express, Typed, ConsumerTyped, Consumers
  <2>1. CASE UNCHANGED <<asked, socket>>
    BY <1>1, <2>0, <2>1
  <2>2. CASE Cached(consumer.ask) # {} /\ daemon
    <3>1. socket' = socket \o SetToSeq(Cached(consumer.ask)) /\ asked' = asked
      BY <1>4, <2>2 DEF Express, SendPacket, daemons
    <3>2. PICK c \in stored : c.name = consumer.ask /\ SetToSeq(Cached(consumer.ask)) = <<c>>
      BY <2>2, CachedIsOne DEF Typed
    <3>3. c \in Messages
      BY DEF Typed, SessionTyped, Messages
    <3>4. socket' = Append(socket, c)
      BY <3>1, <3>2, <3>3, Longer DEF Typed
    <3>5. \A i \in DOMAIN socket' : \/ i \in DOMAIN socket /\ socket'[i] = socket[i]
                                    \/ i = Len(socket) + 1 /\ socket'[i] = c
      BY <3>3, <3>4, Longer DEF Typed
    <3> QED BY <1>1, <2>0, <3>1, <3>2, <3>5
  <2>3. CASE Cached(consumer.ask) = {} /\ daemon
    <3>1. socket' = socket /\ asked' = asked \cup {consumer.ask}
      BY <1>4, <2>3 DEF Express, SendPacket
    <3> QED BY <1>1, <2>0, <3>1
  <2> QED BY <1>4, <2>1, <2>2, <2>3 DEF Express, session, daemons
<1>5. CASE Timeout
  BY <1>5 DEF Timeout
<1>6. CASE SelectFails
  BY <1>1, <1>6 DEF SelectFails, session, daemons, Typed, ConsumerTyped, Consumers
<1>7. CASE Read
  <2>1. /\ Len(socket) = 1 /\ socket' = << >>
        /\ socket[1].kind = "content" \/ NothingRead
    BY <1>7, PlainRead
  <2>2. asked' = asked /\ DOMAIN socket' = {} /\ 1 \in DOMAIN socket
    BY <1>7, <2>1 DEF Read, daemons, Typed, SessionTyped
  <2>3. CASE socket[1].kind = "content"
    BY <1>1, <2>2, <2>3
  <2>4. CASE NothingRead
    <3>1. consumer'.ask = consumer.ask /\ consumer'.pc = "wait"
      BY <2>4 DEF NothingRead, AfterReading, Typed, ConsumerTyped, Consumers
    <3> QED BY <1>1, <2>2, <3>1
  <2> QED BY <2>1, <2>3, <2>4
<1>8. CASE World
  <2>0. consumer' = consumer
    BY <1>8 DEF World
  <2>1. CASE Deliver
    <3>1. PICK c \in air :
            IF c.name \in asked
            THEN asked' = asked \ {c.name} /\ socket' = Append(socket, c)
            ELSE UNCHANGED <<asked, socket>>
      BY <2>1 DEF Deliver
    <3>2. CASE UNCHANGED <<asked, socket>>
      BY <1>1, <2>0, <3>2
    <3>3. CASE c.name \in asked /\ asked' = asked \ {c.name} /\ socket' = Append(socket, c)
      <4>1. asked' = {} /\ c.name = consumer.ask /\ consumer.pc \notin {"new", "send"}
            /\ \A i \in DOMAIN socket : socket[i].kind # "content"
        BY <1>1, <3>3
      <4>2. c \in Messages
        BY DEF Typed, SessionTyped, Messages
      <4>3. \A i \in DOMAIN socket' : \/ i \in DOMAIN socket /\ socket'[i] = socket[i]
                                      \/ i = Len(socket) + 1 /\ socket'[i] = c
        BY <3>3, <4>2, Longer DEF Typed
      <4> QED BY <2>0, <4>1, <4>3
    <3> QED BY <3>1, <3>2, <3>3
  <2>2. CASE LoseContent \/ Forget \/ Expire \/ DaemonStops
    <3>1. socket' = socket /\ (asked' = asked \/ asked' = {})
      BY <2>2 DEF LoseContent, Forget, Expire, DaemonStops, daemons
    <3> QED BY <1>1, <2>0, <3>1
  <2>3. CASE SendStrayInterest
    <3>1. socket' = Append(socket, StrayInterest) /\ asked' = asked
      BY <2>3 DEF SendStrayInterest, daemons
    <3>2. StrayInterest \in Messages /\ StrayInterest.kind # "content"
      BY DEF Messages, StrayInterest
    <3>3. \A i \in DOMAIN socket' : \/ i \in DOMAIN socket /\ socket'[i] = socket[i]
                                    \/ i = Len(socket) + 1 /\ socket'[i] = StrayInterest
      BY <3>1, <3>2, Longer DEF Typed
    <3> QED BY <1>1, <2>0, <3>1, <3>2, <3>3
  <2> QED BY <1>8, <2>1, <2>2, <2>3 DEF World
<1>9. CASE \E p \in Producers : Start(p) \/ AddRoute(p) \/ Report(p) \/ Serve(p) \/ Stop(p)
  BY <1>2, <1>9 DEF Start, AddRoute, Report, Serve, Stop, daemons
<1>10. CASE UNCHANGED vars
  BY <1>2, <1>10 DEF vars, session, daemons
<1> QED BY <1>3, <1>4, <1>5, <1>6, <1>7, <1>8, <1>9, <1>10 DEF Next, Consumer

-----------------------------------------------------------------------------
(* A photo is one photo. *)

\* A chunk of a photo with its header is the chunk it is asked as.
LEMMA ReplyGood ==
    ASSUME NEW p \in Producers, NEW name \in PhotoNames, NEW photo \in Photos,
           photo.size \in Sizes, photo.header,
           name.car = AnyCar => name.chunk = 0,
           name.car # AnyCar => name.chunk < photo.size,
           Reply(p, name, photo)
    PROVE  \E c : /\ air' = air \cup {c}
                  /\ c.name = name /\ c.piece # Junk
                  /\ c.piece.from = p /\ c.piece.picture = photo.picture
                  /\ c.piece.chunk = name.chunk
                  /\ name.chunk = 0 => c.piece.car = p /\ c.piece.required = photo.size
<1>1. photo.size \in Nat \ {0} /\ name.chunk \in Nat /\ name.chunk < photo.size
  <2>1. photo.size \in Nat \ {0}
    BY PhotoAssumption
  <2>2. name.chunk \in Nat
    BY DEF PhotoNames
  <2> QED BY <2>1, <2>2
<1> DEFINE piece == Chunk(p, photo, name.chunk)
<1>2. /\ piece # Junk /\ piece.from = p /\ piece.picture = photo.picture
      /\ piece.chunk = name.chunk
      /\ name.chunk = 0 => piece.car = p /\ piece.required = photo.size
  BY <1>1 DEF Chunk, Piece, Junk
<1>3. air' = air \cup {Content(name, piece)}
  BY <1>1 DEF Reply, sendContent
<1> HIDE DEF piece
<1>4. Content(name, piece).name = name /\ Content(name, piece).piece = piece
  BY DEF Content
<1> QED BY <1>2, <1>3, <1>4

\* What becomes of a photographer's photos and answers in one turn.
LEMMA ServeGood ==
    ASSUME Typed, Smooth, StorageGood, TrafficGood, NEW p \in Producers, Serve(p)
    PROVE  \E when \in Requests, photo \in Photos :
              /\ Whole(p, when) \/ Held(p, when) = NotTaken
              /\ \/ producer' = producer \/ \A q \in Producers, r \in Requests : Held(q, r)' = Held(q, r)
                 \/ /\ Held(p, when) = NotTaken
                    /\ photo # NotTaken /\ photo.size \in Sizes /\ photo.header
                    /\ \A q \in Producers, r \in Requests :
                          Held(q, r)' = IF q = p /\ r = when THEN photo ELSE Held(q, r)
              /\ \/ air' = air
                 \/ \E c : /\ air' = air \cup {c}
                           /\ Whole(p, when)'
                           /\ c.name.when = when /\ c.name.car \in {p, AnyCar}
                           /\ c.piece # Junk /\ c.piece.from = p
                           /\ c.piece.picture = Held(p, when).picture'
                           /\ c.piece.chunk = c.name.chunk
                           /\ c.name.chunk = 0 =>
                                 c.piece.car = p /\ c.piece.required = Held(p, when).size'
<1>1. PICK name \in heard[p] : AnswerPhoto(p, name)
  BY DEF Serve, Smooth
<1>2. name \in PhotoNames /\ name \in Names /\ name.when \in Requests /\ GoodName(name)
  BY DEF Smooth, Typed, SessionTyped, Names, PhotoNames, TrafficGood
<1> DEFINE when == name.when
           photo == Held(p, when)
<1>3. photo \in Photos /\ (photo # NotTaken => Whole(p, when))
  BY <1>2 DEF Typed, ProducersTyped, ProducerStates, Held, StorageGood
<1>4. p # AnyCar
  BY SessionAssumption DEF AnyCar
<1>5. CASE air' = air /\ \A q \in Producers, r \in Requests : Held(q, r)' = Held(q, r)
  BY <1>2, <1>3, <1>5
<1>6. ASSUME NEW pc, Ends(p, pc)
      PROVE  air' = air /\ \A q \in Producers, r \in Requests : Held(q, r)' = Held(q, r)
  BY <1>6 DEF Ends, Held, Typed, ProducersTyped, ProducerStates
<1>7. CASE Dropped
  BY <1>5, <1>7 DEF Dropped, Held
<1>8. CASE WrongPosition(p)
  BY <1>5, <1>6, <1>7, <1>8 DEF WrongPosition
<1>9. CASE Sick /\ UNCHANGED <<air, producer>>
  BY <1>5, <1>9 DEF Held
<1>10. CASE Sick /\ Ends(p, "stuck")
  BY <1>5, <1>6, <1>10
<1>11. CASE /\ ForMe(p, name) /\ photo # NotTaken
            /\ Reply(p, name, photo) /\ UNCHANGED producer
  <2>1. name.car \in {p, AnyCar} /\ Whole(p, when)
    BY <1>3, <1>11 DEF ForMe
  <2>2. photo.size \in Sizes /\ photo.header
        /\ (name.car = AnyCar => name.chunk = 0)
        /\ (name.car # AnyCar => name.chunk < photo.size)
    BY <1>2, <2>1 DEF GoodName, Whole
  <2>3. PICK c : /\ air' = air \cup {c}
                 /\ c.name = name /\ c.piece # Junk
                 /\ c.piece.from = p /\ c.piece.picture = photo.picture
                 /\ c.piece.chunk = name.chunk
                 /\ name.chunk = 0 => c.piece.car = p /\ c.piece.required = photo.size
    BY <1>2, <1>3, <1>11, <2>2, ReplyGood
  <2>4. Whole(p, when)' /\ Held(p, when)' = photo
    BY <1>11, <2>1 DEF Whole, Held
  <2>5. \A q \in Producers, r \in Requests : Held(q, r)' = Held(q, r)
    BY <1>11 DEF Held
  <2> QED BY <1>2, <1>3, <2>1, <2>3, <2>4, <2>5
<1>12. CASE ForMe(p, name) /\ photo = NotTaken /\ TakePhoto(p, name)
  <2>1. PICK new \in Photos :
              /\ new # NotTaken /\ new.size \in Sizes
              /\ new.header = (name.chunk = 0)
              /\ Reply(p, name, new)
              /\ \A q \in Producers, r \in Requests :
                    Held(q, r)' = IF q = p /\ r = when THEN new ELSE Held(q, r)
    BY <1>2, <1>12, TakeDoes DEF Smooth
  <2>2. name.car = AnyCar /\ name.chunk = 0
    BY <1>2, <1>4, <1>12 DEF ForMe, GoodName, Whole
  <2>3. PICK c : /\ air' = air \cup {c}
                 /\ c.name = name /\ c.piece # Junk
                 /\ c.piece.from = p /\ c.piece.picture = new.picture
                 /\ c.piece.chunk = name.chunk
                 /\ name.chunk = 0 => c.piece.car = p /\ c.piece.required = new.size
    <3>1. new.header
      BY <2>1, <2>2
    <3> QED BY <1>2, <2>1, <2>2, <3>1, ReplyGood
  <2>4. Held(p, when)' = new
    BY <1>2, <2>1
  <2>5. Whole(p, when)'
    BY <2>1, <2>2, <2>4 DEF Whole
  <2> QED BY <1>2, <1>12, <2>1, <2>2, <2>3, <2>4, <2>5
<1> QED BY <1>1, <1>7, <1>8, <1>9, <1>10, <1>11, <1>12 DEF AnswerPhoto, Held

\* A photo that has been taken is kept.
PhotosStay == \A p \in Producers, r \in Requests : Held(p, r) = NotTaken \/ Held(p, r)' = Held(p, r)

LEMMA PhotosKept ==
    ASSUME Typed, Smooth, Smooth', StorageGood, TrafficGood, [Next]_vars
    PROVE  PhotosStay /\ StorageGood'
<1>1. ASSUME \A p \in Producers, r \in Requests : Held(p, r)' = Held(p, r)
      PROVE  PhotosStay /\ StorageGood'
  BY <1>1 DEF PhotosStay, StorageGood, Whole
<1>2. CASE UNCHANGED producer
  BY <1>1, <1>2 DEF Held
<1>3. ASSUME NEW p \in Producers, Start(p) \/ AddRoute(p) \/ Report(p)
      PROVE  PhotosStay /\ StorageGood'
  <2>1. \A q \in Producers, r \in Requests : Held(q, r)' = Held(q, r)
    <3>1. producer \in [Producers -> ProducerStates]
      BY DEF Typed, ProducersTyped
    <3>2. CASE Start(p)
      BY <3>1, <3>2 DEF Start, Held, ProducerStates
    <3>3. CASE AddRoute(p)
      BY <3>3 DEF AddRoute, Held
    <3>4. CASE Report(p)
      BY <3>1, <3>4 DEF Report, Held, ProducerStates
    <3> QED BY <1>3, <3>2, <3>3, <3>4
  <2> QED BY <1>1, <2>1
<1>4. ASSUME NEW p \in Producers, Stop(p)
      PROVE  FALSE
  BY <1>4 DEF Stop, Smooth
<1>5. ASSUME NEW p \in Producers, Serve(p)
      PROVE  PhotosStay /\ StorageGood'
  <2>1. PICK when \in Requests, photo \in Photos :
              \/ producer' = producer \/ \A q \in Producers, r \in Requests : Held(q, r)' = Held(q, r)
              \/ /\ Held(p, when) = NotTaken
                 /\ photo # NotTaken /\ photo.size \in Sizes /\ photo.header
                 /\ \A q \in Producers, r \in Requests :
                       Held(q, r)' = IF q = p /\ r = when THEN photo ELSE Held(q, r)
    BY <1>5, ServeGood
  <2>2. CASE producer' = producer \/ \A q \in Producers, r \in Requests : Held(q, r)' = Held(q, r)
    BY <1>1, <1>2, <2>2
  <2>3. CASE /\ Held(p, when) = NotTaken
             /\ photo # NotTaken /\ photo.size \in Sizes /\ photo.header
             /\ \A q \in Producers, r \in Requests :
                   Held(q, r)' = IF q = p /\ r = when THEN photo ELSE Held(q, r)
    BY <2>3 DEF PhotosStay, StorageGood, Whole
  <2> QED BY <2>1, <2>2, <2>3
<1> QED BY <1>2, <1>3, <1>4, <1>5
    DEF Next, Consumer, Ask, Express, Timeout, SelectFails, Read, World, vars

LEMMA GoodStays ==
    ASSUME Smooth, PhotosStay
    PROVE  /\ \A name \in PhotoNames : GoodName(name) => GoodName(name)'
           /\ \A c \in Contents : GoodContent(c) => GoodContent(c)'
<1>0. \A p \in Producers, r \in Requests : Whole(p, r) => Whole(p, r)' /\ Held(p, r)' = Held(p, r)
  BY DEF PhotosStay, Whole
<1>1. ASSUME NEW name \in PhotoNames, GoodName(name)
      PROVE  GoodName(name)'
  <2>1. name.when \in Requests /\ name.car \in Cars
    BY DEF PhotoNames
  <2> QED BY <1>0, <1>1, <2>1 DEF GoodName, Cars
<1>2. ASSUME NEW c \in Contents, GoodContent(c)
      PROVE  GoodContent(c)'
  <2>1. c.name.when \in Requests /\ c.piece.from \in Producers
    BY <1>2 DEF Contents, Names, Pieces, PhotoNames, PhotoPieces, GoodContent, Smooth
  <2> QED BY <1>0, <1>2, <2>1 DEF GoodContent
<1> QED BY <1>1, <1>2

LEMMA TrafficGoodStep ==
    ASSUME Typed, Typed', Smooth, Smooth', InStep, StorageGood, TrafficGood, FileGood, [Next]_vars
    PROVE  TrafficGood'
<1>0. PhotosStay
  BY PhotosKept
<1>1. \A p \in Producers : \A name \in heard[p] : GoodName(name)'
  <2>1. \A p \in Producers : heard[p] \subseteq PhotoNames
    BY DEF Typed, SessionTyped, Names, Smooth
  <2> QED BY <1>0, <2>1, GoodStays DEF TrafficGood
<1>2. \A c \in stored \cup air : GoodContent(c)'
  BY <1>0, GoodStays DEF TrafficGood, Typed, SessionTyped
<1>3. \A i \in DOMAIN socket : socket[i].kind = "content" =>
         socket[i] \in Contents /\ GoodContent(socket[i]) /\ \A c \in {socket[i]} : GoodContent(c)'
  <2>1. ASSUME NEW i \in DOMAIN socket, socket[i].kind = "content"
        PROVE  \A c \in {socket[i]} : c \in Contents /\ GoodContent(c) /\ GoodContent(c)'
    <3>1. socket[i] \in Messages
      BY DEF Typed, SessionTyped
    <3>2. socket[i] \in Contents
      BY <2>1, <3>1 DEF Messages, StrayInterest, Remainder
    <3>3. GoodContent(socket[i])
      BY <2>1 DEF TrafficGood
    <3> QED BY <1>0, <3>2, <3>3, GoodStays
  <2> QED BY <2>1
<1>4. ASSUME \A p \in Producers : heard'[p] \subseteq heard[p],
             stored' \cup air' \subseteq stored \cup air,
             \A i \in DOMAIN socket' : socket'[i].kind = "content" =>
                \/ \E j \in DOMAIN socket : socket'[i] = socket[j]
                \/ socket'[i] \in stored \cup air
      PROVE  TrafficGood'
  <2>1. \A p \in Producers : \A name \in heard'[p] : GoodName(name)'
    BY <1>1, <1>4
  <2>2. \A c \in stored' \cup air' : GoodContent(c)'
    BY <1>2, <1>4
  <2>3. \A c : (\E i \in DOMAIN socket' : c = socket'[i]) /\ c.kind = "content" => GoodContent(c)'
    BY <1>2, <1>3, <1>4
  <2> QED BY <2>1, <2>2, <2>3 DEF TrafficGood
<1>5. ASSUME UNCHANGED <<heard, stored, air, socket>>
      PROVE  TrafficGood'
  BY <1>4, <1>5
<1>6. CASE Ask \/ Timeout \/ SelectFails
  BY <1>5, <1>6 DEF Ask, Timeout, SelectFails, session, daemons, network
<1>7. CASE Express
  <2>1. CASE ~daemon
    BY <1>5, <1>7, <2>1 DEF Express, session, daemons, network
  <2>2. CASE daemon /\ Cached(consumer.ask) # {}
    <3>1. socket' = socket \o SetToSeq(Cached(consumer.ask)) /\ UNCHANGED <<heard, stored, air>>
      BY <1>7, <2>2 DEF Express, SendPacket, daemons, network
    <3>2. PICK c \in stored : SetToSeq(Cached(consumer.ask)) = <<c>>
      BY <2>2, CachedIsOne DEF Typed
    <3>3. c \in Messages
      BY DEF Typed, SessionTyped, Messages
    <3>4. \A i \in DOMAIN socket' : \/ i \in DOMAIN socket /\ socket'[i] = socket[i]
                                    \/ socket'[i] = c
      BY <3>1, <3>2, <3>3, Longer DEF Typed
    <3> QED BY <1>4, <3>1, <3>4
  <2>3. CASE daemon /\ Cached(consumer.ask) = {}
    <3>1. /\ \A p \in Producers : heard'[p] \subseteq heard[p] \cup {consumer.ask}
          /\ UNCHANGED <<stored, air, socket>>
      BY <1>7, <2>3 DEF Express, SendPacket
    <3>2. PICK name \in PhotoNames : name = consumer.ask
      BY <1>7 DEF Express, Typed, ConsumerTyped, Names, Smooth
    <3>3. GoodName(name)
      BY <1>7, <3>2 DEF Express, FileGood, Growing
    <3>4. GoodName(name)'
      BY <1>0, <3>3, GoodStays
    <3>5. \A p \in Producers : \A n \in heard'[p] : GoodName(n)'
      BY <1>1, <3>1, <3>2, <3>4
    <3>6. \A c \in stored' \cup air' : GoodContent(c)'
      BY <1>2, <3>1
    <3>7. \A c : (\E i \in DOMAIN socket' : c = socket'[i]) /\ c.kind = "content" => GoodContent(c)'
      BY <1>3, <3>1
    <3> QED BY <3>5, <3>6, <3>7 DEF TrafficGood
  <2> QED BY <2>1, <2>2, <2>3, <1>7 DEF Typed, SessionTyped
<1>8. CASE Read
  <2>1. socket' = << >> /\ UNCHANGED <<heard, stored, air>>
    BY <1>8, PlainRead DEF Read, Smooth, daemons, network
  <2> QED BY <1>4, <2>1
<1>9. ASSUME NEW p \in Producers, Start(p) \/ AddRoute(p) \/ Report(p) \/ Stop(p)
      PROVE  TrafficGood'
  BY <1>5, <1>9 DEF Start, AddRoute, Report, Stop, Smooth, daemons, network
<1>10. ASSUME NEW p \in Producers, Serve(p)
       PROVE  TrafficGood'
  <2>1. UNCHANGED <<stored, socket>> /\ \A q \in Producers : heard'[q] \subseteq heard[q]
    BY <1>10 DEF Serve, ReadInterest, daemons, Typed, SessionTyped
  <2>2. CASE air' = air
    BY <1>4, <2>1, <2>2
  <2>3. CASE air' # air
    <3>1. PICK when \in Requests, c \in air' :
             /\ air' = air \cup {c}
             /\ Whole(p, when)'
             /\ c.name.when = when /\ c.name.car \in {p, AnyCar}
             /\ c.piece # Junk /\ c.piece.from = p
             /\ c.piece.picture = Held(p, when).picture'
             /\ c.piece.chunk = c.name.chunk
             /\ c.name.chunk = 0 => c.piece.car = p /\ c.piece.required = Held(p, when).size'
      BY <1>10, <2>3, ServeGood
    <3>2. GoodContent(c)'
      BY <3>1 DEF GoodContent
    <3>3. \A d \in stored' \cup air' : GoodContent(d)'
      BY <1>2, <2>1, <3>1, <3>2
    <3>4. \A q \in Producers : \A n \in heard'[q] : GoodName(n)'
      BY <1>1, <2>1
    <3>5. \A d : (\E i \in DOMAIN socket' : d = socket'[i]) /\ d.kind = "content" => GoodContent(d)'
      BY <1>3, <2>1
    <3> QED BY <3>3, <3>4, <3>5 DEF TrafficGood
  <2> QED BY <2>2, <2>3
<1>11. CASE World
  <2>1. CASE Deliver
    <3>1. PICK c \in air : /\ air' = air \ {c} /\ stored' = AfterStoring(c)
                           /\ socket' = socket \/ socket' = Append(socket, c)
      BY <2>1 DEF Deliver
    <3>2. c \in Messages
      BY DEF Typed, SessionTyped, Messages
    <3>3. \A i \in DOMAIN socket' : \/ i \in DOMAIN socket /\ socket'[i] = socket[i]
                                    \/ socket'[i] = c
      BY <3>1, <3>2, Longer DEF Typed
    <3> QED BY <1>4, <2>1, <3>1, <3>3 DEF AfterStoring, Deliver
  <2>2. CASE LoseContent \/ Forget \/ Expire \/ DaemonStops
    <3>1. heard' = heard /\ socket' = socket /\ stored' \subseteq stored /\ air' \subseteq air
      BY <2>2 DEF LoseContent, Forget, Expire, DaemonStops, daemons, network
    <3> QED BY <1>4, <3>1
  <2>3. CASE SendStrayInterest
    <3>1. socket' = Append(socket, StrayInterest) /\ UNCHANGED <<heard, stored, air>>
      BY <2>3 DEF SendStrayInterest, daemons, network
    <3>2. StrayInterest \in Messages /\ StrayInterest.kind # "content"
      BY DEF Messages, StrayInterest
    <3>3. \A i \in DOMAIN socket' : \/ i \in DOMAIN socket /\ socket'[i] = socket[i]
                                    \/ socket'[i] = StrayInterest
      BY <3>1, <3>2, Longer DEF Typed
    <3> QED BY <1>4, <3>1, <3>2, <3>3
  <2> QED BY <1>11, <2>1, <2>2, <2>3 DEF World
<1>12. CASE UNCHANGED vars
  BY <1>5, <1>12 DEF vars, session, daemons, network
<1> QED BY <1>6, <1>7, <1>8, <1>9, <1>10, <1>11, <1>12 DEF Next, Consumer

\* The Interest for the next chunk is for a photo that stays as it is.
LEMMA GrowingStays ==
    ASSUME Typed, Smooth, PhotosStay, consumer.pc \in {"send", "wait"}, Growing,
           UNCHANGED <<consumer.when, consumer.car, consumer.chunk, consumer.ask,
                       consumer.file, consumer.required>>
    PROVE  Growing'
<1>1. consumer.when \in Requests /\ consumer.car \in Cars /\ consumer.ask \in PhotoNames
  BY DEF Typed, ConsumerTyped, Consumers, Names, Smooth
<1>2. PICK name \in PhotoNames : name = consumer.ask
  BY <1>1
<1>3. GoodName(name)'
  BY <1>2, GoodStays DEF Growing
<1>4. consumer.chunk > 0 =>
         Held(consumer.car, consumer.when)' = Held(consumer.car, consumer.when)
  <2> SUFFICES ASSUME consumer.chunk > 0
               PROVE  Held(consumer.car, consumer.when)' = Held(consumer.car, consumer.when)
    OBVIOUS
  <2>1. PICK p \in Producers, r \in Requests : p = consumer.car /\ r = consumer.when
    BY <1>1 DEF Growing, Cars
  <2>2. consumer.ask.car = p /\ consumer.ask.when = r /\ p # AnyCar
    BY <2>1, SessionAssumption DEF Growing, PhotoName, AnyCar
  <2>3. Held(p, r) # NotTaken
    BY <2>2 DEF Growing, GoodName, Whole
  <2>4. Held(p, r)' = Held(p, r)
    BY <2>3 DEF PhotosStay
  <2> QED BY <2>1, <2>4 DEF Held
<1> QED BY <1>2, <1>3, <1>4 DEF Growing

\* The content that is read is the next chunk of the photo the file begins with.
LEMMA ChunkStored ==
    ASSUME Typed, Smooth, Asking, consumer.pc = "wait", Growing, OnePhoto,
           NEW c \in Contents, GoodContent(c), c.name = consumer.ask,
           UNCHANGED <<producer, service>>, StoreChunk(<<c.piece>>)
    PROVE  FileGood'
<1>0. PICK p, when, photo, chunk :
         /\ p = c.piece.from /\ when = consumer.when
         /\ photo = Held(p, when) /\ chunk = consumer.chunk
  OBVIOUS
<1> DEFINE file == consumer.file \o <<c.piece>>
<1>1. /\ consumer.ask = PhotoName(when, consumer.car, chunk)
      /\ consumer.ask.when = when /\ consumer.ask.chunk = chunk /\ consumer.ask.car = consumer.car
      /\ chunk = Len(consumer.file) /\ chunk \in Nat /\ when \in Requests
      /\ consumer \in Consumers
      /\ consumer.file \in Seq(Pieces \cup {Junk})
  BY <1>0 DEF Growing, PhotoName, Typed, ConsumerTyped, Consumers, Smooth
<1>2. /\ c.piece \in Pieces /\ c.piece.kind = "piece" /\ p \in Producers
      /\ c.piece.picture = photo.picture /\ c.piece.chunk = chunk
      /\ consumer.car \in {p, AnyCar} /\ p # AnyCar
      /\ Whole(p, when) /\ photo.size \in Sizes /\ photo.size \in Nat \ {0}
      /\ chunk = 0 => c.piece.car = p /\ c.piece.required = photo.size
  BY <1>0, <1>1, SessionAssumption, PhotoAssumption
     DEF Contents, Pieces, PhotoPieces, GoodContent, Whole, Smooth, AnyCar
<1>3. /\ file \in Seq(Pieces \cup {Junk}) /\ Len(file) = chunk + 1
      /\ \A i \in DOMAIN file : \/ i \in DOMAIN consumer.file /\ file[i] = consumer.file[i]
                                \/ i = chunk + 1 /\ file[i] = c.piece
  BY <1>1, <1>2
<1> HIDE DEF file
<1>4. \A i \in DOMAIN file :
         /\ file[i].kind = "piece" /\ file[i].chunk = i - 1
         /\ file[i].from = p /\ file[i].picture = photo.picture
  <2>1. CASE chunk = 0
    <3>1. DOMAIN consumer.file = {}
      <4> DEFINE old == consumer.file
      <4>1. old \in Seq(Pieces \cup {Junk}) /\ Len(old) = 0
        BY <1>1, <2>1
      <4> HIDE DEF old
      <4>2. DOMAIN old = {}
        BY <4>1
      <4> QED BY <4>2 DEF old
    <3>2. \A i \in DOMAIN file : i = chunk + 1 /\ file[i] = c.piece
      BY <1>3, <3>1
    <3>3. chunk + 1 - 1 = chunk
      BY <1>1
    <3> QED BY <1>0, <1>1, <1>2, <3>2, <3>3
  <2>2. CASE chunk > 0
    <3>1. consumer.car = p
      BY <1>0, <1>2, <2>2 DEF Growing
    <3>2. \A i \in DOMAIN consumer.file :
             /\ consumer.file[i].kind = "piece" /\ consumer.file[i].chunk = i - 1
             /\ consumer.file[i].from = p /\ consumer.file[i].picture = photo.picture
      BY <1>0, <2>2, <3>1 DEF Growing
    <3> QED BY <1>0, <1>1, <1>2, <1>3, <3>2
  <2> QED BY <1>1, <2>1, <2>2
<1> DEFINE done == photo.size = chunk + 1
           written == [consumer EXCEPT !.file = file, !.car = p, !.required = photo.size]
<1>5. consumer' = Chunked(written, done)
  <2> DEFINE bytes == <<c.piece>>
  <2>0. bytes[1] = c.piece /\ StoreChunk(bytes) /\ file = consumer.file \o bytes
    BY DEF file
  <2> HIDE DEF bytes
  <2>1. CASE chunk = 0
    <3>1. PICK h \in HeaderIn(c.piece) :
             consumer' = Chunked([[consumer EXCEPT !.file = @ \o bytes]
                                    EXCEPT !.car = h.car, !.required = h.required],
                                 h.required = 1)
      BY <1>0, <2>0, <2>1 DEF StoreChunk
    <3>2. h.car = p /\ h.required = photo.size
      BY <1>2, <2>1, <3>1 DEF HeaderIn
    <3>3. (h.required = 1) = done
      BY <2>1, <3>2
    <3>4. [[consumer EXCEPT !.file = @ \o bytes] EXCEPT !.car = h.car, !.required = h.required]
          = written
      BY <1>1, <2>0, <3>2 DEF Consumers
    <3> QED BY <3>1, <3>3, <3>4
  <2>2. CASE chunk > 0
    <3>0. consumer.chunk # 0
      BY <1>0, <1>1, <2>2
    <3>1. consumer' = Chunked([consumer EXCEPT !.file = @ \o bytes],
                              consumer.required = consumer.chunk + 1)
      BY <2>0, <3>0 DEF StoreChunk
    <3>2. consumer.car = p /\ consumer.required = photo.size
      BY <1>0, <1>2, <2>2 DEF Growing
    <3>3. (consumer.required = consumer.chunk + 1) = done
      BY <1>0, <3>2
    <3>4. [consumer EXCEPT !.file = @ \o bytes] = written
      BY <1>1, <2>0, <3>2 DEF Consumers
    <3> QED BY <3>1, <3>3, <3>4
  <2> QED BY <1>1, <2>1, <2>2
<1>6. /\ written \in Consumers
      /\ written.when = when /\ written.chunk = chunk /\ written.car = p
      /\ written.required = photo.size /\ written.file = file
      /\ written.answers = consumer.answers
  BY <1>0, <1>1, <1>2, <1>3 DEF Consumers, Cars
<1>7. done \in BOOLEAN /\ consumer.answers + 1 \in 0 .. MaxAnswers[service] /\ service = "photo"
  BY <1>1, AnswersAssumption DEF Asking, Consumers, Typed, SessionTyped, Smooth
<1> DEFINE after == consumer'
<1> HIDE DEF file, done, written, after
<1>8. /\ after.pc = IF done THEN "new" ELSE "send"
      /\ after.when = when /\ after.chunk = chunk + 1
      /\ after.ask = PhotoName(when, p, chunk + 1)
      /\ after.car = p /\ after.required = photo.size /\ after.file = file
  <2>1. written.when \in Requests /\ written.answers + 1 \in 0 .. MaxAnswers[service]
    BY <1>1, <1>6, <1>7
  <2>2. after = Chunked(written, done)
    BY <1>5 DEF after
  <2>3. /\ after.pc = IF done THEN "new" ELSE "send"
        /\ after.when = written.when /\ after.chunk = written.chunk + 1
        /\ after.ask = PhotoName(written.when, written.car, written.chunk + 1)
        /\ after.car = written.car /\ after.required = written.required
        /\ after.file = written.file
    BY <1>6, <1>7, <2>1, <2>2, ChunkedIs
  <2> QED BY <1>6, <2>3
<1>9. Held(p, when)' = photo /\ Whole(p, when)'
  BY <1>0, <1>2 DEF Held, Whole
<1>10. OnePhoto'
  <2>1. \A i \in DOMAIN file : 1 \in DOMAIN file
    BY <1>1, <1>3
  <2> QED BY <1>4, <1>8, <2>1 DEF OnePhoto, after
<1>11. ASSUME after.pc \in {"send", "wait"}
       PROVE  Growing'
  <2>1. chunk + 1 < photo.size
    <3>1. photo.size # chunk + 1
      BY <1>8, <1>11 DEF done
    <3>2. CASE chunk = 0
      BY <1>2, <3>1, <3>2
    <3>3. CASE chunk > 0
      BY <1>0, <1>1, <1>2, <3>1, <3>3 DEF Growing, GoodName
    <3> QED BY <1>1, <3>2, <3>3
  <2>2. PICK name \in PhotoNames : name = after.ask
    BY <1>1, <1>2, <1>8 DEF PhotoName, PhotoNames, Cars
  <2>3. name.car = p /\ name.when = when /\ name.chunk = chunk + 1
    BY <1>8, <2>2 DEF PhotoName
  <2>4. GoodName(name)'
    BY <1>2, <1>9, <2>1, <2>3 DEF GoodName
  <2> QED BY <1>1, <1>2, <1>3, <1>4, <1>8, <1>9, <2>2, <2>4 DEF Growing, after
<1> QED BY <1>10, <1>11 DEF FileGood, after

LEMMA FileGoodStep ==
    ASSUME Typed, Smooth, Smooth', InStep, StorageGood, TrafficGood, FileGood, [Next]_vars
    PROVE  FileGood'
<1>0. PhotosStay
  BY PhotosKept
<1>1. mishaps \cap {"resent", "merged"} = {} /\ mishaps' \cap {"resent", "merged"} = {}
  BY DEF Smooth
<1>2. consumer \in Consumers
  BY DEF Typed, ConsumerTyped
<1>3. ASSUME UNCHANGED <<consumer.when, consumer.car, consumer.chunk, consumer.ask,
                         consumer.file, consumer.required>>,
             consumer'.pc \in {"send", "wait"} => consumer.pc \in {"send", "wait"}
      PROVE  FileGood'
  <2>1. OnePhoto'
    BY <1>3 DEF FileGood, OnePhoto
  <2>2. consumer'.pc \in {"send", "wait"} => Growing'
    BY <1>0, <1>3, GrowingStays DEF FileGood
  <2> QED BY <2>1, <2>2 DEF FileGood
<1>4. CASE Ask
  <2>1. PICK r \in Requests :
          consumer' = [consumer EXCEPT !.pc = "send", !.overdue = FALSE,
                          !.when = r, !.ask = PhotoName(r, AnyCar, 0), !.chunk = 0,
                          !.required = Unknown, !.car = AnyCar, !.file = << >>]
    BY <1>4 DEF Ask, NewPhoto, Smooth
  <2>2. /\ consumer'.when = r /\ consumer'.ask = PhotoName(r, AnyCar, 0)
        /\ consumer'.chunk = 0 /\ consumer'.car = AnyCar /\ consumer'.file = << >>
    BY <1>2, <2>1 DEF Consumers
  <2>3. PICK name : name = PhotoName(r, AnyCar, 0)
    OBVIOUS
  <2>4. GoodName(name)'
    BY <2>3 DEF GoodName, PhotoName
  <2>5. Growing'
    BY <2>2, <2>3, <2>4 DEF Growing
  <2>6. OnePhoto'
    BY <2>2 DEF OnePhoto
  <2> QED BY <2>5, <2>6 DEF FileGood
<1>5. CASE Express \/ SelectFails
  BY <1>2, <1>3, <1>5 DEF Express, SelectFails, Consumers
<1>6. CASE Timeout
  BY <1>1, <1>6 DEF Timeout
<1>7. CASE Asking /\ Read
  <2>1. /\ Len(socket) = 1
        /\ \/ /\ socket[1].kind = "content"
              /\ Store([first |-> socket[1], more |-> FALSE, left |-> << >>])
           \/ NothingRead
    BY <1>1, <1>7, PlainRead
  <2>2. consumer.pc = "wait" /\ UNCHANGED <<producer, service>>
    BY <1>7 DEF Read
  <2>3. CASE NothingRead
    BY <1>2, <1>3, <2>2, <2>3 DEF NothingRead, AfterReading, Consumers
  <2>4. CASE /\ socket[1].kind = "content"
             /\ Store([first |-> socket[1], more |-> FALSE, left |-> << >>])
    <3>1. 1 \in DOMAIN socket /\ socket[1] \in Messages
      BY <2>1 DEF Typed, SessionTyped
    <3>2. PICK c \in Contents : c = socket[1]
      BY <2>4, <3>1 DEF Messages, StrayInterest, Remainder
    <3>3. GoodContent(c) /\ c.name = consumer.ask
      BY <1>1, <2>4, <3>1, <3>2 DEF TrafficGood, InStep
    <3>4. <<c.piece>> \o << >> = <<c.piece>>
      BY TwoSingles
    <3>5. StoreChunk(<<c.piece>>)
      BY <2>4, <3>2, <3>4 DEF Store, Smooth
    <3> QED BY <1>7, <2>2, <3>3, <3>5, ChunkStored DEF FileGood
  <2> QED BY <2>1, <2>3, <2>4
<1>8. CASE UNCHANGED consumer
  BY <1>3, <1>8
<1> QED BY <1>4, <1>5, <1>6, <1>7, <1>8
    DEF Next, Consumer, Start, AddRoute, Report, Serve, Stop, World, vars

-----------------------------------------------------------------------------
(* The invariant, and what follows from it. *)

LEMMA AppInit == ASSUME Init PROVE AppInv
<1>1. InStep
  BY DEF Init, SessionInit, InStep
<1>2. PhotoSound
  <2>1. \A p \in Producers, r \in Requests : Held(p, r) = NotTaken
    BY DEF Init, Held, EmptyStorage
  <2> QED BY <2>1 DEF Init, SessionInit, PhotoSound, StorageGood, TrafficGood, FileGood, OnePhoto
<1> QED BY <1>1, <1>2, TypedInit DEF AppInv

LEMMA AppStep ==
    ASSUME AppInv, [Next]_vars
    PROVE  AppInv'
<1>1. Typed' /\ InStep'
  BY TypedStep, InStepStep DEF AppInv
<1>2. ASSUME Smooth'
      PROVE  (StorageGood /\ TrafficGood /\ FileGood)'
  <2>1. service' = service
    BY DEF Next, Consumer, Ask, Express, Timeout, Expired, SelectFails, Read, Start, AddRoute,
           Report, Serve, Stop, vars
  <2>2. Smooth
    BY <1>2, <2>1, MishapsRemain DEF Smooth
  <2>3. Typed /\ InStep /\ StorageGood /\ TrafficGood /\ FileGood
    BY <2>2 DEF AppInv, PhotoSound
  <2> QED BY <1>1, <1>2, <2>2, <2>3, PhotosKept, TrafficGoodStep, FileGoodStep
<1> QED BY <1>1, <1>2 DEF AppInv, PhotoSound

LEMMA AppAlways == Spec => []AppInv
  BY AppInit, AppStep, PTL DEF Spec

(***************************************************************************)
(* The four programs, the daemons and what is between them keep their      *)
(* types; the content store never holds two contents of one name.          *)
(***************************************************************************)
THEOREM ApplicationsTypeCorrect == Spec => []TypeOK
<1>1. AppInv => TypeOK
  <2> SUFFICES ASSUME Typed PROVE TypeOK
    BY DEF AppInv
  <2>1. SessionTypeOK
    BY DEF Typed, SessionTyped, SessionTypeOK, Contents
  <2>2. \A p \in Producers : producer[p] \in ProducerStates
    BY DEF Typed, ProducersTyped
  <2>3. consumer \in Consumers
    BY DEF Typed, ConsumerTyped
  <2> QED BY <2>1, <2>2, <2>3 DEF TypeOK, Consumers, Cars, ProducerStates, Photos
<1> QED BY <1>1, AppAlways, PTL

(***************************************************************************)
(* However many cars are asked, move, answer late or twice, the file of    *)
(* photo-consumer holds the first chunks of one picture of one car, in     *)
(* order, while no Interest is sent twice, no messages merge and no        *)
(* producer restarts: though StoreChunk compares no names.                 *)
(***************************************************************************)
THEOREM OnePhotoOfOneCar == Spec => []PhotoIntact
<1>1. AppInv => PhotoIntact
  BY DEF AppInv, PhotoSound, Smooth, FileGood, OnePhoto, PhotoIntact
<1> QED BY <1>1, AppAlways, PTL

(***************************************************************************)
(* What either consumer takes for the answer to its last Interest is that, *)
(* while no Interest is sent twice and no messages merge, whatever else is *)
(* lost, cached, restarted or sent to it.                                  *)
(***************************************************************************)
THEOREM AnswersBelongToQuestions == Spec => AnswersAsked
<1>1. ASSUME AppInv, [Next]_vars
      PROVE  [ consumer.pc = "wait" /\ consumer'.file # consumer.file
               /\ mishaps' \cap {"resent", "merged"} = {}
               => Head(socket).name = consumer.ask ]_vars
  <2> SUFFICES ASSUME consumer.pc = "wait", consumer'.file # consumer.file,
                      mishaps' \cap {"resent", "merged"} = {}
               PROVE  Head(socket).name = consumer.ask
    OBVIOUS
  <2>1. consumer \in Consumers
    BY <1>1 DEF AppInv, Typed, ConsumerTyped
  <2>2. Read
    BY <1>1, <2>1 DEF Next, Consumer, Ask, Express, Timeout, Expired, SelectFails, Start, AddRoute,
                Report, Serve, Stop, World, vars, Consumers
  <2>3. Len(socket) = 1 /\ (socket[1].kind = "content" \/ NothingRead)
    BY <1>1, <2>2, PlainRead DEF AppInv
  <2>4. socket[1].kind = "content"
    BY <2>1, <2>3 DEF NothingRead, AfterReading, Consumers
  <2>5. mishaps \cap {"resent", "merged"} = {}
    BY <1>1, MishapsRemain
  <2>6. 1 \in DOMAIN socket /\ Head(socket) = socket[1]
    BY <1>1, <2>3 DEF AppInv, Typed, SessionTyped
  <2> QED BY <1>1, <2>4, <2>5, <2>6 DEF AppInv, InStep
<1> QED BY <1>1, AppAlways, PTL DEF Spec, AnswersAsked

=============================================================================
