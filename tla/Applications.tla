---------------------------- MODULE Applications ----------------------------
(***************************************************************************)
(* The four programs under apps: a photo-consumer with photo-producers, or *)
(* a traffic-consumer with traffic-producers.  The loops of the two        *)
(* consumers are the same but for what they do with a content; so are      *)
(* those of the two producers but for how they answer an Interest.         *)
(***************************************************************************)
EXTENDS PhotoApp, TrafficApp

CONSTANT MaxAnswers   \* bound: photos, and speeds, the consumer asks for

ASSUME AnswersAssumption == MaxAnswers \in [{"photo", "traffic"} -> Nat]

VARIABLE service      \* which pair of programs runs

vars == <<session, consumer, producer, service>>

Init ==
    /\ SessionInit
    /\ service \in {"photo", "traffic"}
    /\ consumer = [pc |-> "new", overdue |-> FALSE, when |-> StartMinute,
                   ask |-> NoName, chunk |-> 0, required |-> Unknown, car |-> AnyCar,
                   file |-> << >>, answers |-> 0]
    /\ producer = [p \in Producers |->
                      [pc |-> "serving", near |-> TRUE, located |-> TRUE, pictures |-> 0,
                       fileSize |-> 0, photoStorage |-> EmptyStorage]]

-----------------------------------------------------------------------------
(* The consumer *)

Ask ==
    /\ consumer.pc = "new"
    /\ \/ service = "photo" /\ NewPhoto
       \/ service = "traffic" /\ NewTraffic
    /\ UNCHANGED <<session, producer, service>>

\* The daemon is gone: writing to its socket ends the program.
Express ==
    /\ consumer.pc = "send"
    /\ IF ~daemon
       THEN consumer' = [consumer EXCEPT !.pc = "exited"] /\ UNCHANGED session
       ELSE /\ SendPacket(consumer.ask)
            /\ consumer' = [consumer EXCEPT !.pc = "wait"]
            /\ UNCHANGED <<retransmits, mishaps>>
    /\ UNCHANGED <<producer, service>>

Expired == consumer.pc = "wait" /\ retransmits /\ ~consumer.overdue /\ ~Readable

\* Mutant: a timeout does not send again.
TimeoutSilent ==
    /\ Expired
    /\ mishaps' = mishaps \cup {"resent"}
    /\ UNCHANGED <<retransmits, daemons, socket, network, faults, consumer, producer, service>>

\* The timer of select.
Timeout ==
    /\ Expired
    /\ consumer' = [consumer EXCEPT !.pc = "send"]
    /\ mishaps' = mishaps \cup {"resent"}
    /\ UNCHANGED <<retransmits, daemons, socket, network, faults, producer, service>>

\* setTimerNextDeadline has gone past the deadline: select fails.
SelectFails ==
    /\ consumer.pc = "wait" /\ retransmits /\ consumer.overdue
    /\ consumer' = [consumer EXCEPT !.pc = "exited"]
    /\ UNCHANGED <<session, producer, service>>

Store(m) ==
    LET bytes == <<m.first.piece>> \o (IF m.more THEN <<Junk>> ELSE << >>)
    IN IF service = "photo" THEN StoreChunk(bytes) ELSE ShowAnswer(bytes)

\* What is left of the timer may come out negative.
AfterReading(pc) ==
    \E late \in {FALSE, retransmits} :
        /\ consumer' = [consumer EXCEPT !.pc = pc, !.overdue = late]
        /\ IF late THEN Fault(1) ELSE UNCHANGED faults

\* read returned 0, a packet that is no content: wait on.
NothingRead == AfterReading("wait")

\* read returned -1: "continuing anyway", with the Interest sent again.
ReadFailed == AfterReading("send")

Read ==
    /\ consumer.pc = "wait" /\ ~(retransmits /\ consumer.overdue) /\ Readable
    /\ \E m \in Reads :
          /\ socket' = m.left
          /\ mishaps' = mishaps \cup (IF m.more THEN {"merged"} ELSE {})
                                \cup (IF m.first \in {Remainder, EndOfFile} THEN {"resent"} ELSE {})
          /\ \/ m.first.kind = "content" /\ Store(m) /\ UNCHANGED faults
             \/ m.first.kind = "interest" /\ NothingRead
             \/ m.first.kind \in {"rest", "eof"} /\ ReadFailed
    /\ UNCHANGED <<retransmits, daemons, network, producer, service>>

Consumer == Ask \/ Express \/ Timeout \/ SelectFails \/ Read

-----------------------------------------------------------------------------
(* A producer *)

Serving(p) == producer[p].pc = "serving"

\* The traffic producer registers its prefix.  The photo producer registers
\* "photo", which no Interest for a photo begins with.
Start(p) ==
    /\ producer[p].pc = "start"
    /\ producer' = [producer EXCEPT ![p].pc = "serving"]
    /\ IF service = "traffic" THEN registerName(p) ELSE UNCHANGED routed
    /\ UNCHANGED <<retransmits, daemons, socket, heard, air, faults, mishaps, consumer, service>>

\* The operator adds the prefix of the Interests for the face of the producer.
AddRoute(p) ==
    /\ Serving(p) /\ service = "photo" /\ p \notin routed
    /\ registerName(p)
    /\ UNCHANGED <<retransmits, daemons, socket, heard, air, faults, mishaps,
                   consumer, producer, service>>

\* gpsd reports: the car has come to, or left, the place it is asked about.
\* Before the first report its coordinate is (0, 0).
Report(p) ==
    /\ Serving(p)
    /\ \E near \in BOOLEAN :
          /\ producer' = [producer EXCEPT ![p].near = near, ![p].located = TRUE]
          /\ IF producer[p].near /\ ~near THEN Sick ELSE UNCHANGED <<faults, mishaps>>
    /\ UNCHANGED <<retransmits, daemons, socket, network, consumer, service>>

Serve(p) ==
    /\ Serving(p)
    /\ \E name \in heard[p] :
          /\ ReadInterest(p, name)
          /\ IF service = "photo" THEN AnswerPhoto(p, name) ELSE AnswerTraffic(p, name)
    /\ UNCHANGED <<retransmits, daemons, socket, routed, consumer, service>>

\* The producer ends, by its error paths or by a signal, and its face with it.
Stop(p) ==
    /\ producer[p].pc # "start"
    /\ Fault(1)
    /\ producer' = [producer EXCEPT ![p].pc = "start", ![p].near = FALSE,
                                    ![p].located = FALSE, ![p].photoStorage = EmptyStorage]
    /\ routed' = routed \ {p}
    /\ heard' = [heard EXCEPT ![p] = {}]
    /\ mishaps' = mishaps \cup {"restarted", "sick"}
    /\ UNCHANGED <<retransmits, daemons, socket, air, consumer, service>>

\* What follows the last answer, or the end of the consumer, is not explored.
Asking == consumer.pc # "exited" /\ consumer.answers < MaxAnswers[service]

Next ==
    /\ Asking
    /\ \/ Consumer
       \/ \E p \in Producers : Start(p) \/ AddRoute(p) \/ Report(p) \/ Serve(p) \/ Stop(p)
       \/ World /\ UNCHANGED service

Arrive == Deliver /\ UNCHANGED <<retransmits, mishaps, consumer, producer, service>>

(***************************************************************************)
(* Every program runs on, and what is under way arrives if it is not lost. *)
(* Nothing is assumed of gpsd, of restarts, or of other consumers.         *)
(***************************************************************************)
Fairness ==
    /\ WF_vars(Asking /\ Consumer)
    /\ WF_vars(Asking /\ Arrive)
    /\ \A p \in Producers :
          /\ WF_vars(Asking /\ Start(p))
          /\ WF_vars(Asking /\ AddRoute(p))
          /\ WF_vars(Asking /\ Serve(p))

Spec == Init /\ [][Next]_vars /\ Fairness

-----------------------------------------------------------------------------
TypeOK ==
    /\ SessionTypeOK
    /\ consumer.pc \in {"new", "send", "wait", "exited"}
    /\ consumer.overdue \in BOOLEAN
    /\ consumer.car \in Producers \cup {AnyCar}
    /\ consumer.required \in Sizes \cup {Unknown, 0}
    /\ consumer.answers \in 0 .. MaxAnswers[service]
    /\ \A p \in Producers :
          /\ producer[p].pc \in {"start", "serving", "stuck", "crashed"}
          /\ producer[p].pictures \in 0 .. MaxPictures
          /\ producer[p].photoStorage \in
                [Requests -> [picture : 0 .. MaxPictures, size : Sizes \cup {0}, header : BOOLEAN]]

(***************************************************************************)
(* When no Interest is sent twice, no two messages are read as one and no  *)
(* producer comes back without its photos, the file holds the first chunks *)
(* of one picture of one car, in order, however many cars are asked, move  *)
(* and answer late: the car is named from the second chunk on.             *)
(***************************************************************************)
PhotoIntact ==
    service = "photo" /\ mishaps \cap {"resent", "merged", "restarted"} = {} =>
        \A i \in DOMAIN consumer.file :
            /\ consumer.file[i].kind = "piece" /\ consumer.file[i].chunk = i - 1
            /\ consumer.file[i].from = consumer.file[1].from
            /\ consumer.file[i].picture = consumer.file[1].picture

(***************************************************************************)
(* What a consumer takes for the next chunk, or shows as the speed, is the *)
(* answer to the Interest it has sent last, unless it has sent one twice:  *)
(* it never looks at the name.  Two cars may answer the same Interest, and *)
(* a packet that is no content may come in between.                        *)
(***************************************************************************)
AnswersAsked ==
    [][ /\ consumer.pc = "wait" /\ consumer'.file # consumer.file
        /\ mishaps' \cap {"resent", "merged"} = {}
        => Head(socket).name = consumer.ask ]_vars

(***************************************************************************)
(* With a retransmission timer the first photo or speed is there some day, *)
(* however the bounded losses hit it and whichever cars answer, as long as *)
(* the daemon, the cameras and the position of the cars stay well.         *)
(* (A stream once read in the middle of a message may never be read at a   *)
(* boundary again, and a timer set past its deadline ends the program.)    *)
(***************************************************************************)
AnswerCompletes ==
    retransmits =>
        <>(\/ consumer.answers > 0
           \/ mishaps \cap {"sick", "merged"} # {}
           \/ consumer.pc = "exited")

=============================================================================
