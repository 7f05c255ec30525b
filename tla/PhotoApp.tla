------------------------------ MODULE PhotoApp ------------------------------
(***************************************************************************)
(* What photo-consumer and photo-producer do with a message: the consumer  *)
(* asks the cars at some place for a photo, chunk by chunk; the first      *)
(* chunk says how many there are and which car took it, and the rest is    *)
(* asked from that car.  The loops around this are in Applications.        *)
(***************************************************************************)
EXTENDS AppSession

CONSTANTS
    Requests,     \* minutes a photo may be asked for, at one place
    Sizes,        \* chunks a photo may have
    MaxPictures   \* bound: photos taken by each car

ASSUME PhotoAssumption == Sizes \subseteq Nat \ {0} /\ MaxPictures \in Nat

\* requiredChunk = -1; a car that has not been named.
Unknown == -1
AnyCar == 0

PhotoName(when, car, chunk) == [kind |-> "photo", when |-> when, car |-> car, chunk |-> chunk]

\* The chunk of a picture of a car, with what the bytes of the header say.
Piece(p, picture, chunk, car, required) ==
    [kind |-> "piece", from |-> p, picture |-> picture, chunk |-> chunk,
     car |-> car, required |-> required]

-----------------------------------------------------------------------------
(* The consumer *)

\* A new file, and an Interest for any car.
NewPhoto ==
    \E r \in Requests :
        consumer' = [consumer EXCEPT !.pc = "send", !.overdue = FALSE,
                        !.when = r, !.ask = PhotoName(r, AnyCar, 0), !.chunk = 0,
                        !.required = Unknown, !.car = AnyCar, !.file = << >>]

\* The bytes where the header should be: of a chunk that never had one, zeros;
\* of junk, anything.
HeaderIn(piece) ==
    IF piece.kind = "piece" THEN {[car |-> piece.car, required |-> piece.required]}
    ELSE [car : Producers \cup {AnyCar}, required : Sizes]

Chunked(c, photoDone) ==
    [c EXCEPT !.chunk = @ + 1, !.overdue = FALSE,
              !.pc = IF photoDone THEN "new" ELSE "send",
              !.answers = IF photoDone THEN @ + 1 ELSE @,
              !.ask = PhotoName(c.when, c.car, c.chunk + 1)]

\* The content is not compared with the Interest: it is the next chunk.
StoreChunk(bytes) ==
    LET written == [consumer EXCEPT !.file = @ \o bytes]
    IN IF consumer.chunk = 0
       THEN \E h \in HeaderIn(bytes[1]) :
               LET c == [written EXCEPT !.car = h.car, !.required = h.required]
               IN consumer' = Chunked(c, h.required = 1)
       ELSE consumer' = Chunked(written, consumer.required = consumer.chunk + 1)

-----------------------------------------------------------------------------
(* A producer *)

NotTaken == [picture |-> 0, size |-> 0, header |-> FALSE]
EmptyStorage == [r \in Requests |-> NotTaken]

\* Mutant: photos for other cars are sent too.
ForAny(p, name) == TRUE

ForMe(p, name) == name.car \in {p, AnyCar}

\* What is at index chunk of the photo; past its end, anything.
Chunk(p, photo, chunk) ==
    IF chunk = photo.size THEN Junk
    ELSE IF chunk > 0 \/ ~photo.header
    THEN Piece(p, photo.picture, chunk, AnyCar, 0)
    ELSE Piece(p, photo.picture, chunk, p, photo.size)

\* The reply; a chunk that is more than one past the end is refused.
Reply(p, name, photo) ==
    IF name.chunk > photo.size THEN UNCHANGED air
    ELSE sendContent(name, Chunk(p, photo, name.chunk))

(***************************************************************************)
(* fork, fswebcam, wait, open and read.  The status of fswebcam is not     *)
(* looked at: when it fails the file of the last photo is read again.      *)
(***************************************************************************)
Pictures(p) ==
    (IF producer[p].pictures < MaxPictures
     THEN {[picture |-> producer[p].pictures + 1, size |-> s] : s \in Sizes} ELSE {})
    \cup (IF producer[p].pictures > 0
          THEN {[picture |-> producer[p].pictures, size |-> producer[p].fileSize]} ELSE {})

\* The header is written when it is chunk 0 that is asked.
TakePhoto(p, name) ==
    \E taken \in Pictures(p) :
        LET photo == [picture |-> taken.picture, size |-> taken.size,
                      header |-> name.chunk = 0]
        IN /\ producer' = [producer EXCEPT ![p].pictures = taken.picture,
                                           ![p].fileSize = taken.size,
                                           ![p].photoStorage[name.when] = photo]
           /\ Reply(p, name, photo)

\* An Interest for a photo.  The camera or fork may fail, and the Interest is
\* dropped; reading the file may fail, and then it is read for ever.
AnswerPhoto(p, name) ==
    LET photo == producer[p].photoStorage[name.when]
    IN IF ~ForMe(p, name) THEN Dropped
       ELSE IF photo # NotTaken
       THEN Reply(p, name, photo) /\ UNCHANGED <<producer, faults, mishaps>>
       ELSE IF ~producer[p].near THEN WrongPosition(p)
       ELSE \/ TakePhoto(p, name) /\ UNCHANGED <<faults, mishaps>>
            \/ Sick /\ UNCHANGED <<air, producer>>
            \/ Sick /\ Ends(p, "stuck")
=============================================================================
