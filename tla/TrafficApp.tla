----------------------------- MODULE TrafficApp -----------------------------
(***************************************************************************)
(* What traffic-consumer and traffic-producer do with a message: the       *)
(* consumer asks for the speed at some place in some minute, and a car     *)
(* that is there answers from a table.                                     *)
(***************************************************************************)
EXTENDS AppSession

CONSTANTS
    Minutes,      \* minutes a speed may be asked for, at one place
    StartMinute,  \* startingTimeDiscretized
    SpeedTable    \* sizeOfSpeedTable

ASSUME TrafficAssumption ==
    Minutes \subseteq Nat /\ StartMinute \in Nat /\ SpeedTable \in Nat \ {0}

TrafficName(when) == [kind |-> "traffic", when |-> when]
Speed(p, offset) == [kind |-> "speed", from |-> p, offset |-> offset]

\* Each request is for a minute of the last hour.
NewTraffic ==
    \E r \in Minutes :
        consumer' = [consumer EXCEPT !.pc = "send", !.overdue = FALSE,
                        !.when = r, !.ask = TrafficName(r), !.file = << >>]

ShowAnswer(bytes) ==
    consumer' = [consumer EXCEPT !.pc = "new", !.file = bytes, !.answers = @ + 1]

\* Minutes before the start and after it share the table.
Offset(when) ==
    (IF StartMinute < when THEN when - StartMinute ELSE StartMinute - when) % SpeedTable

AnswerTraffic(p, name) ==
    IF ~producer[p].near THEN WrongPosition(p)
    ELSE sendContent(name, Speed(p, Offset(name.when))) /\ UNCHANGED <<producer, faults, mishaps>>
=============================================================================
