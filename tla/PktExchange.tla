----------------------------- MODULE PktExchange -----------------------------
(***************************************************************************)
(* The shared memory of an adhoc face: two rings of NDNDevicePktExchange   *)
(* slots, "out" written by ndnd's main thread (NDNAdhocNetDeviceFace) and  *)
(* read by the device thread (NDNDeviceAdapter), "in" the other way round. *)
(* Each slot has a semaphore and a flag, each ring an eventfd that counts  *)
(* the packets announced and not yet taken.                                *)
(*                                                                         *)
(* When the device thread fails, its adapter is destroyed, which closes    *)
(* both eventfds, and a new one starts from slot 0.  The numbers of closed *)
(* descriptors then denote sockets of the new adapter: no node runs gpsd   *)
(* here, so waiting for a packet from ndnd fails again, and announcing one *)
(* to it is in vain.  The rings are fresh zero pages: no flag is set at    *)
(* the start.                                                              *)
(***************************************************************************)
EXTENDS Integers, Sequences, FiniteSets

CONSTANTS
    Size,         \* NDNDevicePktExchangeSize
    MaxPackets,   \* bound: packets offered in each direction
    MaxFailures   \* bound: failures of the device's socket

ASSUME BoundAssumption ==
    Size \in Nat \ {0} /\ MaxPackets \in Nat /\ MaxFailures \in Nat

Direction == {"out", "in"}
Thread == {"daemon", "device"}
Slot == 0 .. Size - 1

WritesTo(t) == IF t = "daemon" THEN "out" ELSE "in"
ReadsFrom(t) == IF t = "daemon" THEN "in" ELSE "out"
Writer(d) == CHOOSE t \in Thread : WritesTo(t) = d
Reader(d) == CHOOSE t \in Thread : ReadsFrom(t) = d

VARIABLES
    pc,         \* where each thread is: see Stage
    sem,        \* mutex of each slot
    used,       \* used flag of each slot
    data,       \* the packet in each slot (0: none yet)
    windex,     \* the writer's index
    rindex,     \* the reader's index
    trigger,    \* value of each eventfd
    open,       \* the eventfds are open
    offered,    \* packets offered so far; they are numbered in this order
    delivered,  \* history: the last packet copied out of each ring
    failures    \* failures of the device's socket so far

slots == <<sem, used, data>>
fds == <<trigger, open>>
vars == <<pc, slots, windex, rindex, fds, offered, delivered, failures>>

(***************************************************************************)
(* "idle": in the event loop (select for the device).  A writer waits for  *)
(* the slot ("lockW"), fills it ("fill") and announces it ("ring").  A     *)
(* reader has taken an announcement; the device looks at the flag first    *)
(* ("check"); it waits for the slot ("lockR") and copies it ("copy").      *)
(* "dead": start() has returned.  "exited": no new adapter could be made.  *)
(***************************************************************************)
Stage == {"idle", "lockW", "fill", "ring", "check", "lockR", "copy", "dead", "exited"}

Init ==
    /\ pc = [t \in Thread |-> "idle"]
    /\ sem = [d \in Direction |-> [i \in Slot |-> 1]]
    /\ used = [d \in Direction |-> [i \in Slot |-> FALSE]]
    /\ data = [d \in Direction |-> [i \in Slot |-> 0]]
    /\ windex = [d \in Direction |-> 0]
    /\ rindex = [d \in Direction |-> 0]
    /\ trigger = [d \in Direction |-> 0]
    /\ open = TRUE
    /\ offered = [d \in Direction |-> 0]
    /\ delivered = [d \in Direction |-> 0]
    /\ failures = 0

Goto(t, stage) == pc' = [pc EXCEPT ![t] = stage]

(* Mutant: the index does not wrap around. *)
NextIndex(i) == i + 1

Successor(i) == (i + 1) % Size

(* sem_wait returns; sem_post.  Mutants: it never waits; it is left out. *)
AlwaysFree(d, i) == TRUE

Free(d, i) == sem[d][i] = 1

Taken(d, i) == [sem EXCEPT ![d][i] = 0]

StillTaken(d, i) == sem

Posted(d, i) == [sem EXCEPT ![d][i] = 1]

(* The writer's next slot holds a packet.  Mutant: nobody looks. *)
NeverInUse(d) == FALSE

InUse(d) == used[d][windex[d]]

(* The reader is done with a slot.  Mutant: its flag is not cleared. *)
StillUsed(d, i) == used

Emptied(d, i) == [used EXCEPT ![d][i] = FALSE]

-----------------------------------------------------------------------------
(* Writing: Send and writeMessageToNDN. *)

Offer(t) ==
    LET d == WritesTo(t)
    IN
    /\ pc[t] = "idle" /\ offered[d] < MaxPackets
    /\ Goto(t, "lockW")
    /\ offered' = [offered EXCEPT ![d] = @ + 1]
    /\ UNCHANGED <<slots, windex, rindex, fds, delivered, failures>>

LockForWriting(t) ==
    LET d == WritesTo(t)
    IN
    /\ pc[t] = "lockW" /\ Free(d, windex[d])
    /\ sem' = Taken(d, windex[d])
    /\ Goto(t, "fill")
    /\ UNCHANGED <<used, data, windex, rindex, fds, offered, delivered, failures>>

(* The slot is still in use: the early return leaves the semaphore taken.  *)
(* Neither caller looks at the result: both go back to their loops.        *)
Refuse(t) ==
    LET d == WritesTo(t)
    IN
    /\ pc[t] = "fill" /\ InUse(d)
    /\ Goto(t, "idle")
    /\ UNCHANGED <<slots, windex, rindex, fds, offered, delivered, failures>>

Fill(t) ==
    LET d == WritesTo(t)
        i == windex[d]
    IN
    /\ pc[t] = "fill" /\ ~InUse(d)
    /\ used' = [used EXCEPT ![d][i] = TRUE]
    /\ data' = [data EXCEPT ![d][i] = offered[d]]
    /\ sem' = Posted(d, i)
    /\ windex' = [windex EXCEPT ![d] = Successor(i)]
    /\ Goto(t, "ring")
    /\ UNCHANGED <<rindex, fds, offered, delivered, failures>>

Announce(t) ==
    LET d == WritesTo(t)
    IN
    /\ pc[t] = "ring"
    /\ Goto(t, "idle")
    /\ trigger' = IF open THEN [trigger EXCEPT ![d] = @ + 1] ELSE trigger
    /\ UNCHANGED <<slots, windex, rindex, open, offered, delivered, failures>>

-----------------------------------------------------------------------------
(* Reading: readHandler and readMessageFromNDN. *)

Take(t) ==
    LET d == ReadsFrom(t)
    IN
    /\ pc[t] = "idle" /\ open /\ trigger[d] > 0
    /\ trigger' = [trigger EXCEPT ![d] = @ - 1]
    /\ Goto(t, IF t = "device" THEN "check" ELSE "lockR")
    /\ UNCHANGED <<slots, windex, rindex, open, offered, delivered, failures>>

(* "ERROR outgoingSharedIndex is not used": read without the semaphore. *)
CheckUsed(t) ==
    LET d == ReadsFrom(t)
    IN
    /\ pc[t] = "check"
    /\ Goto(t, IF used[d][rindex[d]] THEN "lockR" ELSE "dead")
    /\ UNCHANGED <<slots, windex, rindex, fds, offered, delivered, failures>>

LockForReading(t) ==
    LET d == ReadsFrom(t)
    IN
    /\ pc[t] = "lockR" /\ Free(d, rindex[d])
    /\ sem' = Taken(d, rindex[d])
    /\ Goto(t, "copy")
    /\ UNCHANGED <<used, data, windex, rindex, fds, offered, delivered, failures>>

Copy(t) ==
    LET d == ReadsFrom(t)
        i == rindex[d]
    IN
    /\ pc[t] = "copy"
    /\ delivered' = [delivered EXCEPT ![d] = data[d][i]]
    /\ used' = Emptied(d, i)
    /\ sem' = Posted(d, i)
    /\ rindex' = [rindex EXCEPT ![d] = Successor(i)]
    /\ Goto(t, "idle")
    /\ UNCHANGED <<data, windex, fds, offered, failures>>

-----------------------------------------------------------------------------
(* The life of the device thread. *)

MayFail == failures < MaxFailures

(* The socket fails and connectToNDNSocket cannot replace it. *)
SocketFails ==
    /\ pc["device"] = "idle" /\ MayFail
    /\ Goto("device", "dead")
    /\ failures' = failures + 1
    /\ UNCHANGED <<slots, windex, rindex, fds, offered, delivered>>

(* Waiting for ndnd fails when the eventfd has been closed. *)
SelectFails ==
    /\ pc["device"] = "idle" /\ ~open
    /\ Goto("device", "dead")
    /\ UNCHANGED <<slots, windex, rindex, fds, offered, delivered, failures>>

(* Mutant: the eventfds stay open while the new adapter starts from slot 0. *)
RestartInPlace ==
    /\ pc["device"] = "dead"
    /\ Goto("device", "idle")
    /\ windex' = [windex EXCEPT !["in"] = 0]
    /\ rindex' = [rindex EXCEPT !["out"] = 0]
    /\ UNCHANGED <<slots, fds, offered, delivered, failures>>

(***************************************************************************)
(* The adapter is destroyed, and a new one starts with indexes of its own  *)
(* at 0; the face keeps its indexes, the slots keep what they hold.  The   *)
(* thread ends if the new adapter cannot open its socket.                  *)
(***************************************************************************)
Restart ==
    /\ pc["device"] = "dead"
    /\ open' = FALSE
    /\ \/ /\ Goto("device", "idle")
          /\ windex' = [windex EXCEPT !["in"] = 0]
          /\ rindex' = [rindex EXCEPT !["out"] = 0]
          /\ UNCHANGED failures
       \/ /\ MayFail
          /\ failures' = failures + 1
          /\ Goto("device", "exited")
          /\ UNCHANGED <<windex, rindex>>
    /\ UNCHANGED <<slots, trigger, offered, delivered>>

-----------------------------------------------------------------------------
Write(t) == LockForWriting(t) \/ Refuse(t) \/ Fill(t) \/ Announce(t)
Read(t) == Take(t) \/ CheckUsed(t) \/ LockForReading(t) \/ Copy(t)

Next ==
    \/ SocketFails \/ SelectFails \/ Restart
    \/ \E t \in Thread : Offer(t) \/ Write(t) \/ Read(t)

(* Both threads are scheduled; nobody owes a packet or a failure. *)
Fairness ==
    /\ WF_vars(Restart) /\ WF_vars(SelectFails)
    /\ \A t \in Thread : WF_vars(Write(t)) /\ WF_vars(Read(t))

Spec == Init /\ [][Next]_vars

FairSpec == Spec /\ Fairness

-----------------------------------------------------------------------------
TypeOK ==
    /\ pc \in [Thread -> Stage]
    /\ sem \in [Direction -> [Slot -> 0..1]]
    /\ used \in [Direction -> [Slot -> BOOLEAN]]
    /\ data \in [Direction -> [Slot -> 0..MaxPackets]]
    /\ windex \in [Direction -> Slot] /\ rindex \in [Direction -> Slot]
    /\ trigger \in [Direction -> 0..Size]
    /\ open \in BOOLEAN
    /\ offered \in [Direction -> 0..MaxPackets]
    /\ delivered \in [Direction -> 0..MaxPackets]
    /\ failures \in 0..MaxFailures

(***************************************************************************)
(* A reader that has taken an announcement finds a packet in its slot: the *)
(* test of readMessageFromNDN never fails while the adapter lives, and     *)
(* readHandler, which has no test, never reads an old packet.              *)
(***************************************************************************)
ReaderFindsPacket ==
    \A t \in Thread : pc[t] \in {"check", "lockR", "copy"} =>
        used[ReadsFrom(t)][rindex[ReadsFrom(t)]]

(***************************************************************************)
(* Every packet in a slot is announced exactly once: its announcement is   *)
(* still to be made, pending, or in the hands of the reader.               *)
(***************************************************************************)
Reading(d) == pc[Reader(d)] \in {"check", "lockR", "copy"}

EachAnnouncedOnce ==
    open => \A d \in Direction :
        Cardinality({i \in Slot : used[d][i]}) =
            trigger[d] + (IF Reading(d) THEN 1 ELSE 0)
                       + (IF pc[Writer(d)] = "ring" THEN 1 ELSE 0)

(* The two threads are never in the same slot at once. *)
SlotExclusive ==
    \A d \in Direction :
        ~ /\ pc[Writer(d)] = "fill" /\ pc[Reader(d)] = "copy"
          /\ windex[d] = rindex[d]

(***************************************************************************)
(* The two rings are a pair of lossy FIFO channels, whatever fails.  Once  *)
(* the eventfds are closed only a packet already taken gets through.       *)
(***************************************************************************)
Pending(d) ==
    LET count == IF ~open THEN (IF Reading(d) THEN 1 ELSE 0)
                 ELSE Cardinality({i \in Slot : used[d][i]})
    IN  [k \in 1..count |-> data[d][(rindex[d] + k - 1) % Size]]

Channel == INSTANCE PacketChannel WITH
    Capacity <- Size, queue <- [d \in Direction |-> Pending(d)]

ImplementsChannel == Channel!Spec

(***************************************************************************)
(* As long as no writer finds its slot in use and the device lives, every  *)
(* packet filled in is copied out and every call returns: no announcement  *)
(* is lost and no semaphore stays taken between the two threads.           *)
(***************************************************************************)
Refusing == \E t \in Thread : pc[t] = "fill" /\ InUse(WritesTo(t))
DeviceLives == pc["device"] \notin {"dead", "exited"}

Responsive ==
    [](~Refusing /\ DeviceLives) =>
        /\ \A d \in Direction : \A i \in Slot : used[d][i] ~> ~used[d][i]
        /\ \A t \in Thread : pc[t] # "idle" ~> pc[t] = "idle"

-----------------------------------------------------------------------------
(* What comments of the repository say of this code. *)

(***************************************************************************)
(* LLUpperLayerCommunicationService: "If the writer has to write data on   *)
(* an NDNDevicePktExchange that has not been processed yet, it will        *)
(* discard the new data."  ndnd's Send therefore always returns.           *)
(***************************************************************************)
SendReturns == pc["daemon"] # "idle" ~> pc["daemon"] = "idle"
=============================================================================
