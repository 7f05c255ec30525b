-------------------------- MODULE PktExchangeProofs --------------------------
(***************************************************************************)
(* Theorems about the shared memory of an adhoc face, for rings of every   *)
(* size, any number of packets and any number of failures.                 *)
(***************************************************************************)
EXTENDS PktExchange, FiniteSetTheorems, SequenceTheorems, TLAPS

-----------------------------------------------------------------------------
(* The inductive invariant. *)

ReadStage == {"check", "lockR", "copy"}

One(b) == IF b THEN 1 ELSE 0

(* Packets filled in and not yet copied out, as the announcements count them. *)
Unread(d) == trigger[d] + One(Reading(d)) + One(pc[Writer(d)] = "ring")

(* How far slot i is ahead of slot r. *)
Ahead(r, i) == IF i >= r THEN i - r ELSE i - r + Size

(* The slot k ahead of slot i, for k up to Size. *)
Onward(i, k) == IF i + k < Size THEN i + k ELSE i + k - Size

(***************************************************************************)
(* While the eventfds are open, the slots in use are the ones from the     *)
(* reader's index up to the writer's: as many as were announced.           *)
(***************************************************************************)
Window ==
    open => \A d \in Direction :
        /\ Unread(d) \in 0..Size
        /\ windex[d] = Onward(rindex[d], Unread(d))
        /\ \A i \in Slot : used[d][i] <=> Ahead(rindex[d], i) < Unread(d)

(* Whoever is inside a slot holds its semaphore. *)
Holding ==
    \A d \in Direction :
        /\ pc[Writer(d)] = "fill" => sem[d][windex[d]] = 0
        /\ pc[Reader(d)] = "copy" => sem[d][rindex[d]] = 0

(* Once the eventfds are closed, the device reads nothing any more. *)
DeafAfterwards == ~open => pc["device"] \notin ReadStage

(* The packet about to be filled in is newer than those ever filled in. *)
Fresh ==
    \A d \in Direction :
        LET newest == offered[d] - One(pc[Writer(d)] \in {"lockW", "fill"})
        IN  newest >= delivered[d] /\ \A i \in Slot : data[d][i] <= newest

RingInv ==
    /\ TypeOK /\ Window /\ Holding /\ SlotExclusive
    /\ DeafAfterwards /\ ReaderFindsPacket /\ EachAnnouncedOnce /\ Fresh

-----------------------------------------------------------------------------
(* Threads, rings and slots. *)

(* Each ring has one thread that writes it and another that reads it. *)
LEMMA Roles ==
    /\ \A t \in Thread : /\ WritesTo(t) \in Direction /\ Writer(WritesTo(t)) = t
                         /\ ReadsFrom(t) \in Direction /\ Reader(ReadsFrom(t)) = t
                         /\ WritesTo(t) # ReadsFrom(t)
    /\ \A d \in Direction : /\ Writer(d) \in Thread /\ WritesTo(Writer(d)) = d
                            /\ Reader(d) \in Thread /\ ReadsFrom(Reader(d)) = d
                            /\ Writer(d) # Reader(d)
    /\ Writer("out") = "daemon" /\ Reader("out") = "device"
    /\ Writer("in") = "device" /\ Reader("in") = "daemon"
<1>1. Writer("out") = "daemon" /\ Reader("out") = "device"
  BY DEF Writer, Reader, WritesTo, ReadsFrom, Thread
<1>2. Writer("in") = "device" /\ Reader("in") = "daemon"
  BY DEF Writer, Reader, WritesTo, ReadsFrom, Thread
<1> QED BY <1>1, <1>2 DEF WritesTo, ReadsFrom, Thread, Direction

(* The index after a slot's is the slot one onward, around the ring. *)
LEMMA SuccessorIsOnward ==
    ASSUME NEW i \in Slot
    PROVE  Successor(i) \in Slot /\ Successor(i) = Onward(i, 1)
<1>1. Size \in Nat /\ Size > 0 /\ i \in 0..(Size - 1)
  BY BoundAssumption DEF Slot
<1>2. CASE i + 1 < Size
  <2>1. (i + 1) % Size = i + 1
    BY <1>1, <1>2
  <2> QED BY <1>1, <1>2, <2>1 DEF Successor, Onward, Slot
<1>3. CASE i + 1 = Size
  <2>1. Size % Size = 0
    BY <1>1
  <2> QED BY <1>1, <1>3, <2>1 DEF Successor, Onward, Slot
<1> QED BY <1>1, <1>2, <1>3

(* Going onward from a slot r, around the ring and back. *)
LEMMA OnwardAround ==
    ASSUME NEW r \in Slot, NEW i \in Slot, NEW k \in 0..Size
    PROVE  /\ Onward(r, k) \in Slot
           /\ Ahead(r, i) \in 0..(Size - 1) /\ Onward(r, Ahead(r, i)) = i
           /\ k < Size => Ahead(r, Onward(r, k)) = k
           /\ k = Size => Onward(r, k) = r
           /\ k < Size => Onward(Onward(r, k), 1) = Onward(r, k + 1)
           /\ k > 0 => Onward(Onward(r, 1), k - 1) = Onward(r, k)
           /\ Ahead(r, r) = 0 /\ Onward(r, 1) \in Slot
           /\ i # r => Ahead(r, i) > 0 /\ Ahead(Onward(r, 1), i) = Ahead(r, i) - 1
           /\ Ahead(Onward(r, 1), r) = Size - 1
  BY BoundAssumption DEF Onward, Ahead, Slot

(* What a restart changes, one variable at a time. *)
RestartEffect ==
    /\ UNCHANGED <<sem, used, data, trigger, offered, delivered>>
    /\ pc["device"] = "dead" /\ open' = FALSE
    /\ \/ pc' = [pc EXCEPT !["device"] = "idle"]
       \/ pc' = [pc EXCEPT !["device"] = "exited"]
    /\ \/ windex' = [windex EXCEPT !["in"] = 0] /\ rindex' = [rindex EXCEPT !["out"] = 0]
       \/ windex' = windex /\ rindex' = rindex
    /\ \/ failures' = failures
       \/ failures < MaxFailures /\ failures' = failures + 1

LEMMA RestartDoes ==
    ASSUME Restart
    PROVE  RestartEffect
<1>1. UNCHANGED <<sem, used, data, trigger, offered, delivered>>
  BY DEF Restart, slots
<1>2. pc["device"] = "dead" /\ open' = FALSE
  BY DEF Restart
<1>3. \/ pc' = [pc EXCEPT !["device"] = "idle"]
      \/ pc' = [pc EXCEPT !["device"] = "exited"]
  BY DEF Restart, Goto
<1>4. \/ windex' = [windex EXCEPT !["in"] = 0] /\ rindex' = [rindex EXCEPT !["out"] = 0]
      \/ windex' = windex /\ rindex' = rindex
  BY DEF Restart
<1>5. \/ failures' = failures
      \/ failures < MaxFailures /\ failures' = failures + 1
  BY DEF Restart, MayFail
<1> QED BY <1>1, <1>2, <1>3, <1>4, <1>5 DEF RestartEffect

(* The slots of a ring are finitely many. *)
LEMMA SlotsFinite ==
    /\ IsFiniteSet(Slot) /\ Cardinality(Slot) = Size
    /\ \A S \in SUBSET Slot : /\ IsFiniteSet(S) /\ Cardinality(S) \in 0..Size
<1>1. Size \in Nat /\ Size > 0
  BY BoundAssumption
<1>2. IsFiniteSet(Slot) /\ Cardinality(Slot) = Size
  BY <1>1, FS_Interval DEF Slot
<1> QED BY <1>2, FS_Subset, FS_CardinalityType

-----------------------------------------------------------------------------
(* Each part of the inductive invariant is preserved by every step. *)

LEMMA TypeStep ==
    ASSUME RingInv, Next
    PROVE  TypeOK'
<1>0. /\ \A t \in Thread : /\ WritesTo(t) \in Direction /\ ReadsFrom(t) \in Direction
                           /\ Writer(WritesTo(t)) = t
      /\ 0 \in Slot
  BY Roles, BoundAssumption DEF Slot
<1>1. CASE Restart
  <2>0. RestartEffect
    BY <1>1, RestartDoes
  <2>1. pc' \in [Thread -> Stage]
    BY <2>0 DEF RestartEffect, RingInv, TypeOK, Stage
  <2>2. windex' \in [Direction -> Slot] /\ rindex' \in [Direction -> Slot]
    <3>1. windex \in [Direction -> Slot] /\ rindex \in [Direction -> Slot]
      BY DEF RingInv, TypeOK
    <3>2. \/ windex' = [windex EXCEPT !["in"] = 0] /\ rindex' = [rindex EXCEPT !["out"] = 0]
          \/ windex' = windex /\ rindex' = rindex
      BY <2>0 DEF RestartEffect
    <3> QED BY <1>0, <3>1, <3>2
  <2>3. failures' \in 0..MaxFailures
    BY <2>0, BoundAssumption DEF RestartEffect, RingInv, TypeOK
  <2> QED BY <2>0, <2>1, <2>2, <2>3 DEF RestartEffect, RingInv, TypeOK
<1> USE BoundAssumption DEF RingInv, TypeOK, Goto, slots, fds
<1>2. CASE SocketFails \/ SelectFails
  BY <1>2 DEF SocketFails, SelectFails, MayFail, Stage, Thread
<1>3. ASSUME NEW t \in Thread, Offer(t)
      PROVE  TypeOK'
  BY <1>0, <1>3 DEF Offer, Stage
<1>4. ASSUME NEW t \in Thread, LockForWriting(t)
      PROVE  TypeOK'
  BY <1>0, <1>4 DEF LockForWriting, Taken, Stage
<1>5. ASSUME NEW t \in Thread, LockForReading(t)
      PROVE  TypeOK'
  BY <1>0, <1>5 DEF LockForReading, Taken, Stage
<1>6. ASSUME NEW t \in Thread, Fill(t)
      PROVE  TypeOK'
  BY <1>0, <1>6, SuccessorIsOnward DEF Fill, Posted, Stage
<1>7. ASSUME NEW t \in Thread, Announce(t)
      PROVE  TypeOK'
  <2>1. open => trigger[WritesTo(t)] + 1 \in 0..Size
    <3>1. pc[Writer(WritesTo(t))] = "ring"
      BY <1>0, <1>7 DEF Announce
    <3>2. open => Unread(WritesTo(t)) \in 0..Size
      BY <1>0 DEF Window
    <3>3. Unread(WritesTo(t)) >= trigger[WritesTo(t)] + 1
      BY <1>0, <3>1 DEF Unread, One
    <3> QED BY <1>0, <3>2, <3>3
  <2> QED BY <1>0, <1>7, <2>1 DEF Announce, Stage
<1>8. ASSUME NEW t \in Thread, Take(t)
      PROVE  TypeOK'
  BY <1>0, <1>8 DEF Take, Stage
<1>9. ASSUME NEW t \in Thread, Copy(t)
      PROVE  TypeOK'
  BY <1>0, <1>9, SuccessorIsOnward DEF Copy, Posted, Emptied, Stage
<1>10. ASSUME NEW t \in Thread, Refuse(t) \/ CheckUsed(t)
       PROVE  TypeOK'
  BY <1>10 DEF Refuse, CheckUsed, Stage
<1> QED BY <1>1, <1>2, <1>3, <1>4, <1>5, <1>6, <1>7, <1>8, <1>9, <1>10 DEF Next, Write, Read

LEMMA HoldingStep ==
    ASSUME RingInv, Next
    PROVE  Holding' /\ SlotExclusive'
<1> DEFINE Held(d) == /\ pc[Writer(d)] = "fill" => sem[d][windex[d]] = 0
                      /\ pc[Reader(d)] = "copy" => sem[d][rindex[d]] = 0
                      /\ ~ /\ pc[Writer(d)] = "fill" /\ pc[Reader(d)] = "copy"
                           /\ windex[d] = rindex[d]
<1> SUFFICES ASSUME NEW d \in Direction
             PROVE  Held(d)'
  BY DEF Holding, SlotExclusive, Writer, Reader
<1>0. /\ Held(d) /\ Writer(d) # Reader(d)
      /\ \A t \in Thread : /\ \/ t = Writer(d) /\ WritesTo(t) = d /\ ReadsFrom(t) # d
                              \/ t = Reader(d) /\ ReadsFrom(t) = d /\ WritesTo(t) # d
                           /\ WritesTo(t) \in Direction /\ ReadsFrom(t) \in Direction
      /\ Writer(d) \in Thread /\ Reader(d) \in Thread
  BY Roles DEF RingInv, Holding, SlotExclusive, Thread, Direction
<1>1. /\ pc \in [Thread -> Stage]
      /\ windex \in [Direction -> Slot] /\ rindex \in [Direction -> Slot]
      /\ sem \in [Direction -> [Slot -> 0..1]]
  BY DEF RingInv, TypeOK
<1>2. CASE SocketFails \/ SelectFails
  <2>1. /\ UNCHANGED <<sem, windex, rindex>> /\ pc' = [pc EXCEPT !["device"] = "dead"]
    BY <1>2 DEF SocketFails, SelectFails, Goto, slots
  <2> QED BY <1>0, <1>1, <2>1
<1>3. CASE Restart
  <2>1. RestartEffect
    BY <1>3, RestartDoes
  <2>2. pc["device"] = "dead" /\ sem' = sem
    BY <2>1 DEF RestartEffect
  <2>3. \/ pc' = [pc EXCEPT !["device"] = "idle"]
        \/ pc' = [pc EXCEPT !["device"] = "exited"]
    BY <2>1 DEF RestartEffect
  <2>4. pc'["device"] # "fill" /\ pc'["device"] # "copy" /\ pc'["daemon"] = pc["daemon"]
    BY <1>1, <2>3 DEF Thread
  <2>5. windex'["out"] = windex["out"] /\ rindex'["in"] = rindex["in"]
    BY <1>1, <2>1 DEF RestartEffect, Direction
  <2>6. CASE d = "out"
    BY <1>0, <2>2, <2>4, <2>5, <2>6, Roles
  <2>7. CASE d = "in"
    BY <1>0, <2>2, <2>4, <2>5, <2>7, Roles
  <2> QED BY <2>6, <2>7 DEF Direction
<1>4. ASSUME NEW t \in Thread, Offer(t) \/ Refuse(t) \/ CheckUsed(t) \/ Announce(t) \/ Take(t)
      PROVE  Held(d)'
  <2>1. /\ UNCHANGED <<sem, windex, rindex>>
        /\ \E stage \in Stage \ {"fill", "copy"} : pc' = [pc EXCEPT ![t] = stage]
    BY <1>4 DEF Offer, Refuse, CheckUsed, Announce, Take, Goto, slots, Stage
  <2> QED BY <1>0, <1>1, <2>1
<1> USE DEF Goto
<1>5. ASSUME NEW t \in Thread, LockForWriting(t)
      PROVE  Held(d)'
  BY <1>0, <1>1, <1>5 DEF LockForWriting, Free, Taken
<1>6. ASSUME NEW t \in Thread, LockForReading(t)
      PROVE  Held(d)'
  BY <1>0, <1>1, <1>6 DEF LockForReading, Free, Taken
<1>7. ASSUME NEW t \in Thread, Fill(t)
      PROVE  Held(d)'
  BY <1>0, <1>1, <1>7 DEF Fill, Posted
<1>8. ASSUME NEW t \in Thread, Copy(t)
      PROVE  Held(d)'
  BY <1>0, <1>1, <1>8 DEF Copy, Posted
<1> QED BY <1>2, <1>3, <1>4, <1>5, <1>6, <1>7, <1>8 DEF Next, Write, Read

-----------------------------------------------------------------------------
(* What a step does to one ring while the eventfds are open. *)

Quiet(d) ==
    /\ Unread(d)' = Unread(d)
    /\ windex'[d] = windex[d] /\ rindex'[d] = rindex[d]
    /\ used'[d] = used[d] /\ data'[d] = data[d]
    /\ delivered'[d] = delivered[d]

Filled(d) ==
    /\ pc[Writer(d)] = "fill" /\ ~ used[d][windex[d]]
    /\ Unread(d)' = Unread(d) + 1
    /\ windex'[d] = Successor(windex[d]) /\ rindex'[d] = rindex[d]
    /\ used'[d] = [used[d] EXCEPT ![windex[d]] = TRUE]
    /\ data'[d] = [data[d] EXCEPT ![windex[d]] = offered[d]]
    /\ delivered'[d] = delivered[d]

Copied(d) ==
    /\ Reading(d)
    /\ Unread(d)' = Unread(d) - 1
    /\ windex'[d] = windex[d] /\ rindex'[d] = Successor(rindex[d])
    /\ used'[d] = [used[d] EXCEPT ![rindex[d]] = FALSE]
    /\ data'[d] = data[d]
    /\ delivered'[d] = data[d][rindex[d]]

(* Every step fills or empties at most one slot of at most one ring. *)
LEMMA RingStep ==
    ASSUME RingInv, Next, open'
    PROVE  \E e \in Direction :
               /\ Quiet(e) \/ Filled(e) \/ Copied(e)
               /\ \A d \in Direction \ {e} : Quiet(d)
<1>0. /\ \A d \in Direction : Writer(d) # Reader(d) /\ Writer(d) \in Thread /\ Reader(d) \in Thread
      /\ \A t \in Thread : /\ Writer(WritesTo(t)) = t /\ Reader(ReadsFrom(t)) = t
                           /\ WritesTo(t) \in Direction /\ ReadsFrom(t) \in Direction
      /\ \A t \in Thread, d \in Direction :
            (d = WritesTo(t) <=> t = Writer(d)) /\ (d = ReadsFrom(t) <=> t = Reader(d))
  BY Roles
<1>1. /\ pc \in [Thread -> Stage]
      /\ windex \in [Direction -> Slot] /\ rindex \in [Direction -> Slot]
      /\ trigger \in [Direction -> Nat]
      /\ delivered \in [Direction -> 0..MaxPackets]
  BY BoundAssumption DEF RingInv, TypeOK
<1>2. /\ used \in [Direction -> [Slot -> BOOLEAN]]
      /\ data \in [Direction -> [Slot -> 0..MaxPackets]]
  BY DEF RingInv, TypeOK
<1>3. \A d \in Direction : \A t \in Thread : t = Writer(d) \/ t = Reader(d)
  BY Roles DEF Thread, Direction
<1> DEFINE Made(d) == One(pc[Writer(d)] = "ring")
           Got(d) == One(pc[Reader(d)] \in ReadStage)
<1>4. \A d \in Direction : /\ Unread(d) = trigger[d] + Got(d) + Made(d)
                           /\ Unread(d)' = trigger'[d] + Got(d)' + Made(d)'
                           /\ Reading(d) <=> Got(d) = 1
                           /\ Got(d) \in 0..1 /\ Got(d)' \in 0..1
                           /\ Made(d) \in 0..1 /\ Made(d)' \in 0..1
  BY DEF Unread, Reading, ReadStage, One
<1> HIDE DEF Made, Got
<1>5. ASSUME NEW t \in Thread, NEW stage \in Stage, Goto(t, stage)
      PROVE  /\ Made(WritesTo(t)) = IF pc[t] = "ring" THEN 1 ELSE 0
             /\ Made(WritesTo(t))' = IF stage = "ring" THEN 1 ELSE 0
             /\ \A d \in Direction \ {WritesTo(t)} : Made(d)' = Made(d)
             /\ Got(ReadsFrom(t)) = IF pc[t] \in ReadStage THEN 1 ELSE 0
             /\ Got(ReadsFrom(t))' = IF stage \in ReadStage THEN 1 ELSE 0
             /\ \A d \in Direction \ {ReadsFrom(t)} : Got(d)' = Got(d)
  BY <1>0, <1>1, <1>5 DEF Goto, Made, Got, One
<1>6. ASSUME NEW t \in Thread, NEW stage \in Stage, Goto(t, stage),
             stage = "ring" <=> pc[t] = "ring", stage \in ReadStage <=> pc[t] \in ReadStage,
             UNCHANGED <<used, data, windex, rindex, trigger, delivered>>
      PROVE  \A d \in Direction : Quiet(d)
  <2>1. \A d \in Direction : Made(d)' = Made(d) /\ Got(d)' = Got(d)
    BY <1>0, <1>5, <1>6
  <2> QED BY <1>4, <1>6, <2>1 DEF Quiet
<1>7. ASSUME NEW t \in Thread, t = "device", SocketFails
      PROVE  \A d \in Direction : Quiet(d)
  BY <1>6, <1>7 DEF SocketFails, Stage, ReadStage, fds, slots
<1>8. CASE SelectFails \/ Restart
  BY <1>8 DEF SelectFails, Restart, fds
<1>9. ASSUME NEW t \in Thread, Offer(t) \/ LockForWriting(t) \/ Refuse(t) \/ LockForReading(t) \/ CheckUsed(t)
      PROVE  \A d \in Direction : Quiet(d)
  <2>1. CASE Offer(t)
    BY <1>6, <2>1 DEF Offer, Stage, ReadStage, fds, slots
  <2>2. CASE LockForWriting(t)
    BY <1>6, <2>2 DEF LockForWriting, Stage, ReadStage, fds, slots
  <2>3. CASE Refuse(t)
    BY <1>6, <2>3 DEF Refuse, Stage, ReadStage, fds, slots
  <2>4. CASE LockForReading(t)
    BY <1>6, <2>4 DEF LockForReading, Stage, ReadStage, fds, slots
  <2>5. CASE CheckUsed(t)
    <3>1. used[ReadsFrom(t)][rindex[ReadsFrom(t)]]
      BY <2>5 DEF CheckUsed, RingInv, ReaderFindsPacket
    <3> QED BY <1>6, <2>5, <3>1 DEF CheckUsed, Stage, ReadStage, fds, slots
  <2> QED BY <1>9, <2>1, <2>2, <2>3, <2>4, <2>5
<1>10. ASSUME NEW t \in Thread, Announce(t)
       PROVE  \A d \in Direction : Quiet(d)
  <2>1. Goto(t, "idle") /\ pc[t] = "ring" /\ UNCHANGED <<used, data, windex, rindex, delivered>>
    BY <1>10 DEF Announce, slots
  <2>2. trigger' = [trigger EXCEPT ![WritesTo(t)] = @ + 1]
    BY <1>10 DEF Announce
  <2>3. \A d \in Direction : /\ Got(d)' = Got(d)
                             /\ d # WritesTo(t) => Made(d)' = Made(d)
                             /\ d = WritesTo(t) => Made(d)' = 0 /\ Made(d) = 1
    BY <1>0, <1>5, <2>1 DEF Stage, ReadStage
  <2>4. \A d \in Direction : Unread(d)' = Unread(d)
    BY <1>1, <1>4, <2>2, <2>3
  <2> QED BY <2>1, <2>4 DEF Quiet
<1>11. ASSUME NEW t \in Thread, Take(t)
       PROVE  \A d \in Direction : Quiet(d)
  <2>1. PICK stage \in {"check", "lockR"} : Goto(t, stage)
    BY <1>11 DEF Take
  <2>2. pc[t] = "idle" /\ UNCHANGED <<used, data, windex, rindex, delivered>>
    BY <1>11 DEF Take, slots
  <2>3. trigger' = [trigger EXCEPT ![ReadsFrom(t)] = @ - 1]
    BY <1>11 DEF Take
  <2>4. \A d \in Direction : /\ Made(d)' = Made(d)
                             /\ d # ReadsFrom(t) => Got(d)' = Got(d)
                             /\ d = ReadsFrom(t) => Got(d)' = 1 /\ Got(d) = 0
    BY <1>0, <1>5, <2>1, <2>2 DEF Stage, ReadStage
  <2>5. \A d \in Direction : Unread(d)' = Unread(d)
    BY <1>1, <1>4, <2>3, <2>4
  <2> QED BY <2>2, <2>5 DEF Quiet
<1>12. ASSUME NEW t \in Thread, Fill(t)
       PROVE  /\ Filled(WritesTo(t))
              /\ \A d \in Direction \ {WritesTo(t)} : Quiet(d)
  <2>1. Goto(t, "ring") /\ pc[t] = "fill" /\ UNCHANGED <<rindex, trigger, delivered>>
    BY <1>12 DEF Fill, fds
  <2>2. \A d \in Direction : /\ Got(d)' = Got(d)
                             /\ d # WritesTo(t) => Made(d)' = Made(d)
                             /\ d = WritesTo(t) => Made(d)' = 1 /\ Made(d) = 0
    BY <1>0, <1>5, <2>1 DEF Stage, ReadStage
  <2>3. /\ Unread(WritesTo(t))' = Unread(WritesTo(t)) + 1
        /\ \A d \in Direction \ {WritesTo(t)} : Unread(d)' = Unread(d)
    BY <1>0, <1>1, <1>4, <2>1, <2>2
  <2>4. Filled(WritesTo(t))
    BY <1>0, <1>1, <1>2, <1>12, <2>1, <2>3 DEF Filled, Fill, InUse
  <2>5. ASSUME NEW d \in Direction \ {WritesTo(t)}
        PROVE  Quiet(d)
    BY <1>0, <1>1, <1>2, <1>12, <2>1, <2>3, <2>5 DEF Quiet, Fill
  <2> QED BY <2>4, <2>5
<1>13. ASSUME NEW t \in Thread, Copy(t)
       PROVE  /\ Copied(ReadsFrom(t))
              /\ \A d \in Direction \ {ReadsFrom(t)} : Quiet(d)
  <2>1. Goto(t, "idle") /\ pc[t] = "copy" /\ UNCHANGED <<data, windex, trigger>>
    BY <1>13 DEF Copy, fds
  <2>2. \A d \in Direction : /\ Made(d)' = Made(d)
                             /\ d # ReadsFrom(t) => Got(d)' = Got(d)
                             /\ d = ReadsFrom(t) => Got(d)' = 0 /\ Got(d) = 1
    BY <1>0, <1>5, <2>1 DEF Stage, ReadStage
  <2>3. /\ Unread(ReadsFrom(t))' = Unread(ReadsFrom(t)) - 1
        /\ \A d \in Direction \ {ReadsFrom(t)} : Unread(d)' = Unread(d)
    BY <1>0, <1>1, <1>4, <2>1, <2>2
  <2>4. Copied(ReadsFrom(t))
    BY <1>0, <1>1, <1>2, <1>4, <1>13, <2>1, <2>2, <2>3 DEF Copied, Copy, Emptied
  <2>5. ASSUME NEW d \in Direction \ {ReadsFrom(t)}
        PROVE  Quiet(d)
    BY <1>0, <1>1, <1>2, <1>13, <2>1, <2>3, <2>5 DEF Quiet, Copy, Emptied
  <2> QED BY <2>4, <2>5
<1>14. Direction # {} /\ "device" \in Thread
  BY DEF Direction, Thread
<1> QED
  BY <1>0, <1>7, <1>8, <1>9, <1>10, <1>11, <1>12, <1>13, <1>14, <1>6 DEF Next, Write, Read

(* Eventfds that are open have been open all along. *)
LEMMA OpenBefore ==
    ASSUME Next, open'
    PROVE  open
  BY DEF Next, SocketFails, SelectFails, Restart, Offer, Write, Read, LockForWriting,
     Refuse, Fill, Announce, Take, CheckUsed, LockForReading, Copy, fds

(* The window survives each of the three. *)
LEMMA WindowStep ==
    ASSUME RingInv, Next
    PROVE  Window'
<1>1. SUFFICES ASSUME open', NEW d \in Direction
               PROVE  /\ Unread(d)' \in 0..Size
                      /\ windex'[d] = Onward(rindex'[d], Unread(d)')
                      /\ \A i \in Slot : used'[d][i] <=> Ahead(rindex'[d], i) < Unread(d)'
  BY DEF Window, Onward
<1>2. open
  BY <1>1, OpenBefore
<1>3. /\ Unread(d) \in 0..Size
      /\ windex[d] = Onward(rindex[d], Unread(d))
      /\ \A i \in Slot : used[d][i] <=> Ahead(rindex[d], i) < Unread(d)
  BY <1>2 DEF RingInv, Window
<1>4. /\ Size \in Nat /\ Size > 0
      /\ windex[d] \in Slot /\ rindex[d] \in Slot
      /\ used[d] \in [Slot -> BOOLEAN] /\ data[d] \in [Slot -> 0..MaxPackets]
  BY BoundAssumption DEF RingInv, TypeOK
<1>5. Quiet(d) \/ Filled(d) \/ Copied(d)
  BY <1>1, RingStep
<1> DEFINE r == rindex[d]
           k == Unread(d)
<1>a. /\ k < Size => Ahead(r, Onward(r, k)) = k
      /\ k = Size => Onward(r, k) = r
      /\ k < Size => Onward(Onward(r, k), 1) = Onward(r, k + 1)
      /\ k > 0 => Onward(Onward(r, 1), k - 1) = Onward(r, k)
      /\ Ahead(r, r) = 0 /\ Onward(r, k) \in Slot
  BY <1>3, <1>4, OnwardAround
<1>b. \A i \in Slot : /\ Ahead(r, i) \in 0..(Size - 1) /\ Onward(r, Ahead(r, i)) = i
                      /\ i # r => Ahead(r, i) > 0 /\ Ahead(Onward(r, 1), i) = Ahead(r, i) - 1
                      /\ Ahead(Onward(r, 1), r) = Size - 1
  BY <1>3, <1>4, OnwardAround
<1>6. CASE Quiet(d)
  BY <1>3, <1>6 DEF Quiet
<1>7. CASE Filled(d)
  <2>1. Unread(d) < Size
    BY <1>3, <1>4, <1>7, <1>a DEF Filled
  <2>2. windex'[d] = Onward(rindex'[d], Unread(d)')
    BY <1>3, <1>4, <1>7, <2>1, <1>a, SuccessorIsOnward DEF Filled
  <2>3. ASSUME NEW i \in Slot
        PROVE  used'[d][i] <=> Ahead(rindex'[d], i) < Unread(d)'
    <3>1. used'[d][i] <=> i = windex[d] \/ used[d][i]
      BY <1>4, <1>7 DEF Filled
    <3>2. i = windex[d] <=> Ahead(rindex[d], i) = Unread(d)
      BY <1>3, <1>4, <2>1, <1>a, <1>b
    <3>3. Ahead(rindex[d], i) \in Int
      BY <1>4, <1>b
    <3> QED BY <1>3, <1>4, <1>7, <3>1, <3>2, <3>3 DEF Filled
  <2> QED BY <1>3, <1>4, <1>7, <2>1, <2>2, <2>3 DEF Filled
<1>8. CASE Copied(d)
  <2>1. Unread(d) > 0
    <3>1. trigger[d] \in Nat
      BY <1>4 DEF RingInv, TypeOK
    <3> QED BY <1>8, <3>1 DEF Copied, Unread, One
  <2>2. windex'[d] = Onward(rindex'[d], Unread(d)')
    BY <1>3, <1>4, <1>8, <2>1, <1>a, SuccessorIsOnward DEF Copied
  <2>3. ASSUME NEW i \in Slot
        PROVE  used'[d][i] <=> Ahead(rindex'[d], i) < Unread(d)'
    <3>1. used'[d][i] <=> i # rindex[d] /\ used[d][i]
      BY <1>4, <1>8 DEF Copied
    <3>2. /\ Ahead(rindex[d], i) \in Int
          /\ i # rindex[d] => Ahead(rindex'[d], i) = Ahead(rindex[d], i) - 1
          /\ i = rindex[d] => Ahead(rindex'[d], i) = Size - 1
      BY <1>4, <1>8, <1>b, SuccessorIsOnward DEF Copied
    <3> QED BY <1>3, <1>4, <1>8, <3>1, <3>2 DEF Copied
  <2> QED BY <1>3, <1>4, <1>8, <2>1, <2>2, <2>3 DEF Copied
<1> QED BY <1>5, <1>6, <1>7, <1>8

(* A packet filled in adds a slot in use, a packet copied out removes one. *)
LEMMA AnnouncedStep ==
    ASSUME RingInv, Next
    PROVE  EachAnnouncedOnce'
<1> DEFINE InUseSlots(d) == {i \in Slot : used[d][i]}
<1>1. SUFFICES ASSUME open', NEW d \in Direction
               PROVE  Cardinality(InUseSlots(d)') = Unread(d)'
  BY DEF EachAnnouncedOnce, Unread, One
<1>2. Cardinality(InUseSlots(d)) = Unread(d)
  BY <1>1, OpenBefore DEF RingInv, EachAnnouncedOnce, Unread, One
<1>3. windex[d] \in Slot /\ rindex[d] \in Slot /\ used[d] \in [Slot -> BOOLEAN]
  BY DEF RingInv, TypeOK
<1>4. IsFiniteSet(InUseSlots(d)) /\ Unread(d) \in Nat
  BY <1>2, SlotsFinite, BoundAssumption
<1>5. Quiet(d) \/ Filled(d) \/ Copied(d)
  BY <1>1, RingStep
<1>6. CASE Quiet(d)
  BY <1>2, <1>6 DEF Quiet
<1>7. CASE Filled(d)
  <2>1. InUseSlots(d)' = InUseSlots(d) \cup {windex[d]}
    BY <1>3, <1>7 DEF Filled
  <2>2. windex[d] \notin InUseSlots(d)
    BY <1>7 DEF Filled
  <2>3. Cardinality(InUseSlots(d) \cup {windex[d]}) = Cardinality(InUseSlots(d)) + 1
    BY <1>4, <2>2, FS_AddElement
  <2> QED BY <1>2, <1>7, <2>1, <2>3 DEF Filled
<1>8. CASE Copied(d)
  <2>1. InUseSlots(d)' = InUseSlots(d) \ {rindex[d]}
    BY <1>3, <1>8 DEF Copied
  <2>2. rindex[d] \in InUseSlots(d)
    <3>1. used[d][rindex[d]]
      BY <1>8, Roles DEF Copied, Reading, RingInv, ReaderFindsPacket
    <3> QED BY <1>3, <3>1
  <2>3. Cardinality(InUseSlots(d) \ {rindex[d]}) = Cardinality(InUseSlots(d)) - 1
    BY <1>4, <2>2, FS_RemoveElement
  <2> QED BY <1>2, <1>8, <2>1, <2>3 DEF Copied
<1> QED BY <1>5, <1>6, <1>7, <1>8

(* Taking a packet from a ring needs its eventfd. *)
LEMMA DeafStep ==
    ASSUME RingInv, Next
    PROVE  DeafAfterwards'
<1>1. pc \in [Thread -> Stage] /\ (~open => pc["device"] \notin ReadStage)
  BY DEF RingInv, TypeOK, DeafAfterwards
<1> SUFFICES ASSUME ~open'
             PROVE  pc'["device"] \notin ReadStage
  BY DEF DeafAfterwards
<1> USE DEF ReadStage, Goto, fds
<1>2. CASE SocketFails \/ SelectFails
  BY <1>1, <1>2 DEF SocketFails, SelectFails, Thread
<1>3. CASE Restart
  BY <1>1, <1>3, RestartDoes DEF RestartEffect, Thread
<1>4. ASSUME NEW t \in Thread, Offer(t) \/ LockForWriting(t) \/ Refuse(t) \/ Fill(t) \/ Announce(t)
      PROVE  pc'["device"] \notin ReadStage
  <2>1. \E stage \in Stage \ ReadStage : Goto(t, stage)
    BY <1>4 DEF Offer, LockForWriting, Refuse, Fill, Announce, Stage
  <2>2. open' = open
    BY <1>4 DEF Offer, LockForWriting, Refuse, Fill, Announce
  <2> QED BY <1>1, <2>1, <2>2
<1>5. ASSUME NEW t \in Thread, Take(t) \/ CheckUsed(t) \/ LockForReading(t) \/ Copy(t)
      PROVE  pc'["device"] \notin ReadStage
  <2>1. open' = open /\ \E stage \in Stage : Goto(t, stage)
    BY <1>5 DEF Take, CheckUsed, LockForReading, Copy, Stage
  <2>2. t # "device"
    BY <1>1, <1>5, <2>1 DEF Take, CheckUsed, LockForReading, Copy
  <2> QED BY <1>1, <2>1, <2>2
<1> QED BY <1>2, <1>3, <1>4, <1>5 DEF Next, Write, Read

(***************************************************************************)
(* While the eventfds are open, the window starts at the reader's slot;    *)
(* afterwards nobody empties the slot ndnd's thread is reading.            *)
(***************************************************************************)
LEMMA ReaderStep ==
    ASSUME RingInv, Next
    PROVE  ReaderFindsPacket'
<1>0. /\ pc \in [Thread -> Stage] /\ rindex \in [Direction -> Slot]
      /\ used \in [Direction -> [Slot -> BOOLEAN]]
  BY DEF RingInv, TypeOK
<1>1. SUFFICES ASSUME NEW t \in Thread, pc'[t] \in ReadStage
               PROVE  used'[ReadsFrom(t)][rindex'[ReadsFrom(t)]]
  BY DEF ReaderFindsPacket, ReadStage
<1>2. ReadsFrom(t) \in Direction /\ Reader(ReadsFrom(t)) = t
  BY Roles
<1>3. CASE open'
  <2> DEFINE d == ReadsFrom(t)
  <2>1. TypeOK' /\ Window'
    BY TypeStep, WindowStep
  <2>2. rindex'[d] \in Slot /\ trigger'[d] \in Nat
    BY <1>2, <2>1, BoundAssumption DEF TypeOK
  <2>3. Ahead(rindex'[d], rindex'[d]) = 0
    BY <2>2 DEF Ahead, Slot
  <2>4. Unread(d)' > 0
    <3>1. Reading(d)'
      BY <1>1, <1>2 DEF Reading, ReadStage, Reader
    <3> QED BY <2>2, <3>1 DEF Unread, One
  <2>5. used'[d][rindex'[d]] <=> Ahead(rindex'[d], rindex'[d]) < Unread(d)'
    BY <1>2, <1>3, <2>1, <2>2 DEF Window
  <2> QED BY <2>3, <2>4, <2>5
<1>4. CASE ~open'
  <2>1. t = "daemon" /\ ReadsFrom(t) = "in" /\ WritesTo(t) = "out"
    BY <1>1, <1>4, DeafStep DEF DeafAfterwards, Thread, ReadsFrom, WritesTo
  <2>2. pc["daemon"] \in ReadStage => used["in"][rindex["in"]]
    BY <2>1 DEF RingInv, ReaderFindsPacket, ReadStage
  <2> SUFFICES used'["in"][rindex'["in"]]
    BY <2>1
  <2>3. pc'["daemon"] \in ReadStage
    BY <1>1, <2>1
  <2> HIDE <1>1
  <2> USE DEF ReadStage, Goto, slots, fds
  <2>4. CASE SocketFails \/ SelectFails
    <3>1. UNCHANGED <<used, rindex>> /\ pc' = [pc EXCEPT !["device"] = "dead"]
      BY <2>4 DEF SocketFails, SelectFails
    <3> QED BY <1>0, <2>2, <2>3, <3>1 DEF Thread
  <2>5. CASE Restart
    <3>1. RestartEffect
      BY <2>5, RestartDoes
    <3>2. rindex'["in"] = rindex["in"]
      BY <1>0, <3>1 DEF RestartEffect, Direction
    <3>3. pc'["daemon"] = pc["daemon"]
      BY <1>0, <3>1 DEF RestartEffect, Thread
    <3>4. used' = used
      BY <3>1 DEF RestartEffect
    <3> QED BY <2>2, <2>3, <3>2, <3>3, <3>4
  <2>6. ASSUME NEW s \in Thread, Offer(s) \/ LockForWriting(s) \/ Refuse(s) \/ Announce(s)
        PROVE  used'["in"][rindex'["in"]]
    <3>1. UNCHANGED <<used, rindex>>
      BY <2>6 DEF Offer, LockForWriting, Refuse, Announce
    <3>2. \E stage \in Stage \ ReadStage : Goto(s, stage)
      BY <2>6 DEF Offer, LockForWriting, Refuse, Announce, Stage
    <3>3. pc["daemon"] \in ReadStage
      BY <1>0, <2>3, <3>2
    <3> QED BY <2>2, <3>1, <3>3
  <2>7. ASSUME NEW s \in Thread, Fill(s)
        PROVE  used'["in"][rindex'["in"]]
    <3>1. rindex' = rindex /\ Goto(s, "ring")
      BY <2>7 DEF Fill
    <3>2. pc["daemon"] \in ReadStage /\ WritesTo(s) \in Direction
      BY <1>0, <2>3, <3>1, Roles
    <3>3. used' = [used EXCEPT ![WritesTo(s)][windex[WritesTo(s)]] = TRUE]
      BY <2>7 DEF Fill
    <3>4. rindex["in"] \in Slot /\ windex[WritesTo(s)] \in Slot
      BY <1>0, <3>2 DEF RingInv, TypeOK, Direction
    <3>5. used'["in"][rindex["in"]]
      BY <1>0, <2>2, <3>2, <3>3, <3>4 DEF Direction
    <3> QED BY <3>1, <3>5
  <2>8. ASSUME NEW s \in Thread, CheckUsed(s) \/ LockForReading(s)
        PROVE  used'["in"][rindex'["in"]]
    <3>1. UNCHANGED <<used, rindex>> /\ pc[s] \in ReadStage
      BY <2>8 DEF CheckUsed, LockForReading
    <3>2. \E stage \in Stage : Goto(s, stage)
      BY <2>8 DEF CheckUsed, LockForReading, Stage
    <3>3. pc["daemon"] \in ReadStage
      BY <1>0, <2>3, <3>1, <3>2
    <3> QED BY <2>2, <3>1, <3>3
  <2>9. ASSUME NEW s \in Thread, Take(s)
        PROVE  used'["in"][rindex'["in"]]
    BY <1>4, <2>9 DEF Take
  <2>10. ASSUME NEW s \in Thread, Copy(s)
         PROVE  used'["in"][rindex'["in"]]
    <3>1. s # "daemon"
      BY <1>0, <2>3, <2>10 DEF Copy
    <3>2. s = "device" /\ ~open
      BY <1>4, <2>10, <3>1 DEF Copy, Thread
    <3> QED BY <2>10, <3>2 DEF Copy, RingInv, DeafAfterwards
  <2> QED BY <2>4, <2>5, <2>6, <2>7, <2>8, <2>9, <2>10 DEF Next, Write, Read
<1> QED BY <1>3, <1>4

(* Packets are numbered as they are offered, and filled in in that order. *)
LEMMA FreshStep ==
    ASSUME RingInv, Next
    PROVE  Fresh'
<1> DEFINE Coming(d) == One(pc[Writer(d)] \in {"lockW", "fill"})
           Newest(d) == offered[d] - Coming(d)
<1> SUFFICES ASSUME NEW d \in Direction
             PROVE  /\ Newest(d)' >= delivered'[d]
                    /\ \A i \in Slot : data'[d][i] <= Newest(d)'
  BY DEF Fresh, Writer
<1>0. /\ Newest(d) >= delivered[d] /\ \A i \in Slot : data[d][i] <= Newest(d)
      /\ pc \in [Thread -> Stage]
      /\ offered \in [Direction -> Nat] /\ delivered \in [Direction -> Nat]
      /\ data \in [Direction -> [Slot -> Nat]]
      /\ windex \in [Direction -> Slot] /\ rindex \in [Direction -> Slot]
  BY BoundAssumption DEF RingInv, TypeOK, Fresh
<1>1. /\ \A t \in Thread : /\ WritesTo(t) \in Direction /\ ReadsFrom(t) \in Direction
                           /\ WritesTo(t) = d <=> t = Writer(d)
      /\ Writer(d) \in Thread
  BY Roles
<1>2. Coming(d) \in 0..1 /\ Coming(d)' \in 0..1
  BY DEF One
<1>3. ASSUME NEW t \in Thread, NEW stage \in Stage, Goto(t, stage)
      PROVE  /\ t # Writer(d) => Coming(d)' = Coming(d)
             /\ t = Writer(d) =>
                   /\ Coming(d) = IF pc[t] \in {"lockW", "fill"} THEN 1 ELSE 0
                   /\ Coming(d)' = IF stage \in {"lockW", "fill"} THEN 1 ELSE 0
  BY <1>0, <1>1, <1>3 DEF Goto, One, Writer
<1> HIDE DEF Coming
<1>4. ASSUME UNCHANGED <<data, offered, delivered>>, Coming(d)' <= Coming(d)
      PROVE  /\ Newest(d)' >= delivered'[d]
             /\ \A i \in Slot : data'[d][i] <= Newest(d)'
  BY <1>0, <1>2, <1>4
<1>5. CASE SocketFails \/ SelectFails \/ Restart
  <2>1. UNCHANGED <<data, offered, delivered>>
    BY <1>5, RestartDoes DEF SocketFails, SelectFails, RestartEffect, slots
  <2>2. \E stage \in {"dead", "idle", "exited"} : pc' = [pc EXCEPT !["device"] = stage]
    <3>1. CASE SocketFails \/ SelectFails
      BY <3>1 DEF SocketFails, SelectFails, Goto
    <3>2. CASE Restart
      BY <3>2, RestartDoes DEF RestartEffect
    <3> QED BY <1>5, <3>1, <3>2
  <2>3. Coming(d)' <= Coming(d)
    BY <1>0, <1>1, <2>2 DEF Coming, One, Writer
  <2> QED BY <1>4, <2>1, <2>3
<1>6. ASSUME NEW t \in Thread,
             LockForWriting(t) \/ Refuse(t) \/ Announce(t) \/ Take(t) \/ CheckUsed(t) \/ LockForReading(t)
      PROVE  /\ Newest(d)' >= delivered'[d]
             /\ \A i \in Slot : data'[d][i] <= Newest(d)'
  <2>1. UNCHANGED <<data, offered, delivered>>
    BY <1>6 DEF LockForWriting, Refuse, Announce, Take, CheckUsed, LockForReading, slots
  <2>2. PICK stage \in Stage : /\ Goto(t, stage)
                               /\ stage \in {"lockW", "fill"} => pc[t] \in {"lockW", "fill"}
    BY <1>6 DEF LockForWriting, Refuse, Announce, Take, CheckUsed, LockForReading, Stage
  <2> QED BY <1>2, <1>3, <1>4, <2>1, <2>2
<1>7. ASSUME NEW t \in Thread, Offer(t)
      PROVE  /\ Newest(d)' >= delivered'[d]
             /\ \A i \in Slot : data'[d][i] <= Newest(d)'
  <2>1. /\ pc[t] = "idle" /\ Goto(t, "lockW") /\ UNCHANGED <<data, delivered>>
        /\ offered' = [offered EXCEPT ![WritesTo(t)] = @ + 1]
    BY <1>7 DEF Offer, slots
  <2>2. Newest(d)' = Newest(d)
    BY <1>0, <1>1, <1>2, <1>3, <2>1 DEF Stage
  <2> QED BY <1>0, <2>1, <2>2
<1>8. ASSUME NEW t \in Thread, Fill(t)
      PROVE  /\ Newest(d)' >= delivered'[d]
             /\ \A i \in Slot : data'[d][i] <= Newest(d)'
  <2>1. /\ pc[t] = "fill" /\ Goto(t, "ring") /\ UNCHANGED <<offered, delivered>>
        /\ data' = [data EXCEPT ![WritesTo(t)][windex[WritesTo(t)]] = offered[WritesTo(t)]]
    BY <1>8 DEF Fill
  <2>2. CASE t = Writer(d)
    <3>1. Coming(d) = 1 /\ Coming(d)' = 0
      BY <1>3, <2>1, <2>2 DEF Stage
    <3>2. Newest(d)' = Newest(d) + 1 /\ Newest(d)' = offered[d]
      BY <1>0, <2>1, <3>1
    <3>3. data'[d] = [data[d] EXCEPT ![windex[d]] = offered[d]]
      BY <1>0, <1>1, <2>1, <2>2
    <3>4. \A i \in Slot : data'[d][i] = data[d][i] \/ data'[d][i] = offered[d]
      BY <1>0, <3>3
    <3>5. data[d] \in [Slot -> Nat] /\ offered[d] \in Nat /\ Newest(d) \in Int
      BY <1>0, <1>2
    <3> QED BY <1>0, <2>1, <3>2, <3>4, <3>5
  <2>3. CASE t # Writer(d)
    <3>1. Newest(d)' = Newest(d)
      BY <1>3, <2>1, <2>3 DEF Stage
    <3>2. data'[d] = data[d]
      BY <1>0, <1>1, <2>1, <2>3
    <3> QED BY <1>0, <2>1, <3>1, <3>2
  <2> QED BY <2>2, <2>3
<1>9. ASSUME NEW t \in Thread, Copy(t)
      PROVE  /\ Newest(d)' >= delivered'[d]
             /\ \A i \in Slot : data'[d][i] <= Newest(d)'
  <2>1. /\ pc[t] = "copy" /\ Goto(t, "idle") /\ UNCHANGED <<offered, data>>
        /\ delivered' = [delivered EXCEPT ![ReadsFrom(t)] = data[ReadsFrom(t)][rindex[ReadsFrom(t)]]]
    BY <1>9 DEF Copy
  <2>2. Newest(d)' = Newest(d)
    BY <1>3, <2>1 DEF Stage
  <2>3. delivered'[d] <= Newest(d)
    BY <1>0, <1>1, <2>1
  <2> QED BY <1>0, <2>1, <2>2, <2>3
<1> QED BY <1>5, <1>6, <1>7, <1>8, <1>9 DEF Next, Write, Read

-----------------------------------------------------------------------------
(* The theorems. *)

(* The rings start empty. *)
LEMMA RingInit == Init => RingInv
<1> SUFFICES ASSUME Init
             PROVE  RingInv
  OBVIOUS
<1> USE BoundAssumption DEF Init
<1>1. 0 \in Slot
  BY DEF Slot
<1>2. TypeOK
  BY <1>1 DEF TypeOK, Stage
<1>3. \A d \in Direction : ~ Reading(d) /\ pc[Writer(d)] = "idle" /\ Unread(d) = 0
  BY Roles DEF Reading, Unread, One
<1>4. Window
  <2>1. \A i \in Slot : ~ Ahead(0, i) < 0
    BY DEF Ahead, Slot
  <2> QED BY <1>3, <2>1 DEF Window, Onward
<1>5. Holding /\ SlotExclusive /\ DeafAfterwards /\ ReaderFindsPacket
  BY Roles DEF Holding, SlotExclusive, DeafAfterwards, ReaderFindsPacket, ReadStage
<1>6. EachAnnouncedOnce
  <2>1. \A d \in Direction : {i \in Slot : used[d][i]} = {}
    OBVIOUS
  <2>2. ASSUME NEW d \in Direction
        PROVE  Cardinality({i \in Slot : used[d][i]}) = Unread(d)
    <3>1. Cardinality({i \in Slot : used[d][i]}) = 0
      BY <2>1, FS_EmptySet, Zenon
    <3> QED BY <1>3, <3>1
  <2> QED BY <2>2 DEF EachAnnouncedOnce, Unread, One
<1>7. Fresh
  BY <1>3 DEF Fresh, One
<1> QED BY <1>2, <1>4, <1>5, <1>6, <1>7 DEF RingInv

(* The inductive invariant holds in every reachable state. *)
LEMMA RingAlways == Spec => []RingInv
<1>1. RingInv /\ [Next]_vars => RingInv'
  <2> SUFFICES ASSUME RingInv, [Next]_vars
               PROVE  RingInv'
    OBVIOUS
  <2>1. CASE Next
    BY <2>1, TypeStep, WindowStep, HoldingStep, DeafStep, ReaderStep, AnnouncedStep, FreshStep
    DEF RingInv
  <2>2. CASE UNCHANGED vars
    <3>1. UNCHANGED <<pc, sem, used, data, windex, rindex, trigger, open, offered, delivered, failures>>
      BY <2>2 DEF vars, slots, fds
    <3>2. TypeOK' /\ Holding' /\ SlotExclusive' /\ DeafAfterwards' /\ ReaderFindsPacket'
      BY <3>1 DEF RingInv, TypeOK, Holding, SlotExclusive, DeafAfterwards, ReaderFindsPacket,
         Writer, Reader
    <3>3. \A d \in Direction : Unread(d)' = Unread(d)
      BY <3>1 DEF Unread, Reading, Writer, Reader
    <3>4. Window'
      BY <3>1, <3>3 DEF RingInv, Window, Onward, Ahead
    <3>5. EachAnnouncedOnce' /\ Fresh'
      BY <3>1 DEF RingInv, EachAnnouncedOnce, Fresh, Reading, Writer, Reader
    <3> QED BY <3>2, <3>4, <3>5 DEF RingInv
  <2> QED BY <2>1, <2>2
<1> QED BY <1>1, RingInit, PTL DEF Spec

(***************************************************************************)
(* Every index is a slot, and an eventfd never counts more packets than    *)
(* there are slots: the announcements of readHandler never run ahead of    *)
(* the packets, in rings of every size and whatever fails.                 *)
(***************************************************************************)
THEOREM RingTypeCorrect == Spec => []TypeOK
<1>1. RingInv => TypeOK
  BY DEF RingInv
<1> QED BY <1>1, RingAlways, PTL

(***************************************************************************)
(* The thread that takes an announcement finds a packet in its slot: the   *)
(* device's reading thread is never stopped by an unused slot, and ndnd's, *)
(* which does not look at the flag, never reads an old packet.             *)
(***************************************************************************)
THEOREM ReaderAlwaysFindsPacket == Spec => []ReaderFindsPacket
<1>1. RingInv => ReaderFindsPacket
  BY DEF RingInv
<1> QED BY <1>1, RingAlways, PTL

(***************************************************************************)
(* Until the adapter is destroyed, the slots in use are as many as the     *)
(* announcements to be made, pending or in the reader's hands: no packet   *)
(* is announced twice and none is left without an announcement.            *)
(***************************************************************************)
THEOREM AnnouncementsAlwaysMatch == Spec => []EachAnnouncedOnce
<1>1. RingInv => EachAnnouncedOnce
  BY DEF RingInv
<1> QED BY <1>1, RingAlways, PTL

(***************************************************************************)
(* The writer never fills a slot while the reader copies it, although the  *)
(* semaphore a refused writer leaves taken is never given back.            *)
(***************************************************************************)
THEOREM SlotsAlwaysExclusive == Spec => []SlotExclusive
<1>1. RingInv => SlotExclusive
  BY DEF RingInv
<1> QED BY <1>1, RingAlways, PTL

-----------------------------------------------------------------------------
(* The refinement of PacketChannel. *)

(* The packets in c slots from slot r on. *)
Along(f, r, c) == [k \in 1..c |-> f[(r + k - 1) % Size]]

(* A function on 1..n is a sequence. *)
LEMMA FunctionIsSequence ==
    ASSUME NEW S, NEW n \in Nat, NEW f \in [1..n -> S]
    PROVE  f \in Seq(S) /\ Len(f) = n
OBVIOUS

(* The refinement mapping walks the ring as the window does. *)
LEMMA AlongIsOnward ==
    ASSUME NEW r \in Slot, NEW k \in 1..Size
    PROVE  (r + k - 1) % Size = Onward(r, k - 1) /\ Onward(r, k - 1) \in Slot
<1>1. r \in 0..(Size - 1) /\ k \in 1..Size /\ Size \in Nat /\ Size > 0
  BY BoundAssumption DEF Slot
<1>2. CASE r + k - 1 < Size
  <2>1. (r + k - 1) % Size = r + k - 1
    BY <1>1, <1>2
  <2> QED BY <1>1, <1>2, <2>1 DEF Onward, Slot
<1>3. CASE ~ r + k - 1 < Size
  <2>1. (r + k - 1) % Size = r + k - 1 - Size
    BY <1>1, <1>3
  <2> QED BY <1>1, <1>3, <2>1 DEF Onward, Slot
<1> QED BY <1>2, <1>3

LEMMA AlongType ==
    ASSUME NEW S, NEW f \in [Slot -> S], NEW r \in Slot, NEW c \in 0..Size
    PROVE  /\ Along(f, r, c) \in Seq(S) /\ Len(Along(f, r, c)) = c
           /\ \A k \in 1..c : Along(f, r, c)[k] = f[Onward(r, k - 1)]
<1>1. c \in Nat /\ \A k \in 1..c : k \in 1..Size
  BY BoundAssumption
<1>2. \A k \in 1..c : Along(f, r, c)[k] = f[Onward(r, k - 1)] /\ Onward(r, k - 1) \in Slot
  BY <1>1, AlongIsOnward DEF Along
<1>3. Along(f, r, c) \in [1..c -> S]
  BY <1>2 DEF Along
<1> QED BY <1>1, <1>2, <1>3, FunctionIsSequence

(* Filling the slot after the last one appends its packet. *)
LEMMA AlongFilled ==
    ASSUME NEW S, NEW f \in [Slot -> S], NEW r \in Slot, NEW c \in 0..Size, c < Size, NEW x \in S
    PROVE  Along([f EXCEPT ![Onward(r, c)] = x], r, c + 1) = Append(Along(f, r, c), x)
<1> DEFINE g == [f EXCEPT ![Onward(r, c)] = x]
           s == Along(f, r, c)
           t == Along(g, r, c + 1)
<1>1. c + 1 \in 0..Size /\ c \in Nat /\ Onward(r, c) \in Slot /\ g \in [Slot -> S]
  BY BoundAssumption, OnwardAround
<1>2. /\ s \in Seq(S) /\ Len(s) = c /\ \A k \in 1..c : s[k] = f[Onward(r, k - 1)]
      /\ t \in Seq(S) /\ Len(t) = c + 1 /\ \A k \in 1..(c + 1) : t[k] = g[Onward(r, k - 1)]
  <2>1. s \in Seq(S) /\ Len(s) = c /\ \A k \in 1..c : s[k] = f[Onward(r, k - 1)]
    BY AlongType
  <2> HIDE DEF g
  <2>2. t \in Seq(S) /\ Len(t) = c + 1 /\ \A k \in 1..(c + 1) : t[k] = g[Onward(r, k - 1)]
    BY <1>1, AlongType
  <2> QED BY <2>1, <2>2
<1>3. \A k \in 1..c : Onward(r, k - 1) \in Slot /\ Onward(r, k - 1) # Onward(r, c)
  BY <1>1, BoundAssumption DEF Onward, Slot
<1> HIDE DEF s, t
<1>4. \A k \in 1..(c + 1) : t[k] = Append(s, x)[k]
  <2> TAKE k \in 1..(c + 1)
  <2>1. CASE k = c + 1
    BY <1>1, <1>2, <2>1, AppendProperties
  <2>2. CASE k # c + 1
    <3>1. k \in 1..c
      BY <1>1, <2>2
    <3> QED BY <1>1, <1>2, <1>3, <3>1, AppendProperties
  <2> QED BY <2>1, <2>2
<1>5. Append(s, x) \in Seq(S) /\ Len(Append(s, x)) = c + 1
  BY <1>2, AppendProperties
<1>6. t = Append(s, x)
  BY <1>2, <1>4, <1>5, SeqEqual
<1> QED BY <1>6 DEF s, t

(* The reader takes the head and moves on. *)
LEMMA AlongCopied ==
    ASSUME NEW S, NEW f \in [Slot -> S], NEW r \in Slot, NEW c \in 0..Size, c > 0
    PROVE  /\ Along(f, r, c) # << >> /\ Head(Along(f, r, c)) = f[r]
           /\ Along(f, Successor(r), c - 1) = Tail(Along(f, r, c))
<1> DEFINE s == Along(f, r, c)
           t == Along(f, Successor(r), c - 1)
<1>1. /\ c - 1 \in 0..Size /\ c \in Nat /\ Size \in Nat /\ 1 \in 1..c
      /\ Successor(r) \in Slot /\ Successor(r) = Onward(r, 1)
  BY BoundAssumption, SuccessorIsOnward
<1>2. /\ s \in Seq(S) /\ Len(s) = c /\ \A k \in 1..c : s[k] = f[Onward(r, k - 1)]
      /\ t \in Seq(S) /\ Len(t) = c - 1
      /\ \A k \in 1..(c - 1) : t[k] = f[Onward(Successor(r), k - 1)]
  BY <1>1, AlongType
<1>3. Onward(r, 0) = r /\ \A k \in 1..(c - 1) : Onward(Onward(r, 1), k - 1) = Onward(r, k)
  BY <1>1 DEF Onward, Slot
<1> HIDE DEF s, t
<1>4. s # << >> /\ Head(s) = f[r]
  BY <1>1, <1>2, <1>3
<1>5. Tail(s) \in Seq(S) /\ Len(Tail(s)) = c - 1 /\ \A k \in 1..(c - 1) : Tail(s)[k] = s[k + 1]
  BY <1>2, <1>4, HeadTailProperties
<1>6. \A k \in 1..(c - 1) : t[k] = Tail(s)[k]
  <2> TAKE k \in 1..(c - 1)
  <2>1. k + 1 \in 1..c /\ k + 1 - 1 = k
    BY <1>1
  <2>2. s[k + 1] = f[Onward(r, k)]
    BY <1>2, <2>1
  <2> QED BY <1>1, <1>2, <1>3, <1>5, <2>2
<1>7. t = Tail(s)
  BY <1>2, <1>5, <1>6, SeqEqual
<1> QED BY <1>4, <1>7 DEF s, t

(* Of no slot and of one. *)
LEMMA AlongShort ==
    ASSUME NEW S, NEW f \in [Slot -> S], NEW r \in Slot
    PROVE  Along(f, r, 0) = << >> /\ Along(f, r, 1) = << f[r] >>
<1>1. 0 \in 0..Size /\ 1 \in 0..Size /\ 1 \in 1..1
  BY BoundAssumption
<1>2. Along(f, r, 0) \in Seq(S) /\ Len(Along(f, r, 0)) = 0
  BY <1>1, AlongType
<1>3. Along(f, r, 1) \in Seq(S) /\ Len(Along(f, r, 1)) = 1
  <2> DEFINE c == 1
  <2>1. c \in 0..Size
    BY <1>1
  <2> HIDE DEF c
  <2>2. Along(f, r, c) \in Seq(S) /\ Len(Along(f, r, c)) = c
    BY <2>1, AlongType
  <2> QED BY <2>2 DEF c
<1>4. Along(f, r, 1)[1] = f[r]
  <2>1. r + 1 - 1 = r /\ r % Size = r
    BY BoundAssumption DEF Slot
  <2>2. Along(f, r, 1)[1] = f[(r + 1 - 1) % Size]
    BY <1>1 DEF Along
  <2> QED BY <2>1, <2>2
<1> QED BY <1>2, <1>3, <1>4, EmptySeq

(* Forgetting the last ones keeps a prefix; a prefix needs its own slots only. *)
LEMMA AlongKept ==
    ASSUME NEW S, NEW f \in [Slot -> S], NEW g \in [Slot -> S], NEW r \in Slot,
           NEW c \in 0..Size, NEW b \in 0..c,
           \A k \in 1..b : g[Onward(r, k - 1)] = f[Onward(r, k - 1)]
    PROVE  Along(g, r, b) = SubSeq(Along(f, r, c), 1, b)
<1> DEFINE s == Along(f, r, c)
           t == Along(g, r, b)
<1>1. b \in 0..Size /\ c \in Nat /\ b \in Nat /\ \A k \in 1..b : k \in 1..c
  BY BoundAssumption
<1>2. /\ s \in Seq(S) /\ Len(s) = c /\ \A k \in 1..c : s[k] = f[Onward(r, k - 1)]
      /\ t \in Seq(S) /\ Len(t) = b /\ \A k \in 1..b : t[k] = g[Onward(r, k - 1)]
  <2>1. s \in Seq(S) /\ Len(s) = c /\ \A k \in 1..c : s[k] = f[Onward(r, k - 1)]
    BY AlongType
  <2>2. t \in Seq(S) /\ Len(t) = b /\ \A k \in 1..b : t[k] = g[Onward(r, k - 1)]
    BY <1>1, AlongType
  <2> QED BY <2>1, <2>2
<1> HIDE DEF s, t
<1>3. \A k \in 1..b : s[k] \in S
  BY <1>1, <1>2
<1>4. /\ SubSeq(s, 1, b) \in Seq(S) /\ Len(SubSeq(s, 1, b)) = b
      /\ \A k \in 1..b : SubSeq(s, 1, b)[k] = s[k]
  BY <1>1, <1>3, SubSeqProperties
<1>5. t = SubSeq(s, 1, b)
  BY <1>1, <1>2, <1>4, SeqEqual
<1> QED BY <1>5 DEF s, t

-----------------------------------------------------------------------------
(* The packets on their way, as Pending counts them. *)
Count(d) == IF open THEN Unread(d) ELSE One(Reading(d))

Queue == [d \in Direction |-> Pending(d)]

LEMMA PendingIsAlong ==
    ASSUME RingInv, NEW d \in Direction
    PROVE  /\ Pending(d) = Along(data[d], rindex[d], Count(d))
           /\ Count(d) \in 0..Size /\ rindex[d] \in Slot
           /\ data[d] \in [Slot -> 0..MaxPackets]
<1>1. Count(d) = IF ~open THEN (IF Reading(d) THEN 1 ELSE 0)
                 ELSE Cardinality({i \in Slot : used[d][i]})
  BY DEF Count, Unread, One, RingInv, EachAnnouncedOnce
<1>2. Count(d) \in 0..Size
  BY BoundAssumption DEF Count, RingInv, Window, One
<1>3. Pending(d) = Along(data[d], rindex[d], Count(d))
  BY <1>1, Zenon DEF Pending, Along
<1> QED BY <1>2, <1>3 DEF RingInv, TypeOK

(* The same in the next state. *)
LEMMA PendingIsAlongNext ==
    ASSUME RingInv', NEW d \in Direction
    PROVE  /\ Pending(d)' = Along(data'[d], rindex'[d], Count(d)')
           /\ Count(d)' \in 0..Size
<1>1. Count(d)' = IF ~open' THEN (IF Reading(d)' THEN 1 ELSE 0)
                  ELSE Cardinality({i \in Slot : used'[d][i]})
  BY DEF Count, Unread, One, RingInv, EachAnnouncedOnce
<1>2. Count(d)' \in 0..Size
  BY BoundAssumption DEF Count, RingInv, Window, One
<1>3. Pending(d)' = Along(data'[d], rindex'[d], Count(d)')
  BY <1>1, Zenon DEF Pending, Along
<1> QED BY <1>2, <1>3

(* While the eventfds are open, a ring stays as it is, accepts or delivers. *)
LEMMA OpenRefines ==
    ASSUME RingInv, RingInv', open, open', NEW d \in Direction
    PROVE  /\ Quiet(d) => Pending(d)' = Pending(d) /\ delivered'[d] = delivered[d]
           /\ Filled(d) => /\ Len(Pending(d)) < Size /\ delivered'[d] = delivered[d]
                           /\ Pending(d)' = Append(Pending(d), offered[d])
           /\ Copied(d) => /\ Pending(d) # << >> /\ delivered'[d] = Head(Pending(d))
                           /\ Pending(d)' = Tail(Pending(d))
<1>1. /\ Pending(d) = Along(data[d], rindex[d], Unread(d))
      /\ Unread(d) \in 0..Size /\ rindex[d] \in Slot
      /\ data[d] \in [Slot -> 0..MaxPackets]
  BY PendingIsAlong DEF Count
<1>2. /\ Pending(d)' = Along(data'[d], rindex'[d], Unread(d)')
      /\ Unread(d)' \in 0..Size
  BY PendingIsAlongNext DEF Count
<1>3. ASSUME Quiet(d)
      PROVE  Pending(d)' = Pending(d) /\ delivered'[d] = delivered[d]
  <2>1. rindex'[d] = rindex[d] /\ data'[d] = data[d] /\ Unread(d)' = Unread(d)
    BY <1>3 DEF Quiet
  <2>2. Pending(d)' = Pending(d)
    BY <1>1, <1>2, <2>1
  <2> QED BY <1>3, <2>2 DEF Quiet
<1>4. ASSUME Filled(d)
      PROVE  /\ Len(Pending(d)) < Size /\ delivered'[d] = delivered[d]
             /\ Pending(d)' = Append(Pending(d), offered[d])
  <2>1. windex[d] = Onward(rindex[d], Unread(d)) /\ offered[d] \in 0..MaxPackets
    BY DEF RingInv, Window, TypeOK
  <2>2. Unread(d) < Size
    BY <1>1, <1>2, <1>4, BoundAssumption DEF Filled
  <2>3. Pending(d)' = Append(Pending(d), offered[d])
    <3>1. Along([data[d] EXCEPT ![Onward(rindex[d], Unread(d))] = offered[d]],
                rindex[d], Unread(d) + 1)
            = Append(Along(data[d], rindex[d], Unread(d)), offered[d])
      <4> DEFINE Packet == 0..MaxPackets
                 f == data[d]
                 r == rindex[d]
                 c == Unread(d)
                 x == offered[d]
      <4>1. f \in [Slot -> Packet] /\ x \in Packet /\ r \in Slot /\ c \in 0..Size /\ c < Size
        BY <1>1, <2>1, <2>2
      <4> HIDE DEF Packet, f, r, c, x
      <4>2. Along([f EXCEPT ![Onward(r, c)] = x], r, c + 1) = Append(Along(f, r, c), x)
        BY <4>1, AlongFilled
      <4> QED BY <4>2 DEF f, r, c, x
    <3>2. /\ data'[d] = [data[d] EXCEPT ![Onward(rindex[d], Unread(d))] = offered[d]]
          /\ rindex'[d] = rindex[d] /\ Unread(d)' = Unread(d) + 1
      BY <1>4, <2>1 DEF Filled
    <3> QED BY <1>1, <1>2, <3>1, <3>2
  <2>4. Len(Pending(d)) = Unread(d)
    <3>1. Len(Along(data[d], rindex[d], Unread(d))) = Unread(d)
      BY <1>1, AlongType
    <3> QED BY <1>1, <3>1
  <2> QED BY <1>4, <2>2, <2>3, <2>4 DEF Filled
<1>5. ASSUME Copied(d)
      PROVE  /\ Pending(d) # << >> /\ delivered'[d] = Head(Pending(d))
             /\ Pending(d)' = Tail(Pending(d))
  <2>1. Unread(d) > 0
    BY <1>1, <1>2, <1>5, BoundAssumption DEF Copied
  <2>2. /\ Pending(d) # << >> /\ Head(Pending(d)) = data[d][rindex[d]]
        /\ Along(data[d], Successor(rindex[d]), Unread(d) - 1) = Tail(Pending(d))
    BY <1>1, <2>1, AlongCopied
  <2>3. /\ rindex'[d] = Successor(rindex[d]) /\ data'[d] = data[d]
        /\ Unread(d)' = Unread(d) - 1 /\ delivered'[d] = data[d][rindex[d]]
    BY <1>5 DEF Copied
  <2> QED BY <1>2, <2>2, <2>3
<1> QED BY <1>3, <1>4, <1>5

(***************************************************************************)
(* Once they are closed, only a packet already taken gets through, and     *)
(* nobody writes into the slot it is in.                                   *)
(***************************************************************************)
LEMMA ClosedStep ==
    ASSUME RingInv, Next, ~open
    PROVE  /\ ~open'
           /\ \/ /\ delivered' = delivered
                 /\ \A d \in Direction :
                       /\ Reading(d)' <=> Reading(d)
                       /\ Reading(d) => /\ rindex'[d] = rindex[d]
                                        /\ data'[d][rindex[d]] = data[d][rindex[d]]
              \/ /\ Reading("in") /\ ~ Reading("in")' /\ ~ Reading("out") /\ ~ Reading("out")'
                 /\ delivered' = [delivered EXCEPT !["in"] = data["in"][rindex["in"]]]
<1>0. /\ pc \in [Thread -> Stage] /\ pc["device"] \notin ReadStage
      /\ rindex \in [Direction -> Slot] /\ windex \in [Direction -> Slot]
      /\ data \in [Direction -> [Slot -> 0..MaxPackets]]
  BY DEF RingInv, TypeOK, DeafAfterwards
<1>1. /\ ~ Reading("out") /\ (Reading("in") <=> pc["daemon"] \in ReadStage)
      /\ (Reading("in")' <=> pc'["daemon"] \in ReadStage)
  BY <1>0, Roles DEF Reading, ReadStage, Reader
<1>2. ~open'
  BY DEF Next, SocketFails, SelectFails, Restart, Offer, Write, Read, LockForWriting,
     Refuse, Fill, Announce, Take, CheckUsed, LockForReading, Copy, fds
<1>3. ~ Reading("out")'
  BY <1>2, DeafStep, Roles DEF DeafAfterwards, Reading, ReadStage, Reader
<1> DEFINE Goal == /\ delivered' = delivered
                   /\ Reading("in")' <=> Reading("in")
                   /\ Reading("in") => /\ rindex'["in"] = rindex["in"]
                                       /\ data'["in"][rindex["in"]] = data["in"][rindex["in"]]
<1> USE DEF Goto, slots, fds
<1>4. CASE SocketFails \/ SelectFails
  <2>1. UNCHANGED <<data, rindex, delivered>> /\ pc' = [pc EXCEPT !["device"] = "dead"]
    BY <1>4 DEF SocketFails, SelectFails
  <2>2. pc'["daemon"] = pc["daemon"]
    BY <1>0, <2>1 DEF Thread
  <2>3. Goal
    BY <1>1, <2>1, <2>2
  <2> QED BY <1>1, <1>2, <1>3, <2>3 DEF Direction
<1>5. CASE Restart
  <2>1. RestartEffect
    BY <1>5, RestartDoes
  <2>2. rindex'["in"] = rindex["in"] /\ pc'["daemon"] = pc["daemon"]
    BY <1>0, <2>1 DEF RestartEffect, Thread, Direction
  <2>3. UNCHANGED <<data, delivered>>
    BY <2>1 DEF RestartEffect
  <2>4. Goal
    BY <1>1, <2>2, <2>3
  <2> QED BY <1>1, <1>2, <1>3, <2>4 DEF Direction
<1>6. ASSUME NEW t \in Thread,
             Offer(t) \/ LockForWriting(t) \/ Refuse(t) \/ Announce(t) \/ CheckUsed(t) \/ LockForReading(t)
      PROVE  Goal
  <2>1. UNCHANGED <<data, rindex, delivered>>
    BY <1>6 DEF Offer, LockForWriting, Refuse, Announce, CheckUsed, LockForReading
  <2>2. PICK stage \in Stage : Goto(t, stage) /\ (stage \in ReadStage <=> pc[t] \in ReadStage)
    <3>1. CASE CheckUsed(t)
      <4>1. used[ReadsFrom(t)][rindex[ReadsFrom(t)]]
        BY <3>1 DEF CheckUsed, RingInv, ReaderFindsPacket
      <4> QED BY <3>1, <4>1 DEF CheckUsed, Stage, ReadStage
    <3>2. CASE ~ CheckUsed(t)
      BY <1>6, <3>2 DEF Offer, LockForWriting, Refuse, Announce, LockForReading, Stage, ReadStage
    <3> QED BY <3>1, <3>2
  <2>3. pc'["daemon"] \in ReadStage <=> pc["daemon"] \in ReadStage
    BY <1>0, <2>2 DEF Thread
  <2> QED BY <1>1, <2>1, <2>3
<1>7. ASSUME NEW t \in Thread, Fill(t)
      PROVE  Goal
  <2>1. /\ UNCHANGED <<rindex, delivered>> /\ Goto(t, "ring") /\ pc[t] = "fill"
        /\ data' = [data EXCEPT ![WritesTo(t)][windex[WritesTo(t)]] = offered[WritesTo(t)]]
        /\ ~ used[WritesTo(t)][windex[WritesTo(t)]]
    BY <1>7 DEF Fill, InUse
  <2>2. pc'["daemon"] \in ReadStage <=> pc["daemon"] \in ReadStage
    BY <1>0, <2>1 DEF Thread, ReadStage
  <2>3. Reading("in") => data'["in"][rindex["in"]] = data["in"][rindex["in"]]
    <3>1. Reading("in") => used["in"][rindex["in"]]
      <4>1. "daemon" \in Thread /\ ReadsFrom("daemon") = "in"
        BY DEF Thread, ReadsFrom
      <4> QED BY <1>1, <4>1 DEF RingInv, ReaderFindsPacket, ReadStage
    <3>2. CASE WritesTo(t) = "in"
      BY <1>0, <2>1, <3>1, <3>2 DEF Direction
    <3>3. CASE WritesTo(t) # "in"
      BY <1>0, <2>1, <3>3 DEF Direction
    <3> QED BY <3>2, <3>3
  <2> QED BY <1>1, <2>1, <2>2, <2>3
<1>8. ASSUME NEW t \in Thread, Take(t)
      PROVE  FALSE
  BY <1>8 DEF Take
<1>9. ASSUME NEW t \in Thread, Copy(t)
      PROVE  /\ Reading("in") /\ ~ Reading("in")'
             /\ delivered' = [delivered EXCEPT !["in"] = data["in"][rindex["in"]]]
  <2>1. t = "daemon"
    BY <1>0, <1>9 DEF Copy, ReadStage, Thread
  <2>2. pc["daemon"] \in ReadStage /\ pc'["daemon"] \notin ReadStage
    BY <1>0, <1>9, <2>1 DEF Copy, ReadStage
  <2>3. ReadsFrom("daemon") = "in"
    BY DEF ReadsFrom
  <2>4. delivered' = [delivered EXCEPT !["in"] = data["in"][rindex["in"]]]
    BY <1>9, <2>1, <2>3 DEF Copy
  <2> QED BY <1>1, <2>2, <2>4
<1>10. Goal => \A d \in Direction : /\ Reading(d)' <=> Reading(d)
                                    /\ Reading(d) => /\ rindex'[d] = rindex[d]
                                                     /\ data'[d][rindex[d]] = data[d][rindex[d]]
  BY <1>1, <1>3 DEF Direction
<1> HIDE DEF Goal
<1>11. \/ SocketFails \/ SelectFails \/ Restart
       \/ \E t \in Thread : Offer(t) \/ LockForWriting(t) \/ Refuse(t) \/ Announce(t)
                            \/ CheckUsed(t) \/ LockForReading(t)
       \/ \E t \in Thread : Fill(t) \/ Take(t) \/ Copy(t)
  BY DEF Next, Write, Read
<1>12. Goal => delivered' = delivered
  BY DEF Goal
<1> QED BY <1>1, <1>2, <1>3, <1>4, <1>5, <1>6, <1>7, <1>8, <1>9, <1>10, <1>11, <1>12

(* Closing the eventfds loses every packet but the one ndnd's thread is in. *)
LEMMA ClosingStep ==
    ASSUME RingInv, Next, open, ~open'
    PROVE  /\ delivered' = delivered /\ data' = data /\ ~ Reading("out")'
           /\ Reading("in")' <=> Reading("in")
           /\ rindex'["in"] = rindex["in"]
<1>1. Restart
  BY DEF Next, SocketFails, SelectFails, Offer, Write, Read, LockForWriting,
     Refuse, Fill, Announce, Take, CheckUsed, LockForReading, Copy, fds
<1>2. RestartEffect
  BY <1>1, RestartDoes
<1>3. /\ pc \in [Thread -> Stage] /\ rindex \in [Direction -> Slot]
  BY DEF RingInv, TypeOK
<1>4. rindex'["in"] = rindex["in"] /\ pc'["daemon"] = pc["daemon"]
  BY <1>2, <1>3 DEF RestartEffect, Thread, Direction
<1>5. Reading("in")' <=> Reading("in")
  BY <1>4, Roles DEF Reading, Reader
<1>6. ~ Reading("out")'
  BY DeafStep, Roles DEF DeafAfterwards, Reading, ReadStage, Reader
<1> QED BY <1>2, <1>4, <1>5, <1>6 DEF RestartEffect

(* The initial states map to initial states. *)
LEMMA RefinesInit == Init => Channel!Init
<1> SUFFICES ASSUME Init
             PROVE  /\ Queue = [d \in Direction |-> << >>]
                    /\ delivered = [d \in Direction |-> 0]
  BY DEF Channel!Init, Queue
<1>1. RingInv
  BY RingInit
<1>2. ASSUME NEW d \in Direction
      PROVE  Pending(d) = << >>
  <2>1. Count(d) = 0
    BY Roles DEF Init, Count, Unread, Reading, One
  <2>2. Along(data[d], rindex[d], 0) \in Seq(0..MaxPackets) /\ Len(Along(data[d], rindex[d], 0)) = 0
    BY <1>1, BoundAssumption, PendingIsAlong, AlongType
  <2> QED BY <1>1, <2>1, <2>2, PendingIsAlong, EmptySeq
<1> QED BY <1>2 DEF Init, Queue

(* With the eventfds closed, a queue is the packet being read. *)
LEMMA ClosedQueue ==
    ASSUME RingInv, ~open, NEW d \in Direction
    PROVE  Pending(d) = IF Reading(d) THEN << data[d][rindex[d]] >> ELSE << >>
  BY PendingIsAlong, AlongShort DEF Count, One

LEMMA ClosedQueueNext ==
    ASSUME RingInv', ~open', NEW d \in Direction
    PROVE  Pending(d)' = IF Reading(d)' THEN << data'[d][rindex'[d]] >> ELSE << >>
<1>1. Pending(d)' = Along(data'[d], rindex'[d], One(Reading(d)'))
  BY PendingIsAlongNext DEF Count
<1>2. rindex'[d] \in Slot /\ data'[d] \in [Slot -> 0..MaxPackets]
  BY DEF RingInv, TypeOK
<1> QED BY <1>1, <1>2, AlongShort DEF One

(* The packet a writer fills in is newer than all it filled in before. *)
LEMMA NewestIsOlder ==
    ASSUME RingInv, open, NEW e \in Direction, Filled(e)
    PROVE  Channel!Newest(e) \in Int /\ Channel!Newest(e) < offered[e]
<1>1. /\ offered[e] \in Nat /\ delivered[e] \in Nat /\ delivered[e] < offered[e]
      /\ \A i \in Slot : data[e][i] \in Nat /\ data[e][i] < offered[e]
  BY BoundAssumption DEF RingInv, TypeOK, Fresh, One, Filled
<1>2. Channel!Newest(e) = IF Queue[e] = << >> THEN delivered[e] ELSE Queue[e][Len(Queue[e])]
  BY DEF Channel!Newest, Queue
<1>3. Queue[e] = Along(data[e], rindex[e], Count(e))
  BY PendingIsAlong DEF Queue
<1>4. CASE Count(e) = 0
  <2>1. Queue[e] = << >>
    BY <1>3, <1>4, PendingIsAlong, AlongShort
  <2> QED BY <1>1, <1>2, <2>1
<1>5. CASE Count(e) # 0
  <2>1. Count(e) \in 1..Count(e) /\ Onward(rindex[e], Count(e) - 1) \in Slot
    BY <1>5, PendingIsAlong, AlongIsOnward, BoundAssumption
  <2>2. Queue[e][Len(Queue[e])] = data[e][Onward(rindex[e], Count(e) - 1)]
    <3> DEFINE c == Count(e)
    <3>1. /\ c \in 0..Size /\ rindex[e] \in Slot /\ data[e] \in [Slot -> 0..MaxPackets]
          /\ c \in 1..c
      BY <2>1, PendingIsAlong
    <3> HIDE DEF c
    <3>2. Len(Along(data[e], rindex[e], c)) = c
      BY <3>1, AlongType
    <3>3. Along(data[e], rindex[e], c)[c] = data[e][Onward(rindex[e], c - 1)]
      BY <3>1, AlongType
    <3> QED BY <1>3, <3>2, <3>3 DEF c
  <2>3. Queue[e] # << >>
    <3>1. Len(Along(data[e], rindex[e], Count(e))) = Count(e)
      BY PendingIsAlong, AlongType
    <3> QED BY <1>3, <1>5, <3>1, EmptySeq
  <2> QED BY <1>1, <1>2, <2>1, <2>2, <2>3
<1> QED BY <1>4, <1>5

(* What closing the eventfds leaves of a queue is a prefix of it. *)
LEMMA LosingRing ==
    ASSUME RingInv, RingInv', open, ~open', data' = data, ~ Reading("out")',
           Reading("in")' <=> Reading("in"), rindex'["in"] = rindex["in"],
           NEW d \in Direction
    PROVE  /\ Count(d)' \in 0..Len(Pending(d)) /\ Count(d)' \in 0..Size
           /\ Pending(d)' = SubSeq(Pending(d), 1, Count(d)')
<1>1. /\ Pending(d) = Along(data[d], rindex[d], Count(d))
      /\ Count(d) \in 0..Size /\ rindex[d] \in Slot
      /\ data[d] \in [Slot -> 0..MaxPackets]
  BY PendingIsAlong
<1>2. /\ Pending(d)' = Along(data[d], rindex'[d], Count(d)')
      /\ Count(d)' \in 0..Size /\ Count(d)' = One(Reading(d)')
  BY PendingIsAlongNext DEF Count
<1>3. Len(Pending(d)) = Count(d)
  <2>1. Len(Along(data[d], rindex[d], Count(d))) = Count(d)
    BY <1>1, AlongType
  <2> QED BY <1>1, <2>1
<1>4. CASE ~ Reading(d)'
  <2>1. Count(d)' = 0
    BY <1>2, <1>4 DEF One
  <2>2. Pending(d)' = << >>
    <3>1. rindex'[d] \in Slot
      BY DEF RingInv, TypeOK
    <3> QED BY <1>1, <1>2, <2>1, <3>1, AlongShort
  <2>3. SubSeq(Pending(d), 1, 0) = << >>
    BY SubSeqEmpty
  <2>4. 0 \in 0..Count(d) /\ 0 \in 0..Size
    BY <1>1, BoundAssumption
  <2> QED BY <1>3, <2>1, <2>2, <2>3, <2>4
<1>5. CASE Reading(d)'
  <2>1. rindex'[d] = rindex[d] /\ Reading(d)
    BY <1>5 DEF Direction
  <2>2. Count(d)' = 1 /\ Count(d) >= 1
    <3>1. trigger[d] \in Nat
      BY BoundAssumption DEF RingInv, TypeOK
    <3> QED BY <1>2, <1>5, <2>1, <3>1 DEF One, Count, Unread
  <2>3. 1 \in 0..Count(d)
    BY <1>1, <2>2
  <2>4. Along(data[d], rindex[d], 1) = SubSeq(Along(data[d], rindex[d], Count(d)), 1, 1)
    <3> DEFINE c == Count(d)
    <3>1. c \in 0..Size /\ 1 \in 0..c
      BY <1>1, <2>3
    <3> HIDE DEF c
    <3>2. Along(data[d], rindex[d], 1) = SubSeq(Along(data[d], rindex[d], c), 1, 1)
      BY <1>1, <3>1, AlongKept
    <3> QED BY <3>2 DEF c
  <2> QED BY <1>1, <1>2, <1>3, <2>1, <2>2, <2>3, <2>4
<1> QED BY <1>4, <1>5

(* With the eventfds closed, the packet being read stays the only one. *)
LEMMA KeepingRing ==
    ASSUME RingInv, RingInv', ~open, ~open', NEW d \in Direction,
           Reading(d)' <=> Reading(d),
           Reading(d) => /\ rindex'[d] = rindex[d]
                         /\ data'[d][rindex[d]] = data[d][rindex[d]]
    PROVE  Pending(d)' = Pending(d)
<1>1. /\ Pending(d) = IF Reading(d) THEN << data[d][rindex[d]] >> ELSE << >>
      /\ Pending(d)' = IF Reading(d)' THEN << data'[d][rindex'[d]] >> ELSE << >>
  BY ClosedQueue, ClosedQueueNext
<1> QED BY <1>1

(* Every step maps to a step of the two channels, or to none. *)
LEMMA RefinesNext ==
    ASSUME RingInv, RingInv', Next
    PROVE  Channel!Next \/ UNCHANGED Channel!vars
<1>0. /\ Queue = [d \in Direction |-> Pending(d)]
      /\ Queue' = [d \in Direction |-> Pending(d)']
  BY DEF Queue
<1>1. /\ delivered \in [Direction -> 0..MaxPackets] /\ delivered' \in [Direction -> 0..MaxPackets]
      /\ offered \in [Direction -> 0..MaxPackets]
  BY DEF RingInv, TypeOK
<1>2. ASSUME \A d \in Direction : Pending(d)' = Pending(d), delivered' = delivered
      PROVE  UNCHANGED Channel!vars
  BY <1>0, <1>2 DEF Channel!vars, Queue
<1>3. CASE open /\ open'
  <2>1. PICK e \in Direction : /\ Quiet(e) \/ Filled(e) \/ Copied(e)
                               /\ \A d \in Direction \ {e} : Quiet(d)
    BY <1>3, RingStep
  <2>2. \A d \in Direction \ {e} : Pending(d)' = Pending(d) /\ delivered'[d] = delivered[d]
    BY <1>3, <2>1, OpenRefines
  <2>3. CASE Quiet(e)
    <3>1. Pending(e)' = Pending(e) /\ delivered'[e] = delivered[e]
      BY <1>3, <2>3, OpenRefines
    <3>2. delivered' = delivered
      BY <1>1, <2>2, <3>1
    <3> QED BY <1>2, <2>2, <3>1, <3>2
  <2>4. CASE Filled(e)
    <3>1. /\ Len(Pending(e)) < Size /\ delivered'[e] = delivered[e]
          /\ Pending(e)' = Append(Pending(e), offered[e])
      BY <1>3, <2>4, OpenRefines
    <3>2. delivered' = delivered
      BY <1>1, <2>2, <3>1
    <3>3. Channel!Newest(e) < offered[e] /\ Channel!Newest(e) \in Int
      BY <1>3, <2>4, NewestIsOlder
    <3>4. Queue' = [Queue EXCEPT ![e] = Append(@, offered[e])]
      BY <1>0, <2>2, <3>1
    <3>5. offered[e] \in Channel!Newest(e) + 1 .. MaxPackets
      BY <1>1, <3>3, BoundAssumption
    <3>6. Channel!Accept(e)
      BY <1>0, <3>1, <3>2, <3>4, <3>5 DEF Channel!Accept, Queue
    <3> QED BY <3>6 DEF Channel!Next
  <2>5. CASE Copied(e)
    <3>1. /\ Pending(e) # << >> /\ delivered'[e] = Head(Pending(e))
          /\ Pending(e)' = Tail(Pending(e))
      BY <1>3, <2>5, OpenRefines
    <3>2. delivered' = [delivered EXCEPT ![e] = Head(Pending(e))]
      BY <1>1, <2>2, <3>1
    <3>3. Queue' = [Queue EXCEPT ![e] = Tail(@)]
      BY <1>0, <2>2, <3>1
    <3>4. Channel!Deliver(e)
      BY <1>0, <3>1, <3>2, <3>3 DEF Channel!Deliver, Queue
    <3> QED BY <3>4 DEF Channel!Next
  <2> QED BY <2>1, <2>3, <2>4, <2>5
<1>4. CASE open /\ ~open'
  <2>1. /\ delivered' = delivered /\ data' = data /\ ~ Reading("out")'
        /\ Reading("in")' <=> Reading("in")
        /\ rindex'["in"] = rindex["in"]
    BY <1>4, ClosingStep
  <2> DEFINE kept == [d \in Direction |-> Count(d)']
  <2>2. ASSUME NEW d \in Direction
        PROVE  /\ Count(d)' \in 0..Len(Pending(d)) /\ Count(d)' \in 0..Size
               /\ Pending(d)' = SubSeq(Pending(d), 1, Count(d)')
    BY <1>4, <2>1, LosingRing
  <2>3. kept \in [Direction -> 0..Size]
    BY <2>2
  <2>4. Queue' = [d \in Direction |-> SubSeq(Queue[d], 1, kept[d])]
    BY <1>0, <2>2
  <2>5. \A d \in Direction : kept[d] <= Len(Queue[d])
    BY <1>0, <2>2
  <2> HIDE DEF kept
  <2>6. Channel!Lose
    BY <2>1, <2>3, <2>4, <2>5 DEF Channel!Lose, Queue
  <2> QED BY <2>6 DEF Channel!Next
<1>5. CASE ~open
  <2>1. ~open'
    BY <1>5, ClosedStep
  <2>2. CASE delivered' = delivered /\ \A d \in Direction :
                  /\ Reading(d)' <=> Reading(d)
                  /\ Reading(d) => /\ rindex'[d] = rindex[d]
                                   /\ data'[d][rindex[d]] = data[d][rindex[d]]
    BY <1>2, <1>5, <2>1, <2>2, KeepingRing
  <2>3. CASE /\ Reading("in") /\ ~ Reading("in")' /\ ~ Reading("out") /\ ~ Reading("out")'
             /\ delivered' = [delivered EXCEPT !["in"] = data["in"][rindex["in"]]]
    <3>1. /\ Pending("in") = << data["in"][rindex["in"]] >> /\ Pending("in")' = << >>
          /\ Pending("out") = << >> /\ Pending("out")' = << >>
      BY <1>5, <2>1, <2>3, ClosedQueue, ClosedQueueNext DEF Direction
    <3> DEFINE x == data["in"][rindex["in"]]
    <3>a. Tail(<< x >>) = << >> /\ Head(<< x >>) = x
      OBVIOUS
    <3>b. Queue["in"] = << x >> /\ Queue["out"] = << >>
      BY <1>0, <3>1 DEF Direction
    <3>2. Queue' = [Queue EXCEPT !["in"] = Tail(@)]
      <4>1. Queue' = [d \in Direction |-> << >>]
        BY <1>0, <3>1 DEF Direction
      <4>2. [Queue EXCEPT !["in"] = Tail(@)] = [d \in Direction |-> << >>]
        BY <1>0, <3>a, <3>b DEF Direction
      <4> QED BY <4>1, <4>2
    <3>3. delivered' = [delivered EXCEPT !["in"] = Head(Queue["in"])]
      BY <2>3, <3>a, <3>b
    <3>4. Queue["in"] # << >>
      BY <1>0, <3>1 DEF Direction
    <3>5. Channel!Deliver("in")
      BY <3>2, <3>3, <3>4 DEF Channel!Deliver, Queue
    <3> QED BY <3>5 DEF Channel!Next, Direction
  <2> QED BY <1>5, <2>2, <2>3, ClosedStep
<1> QED BY <1>3, <1>4, <1>5, OpenBefore

(***************************************************************************)
(* The two rings are a pair of lossy channels that keep the order, whatever*)
(* fails and however often: no packet is delivered twice, damaged or out   *)
(* of order.                                                               *)
(***************************************************************************)
THEOREM RingsAreChannels == Spec => ImplementsChannel
<1>1. RingInv /\ RingInv' /\ [Next]_vars => [Channel!Next]_Channel!vars
  <2> SUFFICES ASSUME RingInv, RingInv', [Next]_vars
               PROVE  Channel!Next \/ UNCHANGED Channel!vars
    OBVIOUS
  <2>1. CASE UNCHANGED vars
    <3>1. UNCHANGED <<used, data, rindex, open, pc, delivered>>
      BY <2>1 DEF vars, slots, fds
    <3>2. \A d \in Direction : Pending(d)' = Pending(d)
      BY <3>1 DEF Pending, Reading, Reader
    <3> QED BY <3>1, <3>2 DEF Channel!vars
  <2> QED BY <2>1, RefinesNext
<1> QED BY <1>1, RefinesInit, RingAlways, PTL DEF Spec, ImplementsChannel, Channel!Spec
=============================================================================
