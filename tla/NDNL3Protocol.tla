---------------------------- MODULE NDNL3Protocol ----------------------------
(***************************************************************************)
(* The forwarding core of ndnd: NDNL3Protocol with its pending interest    *)
(* table (NDNPit), its forwarding base (NDNFib), the flooding strategy and *)
(* the faces of one daemon.  Handlers run one at a time in the libevent    *)
(* loop; the management thread changes the FIB beside them, in two steps   *)
(* (GetFace, then Add or RemovePrefix).                                    *)
(*                                                                         *)
(* The content store is the set of cached names (module ContentStore has   *)
(* its trie and its LRU list).  Time is what is left of a lifetime: an     *)
(* entry with ttl = 0 is one whose expire time has passed.  No face has an *)
(* Interest limit (m_bucketMax is -1 and SetBucketMax has no caller), no   *)
(* record is ever RED and nacks are never sent (m_nacksEnabled is FALSE    *)
(* and has no setter), so these tests of the code do not appear.           *)
(***************************************************************************)
EXTENDS NDNNames, Integers, FiniteSets

CONSTANTS
    Component,       \* what names are made of
    Name,            \* names of Interests, of contents and of prefixes
    InterestName,    \* the names Interests and contents are about
    RegName,         \* the prefixes applications register
    TextLength,      \* how long the text of such a prefix is in a message
    FaceLength,      \* how many digits the number of a connection has
    Nonce,
    Lifetime,        \* lifetimes found in Interest headers
    MaxLifetime,
    LocalFace,       \* connections of applications
    AdhocFace, HubFace, IPFace,  \* faces made by ndnd.cc, never removed
    Source,          \* addresses and ports behind the hub faces
    NackCode,        \* what peers put in nacks, {} when nobody sends them
    FibNode,         \* memory a FIB entry can occupy
    NoSource, NoFace, NoFib, Freed, NoEntry, Idle,
    CSSize,          \* capacity of the content store
    MaxRetx,         \* bound: m_retxCount saturates here
    QueueSize,       \* capacity of the management queue
    MaxPackets,      \* bound: packets and management messages in a behaviour
    AppsLeave,       \* applications may close their connection ...
    AppsLinger,      \* ... but not while a message of theirs is unprocessed
    AppsUnregister   \* applications send "unreg" as well as "selfreg"

DeviceFace == AdhocFace \cup HubFace \cup IPFace
Face == LocalFace \cup DeviceFace
Requester == Face \cup Source

ASSUME NameAssumption ==
    /\ Name \subseteq Seq(Component) /\ IsFiniteSet(Name)
    /\ InterestName \subseteq Name /\ RegName \subseteq Name
ASSUME LifetimeAssumption ==
    MaxLifetime \in Nat /\ Lifetime \subseteq 0..MaxLifetime
ASSUME BoundAssumption ==
    /\ CSSize \in Nat \ {0} /\ QueueSize \in Nat \ {0}
    /\ MaxRetx \in Nat /\ MaxPackets \in Nat
ASSUME TextAssumption ==
    TextLength \in [RegName -> Nat] /\ FaceLength \in [LocalFace -> Nat]
ASSUME AppsAssumption ==
    AppsLeave \in BOOLEAN /\ AppsLinger \in BOOLEAN /\ AppsUnregister \in BOOLEAN
ASSUME FaceAssumption ==
    /\ LocalFace \cap DeviceFace = {} /\ Source \cap Face = {}
    /\ AdhocFace \cap HubFace = {} /\ NoFace \notin Face

VARIABLES
    up,       \* the daemon process is alive
    face,     \* life of each face: see FaceState
    pit,      \* the PIT entry of each name, or NoEntry
    fib,      \* what each piece of FIB memory holds: an entry, or Freed
    cs,       \* names in the content store
    stale,    \* cached names whose packet keeps a freed metadata pointer
    queue,    \* the management message queue
    manager,  \* the request the management thread has in hand, or Idle
    inbuf,    \* length of the message its buffer holds
    credit,   \* history: Interests received from minus contents sent to
    packets   \* packets and management messages so far

tables == <<pit, fib, cs, stale>>
management == <<queue, manager, inbuf>>
vars == <<up, face, pit, fib, cs, stale, queue, manager, inbuf, credit, packets>>

(***************************************************************************)
(* "open": connected.  "hup": the application is gone, its end of file not *)
(* read yet.  "deaf": reading failed, the face left the event monitor but  *)
(* not the stack.  "gone": removed; descriptors are never closed, so a     *)
(* number does not come back.                                              *)
(***************************************************************************)
FaceState == {"absent", "open", "hup", "deaf", "gone"}

PitEntry == [fib      : FibNode \cup {NoFib},  \* m_fibEntry
             nonces   : SUBSET Nonce,          \* m_seenNonces
             incoming : SUBSET Face,
             outgoing : SUBSET Face,
             inVain   : SUBSET Face,           \* m_waitingInVain of outgoing
             retx     : [Face -> 0..MaxRetx],  \* m_retxCount of outgoing
             ttl      : 0..MaxLifetime,
             sources  : SUBSET Source]         \* sourceMetadata

(* All records cost 0 (LOCAL_FACE_METRIC); those not green are yellow. *)
FibEntry == [prefix : RegName,
             faces  : SUBSET (Face \cup {NoFace}),
             green  : SUBSET (Face \cup {NoFace})]

(* A message of an application names its own connection; what the          *)
(* management thread has in hand is the face it found.                     *)
Message == [action : {"selfreg", "unreg"}, prefix : RegName, face : LocalFace]

Request == [action : {"selfreg", "unreg"}, prefix : RegName,
            face : Face \cup {NoFace}]

ASSUME NullAssumption ==
    /\ NoSource \notin Source /\ NoFib \notin FibNode
    /\ Freed \notin FibEntry /\ NoEntry \notin PitEntry /\ Idle \notin Request

Attached == {f \in Face : face[f] \in {"open", "hup", "deaf"}}  \* m_faces
Monitored == {f \in Face : face[f] \in {"open", "hup"}}
PitNames == {n \in Name : pit[n] # NoEntry}
Allocated == {a \in FibNode : fib[a] # Freed}

(***************************************************************************)
(* Initially only the device faces exist and every table is empty.         *)
(***************************************************************************)
Init ==
    /\ up = TRUE
    /\ face = [f \in Face |-> IF f \in DeviceFace THEN "open" ELSE "absent"]
    /\ pit = [n \in Name |-> NoEntry]
    /\ fib = [a \in FibNode |-> Freed]
    /\ cs = {}
    /\ stale = {}
    /\ queue = << >>
    /\ manager = Idle
    /\ inbuf = 0
    /\ credit = [r \in Requester |-> 0]
    /\ packets = 0

(* The process is killed; nothing it kept matters any more. *)
Die == /\ up' = FALSE
       /\ UNCHANGED <<face, pit, fib, cs, stale, queue, manager, inbuf, credit, packets>>

-----------------------------------------------------------------------------
(* FIB: lookups, status updates, and what is read through a pointer. *)

FibNodeOf(p) == {a \in Allocated : fib[a].prefix = p}

FibMatch(n) ==
    LET prefixes == {fib[a].prefix : a \in Allocated}
    IN  IF HasPrefixIn(prefixes, n)
        THEN CHOOSE a \in Allocated :
                 fib[a].prefix = LongestPrefixMatch(prefixes, n)
        ELSE NoFib

(* An entry is freed after its last face, so its memory reads as empty. *)
FacesAt(fb, a) == IF fb[a] = Freed THEN {} ELSE fb[a].faces
GreenAt(fb, a) == IF fb[a] = Freed THEN {} ELSE fb[a].green

(* Following m_fibEntry to freed memory is undefined: it may be fatal. *)
Dangling(a) == a # NoFib /\ fib[a] = Freed

(* Comparing a face with the NULL face of a record dereferences NULL. *)
Poisoned(a) == a # NoFib /\ NoFace \in FacesAt(fib, a)

UpdateStatus(a, f, isGreen) ==
    IF a = NoFib \/ fib[a] = Freed THEN fib
    ELSE IF f \notin fib[a].faces THEN fib
    ELSE [fib EXCEPT ![a].green = IF isGreen THEN @ \cup {f} ELSE @ \ {f}]

Without(f, entry) == [entry EXCEPT !.faces = @ \ {f}, !.green = @ \ {f}]

(* Mutant: other faces of the entry keep f among them. *)
RemoveRecordOfLast(a, f) ==
    IF fib[a] = Freed \/ Without(f, fib[a]).faces = {} THEN Freed ELSE fib[a]

RemoveRecord(a, f) ==
    IF fib[a] = Freed THEN Freed
    ELSE IF Without(f, fib[a]).faces = {} THEN Freed
    ELSE Without(f, fib[a])

-----------------------------------------------------------------------------
(* PIT: entries. *)

NewEntry(node, life) ==
    [fib |-> node, nonces |-> {}, incoming |-> {}, outgoing |-> {},
     inVain |-> {}, retx |-> [f \in Face |-> 0], ttl |-> life, sources |-> {}]

(* Mutant: the new lifetime is added to what is left. *)
AddedUp(x, y) == x + y

AtLeast(x, y) == IF x >= y THEN x ELSE y

(* AddOutgoing for every face of F: a new record, or UpdateOnRetransmit. *)
AddOutgoing(e, F) ==
    [e EXCEPT !.outgoing = @ \cup F,
              !.inVain = @ \ F,
              !.retx = [f \in Face |->
                  IF f \notin F THEN @[f]
                  ELSE IF f \notin e.outgoing THEN 0
                  ELSE IF @[f] < MaxRetx THEN @[f] + 1
                  ELSE MaxRetx]]

(* Mutant: only the incoming record goes. *)
RemoveIncomingReference(e, f) == [e EXCEPT !.incoming = @ \ {f}]

RemoveAllReferencesToFace(e, f) ==
    [e EXCEPT !.incoming = @ \ {f}, !.outgoing = @ \ {f}, !.inVain = @ \ {f}]

(* The pruning timeout is never set: the entry expires at once. *)
GiveUpInterest(e) ==
    [e EXCEPT !.incoming = {}, !.outgoing = {}, !.inVain = {}, !.ttl = 0]

(* PIT lookup for an Interest: any entry for a prefix of n will do. *)
IsNew(n) == ~ HasPrefixIn(PitNames, n)

KeyOf(n) == IF IsNew(n) THEN n ELSE LongestPrefixMatch(PitNames, n)

Found(n, life) == IF IsNew(n) THEN NewEntry(FibMatch(n), life) ELSE pit[KeyOf(n)]

(* Mutant: nonces are not compared. *)
NeverDuplicated(n, x) == FALSE

IsDuplicated(n, x) == ~ IsNew(n) /\ x \in pit[KeyOf(n)].nonces

(* Mutants: a duplicate is not recorded; its address is not. *)
RecordedUnlessDuplicate(e, dup, f, x, life, s) ==
    [e EXCEPT !.nonces = @ \cup {x},
              !.incoming = IF dup THEN @ ELSE @ \cup {f},
              !.ttl = AtLeast(@, life),
              !.sources = IF s # NoSource /\ (@ = {} \/ ~dup)
                          THEN @ \cup {s} ELSE @]

RecordedWithoutSource(e, dup, f, x, life, s) ==
    [e EXCEPT !.nonces = @ \cup {x},
              !.incoming = @ \cup {f},
              !.ttl = AtLeast(@, life),
              !.sources = IF s # NoSource /\ ~dup THEN @ \cup {s} ELSE @]

(* The entry after OnInterest has recorded the Interest in it. *)
Recorded(e, dup, f, x, life, s) ==
    [e EXCEPT !.nonces = @ \cup {x},
              !.incoming = @ \cup {f},
              !.ttl = AtLeast(@, life),
              !.sources = IF s # NoSource /\ (@ = {} \/ ~dup)
                          THEN @ \cup {s} ELSE @]

-----------------------------------------------------------------------------
(***************************************************************************)
(* Sending.  send() on a connection whose other end is closed raises       *)
(* SIGPIPE, which nobody handles.  The adhoc face reads and clears the     *)
(* metadata pointer of the packet: "null" pointers are fatal there,        *)
(* "freed" ones undefined.                                                 *)
(***************************************************************************)
Sendable(F) == \A f \in F : f # NoFace /\ face[f] = "open"

Survives(F, meta) ==
    Sendable(F) /\ (meta = "null" => F \cap AdhocFace = {})

MayDie(F, meta) ==
    ~ Sendable(F) \/ (meta # "intact" /\ F \cap AdhocFace # {})

(***************************************************************************)
(* PropagateInterest: one green face not asked before (the retransmission  *)
(* limit m_maxRetxCount is 0) if there is one, else every face of the FIB  *)
(* entry, or every face of the daemon when there is no FIB entry.          *)
(***************************************************************************)
MaxRetxCount == 0

ViaGreen(e, fb) ==
    IF e.fib = NoFib THEN {}
    ELSE {g \in GreenAt(fb, e.fib) :
             /\ g \notin e.incoming
             /\ ~ (g \in e.outgoing /\ e.retx[g] >= MaxRetxCount)}

(* Mutant: without a FIB entry nobody is asked. *)
FloodKnown(e, fb) == IF e.fib = NoFib THEN {} ELSE FacesAt(fb, e.fib)

Flood(e, fb) == IF e.fib = NoFib THEN Attached ELSE FacesAt(fb, e.fib)

Targets(e, fb) ==
    IF ViaGreen(e, fb) # {} THEN {{g} : g \in ViaGreen(e, fb)} ELSE {Flood(e, fb)}

Propagated(e, F) == IF F = {} THEN GiveUpInterest(e) ELSE AddOutgoing(e, F)

(* Mutant: content also goes to the faces that were asked. *)
ServedAll(e) == e.incoming \cup e.outgoing

(* Those that receive a packet when the entry e is satisfied. *)
Served(e) ==
    e.incoming \cup (IF e.incoming \cap HubFace # {} THEN e.sources ELSE {})

Charged(c, R) == [r \in Requester |-> IF r \in R THEN c[r] + 1 ELSE c[r]]
Repaid(c, R) == [r \in Requester |-> IF r \in R THEN c[r] - 1 ELSE c[r]]

(* Content store insertion: a new name evicts another one when it is full. *)
AfterAdd(n) ==
    IF n \in cs THEN {cs}
    ELSE IF Cardinality(cs) < CSSize THEN {cs \cup {n}}
    ELSE {(cs \ {victim}) \cup {n} : victim \in cs}

CanReceive(f) == up /\ f \in Monitored /\ packets < MaxPackets

-----------------------------------------------------------------------------
(***************************************************************************)
(* OnInterest.  The PIT records the Interest; then the content store       *)
(* answers everyone waiting on the entry, or a known nonce ends it, or the *)
(* Interest is forwarded.  Looking "/" up in an empty cache follows NULL.  *)
(***************************************************************************)
OnInterest(f, n, x, life, s) ==
    LET key == KeyOf(n)
        old == Found(n, life)
        dup == IsDuplicated(n, x)
        e == Recorded(old, dup, f, x, life, s)
        meta == IF s # NoSource /\ old.sources = {} THEN "freed" ELSE "intact"
        asked == Charged(credit, {f} \cup ({s} \ {NoSource}))
        hits == CacheMatch(cs, n)
        nothing == n = << >> /\ cs = {}
    IN
    /\ CanReceive(f)
    /\ (s # NoSource) <=> (f \in HubFace)
    /\ \/ \E c \in hits :
             LET kept == IF c \in stale THEN "freed" ELSE "intact"
             IN  \/ /\ Survives(e.incoming, kept)
                    /\ pit' = [pit EXCEPT ![key] = NoEntry]
                    /\ credit' = Repaid(asked, Served(e))
                    /\ stale' = IF e.incoming \cap AdhocFace # {}
                                THEN stale \ {c} ELSE stale
                    /\ packets' = packets + 1
                    /\ UNCHANGED <<up, face, fib, cs, management>>
                 \/ MayDie(e.incoming, kept) /\ Die
       \/ /\ nothing
          /\ Die
       \/ /\ hits = {} /\ ~nothing /\ dup
          /\ pit' = [pit EXCEPT ![key] = e]
          /\ credit' = asked
          /\ packets' = packets + 1
          /\ UNCHANGED <<up, face, fib, cs, stale, management>>
       \/ /\ hits = {} /\ ~nothing /\ ~dup
          /\ \E F \in Targets(e, fib) :
                \/ /\ Survives(F, meta)
                   /\ pit' = [pit EXCEPT ![key] = Propagated(e, F)]
                   /\ credit' = asked
                   /\ packets' = packets + 1
                   /\ UNCHANGED <<up, face, fib, cs, stale, management>>
                \/ (MayDie(F, meta) \/ Dangling(e.fib)) /\ Die

(***************************************************************************)
(* OnData: content nobody waits for is cached; content from a face that    *)
(* was not asked is dropped; otherwise the face turns green, the content   *)
(* is cached and everyone waiting on that very name is answered.           *)
(***************************************************************************)
Unsolicited(f, n) ==
    /\ CanReceive(f) /\ pit[n] = NoEntry
    /\ cs' \in AfterAdd(n)
    /\ stale' = stale \cap cs'
    /\ packets' = packets + 1
    /\ UNCHANGED <<up, face, pit, fib, management, credit>>

NotAsked(f, n) ==
    /\ CanReceive(f) /\ pit[n] # NoEntry /\ f \notin pit[n].outgoing
    /\ packets' = packets + 1
    /\ UNCHANGED <<up, face, tables, management, credit>>

Answer(f, n) ==
    LET e == pit[n]
        meta == IF f \in HubFace THEN "freed" ELSE "intact"
        cleared == e.incoming \cap AdhocFace # {}
    IN
    /\ CanReceive(f) /\ e # NoEntry /\ f \in e.outgoing
    /\ \/ /\ Survives(e.incoming, meta) /\ ~ Poisoned(e.fib)
          /\ fib' = UpdateStatus(e.fib, f, TRUE)
          /\ cs' \in AfterAdd(n)
          /\ stale' = (stale \cap cs') \cup
                      (IF meta = "freed" /\ n \notin cs /\ ~cleared THEN {n} ELSE {})
          /\ pit' = [pit EXCEPT ![n] = NoEntry]
          /\ credit' = Repaid(credit, Served(e))
          /\ packets' = packets + 1
          /\ UNCHANGED <<up, face, management>>
       \/ (MayDie(e.incoming, meta) \/ Dangling(e.fib) \/ Poisoned(e.fib)) /\ Die

OnData(f, n) == Unsolicited(f, n) \/ NotAsked(f, n) \/ Answer(f, n)

(***************************************************************************)
(* OnNack.  The lookup creates the entry it does not find and remembers    *)
(* the nonce in any case; only a nack for a nonce already seen, from a     *)
(* face the Interest went to, goes on.  When every outgoing face has       *)
(* nacked and somebody still waits, the Interest is forwarded again, in a  *)
(* new packet without metadata.                                            *)
(***************************************************************************)
StrayNack(f, n, x, life) ==
    /\ CanReceive(f) /\ ~ IsDuplicated(n, x)
    /\ pit' = [pit EXCEPT ![KeyOf(n)] =
                 [Found(n, life) EXCEPT !.nonces = @ \cup {x}]]
    /\ packets' = packets + 1
    /\ UNCHANGED <<up, face, fib, cs, stale, management, credit>>

NackNotAsked(f, n, x) ==
    /\ CanReceive(f) /\ IsDuplicated(n, x) /\ f \notin pit[KeyOf(n)].outgoing
    /\ packets' = packets + 1
    /\ UNCHANGED <<up, face, tables, management, credit>>

Nacked(e, f, code) ==
    [e EXCEPT !.inVain = @ \cup {f},
              !.incoming = IF code = "GIVEUP_PIT" THEN @ \ {f} ELSE @]

AreAllOutgoingInVain(e) == e.outgoing \subseteq e.inVain

NackAsked(f, n, x, code) ==
    LET key == KeyOf(n)
        e == Nacked(pit[key], f, code)
        fb == UpdateStatus(e.fib, f, FALSE)
    IN
    /\ CanReceive(f) /\ IsDuplicated(n, x) /\ f \in pit[key].outgoing
    /\ \/ /\ ~ Poisoned(e.fib)
          /\ e.incoming = {} \/ ~ AreAllOutgoingInVain(e)
          /\ pit' = [pit EXCEPT ![key] = e]
          /\ fib' = fb
          /\ packets' = packets + 1
          /\ UNCHANGED <<up, face, cs, stale, management, credit>>
       \/ /\ ~ Poisoned(e.fib)
          /\ e.incoming # {} /\ AreAllOutgoingInVain(e)
          /\ \E F \in Targets(e, fb) :
                \/ /\ Survives(F, "null")
                   /\ pit' = [pit EXCEPT ![key] = Propagated(e, F)]
                   /\ fib' = fb
                   /\ packets' = packets + 1
                   /\ UNCHANGED <<up, face, cs, stale, management, credit>>
                \/ MayDie(F, "null") /\ Die
       \/ (Poisoned(e.fib) \/ Dangling(e.fib)) /\ Die

OnNack(f, n, x, code, life) ==
    StrayNack(f, n, x, life) \/ NackNotAsked(f, n, x) \/ NackAsked(f, n, x, code)

-----------------------------------------------------------------------------
(* Applications connect and leave; the daemon reads their end of file. *)

(* The daemon answers with the number of the connection, which may already *)
(* be closed: sending raises SIGPIPE then.                                 *)
Connect(f) ==
    /\ up /\ face[f] = "absent"
    /\ \/ face' = [face EXCEPT ![f] = "open"] /\ UNCHANGED up
       \/ AppsLeave /\ face' = [face EXCEPT ![f] = "hup"] /\ up' = FALSE
    /\ UNCHANGED <<tables, management, credit, packets>>

(* A management message about f is still to be processed. *)
Mentioned(f) ==
    \/ \E i \in 1..Len(queue) : queue[i].face = f
    \/ manager # Idle /\ manager.face = f

Leave(f) ==
    /\ up /\ AppsLeave /\ face[f] = "open"
    /\ AppsLinger => ~ Mentioned(f)
    /\ face' = [face EXCEPT ![f] = "hup"]
    /\ UNCHANGED <<up, tables, management, credit, packets>>

(* Mutant: no entry is dropped with a face. *)
NoneTrimmed(f) == {}

(* PIT entries dropped with f: their FIB entry is about to go away. *)
Trimmed(f) ==
    {n \in PitNames : pit[n].fib # NoFib /\ FacesAt(fib, pit[n].fib) = {f}}

(***************************************************************************)
(* RemoveFace on end of file.  RemoveFromAll steps past a FIB entry it has *)
(* just erased: undefined, and as a rule it goes on.                       *)
(***************************************************************************)
RemoveFace(f) ==
    /\ up /\ face[f] = "hup"
    /\ \/ /\ \A a \in FibNode : ~ Poisoned(a)
          /\ face' = [face EXCEPT ![f] = "gone"]
          /\ pit' = [n \in Name |->
                IF n \notin PitNames \/ n \in Trimmed(f) THEN NoEntry
                ELSE RemoveAllReferencesToFace(pit[n], f)]
          /\ fib' = [a \in FibNode |-> RemoveRecord(a, f)]
          /\ UNCHANGED <<up, cs, stale, management, credit, packets>>
       \/ /\ \/ \E a \in Allocated : Poisoned(a) \/ FacesAt(fib, a) = {f}
             \/ \E n \in PitNames : Dangling(pit[n].fib)
          /\ Die

(* A read error only takes the face out of the event monitor. *)
ReadError(f) ==
    /\ up /\ face[f] = "hup"
    /\ face' = [face EXCEPT ![f] = "deaf"]
    /\ UNCHANGED <<up, tables, management, credit, packets>>

-----------------------------------------------------------------------------
(* The management thread (NDNManagementInterface). *)

SendRequest(f, action, p) ==
    /\ up /\ f \in LocalFace /\ face[f] = "open"
    /\ action = "unreg" => AppsUnregister
    /\ Len(queue) < QueueSize /\ packets < MaxPackets
    /\ queue' = Append(queue, [action |-> action, prefix |-> p, face |-> f])
    /\ packets' = packets + 1
    /\ UNCHANGED <<up, face, tables, manager, inbuf, credit>>

(* Mutant: a face is found exactly when it is not there. *)
GetFaceSwapped(f) == IF f \in Attached THEN NoFace ELSE f

GetFace(f) == IF f \in Attached THEN f ELSE NoFace

(* In the JSON text of a message only these parts vary in length. *)
Length(r) == TextLength[r.prefix] + FaceLength[r.face]
             + (IF r.action = "selfreg" THEN 2 ELSE 0)

(***************************************************************************)
(* Senders leave out the final NUL and the buffer is not cleared: a        *)
(* message is read with the tail of the longer one before it, of which one *)
(* character is white space.                                               *)
(***************************************************************************)
Garbled(r) == inbuf > Length(r) + 1

(***************************************************************************)
(* receive(), read_json, which throws on a tail and is not caught, and     *)
(* GetFace: the face is looked up here and used in Manage.                 *)
(***************************************************************************)
TakeRequest ==
    /\ up /\ manager = Idle /\ queue # << >>
    /\ LET r == Head(queue)
       IN  \/ /\ ~ Garbled(r)
              /\ manager' = [r EXCEPT !.face = GetFace(@)]
              /\ inbuf' = Length(r)
              /\ queue' = Tail(queue)
              /\ UNCHANGED <<up, face, tables, credit, packets>>
           \/ Garbled(r) /\ Die

(* NDNFib::Add to an entry that exists; the status of a known face stays. *)
AddToEntry(a, f) ==
    \/ /\ f # NoFace /\ ~ Poisoned(a)
       /\ fib' = [fib EXCEPT ![a].faces = @ \cup {f}]
       /\ manager' = Idle
       /\ UNCHANGED <<up, face, pit, cs, stale, queue, inbuf, credit, packets>>
    \/ (f = NoFace \/ Poisoned(a)) /\ Die

(***************************************************************************)
(* NDNFib::Add that makes the entry.  The first record is inserted without *)
(* a comparison, so a NULL face gets in; logging it is fatal.              *)
(***************************************************************************)
AddNewEntry(p, f) ==
    \/ /\ \E a \in FibNode \ Allocated :
             fib' = [fib EXCEPT ![a] =
                        [prefix |-> p, faces |-> {f}, green |-> {}]]
       /\ manager' = Idle
       /\ UNCHANGED <<up, face, pit, cs, stale, queue, inbuf, credit, packets>>
    \/ f = NoFace /\ Die

(* RemovePrefix: the PIT entries that point to the erased entry stay.      *)
(* Logging a NULL face is fatal here as well.                              *)
RemovePrefix(p, f) ==
    \/ /\ \A a \in FibNodeOf(p) : f # NoFace /\ ~ Poisoned(a)
       /\ fib' = [a \in FibNode |->
                     IF a \in FibNodeOf(p) THEN RemoveRecord(a, f) ELSE fib[a]]
       /\ manager' = Idle
       /\ UNCHANGED <<up, face, pit, cs, stale, queue, inbuf, credit, packets>>
    \/ (f = NoFace \/ \E a \in FibNodeOf(p) : Poisoned(a)) /\ Die

Manage ==
    /\ up /\ manager # Idle
    /\ LET p == manager.prefix
           f == manager.face
       IN  \/ /\ manager.action = "selfreg"
              /\ \E a \in FibNodeOf(p) : AddToEntry(a, f)
           \/ /\ manager.action = "selfreg" /\ FibNodeOf(p) = {}
              /\ AddNewEntry(p, f)
           \/ /\ manager.action = "unreg"
              /\ RemovePrefix(p, f)

-----------------------------------------------------------------------------
(* Time passes; every REAP_INTERVAL the expired entries are removed. *)

Tick ==
    /\ up /\ \E n \in PitNames : pit[n].ttl > 0
    /\ pit' = [n \in Name |->
          IF n \notin PitNames \/ pit[n].ttl = 0 THEN pit[n]
          ELSE [pit[n] EXCEPT !.ttl = @ - 1]]
    /\ UNCHANGED <<up, face, fib, cs, stale, management, credit, packets>>

(* Mutant: an entry somebody waits on is not reaped. *)
ReapUnwanted ==
    /\ up
    /\ pit' = [n \in Name |->
          IF n \in PitNames /\ pit[n].ttl = 0 /\ pit[n].incoming = {}
          THEN NoEntry ELSE pit[n]]
    /\ UNCHANGED <<up, face, fib, cs, stale, management, credit, packets>>

Reap ==
    /\ up
    /\ pit' = [n \in Name |->
          IF n \in PitNames /\ pit[n].ttl = 0 THEN NoEntry ELSE pit[n]]
    /\ UNCHANGED <<up, face, fib, cs, stale, management, credit, packets>>

-----------------------------------------------------------------------------
Packet ==
    \E f \in Face, n \in InterestName :
        \/ OnData(f, n)
        \/ \E x \in Nonce, life \in Lifetime :
              \/ \E s \in Source \cup {NoSource} : OnInterest(f, n, x, life, s)
              \/ \E code \in NackCode : OnNack(f, n, x, code, life)

Application ==
    \E f \in LocalFace :
        \/ Connect(f)
        \/ Leave(f)
        \/ \E action \in {"selfreg", "unreg"}, p \in RegName :
              SendRequest(f, action, p)

Hangup == \E f \in LocalFace : RemoveFace(f) \/ ReadError(f)

Next == Packet \/ Application \/ Hangup \/ TakeRequest \/ Manage \/ Tick \/ Reap

(***************************************************************************)
(* libevent serves a readable descriptor and an expired timer, the         *)
(* management thread is scheduled, and time passes.  What applications and *)
(* peers send is not owed.                                                 *)
(***************************************************************************)
Fairness ==
    /\ WF_vars(Hangup) /\ WF_vars(TakeRequest) /\ WF_vars(Manage)
    /\ WF_vars(Tick) /\ WF_vars(Reap)

Spec == Init /\ [][Next]_vars

FairSpec == Spec /\ Fairness

-----------------------------------------------------------------------------
(* The types of the variables, and how the parts of a record nest. *)
TypeOK ==
    /\ up \in BOOLEAN
    /\ face \in [Face -> FaceState]
    /\ pit \in [Name -> PitEntry \cup {NoEntry}]
    /\ fib \in [FibNode -> FibEntry \cup {Freed}]
    /\ cs \subseteq Name /\ stale \subseteq cs
    /\ queue \in Seq(Message)
    /\ manager \in Request \cup {Idle}
    /\ inbuf \in Nat
    /\ credit \in [Requester -> Int]
    /\ packets \in 0..MaxPackets

(***************************************************************************)
(* Flow balance: the daemon never owes a requester (a face, or an address  *)
(* behind a hub face) more contents than it received Interests from it, so *)
(* one Interest brings at most one content however it was aggregated,      *)
(* retransmitted, nacked, given up, or answered from the cache.            *)
(***************************************************************************)
Owed(r) == {n \in PitNames : r \in pit[n].incoming \cup pit[n].sources}

FlowBalance == \A r \in Requester : Cardinality(Owed(r)) <= credit[r]

(***************************************************************************)
(* No PIT entry names a face that has been removed, as one that waits or   *)
(* as one that was asked, however its application leaves: answering it, or *)
(* matching an answer, follows the pointers of NDNL3Protocol::RemoveFace.  *)
(***************************************************************************)
PitFacesAttached ==
    \A n \in PitNames : pit[n].incoming \cup pit[n].outgoing \subseteq Attached

(***************************************************************************)
(* No route leads to a face that has been removed, as long as applications *)
(* stay until their registrations are processed (NDNFib::RemoveFromAll).   *)
(***************************************************************************)
RoutesLive == \A a \in Allocated : fib[a].faces \subseteq Attached

(***************************************************************************)
(* The FIB entry a pending Interest points to exists and is a route for    *)
(* the Interest's name (the raw pointer m_fibEntry).                       *)
(***************************************************************************)
PointersSound ==
    \A n \in PitNames : pit[n].fib # NoFib =>
        pit[n].fib \in Allocated /\ PrefixOf(fib[pit[n].fib].prefix, n)

(***************************************************************************)
(* A hub face that waits on an entry has an address to send to: content is *)
(* never sent to the default client instead (NDNHubOverIPDeviceFace::Send).*)
(***************************************************************************)
HubRequesterKnown ==
    \A n \in PitNames : pit[n].incoming \cap HubFace # {} => pit[n].sources # {}

(***************************************************************************)
(* The daemon dies for a reason only, which the state it leaves shows: a   *)
(* connection is broken; the next management message is read with the tail *)
(* of an older one; an Interest for "/" may meet an empty cache; a radio   *)
(* shares the daemon with hubs or nacks, whose packets lack the metadata   *)
(* it reads.  A pointer of a table that leads nowhere is no such reason:   *)
(* applications that stay until their registrations are processed, and     *)
(* never unregister, cannot make one (NDNL3Protocol::RemoveFace).          *)
(***************************************************************************)
Broken == \E f \in Face : face[f] \in {"hup", "deaf"}
TailFollows == queue # << >> /\ Garbled(Head(queue))
EmptyLookup == << >> \in InterestName /\ cs = {}
RadioMixed == AdhocFace # {} /\ (HubFace # {} \/ NackCode # {})

Reason == Broken \/ TailFollows \/ EmptyLookup \/ RadioMixed

DiesForAReason == up \/ Reason

(***************************************************************************)
(* A looping or repeated Interest is not forwarded again while its entry   *)
(* lives: an entry is sent out, or sent out again, only together with a    *)
(* nonce it had not seen (without nacks).                                  *)
(***************************************************************************)
ForwardedOnceStep ==
    \A n \in PitNames : n \in PitNames' =>
        \/ pit'[n].outgoing \subseteq pit[n].outgoing /\ pit'[n].retx = pit[n].retx
        \/ pit'[n].nonces # pit[n].nonces

ForwardedOnce == [][ForwardedOnceStep]_vars

(***************************************************************************)
(* No black hole: an Interest with a fresh nonce that is not answered at   *)
(* once has been asked of some face (without nacks).                       *)
(***************************************************************************)
FreshIsAskedStep ==
    \A n \in PitNames' :
        \/ n \in PitNames /\ pit'[n].nonces = pit[n].nonces
        \/ pit'[n].outgoing # {}

FreshIsAsked == [][FreshIsAskedStep]_vars

(* Once Interests stop coming, the PIT empties, or the daemon is dead. *)
PitDrains == <>[](~up \/ PitNames = {})
-----------------------------------------------------------------------------
(* What comments and assertions of the repository say of this code. *)

(***************************************************************************)
(* NDNFib::Add asserts that it gets a face ("Trying to modify NULL face"): *)
(* the management thread never registers a prefix for a face that is gone. *)
(***************************************************************************)
RegistersFace == manager # Idle => manager.face # NoFace

(***************************************************************************)
(* NDNManagementInterface: "infinite loop that waits for messages".  Every *)
(* message is taken, sooner or later.                                      *)
(***************************************************************************)
RequestsTaken == queue # << >> ~> manager # Idle

=============================================================================
